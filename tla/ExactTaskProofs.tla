--------------------------- MODULE ExactTaskProofs ---------------------------
(***************************************************************************)
(* What holds of ExactTask for any number of faults, foreign changes and    *)
(* recoveries that overlap their transaction.                               *)
(*                                                                          *)
(* The argument: every receipt is written on the strength of something that *)
(* nobody can take back afterwards (a pull request keeps its base, a merge  *)
(* stays one, a tag, a release and a status stay); an authorization asks    *)
(* for the receipt of the stage before; and a recovery that did not overlap *)
(* its transaction is alone with the stage.                                 *)
(***************************************************************************)
EXTENDS ExactTask, TLAPS

-----------------------------------------------------------------------------
(* What a stage's receipt stands on, and what its first marker does.  Both  *)
(* stay true once they are.                                                 *)
Earned(s) ==
  /\ s = "publish" => repo.prBase = "task"
  /\ s = "lifecycle" => repo.reviewers /\ repo.pr \in {"ready", "merged"}
  /\ s = "merge" => repo.pr = "merged" /\ repo.mergedOn = "task"
  /\ s = "release" => repo.tag /\ repo.releases >= 1
  /\ s = "deploy" => "ours" \in repo.deployments
  /\ s = "status" => "in_progress" \in repo.statuses
  /\ s = "success" => "success" \in repo.statuses
  /\ s = "activate" => sent["activate"] = 1

Begun(s) ==
  /\ s = "publish" => repo.head # "absent"
  /\ s = "lifecycle" => repo.pr \in {"ready", "merged"}
  /\ s = "merge" => repo.pr = "merged"
  /\ s = "release" => repo.tag

Closing(s) == saw[s].action \in {"write", "finalize"}

-----------------------------------------------------------------------------
(* What GitHub and the machine show for each write, and the writes' ledger. *)
World ==
  /\ repo.head = "absent" <=> sent["push"] = 0
  /\ repo.pr = "none" <=> sent["create"] = 0
  /\ repo.pr = "none" <=> repo.prBase = "none"
  /\ repo.pr # "none" => repo.head # "absent"
  /\ repo.pr \in {"none", "draft"} => sent["ready"] = 0 /\ ~repo.reviewers
  /\ repo.pr # "merged" => sent["merge"] = 0
  /\ repo.pr # "merged" <=> repo.mergedOn = "none"
  /\ repo.reviewers <=> sent["request"] > 0
  /\ repo.tag <=> sent["tag"] > 0
  /\ repo.releases = sent["release"] /\ (repo.releases > 0 => repo.tag)
  /\ "ours" \in repo.deployments <=> sent["deployment"] > 0
  /\ "in_progress" \in repo.statuses <=> sent["in_progress"] > 0
  /\ "success" \in repo.statuses <=> sent["success"] > 0
  /\ rig.switches = "active" => sent["activate"] = 1
  /\ \A w \in Write \ {"request", "release"} : sent[w] <= 1
  /\ rig.controller => "lock" \in book["activate"]

(* What other people did not do.                                            *)
Undrifted ==
  drift = 0 =>
    /\ repo.head # "other" /\ repo.prBase # "moved" /\ repo.mergedOn # "moved"
    /\ repo.main = IF repo.pr = "merged" THEN "merged" ELSE "task"
    /\ repo.pr \in {"ready", "merged"} => sent["ready"] > 0
    /\ repo.pr = "merged" => sent["merge"] > 0
    /\ "other" \notin repo.deployments /\ "other" \notin repo.statuses

-----------------------------------------------------------------------------
(* The two ledgers of a stage.                                              *)
Ledgers(s) ==
  /\ s \in live => s \in granted
  /\ book[s] # {} => s \in granted /\ s \notin live /\ "lock" \in book[s]
  /\ at[s] # "idle" => "lock" \in book[s] /\ "final" \notin book[s]
  /\ s \in granted => \A p \in Previous(s) : Done(p)
  /\ \A w \in WritesOf(s) : sent[w] > 0 => "lock" \in book[s]
  /\ rbook[s] # {} => "lock" \in rbook[s] /\ "lock" \in book[s]
  /\ rat[s] # "idle" => rbook[s] # {} /\ "final" \notin rbook[s]
  /\ rat[s] = "write" => saw[s].action = "write"

(* A recovery that did not overlap the transaction has the stage to itself. *)
Alone(s) ==
  /\ s \in overlap => rbook[s] # {}
  /\ rbook[s] # {} /\ s \notin overlap =>
       /\ at[s] = "idle" /\ "final" \notin book[s]
       /\ s = "activate" => ~rig.controller

(* What is known when a marker or a receipt is there, or about to be.       *)
Marks(s) ==
  /\ "first" \in book[s] => Begun(s)
  /\ "second" \in book[s] => "first" \in book[s] /\ Earned(s)
  /\ "final" \in book[s] => Earned(s)
  /\ at[s] \in {"create", "created", "request", "requested", "commit", "after", "alone",
                "release", "released", "exact"} => "first" \in book[s]
  /\ at[s] \in {"commit", "exact"} => "second" \in book[s]
  /\ s = "merge" /\ at[s] = "merged" => Begun(s)
  /\ s = "release" /\ at[s] = "tagged" => Begun(s)
  /\ s = "release" /\ at[s] = "released" => Earned(s)

Recovers(s) ==
  /\ rat[s] = "commit" /\ Closing(s) => Earned(s)
  /\ "final" \in rbook[s] /\ Closing(s) => Earned(s)
  /\ s = "lifecycle" /\ rat[s] = "write" => Begun(s)
  /\ s = "activate" /\ s \notin overlap /\ saw[s].action = "inactive" =>
       (rat[s] = "commit" \/ "final" \in rbook[s] => rig.switches # "active")

(* Which of the transaction and its recovery may have made a write already. *)
Unsent ==
  {"recheck", "ready", "readied", "request", "tag", "tagged", "alone", "release", "post"}
NotByTransaction(s) == book[s] = {} \/ at[s] \in Unsent
NotByRecovery(s) == rbook[s] = {} \/ rat[s] \in {"recheck", "write"}

Shared(s, w) ==
  /\ NotByTransaction(s) \/ NotByRecovery(s) \/ s \notin overlap => sent[w] <= 1
  /\ NotByTransaction(s) /\ NotByRecovery(s) => sent[w] = 0
  /\ rat[s] = "write" /\ s \notin overlap => sent[w] = 0

Sends(s) ==
  /\ s = "lifecycle" => Shared(s, "request")
  /\ s = "release" => Shared(s, "release")
  /\ s \in {"deploy", "status", "success"} /\ NotByTransaction(s) =>
       \A w \in WritesOf(s) : sent[w] = 0

(* A request for reviewers has a marker before it, or a recovery made it.   *)
Asked(s) == s = "lifecycle" /\ sent["request"] > 0 => "first" \in book[s] \/ rbook[s] # {}

StageInv(s) ==
  Ledgers(s) /\ Alone(s) /\ Marks(s) /\ Recovers(s) /\ Sends(s) /\ Asked(s)

TaskInv == TypeOK /\ World /\ Undrifted /\ \A s \in Stage : StageInv(s)

-----------------------------------------------------------------------------
(* Nobody can take back what a receipt or a marker stands on.               *)
Stays == \A t \in Stage : (Earned(t) => Earned(t)') /\ (Begun(t) => Begun(t)')

LEMMA DoneGrows ==
  ASSUME NEW p \in Stage, Done(p), book[p] \subseteq book'[p], rbook[p] \subseteq rbook'[p],
         saw'[p] = saw[p]
  PROVE  Done(p)'
  BY DEF Done, Completed, Recovered

LEMMA PreviousIsStage == \A s \in Stage : Previous(s) \subseteq Stage
  BY DEF Stage, Previous

LEMMA Shapes ==
  ASSUME TypeOK, NEW s \in Stage
  PROVE  /\ book[s] \subseteq Files /\ rbook[s] \subseteq RecoveryFiles
         /\ at[s] \in Places /\ rat[s] \in RecoveryPlaces
  BY DEF TypeOK

(* A step of one transaction that touches neither GitHub nor the machine.   *)
LEMMA TransactionKeeps ==
  ASSUME TaskInv, NEW s \in Stage, UNCHANGED <<recovery, world, drift>>, TypeOK',
         \A t \in Stage \ {s} : /\ t \in granted' <=> t \in granted
                                /\ t \in live' <=> t \in live
                                /\ book'[t] = book[t] /\ at'[t] = at[t],
         book[s] \subseteq book'[s],
         StageInv(s)'
  PROVE  TaskInv'
<1>1. UNCHANGED <<rbook, rat, saw, overlap, repo, rig, sent, drift>>
  BY DEF recovery, world
<1>2. \A t \in Stage : book[t] \subseteq book'[t]
  OBVIOUS
<1>3. \A p \in Stage : Done(p) => Done(p)'
  BY <1>1, <1>2, DoneGrows
<1>4. World' /\ Undrifted'
  BY <1>1, <1>2 DEF TaskInv, World, Undrifted, Stage
<1>5. ASSUME NEW t \in Stage, t # s
      PROVE  StageInv(t)'
  <2>1. StageInv(t) /\ book'[t] = book[t] /\ at'[t] = at[t]
        /\ (t \in granted' <=> t \in granted) /\ (t \in live' <=> t \in live)
    BY <1>5 DEF TaskInv
  <2>2. Ledgers(t)'
    BY <1>1, <1>3, <2>1, PreviousIsStage DEF StageInv, Ledgers
  <2>3. Alone(t)' /\ Recovers(t)'
    BY <1>1, <2>1 DEF StageInv, Alone, Recovers, Closing, Earned, Begun
  <2>4. Marks(t)'
    BY <1>1, <2>1 DEF StageInv, Marks, Earned, Begun
  <2>5. Sends(t)'
    BY <1>1, <2>1 DEF StageInv, Sends, Shared, NotByTransaction, NotByRecovery
  <2> QED  BY <1>1, <2>1, <2>2, <2>3, <2>4, <2>5 DEF StageInv, Asked
<1> QED  BY <1>4, <1>5 DEF TaskInv

(* The same of a recovery.                                                  *)
LEMMA RecoveryKeeps ==
  ASSUME TaskInv, NEW s \in Stage, UNCHANGED <<transaction, world, drift>>, TypeOK',
         \A t \in Stage \ {s} : /\ rbook'[t] = rbook[t] /\ rat'[t] = rat[t] /\ saw'[t] = saw[t]
                                /\ t \in overlap' <=> t \in overlap,
         Done(s) => Done(s)',
         StageInv(s)'
  PROVE  TaskInv'
<1>1. UNCHANGED <<granted, live, book, at, repo, rig, sent, drift>>
  BY DEF transaction, world
<1>2. \A p \in Stage : Done(p) => Done(p)'
  BY <1>1 DEF Done, Completed, Recovered
<1>3. World' /\ Undrifted'
  BY <1>1 DEF TaskInv, World, Undrifted
<1>4. ASSUME NEW t \in Stage, t # s
      PROVE  StageInv(t)'
  <2>1. StageInv(t) /\ rbook'[t] = rbook[t] /\ rat'[t] = rat[t] /\ saw'[t] = saw[t]
        /\ (t \in overlap' <=> t \in overlap)
    BY <1>4 DEF TaskInv
  <2>2. Ledgers(t)'
    BY <1>1, <1>2, <2>1, PreviousIsStage DEF StageInv, Ledgers
  <2>3. Alone(t)' /\ Recovers(t)'
    BY <1>1, <2>1 DEF StageInv, Alone, Recovers, Closing, Earned, Begun
  <2>4. Marks(t)'
    BY <1>1, <2>1 DEF StageInv, Marks, Earned, Begun
  <2>5. Sends(t)'
    BY <1>1, <2>1 DEF StageInv, Sends, Shared, NotByTransaction, NotByRecovery
  <2> QED  BY <1>1, <2>1, <2>2, <2>3, <2>4, <2>5 DEF StageInv, Asked
<1> QED  BY <1>3, <1>4 DEF TaskInv

(* A step that does change GitHub or the machine, for stage s or by others. *)
LEMMA WorldKeeps ==
  ASSUME TaskInv, NEW s \in Stage, UNCHANGED <<granted, live, book, rbook, saw, overlap>>,
         TypeOK', World', Undrifted', Stays,
         \A t \in Stage \ {s} : /\ at'[t] = at[t] /\ rat'[t] = rat[t]
                                /\ \A w \in WritesOf(t) : sent'[w] = sent[w],
         s # "activate" => UNCHANGED rig,
         StageInv(s)'
  PROVE  TaskInv'
<1>1. \A p \in Stage : Done(p) => Done(p)'
  BY DEF Done, Completed, Recovered
<1>2. ASSUME NEW t \in Stage, t # s
      PROVE  StageInv(t)'
  <2>1. /\ StageInv(t) /\ at'[t] = at[t] /\ rat'[t] = rat[t]
        /\ \A w \in WritesOf(t) : sent'[w] = sent[w]
        /\ (Earned(t) => Earned(t)') /\ (Begun(t) => Begun(t)')
    BY <1>2 DEF TaskInv, Stays
  <2>2. t = "activate" => UNCHANGED rig
    BY <1>2
  <2>3. Ledgers(t)'
    BY <1>1, <2>1, PreviousIsStage DEF StageInv, Ledgers
  <2>4. Alone(t)' /\ Recovers(t)'
    BY <2>1, <2>2 DEF StageInv, Alone, Recovers, Closing
  <2>5. Marks(t)'
    BY <2>1 DEF StageInv, Marks
  <2>6. Sends(t)'
    BY <2>1 DEF StageInv, Sends, Shared, NotByTransaction, NotByRecovery, WritesOf
  <2>7. Asked(t)'
    BY <2>1 DEF StageInv, Asked, WritesOf
  <2> QED  BY <2>3, <2>4, <2>5, <2>6, <2>7 DEF StageInv
<1> QED  BY <1>2 DEF TaskInv

-----------------------------------------------------------------------------
(* The steps every transaction has.                                         *)
LEMMA FaultsCounted ==
  ASSUME TypeOK, NEW kind, UNCHANGED faults \/ Fault(kind)
  PROVE  faults' \in 0..MaxFaults
  BY ExactTaskAssumption DEF TypeOK, Fault

LEMMA EnterIs ==
  ASSUME NEW ledger \in [Stage -> SUBSET Files], NEW s \in Stage, NEW written \in Files
  PROVE  /\ Enter(ledger, s, written) \in [Stage -> SUBSET Files]
         /\ Enter(ledger, s, written)[s] = ledger[s] \cup {written}
         /\ \A t \in Stage \ {s} : Enter(ledger, s, written)[t] = ledger[t]
  BY DEF Enter

LEMMA GrantKeeps ==
  ASSUME TaskInv, NEW s \in Stage, s \notin granted,
         \A p \in Previous(s) : Done(p),
         granted' = granted \cup {s},
         \/ live' = live \cup {s} /\ UNCHANGED faults
         \/ UNCHANGED live /\ Fault("disk"),
         UNCHANGED <<book, at, recovery, world, drift>>
  PROVE  TaskInv'
<1>1. TypeOK /\ StageInv(s)
  BY DEF TaskInv
<1>2. UNCHANGED <<rbook, rat, saw, overlap, repo, rig, sent, drift>>
  BY DEF recovery, world
<1>3. TypeOK'
  BY <1>1, <1>2, FaultsCounted DEF TypeOK
<1>4. book[s] = {} /\ at[s] = "idle"
  BY <1>1 DEF StageInv, Ledgers
<1>5. Ledgers(s)'
  BY <1>1, <1>2, <1>4 DEF StageInv, Ledgers, Done, Completed, Recovered
<1>6. Alone(s)' /\ Recovers(s)' /\ Marks(s)' /\ Sends(s)'
  BY <1>1, <1>2 DEF StageInv, Alone, Recovers, Closing, Marks, Earned, Begun, Sends, Shared,
     NotByTransaction, NotByRecovery
<1>7. StageInv(s)'
  BY <1>1, <1>2, <1>5, <1>6 DEF StageInv, Asked
<1> QED  BY <1>3, <1>7, TransactionKeeps

LEMMA AcquireKeeps ==
  ASSUME TaskInv, NEW s \in Stage, NEW right, Acquire(s, right)
  PROVE  TaskInv'
<1>1. TypeOK /\ StageInv(s) /\ s \in live /\ at[s] = "idle" /\ book[s] = {}
  BY DEF TaskInv, Acquire
<1>2. UNCHANGED <<granted, rbook, rat, saw, overlap, repo, rig, sent, drift>>
  BY DEF Acquire, recovery, world
<1>3. /\ book' = Enter(book, s, "lock") /\ live' = live \ {s}
      /\ at' = [at EXCEPT ![s] = "recheck"] \/ UNCHANGED at
      /\ UNCHANGED faults \/ Fault("disk")
  BY DEF Acquire, Advance
<1>4. /\ book' \in [Stage -> SUBSET Files] /\ book'[s] = {"lock"}
      /\ \A t \in Stage \ {s} : book'[t] = book[t]
  BY <1>1, <1>3, EnterIs DEF TypeOK, Files
<1>5. /\ at' \in [Stage -> Places] /\ at'[s] \in {"idle", "recheck"}
      /\ \A t \in Stage \ {s} : at'[t] = at[t]
  BY <1>1, <1>3 DEF TypeOK, Places
<1>6. TypeOK'
  BY <1>1, <1>2, <1>3, <1>4, <1>5, FaultsCounted DEF TypeOK
<1>7. Ledgers(s)'
  BY <1>1, <1>2, <1>3, <1>4, PreviousIsStage DEF StageInv, Ledgers, Done, Completed, Recovered
<1>8. rbook[s] = {} /\ s \notin overlap
  BY <1>1 DEF StageInv, Ledgers, Alone
<1>9. Alone(s)' /\ Recovers(s)' /\ Marks(s)' /\ Sends(s)'
  BY <1>1, <1>2, <1>4, <1>5, <1>8 DEF StageInv, Ledgers, Alone, Recovers, Closing, Marks,
     Earned, Begun, Sends, Shared, NotByTransaction, NotByRecovery, Unsent
<1>10. StageInv(s)'
  BY <1>1, <1>2, <1>4, <1>7, <1>9 DEF StageInv, Asked
<1>11. \A t \in Stage \ {s} : /\ t \in granted' <=> t \in granted
                              /\ t \in live' <=> t \in live
                              /\ book'[t] = book[t] /\ at'[t] = at[t]
  <2> TAKE t \in Stage \ {s}
  <2> QED  BY <1>2, <1>3, <1>4, <1>5
<1>12. book[s] \subseteq book'[s] /\ UNCHANGED <<recovery, world, drift>>
  BY <1>1, <1>4 DEF Acquire
<1> QED  BY <1>6, <1>10, <1>11, <1>12, TransactionKeeps

(* A transaction moves on, or stops, or writes a file, or dies.             *)
LEMMA TransactionMoves ==
  ASSUME TaskInv, NEW s \in Stage, at[s] # "idle" \/ s \in live,
         UNCHANGED <<granted, recovery, world, drift>>,
         live' \in {live, live \ {s}},
         NEW kind, UNCHANGED faults \/ Fault(kind),
         NEW to \in Places, at' = [at EXCEPT ![s] = to],
         to # "idle" => at[s] # "idle",
         to \in Unsent => at[s] \in Unsent,
         NEW written \in {"first", "second", "final"},
         book' = book \/ (at[s] # "idle" /\ book' = Enter(book, s, written)),
         "final" \in book'[s] => to = "idle" \/ UNCHANGED book,
         Marks(s)'
  PROVE  TaskInv'
<1>1. TypeOK /\ StageInv(s)
  BY DEF TaskInv
<1>2. UNCHANGED <<rbook, rat, saw, overlap, repo, rig, sent, drift>>
  BY DEF recovery, world
<1>3. /\ book' \in [Stage -> SUBSET Files] /\ book[s] \subseteq book'[s]
      /\ book'[s] # {} => book[s] # {}
      /\ book'[s] \subseteq book[s] \cup {written}
      /\ \A t \in Stage \ {s} : book'[t] = book[t]
  <2>1. CASE book' = book
    BY <1>1, <2>1 DEF TypeOK
  <2>2. CASE at[s] # "idle" /\ book' = Enter(book, s, written)
    <3>1. written \in Files /\ book \in [Stage -> SUBSET Files] /\ "lock" \in book[s]
      BY <1>1, <2>2 DEF Files, TypeOK, StageInv, Ledgers
    <3> QED  BY <2>2, <3>1, EnterIs
  <2> QED  BY <2>1, <2>2
<1>4. /\ at' \in [Stage -> Places] /\ at'[s] = to
      /\ \A t \in Stage \ {s} : at'[t] = at[t]
  BY <1>1 DEF TypeOK
<1>5. TypeOK'
  BY <1>1, <1>2, <1>3, <1>4, FaultsCounted DEF TypeOK
<1>6. \A t \in Stage : Done(t) => Done(t)'
  BY <1>2, <1>3, DoneGrows
<1>7. Ledgers(s)'
  BY <1>1, <1>2, <1>3, <1>4, <1>6, PreviousIsStage DEF StageInv, Ledgers
<1>8. at[s] = "idle" => book[s] = {} /\ UNCHANGED book
  BY <1>1 DEF StageInv, Ledgers
<1>9. Alone(s)' /\ Recovers(s)'
  BY <1>1, <1>2, <1>3, <1>4, <1>8 DEF StageInv, Ledgers, Alone, Recovers, Closing, Earned, Begun
<1>10. Sends(s)'
  BY <1>1, <1>2, <1>3, <1>4 DEF StageInv, Sends, Shared, NotByTransaction, NotByRecovery
<1>11. StageInv(s)'
  BY <1>1, <1>2, <1>3, <1>7, <1>9, <1>10 DEF StageInv, Asked
<1>12. \A t \in Stage \ {s} : /\ t \in granted' <=> t \in granted
                              /\ t \in live' <=> t \in live
                              /\ book'[t] = book[t] /\ at'[t] = at[t]
  <2> TAKE t \in Stage \ {s}
  <2> QED  BY <1>3, <1>4
<1> QED  BY <1>3, <1>5, <1>11, <1>12, TransactionKeeps

LEMMA TransactionStops ==
  ASSUME TaskInv, NEW s \in Stage, at[s] # "idle" \/ s \in live,
         UNCHANGED <<granted, book, recovery, world, drift>>,
         live' \in {live, live \ {s}},
         NEW kind, UNCHANGED faults \/ Fault(kind), Stop(s)
  PROVE  TaskInv'
<1>1. TypeOK /\ Marks(s) /\ at' = [at EXCEPT ![s] = "idle"] /\ at'[s] = "idle"
  BY DEF TaskInv, StageInv, Stop, Advance, TypeOK
<1>2. UNCHANGED <<repo, rig, sent>> /\ "idle" \in Places /\ "idle" \notin Unsent
  BY DEF world, Places, Unsent
<1>3. Marks(s)'
  BY <1>1, <1>2 DEF Marks, Earned, Begun
<1> QED  BY <1>1, <1>2, <1>3, TransactionMoves

(* What a file needs before it is written, and a place before it is entered. *)
AfterFirst == {"create", "created", "request", "requested", "commit", "after", "alone",
               "release", "released", "exact"}
FileFits(s, written) ==
  /\ written = "first" => Begun(s)
  /\ written = "second" => "first" \in book[s] /\ Earned(s)
  /\ written = "final" => Earned(s)
PlaceFits(s, files, to) ==
  /\ to \in AfterFirst => "first" \in files
  /\ to \in {"commit", "exact"} => "second" \in files
  /\ to \notin {"merged", "tagged", "released"}

LEMMA RecordKeeps ==
  ASSUME TaskInv, NEW s \in Stage, NEW from \in Places \ {"idle"}, NEW right,
         NEW written \in {"first", "second", "final"}, NEW to \in Places,
         Record(s, from, right, written, to),
         to \in Unsent => from \in Unsent,
         written = "final" => to = "idle",
         right => FileFits(s, written),
         PlaceFits(s, book[s] \cup {written}, to)
  PROVE  TaskInv'
<1>1. TypeOK /\ Marks(s) /\ at[s] = from /\ at[s] # "idle"
  BY DEF TaskInv, StageInv, Record
<1>2. UNCHANGED <<granted, live, recovery, repo, rig, sent, drift>>
  BY DEF Record, world
<1>3. CASE /\ right /\ book' = Enter(book, s, written) /\ Advance(s, to) /\ UNCHANGED faults
  <2>1. at' = [at EXCEPT ![s] = to] /\ at'[s] = to /\ book'[s] = book[s] \cup {written}
    <3>1. written \in Files
      BY DEF Files
    <3> QED  BY <1>1, <1>3, <3>1, EnterIs DEF TypeOK, Advance
  <2>2. Marks(s)'
    BY <1>1, <1>2, <1>3, <2>1 DEF Marks, Earned, Begun, FileFits, PlaceFits, AfterFirst
  <2>3. "final" \in book'[s] => to = "idle"
    BY <1>1, <2>1 DEF TaskInv, StageInv, Ledgers
  <2> QED  BY <1>1, <1>2, <1>3, <2>1, <2>2, <2>3, TransactionMoves DEF world
<1>4. CASE /\ right /\ Fault("disk") /\ book' \in {book, Enter(book, s, written)} /\ Stop(s)
  <2>1. at' = [at EXCEPT ![s] = "idle"] /\ at'[s] = "idle"
    BY <1>1, <1>4 DEF TypeOK, Stop, Advance
  <2>2. book'[s] = book[s] \/ book'[s] = book[s] \cup {written}
    <3>1. written \in Files
      BY DEF Files
    <3> QED  BY <1>1, <1>4, <3>1, EnterIs DEF TypeOK
  <2>3. Marks(s)'
    BY <1>1, <1>2, <1>4, <2>1, <2>2 DEF Marks, Earned, Begun, FileFits
  <2>4. "idle" \in Places /\ "idle" \notin Unsent
    BY DEF Places, Unsent
  <2> QED  BY <1>1, <1>2, <1>4, <2>1, <2>3, <2>4, TransactionMoves DEF world
<1>5. CASE Stop(s) /\ UNCHANGED <<book, faults>>
  BY <1>1, <1>2, <1>5, TransactionStops DEF world
<1> QED  BY <1>3, <1>4, <1>5 DEF Record

LEMMA CheckKeeps ==
  ASSUME TaskInv, NEW s \in Stage, NEW from \in Places \ {"idle"}, NEW right, NEW to \in Places,
         Check(s, from, right, to),
         to \in Unsent => from \in Unsent,
         PlaceFits(s, book[s], to)
  PROVE  TaskInv'
<1> DEFINE place == IF right THEN to ELSE "idle"
<1>1. TypeOK /\ Marks(s) /\ at[s] = from /\ at[s] # "idle"
  BY DEF TaskInv, StageInv, Check
<1>2. UNCHANGED <<granted, live, book, recovery, repo, rig, sent, faults, drift>>
  BY DEF Check, world
<1>3. at' = [at EXCEPT ![s] = place] /\ at'[s] = place
  BY <1>1 DEF TypeOK, Check, Advance
<1>4. place \in Places /\ (place \in Unsent => from \in Unsent) /\ PlaceFits(s, book[s], place)
  BY DEF Places, Unsent, PlaceFits, AfterFirst
<1> HIDE DEF place
<1>5. Marks(s)'
  BY <1>1, <1>2, <1>3, <1>4 DEF Marks, Earned, Begun, PlaceFits, AfterFirst
<1>6. UNCHANGED <<granted, recovery, world, drift>> /\ UNCHANGED book /\ UNCHANGED faults
      /\ UNCHANGED live
  BY <1>2 DEF world
<1> QED  BY <1>1, <1>3, <1>4, <1>5, <1>6, TransactionMoves

-----------------------------------------------------------------------------
(* The authorizations.                                                      *)
LEMMA AuthorizeKeeps ==
  ASSUME TaskInv, NEW s \in Stage, NEW attested, Grant(s, attested),
         attested => \A p \in Previous(s) : Done(p)
  PROVE  TaskInv'
  BY GrantKeeps DEF Grant

LEMMA OnceIsDone == \A s : CompletedOnce(s) => Done(s)
  BY DEF CompletedOnce, Done, Completed, Recovered

LEMMA Authorizations ==
  ASSUME TaskInv,
         \/ AuthorizePublication \/ AuthorizeLifecycle \/ AuthorizeMerge \/ AuthorizeRelease
         \/ AuthorizeDeployment \/ AuthorizeStatus \/ AuthorizeSuccess \/ AuthorizeActivation
  PROVE  TaskInv'
<1>1. CASE AuthorizePublication
  BY <1>1, AuthorizeKeeps DEF AuthorizePublication, Previous, Stage
<1>2. CASE AuthorizeLifecycle
  BY <1>2, AuthorizeKeeps, OnceIsDone DEF AuthorizeLifecycle, Previous, Stage, PublicationAttested
<1>3. CASE AuthorizeMerge
  BY <1>3, AuthorizeKeeps, OnceIsDone DEF AuthorizeMerge, Previous, Stage, LifecycleAttested
<1>4. CASE AuthorizeRelease
  BY <1>4, AuthorizeKeeps, OnceIsDone DEF AuthorizeRelease, Previous, Stage, MergeAttested
<1>5. CASE AuthorizeDeployment
  BY <1>5, AuthorizeKeeps, OnceIsDone DEF AuthorizeDeployment, Previous, Stage, ReleaseAttested
<1>6. CASE AuthorizeStatus
  BY <1>6, AuthorizeKeeps, OnceIsDone DEF AuthorizeStatus, Previous, Stage, DeploymentAttested
<1>7. CASE AuthorizeSuccess
  BY <1>7, AuthorizeKeeps, OnceIsDone DEF AuthorizeSuccess, Previous, Stage, StatusAttested
<1>8. CASE AuthorizeActivation
  BY <1>8, AuthorizeKeeps, OnceIsDone DEF AuthorizeActivation, Previous, Stage, SuccessAttested
<1> QED  BY <1>1, <1>2, <1>3, <1>4, <1>5, <1>6, <1>7, <1>8

LEMMA Acquisitions ==
  ASSUME TaskInv,
         \/ AcquirePublication \/ AcquireLifecycle \/ AcquireMerge \/ AcquireRelease
         \/ AcquireDeployment \/ AcquireStatus \/ AcquireSuccess \/ AcquireActivation
  PROVE  TaskInv'
  BY AcquireKeeps DEF AcquirePublication, AcquireLifecycle, AcquireMerge, AcquireRelease,
     AcquireDeployment, AcquireStatus, AcquireSuccess, AcquireActivation, Stage

(* The observations before a request, and the second look at a tag.         *)
LEMMA Looks ==
  ASSUME TaskInv,
         \/ RecheckLane \/ RecheckPreState \/ RecheckPreMerge \/ RecheckClear
         \/ RecheckDeployment \/ RecheckStatus \/ RecheckSuccess \/ RecheckActivation
         \/ CheckTagAlone
  PROVE  TaskInv'
<1>1. ASSUME NEW s \in Stage, NEW right,
             NEW to \in {"push", "ready", "merge", "tag", "post", "run"},
             Check(s, "recheck", right, to)
      PROVE  TaskInv'
  <2>1. /\ "recheck" \in Places \ {"idle"} /\ to \in Places /\ "recheck" \in Unsent
        /\ PlaceFits(s, book[s], to)
    BY DEF Places, Unsent, PlaceFits, AfterFirst
  <2> QED  BY <1>1, <2>1, CheckKeeps
<1>2. CASE CheckTagAlone
  <2>1. at["release"] = "alone" /\ Marks("release") /\ "release" \in Stage
    BY <1>2 DEF CheckTagAlone, Check, TaskInv, StageInv, Stage
  <2>2. /\ "alone" \in Places \ {"idle"} /\ "release" \in Places /\ "alone" \in Unsent
        /\ PlaceFits("release", book["release"], "release")
    BY <2>1 DEF Places, Unsent, PlaceFits, AfterFirst, Marks
  <2> QED  BY <1>2, <2>1, <2>2, CheckKeeps DEF CheckTagAlone
<1> QED  BY <1>1, <1>2 DEF RecheckLane, RecheckPreState, RecheckPreMerge, RecheckClear,
            RecheckDeployment, RecheckStatus, RecheckSuccess, RecheckActivation, Stage

-----------------------------------------------------------------------------
(* The markers and the receipts.                                            *)
LEMMA Records ==
  ASSUME TaskInv,
         \/ MarkPushed \/ MarkPr \/ CommitPublication
         \/ MarkReadyRecord \/ MarkReviewers \/ CommitLifecycle
         \/ MarkMerged \/ CommitMerge
         \/ MarkTag \/ MarkRelease \/ CommitRelease
         \/ CommitDeployment \/ CommitStatus \/ CommitSuccess \/ CommitActivation
  PROVE  TaskInv'
<1>1. World /\ \A s \in Stage : Marks(s)
  BY DEF TaskInv, StageInv
<1>2. CASE MarkPushed
  <2>1. Record("publish", "pushed", repo.main = "task" /\ repo.head = "exact" /\ repo.pr = "none",
               "first", "create")
    BY <1>2 DEF MarkPushed
  <2>2. "publish" \in Stage /\ at["publish"] = "pushed" /\ Marks("publish")
    BY <1>1, <2>1 DEF Record, Stage
  <2>3. repo.main = "task" /\ repo.head = "exact" /\ repo.pr = "none" =>
          FileFits("publish", "first")
    BY <1>1, <2>2 DEF FileFits, Marks, Begun, Earned
  <2>4. /\ "pushed" \in Places \ {"idle"} /\ "create" \in Places
        /\ "create" \in Unsent => "pushed" \in Unsent
        /\ PlaceFits("publish", book["publish"] \cup {"first"}, "create")
    BY <2>2 DEF Places, Unsent, PlaceFits, AfterFirst, Marks
  <2> QED  BY <2>1, <2>2, <2>3, <2>4, RecordKeeps
<1>3. CASE MarkPr
  <2>1. Record("publish", "created", DraftExact /\ repo.main = "task",
               "second", "commit")
    BY <1>3 DEF MarkPr
  <2>2. "publish" \in Stage /\ at["publish"] = "created" /\ Marks("publish")
    BY <1>1, <2>1 DEF Record, Stage
  <2>3. DraftExact /\ repo.main = "task" => FileFits("publish", "second")
    BY <1>1, <2>2 DEF FileFits, Marks, Begun, Earned, DraftExact
  <2>4. /\ "created" \in Places \ {"idle"} /\ "commit" \in Places
        /\ "commit" \in Unsent => "created" \in Unsent
        /\ PlaceFits("publish", book["publish"] \cup {"second"}, "commit")
    BY <2>2 DEF Places, Unsent, PlaceFits, AfterFirst, Marks
  <2> QED  BY <2>1, <2>2, <2>3, <2>4, RecordKeeps
<1>4. CASE CommitPublication
  <2>1. Record("publish", "commit", {"lock", "first", "second"} \subseteq book["publish"],
               "final", "idle")
    BY <1>4 DEF CommitPublication
  <2>2. "publish" \in Stage /\ at["publish"] = "commit" /\ Marks("publish")
    BY <1>1, <2>1 DEF Record, Stage
  <2>3. {"lock", "first", "second"} \subseteq book["publish"] => FileFits("publish", "final")
    BY <1>1, <2>2 DEF FileFits, Marks, Begun, Earned
  <2>4. /\ "commit" \in Places \ {"idle"} /\ "idle" \in Places
        /\ "idle" \in Unsent => "commit" \in Unsent
        /\ PlaceFits("publish", book["publish"] \cup {"final"}, "idle")
    BY <2>2 DEF Places, Unsent, PlaceFits, AfterFirst, Marks
  <2> QED  BY <2>1, <2>2, <2>3, <2>4, RecordKeeps
<1>5. CASE MarkReadyRecord
  <2>1. Record("lifecycle", "readied", ReadyState, "first", "request")
    BY <1>5 DEF MarkReadyRecord
  <2>2. "lifecycle" \in Stage /\ at["lifecycle"] = "readied" /\ Marks("lifecycle")
    BY <1>1, <2>1 DEF Record, Stage
  <2>3. ReadyState => FileFits("lifecycle", "first")
    BY <1>1, <2>2 DEF FileFits, Marks, Begun, Earned, ReadyState
  <2>4. /\ "readied" \in Places \ {"idle"} /\ "request" \in Places
        /\ "request" \in Unsent => "readied" \in Unsent
        /\ PlaceFits("lifecycle", book["lifecycle"] \cup {"first"}, "request")
    BY <2>2 DEF Places, Unsent, PlaceFits, AfterFirst, Marks
  <2> QED  BY <2>1, <2>2, <2>3, <2>4, RecordKeeps
<1>6. CASE MarkReviewers
  <2>1. Record("lifecycle", "requested", FinalState, "second", "commit")
    BY <1>6 DEF MarkReviewers
  <2>2. "lifecycle" \in Stage /\ at["lifecycle"] = "requested" /\ Marks("lifecycle")
    BY <1>1, <2>1 DEF Record, Stage
  <2>3. FinalState => FileFits("lifecycle", "second")
    BY <1>1, <2>2 DEF FileFits, Marks, Begun, Earned, FinalState
  <2>4. /\ "requested" \in Places \ {"idle"} /\ "commit" \in Places
        /\ "commit" \in Unsent => "requested" \in Unsent
        /\ PlaceFits("lifecycle", book["lifecycle"] \cup {"second"}, "commit")
    BY <2>2 DEF Places, Unsent, PlaceFits, AfterFirst, Marks
  <2> QED  BY <2>1, <2>2, <2>3, <2>4, RecordKeeps
<1>7. CASE CommitLifecycle
  <2>1. Record("lifecycle", "commit", {"lock", "first", "second"} \subseteq book["lifecycle"],
               "final", "idle")
    BY <1>7 DEF CommitLifecycle
  <2>2. "lifecycle" \in Stage /\ at["lifecycle"] = "commit" /\ Marks("lifecycle")
    BY <1>1, <2>1 DEF Record, Stage
  <2>3. {"lock", "first", "second"} \subseteq book["lifecycle"] => FileFits("lifecycle", "final")
    BY <1>1, <2>2 DEF FileFits, Marks, Begun, Earned
  <2>4. /\ "commit" \in Places \ {"idle"} /\ "idle" \in Places
        /\ "idle" \in Unsent => "commit" \in Unsent
        /\ PlaceFits("lifecycle", book["lifecycle"] \cup {"final"}, "idle")
    BY <2>2 DEF Places, Unsent, PlaceFits, AfterFirst, Marks
  <2> QED  BY <2>1, <2>2, <2>3, <2>4, RecordKeeps
<1>8. CASE MarkMerged
  <2>1. Record("merge", "merged", TRUE, "first", "after")
    BY <1>8 DEF MarkMerged
  <2>2. "merge" \in Stage /\ at["merge"] = "merged" /\ Marks("merge")
    BY <1>1, <2>1 DEF Record, Stage
  <2>3. FileFits("merge", "first")
    BY <1>1, <2>2 DEF FileFits, Marks, Begun, Earned
  <2>4. /\ "merged" \in Places \ {"idle"} /\ "after" \in Places
        /\ "after" \in Unsent => "merged" \in Unsent
        /\ PlaceFits("merge", book["merge"] \cup {"first"}, "after")
    BY <2>2 DEF Places, Unsent, PlaceFits, AfterFirst, Marks
  <2> QED  BY <2>1, <2>2, <2>3, <2>4, RecordKeeps
<1>9. CASE CommitMerge
  <2>1. Record("merge", "after", PostMerge /\ {"lock", "first"} \subseteq book["merge"],
               "final", "idle")
    BY <1>9 DEF CommitMerge
  <2>2. "merge" \in Stage /\ at["merge"] = "after" /\ Marks("merge")
    BY <1>1, <2>1 DEF Record, Stage
  <2>3. PostMerge /\ {"lock", "first"} \subseteq book["merge"] => FileFits("merge", "final")
    BY <1>1, <2>2 DEF FileFits, Marks, Begun, Earned, PostMerge
  <2>4. /\ "after" \in Places \ {"idle"} /\ "idle" \in Places
        /\ "idle" \in Unsent => "after" \in Unsent
        /\ PlaceFits("merge", book["merge"] \cup {"final"}, "idle")
    BY <2>2 DEF Places, Unsent, PlaceFits, AfterFirst, Marks
  <2> QED  BY <2>1, <2>2, <2>3, <2>4, RecordKeeps
<1>10. CASE MarkTag
  <2>1. Record("release", "tagged", TRUE, "first", "alone")
    BY <1>10 DEF MarkTag
  <2>2. "release" \in Stage /\ at["release"] = "tagged" /\ Marks("release")
    BY <1>1, <2>1 DEF Record, Stage
  <2>3. FileFits("release", "first")
    BY <1>1, <2>2 DEF FileFits, Marks, Begun, Earned
  <2>4. /\ "tagged" \in Places \ {"idle"} /\ "alone" \in Places
        /\ "alone" \in Unsent => "tagged" \in Unsent
        /\ PlaceFits("release", book["release"] \cup {"first"}, "alone")
    BY <2>2 DEF Places, Unsent, PlaceFits, AfterFirst, Marks
  <2> QED  BY <2>1, <2>2, <2>3, <2>4, RecordKeeps
<1>11. CASE MarkRelease
  <2>1. Record("release", "released", TRUE, "second", "exact")
    BY <1>11 DEF MarkRelease
  <2>2. "release" \in Stage /\ at["release"] = "released" /\ Marks("release")
    BY <1>1, <2>1 DEF Record, Stage
  <2>3. FileFits("release", "second")
    BY <1>1, <2>2 DEF FileFits, Marks, Begun, Earned
  <2>4. /\ "released" \in Places \ {"idle"} /\ "exact" \in Places
        /\ "exact" \in Unsent => "released" \in Unsent
        /\ PlaceFits("release", book["release"] \cup {"second"}, "exact")
    BY <2>2 DEF Places, Unsent, PlaceFits, AfterFirst, Marks
  <2> QED  BY <2>1, <2>2, <2>3, <2>4, RecordKeeps
<1>12. CASE CommitRelease
  <2>1. Record("release", "exact",
               ExactExisting /\ {"lock", "first", "second"} \subseteq book["release"],
               "final", "idle")
    BY <1>12 DEF CommitRelease
  <2>2. "release" \in Stage /\ at["release"] = "exact" /\ Marks("release")
    BY <1>1, <2>1 DEF Record, Stage
  <2>3. ExactExisting /\ {"lock", "first", "second"} \subseteq book["release"] =>
          FileFits("release", "final")
    BY <1>1, <2>2 DEF FileFits, Marks, Begun, Earned, ExactExisting
  <2>4. /\ "exact" \in Places \ {"idle"} /\ "idle" \in Places
        /\ "idle" \in Unsent => "exact" \in Unsent
        /\ PlaceFits("release", book["release"] \cup {"final"}, "idle")
    BY <2>2 DEF Places, Unsent, PlaceFits, AfterFirst, Marks
  <2> QED  BY <2>1, <2>2, <2>3, <2>4, RecordKeeps
<1>13. CASE CommitDeployment
  <2>1. Record("deploy", "posted", DeploymentExact /\ Locked("deploy"), "final", "idle")
    BY <1>13 DEF CommitDeployment, Commit
  <2>2. "deploy" \in Stage /\ at["deploy"] = "posted" /\ Marks("deploy")
    BY <1>1, <2>1 DEF Record, Stage
  <2>3. DeploymentExact /\ Locked("deploy") => FileFits("deploy", "final")
    BY <1>1, <2>2 DEF FileFits, Marks, Begun, Earned, DeploymentExact
  <2>4. /\ "posted" \in Places \ {"idle"} /\ "idle" \in Places
        /\ "idle" \in Unsent => "posted" \in Unsent
        /\ PlaceFits("deploy", book["deploy"] \cup {"final"}, "idle")
    BY <2>2 DEF Places, Unsent, PlaceFits, AfterFirst, Marks
  <2> QED  BY <2>1, <2>2, <2>3, <2>4, RecordKeeps
<1>14. CASE CommitStatus
  <2>1. Record("status", "posted", StatusExact /\ Locked("status"), "final", "idle")
    BY <1>14 DEF CommitStatus, Commit
  <2>2. "status" \in Stage /\ at["status"] = "posted" /\ Marks("status")
    BY <1>1, <2>1 DEF Record, Stage
  <2>3. StatusExact /\ Locked("status") => FileFits("status", "final")
    BY <1>1, <2>2 DEF FileFits, Marks, Begun, Earned, StatusExact
  <2>4. /\ "posted" \in Places \ {"idle"} /\ "idle" \in Places
        /\ "idle" \in Unsent => "posted" \in Unsent
        /\ PlaceFits("status", book["status"] \cup {"final"}, "idle")
    BY <2>2 DEF Places, Unsent, PlaceFits, AfterFirst, Marks
  <2> QED  BY <2>1, <2>2, <2>3, <2>4, RecordKeeps
<1>15. CASE CommitSuccess
  <2>1. Record("success", "posted", SuccessExact /\ Locked("success"), "final", "idle")
    BY <1>15 DEF CommitSuccess, Commit
  <2>2. "success" \in Stage /\ at["success"] = "posted" /\ Marks("success")
    BY <1>1, <2>1 DEF Record, Stage
  <2>3. SuccessExact /\ Locked("success") => FileFits("success", "final")
    BY <1>1, <2>2 DEF FileFits, Marks, Begun, Earned, SuccessExact
  <2>4. /\ "posted" \in Places \ {"idle"} /\ "idle" \in Places
        /\ "idle" \in Unsent => "posted" \in Unsent
        /\ PlaceFits("success", book["success"] \cup {"final"}, "idle")
    BY <2>2 DEF Places, Unsent, PlaceFits, AfterFirst, Marks
  <2> QED  BY <2>1, <2>2, <2>3, <2>4, RecordKeeps
<1>16. CASE CommitActivation
  <2>1. Record("activate", "ran", Activated /\ Locked("activate"), "final", "idle")
    BY <1>16 DEF CommitActivation
  <2>2. "activate" \in Stage /\ at["activate"] = "ran" /\ Marks("activate")
    BY <1>1, <2>1 DEF Record, Stage
  <2>3. Activated /\ Locked("activate") => FileFits("activate", "final")
    BY <1>1, <2>2 DEF FileFits, Marks, Begun, Earned, Activated, World
  <2>4. /\ "ran" \in Places \ {"idle"} /\ "idle" \in Places
        /\ "idle" \in Unsent => "ran" \in Unsent
        /\ PlaceFits("activate", book["activate"] \cup {"final"}, "idle")
    BY <2>2 DEF Places, Unsent, PlaceFits, AfterFirst, Marks
  <2> QED  BY <2>1, <2>2, <2>3, <2>4, RecordKeeps
<1> QED  BY <1>2, <1>3, <1>4, <1>5, <1>6, <1>7, <1>8, <1>9, <1>10, <1>11, <1>12, <1>13, <1>14,
            <1>15, <1>16

-----------------------------------------------------------------------------
(* The requests of the transactions.                                        *)
LEMMA TookIs ==
  ASSUME TypeOK, NEW w \in Write, sent[w] <= 1, NEW new, Took(w, new)
  PROVE  /\ sent' \in [Write -> 0..2] /\ sent'[w] = sent[w] + 1
         /\ \A v \in Write \ {w} : sent'[v] = sent[v]
         /\ repo' = new /\ rig' = rig
<1>1. sent[w] \in 0..2 /\ sent[w] + 1 \in 0..2 /\ sent \in [Write -> 0..2]
  BY DEF TypeOK
<1> QED  BY <1>1 DEF Took

LEMMA WritesAreApart ==
  /\ \A s \in Stage : WritesOf(s) \subseteq Write
  /\ \A s, t \in Stage : s # t => WritesOf(s) \cap WritesOf(t) = {}
  BY DEF Stage, Write, WritesOf

LEMMA SendKeeps ==
  ASSUME TaskInv, NEW s \in Stage, NEW from \in Places \ {"idle"}, NEW w \in WritesOf(s),
         NEW accepted, NEW new, NEW to \in Places, Send(s, from, w, accepted, new, to),
         s # "activate",
         accepted => new \in Repo /\ sent[w] <= 1,
         accepted /\ Took(w, new) =>
           /\ World' /\ Undrifted' /\ Stays
           /\ to \in {"merged", "tagged"} => Begun(s)'
           /\ to = "released" => Earned(s)',
         to \in AfterFirst => from \in AfterFirst,
         to \notin {"commit", "exact"},
         w # "request" \/ from = "request",
         IF w \in {"push", "create", "ready", "merge", "tag"}
           THEN to \in Unsent => from \in Unsent
           ELSE from \in Unsent /\ to \notin Unsent
  PROVE  TaskInv'
<1>1. TypeOK /\ World /\ StageInv(s) /\ at[s] = from /\ from # "idle"
  BY DEF TaskInv, Send
<1>2. UNCHANGED <<granted, live, book, rbook, rat, saw, overlap, drift>>
  BY DEF Send, recovery
<1>3. ASSUME accepted, Took(w, new), NEW place \in {to, "idle"}, Advance(s, place),
             UNCHANGED faults \/ Fault("lost")
      PROVE  TaskInv'
  <2>1. /\ place \in Places /\ World' /\ Undrifted' /\ Stays
        /\ at' = [at EXCEPT ![s] = place]
    BY <1>3 DEF Advance, Places
  <2>2. at' \in [Stage -> Places] /\ at'[s] = place /\ \A t \in Stage \ {s} : at'[t] = at[t]
    BY <1>1, <2>1 DEF TypeOK
  <2>3. w \in Write /\ sent[w] <= 1 /\ new \in Repo
    BY <1>3, WritesAreApart
  <2>4. /\ sent' \in [Write -> 0..2] /\ sent'[w] = sent[w] + 1
        /\ \A v \in Write \ {w} : sent'[v] = sent[v]
        /\ repo' = new /\ rig' = rig
    BY <1>1, <1>3, <2>3, TookIs
  <2>5. TypeOK'
    BY <1>1, <1>2, <1>3, <2>2, <2>3, <2>4, FaultsCounted DEF TypeOK
  <2>6. \A t \in Stage \ {s} : \A v \in WritesOf(t) : sent'[v] = sent[v]
    BY <2>4, WritesAreApart
  <2>7. (Earned(s) => Earned(s)') /\ (Begun(s) => Begun(s)')
    BY <2>1 DEF Stays
  <2>8. \A t \in Stage : Done(t) => Done(t)'
    BY <1>2 DEF Done, Completed, Recovered
  <2>9. Ledgers(s)'
    BY <1>1, <1>2, <2>2, <2>8, PreviousIsStage DEF StageInv, Ledgers
  <2>10. /\ "lock" \in book[s] /\ (s \notin overlap => rbook[s] = {} /\ rat[s] = "idle")
    BY <1>1 DEF StageInv, Ledgers, Alone
  <2>11. Alone(s)' /\ Recovers(s)'
    BY <1>1, <1>2, <2>2, <2>4, <2>7, <2>10 DEF StageInv, Alone, Recovers, Closing
  <2>12. Marks(s)'
    BY <1>1, <1>2, <1>3, <2>2, <2>7 DEF StageInv, Marks, AfterFirst
  <2>13. Sends(s)'
    <3>1. CASE w \in {"push", "create", "ready", "merge", "tag"}
      <4>1. NotByTransaction(s)' => NotByTransaction(s)
        BY <1>1, <1>2, <2>2, <3>1 DEF NotByTransaction, Unsent
      <4>2. NotByRecovery(s)' <=> NotByRecovery(s)
        BY <1>2 DEF NotByRecovery
      <4>3. /\ sent'["request"] = sent["request"] /\ sent'["release"] = sent["release"]
            /\ s \in {"deploy", "status", "success"} => FALSE
        BY <2>4, <3>1 DEF WritesOf, Write
      <4> QED  BY <1>1, <1>2, <4>1, <4>2, <4>3 DEF StageInv, Sends, Shared
    <3>2. CASE w \notin {"push", "create", "ready", "merge", "tag"}
      <4>1. NotByTransaction(s) /\ ~NotByTransaction(s)'
        BY <1>1, <1>2, <2>2, <2>10, <3>2 DEF NotByTransaction, Unsent
      <4>2. NotByRecovery(s)' <=> NotByRecovery(s)
        BY <1>2 DEF NotByRecovery
      <4>3. s \notin overlap => NotByRecovery(s)
        BY <2>10 DEF NotByRecovery
      <4>4. s = "lifecycle" => Shared(s, "request")'
        <5>1. CASE w = "request"
          BY <1>1, <1>2, <2>4, <2>10, <4>1, <4>2, <4>3, <5>1 DEF StageInv, Sends, Shared
        <5>2. CASE w # "request"
          BY <3>2, <5>2 DEF WritesOf
        <5> QED  BY <5>1, <5>2
      <4>5. s = "release" => Shared(s, "release")'
        <5>1. CASE w = "release"
          BY <1>1, <1>2, <2>4, <2>10, <4>1, <4>2, <4>3, <5>1 DEF StageInv, Sends, Shared
        <5>2. CASE w # "release"
          BY <3>2, <5>2 DEF WritesOf
        <5> QED  BY <5>1, <5>2
      <4> QED  BY <4>1, <4>4, <4>5 DEF Sends
    <3> QED  BY <3>1, <3>2
  <2>14. StageInv(s)'
    <3>1. Asked(s)'
      <4>1. CASE w = "request"
        BY <1>1, <1>2, <4>1 DEF StageInv, Marks, Asked
      <4>2. CASE w # "request"
        BY <1>1, <1>2, <2>4, <4>2 DEF StageInv, Asked, Write
      <4> QED  BY <4>1, <4>2
    <3> QED  BY <2>9, <2>11, <2>12, <2>13, <3>1 DEF StageInv
  <2>15. UNCHANGED <<granted, live, book, rbook, saw, overlap>> /\ rat' = rat
    BY <1>2
  <2>16. \A t \in Stage \ {s} : /\ at'[t] = at[t] /\ rat'[t] = rat[t]
                                /\ \A v \in WritesOf(t) : sent'[v] = sent[v]
    BY <2>2, <2>6, <2>15
  <2> QED  BY <2>1, <2>4, <2>5, <2>14, <2>15, <2>16, WorldKeeps
<1>4. ASSUME UNCHANGED world, Stop(s), UNCHANGED faults \/ Fault("lost")
      PROVE  TaskInv'
  <2>1. UNCHANGED <<granted, book, recovery, world, drift>> /\ live' = live
    BY <1>4 DEF Send
  <2> QED  BY <1>1, <1>4, <2>1, TransactionStops
<1> QED  BY <1>3, <1>4 DEF Send, Request, Stop

-----------------------------------------------------------------------------
(* What the two requests that change several things make of GitHub.         *)
LEMMA OpenDraftIs ==
  ASSUME repo \in Repo
  PROVE  /\ OpenDraft \in Repo /\ OpenDraft.pr = "draft"
         /\ OpenDraft.prBase = IF repo.main = "task" THEN "task" ELSE "moved"
         /\ OpenDraft.main = repo.main /\ OpenDraft.head = repo.head
         /\ OpenDraft.reviewers = repo.reviewers /\ OpenDraft.mergedOn = repo.mergedOn
         /\ OpenDraft.tag = repo.tag /\ OpenDraft.releases = repo.releases
         /\ OpenDraft.deployments = repo.deployments /\ OpenDraft.statuses = repo.statuses
<1> DEFINE base == IF repo.main = "task" THEN "task" ELSE "moved"
           one == [repo EXCEPT !.pr = "draft"]
           two == [one EXCEPT !.prBase = base]
<1>1. base \in {"none", "task", "moved"}
  OBVIOUS
<1>2. OpenDraft = two
  BY DEF OpenDraft, Repo
<1> HIDE DEF base
<1>3. /\ one \in Repo /\ one.pr = "draft" /\ one.main = repo.main /\ one.head = repo.head
      /\ one.reviewers = repo.reviewers /\ one.mergedOn = repo.mergedOn
      /\ one.tag = repo.tag /\ one.releases = repo.releases
      /\ one.deployments = repo.deployments /\ one.statuses = repo.statuses
  BY DEF Repo
<1> HIDE DEF one
<1>4. /\ two \in Repo /\ two.pr = one.pr /\ two.prBase = base
      /\ two.main = one.main /\ two.head = one.head
      /\ two.reviewers = one.reviewers /\ two.mergedOn = one.mergedOn
      /\ two.tag = one.tag /\ two.releases = one.releases
      /\ two.deployments = one.deployments /\ two.statuses = one.statuses
  BY <1>1, <1>3 DEF Repo
<1> HIDE DEF two
<1> QED  BY <1>2, <1>3, <1>4 DEF base

LEMMA MergedRepoIs ==
  ASSUME repo \in Repo
  PROVE  /\ MergedRepo \in Repo /\ MergedRepo.pr = "merged" /\ MergedRepo.main = "merged"
         /\ MergedRepo.mergedOn = IF repo.main = "task" THEN "task" ELSE "moved"
         /\ MergedRepo.head = repo.head /\ MergedRepo.prBase = repo.prBase
         /\ MergedRepo.reviewers = repo.reviewers
         /\ MergedRepo.tag = repo.tag /\ MergedRepo.releases = repo.releases
         /\ MergedRepo.deployments = repo.deployments /\ MergedRepo.statuses = repo.statuses
<1> DEFINE base == IF repo.main = "task" THEN "task" ELSE "moved"
           one == [repo EXCEPT !.pr = "merged"]
           two == [one EXCEPT !.main = "merged"]
           three == [two EXCEPT !.mergedOn = base]
<1>1. base \in {"none", "task", "moved"}
  OBVIOUS
<1>2. MergedRepo = three
  BY DEF MergedRepo, Repo
<1> HIDE DEF base
<1>3. /\ one \in Repo /\ one.pr = "merged" /\ one.head = repo.head
      /\ one.prBase = repo.prBase /\ one.reviewers = repo.reviewers
      /\ one.tag = repo.tag /\ one.releases = repo.releases
      /\ one.deployments = repo.deployments /\ one.statuses = repo.statuses
  BY DEF Repo
<1> HIDE DEF one
<1>4. /\ two \in Repo /\ two.main = "merged" /\ two.pr = one.pr /\ two.head = one.head
      /\ two.prBase = one.prBase /\ two.reviewers = one.reviewers
      /\ two.tag = one.tag /\ two.releases = one.releases
      /\ two.deployments = one.deployments /\ two.statuses = one.statuses
  BY <1>3 DEF Repo
<1> HIDE DEF two
<1>5. /\ three \in Repo /\ three.mergedOn = base /\ three.main = two.main
      /\ three.pr = two.pr /\ three.head = two.head
      /\ three.prBase = two.prBase /\ three.reviewers = two.reviewers
      /\ three.tag = two.tag /\ three.releases = two.releases
      /\ three.deployments = two.deployments /\ three.statuses = two.statuses
  BY <1>1, <1>4 DEF Repo
<1> HIDE DEF three
<1> QED  BY <1>2, <1>3, <1>4, <1>5 DEF base

(* A write that took effect adds to what GitHub holds and takes nothing     *)
(* back, and the count of the writes follows.                               *)
LEMMA PushExactCommitTakes ==
  ASSUME TypeOK, World, Undrifted, repo.head = "absent"
  PROVE  /\ sent["push"] <= 1 /\ [repo EXCEPT !.head = "exact"] \in Repo
         /\ Took("push", [repo EXCEPT !.head = "exact"]) /\ UNCHANGED <<book, drift>> =>
              World' /\ Undrifted' /\ Stays
<1> DEFINE new == [repo EXCEPT !.head = "exact"]
<1>1. sent["push"] = 0 /\ "push" \in Write
  BY DEF World, TypeOK, Repo, Write
<1>2. new \in Repo
  BY <1>1 DEF TypeOK, Repo, World
<1>3. ASSUME Took("push", new), UNCHANGED <<book, drift>>
      PROVE  World' /\ Undrifted' /\ Stays
  <2>1. /\ sent' \in [Write -> 0..2] /\ sent'["push"] = sent["push"] + 1
        /\ \A v \in Write \ {"push"} : sent'[v] = sent[v]
        /\ repo' = new /\ rig' = rig
    BY <1>1, <1>3, TookIs
  <2>2. /\ repo'.head = "exact" /\ repo'.main = repo.main
        /\ repo'.pr = repo.pr /\ repo'.prBase = repo.prBase
        /\ repo'.reviewers = repo.reviewers /\ repo'.mergedOn = repo.mergedOn
        /\ repo'.tag = repo.tag /\ repo'.releases = repo.releases
        /\ repo'.deployments = repo.deployments /\ repo'.statuses = repo.statuses
    BY <2>1 DEF TypeOK, Repo
  <2>3. World'
    BY <1>1, <1>3, <2>1, <2>2 DEF World, TypeOK, Repo, Write, Begun
  <2>4. Undrifted'
    BY <1>1, <1>3, <2>1, <2>2 DEF World, Undrifted, TypeOK, Repo, Write
  <2>5. Stays
    BY <1>1, <2>1, <2>2 DEF Stays, Earned, Begun, World, TypeOK, Repo, Write
  <2> QED  BY <2>3, <2>4, <2>5
<1> QED  BY <1>1, <1>2, <1>3

LEMMA PushExactCommitKeeps ==
  ASSUME TaskInv, PushExactCommit
  PROVE  TaskInv'
<1> DEFINE new == [repo EXCEPT !.head = "exact"]
<1>1. TypeOK /\ World /\ Undrifted /\ StageInv("publish")
  BY DEF TaskInv, Stage
<1>2. at["publish"] = "push" /\ "publish" \in Stage /\ "push" \in WritesOf("publish")
  BY DEF PushExactCommit, Send, Stage, WritesOf
<1>3. repo.head = "absent" =>
        /\ sent["push"] <= 1 /\ new \in Repo
        /\ Took("push", new) /\ UNCHANGED <<book, drift>> =>
             World' /\ Undrifted' /\ Stays
  BY <1>1, PushExactCommitTakes
<1>4. UNCHANGED <<book, drift>>
  BY DEF PushExactCommit, Send
<1> HIDE DEF new
<1>5. Send("publish", "push", "push", repo.head = "absent", new, "pushed")
  BY DEF PushExactCommit, new
<1>6. /\ "push" \in Places \ {"idle"} /\ "pushed" \in Places
      /\ "pushed" \in AfterFirst => "push" \in AfterFirst
      /\ "pushed" \notin {"commit", "exact", "merged", "tagged", "released"}
      /\ "publish" # "activate"
      /\ "pushed" \in Unsent => "push" \in Unsent
  BY DEF Places, Unsent, AfterFirst
<1> QED  BY <1>2, <1>3, <1>4, <1>5, <1>6, SendKeeps

LEMMA CreateDraftPrTakes ==
  ASSUME TypeOK, World, Undrifted, MayOpenDraft
  PROVE  /\ sent["create"] <= 1 /\ OpenDraft \in Repo
         /\ Took("create", OpenDraft) /\ UNCHANGED <<book, drift>> =>
              World' /\ Undrifted' /\ Stays
<1> DEFINE new == OpenDraft
<1>1. sent["create"] = 0 /\ "create" \in Write
  BY DEF World, TypeOK, Repo, Write, MayOpenDraft
<1>2. new \in Repo
  BY OpenDraftIs DEF TypeOK
<1>3. ASSUME Took("create", new), UNCHANGED <<book, drift>>
      PROVE  World' /\ Undrifted' /\ Stays
  <2>1. /\ sent' \in [Write -> 0..2] /\ sent'["create"] = sent["create"] + 1
        /\ \A v \in Write \ {"create"} : sent'[v] = sent[v]
        /\ repo' = new /\ rig' = rig
    BY <1>1, <1>3, TookIs
  <2>2. /\ repo'.pr = "draft" /\ repo'.prBase = (IF repo.main = "task" THEN "task" ELSE "moved")
        /\ repo'.main = repo.main /\ repo'.head = repo.head
        /\ repo'.reviewers = repo.reviewers /\ repo'.mergedOn = repo.mergedOn
        /\ repo'.tag = repo.tag /\ repo'.releases = repo.releases
        /\ repo'.deployments = repo.deployments /\ repo'.statuses = repo.statuses
    BY <2>1, OpenDraftIs DEF TypeOK
  <2>3. World'
    BY <1>1, <1>3, <2>1, <2>2 DEF World, TypeOK, Repo, Write, Begun, MayOpenDraft
  <2>4. Undrifted'
    BY <1>1, <1>3, <2>1, <2>2 DEF World, Undrifted, TypeOK, Repo, Write, MayOpenDraft
  <2>5. Stays
    BY <1>1, <2>1, <2>2 DEF Stays, Earned, Begun, World, TypeOK, Repo, Write, MayOpenDraft
  <2> QED  BY <2>3, <2>4, <2>5
<1> QED  BY <1>1, <1>2, <1>3

LEMMA CreateDraftPrKeeps ==
  ASSUME TaskInv, CreateDraftPr
  PROVE  TaskInv'
<1> DEFINE new == OpenDraft
           to == IF OpenDraft.prBase = "task" /\ repo.head = "exact" THEN "created" ELSE "idle"
<1>1. TypeOK /\ World /\ Undrifted /\ StageInv("publish")
  BY DEF TaskInv, Stage
<1>2. at["publish"] = "create" /\ "publish" \in Stage /\ "create" \in WritesOf("publish")
  BY DEF CreateDraftPr, Send, Stage, WritesOf
<1>3. MayOpenDraft =>
        /\ sent["create"] <= 1 /\ new \in Repo
        /\ Took("create", new) /\ UNCHANGED <<book, drift>> =>
             World' /\ Undrifted' /\ Stays
  BY <1>1, CreateDraftPrTakes
<1>4. UNCHANGED <<book, drift>>
  BY DEF CreateDraftPr, Send
<1> HIDE DEF new, to
<1>5. Send("publish", "create", "create", MayOpenDraft, new, to)
  BY DEF CreateDraftPr, new, to
<1>6. /\ "create" \in Places \ {"idle"} /\ to \in Places
      /\ to \in AfterFirst => "create" \in AfterFirst
      /\ to \notin {"commit", "exact", "merged", "tagged", "released"}
      /\ "publish" # "activate"
      /\ to \in Unsent => "create" \in Unsent
  BY DEF to, Places, Unsent, AfterFirst
<1> QED  BY <1>2, <1>3, <1>4, <1>5, <1>6, SendKeeps

LEMMA MarkReadyTakes ==
  ASSUME TypeOK, World, Undrifted, repo.pr = "draft"
  PROVE  /\ sent["ready"] <= 1 /\ [repo EXCEPT !.pr = "ready"] \in Repo
         /\ Took("ready", [repo EXCEPT !.pr = "ready"]) /\ UNCHANGED <<book, drift>> =>
              World' /\ Undrifted' /\ Stays
<1> DEFINE new == [repo EXCEPT !.pr = "ready"]
<1>1. sent["ready"] = 0 /\ "ready" \in Write
  BY DEF World, TypeOK, Repo, Write
<1>2. new \in Repo
  BY <1>1 DEF TypeOK, Repo, World
<1>3. ASSUME Took("ready", new), UNCHANGED <<book, drift>>
      PROVE  World' /\ Undrifted' /\ Stays
  <2>1. /\ sent' \in [Write -> 0..2] /\ sent'["ready"] = sent["ready"] + 1
        /\ \A v \in Write \ {"ready"} : sent'[v] = sent[v]
        /\ repo' = new /\ rig' = rig
    BY <1>1, <1>3, TookIs
  <2>2. /\ repo'.pr = "ready" /\ repo'.main = repo.main
        /\ repo'.head = repo.head /\ repo'.prBase = repo.prBase
        /\ repo'.reviewers = repo.reviewers /\ repo'.mergedOn = repo.mergedOn
        /\ repo'.tag = repo.tag /\ repo'.releases = repo.releases
        /\ repo'.deployments = repo.deployments /\ repo'.statuses = repo.statuses
    BY <2>1 DEF TypeOK, Repo
  <2>3. World'
    BY <1>1, <1>3, <2>1, <2>2 DEF World, TypeOK, Repo, Write, Begun
  <2>4. Undrifted'
    BY <1>1, <1>3, <2>1, <2>2 DEF World, Undrifted, TypeOK, Repo, Write
  <2>5. Stays
    BY <1>1, <2>1, <2>2 DEF Stays, Earned, Begun, World, TypeOK, Repo, Write
  <2> QED  BY <2>3, <2>4, <2>5
<1> QED  BY <1>1, <1>2, <1>3

LEMMA MarkReadyKeeps ==
  ASSUME TaskInv, MarkReady
  PROVE  TaskInv'
<1> DEFINE new == [repo EXCEPT !.pr = "ready"]
<1>1. TypeOK /\ World /\ Undrifted /\ StageInv("lifecycle")
  BY DEF TaskInv, Stage
<1>2. at["lifecycle"] = "ready" /\ "lifecycle" \in Stage /\ "ready" \in WritesOf("lifecycle")
  BY DEF MarkReady, Send, Stage, WritesOf
<1>3. repo.pr = "draft" =>
        /\ sent["ready"] <= 1 /\ new \in Repo
        /\ Took("ready", new) /\ UNCHANGED <<book, drift>> =>
             World' /\ Undrifted' /\ Stays
  BY <1>1, MarkReadyTakes
<1>4. UNCHANGED <<book, drift>>
  BY DEF MarkReady, Send
<1> HIDE DEF new
<1>5. Send("lifecycle", "ready", "ready", repo.pr = "draft", new, "readied")
  BY DEF MarkReady, new
<1>6. /\ "ready" \in Places \ {"idle"} /\ "readied" \in Places
      /\ "readied" \in AfterFirst => "ready" \in AfterFirst
      /\ "readied" \notin {"commit", "exact", "merged", "tagged", "released"}
      /\ "lifecycle" # "activate"
      /\ "readied" \in Unsent => "ready" \in Unsent
  BY DEF Places, Unsent, AfterFirst
<1> QED  BY <1>2, <1>3, <1>4, <1>5, <1>6, SendKeeps

LEMMA RequestReviewersTakes ==
  ASSUME TypeOK, World, Undrifted, MayRequest, sent["request"] <= 1, Begun("lifecycle")
  PROVE  /\ sent["request"] <= 1 /\ [repo EXCEPT !.reviewers = TRUE] \in Repo
         /\ Took("request", [repo EXCEPT !.reviewers = TRUE]) /\ UNCHANGED <<book, drift>> =>
              World' /\ Undrifted' /\ Stays
<1> DEFINE new == [repo EXCEPT !.reviewers = TRUE]
<1>1. sent["request"] <= 1 /\ "request" \in Write
  BY DEF World, TypeOK, Repo, Write, MayRequest
<1>2. new \in Repo
  BY <1>1 DEF TypeOK, Repo, World
<1>3. ASSUME Took("request", new), UNCHANGED <<book, drift>>
      PROVE  World' /\ Undrifted' /\ Stays
  <2>1. /\ sent' \in [Write -> 0..2] /\ sent'["request"] = sent["request"] + 1
        /\ \A v \in Write \ {"request"} : sent'[v] = sent[v]
        /\ repo' = new /\ rig' = rig
    BY <1>1, <1>3, TookIs
  <2>2. /\ repo'.reviewers = TRUE /\ repo'.main = repo.main
        /\ repo'.head = repo.head /\ repo'.pr = repo.pr
        /\ repo'.prBase = repo.prBase /\ repo'.mergedOn = repo.mergedOn
        /\ repo'.tag = repo.tag /\ repo'.releases = repo.releases
        /\ repo'.deployments = repo.deployments /\ repo'.statuses = repo.statuses
    BY <2>1 DEF TypeOK, Repo
  <2>3. World'
    BY <1>1, <1>3, <2>1, <2>2 DEF World, TypeOK, Repo, Write, Begun, MayRequest
  <2>4. Undrifted'
    BY <1>1, <1>3, <2>1, <2>2 DEF World, Undrifted, TypeOK, Repo, Write, MayRequest
  <2>5. Stays
    BY <1>1, <2>1, <2>2 DEF Stays, Earned, Begun, World, TypeOK, Repo, Write, MayRequest
  <2> QED  BY <2>3, <2>4, <2>5
<1> QED  BY <1>1, <1>2, <1>3

LEMMA RequestReviewersKeeps ==
  ASSUME TaskInv, RequestReviewers
  PROVE  TaskInv'
<1> DEFINE new == [repo EXCEPT !.reviewers = TRUE]
<1>1. TypeOK /\ World /\ Undrifted /\ StageInv("lifecycle")
  BY DEF TaskInv, Stage
<1>2. at["lifecycle"] = "request" /\ "lifecycle" \in Stage /\ "request" \in WritesOf("lifecycle")
  BY DEF RequestReviewers, Send, Stage, WritesOf
<1>3. sent["request"] <= 1 /\ Begun("lifecycle")
  BY <1>1, <1>2 DEF TypeOK, Write, StageInv, Marks, Begun, Sends, Shared, NotByTransaction,
     Unsent, WritesOf
<1>4. MayRequest =>
        /\ sent["request"] <= 1 /\ new \in Repo
        /\ Took("request", new) /\ UNCHANGED <<book, drift>> =>
             World' /\ Undrifted' /\ Stays
  BY <1>1, <1>3, RequestReviewersTakes
<1>5. UNCHANGED <<book, drift>>
  BY DEF RequestReviewers, Send
<1> HIDE DEF new
<1>6. Send("lifecycle", "request", "request", MayRequest, new, "requested")
  BY DEF RequestReviewers, new
<1>7. /\ "request" \in Places \ {"idle"} /\ "requested" \in Places
      /\ "requested" \in AfterFirst => "request" \in AfterFirst
      /\ "requested" \notin {"commit", "exact", "merged", "tagged", "released"}
      /\ "lifecycle" # "activate"
      /\ "request" \in Unsent /\ "requested" \notin Unsent
  BY DEF Places, Unsent, AfterFirst
<1> QED  BY <1>2, <1>4, <1>5, <1>6, <1>7, SendKeeps

LEMMA MergeTakes ==
  ASSUME TypeOK, World, Undrifted, MayMerge
  PROVE  /\ sent["merge"] <= 1 /\ MergedRepo \in Repo
         /\ Took("merge", MergedRepo) /\ UNCHANGED <<book, drift>> =>
              World' /\ Undrifted' /\ Stays /\ Begun("merge")'
<1> DEFINE new == MergedRepo
<1>1. sent["merge"] = 0 /\ "merge" \in Write
  BY DEF World, TypeOK, Repo, Write, MayMerge
<1>2. new \in Repo
  BY MergedRepoIs DEF TypeOK
<1>3. ASSUME Took("merge", new), UNCHANGED <<book, drift>>
      PROVE  World' /\ Undrifted' /\ Stays /\ Begun("merge")'
  <2>1. /\ sent' \in [Write -> 0..2] /\ sent'["merge"] = sent["merge"] + 1
        /\ \A v \in Write \ {"merge"} : sent'[v] = sent[v]
        /\ repo' = new /\ rig' = rig
    BY <1>1, <1>3, TookIs
  <2>2. /\ repo'.pr = "merged" /\ repo'.main = "merged"
        /\ repo'.mergedOn = (IF repo.main = "task" THEN "task" ELSE "moved")
        /\ repo'.head = repo.head
        /\ repo'.prBase = repo.prBase /\ repo'.reviewers = repo.reviewers
        /\ repo'.tag = repo.tag /\ repo'.releases = repo.releases
        /\ repo'.deployments = repo.deployments /\ repo'.statuses = repo.statuses
    BY <2>1, MergedRepoIs DEF TypeOK
  <2>3. World'
    BY <1>1, <1>3, <2>1, <2>2 DEF World, TypeOK, Repo, Write, Begun, MayMerge
  <2>4. Undrifted'
    BY <1>1, <1>3, <2>1, <2>2 DEF World, Undrifted, TypeOK, Repo, Write, MayMerge
  <2>5. Stays
    BY <1>1, <2>1, <2>2 DEF Stays, Earned, Begun, World, TypeOK, Repo, Write, MayMerge
  <2>6. Begun("merge")'
    BY <2>1, <2>2 DEF Begun, Earned, TypeOK, Repo, World
  <2> QED  BY <2>3, <2>4, <2>5, <2>6
<1> QED  BY <1>1, <1>2, <1>3

LEMMA MergeKeeps ==
  ASSUME TaskInv, Merge
  PROVE  TaskInv'
<1> DEFINE new == MergedRepo
<1>1. TypeOK /\ World /\ Undrifted /\ StageInv("merge")
  BY DEF TaskInv, Stage
<1>2. at["merge"] = "merge" /\ "merge" \in Stage /\ "merge" \in WritesOf("merge")
  BY DEF Merge, Send, Stage, WritesOf
<1>3. MayMerge =>
        /\ sent["merge"] <= 1 /\ new \in Repo
        /\ Took("merge", new) /\ UNCHANGED <<book, drift>> =>
             World' /\ Undrifted' /\ Stays /\ Begun("merge")'
  BY <1>1, MergeTakes
<1>4. UNCHANGED <<book, drift>>
  BY DEF Merge, Send
<1> HIDE DEF new
<1>5. Send("merge", "merge", "merge", MayMerge, new, "merged")
  BY DEF Merge, new
<1>6. /\ "merge" \in Places \ {"idle"} /\ "merged" \in Places
      /\ "merged" \in AfterFirst => "merge" \in AfterFirst
      /\ "merged" \notin {"commit", "exact", "tagged", "released"}
      /\ "merge" # "activate"
      /\ "merged" \in Unsent => "merge" \in Unsent
  BY DEF Places, Unsent, AfterFirst
<1> QED  BY <1>2, <1>3, <1>4, <1>5, <1>6, SendKeeps

LEMMA CreateTagTakes ==
  ASSUME TypeOK, World, Undrifted, ~repo.tag
  PROVE  /\ sent["tag"] <= 1 /\ [repo EXCEPT !.tag = TRUE] \in Repo
         /\ Took("tag", [repo EXCEPT !.tag = TRUE]) /\ UNCHANGED <<book, drift>> =>
              World' /\ Undrifted' /\ Stays /\ Begun("release")'
<1> DEFINE new == [repo EXCEPT !.tag = TRUE]
<1>1. sent["tag"] = 0 /\ "tag" \in Write
  BY DEF World, TypeOK, Repo, Write
<1>2. new \in Repo
  BY <1>1 DEF TypeOK, Repo, World
<1>3. ASSUME Took("tag", new), UNCHANGED <<book, drift>>
      PROVE  World' /\ Undrifted' /\ Stays /\ Begun("release")'
  <2>1. /\ sent' \in [Write -> 0..2] /\ sent'["tag"] = sent["tag"] + 1
        /\ \A v \in Write \ {"tag"} : sent'[v] = sent[v]
        /\ repo' = new /\ rig' = rig
    BY <1>1, <1>3, TookIs
  <2>2. /\ repo'.tag = TRUE /\ repo'.main = repo.main
        /\ repo'.head = repo.head /\ repo'.pr = repo.pr
        /\ repo'.prBase = repo.prBase /\ repo'.reviewers = repo.reviewers
        /\ repo'.mergedOn = repo.mergedOn /\ repo'.releases = repo.releases
        /\ repo'.deployments = repo.deployments /\ repo'.statuses = repo.statuses
    BY <2>1 DEF TypeOK, Repo
  <2>3. World'
    BY <1>1, <1>3, <2>1, <2>2 DEF World, TypeOK, Repo, Write, Begun
  <2>4. Undrifted'
    BY <1>1, <1>3, <2>1, <2>2 DEF World, Undrifted, TypeOK, Repo, Write
  <2>5. Stays
    BY <1>1, <2>1, <2>2 DEF Stays, Earned, Begun, World, TypeOK, Repo, Write
  <2>6. Begun("release")'
    BY <2>1, <2>2 DEF Begun, Earned, TypeOK, Repo, World
  <2> QED  BY <2>3, <2>4, <2>5, <2>6
<1> QED  BY <1>1, <1>2, <1>3

LEMMA CreateTagKeeps ==
  ASSUME TaskInv, CreateTag
  PROVE  TaskInv'
<1> DEFINE new == [repo EXCEPT !.tag = TRUE]
<1>1. TypeOK /\ World /\ Undrifted /\ StageInv("release")
  BY DEF TaskInv, Stage
<1>2. at["release"] = "tag" /\ "release" \in Stage /\ "tag" \in WritesOf("release")
  BY DEF CreateTag, Send, Stage, WritesOf
<1>3. ~repo.tag =>
        /\ sent["tag"] <= 1 /\ new \in Repo
        /\ Took("tag", new) /\ UNCHANGED <<book, drift>> =>
             World' /\ Undrifted' /\ Stays /\ Begun("release")'
  BY <1>1, CreateTagTakes
<1>4. UNCHANGED <<book, drift>>
  BY DEF CreateTag, Send
<1> HIDE DEF new
<1>5. Send("release", "tag", "tag", ~repo.tag, new, "tagged")
  BY DEF CreateTag, new
<1>6. /\ "tag" \in Places \ {"idle"} /\ "tagged" \in Places
      /\ "tagged" \in AfterFirst => "tag" \in AfterFirst
      /\ "tagged" \notin {"commit", "exact", "merged", "released"}
      /\ "release" # "activate"
      /\ "tagged" \in Unsent => "tag" \in Unsent
  BY DEF Places, Unsent, AfterFirst
<1> QED  BY <1>2, <1>3, <1>4, <1>5, <1>6, SendKeeps

LEMMA CreateReleaseTakes ==
  ASSUME TypeOK, World, Undrifted, repo.tag, sent["release"] <= 1
  PROVE  /\ sent["release"] <= 1 /\ OneMoreRelease \in Repo
         /\ Took("release", OneMoreRelease) /\ UNCHANGED <<book, drift>> =>
              World' /\ Undrifted' /\ Stays /\ Earned("release")'
<1> DEFINE new == OneMoreRelease
<1>1. sent["release"] <= 1 /\ "release" \in Write
  BY DEF World, TypeOK, Repo, Write
<1>2. new \in Repo
  BY <1>1 DEF TypeOK, Repo, World, OneMoreRelease
<1>3. ASSUME Took("release", new), UNCHANGED <<book, drift>>
      PROVE  World' /\ Undrifted' /\ Stays /\ Earned("release")'
  <2>1. /\ sent' \in [Write -> 0..2] /\ sent'["release"] = sent["release"] + 1
        /\ \A v \in Write \ {"release"} : sent'[v] = sent[v]
        /\ repo' = new /\ rig' = rig
    BY <1>1, <1>3, TookIs
  <2>2. /\ repo'.releases = repo.releases + 1 /\ repo'.main = repo.main
        /\ repo'.head = repo.head /\ repo'.pr = repo.pr
        /\ repo'.prBase = repo.prBase /\ repo'.reviewers = repo.reviewers
        /\ repo'.mergedOn = repo.mergedOn /\ repo'.tag = repo.tag
        /\ repo'.deployments = repo.deployments /\ repo'.statuses = repo.statuses
    BY <2>1 DEF TypeOK, Repo, OneMoreRelease
  <2>3. World'
    BY <1>1, <1>3, <2>1, <2>2 DEF World, TypeOK, Repo, Write, Begun
  <2>4. Undrifted'
    BY <1>1, <1>3, <2>1, <2>2 DEF World, Undrifted, TypeOK, Repo, Write
  <2>5. Stays
    BY <1>1, <2>1, <2>2 DEF Stays, Earned, Begun, World, TypeOK, Repo, Write
  <2>6. Earned("release")'
    BY <2>1, <2>2 DEF Begun, Earned, TypeOK, Repo, World
  <2> QED  BY <2>3, <2>4, <2>5, <2>6
<1> QED  BY <1>1, <1>2, <1>3

LEMMA CreateReleaseKeeps ==
  ASSUME TaskInv, CreateRelease
  PROVE  TaskInv'
<1> DEFINE new == OneMoreRelease
<1>1. TypeOK /\ World /\ Undrifted /\ StageInv("release")
  BY DEF TaskInv, Stage
<1>2. at["release"] = "release" /\ "release" \in Stage /\ "release" \in WritesOf("release")
  BY DEF CreateRelease, Send, Stage, WritesOf
<1>3. sent["release"] <= 1
  BY <1>1, <1>2 DEF TypeOK, Write, StageInv, Sends, Shared, NotByTransaction,
     Unsent, WritesOf
<1>4. repo.tag =>
        /\ sent["release"] <= 1 /\ new \in Repo
        /\ Took("release", new) /\ UNCHANGED <<book, drift>> =>
             World' /\ Undrifted' /\ Stays /\ Earned("release")'
  BY <1>1, <1>3, CreateReleaseTakes
<1>5. UNCHANGED <<book, drift>>
  BY DEF CreateRelease, Send
<1> HIDE DEF new
<1>6. Send("release", "release", "release", repo.tag, new, "released")
  BY DEF CreateRelease, new
<1>7. /\ "release" \in Places \ {"idle"} /\ "released" \in Places
      /\ "released" \in AfterFirst => "release" \in AfterFirst
      /\ "released" \notin {"commit", "exact", "merged", "tagged"}
      /\ "release" # "activate"
      /\ "release" \in Unsent /\ "released" \notin Unsent
  BY DEF Places, Unsent, AfterFirst
<1> QED  BY <1>2, <1>4, <1>5, <1>6, <1>7, SendKeeps

LEMMA PostDeploymentTakes ==
  ASSUME TypeOK, World, Undrifted, sent["deployment"] = 0
  PROVE  /\ sent["deployment"] <= 1 /\ [repo EXCEPT !.deployments = @ \cup {"ours"}] \in Repo
         /\ (/\ Took("deployment", [repo EXCEPT !.deployments = @ \cup {"ours"}])
             /\ UNCHANGED <<book, drift>>) =>
              World' /\ Undrifted' /\ Stays
<1> DEFINE new == [repo EXCEPT !.deployments = @ \cup {"ours"}]
<1>1. sent["deployment"] = 0 /\ "deployment" \in Write
  BY DEF World, TypeOK, Repo, Write
<1>2. new \in Repo
  BY <1>1 DEF TypeOK, Repo, World
<1>3. ASSUME Took("deployment", new), UNCHANGED <<book, drift>>
      PROVE  World' /\ Undrifted' /\ Stays
  <2>1. /\ sent' \in [Write -> 0..2] /\ sent'["deployment"] = sent["deployment"] + 1
        /\ \A v \in Write \ {"deployment"} : sent'[v] = sent[v]
        /\ repo' = new /\ rig' = rig
    BY <1>1, <1>3, TookIs
  <2>2. /\ repo'.deployments = repo.deployments \cup {"ours"} /\ repo'.main = repo.main
        /\ repo'.head = repo.head /\ repo'.pr = repo.pr
        /\ repo'.prBase = repo.prBase /\ repo'.reviewers = repo.reviewers
        /\ repo'.mergedOn = repo.mergedOn /\ repo'.tag = repo.tag
        /\ repo'.releases = repo.releases /\ repo'.statuses = repo.statuses
    BY <2>1 DEF TypeOK, Repo
  <2>3. World'
    BY <1>1, <1>3, <2>1, <2>2 DEF World, TypeOK, Repo, Write, Begun
  <2>4. Undrifted'
    BY <1>1, <1>3, <2>1, <2>2 DEF World, Undrifted, TypeOK, Repo, Write
  <2>5. Stays
    BY <1>1, <2>1, <2>2 DEF Stays, Earned, Begun, World, TypeOK, Repo, Write
  <2> QED  BY <2>3, <2>4, <2>5
<1> QED  BY <1>1, <1>2, <1>3

LEMMA PostDeploymentKeeps ==
  ASSUME TaskInv, PostDeployment
  PROVE  TaskInv'
<1> DEFINE new == [repo EXCEPT !.deployments = @ \cup {"ours"}]
<1>1. TypeOK /\ World /\ Undrifted /\ StageInv("deploy")
  BY DEF TaskInv, Stage
<1>2. at["deploy"] = "post" /\ "deploy" \in Stage /\ "deployment" \in WritesOf("deploy")
  BY DEF PostDeployment, Send, Stage, WritesOf, Post
<1>3. sent["deployment"] = 0
  BY <1>1, <1>2 DEF TypeOK, Write, StageInv, Sends, Shared, NotByTransaction,
     Unsent, WritesOf
<1>4.
        /\ sent["deployment"] <= 1 /\ new \in Repo
        /\ Took("deployment", new) /\ UNCHANGED <<book, drift>> =>
             World' /\ Undrifted' /\ Stays
  BY <1>1, <1>3, PostDeploymentTakes
<1>5. UNCHANGED <<book, drift>>
  BY DEF PostDeployment, Send, Post
<1> HIDE DEF new
<1>6. Send("deploy", "post", "deployment", TRUE, new, "posted")
  BY DEF PostDeployment, new, Post
<1>7. /\ "post" \in Places \ {"idle"} /\ "posted" \in Places
      /\ "posted" \in AfterFirst => "post" \in AfterFirst
      /\ "posted" \notin {"commit", "exact", "merged", "tagged", "released"}
      /\ "deploy" # "activate"
      /\ "post" \in Unsent /\ "posted" \notin Unsent
  BY DEF Places, Unsent, AfterFirst
<1> QED  BY <1>2, <1>4, <1>5, <1>6, <1>7, SendKeeps

LEMMA PostStatusTakes ==
  ASSUME TypeOK, World, Undrifted, sent["in_progress"] = 0
  PROVE  /\ sent["in_progress"] <= 1 /\ AddStatus("in_progress") \in Repo
         /\ Took("in_progress", AddStatus("in_progress")) /\ UNCHANGED <<book, drift>> =>
              World' /\ Undrifted' /\ Stays
<1> DEFINE new == AddStatus("in_progress")
<1>1. sent["in_progress"] = 0 /\ "in_progress" \in Write
  BY DEF World, TypeOK, Repo, Write
<1>2. new \in Repo
  BY <1>1 DEF TypeOK, Repo, World, AddStatus
<1>3. ASSUME Took("in_progress", new), UNCHANGED <<book, drift>>
      PROVE  World' /\ Undrifted' /\ Stays
  <2>1. /\ sent' \in [Write -> 0..2] /\ sent'["in_progress"] = sent["in_progress"] + 1
        /\ \A v \in Write \ {"in_progress"} : sent'[v] = sent[v]
        /\ repo' = new /\ rig' = rig
    BY <1>1, <1>3, TookIs
  <2>2. /\ repo'.statuses = repo.statuses \cup {"in_progress"} /\ repo'.main = repo.main
        /\ repo'.head = repo.head /\ repo'.pr = repo.pr
        /\ repo'.prBase = repo.prBase /\ repo'.reviewers = repo.reviewers
        /\ repo'.mergedOn = repo.mergedOn /\ repo'.tag = repo.tag
        /\ repo'.releases = repo.releases /\ repo'.deployments = repo.deployments
    BY <2>1 DEF TypeOK, Repo, AddStatus
  <2>3. World'
    BY <1>1, <1>3, <2>1, <2>2 DEF World, TypeOK, Repo, Write, Begun
  <2>4. Undrifted'
    BY <1>1, <1>3, <2>1, <2>2 DEF World, Undrifted, TypeOK, Repo, Write
  <2>5. Stays
    BY <1>1, <2>1, <2>2 DEF Stays, Earned, Begun, World, TypeOK, Repo, Write
  <2> QED  BY <2>3, <2>4, <2>5
<1> QED  BY <1>1, <1>2, <1>3

LEMMA PostStatusKeeps ==
  ASSUME TaskInv, PostStatus
  PROVE  TaskInv'
<1> DEFINE new == AddStatus("in_progress")
<1>1. TypeOK /\ World /\ Undrifted /\ StageInv("status")
  BY DEF TaskInv, Stage
<1>2. at["status"] = "post" /\ "status" \in Stage /\ "in_progress" \in WritesOf("status")
  BY DEF PostStatus, Send, Stage, WritesOf, Post
<1>3. sent["in_progress"] = 0
  BY <1>1, <1>2 DEF TypeOK, Write, StageInv, Sends, Shared, NotByTransaction,
     Unsent, WritesOf
<1>4.
        /\ sent["in_progress"] <= 1 /\ new \in Repo
        /\ Took("in_progress", new) /\ UNCHANGED <<book, drift>> =>
             World' /\ Undrifted' /\ Stays
  BY <1>1, <1>3, PostStatusTakes
<1>5. UNCHANGED <<book, drift>>
  BY DEF PostStatus, Send, Post
<1> HIDE DEF new
<1>6. Send("status", "post", "in_progress", TRUE, new, "posted")
  BY DEF PostStatus, new, Post
<1>7. /\ "post" \in Places \ {"idle"} /\ "posted" \in Places
      /\ "posted" \in AfterFirst => "post" \in AfterFirst
      /\ "posted" \notin {"commit", "exact", "merged", "tagged", "released"}
      /\ "status" # "activate"
      /\ "post" \in Unsent /\ "posted" \notin Unsent
  BY DEF Places, Unsent, AfterFirst
<1> QED  BY <1>2, <1>4, <1>5, <1>6, <1>7, SendKeeps

LEMMA PostSuccessTakes ==
  ASSUME TypeOK, World, Undrifted, sent["success"] = 0
  PROVE  /\ sent["success"] <= 1 /\ AddStatus("success") \in Repo
         /\ Took("success", AddStatus("success")) /\ UNCHANGED <<book, drift>> =>
              World' /\ Undrifted' /\ Stays
<1> DEFINE new == AddStatus("success")
<1>1. sent["success"] = 0 /\ "success" \in Write
  BY DEF World, TypeOK, Repo, Write
<1>2. new \in Repo
  BY <1>1 DEF TypeOK, Repo, World, AddStatus
<1>3. ASSUME Took("success", new), UNCHANGED <<book, drift>>
      PROVE  World' /\ Undrifted' /\ Stays
  <2>1. /\ sent' \in [Write -> 0..2] /\ sent'["success"] = sent["success"] + 1
        /\ \A v \in Write \ {"success"} : sent'[v] = sent[v]
        /\ repo' = new /\ rig' = rig
    BY <1>1, <1>3, TookIs
  <2>2. /\ repo'.statuses = repo.statuses \cup {"success"} /\ repo'.main = repo.main
        /\ repo'.head = repo.head /\ repo'.pr = repo.pr
        /\ repo'.prBase = repo.prBase /\ repo'.reviewers = repo.reviewers
        /\ repo'.mergedOn = repo.mergedOn /\ repo'.tag = repo.tag
        /\ repo'.releases = repo.releases /\ repo'.deployments = repo.deployments
    BY <2>1 DEF TypeOK, Repo, AddStatus
  <2>3. World'
    BY <1>1, <1>3, <2>1, <2>2 DEF World, TypeOK, Repo, Write, Begun
  <2>4. Undrifted'
    BY <1>1, <1>3, <2>1, <2>2 DEF World, Undrifted, TypeOK, Repo, Write
  <2>5. Stays
    BY <1>1, <2>1, <2>2 DEF Stays, Earned, Begun, World, TypeOK, Repo, Write
  <2> QED  BY <2>3, <2>4, <2>5
<1> QED  BY <1>1, <1>2, <1>3

LEMMA PostSuccessKeeps ==
  ASSUME TaskInv, PostSuccess
  PROVE  TaskInv'
<1> DEFINE new == AddStatus("success")
<1>1. TypeOK /\ World /\ Undrifted /\ StageInv("success")
  BY DEF TaskInv, Stage
<1>2. at["success"] = "post" /\ "success" \in Stage /\ "success" \in WritesOf("success")
  BY DEF PostSuccess, Send, Stage, WritesOf, Post
<1>3. sent["success"] = 0
  BY <1>1, <1>2 DEF TypeOK, Write, StageInv, Sends, Shared, NotByTransaction,
     Unsent, WritesOf
<1>4.
        /\ sent["success"] <= 1 /\ new \in Repo
        /\ Took("success", new) /\ UNCHANGED <<book, drift>> =>
             World' /\ Undrifted' /\ Stays
  BY <1>1, <1>3, PostSuccessTakes
<1>5. UNCHANGED <<book, drift>>
  BY DEF PostSuccess, Send, Post
<1> HIDE DEF new
<1>6. Send("success", "post", "success", TRUE, new, "posted")
  BY DEF PostSuccess, new, Post
<1>7. /\ "post" \in Places \ {"idle"} /\ "posted" \in Places
      /\ "posted" \in AfterFirst => "post" \in AfterFirst
      /\ "posted" \notin {"commit", "exact", "merged", "tagged", "released"}
      /\ "success" # "activate"
      /\ "post" \in Unsent /\ "posted" \notin Unsent
  BY DEF Places, Unsent, AfterFirst
<1> QED  BY <1>2, <1>4, <1>5, <1>6, <1>7, SendKeeps

-----------------------------------------------------------------------------
(* What recovery concludes, and what that means.                            *)
ActionFacts(s) ==
  /\ Action(s) \in Actions
  /\ Action(s) # "error" => "lock" \in book[s] /\ "final" \notin book[s]
  /\ Action(s) = "finalize" => Earned(s)
  /\ s = "lifecycle" /\ Action(s) = "write" => Begun(s) /\ ~repo.reviewers
  /\ s = "release" /\ Action(s) = "write" => repo.releases = 0
  /\ s = "activate" /\ Action(s) = "inactive" => rig.switches # "active"

LEMMA ActionMeans ==
  ASSUME TypeOK, World, NEW s \in Stage
  PROVE  ActionFacts(s)
<1>1. CASE s = "publish"
  <2>1. Action(s) = PublicationAction
    BY <1>1 DEF Action
  <2>2. repo.head \in {"absent", "exact", "other"}
    BY DEF TypeOK, Repo
  <2>3. /\ PublicationAction \in {"error", "manual", "write", "finalize"}
        /\ PublicationAction # "error" =>
             "lock" \in book["publish"] /\ "final" \notin book["publish"]
        /\ PublicationAction = "finalize" => repo.prBase = "task"
    BY <2>2 DEF PublicationAction, DraftExact
  <2> QED  BY <1>1, <2>1, <2>3 DEF ActionFacts, Actions, Earned
<1>2. CASE s = "lifecycle"
  <2>1. Action(s) = LifecycleAction
    BY <1>2 DEF Action
  <2>2. repo.pr \in {"none", "draft", "ready", "merged"}
    BY DEF TypeOK, Repo
  <2>3. /\ LifecycleAction \in {"error", "manual", "write", "finalize"}
        /\ LifecycleAction # "error" =>
             "lock" \in book["lifecycle"] /\ "final" \notin book["lifecycle"]
        /\ LifecycleAction = "finalize" => repo.reviewers /\ repo.pr = "ready"
        /\ LifecycleAction = "write" => ~repo.reviewers /\ repo.pr = "ready"
    BY <2>2 DEF LifecycleAction, PrExact
  <2> QED  BY <1>2, <2>1, <2>3 DEF ActionFacts, Actions, Earned, Begun
<1>3. CASE s = "merge"
  <2>1. Action(s) = MergeAction
    BY <1>3 DEF Action
  <2>2. /\ MergeAction \in {"error", "manual", "finalize"}
        /\ MergeAction # "error" => "lock" \in book["merge"] /\ "final" \notin book["merge"]
        /\ MergeAction = "finalize" => PostMerge
    BY DEF MergeAction, PostMerge
  <2> QED  BY <1>3, <2>1, <2>2 DEF ActionFacts, Actions, Earned, PostMerge
<1>4. CASE s = "release"
  <2>1. Action(s) = ReleaseAction
    BY <1>4 DEF Action
  <2>2. /\ ReleaseAction \in {"error", "manual", "write", "finalize"}
        /\ ReleaseAction # "error" => "lock" \in book["release"] /\ "final" \notin book["release"]
        /\ ReleaseAction = "finalize" => ExactExisting
        /\ ReleaseAction = "write" => repo.releases = 0
    BY DEF ReleaseAction, ReleaseClear, TagAlone, ExactExisting
  <2> QED  BY <1>4, <2>1, <2>2 DEF ActionFacts, Actions, Earned, ExactExisting
<1>5. CASE s = "deploy"
  <2>1. Action(s) = PostAction(s, DeploymentClear, DeploymentExact)
    BY <1>5 DEF Action, DeploymentAction
  <2>2. ~(DeploymentClear /\ DeploymentExact)
    BY DEF DeploymentClear, DeploymentExact
  <2> QED  BY <1>5, <2>1, <2>2 DEF ActionFacts, Actions, Earned, PostAction, DeploymentExact,
           Locked, Completed
<1>6. CASE s = "status"
  <2>1. Action(s) = PostAction(s, StatusClear, StatusExact)
    BY <1>6 DEF Action, StatusAction
  <2>2. ~(StatusClear /\ StatusExact)
    BY DEF StatusClear, StatusExact
  <2> QED  BY <1>6, <2>1, <2>2 DEF ActionFacts, Actions, Earned, PostAction, StatusExact, Locked,
           Completed
<1>7. CASE s = "success"
  <2>1. Action(s) = PostAction(s, SuccessClear, SuccessExact)
    BY <1>7 DEF Action, SuccessAction
  <2>2. ~(SuccessClear /\ SuccessExact)
    BY DEF SuccessClear, StatusExact, SuccessExact
  <2> QED  BY <1>7, <2>1, <2>2 DEF ActionFacts, Actions, Earned, PostAction, SuccessExact, Locked,
           Completed
<1>8. CASE s = "activate"
  <2>1. Action(s) = ActivationAction
    BY <1>8 DEF Action
  <2>2. /\ ActivationAction \in {"error", "manual", "inactive", "finalize"}
        /\ ActivationAction # "error" =>
             "lock" \in book["activate"] /\ "final" \notin book["activate"]
        /\ ActivationAction = "finalize" => rig.switches = "active"
        /\ ActivationAction = "inactive" => rig.switches = "before"
    BY DEF ActivationAction, Activated, Locked, Completed
  <2> QED  BY <1>8, <2>1, <2>2 DEF ActionFacts, Actions, Earned, World
<1> QED  BY <1>1, <1>2, <1>3, <1>4, <1>5, <1>6, <1>7, <1>8 DEF Stage

-----------------------------------------------------------------------------
(* The steps of a recovery.                                                 *)
LEMMA RecoveryStops ==
  ASSUME TaskInv, NEW s \in Stage, rat[s] # "idle", RecoveryAt(s, "idle"),
         UNCHANGED <<transaction, rbook, saw, overlap, world, drift>>,
         NEW kind, UNCHANGED faults \/ Fault(kind)
  PROVE  TaskInv'
<1>1. TypeOK /\ StageInv(s)
  BY DEF TaskInv
<1>2. UNCHANGED <<granted, live, book, at, repo, rig, sent, rbook, saw, overlap, drift>>
  BY DEF transaction, world
<1>3. /\ rat' \in [Stage -> RecoveryPlaces] /\ rat'[s] = "idle"
      /\ \A t \in Stage \ {s} : rat'[t] = rat[t]
  BY <1>1 DEF TypeOK, RecoveryAt, RecoveryPlaces
<1>4. TypeOK'
  BY <1>1, <1>2, <1>3, FaultsCounted DEF TypeOK
<1>5. rbook[s] # {}
  BY <1>1 DEF StageInv, Ledgers
<1>6. \A t \in Stage : Done(t) => Done(t)'
  BY <1>2 DEF Done, Completed, Recovered
<1>7. Ledgers(s)' /\ Alone(s)' /\ Recovers(s)'
  BY <1>1, <1>2, <1>3, <1>6, PreviousIsStage DEF StageInv, Ledgers, Alone, Recovers, Closing,
     Earned, Begun
<1>8. Marks(s)' /\ Sends(s)'
  BY <1>1, <1>2, <1>3, <1>5 DEF StageInv, Marks, Earned, Begun, Sends, Shared, NotByTransaction,
     NotByRecovery
<1>9. StageInv(s)'
  BY <1>1, <1>2, <1>7, <1>8 DEF StageInv, Asked
<1>10. \A t \in Stage \ {s} : /\ rbook'[t] = rbook[t] /\ rat'[t] = rat[t] /\ saw'[t] = saw[t]
                              /\ t \in overlap' <=> t \in overlap
  BY <1>2, <1>3
<1> QED  BY <1>4, <1>6, <1>9, <1>10, RecoveryKeeps

LEMMA BeginRecoveryKeeps ==
  ASSUME TaskInv, NEW s \in Stage, BeginRecovery(s)
  PROVE  TaskInv'
<1>1. TypeOK /\ World /\ StageInv(s) /\ rat[s] = "idle" /\ rbook[s] = {} /\ s \notin overlap
  BY DEF TaskInv, BeginRecovery, StageInv, Alone
<1>2. UNCHANGED <<granted, live, book, at, repo, rig, sent, drift>>
  BY DEF BeginRecovery, transaction, world
<1>3. ActionFacts(s) /\ Action(s) # "error"
  BY <1>1, ActionMeans DEF BeginRecovery
<1>4. /\ rbook' \in [Stage -> SUBSET RecoveryFiles] /\ rbook'[s] = {"lock"}
      /\ \A t \in Stage \ {s} : rbook'[t] = rbook[t]
  BY <1>1 DEF BeginRecovery, Enter, TypeOK, RecoveryFiles
<1>5. Sight(s) \in [files : SUBSET Files, action : Actions, rig : {<<>>} \cup (Switches \X Output)]
  <2>1. book[s] \in SUBSET Files /\ Action(s) \in Actions
    BY <1>1, <1>3 DEF TypeOK, ActionFacts
  <2>2. <<rig.switches, rig.output>> \in Switches \X Output
    BY <1>1 DEF TypeOK, Rig
  <2> QED  BY <2>1, <2>2 DEF Sight
<1>6. /\ saw' \in [Stage -> [files : SUBSET Files, action : Actions,
                             rig : {<<>>} \cup (Switches \X Output)]]
      /\ \A t \in Stage \ {s} : saw'[t] = saw[t]
  BY <1>1, <1>5 DEF BeginRecovery, TypeOK
<1>7. /\ rat' \in [Stage -> RecoveryPlaces] /\ rat'[s] \in {"recheck", "idle"}
      /\ \A t \in Stage \ {s} : rat'[t] = rat[t]
  BY <1>1 DEF BeginRecovery, RecoveryAt, TypeOK, RecoveryPlaces
<1>8. /\ overlap' \in SUBSET Stage /\ (s \notin overlap' => ~StillRuns(s))
      /\ \A t \in Stage \ {s} : t \in overlap' <=> t \in overlap
  BY <1>1 DEF BeginRecovery, TypeOK
<1>9. UNCHANGED faults \/ Fault("disk")
  BY DEF BeginRecovery
<1>10. TypeOK'
  BY <1>1, <1>2, <1>4, <1>6, <1>7, <1>8, <1>9, FaultsCounted DEF TypeOK
<1>11. \A t \in Stage : Done(t) => Done(t)'
  BY <1>1, <1>2, <1>4, <1>6 DEF Done, Completed, Recovered
<1>12. Ledgers(s)'
  BY <1>1, <1>2, <1>3, <1>4, <1>7, <1>11, PreviousIsStage DEF StageInv, Ledgers, ActionFacts
<1>13. Alone(s)' /\ Recovers(s)'
  BY <1>1, <1>2, <1>3, <1>4, <1>7, <1>8 DEF StageInv, Alone, StillRuns, Recovers, ActionFacts
<1>14. Marks(s)'
  BY <1>1, <1>2 DEF StageInv, Marks, Earned, Begun
<1>15. Sends(s)'
  BY <1>1, <1>2, <1>4, <1>7 DEF StageInv, Sends, Shared, NotByTransaction, NotByRecovery
<1>16. StageInv(s)'
  BY <1>1, <1>2, <1>4, <1>12, <1>13, <1>14, <1>15 DEF StageInv, Asked
<1>17. \A t \in Stage \ {s} : /\ rbook'[t] = rbook[t] /\ rat'[t] = rat[t] /\ saw'[t] = saw[t]
                              /\ t \in overlap' <=> t \in overlap
  BY <1>4, <1>6, <1>7, <1>8
<1>18. UNCHANGED <<transaction, world, drift>>
  BY DEF BeginRecovery
<1> QED  BY <1>10, <1>11, <1>16, <1>17, <1>18, RecoveryKeeps

LEMMA RecheckRecoveryKeeps ==
  ASSUME TaskInv, NEW s \in Stage, RecheckRecovery(s)
  PROVE  TaskInv'
<1>1. TypeOK /\ World /\ StageInv(s) /\ rat[s] = "recheck"
  BY DEF TaskInv, RecheckRecovery
<1>2. UNCHANGED <<granted, live, book, at, repo, rig, sent, rbook, saw, overlap, faults, drift>>
  BY DEF RecheckRecovery, transaction, world
<1>3. CASE Sight(s) = saw[s]
  <2>1. saw[s].action = Action(s) /\ ActionFacts(s)
    BY <1>1, <1>3, ActionMeans DEF Sight
  <2>2. /\ AfterRecheck(s) \in {"write", "verify", "commit"}
        /\ AfterRecheck(s) = "write" <=> Action(s) = "write"
    BY <2>1 DEF AfterRecheck
  <2>3. /\ rat' \in [Stage -> RecoveryPlaces] /\ rat'[s] = AfterRecheck(s)
        /\ \A t \in Stage \ {s} : rat'[t] = rat[t]
    BY <1>1, <1>3, <2>2 DEF RecheckRecovery, RecoveryAt, TypeOK, RecoveryPlaces
  <2>4. TypeOK'
    BY <1>1, <1>2, <2>3 DEF TypeOK
  <2>5. \A t \in Stage : Done(t) => Done(t)'
    BY <1>2 DEF Done, Completed, Recovered
  <2>6. Ledgers(s)' /\ Alone(s)'
    BY <1>1, <1>2, <2>1, <2>2, <2>3, <2>5, PreviousIsStage DEF StageInv, Ledgers, Alone
  <2>7. Recovers(s)'
    BY <1>1, <1>2, <2>1, <2>2, <2>3 DEF StageInv, Recovers, Closing, ActionFacts, Earned, Begun
  <2>8. Marks(s)'
    BY <1>1, <1>2 DEF StageInv, Marks, Earned, Begun
  <2>9. /\ s = "lifecycle" /\ rat'[s] = "write" => sent["request"] = 0
        /\ s = "release" /\ rat'[s] = "write" => sent["release"] = 0
    BY <1>1, <2>1, <2>2, <2>3 DEF ActionFacts, World, TypeOK, Write
  <2>10. Sends(s)'
    BY <1>1, <1>2, <2>2, <2>3, <2>9 DEF StageInv, Sends, Shared, NotByTransaction, NotByRecovery
  <2>11. StageInv(s)'
    BY <1>1, <1>2, <2>6, <2>7, <2>8, <2>10 DEF StageInv, Asked
  <2>12. \A t \in Stage \ {s} : /\ rbook'[t] = rbook[t] /\ rat'[t] = rat[t] /\ saw'[t] = saw[t]
                                /\ t \in overlap' <=> t \in overlap
    BY <1>2, <2>3
  <2>13. UNCHANGED <<transaction, world, drift>>
    BY DEF RecheckRecovery
  <2> QED  BY <2>4, <2>5, <2>11, <2>12, <2>13, RecoveryKeeps
<1>4. CASE Sight(s) # saw[s]
  <2>1. RecoveryAt(s, "idle") /\ rat[s] # "idle"
    BY <1>1, <1>4 DEF RecheckRecovery
  <2>2. UNCHANGED <<transaction, rbook, saw, overlap, world, drift>> /\ UNCHANGED faults
    BY DEF RecheckRecovery
  <2> QED  BY <2>1, <2>2, RecoveryStops
<1> QED  BY <1>3, <1>4

LEMMA VerifiedIsEarned ==
  ASSUME TypeOK, World, NEW s \in Stage, Verified(s)
  PROVE  Earned(s) /\ s \notin {"merge", "activate"}
<1>1. s = "publish" => Earned(s)
  BY ActionMeans DEF Verified, ActionFacts, Action
<1>2. CASE s = "lifecycle"
  BY <1>2 DEF Verified, Earned, FinalState, PrExact
<1>3. CASE s = "release"
  BY <1>3 DEF Verified, Earned, ExactExisting
<1>4. CASE s \in {"deploy", "status", "success"}
  BY <1>4 DEF Verified, Earned, DeploymentExact, StatusExact, SuccessExact
<1>5. CASE s \in {"merge", "activate"}
  BY <1>5 DEF Verified
<1> QED  BY <1>1, <1>2, <1>3, <1>4, <1>5 DEF Stage

LEMMA CommitRecoveryKeeps ==
  ASSUME TaskInv, NEW s \in Stage, CommitRecovery(s)
  PROVE  TaskInv'
<1>1. TypeOK /\ World /\ StageInv(s) /\ rat[s] \in {"commit", "verify"}
  BY DEF TaskInv, CommitRecovery
<1>2. UNCHANGED <<granted, live, book, at, repo, rig, sent, saw, overlap, drift>>
  BY DEF CommitRecovery, transaction, world
<1>3. /\ Closing(s) => Earned(s)
      /\ s = "activate" => rat[s] = "commit"
  BY <1>1, VerifiedIsEarned DEF StageInv, Recovers, CommitRecovery
<1>4. /\ rbook' \in [Stage -> SUBSET RecoveryFiles] /\ rbook[s] \subseteq rbook'[s]
      /\ rbook'[s] \subseteq rbook[s] \cup {"final"}
      /\ \A t \in Stage \ {s} : rbook'[t] = rbook[t]
  <2>1. CASE rbook' = rbook
    BY <1>1, <2>1 DEF TypeOK
  <2>2. CASE rbook' = [rbook EXCEPT ![s] = @ \cup {"final"}]
    BY <1>1, <2>2 DEF TypeOK, RecoveryFiles
  <2> QED  BY <2>1, <2>2 DEF CommitRecovery, Enter
<1>5. /\ rat' \in [Stage -> RecoveryPlaces] /\ rat'[s] = "idle"
      /\ \A t \in Stage \ {s} : rat'[t] = rat[t]
  BY <1>1 DEF CommitRecovery, RecoveryAt, TypeOK, RecoveryPlaces
<1>6. UNCHANGED faults \/ Fault("disk")
  BY DEF CommitRecovery
<1>7. TypeOK'
  BY <1>1, <1>2, <1>4, <1>5, <1>6, FaultsCounted DEF TypeOK
<1>8. \A t \in Stage : Done(t) => Done(t)'
  BY <1>2, <1>4 DEF Done, Completed, Recovered
<1>9. rbook[s] # {} /\ rbook'[s] # {}
  BY <1>1, <1>4 DEF StageInv, Ledgers
<1>10. Ledgers(s)' /\ Alone(s)'
  BY <1>1, <1>2, <1>4, <1>5, <1>8, <1>9, PreviousIsStage DEF StageInv, Ledgers, Alone
<1>11. Recovers(s)'
  BY <1>1, <1>2, <1>3, <1>4, <1>5 DEF StageInv, Recovers, Closing, Earned, Begun
<1>12. Marks(s)' /\ Sends(s)'
  BY <1>1, <1>2, <1>5, <1>9 DEF StageInv, Marks, Earned, Begun, Sends, Shared, NotByTransaction,
     NotByRecovery
<1>13. StageInv(s)'
  BY <1>1, <1>2, <1>9, <1>10, <1>11, <1>12 DEF StageInv, Asked
<1>14. \A t \in Stage \ {s} : /\ rbook'[t] = rbook[t] /\ rat'[t] = rat[t] /\ saw'[t] = saw[t]
                              /\ t \in overlap' <=> t \in overlap
  BY <1>2, <1>4, <1>5
<1>15. UNCHANGED <<transaction, world, drift>>
  BY DEF CommitRecovery
<1> QED  BY <1>7, <1>8, <1>13, <1>14, <1>15, RecoveryKeeps

LEMMA RecoveryEnds ==
  ASSUME TaskInv, NEW s \in Stage, RefuseRecovery(s) \/ HaltRecovery(s)
  PROVE  TaskInv'
<1>1. CASE RefuseRecovery(s)
  <2>1. rat[s] # "idle" /\ RecoveryAt(s, "idle") /\ UNCHANGED faults
        /\ UNCHANGED <<transaction, rbook, saw, overlap, world, drift>>
    BY <1>1 DEF RefuseRecovery
  <2> QED  BY <2>1, RecoveryStops
<1>2. CASE HaltRecovery(s)
  <2>1. rat[s] # "idle" /\ RecoveryAt(s, "idle") /\ Fault("halt")
        /\ UNCHANGED <<transaction, rbook, saw, overlap, world, drift>>
    BY <1>2 DEF HaltRecovery
  <2> QED  BY <2>1, RecoveryStops
<1> QED  BY <1>1, <1>2

(* The one write of a recovery.  It is counted against the transaction's.   *)
LEMMA RecoverByKeeps ==
  ASSUME TaskInv, NEW s \in Stage, NEW w, NEW accepted, NEW new,
         RecoverBy(s, w, accepted, new),
         \/ s = "publish" /\ w = "create"
         \/ s = "lifecycle" /\ w = "request"
         \/ s = "release" /\ w = "release",
         accepted =>
           /\ sent[w] <= 1 /\ new \in Repo
           /\ Took(w, new) /\ UNCHANGED <<book, drift>> => World' /\ Undrifted' /\ Stays
  PROVE  TaskInv'
<1>1. TypeOK /\ World /\ StageInv(s) /\ rat[s] = "write" /\ w \in WritesOf(s)
  BY DEF TaskInv, RecoverBy, WritesOf
<1>2. UNCHANGED <<granted, live, book, at, rbook, saw, overlap, drift>>
  BY DEF RecoverBy, transaction
<1>3. ASSUME accepted, Took(w, new), NEW place \in {"verify", "idle"}, RecoveryAt(s, place),
             UNCHANGED faults \/ Fault("lost")
      PROVE  TaskInv'
  <2>1. World' /\ Undrifted' /\ Stays /\ sent[w] <= 1 /\ new \in Repo /\ w \in Write
    BY <1>1, <1>2, <1>3, WritesAreApart
  <2>2. /\ rat' \in [Stage -> RecoveryPlaces] /\ rat'[s] = place
        /\ \A t \in Stage \ {s} : rat'[t] = rat[t]
    BY <1>1, <1>3 DEF TypeOK, RecoveryAt, RecoveryPlaces
  <2>3. /\ sent' \in [Write -> 0..2] /\ sent'[w] = sent[w] + 1
        /\ \A v \in Write \ {w} : sent'[v] = sent[v]
        /\ repo' = new /\ rig' = rig
    BY <1>1, <1>3, <2>1, TookIs
  <2>4. TypeOK'
    BY <1>1, <1>2, <1>3, <2>1, <2>2, <2>3, FaultsCounted DEF TypeOK
  <2>5. (Earned(s) => Earned(s)') /\ (Begun(s) => Begun(s)')
    BY <2>1 DEF Stays
  <2>6. \A t \in Stage : Done(t) => Done(t)'
    BY <1>2 DEF Done, Completed, Recovered
  <2>7. rbook[s] # {} /\ "lock" \in book[s]
    BY <1>1 DEF StageInv, Ledgers
  <2>8. Ledgers(s)' /\ Alone(s)'
    BY <1>1, <1>2, <2>2, <2>3, <2>6, <2>7, PreviousIsStage DEF StageInv, Ledgers, Alone
  <2>9. Recovers(s)' /\ Marks(s)'
    BY <1>1, <1>2, <2>2, <2>3, <2>5 DEF StageInv, Recovers, Marks, Closing
  <2>10. Sends(s)'
    <3>1. NotByRecovery(s) /\ ~NotByRecovery(s)' /\ rat'[s] # "write"
      BY <1>1, <1>2, <2>2, <2>7 DEF NotByRecovery
    <3>2. NotByTransaction(s)' <=> NotByTransaction(s)
      BY <1>2 DEF NotByTransaction
    <3> QED  BY <1>1, <1>2, <2>3, <3>1, <3>2 DEF StageInv, Sends, Shared
  <2>11. StageInv(s)'
    BY <1>1, <1>2, <2>7, <2>8, <2>9, <2>10 DEF StageInv, Asked
  <2>12. \A t \in Stage \ {s} : \A v \in WritesOf(t) : sent'[v] = sent[v]
    BY <1>1, <2>3, WritesAreApart
  <2>13. \A t \in Stage \ {s} : /\ at'[t] = at[t] /\ rat'[t] = rat[t]
                                /\ \A v \in WritesOf(t) : sent'[v] = sent[v]
    BY <1>2, <2>2, <2>12
  <2>14. UNCHANGED <<granted, live, book, rbook, saw, overlap>>
    BY <1>2
  <2> QED  BY <2>1, <2>3, <2>4, <2>11, <2>13, <2>14, WorldKeeps
<1>4. ASSUME UNCHANGED world, RecoveryAt(s, "idle"), UNCHANGED faults \/ Fault("lost")
      PROVE  TaskInv'
  <2>1. UNCHANGED <<transaction, rbook, saw, overlap, world, drift>> /\ rat[s] # "idle"
    BY <1>1, <1>4 DEF RecoverBy
  <2> QED  BY <1>4, <2>1, RecoveryStops
<1> QED  BY <1>3, <1>4 DEF RecoverBy, Request

LEMMA RecoverPublicationKeeps ==
  ASSUME TaskInv, RecoverPublication
  PROVE  TaskInv'
<1>1. TypeOK /\ World /\ Undrifted /\ "publish" \in Stage
  BY DEF TaskInv, Stage
<1>2. MayOpenDraft =>
        /\ sent["create"] <= 1 /\ OpenDraft \in Repo
        /\ Took("create", OpenDraft) /\ UNCHANGED <<book, drift>> =>
             World' /\ Undrifted' /\ Stays
  BY <1>1, CreateDraftPrTakes
<1> QED  BY <1>1, <1>2, RecoverByKeeps DEF RecoverPublication

LEMMA RecoverLifecycleKeeps ==
  ASSUME TaskInv, RecoverLifecycle
  PROVE  TaskInv'
<1> DEFINE new == [repo EXCEPT !.reviewers = TRUE]
<1>1. TypeOK /\ World /\ Undrifted /\ "lifecycle" \in Stage /\ StageInv("lifecycle")
  BY DEF TaskInv, Stage
<1>2. rat["lifecycle"] = "write"
  BY DEF RecoverLifecycle, RecoverBy
<1>3. Begun("lifecycle") /\ sent["request"] <= 1
  <2>1. NotByRecovery("lifecycle") /\ Shared("lifecycle", "request") /\ Begun("lifecycle")
    BY <1>1, <1>2 DEF StageInv, Sends, NotByRecovery, Recovers
  <2> QED  BY <2>1 DEF Shared
<1>4. MayRequest =>
        /\ sent["request"] <= 1 /\ new \in Repo
        /\ Took("request", new) /\ UNCHANGED <<book, drift>> =>
             World' /\ Undrifted' /\ Stays
  BY <1>1, <1>3, RequestReviewersTakes
<1>5. RecoverBy("lifecycle", "request", MayRequest, new)
  BY DEF RecoverLifecycle
<1> HIDE DEF new
<1> QED  BY <1>1, <1>4, <1>5, RecoverByKeeps

LEMMA RecoverReleaseKeeps ==
  ASSUME TaskInv, RecoverRelease
  PROVE  TaskInv'
<1>1. TypeOK /\ World /\ Undrifted /\ "release" \in Stage /\ StageInv("release")
  BY DEF TaskInv, Stage
<1>2. rat["release"] = "write"
  BY DEF RecoverRelease, RecoverBy
<1>3. sent["release"] <= 1
  <2>1. NotByRecovery("release") /\ Shared("release", "release")
    BY <1>1, <1>2 DEF StageInv, Sends, NotByRecovery
  <2> QED  BY <2>1 DEF Shared
<1>4. repo.tag =>
        /\ sent["release"] <= 1 /\ OneMoreRelease \in Repo
        /\ Took("release", OneMoreRelease) /\ UNCHANGED <<book, drift>> =>
             World' /\ Undrifted' /\ Stays
  BY <1>1, <1>3, CreateReleaseTakes
<1> QED  BY <1>1, <1>4, RecoverByKeeps DEF RecoverRelease

-----------------------------------------------------------------------------
(* The production machine.                                                  *)
LEMMA MachineKeeps ==
  ASSUME TaskInv, UNCHANGED <<granted, live, book, recovery, repo, drift>>,
         rig' \in Rig, sent' \in [Write -> 0..2],
         \A w \in Write \ {"activate"} : sent'[w] = sent[w],
         \/ sent'["activate"] = sent["activate"]
         \/ rig.controller /\ sent'["activate"] = 1,
         rig'.switches = "active" =>
           sent'["activate"] = 1 /\ (rig.switches = "active" \/ rig.controller),
         rig'.controller => rig.controller \/ at["activate"] # "idle",
         NEW place \in {"idle", "running", "ran"}, place # "idle" => at["activate"] # "idle",
         at' = at \/ at' = [at EXCEPT !["activate"] = place],
         NEW kind, UNCHANGED faults \/ Fault(kind)
  PROVE  TaskInv'
<1> DEFINE s == "activate"
<1>1. TypeOK /\ World /\ Undrifted /\ StageInv(s) /\ s \in Stage
  BY DEF TaskInv, Stage
<1>2. UNCHANGED <<granted, live, book, repo, rbook, rat, saw, overlap, drift>>
  BY DEF recovery
<1>3. /\ at' \in [Stage -> Places] /\ at'[s] \in {at[s], place}
      /\ \A t \in Stage \ {s} : at'[t] = at[t]
  BY <1>1 DEF TypeOK, Places
<1>4. at'[s] # "idle" => at[s] # "idle"
  BY <1>3
<1>5. TypeOK'
  BY <1>1, <1>2, <1>3, FaultsCounted DEF TypeOK
<1>6. rig.controller \/ at[s] # "idle" => "lock" \in book[s]
  BY <1>1 DEF World, StageInv, Ledgers
<1>7. s \in WritesOf(s) /\ WritesOf(s) = {s} /\ s \in Write
  BY DEF WritesOf, Write
<1>8. (sent["activate"] = 1 => sent'["activate"] = 1) /\ sent'["activate"] <= 1
  BY <1>1, <1>7 DEF World
<1>9. World'
  BY <1>1, <1>2, <1>6, <1>8 DEF World, Write
<1>10. Undrifted'
  BY <1>1, <1>2 DEF Undrifted, Write
<1>11. Stays
  BY <1>2, <1>8 DEF Stays, Earned, Begun
<1>12. \A t \in Stage : Done(t) => Done(t)'
  BY <1>2 DEF Done, Completed, Recovered
<1>13. Ledgers(s)'
  BY <1>1, <1>2, <1>4, <1>6, <1>7, <1>12, PreviousIsStage DEF StageInv, Ledgers
<1>14. Alone(s)'
  BY <1>1, <1>2, <1>4 DEF StageInv, Alone
<1>15. Recovers(s)'
  BY <1>1, <1>2, <1>11 DEF StageInv, Ledgers, Alone, Recovers, Closing, Stays
<1>16. Marks(s)'
  BY <1>1, <1>2, <1>3, <1>11 DEF StageInv, Marks, Stays
<1>17. Sends(s)'
  BY DEF Sends
<1>18. StageInv(s)'
  BY <1>13, <1>14, <1>15, <1>16, <1>17 DEF StageInv, Asked
<1>19. \A t \in Stage \ {s} : \A w \in WritesOf(t) : sent'[w] = sent[w]
  BY <1>1, <1>7, WritesAreApart
<1>20. UNCHANGED <<granted, live, book, rbook, saw, overlap>>
  BY <1>2
<1>21. \A t \in Stage \ {s} : /\ at'[t] = at[t] /\ rat'[t] = rat[t]
                              /\ \A w \in WritesOf(t) : sent'[w] = sent[w]
  BY <1>2, <1>3, <1>19
<1> QED  BY <1>1, <1>5, <1>9, <1>10, <1>11, <1>18, <1>20, <1>21, WorldKeeps

LEMMA MachineSteps ==
  ASSUME TaskInv, RunController \/ ControllerWrites \/ ControllerDone \/ ControllerFails
  PROVE  TaskInv'
<1>1. /\ TypeOK /\ rig \in Rig /\ sent \in [Write -> 0..2] /\ "activate" \in Write
      /\ sent["activate"] \in 0..2 /\ (rig.switches = "active" => sent["activate"] = 1)
  BY DEF TaskInv, TypeOK, Write, World
<1>2. CASE RunController
  <2>1. /\ rig' = [rig EXCEPT !.controller = TRUE] /\ at["activate"] = "run"
        /\ at' = [at EXCEPT !["activate"] = "running"]
        /\ UNCHANGED <<granted, live, book, recovery, repo, drift>> /\ sent' = sent
        /\ faults' = faults
    BY <1>2 DEF RunController, Advance
  <2>2. rig' \in Rig /\ rig'.switches = rig.switches
    BY <1>1, <2>1 DEF Rig
  <2> QED  BY <1>1, <2>1, <2>2, MachineKeeps
<1>3. CASE ControllerWrites
  <2>1. /\ UNCHANGED <<granted, live, book, recovery, repo, drift>> /\ at' = at
        /\ faults' = faults /\ rig.controller
    BY <1>3 DEF ControllerWrites, transaction
  <2>2. CASE rig' = [rig EXCEPT !.output = "preflight"] /\ sent' = sent
    <3>1. rig' \in Rig /\ rig'.switches = rig.switches /\ rig'.controller = rig.controller
      BY <1>1, <2>2 DEF Rig, Output
    <3> QED  BY <1>1, <2>1, <2>2, <3>1, MachineKeeps
  <2>3. CASE /\ sent["activate"] = 0 /\ rig' = [rig EXCEPT !.switches = "active"]
             /\ sent' = [sent EXCEPT !["activate"] = @ + 1]
    <3>1. rig' \in Rig /\ rig'.controller = rig.controller
      BY <1>1, <2>3 DEF Rig, Switches
    <3>2. /\ sent' \in [Write -> 0..2] /\ sent'["activate"] = 1
          /\ \A w \in Write \ {"activate"} : sent'[w] = sent[w]
      BY <1>1, <2>3
    <3> QED  BY <1>1, <2>1, <2>3, <3>1, <3>2, MachineKeeps
  <2>4. CASE rig' = [rig EXCEPT !.output = "both"] /\ sent' = sent
    <3>1. rig' \in Rig /\ rig'.switches = rig.switches /\ rig'.controller = rig.controller
      BY <1>1, <2>4 DEF Rig, Output
    <3> QED  BY <1>1, <2>1, <2>4, <3>1, MachineKeeps
  <2> QED  BY <1>3, <2>2, <2>3, <2>4 DEF ControllerWrites
<1>4. CASE ControllerDone
  <2> DEFINE place == IF at["activate"] = "running" THEN "ran" ELSE "idle"
  <2>1. /\ rig' = [rig EXCEPT !.controller = FALSE]
        /\ at' = [at EXCEPT !["activate"] = place]
        /\ UNCHANGED <<granted, live, book, recovery, repo, drift>> /\ sent' = sent
        /\ faults' = faults /\ rig.controller
    BY <1>4 DEF ControllerDone, Advance
  <2>2. place \in {"idle", "running", "ran"} /\ (place # "idle" => at["activate"] # "idle")
    OBVIOUS
  <2> HIDE DEF place
  <2>3. rig' \in Rig /\ rig'.switches = rig.switches
    BY <1>1, <2>1 DEF Rig
  <2> QED  BY <1>1, <2>1, <2>2, <2>3, MachineKeeps
<1>5. CASE ControllerFails
  <2>1. /\ at' = [at EXCEPT !["activate"] = "idle"] /\ Fault("halt")
        /\ UNCHANGED <<granted, live, book, recovery, repo, drift>> /\ sent' = sent
        /\ rig.controller
    BY <1>5 DEF ControllerFails, Stop, Advance
  <2>2. PICK left \in {rig.switches, "before", "other"} :
          rig' = [rig EXCEPT !.controller = FALSE, !.switches = left]
    BY <1>5 DEF ControllerFails
  <2>3. rig' \in Rig /\ rig'.switches = left
    <3> DEFINE one == [rig EXCEPT !.controller = FALSE]
    <3>1. one \in Rig /\ left \in Switches
      BY <1>1 DEF Rig, Switches
    <3>2. rig' = [one EXCEPT !.switches = left]
      BY <1>1, <2>2 DEF Rig
    <3> HIDE DEF one
    <3> QED  BY <3>1, <3>2 DEF Rig
  <2> QED  BY <1>1, <2>1, <2>2, <2>3, MachineKeeps
<1> QED  BY <1>2, <1>3, <1>4, <1>5

-----------------------------------------------------------------------------
(* Processes that die, and other people.                                    *)
LEMMA HaltKeeps ==
  ASSUME TaskInv, NEW s \in Stage, Halt(s)
  PROVE  TaskInv'
<1>1. /\ at[s] # "idle" \/ s \in live
      /\ UNCHANGED <<granted, book, recovery, world, drift>>
      /\ live' = live \ {s} /\ Fault("halt") /\ Stop(s)
  BY DEF Halt
<1> QED  BY <1>1, TransactionStops

(* None of what other people do takes back what a stage has done.           *)
LEMMA OthersKeep ==
  ASSUME TaskInv, Drifts, repo' \in Repo, rig' \in Rig,
         UNCHANGED <<transaction, recovery, sent, faults>>,
         World', Stays,
         rig' = rig \/ (rig'.switches # "active" /\ rig'.controller = rig.controller)
  PROVE  TaskInv'
<1> DEFINE s == "activate"
<1>1. TypeOK /\ Undrifted /\ StageInv(s) /\ s \in Stage
  BY DEF TaskInv, Stage
<1>2. UNCHANGED <<granted, live, book, at, rbook, rat, saw, overlap, sent, faults>>
  BY DEF transaction, recovery
<1>3. drift' \in 0..MaxDrift /\ drift' # 0
  BY <1>1, ExactTaskAssumption DEF Drifts, TypeOK
<1>4. TypeOK'
  BY <1>1, <1>2, <1>3 DEF TypeOK
<1>5. Undrifted'
  BY <1>3 DEF Undrifted
<1>6. \A t \in Stage : Done(t) => Done(t)'
  BY <1>2 DEF Done, Completed, Recovered
<1>7. Ledgers(s)' /\ Alone(s)'
  BY <1>1, <1>2, <1>6, PreviousIsStage DEF StageInv, Ledgers, Alone
<1>8. Recovers(s)' /\ Marks(s)' /\ Sends(s)'
  BY <1>1, <1>2 DEF StageInv, Recovers, Closing, Marks, Sends, Stays
<1>9. StageInv(s)'
  BY <1>1, <1>2, <1>7, <1>8 DEF StageInv, Asked
<1> QED  BY <1>1, <1>2, <1>4, <1>5, <1>9, WorldKeeps

LEMMA DriftKeeps ==
  ASSUME TaskInv, Drift
  PROVE  TaskInv'
<1>1. TypeOK /\ World /\ repo \in Repo /\ rig \in Rig
  BY DEF TaskInv, TypeOK
<1>2. Drifts /\ rig' = rig /\ sent' = sent /\ book' = book
      /\ UNCHANGED <<transaction, recovery, sent, faults>>
  BY DEF Drift, transaction
<1>3. /\ repo' \in Repo /\ repo'.prBase = repo.prBase /\ repo'.reviewers = repo.reviewers
      /\ repo'.tag = repo.tag /\ repo'.releases = repo.releases
      /\ repo.deployments \subseteq repo'.deployments
      /\ repo'.deployments \subseteq repo.deployments \cup {"other"}
      /\ repo.statuses \subseteq repo'.statuses
      /\ repo'.statuses \subseteq repo.statuses \cup {"other"}
      /\ repo'.head = repo.head \/ (repo.head = "exact" /\ repo'.head = "other")
      /\ \/ repo'.pr = repo.pr /\ repo'.mergedOn = repo.mergedOn
         \/ repo.pr = "draft" /\ repo'.pr = "ready" /\ repo'.mergedOn = repo.mergedOn
         \/ repo.pr = "ready" /\ repo'.pr = "merged" /\ repo'.mergedOn # "none"
  <2>1. CASE MayMerge /\ repo' = MergedRepo
    BY <1>1, <2>1, MergedRepoIs DEF MayMerge
  <2>2. CASE repo' = [repo EXCEPT !.main = "moved"] \/ repo' = [repo EXCEPT !.main = "past"]
    BY <1>1, <2>2 DEF Repo
  <2>3. CASE repo.head = "exact" /\ repo' = [repo EXCEPT !.head = "other"]
    BY <1>1, <2>3 DEF Repo
  <2>4. CASE repo.pr = "draft" /\ repo' = [repo EXCEPT !.pr = "ready"]
    BY <1>1, <2>4 DEF Repo
  <2>5. CASE repo' = [repo EXCEPT !.deployments = @ \cup {"other"}]
    BY <1>1, <2>5 DEF Repo
  <2>6. CASE repo' = AddStatus("other")
    BY <1>1, <2>6 DEF Repo, AddStatus
  <2> QED  BY <2>1, <2>2, <2>3, <2>4, <2>5, <2>6 DEF Drift
<1>4. World'
  BY <1>1, <1>2, <1>3 DEF World, Repo
<1>5. Stays
  BY <1>1, <1>2, <1>3 DEF Stays, Earned, Begun, Repo
<1> QED  BY <1>1, <1>2, <1>3, <1>4, <1>5, OthersKeep

LEMMA DriftRigKeeps ==
  ASSUME TaskInv, DriftRig
  PROVE  TaskInv'
<1>1. TypeOK /\ World /\ repo \in Repo /\ rig \in Rig
  BY DEF TaskInv, TypeOK
<1>2. Drifts /\ repo' = repo /\ sent' = sent /\ book' = book
      /\ UNCHANGED <<transaction, recovery, sent, faults>>
  BY DEF DriftRig, transaction
<1>3. rig' \in Rig /\ rig'.switches = "other" /\ rig'.controller = rig.controller
  BY <1>1 DEF DriftRig, Rig, Switches
<1>4. World'
  BY <1>1, <1>2, <1>3 DEF World
<1>5. Stays
  BY <1>2 DEF Stays, Earned, Begun
<1> QED  BY <1>1, <1>2, <1>3, <1>4, <1>5, OthersKeep

-----------------------------------------------------------------------------
LEMMA InitHolds == Init => TaskInv
<1> SUFFICES ASSUME Init
             PROVE  TaskInv
  OBVIOUS
<1>1. /\ \A s \in Stage : /\ s \notin granted /\ s \notin live /\ s \notin overlap
                          /\ book[s] = {} /\ at[s] = "idle" /\ rbook[s] = {} /\ rat[s] = "idle"
      /\ \A w \in Write : sent[w] = 0
  BY DEF Init
<1>2. TypeOK
  <2>1. repo \in Repo /\ rig \in Rig
    BY DEF Init, Repo, Rig, Switches, Output
  <2>2. NoSight \in [files : SUBSET Files, action : Actions,
                     rig : {<<>>} \cup (Switches \X Output)]
    BY DEF NoSight, Actions
  <2>3. saw \in [Stage -> [files : SUBSET Files, action : Actions,
                           rig : {<<>>} \cup (Switches \X Output)]]
    BY <2>2 DEF Init
  <2>4. /\ at \in [Stage -> Places] /\ rat \in [Stage -> RecoveryPlaces]
        /\ book \in [Stage -> SUBSET Files] /\ rbook \in [Stage -> SUBSET RecoveryFiles]
        /\ sent \in [Write -> 0..2] /\ granted = {} /\ live = {} /\ overlap = {}
        /\ faults = 0 /\ drift = 0
    BY DEF Init, Places, RecoveryPlaces
  <2> QED  BY <2>1, <2>3, <2>4, ExactTaskAssumption DEF TypeOK
<1>3. World /\ Undrifted
  BY <1>1 DEF Init, World, Undrifted, Write
<1>4. ASSUME NEW s \in Stage
      PROVE  StageInv(s)
  <2>1. Ledgers(s) /\ Alone(s)
    BY <1>1, WritesAreApart DEF Ledgers, Alone
  <2>2. Marks(s) /\ Recovers(s)
    BY <1>1 DEF Marks, Recovers
  <2>3. \A w \in WritesOf(s) : sent[w] = 0
    BY <1>1, WritesAreApart
  <2>4. Sends(s) /\ Asked(s)
    BY <1>1, <2>3 DEF Sends, Shared, Asked, Write
  <2> QED  BY <2>1, <2>2, <2>4 DEF StageInv
<1> QED  BY <1>2, <1>3, <1>4 DEF TaskInv

LEMMA Stutter == ASSUME TaskInv, UNCHANGED vars PROVE TaskInv'
<1>1. /\ UNCHANGED <<granted, live, book, at, rbook, rat, saw, overlap>>
      /\ UNCHANGED <<repo, rig, sent, faults, drift>>
  BY DEF vars, transaction, recovery, world
<1>2. TypeOK' /\ World' /\ Undrifted'
  BY <1>1 DEF TaskInv, TypeOK, World, Undrifted
<1>3. ASSUME NEW s \in Stage
      PROVE  StageInv(s)'
  <2>1. StageInv(s)
    BY DEF TaskInv
  <2>2. Ledgers(s)' /\ Alone(s)'
    BY <1>1, <2>1 DEF StageInv, Ledgers, Alone, Done, Completed, Recovered
  <2>3. Marks(s)' /\ Recovers(s)'
    BY <1>1, <2>1 DEF StageInv, Marks, Recovers, Closing, Earned, Begun
  <2>4. Sends(s)' /\ Asked(s)'
    BY <1>1, <2>1 DEF StageInv, Sends, Shared, NotByTransaction, NotByRecovery, Asked
  <2> QED  BY <2>2, <2>3, <2>4 DEF StageInv
<1> QED  BY <1>2, <1>3 DEF TaskInv

LEMMA StepHolds == TaskInv /\ [Next]_vars => TaskInv'
<1> SUFFICES ASSUME TaskInv, [Next]_vars
             PROVE  TaskInv'
  OBVIOUS
<1>1. CASE PublicationStep
  BY <1>1, Authorizations, Acquisitions, Looks, Records, PushExactCommitKeeps, CreateDraftPrKeeps
     DEF PublicationStep
<1>2. CASE LifecycleStep
  BY <1>2, Authorizations, Acquisitions, Looks, Records, MarkReadyKeeps, RequestReviewersKeeps
     DEF LifecycleStep
<1>3. CASE MergeStep
  BY <1>3, Authorizations, Acquisitions, Looks, Records, MergeKeeps DEF MergeStep
<1>4. CASE ReleaseStep
  BY <1>4, Authorizations, Acquisitions, Looks, Records, CreateTagKeeps, CreateReleaseKeeps
     DEF ReleaseStep
<1>5. CASE StagingStep
  BY <1>5, Authorizations, Acquisitions, Looks, Records, PostDeploymentKeeps, PostStatusKeeps,
     PostSuccessKeeps DEF StagingStep
<1>6. CASE ActivationStep
  BY <1>6, Authorizations, Acquisitions, Looks, Records, MachineSteps DEF ActivationStep
<1>7. CASE RecoveryStep
  BY <1>7, BeginRecoveryKeeps, RecheckRecoveryKeeps, CommitRecoveryKeeps, RecoveryEnds,
     RecoverPublicationKeeps, RecoverLifecycleKeeps, RecoverReleaseKeeps DEF RecoveryStep
<1>8. CASE \E s \in Stage : Halt(s) \/ HaltRecovery(s)
  BY <1>8, HaltKeeps, RecoveryEnds
<1>9. CASE Drift \/ DriftRig
  BY <1>9, DriftKeeps, DriftRigKeeps
<1>10. CASE UNCHANGED vars
  BY <1>10, Stutter
<1> QED  BY <1>1, <1>2, <1>3, <1>4, <1>5, <1>6, <1>7, <1>8, <1>9, <1>10 DEF Next

LEMMA TaskInvariant == Spec => []TaskInv
  BY InitHolds, StepHolds, PTL DEF Spec

-----------------------------------------------------------------------------
(* What the invariant says of a stage that is done, or that has written.    *)
LEMMA DoneIsEarned ==
  ASSUME TaskInv, NEW s \in Stage, Done(s)
  PROVE  Earned(s) /\ s \in granted
  BY DEF TaskInv, StageInv, Ledgers, Marks, Recovers, Closing, Done, Completed, Recovered

LEMMA GrantedInOrder ==
  ASSUME TaskInv, NEW s \in Stage, s \in granted, NEW p \in Previous(s)
  PROVE  p \in Stage /\ Done(p) /\ p \in granted /\ Earned(p)
<1>1. p \in Stage /\ Done(p)
  BY PreviousIsStage DEF TaskInv, StageInv, Ledgers
<1> QED  BY <1>1, DoneIsEarned

LEMMA WrittenIsGranted ==
  ASSUME TaskInv, NEW s \in Stage, NEW w \in WritesOf(s), sent[w] > 0
  PROVE  s \in granted
  BY DEF TaskInv, StageInv, Ledgers

(* Of a stage that is neither done nor taken over, and of those after it.   *)
LEMMA Untouched ==
  ASSUME TaskInv, NEW s \in Stage, ~Done(s), NEW t \in Stage, s \in Previous(t)
  PROVE  t \notin granted /\ \A w \in WritesOf(t) : sent[w] = 0
<1>1. t \notin granted
  BY DEF TaskInv, StageInv, Ledgers
<1>2. \A w \in WritesOf(t) : sent[w] \in 0..2
  BY WritesAreApart DEF TaskInv, TypeOK
<1> QED  BY <1>1, <1>2, WrittenIsGranted

-----------------------------------------------------------------------------
LEMMA OnceOnly == TaskInv => EachWriteOnce
<1> SUFFICES ASSUME TaskInv, NEW s \in Stage \ overlap, NEW w \in WritesOf(s)
             PROVE  sent[w] <= 1
  BY DEF EachWriteOnce
<1>1. World /\ Sends(s) /\ w \in Write
  BY WritesAreApart DEF TaskInv, StageInv
<1>2. CASE w \notin {"request", "release"}
  BY <1>1, <1>2 DEF World
<1>3. CASE w = "request"
  <2>1. s = "lifecycle"
    BY <1>3 DEF WritesOf, Stage
  <2> QED  BY <1>1, <1>3, <2>1 DEF Sends, Shared
<1>4. CASE w = "release"
  <2>1. s = "release"
    BY <1>4 DEF WritesOf, Stage
  <2> QED  BY <1>1, <1>4, <2>1 DEF Sends, Shared
<1> QED  BY <1>2, <1>3, <1>4

LEMMA ClosedOnce == TaskInv => OneCompletionUnlessOverlapped
  BY DEF TaskInv, StageInv, Alone, OneCompletionUnlessOverlapped, Completed, Recovered

LEMMA Exact == TaskInv => ReceiptsExact
<1> SUFFICES ASSUME TaskInv
             PROVE  ReceiptsExact
  OBVIOUS
<1>1. TypeOK /\ World /\ \A s \in Stage : Done(s) => Earned(s) /\ s \in granted
  BY DoneIsEarned DEF TaskInv
<1>2. /\ "push" \in Write /\ "create" \in Write /\ "deployment" \in Write
      /\ "in_progress" \in Write /\ "success" \in Write
      /\ \A w \in Write : sent[w] \in 0..2
  BY <1>1 DEF Write, TypeOK
<1>3. /\ Done("publish") => sent["push"] = 1 /\ sent["create"] = 1 /\ repo.prBase = "task"
      /\ Done("lifecycle") => repo.reviewers /\ repo.pr \in {"ready", "merged"}
      /\ Done("merge") => repo.pr = "merged" /\ repo.mergedOn = "task"
      /\ Done("release") => repo.tag /\ repo.releases >= 1
  BY <1>1, <1>2 DEF Earned, World, Stage
<1>4. /\ Done("deploy") => sent["deployment"] = 1
      /\ Done("status") => sent["in_progress"] = 1
      /\ Done("success") => sent["success"] = 1
      /\ Done("activate") => sent["activate"] = 1
  BY <1>1, <1>2 DEF Earned, World, Stage
<1>5. Done("deploy") => repo.mergedOn = "task"
  <2>1. "release" \in Previous("deploy") /\ "merge" \in Previous("release")
        /\ "deploy" \in Stage /\ "release" \in Stage
    BY DEF Previous, Stage
  <2>2. Done("deploy") => Earned("merge")
    BY <1>1, <2>1, GrantedInOrder
  <2> QED  BY <2>2 DEF Earned
<1>6. FoundInactive /\ "activate" \notin overlap => rig.switches # "active"
  BY DEF TaskInv, StageInv, Recovers, FoundInactive, Stage
<1> QED  BY <1>3, <1>4, <1>5, <1>6 DEF ReceiptsExact

LEMMA Ordered == TaskInv => WritesInOrder
<1> SUFFICES ASSUME TaskInv
             PROVE  WritesInOrder
  OBVIOUS
<1>1. \A s \in Stage : \A w \in WritesOf(s) : sent[w] > 0 => \A p \in Previous(s) : Done(p)
  BY WrittenIsGranted, GrantedInOrder
<1>2. sent["merge"] > 0 => repo.reviewers
  <2>1. "merge" \in WritesOf("merge") /\ "lifecycle" \in Previous("merge") /\ "merge" \in Stage
    BY DEF WritesOf, Previous, Stage
  <2> QED  BY <2>1, WrittenIsGranted, GrantedInOrder DEF Earned
<1>3. sent["tag"] > 0 => repo.mergedOn = "task"
  <2>1. "tag" \in WritesOf("release") /\ "merge" \in Previous("release") /\ "release" \in Stage
    BY DEF WritesOf, Previous, Stage
  <2> QED  BY <2>1, WrittenIsGranted, GrantedInOrder DEF Earned
<1> QED  BY <1>1, <1>2, <1>3 DEF WritesInOrder

(* A stage that stopped before it was closed, and that no recovery took up, *)
(* left GitHub as far as it came: the stages after it have not begun.       *)
LEMMA NoneStranded == TaskInv => NeverStranded
<1> SUFFICES ASSUME TaskInv, NEW s \in Stage,
                    drift = 0, Locked(s), ~Completed(s), at[s] = "idle", rbook[s] = {}
             PROVE  Action(s) # "error"
  BY DEF NeverStranded
<1>1. /\ TypeOK /\ World /\ Undrifted /\ StageInv(s) /\ ~Done(s) /\ s \in granted
      /\ "lock" \in book[s] /\ "final" \notin book[s] /\ book[s] \subseteq Files
  BY Shapes DEF TaskInv, Done, Locked, Completed, Recovered, StageInv, Ledgers
<1>2. /\ repo \in Repo /\ \A w \in Write : sent[w] \in 0..2
      /\ \A t \in Stage : s \in Previous(t) => \A w \in WritesOf(t) : sent[w] = 0
      /\ \A p \in Previous(s) : Done(p) /\ Earned(p)
  BY <1>1, Untouched, GrantedInOrder DEF TypeOK
<1>3. /\ "first" \in book[s] => Begun(s)
      /\ "second" \in book[s] => "first" \in book[s] /\ Earned(s)
      /\ ("first" \notin book[s] => book[s] = {"lock"})
  BY <1>1 DEF StageInv, Marks, Files
<1>4. CASE s = "publish"
  <2>1. sent["ready"] = 0
    BY <1>2, <1>4 DEF Previous, WritesOf, Stage
  <2>2. repo.pr \in {"none", "draft"} /\ repo.main = "task" /\ repo.head \in {"absent", "exact"}
    BY <1>1, <1>2, <2>1 DEF Undrifted, Repo
  <2>3. /\ repo.head = "absent" => book[s] = {"lock"} /\ repo.pr = "none"
        /\ "second" \in book[s] => repo.pr # "none"
        /\ repo.pr = "none" \/ DraftExact
    BY <1>1, <1>2, <1>3, <1>4, <2>2 DEF World, Undrifted, Begun, Earned, DraftExact, Repo
  <2> QED  BY <1>1, <1>3, <1>4, <2>2, <2>3 DEF Action, PublicationAction
<1>5. CASE s = "lifecycle"
  <2>1. sent["merge"] = 0 /\ repo.prBase = "task"
    BY <1>2, <1>5 DEF Previous, WritesOf, Stage, Earned
  <2>2. repo.pr \in {"draft", "ready"} /\ PrExact
    BY <1>1, <1>2, <2>1 DEF World, Undrifted, Repo, PrExact
  <2>3. /\ repo.pr = "draft" => book[s] = {"lock"} /\ ~repo.reviewers
        /\ repo.pr = "ready" /\ ~repo.reviewers => "second" \notin book[s]
        /\ repo.pr = "ready" /\ repo.reviewers => "first" \in book[s]
    BY <1>1, <1>3, <1>5 DEF World, Begun, Earned, StageInv, Asked
  <2> QED  BY <1>1, <1>3, <1>5, <2>2, <2>3 DEF Action, LifecycleAction
<1>6. CASE s = "merge"
  <2>1. repo.pr \in {"ready", "merged"}
    BY <1>2, <1>6 DEF Previous, Earned
  <2>2. repo.pr = "ready" => repo.main = "task" /\ repo.head = "exact" /\ book[s] = {"lock"}
    BY <1>1, <1>2, <1>3, <1>6 DEF World, Undrifted, Begun, Repo
  <2>3. repo.pr = "merged" => PostMerge
    BY <1>1, <1>2 DEF World, Undrifted, Repo, PostMerge
  <2> QED  BY <1>1, <1>6, <2>1, <2>2, <2>3 DEF Action, MergeAction, PostMerge
<1>7. CASE s = "release"
  <2>1. repo.releases \in 0..1
    <3>1. NotByRecovery(s) /\ Shared(s, "release")
      BY <1>1, <1>7 DEF StageInv, Sends, NotByRecovery
    <3> QED  BY <1>1, <1>2, <3>1 DEF Shared, World, Write, Repo
  <2>2. ReleaseClear \/ TagAlone \/ ExactExisting
    BY <1>1, <1>2, <2>1 DEF World, Repo, ReleaseClear, TagAlone, ExactExisting
  <2>3. "first" \in book[s] => ~ReleaseClear
    BY <1>3, <1>7 DEF Begun, ReleaseClear
  <2>4. "second" \in book[s] => ExactExisting
    BY <1>3, <1>7, <2>1 DEF Earned, ExactExisting
  <2> QED  BY <1>1, <1>3, <1>7, <2>2, <2>3, <2>4 DEF Action, ReleaseAction
<1>8. CASE s = "deploy"
  <2>1. repo.tag /\ repo.deployments \in {{}, {"ours"}}
    BY <1>1, <1>2, <1>8 DEF Previous, Earned, Undrifted, Repo
  <2>2. DeploymentClear \/ DeploymentExact
    BY <2>1 DEF DeploymentClear, DeploymentExact
  <2> QED  BY <1>1, <1>8, <2>2 DEF Action, DeploymentAction, PostAction, Locked, Completed
<1>9. CASE s = "status"
  <2>1. sent["success"] = 0 /\ "ours" \in repo.deployments
    BY <1>2, <1>9 DEF Previous, WritesOf, Stage, Earned
  <2>2. repo.statuses \in {{}, {"in_progress"}}
    BY <1>1, <1>2, <2>1 DEF World, Undrifted, Repo
  <2>3. StatusClear \/ StatusExact
    BY <2>1, <2>2 DEF StatusClear, StatusExact
  <2> QED  BY <1>1, <1>9, <2>3 DEF Action, StatusAction, PostAction, Locked, Completed
<1>10. CASE s = "success"
  <2>1. "status" \in granted /\ "in_progress" \in repo.statuses
    <3>1. "status" \in Previous(s)
      BY <1>10 DEF Previous
    <3> QED  BY <1>1, <3>1, GrantedInOrder DEF Earned
  <2>2. "ours" \in repo.deployments
    <3>1. "deploy" \in Previous("status") /\ "status" \in Stage
      BY DEF Previous, Stage
    <3> QED  BY <2>1, <3>1, GrantedInOrder DEF Earned
  <2>3. repo.statuses \in {{"in_progress"}, {"in_progress", "success"}}
    BY <1>1, <1>2, <2>1 DEF Undrifted, Repo
  <2>4. SuccessClear \/ SuccessExact
    BY <2>2, <2>3 DEF SuccessClear, StatusExact, SuccessExact
  <2> QED  BY <1>1, <1>10, <2>4 DEF Action, SuccessAction, PostAction, Locked, Completed
<1>11. CASE s = "activate"
  BY <1>1, <1>11 DEF Action, ActivationAction, Locked, Completed
<1> QED  BY <1>4, <1>5, <1>6, <1>7, <1>8, <1>9, <1>10, <1>11 DEF Stage

-----------------------------------------------------------------------------
(* GitHub, the machine, the ledgers and both programs' places keep their    *)
(* shapes; no write ever takes effect more than twice.                      *)
THEOREM TaskTypes == Spec => []TypeOK
<1>1. TaskInv => TypeOK
  BY DEF TaskInv
<1> QED  BY <1>1, TaskInvariant, PTL

(* No write of a stage takes effect twice, over lost answers, failed files  *)
(* and dead processes, unless its recovery overlapped the transaction.      *)
THEOREM WritesOnce == Spec => []EachWriteOnce
  BY OnceOnly, TaskInvariant, PTL

(* A stage is closed by its transaction or by its recovery and not by both, *)
(* unless the recovery overlapped the transaction.                          *)
THEOREM ClosesOnce == Spec => []OneCompletionUnlessOverlapped
  BY ClosedOnce, TaskInvariant, PTL

(* A stage's receipt is only kept for what happened on GitHub and on the    *)
(* machine, overlaps and other people's changes included.                   *)
THEOREM ReceiptsAreExact == Spec => []ReceiptsExact
  BY Exact, TaskInvariant, PTL

(* As long as nobody else changes the repository, a transaction that        *)
(* stopped anywhere leaves a state its recovery does not refuse.            *)
THEOREM StrandsNothing == Spec => []NeverStranded
  BY NoneStranded, TaskInvariant, PTL

(* No stage writes before the one before it was closed.                     *)
THEOREM StagesInOrder == Spec => []WritesInOrder
  BY Ordered, TaskInvariant, PTL

=============================================================================
