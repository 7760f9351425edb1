--------------------------- MODULE ExactTaskState ---------------------------
(***************************************************************************)
(* The state the eight stages of an exact development task share            *)
(* (src/devcontrol): one commit is published as a draft pull request,       *)
(* handed to its reviewers, squash-merged, released, deployed to staging,   *)
(* its deployment given a first and a last status, and the production       *)
(* machine switched on.  A stage is one transaction, which a durable        *)
(* one-shot authorization allows and a ledger of create-once files records, *)
(* and at most one recovery, which a ledger of its own records.             *)
(*                                                                          *)
(* One step is one request to GitHub, or one observation together with the  *)
(* file written on its strength.  A request is answered or lost, before or  *)
(* after it took effect; it never takes effect later than that.             *)
(***************************************************************************)
EXTENDS Integers, FiniteSets

CONSTANTS
  Faults,       \* which faults a run explores: "lost", "disk", "halt"
  MaxFaults,    \* bound: faults together
  MaxDrift,     \* bound: what other people do to the repository
  MaxOverlap,   \* bound: recoveries begun while the transaction still runs
  MaxTrouble    \* bound: all three together

ASSUME ExactTaskAssumption ==
  MaxFaults \in Nat /\ MaxDrift \in Nat /\ MaxTrouble \in Nat /\ MaxOverlap \in Nat

VARIABLES
  repo,         \* what GitHub holds of this task
  rig,          \* what the production machine holds of it
  granted,      \* stages whose one-shot authorization was consumed
  live,         \* stages whose authority some process holds, still unspent
  book,         \* files of each stage's transaction ledger
  at,           \* where each stage's transaction is
  rbook,        \* files of each stage's recovery ledger
  rat,          \* where each stage's recovery is
  saw,          \* the fingerprint the two signatures bind
  sent,         \* history: how often each write took effect
  overlap,      \* history: recovered while the transaction still ran
  faults, drift \* history: faults and foreign changes so far

transaction == <<granted, live, book, at>>
recovery == <<rbook, rat, saw, overlap>>
world == <<repo, rig, sent>>
vars == <<transaction, recovery, world, faults, drift>>

-----------------------------------------------------------------------------
Stage == {"publish", "lifecycle", "merge", "release", "deploy", "status", "success",
          "activate"}
Write == {"push", "create", "ready", "request", "merge", "tag", "release",
          "deployment", "in_progress", "success", "activate"}

WritesOf(s) == CASE s = "publish" -> {"push", "create"}
                 [] s = "lifecycle" -> {"ready", "request"}
                 [] s = "merge" -> {"merge"}
                 [] s = "release" -> {"tag", "release"}
                 [] s = "deploy" -> {"deployment"}
                 [] s = "status" -> {"in_progress"}
                 [] s = "success" -> {"success"}
                 [] s = "activate" -> {"activate"}

(* The base branch is at the task's base commit, has moved on from it, is   *)
(* at the squash commit, or past it.  GitHub keeps a pull request's base    *)
(* commit as of its creation, and mergedOn is the squash commit's parent.   *)
Repo == [main : {"task", "moved", "merged", "past"},
         head : {"absent", "exact", "other"},
         pr : {"none", "draft", "ready", "merged"},
         prBase : {"none", "task", "moved"},
         reviewers : BOOLEAN,
         mergedOn : {"none", "task", "moved"},
         tag : BOOLEAN,
         releases : 0..2,
         deployments : SUBSET {"ours", "other"},
         statuses : SUBSET {"in_progress", "success", "other"}]

(* The switches in modelrig.env are as the transaction's lock describes     *)
(* them, all on, or otherwise; the output directory holds the receipts the  *)
(* promotion controller has written so far.                                 *)
Switches == {"before", "other", "active"}
Output == {"absent", "preflight", "both"}
Rig == [switches : Switches, output : Output, controller : BOOLEAN]

(* A stage's first and second markers follow its first and second write.    *)
Files == {"lock", "first", "second", "final"}
RecoveryFiles == {"lock", "final"}

Places == {"idle", "recheck", "commit"}
            \cup {"push", "pushed", "create", "created"}
            \cup {"ready", "readied", "request", "requested"}
            \cup {"merge", "merged", "after"}
            \cup {"tag", "tagged", "alone", "release", "released", "exact"}
            \cup {"post", "posted"}
            \cup {"run", "running", "ran"}
RecoveryPlaces == {"idle", "recheck", "write", "verify", "commit"}

Actions == {"error", "manual", "inactive", "write", "finalize"}
NoSight == [files |-> {}, action |-> "error", rig |-> <<>>]

TypeOK ==
  /\ repo \in Repo /\ rig \in Rig
  /\ granted \in SUBSET Stage /\ live \in SUBSET Stage
  /\ book \in [Stage -> SUBSET Files] /\ at \in [Stage -> Places]
  /\ rbook \in [Stage -> SUBSET RecoveryFiles]
  /\ rat \in [Stage -> RecoveryPlaces]
  /\ saw \in [Stage -> [files : SUBSET Files, action : Actions,
                        rig : {<<>>} \cup (Switches \X Output)]]
  /\ sent \in [Write -> 0..2]
  /\ overlap \in SUBSET Stage
  /\ faults \in 0..MaxFaults /\ drift \in 0..MaxDrift

Init ==
  /\ repo = [main |-> "task", head |-> "absent", pr |-> "none", prBase |-> "none",
             reviewers |-> FALSE, mergedOn |-> "none", tag |-> FALSE, releases |-> 0,
             deployments |-> {}, statuses |-> {}]
  /\ rig = [switches |-> "before", output |-> "absent", controller |-> FALSE]
  /\ granted = {} /\ live = {}
  /\ book = [s \in Stage |-> {}] /\ at = [s \in Stage |-> "idle"]
  /\ rbook = [s \in Stage |-> {}] /\ rat = [s \in Stage |-> "idle"]
  /\ saw = [s \in Stage |-> NoSight]
  /\ sent = [w \in Write |-> 0]
  /\ overlap = {}
  /\ faults = 0 /\ drift = 0

Trouble == faults + drift + Cardinality(overlap)

Fault(kind) ==
  /\ kind \in Faults
  /\ faults < MaxFaults /\ Trouble < MaxTrouble
  /\ faults' = faults + 1

-----------------------------------------------------------------------------
(***************************************************************************)
(* Create-once files (durable_publication.py).  The file exists whole or    *)
(* not at all, a second writer is refused, and a failure after the link     *)
(* raises although the file is there.  The writer does not tell the two     *)
(* failures apart.                                                          *)
(***************************************************************************)
Enter(ledger, s, written) == [ledger EXCEPT ![s] = @ \cup {written}]

Advance(s, place) == at' = [at EXCEPT ![s] = place]
Stop(s) == Advance(s, "idle")

\* The transaction observes, and writes its next file if the state is right.
Record(s, from, right, written, to) ==
  /\ at[s] = from
  /\ \/ /\ right /\ written \notin book[s]
        /\ book' = Enter(book, s, written)
        /\ Advance(s, to)
        /\ UNCHANGED faults
     \/ /\ right /\ written \notin book[s]
        /\ Fault("disk")
        /\ book' \in {book, Enter(book, s, written)}
        /\ Stop(s)
     \/ /\ ~right \/ written \in book[s]
        /\ Stop(s)
        /\ UNCHANGED <<book, faults>>
  /\ UNCHANGED <<granted, live, recovery, world, drift>>

\* The transaction observes, and goes on if the state is right.
Check(s, from, right, to) ==
  /\ at[s] = from
  /\ Advance(s, IF right THEN to ELSE "idle")
  /\ UNCHANGED <<granted, live, book, recovery, world, faults, drift>>

\* One request that GitHub accepts when "accepted" and that makes it "new".
Took(w, new) == repo' = new /\ sent' = [sent EXCEPT ![w] = @ + 1] /\ UNCHANGED rig

\* Mutant: a request whose answer is lost is sent again.
RequestAgain(w, accepted, new, Answered, Failed) ==
  \/ accepted /\ Took(w, new) /\ Answered /\ UNCHANGED faults
  \/ accepted /\ Took(w, new) /\ UNCHANGED <<at, rat>> /\ Fault("lost")
  \/ UNCHANGED world /\ UNCHANGED <<at, rat>> /\ Fault("lost")
  \/ ~accepted /\ UNCHANGED world /\ Failed /\ UNCHANGED faults

Request(w, accepted, new, Answered, Failed) ==
  \/ accepted /\ Took(w, new) /\ Answered /\ UNCHANGED faults
  \/ accepted /\ Took(w, new) /\ Failed /\ Fault("lost")
  \/ UNCHANGED world /\ Failed /\ Fault("lost")
  \/ ~accepted /\ UNCHANGED world /\ Failed /\ UNCHANGED faults

Send(s, from, w, accepted, new, to) ==
  /\ at[s] = from
  /\ Request(w, accepted, new, Advance(s, to), Stop(s))
  /\ UNCHANGED <<granted, live, book, recovery, drift>>

-----------------------------------------------------------------------------
(* Where a stage stands.                                                    *)
Locked(s) == "lock" \in book[s]
Completed(s) == "final" \in book[s]
Recovered(s) == "final" \in rbook[s] /\ saw[s].action \in {"write", "finalize"}
Done(s) == Completed(s) \/ Recovered(s)

\* What the next stage's attestation asks of this one's two ledgers.
CompletedOnce(s) == Completed(s) # Recovered(s)

Previous(s) == CASE s = "publish" -> {}
                 [] s = "lifecycle" -> {"publish"}
                 [] s = "merge" -> {"lifecycle"}
                 [] s = "release" -> {"merge"}
                 [] s = "deploy" -> {"release"}
                 [] s = "status" -> {"deploy"}
                 [] s = "success" -> {"status"}
                 [] s = "activate" -> {"success"}

(* The authorization is the same one-shot file for every stage: what was    *)
(* attested, signatures, and a nonce no one used before.                    *)
Grant(s, attested) ==
  /\ s \notin granted
  /\ attested
  /\ \/ granted' = granted \cup {s} /\ live' = live \cup {s} /\ UNCHANGED faults
     \/ granted' = granted \cup {s} /\ UNCHANGED live /\ Fault("disk")
  /\ UNCHANGED <<book, at, recovery, world, drift>>

\* The transaction spends the authority: its lock is the first file.  A lock
\* that could not be written and is not there changes nothing.
Acquire(s, right) ==
  /\ s \in live /\ at[s] = "idle"
  /\ right
  /\ book[s] = {}
  /\ \/ book' = Enter(book, s, "lock") /\ Advance(s, "recheck") /\ live' = live \ {s} /\ UNCHANGED faults
     \/ book' = Enter(book, s, "lock") /\ Fault("disk") /\ live' = live \ {s} /\ UNCHANGED at
  /\ UNCHANGED <<granted, recovery, world, drift>>

=============================================================================
