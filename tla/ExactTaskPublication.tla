------------------------ MODULE ExactTaskPublication ------------------------
(***************************************************************************)
(* Stage "publish": the exact commit is pushed to a branch of its own and a *)
(* draft pull request opened for it                                         *)
(* (improvement_pilot_exact_task_remote_publication_transaction.py), and    *)
(* what its recovery makes of an unfinished one                             *)
(* (..._remote_publication_recovery.py).                                    *)
(***************************************************************************)
EXTENDS ExactTaskState

(* The lane is clear: base at the task's commit, no branch, no request.     *)
LaneClear == repo.main = "task" /\ repo.head = "absent" /\ repo.pr = "none"

\* The draft pull request as verified: open, a draft, for these two commits.
DraftExact == repo.pr = "draft" /\ repo.prBase = "task" /\ repo.head = "exact"

AuthorizePublication == Grant("publish", LaneClear)
AcquirePublication == Acquire("publish", LaneClear)
RecheckLane == Check("publish", "recheck", LaneClear, "push")

\* Force-with-lease against an absent branch: refused when there is one.
PushExactCommit ==
  Send("publish", "push", "push", repo.head = "absent",
       [repo EXCEPT !.head = "exact"], "pushed")

MarkPushed ==
  Record("publish", "pushed",
         repo.main = "task" /\ repo.head = "exact" /\ repo.pr = "none",
         "first", "create")

\* What GitHub answers for a new request: one per branch, and it records the
\* base branch's present commit.
OpenDraft == [repo EXCEPT !.pr = "draft",
                          !.prBase = IF repo.main = "task" THEN "task" ELSE "moved"]
MayOpenDraft == repo.pr = "none" /\ repo.head # "absent"

\* The answer itself must name the two exact commits; a request opened on a
\* base that moved meanwhile is there all the same.
CreateDraftPr ==
  Send("publish", "create", "create", MayOpenDraft, OpenDraft,
       IF OpenDraft.prBase = "task" /\ repo.head = "exact" THEN "created" ELSE "idle")

MarkPr ==
  Record("publish", "created", DraftExact /\ repo.main = "task", "second", "commit")

CommitPublication ==
  Record("publish", "commit", {"lock", "first", "second"} \subseteq book["publish"],
         "final", "idle")

PublicationStep ==
  \/ AuthorizePublication \/ AcquirePublication \/ RecheckLane
  \/ PushExactCommit \/ MarkPushed \/ CreateDraftPr \/ MarkPr
  \/ CommitPublication

-----------------------------------------------------------------------------
\* Mutant: the receipt the transaction already committed is not looked for.
PublicationIgnoresFinal ==
  CASE repo.main = "task" /\ "lock" \in book["publish"] /\ DraftExact -> "finalize"
    [] OTHER -> "error"

\* What recovery makes of the ledger and of GitHub ("error": it refuses).
PublicationAction ==
  LET files == book["publish"]
      consistent ==
        /\ "final" \notin files /\ "lock" \in files
        /\ "second" \in files => "first" \in files
        /\ repo.main = "task"
        /\ repo.head # "other"
        /\ repo.head = "absent" => files = {"lock"} /\ repo.pr = "none"
        /\ "second" \in files => repo.pr # "none"
        /\ repo.pr = "none" \/ DraftExact
  IN CASE ~consistent -> "error"
       [] consistent /\ repo.head = "absent" -> "manual"
       [] consistent /\ repo.head = "exact" /\ repo.pr = "none" -> "write"
       [] consistent /\ repo.head = "exact" /\ repo.pr # "none" -> "finalize"

=============================================================================
