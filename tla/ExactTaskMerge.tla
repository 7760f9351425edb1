--------------------------- MODULE ExactTaskMerge ---------------------------
(***************************************************************************)
(* Stage "merge": the reviewed request is squash-merged                     *)
(* (improvement_pilot_exact_task_merge_transaction.py), and what its        *)
(* recovery makes of an unfinished one (..._merge_recovery.py).  The        *)
(* reviewers' approvals are not modelled; readiness here is that they were  *)
(* asked.                                                                   *)
(***************************************************************************)
EXTENDS ExactTaskState

\* Fresh readiness and the observation before the merge.
PreMerge ==
  /\ repo.main = "task" /\ repo.head = "exact"
  /\ repo.pr = "ready" /\ repo.prBase = "task" /\ repo.reviewers

\* Mutant: the squash commit's parent is not compared with the authorized base.
PostMergeNoParent == repo.pr = "merged" /\ repo.main = "merged"

PostMerge == repo.pr = "merged" /\ repo.main = "merged" /\ repo.mergedOn = "task"

\* improvement_pilot_exact_task_post_lifecycle_attestation.py
LifecycleAttested ==
  /\ CompletedOnce("lifecycle")
  /\ repo.head = "exact"
  /\ repo.pr = "ready" /\ repo.prBase = "task" /\ repo.reviewers

AuthorizeMerge == Grant("merge", LifecycleAttested)
AcquireMerge == Acquire("merge", PreMerge)
RecheckPreMerge == Check("merge", "recheck", PreMerge, "merge")

(* GitHub squashes onto whatever the base branch is by then.  The request   *)
(* pins the head commit and nothing else.                                   *)
MergedRepo == [repo EXCEPT !.pr = "merged", !.main = "merged",
                           !.mergedOn = IF repo.main = "task" THEN "task" ELSE "moved"]
MayMerge == repo.pr = "ready" /\ repo.head = "exact"

Merge == Send("merge", "merge", "merge", MayMerge, MergedRepo, "merged")

MarkMerged == Record("merge", "merged", TRUE, "first", "after")

CommitMerge ==
  Record("merge", "after", PostMerge /\ {"lock", "first"} \subseteq book["merge"],
         "final", "idle")

MergeStep ==
  \/ AuthorizeMerge \/ AcquireMerge \/ RecheckPreMerge
  \/ Merge \/ MarkMerged \/ CommitMerge

-----------------------------------------------------------------------------
\* Recovery never merges: it closes the ledger of a merge that took place.
MergeAction ==
  LET files == book["merge"]
      open ==
        /\ repo.pr \in {"draft", "ready"} /\ repo.head = "exact"
        /\ repo.main = "task" /\ files = {"lock"}
      closed == PostMerge
      consistent == "final" \notin files /\ "lock" \in files
  IN CASE consistent /\ open -> "manual"
       [] consistent /\ closed -> "finalize"
       [] ~(consistent /\ (open \/ closed)) -> "error"

=============================================================================
