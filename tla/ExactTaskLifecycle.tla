------------------------- MODULE ExactTaskLifecycle -------------------------
(***************************************************************************)
(* Stage "lifecycle": the draft is marked ready and the exact reviewers are *)
(* requested (improvement_pilot_exact_task_pr_lifecycle_transaction.py),    *)
(* and what its recovery makes of an unfinished one                         *)
(* (..._pr_lifecycle_recovery.py).                                          *)
(***************************************************************************)
EXTENDS ExactTaskState

(* Every observation of the stage demands the open request of these two     *)
(* commits; it does not look where the base branch is now.                  *)
PrExact == repo.pr \in {"draft", "ready"} /\ repo.prBase = "task" /\ repo.head = "exact"
PreState == PrExact /\ repo.pr = "draft" /\ ~repo.reviewers
ReadyState == PrExact /\ repo.pr = "ready" /\ ~repo.reviewers
FinalState == PrExact /\ repo.pr = "ready" /\ repo.reviewers

\* Mutant: the ledgers of the publication are not read.
PublicationSeen == PreState /\ repo.main = "task"

\* improvement_pilot_exact_task_post_publication_attestation.py
PublicationAttested == CompletedOnce("publish") /\ PreState /\ repo.main = "task"

AuthorizeLifecycle == Grant("lifecycle", PublicationAttested)
AcquireLifecycle == Acquire("lifecycle", PreState)
RecheckPreState == Check("lifecycle", "recheck", PreState, "ready")

MarkReady ==
  Send("lifecycle", "ready", "ready", repo.pr = "draft",
       [repo EXCEPT !.pr = "ready"], "readied")

MarkReadyRecord == Record("lifecycle", "readied", ReadyState, "first", "request")

MayRequest == repo.pr \in {"draft", "ready"}

\* Mutant: the reviewers are requested before the ready marker is durable.
RequestBeforeMarker ==
  Send("lifecycle", "readied", "request", MayRequest,
       [repo EXCEPT !.reviewers = TRUE], "requested")

RequestReviewers ==
  Send("lifecycle", "request", "request", MayRequest,
       [repo EXCEPT !.reviewers = TRUE], "requested")

MarkReviewers == Record("lifecycle", "requested", FinalState, "second", "commit")

CommitLifecycle ==
  Record("lifecycle", "commit", {"lock", "first", "second"} \subseteq book["lifecycle"],
         "final", "idle")

LifecycleStep ==
  \/ AuthorizeLifecycle \/ AcquireLifecycle \/ RecheckPreState
  \/ MarkReady \/ MarkReadyRecord \/ RequestReviewers \/ MarkReviewers
  \/ CommitLifecycle

-----------------------------------------------------------------------------
(* A request that is ready with its reviewers but has no marker at all may  *)
(* be somebody else's work: recovery refuses to take it for its own.        *)
LifecycleAction ==
  LET files == book["lifecycle"]
      consistent ==
        /\ "final" \notin files /\ "lock" \in files
        /\ "second" \in files => "first" \in files
        /\ PrExact
        /\ repo.pr = "draft" => files = {"lock"} /\ ~repo.reviewers
        /\ repo.pr = "ready" /\ ~repo.reviewers => "second" \notin files
        /\ repo.pr = "ready" /\ repo.reviewers => files # {"lock"}
  IN CASE ~consistent -> "error"
       [] consistent /\ repo.pr = "draft" -> "manual"
       [] consistent /\ repo.pr = "ready" /\ ~repo.reviewers -> "write"
       [] consistent /\ repo.pr = "ready" /\ repo.reviewers -> "finalize"

=============================================================================
