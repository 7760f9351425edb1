-------------------------- MODULE ExactTaskStaging --------------------------
(***************************************************************************)
(* Stages "deploy", "status" and "success": the release is recorded on      *)
(* GitHub as a staging deployment, which gets its first status              *)
(* ("in_progress") and, once the staging runtime was probed, its last       *)
(* ("success").  The three are one protocol: see that the lane is clear,    *)
(* lock, see it again, one POST, see exactly that POST, keep the receipt.   *)
(* There are no markers, and their recoveries never write.  The probes of   *)
(* the staging runtime are not modelled.                                    *)
(***************************************************************************)
EXTENDS ExactTaskState

(* A deployment lane holds the deployments of the task's tag, a status lane *)
(* every status of our deployment.  GitHub refuses no duplicate in either.  *)
DeploymentClear == repo.tag /\ repo.deployments = {}
DeploymentExact == repo.tag /\ repo.deployments = {"ours"}

\* A status lane looks its deployment up by its number and not in its lane.
StatusClear == "ours" \in repo.deployments /\ repo.statuses = {}
StatusExact == "ours" \in repo.deployments /\ repo.statuses = {"in_progress"}

SuccessClear == StatusExact
SuccessExact ==
  "ours" \in repo.deployments /\ repo.statuses = {"in_progress", "success"}

\* improvement_pilot_exact_task_post_release_attestation.py
ReleaseAttested == CompletedOnce("release") /\ repo.tag /\ repo.releases = 1

\* improvement_pilot_exact_task_post_staging_deployment_attestation.py
DeploymentAttested == CompletedOnce("deploy") /\ DeploymentExact

\* improvement_pilot_exact_task_post_staging_deployment_status_attestation.py
StatusAttested == CompletedOnce("status") /\ StatusExact

-----------------------------------------------------------------------------
AuthorizeDeployment == Grant("deploy", ReleaseAttested /\ DeploymentClear)
AuthorizeStatus == Grant("status", DeploymentAttested /\ StatusClear)
AuthorizeSuccess == Grant("success", StatusAttested /\ SuccessClear)

AcquireDeployment == Acquire("deploy", DeploymentClear)
AcquireStatus == Acquire("status", StatusClear)
AcquireSuccess == Acquire("success", SuccessClear)

RecheckDeployment == Check("deploy", "recheck", DeploymentClear, "post")
RecheckStatus == Check("status", "recheck", StatusClear, "post")
RecheckSuccess == Check("success", "recheck", SuccessClear, "post")

Post(s, w, new) == Send(s, "post", w, TRUE, new, "posted")
AddStatus(status) == [repo EXCEPT !.statuses = @ \cup {status}]

PostDeployment == Post("deploy", "deployment", [repo EXCEPT !.deployments = @ \cup {"ours"}])
PostStatus == Post("status", "in_progress", AddStatus("in_progress"))
PostSuccess == Post("success", "success", AddStatus("success"))

Commit(s, exact) == Record(s, "posted", exact /\ Locked(s), "final", "idle")

CommitDeployment == Commit("deploy", DeploymentExact)
CommitStatus == Commit("status", StatusExact)
CommitSuccess == Commit("success", SuccessExact)

StagingStep ==
  \/ AuthorizeDeployment \/ AcquireDeployment \/ RecheckDeployment
  \/ PostDeployment \/ CommitDeployment
  \/ AuthorizeStatus \/ AcquireStatus \/ RecheckStatus \/ PostStatus \/ CommitStatus
  \/ AuthorizeSuccess \/ AcquireSuccess \/ RecheckSuccess \/ PostSuccess \/ CommitSuccess

-----------------------------------------------------------------------------
\* What the recovery of a stage with one POST makes of its ledger and lane.
PostAction(s, clear, exact) ==
  CASE Locked(s) /\ ~Completed(s) /\ exact -> "finalize"
    [] Locked(s) /\ ~Completed(s) /\ clear -> "manual"
    [] ~(Locked(s) /\ ~Completed(s) /\ (exact \/ clear)) -> "error"

DeploymentAction == PostAction("deploy", DeploymentClear, DeploymentExact)
StatusAction == PostAction("status", StatusClear, StatusExact)
SuccessAction == PostAction("success", SuccessClear, SuccessExact)

=============================================================================
