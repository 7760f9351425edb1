------------------------------ MODULE ExactTask ------------------------------
(***************************************************************************)
(* One exact development task from its commit to production: the eight      *)
(* stages, the recovery of each, processes that die, requests that are      *)
(* lost, files that fail, and the people who also work in the repository.   *)
(***************************************************************************)
EXTENDS ExactTaskPublication, ExactTaskLifecycle, ExactTaskMerge, ExactTaskRelease,
        ExactTaskActivation

\* What the recovery of a stage would do now.
Action(s) == CASE s = "publish" -> PublicationAction
               [] s = "lifecycle" -> LifecycleAction
               [] s = "merge" -> MergeAction
               [] s = "release" -> ReleaseAction
               [] s = "deploy" -> DeploymentAction
               [] s = "status" -> StatusAction
               [] s = "success" -> SuccessAction
               [] s = "activate" -> ActivationAction

Sight(s) == [files |-> book[s], action |-> Action(s),
             rig |-> IF s = "activate" THEN <<rig.switches, rig.output>> ELSE <<>>]

-----------------------------------------------------------------------------
(***************************************************************************)
(* Recovery (..._recovery.py): observe what two people signed, take the     *)
(* recovery lock, observe the same again, make the one missing write, and   *)
(* keep a receipt in the recovery ledger.  Whether the transaction is still *)
(* running is not asked.                                                    *)
(***************************************************************************)
RecoveryAt(s, place) == rat' = [rat EXCEPT ![s] = place]

StillRuns(s) == at[s] # "idle" \/ (s = "activate" /\ rig.controller)

BeginRecovery(s) ==
  /\ rat[s] = "idle" /\ rbook[s] = {}
  /\ \/ Action(s) \in {"write", "finalize"}
     \/ s = "activate" /\ Action(s) # "error"
  /\ rbook' = Enter(rbook, s, "lock")
  /\ saw' = [saw EXCEPT ![s] = Sight(s)]
  /\ overlap' = IF StillRuns(s) THEN overlap \cup {s} ELSE overlap
  /\ Cardinality(overlap') <= MaxOverlap
  /\ overlap' # overlap => Trouble < MaxTrouble
  /\ \/ RecoveryAt(s, "recheck") /\ UNCHANGED faults
     \/ RecoveryAt(s, "idle") /\ Fault("disk")
  /\ UNCHANGED <<transaction, world, drift>>

\* From the release on, a recovery looks again before it closes a complete stage.
LooksAgain == {"release", "deploy", "status", "success"}
AfterRecheck(s) ==
  CASE saw[s].action = "write" -> "write"
    [] saw[s].action # "write" /\ s \in LooksAgain -> "verify"
    [] saw[s].action # "write" /\ s \notin LooksAgain -> "commit"

RecheckRecovery(s) ==
  /\ rat[s] = "recheck"
  /\ RecoveryAt(s, IF Sight(s) = saw[s] THEN AfterRecheck(s) ELSE "idle")
  /\ UNCHANGED <<transaction, rbook, saw, overlap, world, faults, drift>>

\* The one write a recovery may make; a merge is never made by it.
RecoverBy(s, w, accepted, new) ==
  /\ rat[s] = "write"
  /\ Request(w, accepted, new, RecoveryAt(s, "verify"), RecoveryAt(s, "idle"))
  /\ UNCHANGED <<transaction, rbook, saw, overlap, drift>>

RecoverPublication == RecoverBy("publish", "create", MayOpenDraft, OpenDraft)
RecoverLifecycle ==
  RecoverBy("lifecycle", "request", MayRequest, [repo EXCEPT !.reviewers = TRUE])
RecoverRelease == RecoverBy("release", "release", repo.tag, OneMoreRelease)

\* What the write must have led to.
Verified(s) == CASE s = "publish" -> PublicationAction = "finalize"
                 [] s = "lifecycle" -> FinalState
                 [] s = "release" -> ExactExisting
                 [] s = "merge" -> FALSE
                 [] s = "deploy" -> DeploymentExact
                 [] s = "status" -> StatusExact
                 [] s = "success" -> SuccessExact
                 [] s = "activate" -> FALSE

CommitRecovery(s) ==
  /\ \/ rat[s] = "commit"
     \/ rat[s] = "verify" /\ Verified(s)
  /\ RecoveryAt(s, "idle")
  /\ \/ rbook' = Enter(rbook, s, "final") /\ UNCHANGED faults
     \/ Fault("disk") /\ rbook' \in {rbook, Enter(rbook, s, "final")}
  /\ UNCHANGED <<transaction, saw, overlap, world, drift>>

RefuseRecovery(s) ==
  /\ rat[s] = "verify" /\ ~Verified(s)
  /\ RecoveryAt(s, "idle")
  /\ UNCHANGED <<transaction, rbook, saw, overlap, world, faults, drift>>

RecoveryStep ==
  \/ \E s \in Stage : BeginRecovery(s) \/ RecheckRecovery(s) \/ CommitRecovery(s) \/ RefuseRecovery(s)
  \/ RecoverPublication \/ RecoverLifecycle \/ RecoverRelease

-----------------------------------------------------------------------------
(* A process dies or raises.  Authority that no lock has spent yet is       *)
(* process-local: it is gone, and its authorization stays consumed.         *)
Halt(s) ==
  /\ s \in live \/ at[s] # "idle"
  /\ live' = live \ {s} /\ Stop(s)
  /\ Fault("halt")
  /\ UNCHANGED <<granted, book, recovery, world, drift>>

HaltRecovery(s) ==
  /\ rat[s] # "idle"
  /\ RecoveryAt(s, "idle")
  /\ Fault("halt")
  /\ UNCHANGED <<transaction, rbook, saw, overlap, world, drift>>

Drifts == drift < MaxDrift /\ Trouble < MaxTrouble /\ drift' = drift + 1

(* Other people push to the base branch or over the task's branch, mark the *)
(* request ready, merge it themselves, deploy the tag too, or give our      *)
(* deployment a status.                                                     *)
Drift ==
  /\ Drifts
  /\ \/ repo.main = "task" /\ repo' = [repo EXCEPT !.main = "moved"]
     \/ repo.main = "merged" /\ repo' = [repo EXCEPT !.main = "past"]
     \/ repo.head = "exact" /\ repo' = [repo EXCEPT !.head = "other"]
     \/ repo.pr = "draft" /\ repo' = [repo EXCEPT !.pr = "ready"]
     \/ MayMerge /\ repo' = MergedRepo
     \/ repo.tag /\ "other" \notin repo.deployments
        /\ repo' = [repo EXCEPT !.deployments = @ \cup {"other"}]
     \/ "ours" \in repo.deployments /\ "other" \notin repo.statuses
        /\ repo' = AddStatus("other")
  /\ UNCHANGED <<transaction, recovery, rig, sent, faults>>

\* Someone edits modelrig.env under the transaction's lock.
DriftRig ==
  /\ Drifts
  /\ Locked("activate") /\ rig.switches # "other"
  /\ rig' = [rig EXCEPT !.switches = "other"]
  /\ UNCHANGED <<transaction, recovery, repo, sent, faults>>

Next ==
  \/ PublicationStep \/ LifecycleStep \/ MergeStep \/ ReleaseStep \/ StagingStep
  \/ ActivationStep \/ RecoveryStep
  \/ \E s \in Stage : Halt(s) \/ HaltRecovery(s)
  \/ Drift \/ DriftRig

Spec == Init /\ [][Next]_vars

-----------------------------------------------------------------------------
(* No write is made twice over lost answers, failed files, dead processes   *)
(* and a recovery: recovery finds out from GitHub what was done.  Not so    *)
(* when it starts while the transaction still runs.                         *)
EachWriteOnce ==
  \A s \in Stage \ overlap : \A w \in WritesOf(s) : sent[w] <= 1

(* A stage is closed once, by its transaction or by its recovery, whatever  *)
(* fails, unless the recovery started while the transaction still ran: the  *)
(* next stage asks for exactly one receipt.                                 *)
OneCompletionUnlessOverlapped ==
  \A s \in Stage \ overlap : ~(Completed(s) /\ Recovered(s))

\* Recovery's receipt says that production was verified not to be activated.
FoundInactive == "final" \in rbook["activate"] /\ saw["activate"].action = "inactive"

(* A receipt is only kept for what happened on GitHub: the commit that was  *)
(* authorized, asked of its reviewers, squashed onto the authorized base    *)
(* and nothing else, tagged, released, deployed and given its statuses.     *)
ReceiptsExact ==
  /\ Done("publish") => sent["push"] = 1 /\ sent["create"] = 1 /\ repo.prBase = "task"
  /\ Done("lifecycle") => repo.reviewers /\ repo.pr \in {"ready", "merged"}
  /\ Done("merge") => repo.pr = "merged" /\ repo.mergedOn = "task"
  /\ Done("release") => repo.tag /\ repo.releases >= 1
  /\ Done("deploy") => sent["deployment"] = 1 /\ repo.mergedOn = "task"
  /\ Done("status") => sent["in_progress"] = 1
  /\ Done("success") => sent["success"] = 1
  /\ Done("activate") => sent["activate"] = 1
  /\ FoundInactive /\ "activate" \notin overlap => rig.switches # "active"

(* While nobody else touches the repository, a transaction that stopped     *)
(* anywhere leaves a state its recovery understands: it is finished, the    *)
(* missing write is made, or people are told that nothing happened yet.     *)
NeverStranded ==
  \A s \in Stage :
    drift = 0 /\ Locked(s) /\ ~Completed(s) /\ at[s] = "idle" /\ rbook[s] = {}
      => Action(s) # "error"

(* No stage writes before the one before it was closed, whatever was lost   *)
(* in between, so that nothing is merged by the task whose reviewers were   *)
(* not asked and no tag is set on a squash onto another base.               *)
WritesInOrder ==
  /\ \A s \in Stage : \A w \in WritesOf(s) :
       sent[w] > 0 => \A p \in Previous(s) : Done(p)
  /\ sent["merge"] > 0 => repo.reviewers
  /\ sent["tag"] > 0 => repo.mergedOn = "task"

(* What the docs promise without exception: exactly one of the transaction  *)
(* and its recovery completes a stage (post_publication_attestation.py).    *)
OneCompletion == \A s \in Stage : ~(Completed(s) /\ Recovered(s))

=============================================================================
