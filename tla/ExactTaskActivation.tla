------------------------ MODULE ExactTaskActivation ------------------------
(***************************************************************************)
(* Stage "activate": on the production machine, the promotion controller    *)
(* proves the release once more, sets the switches in modelrig.env and      *)
(* leaves two receipts                                                      *)
(* (improvement_pilot_exact_task_production_activation_transaction.py), and *)
(* what recovery says of a transaction that only left its lock              *)
(* (..._production_activation_recovery.py).  The controller is a script of  *)
(* the promotion branch and not part of the repository.                     *)
(***************************************************************************)
EXTENDS ExactTaskStaging

\* improvement_pilot_exact_task_post_staging_success_status_attestation.py: a
\* receipt of the transaction with a recovery lock beside it is refused too.
SuccessAttested ==
  /\ CompletedOnce("success")
  /\ Completed("success") => rbook["success"] = {}
  /\ SuccessExact

\* The switches are not on yet and the output directory is not there.
NotActivated == rig.switches # "active" /\ rig.output = "absent"

AuthorizeActivation == Grant("activate", SuccessAttested)
AcquireActivation == Acquire("activate", NotActivated)

\* After the lock the evidence is collected again and compared.
RecheckActivation ==
  Check("activate", "recheck", NotActivated /\ rig.switches = "before", "run")

RunController ==
  /\ at["activate"] = "run"
  /\ rig' = [rig EXCEPT !.controller = TRUE]
  /\ Advance("activate", "running")
  /\ UNCHANGED <<granted, live, book, recovery, repo, sent, faults, drift>>

(* The controller works by itself, also when the process that waits for it  *)
(* has died: a receipt, the switches, a second receipt.                     *)
ControllerWrites ==
  /\ rig.controller
  /\ \/ /\ rig.output = "absent"
        /\ rig' = [rig EXCEPT !.output = "preflight"]
        /\ UNCHANGED sent
     \/ /\ rig.output = "preflight" /\ sent["activate"] = 0
        /\ rig' = [rig EXCEPT !.switches = "active"]
        /\ sent' = [sent EXCEPT !["activate"] = @ + 1]
     \/ /\ rig.output = "preflight" /\ rig.switches = "active"
        /\ rig' = [rig EXCEPT !.output = "both"]
        /\ UNCHANGED sent
  /\ UNCHANGED <<transaction, recovery, repo, faults, drift>>

ControllerDone ==
  /\ rig.controller /\ rig.output = "both"
  /\ rig' = [rig EXCEPT !.controller = FALSE]
  /\ Advance("activate", IF at["activate"] = "running" THEN "ran" ELSE "idle")
  /\ UNCHANGED <<granted, live, book, recovery, repo, sent, faults, drift>>

(* It fails anywhere, or is killed at its time limit; what it then makes of *)
(* the switches is its own affair.                                          *)
ControllerFails ==
  /\ rig.controller
  /\ \E left \in {rig.switches, "before", "other"} :
       rig' = [rig EXCEPT !.controller = FALSE, !.switches = left]
  /\ Stop("activate")
  /\ Fault("halt")
  /\ UNCHANGED <<granted, live, book, recovery, repo, sent, drift>>

Activated == rig.switches = "active" /\ rig.output = "both"

CommitActivation ==
  Record("activate", "ran", Activated /\ Locked("activate"), "final", "idle")

ActivationStep ==
  \/ AuthorizeActivation \/ AcquireActivation \/ RecheckActivation
  \/ RunController \/ ControllerWrites \/ ControllerDone \/ ControllerFails
  \/ CommitActivation

-----------------------------------------------------------------------------
(* Recovery only classifies, and keeps its receipt whatever it finds: the   *)
(* machine is exactly activated, verified not to be, or a matter for people.*)
ActivationAction ==
  LET untouched == rig.switches = "before" /\ rig.output \in {"absent", "preflight"}
      open == Locked("activate") /\ ~Completed("activate")
  IN CASE ~open -> "error"
       [] open /\ Activated -> "finalize"
       [] open /\ untouched -> "inactive"
       [] open /\ ~Activated /\ ~untouched -> "manual"

=============================================================================
