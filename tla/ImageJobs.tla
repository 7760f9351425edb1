------------------------------ MODULE ImageJobs ------------------------------
(***************************************************************************)
(* What the owner of an image job is promised, whoever executes it: the    *)
(* job is committed at most once and never after a cancellation was        *)
(* accepted for it, its asset appears only between the commit point and    *)
(* the end of the job, and "completed" means that the asset is there.      *)
(* How executors, GPU locks, crashes and the gallery achieve this is       *)
(* MediaExecutor, which is shown to implement Spec.                        *)
(***************************************************************************)
CONSTANT Job

VARIABLES
  stage,   \* what the owner's job list shows
  asked,   \* a cancellation was accepted while the job ran
  asset    \* the job's file exists on the media volume

vars == <<stage, asked, asset>>

Active == {"queued", "running", "publishing"}
Finished == {"completed", "failed", "cancelled"}

TypeOK ==
  /\ stage \in [Job -> {"none"} \cup Active \cup Finished]
  /\ asked \in [Job -> BOOLEAN]
  /\ asset \in [Job -> BOOLEAN]

Init ==
  /\ stage = [j \in Job |-> "none"]
  /\ asked = [j \in Job |-> FALSE]
  /\ asset = [j \in Job |-> FALSE]

Move(j, from, to) ==
  /\ stage[j] = from
  /\ stage' = [stage EXCEPT ![j] = to]
  /\ UNCHANGED <<asked, asset>>

Submit(j) == Move(j, "none", "queued")
Begin(j)  == Move(j, "queued", "running")

\* A job may wait again, but not one whose cancellation was accepted.
Requeue(j) == ~asked[j] /\ Move(j, "running", "queued")

CancelWaiting(j) == Move(j, "queued", "cancelled")

CancelRunning(j) ==
  /\ stage[j] = "running"
  /\ asked' = [asked EXCEPT ![j] = TRUE]
  /\ UNCHANGED <<stage, asset>>

\* The owner's cancellation and the commit exclude one another.
Commit(j) == ~asked[j] /\ Move(j, "running", "publishing")

Publish(j) ==
  /\ stage[j] = "publishing"
  /\ asset' = [asset EXCEPT ![j] = TRUE]
  /\ UNCHANGED <<stage, asked>>

Complete(j) == asset[j] /\ Move(j, "publishing", "completed")

Stop(j) ==
  \/ Move(j, "running", "cancelled")
  \/ Move(j, "running", "failed")
  \/ Move(j, "publishing", "failed")

(* One restart closes every job its dead predecessors left behind.         *)
Sweep ==
  /\ \E dead \in SUBSET {j \in Job : stage[j] \in {"running", "publishing"}} :
       stage' = [j \in Job |-> IF j \in dead THEN "failed" ELSE stage[j]]
  /\ UNCHANGED <<asked, asset>>

Next ==
  \/ \E j \in Job :
       \/ Submit(j) \/ Begin(j) \/ Requeue(j) \/ CancelWaiting(j)
       \/ CancelRunning(j) \/ Commit(j) \/ Publish(j) \/ Complete(j) \/ Stop(j)
  \/ Sweep

Spec == Init /\ [][Next]_vars
=============================================================================
