-------------------------- MODULE ExactTaskRelease --------------------------
(***************************************************************************)
(* Stage "release": a lightweight tag on the squash commit, then one draft  *)
(* prerelease (improvement_pilot_exact_task_release_transaction.py), and    *)
(* what its recovery makes of an unfinished one                             *)
(* (..._release_recovery.py).                                               *)
(***************************************************************************)
EXTENDS ExactTaskState

\* improvement_pilot_exact_task_release_state_observation.py
ReleaseClear == ~repo.tag /\ repo.releases = 0
TagAlone == repo.tag /\ repo.releases = 0
ExactExisting == repo.tag /\ repo.releases = 1

\* improvement_pilot_exact_task_post_merge_attestation.py
MergeAttested ==
  /\ CompletedOnce("merge")
  /\ repo.pr = "merged" /\ repo.main = "merged" /\ repo.mergedOn = "task"

\* improvement_pilot_exact_task_release_readiness_evaluation.py
ReleaseReady == repo.main = "merged" /\ ReleaseClear

AuthorizeRelease == Grant("release", MergeAttested /\ ReleaseReady)
AcquireRelease == Acquire("release", ReleaseClear)
RecheckClear == Check("release", "recheck", ReleaseClear, "tag")

CreateTag ==
  Send("release", "tag", "tag", ~repo.tag, [repo EXCEPT !.tag = TRUE], "tagged")

MarkTag == Record("release", "tagged", TRUE, "first", "alone")
CheckTagAlone == Check("release", "alone", TagAlone, "release")

\* GitHub lets a tag have several draft releases.
OneMoreRelease == [repo EXCEPT !.releases = @ + 1]

CreateRelease ==
  Send("release", "release", "release", repo.tag, OneMoreRelease, "released")

MarkRelease == Record("release", "released", TRUE, "second", "exact")

CommitRelease ==
  Record("release", "exact",
         ExactExisting /\ {"lock", "first", "second"} \subseteq book["release"],
         "final", "idle")

ReleaseStep ==
  \/ AuthorizeRelease \/ AcquireRelease \/ RecheckClear
  \/ CreateTag \/ MarkTag \/ CheckTagAlone \/ CreateRelease \/ MarkRelease
  \/ CommitRelease

-----------------------------------------------------------------------------
\* Mutant: what is missing is read off the markers, not off GitHub.
ReleaseByMarkers ==
  LET files == book["release"]
  IN CASE "lock" \notin files \/ "final" \in files \/ ~repo.tag -> "error"
       [] "lock" \in files /\ "final" \notin files /\ repo.tag /\ "second" \notin files -> "write"
       [] "lock" \in files /\ "final" \notin files /\ repo.tag /\ "second" \in files -> "finalize"

ReleaseAction ==
  LET files == book["release"]
      consistent ==
        /\ "final" \notin files /\ "lock" \in files
        /\ "second" \in files => "first" \in files
        /\ ReleaseClear \/ TagAlone \/ ExactExisting
        /\ "first" \in files => ~ReleaseClear
        /\ "second" \in files => ExactExisting
  IN CASE ~consistent -> "error"
       [] consistent /\ ReleaseClear -> "manual"
       [] consistent /\ TagAlone -> "write"
       [] consistent /\ ExactExisting -> "finalize"

=============================================================================
