-------------------------- MODULE MCScheduleApproval --------------------------
(***************************************************************************)
(* Small instances of ScheduleApproval for TLC.                             *)
(***************************************************************************)
EXTENDS ScheduleApproval, TLC

(* Nonces are random, ids fresh, and requests and the other terms are told  *)
(* apart only by being different.                                           *)
Interchangeable ==
  Permutations(Nonce) \cup Permutations(Id) \cup Permutations(Request)
    \cup Permutations(Terms)

=============================================================================
