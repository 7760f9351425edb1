----------------------------- MODULE MCExactTask -----------------------------
(* One task, for TLC. *)
EXTENDS ExactTask

=============================================================================
