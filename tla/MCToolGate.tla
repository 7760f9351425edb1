----------------------------- MODULE MCToolGate -----------------------------
(***************************************************************************)
(* A small gate for TLC: threads and cards are interchangeable.             *)
(***************************************************************************)
EXTENDS ToolGate, TLC

GateSymmetry == Permutations(Caller) \cup Permutations(Admin) \cup Permutations(Card)

=============================================================================
