-------------------------- MODULE OccurrenceLedger --------------------------
(***************************************************************************)
(* What the scheduler promises of every occurrence, whatever crashes:       *)
(* it is taken once; while it is held its write happens at most once; and   *)
(* it is settled once, either spent or given back, and given back only if   *)
(* the write did not and never will happen.                                 *)
(***************************************************************************)
EXTENDS Naturals

CONSTANT Entry

VARIABLES
  entry,     \* the standing of each occurrence
  written    \* how often its write happened

lvars == <<entry, written>>

Init ==
  /\ entry = [e \in Entry |-> "free"]
  /\ written = [e \in Entry |-> 0]

(* A batch of occurrences becomes due and is taken.                         *)
Take(E) ==
  /\ \A e \in E : entry[e] = "free"
  /\ entry' = [e \in Entry |-> IF e \in E THEN "held" ELSE entry[e]]
  /\ UNCHANGED written

WriteOnce(e) ==
  /\ entry[e] = "held" /\ written[e] = 0
  /\ written' = [written EXCEPT ![e] = 1]
  /\ UNCHANGED entry

Spend(e) ==
  /\ entry[e] = "held"
  /\ entry' = [entry EXCEPT ![e] = "spent"]
  /\ UNCHANGED written

GiveBack(e) ==
  /\ entry[e] = "held" /\ written[e] = 0
  /\ entry' = [entry EXCEPT ![e] = "returned"]
  /\ UNCHANGED written

Next ==
  \/ \E E \in SUBSET Entry : Take(E)
  \/ \E e \in Entry : WriteOnce(e) \/ Spend(e) \/ GiveBack(e)

Spec == Init /\ [][Next]_lvars

=============================================================================
