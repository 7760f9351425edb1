---------------------------- MODULE MCScheduler ----------------------------
(***************************************************************************)
(* Small instances of Scheduler for TLC.                                    *)
(***************************************************************************)
EXTENDS Scheduler, TLC

CONSTANTS a, b, d     \* schedules

(* Owner ids are fresh random strings: processes are interchangeable.       *)
WorkerSymmetry == Permutations(Worker)

=============================================================================
