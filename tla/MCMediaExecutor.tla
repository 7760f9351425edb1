--------------------------- MODULE MCMediaExecutor ---------------------------
(***************************************************************************)
(* Small instances of MediaExecutor for TLC: two GPUs that share the        *)
(* gallery, two profiles, several lives of an executor.                     *)
(***************************************************************************)
EXTENDS MediaExecutor, TLC

CONSTANTS g1, g2, flux, sdxl, p1, p2, p3, q1, q2

MCGpuOf == [p \in Process |-> IF p \in {p1, p2, p3} THEN g1 ELSE g2]
MCServes == [g \in Gpu |-> IF g = g1 THEN {flux, sdxl} ELSE {sdxl}]
MCProfileOf == [j \in Job |-> IF j = 2 THEN flux ELSE sdxl]
MCSameProfile == [j \in Job |-> sdxl]
MCOwnerOf == [j \in Job |-> "owner"]

(* Instance ids are fresh random strings: the lives of one GPU's executor   *)
(* are interchangeable.                                                     *)
LifeSymmetry == Permutations({p1, p2, p3} \cap Process)

=============================================================================
