---------------------------- MODULE MCNodeTasks ----------------------------
(***************************************************************************)
(* Two tasks beside the main task, each of any role: every circular wait   *)
(* goes through the main task or through the lock, and needs one task that *)
(* holds a guard and one that waits for it.                                *)
(***************************************************************************)
EXTENDS NodeTasks, TLC

Symmetry == Permutations(Others)
=============================================================================
