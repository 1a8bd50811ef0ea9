-------------------------- MODULE MCSubagentTracker --------------------------
(***************************************************************************)
(* SubagentTracker with interchangeable children for the runs that check   *)
(* no temporal property.                                                   *)
(***************************************************************************)
EXTENDS SubagentTracker, TLC

ChildSymmetry == Permutations(Child)
=============================================================================
