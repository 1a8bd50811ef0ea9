---------------------------- MODULE MCSessionStore ----------------------------
(***************************************************************************)
(* SessionStore with interchangeable processes and session ids.            *)
(***************************************************************************)
EXTENDS SessionStore, TLC

StoreSymmetry == Permutations(Process) \cup Permutations(Dir)
=============================================================================
