------------------------------ MODULE MCSession ------------------------------
(* Processes are numbered in the order of their birth: no symmetry.         *)
EXTENDS Session
=============================================================================
