---------------------------- MODULE MCKernelUpdate ----------------------------
(* Two updates and two kernels, one of them installed on the way.            *)
EXTENDS KernelUpdate, TLC

\* The updates are interchangeable.
Symmetry == Permutations(Updater)
=============================================================================
