--------------------------- MODULE MCTransactions ---------------------------
(***************************************************************************)
(* Model-checking instances of Transactions.                               *)
(***************************************************************************)
EXTENDS Transactions, TLC

\* Processes and contents are interchangeable; so are paths.
Symmetry == Permutations(Proc) \cup Permutations(Content) \cup Permutations(Path)
=============================================================================
