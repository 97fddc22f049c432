---------------------------- MODULE MCRecipePlan ----------------------------
(***************************************************************************)
(* Every recipe tree over three names, with any of the recipes missing.    *)
(***************************************************************************)
EXTENDS RecipePlan

MCGraphs == UNION {[known -> SUBSET Name] : known \in SUBSET Name}
=============================================================================
