--------------------------- MODULE MCBuildSystem ----------------------------
(***************************************************************************)
(* One recipe, of two sources, that two snapshots have in two versions;    *)
(* two builders and two syncs.  Builds differ by the version they copied.  *)
(***************************************************************************)
EXTENDS BuildSystem

MCSourcesOf == [r \in Recipe |-> Source]
=============================================================================
