----------------------------- MODULE MCRebuild ------------------------------
(***************************************************************************)
(* A library whose ABI has changed, a client of it whose own ABI has       *)
(* changed in the recipes, and a tool on top of the client. The client     *)
(* ships a configuration file, with a new default in its recipe.           *)
(***************************************************************************)
EXTENDS Rebuild, TLC

CONSTANTS lib, client, tool, x, y, v1, conf, new, c1, c2

Deps(on) == [n \in {lib, client, tool} |-> IF n \in DOMAIN on THEN on[n] ELSE None]

Archive(n, abi, on, default) ==
  [name |-> n, cpu |-> v1, abi |-> abi, dependencies |-> Deps(on),
   files |-> [q \in Path |-> IF q = conf THEN default ELSE Absent]]

Old == { Archive(lib, x, <<>>, Absent), Archive(client, x, lib :> x, c1),
         Archive(tool, x, client :> x, Absent) }

MCRecipes ==
  lib :> Archive(lib, y, <<>>, Absent) @@ client :> Archive(client, y, lib :> y, c2)
    @@ tool :> Archive(tool, y, client :> y, Absent)

MCCatalog == Old \cup {MCRecipes[n] : n \in Name}

\* By hand: the old archives, and the new library.
MCStock == Old \cup {MCRecipes[lib]}

\* Alphabetical order that happens to follow the dependencies, and one that
\* does not ("client" and then "atool").
ClientFirst == lib :> 1 @@ client :> 2 @@ tool :> 3
ToolFirst == lib :> 3 @@ client :> 2 @@ tool :> 1

\* The candidate of conf, in the runs that have paths.
MCNewOf == [q \in Path \cap {conf} |-> new]
=============================================================================
