----------------------------- MODULE RecipeSync -----------------------------
(***************************************************************************)
(* sync of vfos/cli.py: a snapshot, fetched, unpacked beside the recipe    *)
(* tree and validated, takes the place of the tree, which is kept as       *)
(* recipes.previous. Nothing keeps two of them from running at once; each  *)
(* look at a directory and each rename is a step. What comes before them   *)
(* touches only a temporary directory, and is left out.                    *)
(***************************************************************************)
EXTENDS Naturals

CONSTANTS
  Tree,       \* whole recipe trees
  Missing,    \* no directory there
  Syncer,     \* processes that sync
  MaxSyncs,   \* bound on calls of sync
  MaxDeaths   \* bound on deaths and crashes

VARIABLES
  recipes,    \* what --recipes names
  previous,   \* what recipes.previous holds
  at,         \* where each sync is
  stranded,   \* history: no tree since a sync was killed between its renames?
  syncs, deaths

vars == <<recipes, previous, at, stranded, syncs, deaths>>

Steps == {"idle", "look", "away", "in", "undo"}

TypeOK ==
  /\ recipes \in Tree \cup {Missing} /\ previous \in Tree \cup {Missing}
  /\ at \in [Syncer -> Steps]
  /\ stranded \in BOOLEAN
  /\ syncs \in 0..MaxSyncs /\ deaths \in 0..MaxDeaths

Init ==
  /\ recipes \in Tree /\ previous = Missing
  /\ at = [p \in Syncer |-> "idle"]
  /\ stranded = FALSE
  /\ syncs = 0 /\ deaths = 0
-----------------------------------------------------------------------------
Goto(p, step) == at' = [at EXCEPT ![p] = step]

\* Is the sync past its first rename, or sure that it needs none?
BetweenRenames(p) == at[p] \in {"in", "undo"}

\* backup.exists(): the previous snapshot is still there, and sync refuses.
Check(p) ==
  /\ at[p] = "idle" /\ syncs < MaxSyncs
  /\ syncs' = syncs + 1
  /\ Goto(p, IF previous = Missing THEN "look" ELSE "idle")
  /\ UNCHANGED <<recipes, previous, stranded, deaths>>

\* args.recipes.exists()
Look(p) ==
  /\ at[p] = "look"
  /\ Goto(p, IF recipes = Missing THEN "in" ELSE "away")
  /\ UNCHANGED <<recipes, previous, stranded, syncs, deaths>>

\* rename(2) of a directory raises if it is gone or a tree is at the target.
Renames_Replacing(from, target) == from # Missing
Renames(from, target) == from # Missing /\ target = Missing

MoveAway(p) ==
  /\ at[p] = "away"
  /\ IF Renames(recipes, previous)
     THEN previous' = recipes /\ recipes' = Missing /\ Goto(p, "in")
     ELSE UNCHANGED <<recipes, previous>> /\ Goto(p, "idle")
  /\ UNCHANGED <<stranded, syncs, deaths>>

\* The snapshot's tree is renamed into place; that, or an interrupt before or
\* after it, can raise.
MoveIn(p) ==
  /\ at[p] = "in"
  /\ \/ /\ \E t \in Tree : Renames(t, recipes) /\ recipes' = t
        /\ Goto(p, "idle") \/ Goto(p, "undo")
     \/ UNCHANGED recipes /\ Goto(p, "undo")
  /\ stranded' = (stranded /\ recipes' = Missing)
  /\ UNCHANGED <<previous, syncs, deaths>>

\* except BaseException
Restores_Not == FALSE
Restores == Renames(previous, recipes)

Undo(p) ==
  /\ at[p] = "undo"
  /\ IF Restores
     THEN recipes' = previous /\ previous' = Missing
     ELSE UNCHANGED <<recipes, previous>>
  /\ stranded' = (stranded /\ recipes' = Missing)
  /\ Goto(p, "idle")
  /\ UNCHANGED <<syncs, deaths>>

Die(p) ==
  /\ at[p] # "idle" /\ deaths < MaxDeaths
  /\ deaths' = deaths + 1
  /\ stranded' = (recipes = Missing /\ (stranded \/ BetweenRenames(p)))
  /\ Goto(p, "idle")
  /\ UNCHANGED <<recipes, previous, syncs>>

\* The machine stops. The renames are taken to be on disk.
Crash ==
  /\ deaths < MaxDeaths
  /\ deaths' = deaths + 1
  /\ stranded' = (recipes = Missing /\ (stranded \/ \E p \in Syncer : BetweenRenames(p)))
  /\ at' = [p \in Syncer |-> "idle"]
  /\ UNCHANGED <<recipes, previous, syncs>>

\* "review it before syncing again": the operator drops the tree that was
\* replaced, or puts it back where there is none. Nothing keeps him from it
\* while a sync runs.
Review ==
  /\ previous # Missing
  /\ recipes' = IF recipes = Missing THEN previous ELSE recipes
  /\ previous' = Missing
  /\ stranded' = FALSE
  /\ UNCHANGED <<at, syncs, deaths>>

Sync(p) ==
  Check(p) \/ Look(p) \/ MoveAway(p) \/ MoveIn(p) \/ Undo(p) \/ Die(p)

Next == Review \/ Crash \/ \E p \in Syncer : Sync(p)

Spec == Init /\ [][Next]_vars
-----------------------------------------------------------------------------
\* docs/packages.md, cli.py:55-64. "the old tree is retained as .previous":
\* whatever syncs run at once or die, a tree that is in use or kept is still in
\* use or kept after each of their steps; only the operator lets one go.
TreesKept ==
  [][ Review \/ {recipes, previous} \ {Missing} \subseteq {recipes', previous'} ]_<<recipes, previous>>

\* cli.py:57-64. A sync that fails leaves a tree in use. While there is none, a
\* sync is between its renames, or the last one there was killed and the tree it
\* took away is still at recipes.previous.
TreeInUse ==
  recipes = Missing =>
    \/ stranded /\ previous # Missing
    \/ \E p \in Syncer : BetweenRenames(p)
=============================================================================
