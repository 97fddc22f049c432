---------------------------- MODULE BuildSystem -----------------------------
(***************************************************************************)
(* Builders (BuildCache) over a recipe tree that pkg sync replaces         *)
(* (RecipeSync) while they run: no lock is common to the two, so between   *)
(* the renames a builder finds no recipe, and after them other ones.       *)
(***************************************************************************)
EXTENDS BuildCache

CONSTANTS Syncer, MaxSyncs, MaxDeaths

ASSUME SystemAssumption == Recipe # {} /\ MaxSyncs \in Nat /\ MaxDeaths \in Nat

VARIABLES previous, at, stranded, syncs, deaths

syncVars == <<previous, at, stranded, syncs, deaths>>
systemVars == <<vars, syncVars>>

\* A snapshot has every recipe, all of one version; without it there is none.
Trees == {[r \in Recipe |-> v] : v \in Version}
NoTree == [r \in Recipe |-> None]

Sync == INSTANCE RecipeSync WITH recipes <- recipe, Tree <- Trees, Missing <- NoTree

SystemTypeOK == TypeOK /\ Sync!TypeOK

SystemInit == Init /\ Sync!Init

\* Each has its own steps; a power loss stops them all.
BuilderStep == Builders /\ UNCHANGED syncVars

SyncStep ==
  /\ Sync!Review \/ \E y \in Syncer : Sync!Sync(y)
  /\ UNCHANGED <<disk, lock, pc, local, served, bounds>>

MachineStops == PowerLoss /\ Sync!Crash

SystemNext == BuilderStep \/ SyncStep \/ MachineStops

SystemSpec == SystemInit /\ [][SystemNext]_systemVars

\* A builder that can go on does.
FairSystem == SystemSpec /\ \A p \in Proc : WF_systemVars(Progress(p) /\ UNCHANGED syncVars)
-----------------------------------------------------------------------------
\* The promises of RecipeSync, with builders at work (docs/packages.md:52,
\* cli.py:55-64): syncs that interleave or die lose no tree, and one that fails
\* leaves a tree in use.
TreesKept == Sync!TreesKept
TreeInUse == Sync!TreeInUse
=============================================================================
