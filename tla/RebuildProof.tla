---------------------------- MODULE RebuildProof -----------------------------
(***************************************************************************)
(* Proofs about Rebuild, for every catalogue and set of recipes: whatever  *)
(* rebuild and the commands beside it do is a behaviour of PackageDb, so   *)
(* that all of PackageDbProof holds of it, and a rebuild nobody interrupts *)
(* ends at the ABIs of the recipes, unless it is refused over an artifact  *)
(* that comes before one it needs or for something other than an ABI.      *)
(***************************************************************************)
EXTENDS Rebuild, PackageDbProof

\* Only names with a recipe are queued for installation.
QueueInv ==
  /\ TypeOK
  /\ queue \subseteq {n \in Name : Recipes[n] # None}
  /\ kills \in Nat

LEMMA RecipeIsArchive ==
  ASSUME NEW n \in Name, Recipes[n] # None
  PROVE  Recipes[n] \in Catalog /\ Recipes[n].name = n
BY RecipeAssumption

\* A step of rebuild, or of a command beside it, is a step of the database.
LEMMA RebuildStep == ASSUME QueueInv, [RNext]_rvars PROVE [Next]_vars
<1>1. ASSUME InstallOne PROVE Next
  <2>1. PICK n \in queue : Install(Recipes[n], TRUE)
    BY <1>1 DEF InstallOne
  <2>2. Recipes[n] \in Catalog
    BY RecipeIsArchive DEF QueueInv
  <2> QED
    BY <2>1, <2>2 DEF Next, Operate
<1>2. ASSUME ByHand PROVE Next
  BY <1>2, RecipeAssumption DEF ByHand, Next, Operate
<1>3. ASSUME EditByHand PROVE Next
  BY <1>3 DEF EditByHand, Next
<1>4. ASSUME Start \/ Refused \/ Finished \/ Killed \/ UNCHANGED rvars PROVE UNCHANGED vars
  BY <1>4 DEF Start, Refused, Finished, Killed, rvars
<1> QED
  BY <1>1, <1>2, <1>3, <1>4 DEF RNext, Run

LEMMA QueueStep == ASSUME QueueInv, [RNext]_rvars PROVE QueueInv'
<1>1. TypeOK'
  BY RebuildStep, TypeStep DEF QueueInv
<1>2. ASSUME NEW n \in queue' PROVE n \in Name /\ Recipes[n] # None
  BY <1>2 DEF RNext, Run, Start, InstallOne, Refused, Finished, Killed, ByHand, EditByHand, rvars,
              QueueInv, TypeOK
<1>3. kills' = kills \/ kills' = kills + 1
  BY DEF RNext, Run, Start, InstallOne, Refused, Finished, Killed, ByHand, EditByHand, rvars
<1> QED
  BY <1>1, <1>2, <1>3 DEF QueueInv

THEOREM QueueInvariant == RSpec => []QueueInv
<1>1. RInit => QueueInv
  <2> SUFFICES ASSUME RInit PROVE QueueInv
    OBVIOUS
  <2>1. TypeOK
    BY CatalogAssumption DEF RInit, Init, TypeOK
  <2> QED
    BY <2>1 DEF RInit, QueueInv
<1> QED
  BY <1>1, QueueStep, PTL DEF RSpec

\* cli.py:184-203. Rebuild only uses the operations of the database.
THEOREM RebuildImplements == RSpec => Spec
<1>1. RInit => Init
  BY DEF RInit
<1> QED
  BY <1>1, RebuildStep, QueueInvariant, PTL DEF RSpec, Spec

\* packages.py:244-246, 277-285. No rebuild, refusal or death loses a mismatch.
THEOREM RebuildKeepsMismatches == RSpec => []MismatchIsQueued
BY RebuildImplements, MismatchesAreQueued, PTL

\* packages.py:255-272. Whatever is edited while a rebuild is at work, between
\* its installations, none of them overwrites it, and each is one transaction.
THEOREM RebuildKeepsEdits == RSpec => EditsSurvive
BY RebuildImplements, EditsAreKept, PTL

THEOREM RebuildTransacts == RSpec => OperationsAreTransactions
BY RebuildImplements, OperationsTransact, PTL
-----------------------------------------------------------------------------
\* What a steady rebuild has installed, or never queued, is at its recipe's ABI.
\* The packages it queues again on its way are no exception: they were queued
\* for what they depend on, and are themselves there.
SteadyInv == running /\ steady => \A n \in Installed \ queue : AtRecipe(n)

LEMMA SteadyStep ==
  ASSUME QueueInv, SteadyInv, [RNext]_rvars PROVE SteadyInv'
<1>1. CASE Start
  <2>1. UNCHANGED vars /\ queue' = rebuild /\ steady' = UpToDate
    BY <1>1 DEF Start
  <2> QED
    BY <2>1 DEF SteadyInv, UpToDate, AtRecipe, Installed, vars
<1>2. CASE InstallOne
  <2>1. PICK n \in queue : Install(Recipes[n], TRUE) /\ queue' = queue \ {n}
    BY <1>2 DEF InstallOne
  <2>2. n \in Name /\ Recipes[n] # None /\ Recipes[n] \in Catalog /\ Recipes[n].name = n
    BY RecipeIsArchive DEF QueueInv
  <2>3. /\ Installed' = Installed \cup {n}
        /\ packages'[n] = Entry(Recipes[n])
        /\ \A m \in Name \ {n} : packages'[m] = packages[m]
    BY <2>1, <2>2, InstallPackages DEF QueueInv
  <2>4. AtRecipe(n)'
    BY <2>2, <2>3, EntryFields DEF AtRecipe
  <2>5. \A m \in Installed \ {n} : AtRecipe(m)' <=> AtRecipe(m)
    BY <2>3 DEF AtRecipe, Installed
  <2>6. running' = running /\ steady' = steady
    BY <1>2 DEF InstallOne
  <2> QED
    BY <2>1, <2>3, <2>4, <2>5, <2>6 DEF SteadyInv
<1>3. CASE Refused \/ Finished \/ Killed \/ ByHand
  BY <1>3 DEF Refused, Finished, Killed, ByHand, SteadyInv
<1>4. CASE UNCHANGED rvars
  BY <1>4 DEF rvars, vars, SteadyInv, AtRecipe, Installed
<1>5. CASE EditByHand
  BY <1>5 DEF EditByHand, Edit, SteadyInv, AtRecipe, Installed
<1> QED
  BY <1>1, <1>2, <1>3, <1>4, <1>5 DEF RNext, Run

THEOREM SteadyInvariant == RSpec => []SteadyInv
<1>1. RInit => SteadyInv
  BY DEF RInit, SteadyInv
<1> QED
  BY <1>1, SteadyStep, QueueInvariant, PTL DEF RSpec

\* When the next artifact lacks an ABI, that is for a dependency which is still
\* in the queue and sorts after it, or is not installed at all.
LEMMA ForemostLacksAbi ==
  ASSUME QueueInv, SteadyInv, running, steady,
         NEW n \in queue, Foremost(n), NeedsAbi(Recipes[n])
  PROVE  Misplaced(n) \/ RefusedOtherwise(Recipes[n])
<1>1. PICK d \in Name : /\ Recipes[n].dependencies[d] # None
                        /\ d \in Installed => packages[d].abi # Recipes[n].dependencies[d]
  BY DEF NeedsAbi
<1>2. n \in Name /\ Recipes[n] # None /\ Recipes[n] \in Catalog /\ Recipes[n].name = n
  BY RecipeIsArchive DEF QueueInv
<1>3. CASE d \in Installed
  <2>1. Recipes[d].abi = Recipes[n].dependencies[d] /\ Recipes[d] # None
    BY <1>1, <1>2, RecipeAssumption
  <2>2. d \in queue
    BY <1>1, <1>3, <2>1 DEF SteadyInv, AtRecipe
  <2>3. d # n
    BY <1>1, <1>2, CatalogAssumption
  <2>4. Rank[n] < Rank[d]
    <3>1. Rank[n] \in Nat /\ Rank[d] \in Nat /\ Rank[n] # Rank[d]
      BY <1>2, <2>3, RecipeAssumption
    <3>2. Rank[n] <= Rank[d]
      BY <2>2 DEF Foremost
    <3> QED
      BY <3>1, <3>2
  <2> QED
    BY <1>1, <2>2, <2>4 DEF Misplaced
<1>4. CASE d \notin Installed
  BY <1>1, <1>4 DEF RefusedOtherwise
<1> QED
  BY <1>3, <1>4

\* docs/status.md:63-64. A rebuild that starts with all that is not queued at
\* its recipe's ABI, and is not interrupted, brings every package there, or is
\* refused over an artifact out of order or for something other than an ABI.
THEOREM SteadyRebuildsComplete == RSpec => SteadyRebuildCompletes
<1> DEFINE Ended ==
      \/ kills' # kills
      \/ \A n \in Installed : AtRecipe(n)
      \/ \E n \in queue : Foremost(n) /\ (Misplaced(n) \/ RefusedOtherwise(Recipes[n]))
<1>1. ASSUME QueueInv, SteadyInv, [RNext]_rvars, running, ~running', steady
      PROVE  Ended
  <2>1. CASE Killed
    BY <1>1, <2>1 DEF Killed, QueueInv
  <2>2. CASE Finished
    BY <1>1, <2>2 DEF Finished, SteadyInv
  <2>3. CASE Refused
    <3>1. PICK n \in queue : Foremost(n) /\ ~Accepts(Recipes[n], TRUE)
      BY <2>3 DEF Refused
    <3>2. NeedsAbi(Recipes[n]) \/ RefusedOtherwise(Recipes[n])
      BY <3>1 DEF Accepts, RefusedOtherwise
    <3>3. Misplaced(n) \/ RefusedOtherwise(Recipes[n])
      BY <1>1, <3>1, <3>2, ForemostLacksAbi
    <3> QED
      BY <3>1, <3>3
  <2>4. Killed \/ Finished \/ Refused
    BY <1>1 DEF RNext, Run, Start, InstallOne, ByHand, EditByHand, rvars
  <2> QED
    BY <2>1, <2>2, <2>3, <2>4
<1>2. QueueInv /\ SteadyInv /\ [RNext]_rvars => (running /\ ~running' /\ steady => Ended)
  BY <1>1
<1> QED
  BY <1>2, QueueInvariant, SteadyInvariant, PTL DEF RSpec, SteadyRebuildCompletes
=============================================================================
