------------------------------ MODULE Rebuild -------------------------------
(***************************************************************************)
(* `vfos pkg rebuild' (vfos/cli.py:184-193) at work on the package         *)
(* database of PackageDb: it reads the queue, builds every queued recipe,  *)
(* and then installs the results one by one, taking and releasing the      *)
(* flock each time.  Other vfos commands and the administrator's editor    *)
(* run in between, and the process can fail or be killed at any point.     *)
(***************************************************************************)
EXTENDS PackageDb

CONSTANTS
  Recipes,    \* the archive each recipe builds to, or None without a recipe
  Rank,       \* the alphabetical order of names, which the queue is sorted by
  Stock,      \* archives the administrator installs or upgrades to by hand
  MaxHand,    \* bound on what he does by hand
  MaxKills    \* bound on failures and deaths of rebuild

\* Builder.one records for each dependency the ABI its recipe has now.
ASSUME RecipeAssumption ==
  /\ Recipes \in [Name -> Catalog \cup {None}] /\ None \notin Catalog
  /\ \A n \in Name : Recipes[n] # None =>
       /\ Recipes[n].name = n
       /\ \A d \in Name : Recipes[n].dependencies[d] # None =>
            Recipes[d] # None /\ Recipes[d].abi = Recipes[n].dependencies[d]
  /\ Rank \in [Name -> Nat] /\ \A n, m \in Name : Rank[n] = Rank[m] => n = m
  /\ Stock \subseteq Catalog
  /\ MaxHand \in Nat /\ MaxKills \in Nat

VARIABLES
  running,    \* is a rebuild installing its artifacts?
  queue,      \* the names it has still to install
  steady,     \* history: did it start UpToDate, and no other command run since?
  hand,       \* commands the administrator has run
  kills       \* failures and deaths so far

rvars == <<vars, running, queue, steady, hand, kills>>

AtRecipe(n) == Recipes[n] # None /\ packages[n].abi = Recipes[n].abi

\* Nobody has gone back to an archive older than its recipe, or hand-installed
\* one, outside the queue.
UpToDate == \A n \in Installed \ rebuild : AtRecipe(n)

RInit ==
  /\ Init
  /\ running = FALSE /\ queue = {} /\ steady = FALSE /\ hand = 0 /\ kills = 0

\* query()["rebuild"], then builder.build(names): a missing recipe raises.
Start ==
  /\ ~running /\ rebuild # {}
  /\ \A n \in rebuild : Recipes[n] # None
  /\ running' = TRUE /\ queue' = rebuild /\ steady' = UpToDate
  /\ UNCHANGED <<vars, hand, kills>>

\* The names of the queue are installed in alphabetical order.
Foremost_Any(n) == n \in queue
Foremost(n) == n \in queue /\ \A m \in queue : Rank[n] <= Rank[m]

\* Database(a.root).install(package, upgrade=True)
InstallOne ==
  /\ running
  /\ \E n \in queue :
       /\ Foremost(n)
       /\ Install(Recipes[n], TRUE)
       /\ queue' = queue \ {n}
  /\ UNCHANGED <<running, steady, hand, kills>>

\* install() raises: the rest of the queue is given up.
Refused ==
  /\ running
  /\ \E n \in queue : Foremost(n) /\ ~Accepts(Recipes[n], TRUE)
  /\ running' = FALSE /\ queue' = {} /\ steady' = FALSE
  /\ UNCHANGED <<vars, hand, kills>>

Finished ==
  /\ running /\ queue = {}
  /\ running' = FALSE /\ steady' = FALSE
  /\ UNCHANGED <<vars, queue, hand, kills>>

\* The process is killed, or something outside the database fails.
Killed ==
  /\ running /\ kills < MaxKills
  /\ running' = FALSE /\ queue' = {} /\ steady' = FALSE /\ kills' = kills + 1
  /\ UNCHANGED <<vars, hand>>

\* vfos pkg install, upgrade or remove from another console.
ByHand ==
  /\ hand < MaxHand /\ hand' = hand + 1 /\ steady' = FALSE
  /\ \/ \E m \in Stock, upgrade \in BOOLEAN : Install(m, upgrade)
     \/ \E n \in Name : Remove(n)
  /\ UNCHANGED <<running, queue, kills>>

\* The administrator edits a file while a rebuild builds or waits for the flock.
EditByHand ==
  /\ \E q \in Path : Edit(q)
  /\ UNCHANGED <<running, queue, steady, hand, kills>>

Run == Start \/ InstallOne \/ Refused \/ Finished

RNext == Run \/ Killed \/ ByHand \/ EditByHand

RSpec == RInit /\ [][RNext]_rvars

\* Somebody keeps running `vfos pkg rebuild' while there is a queue, and a
\* rebuild that runs goes on.
RFairSpec == RSpec /\ WF_rvars(Run)
-----------------------------------------------------------------------------
\* The artifact to install next needs one that sorts, and so comes, after it.
Misplaced(n) == \E d \in queue : Recipes[n].dependencies[d] # None /\ Rank[n] < Rank[d]

\* Why install() may refuse an artifact other than over the ABI of a dependency.
RefusedOtherwise(m) ==
  \/ MixesCpu(m) \/ Conflicts(m) \/ CandidateInTheWay(m) \/ NamesDirectory(InstallGoal(m))
  \/ \E d \in Name \ Installed : m.dependencies[d] # None

\* docs/status.md:63-64, cli.py:190-193. A rebuild that starts when everything
\* not queued is at its recipe's ABI, and that no other command interrupts, ends
\* with every installed package there, unless it is killed, or the next artifact
\* comes before one it needs, or install() refuses it over something else.
SteadyRebuildCompletes ==
  [][ running /\ ~running' /\ steady =>
        \/ kills' # kills
        \/ \A n \in Installed : AtRecipe(n)
        \/ \E n \in queue : Foremost(n) /\ (Misplaced(n) \/ RefusedOtherwise(Recipes[n])) ]_rvars

\* What is not queued is at its recipe's ABI, and only ABIs can stand in the way
\* of what is queued.
Unhindered ==
  /\ UpToDate
  /\ \A n \in rebuild : Recipes[n] # None /\ ~RefusedOtherwise(Recipes[n])

\* docs/status.md:63-64. "Currently upgrades persist a rebuild queue and `pkg
\* rebuild` processes it": once it stays Unhindered the queue gets empty, in spite
\* of rebuilds that failed or were killed and of edits kept on the way.
QueueDrains == <>[]Unhindered => <>[](rebuild = {})
=============================================================================
