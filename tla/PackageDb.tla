------------------------------ MODULE PackageDb -----------------------------
(***************************************************************************)
(* Database.install, remove and verify of vfos/packages.py on one target   *)
(* root, and the administrator who edits files between them.  Each         *)
(* operation holds the flock throughout and ends in one transaction, which *)
(* Transactions shows to be indivisible, so each is one step here.         *)
(***************************************************************************)
EXTENDS Payload, Naturals

CONSTANTS
  Name,       \* package names
  Abi,        \* ABI identifiers
  Cpu,        \* CPU profiles
  Catalog,    \* the archives that exist: several versions of several packages
  Config,     \* the paths below etc/
  NewOf,      \* the .vfos-new path of a path below etc/ that has one
  MaxEdits    \* bound on the administrator's edits in one behaviour

\* A manifest: dependencies name an ABI each, None where there is none.
Manifests == [name : Name, cpu : Cpu, abi : Abi, dependencies : [Name -> Abi \cup {None}],
              files : Databases]

\* What packages.json records of an installed package.
Entries == [abi : Abi, cpu : Cpu, dependencies : [Name -> Abi \cup {None}], files : Databases]

\* No archive ships a .vfos-new file, names its own package as a dependency
\* (recipes.plan refuses the cycle), and no candidate has a candidate.
ASSUME CatalogAssumption ==
  /\ Catalog \subseteq Manifests
  /\ \A m \in Catalog : m.dependencies[m.name] = None
  /\ None \notin Abi /\ None \notin Cpu /\ None \notin Entries
  /\ Config \subseteq Path
  /\ DOMAIN NewOf \subseteq Config
  /\ \A q \in DOMAIN NewOf : NewOf[q] \in Config \ DOMAIN NewOf
  /\ \A q, r \in DOMAIN NewOf : NewOf[q] = NewOf[r] => q = r
  /\ \A m \in Catalog, q \in Config : m.files[q] # Absent => q \in DOMAIN NewOf
  /\ MaxEdits \in Nat

VARIABLES
  tree,       \* what is at each path of the target root
  cpu,        \* data["cpu"], or None
  packages,   \* data["packages"]: the entry of each name, or None
  rebuild,    \* data["rebuild"], kept sorted by the code: a set
  edited,     \* history: paths the administrator changed since vfos last did
  edits       \* edits so far

vars == <<tree, cpu, packages, rebuild, edited, edits>>

TypeOK ==
  /\ tree \in [Path -> Whole]
  /\ cpu \in Cpu \cup {None}
  /\ packages \in [Name -> Entries \cup {None}]
  /\ rebuild \subseteq Name
  /\ edited \subseteq Path
  /\ edits \in 0..MaxEdits

\* A target root that may hold files vfos did not put there.
Init ==
  /\ edited \in SUBSET Path
  /\ tree \in [Path -> Whole]
  /\ \A q \in Path : q \notin edited <=> tree[q] = Absent
  /\ cpu = None
  /\ packages = [n \in Name |-> None]
  /\ rebuild = {}
  /\ edits = 0
-----------------------------------------------------------------------------
Installed == {n \in Name : packages[n] # None}

Owners(q) == {n \in Installed : packages[n].files[q] # Absent}

Exists(q) == tree[q] # Absent

\* The files old["files"] of the installed version of m, if there is one.
OldFiles(m) ==
  IF m.name \in Installed THEN packages[m.name].files ELSE [q \in Path |-> Absent]

Shipped(m) == {q \in Path : m.files[q] # Absent}

\* Installed configuration the administrator changed: it is left as it is.
Retained(m) ==
  {q \in Shipped(m) \cap Config :
     OldFiles(m)[q] # Absent /\ Exists(q) /\ tree[q] # OldFiles(m)[q]}

\* Of that, what the new version ships a new default for.
Renewed(m) == {q \in Retained(m) : m.files[q] # OldFiles(m)[q]}

Candidates(m) == {NewOf[q] : q \in Renewed(m)}

\* The files entry of the database: the old baseline for what is retained, and
\* the new default under its candidate name.
Baseline_AsFound(m) ==
  [q \in Path |-> IF q \in Retained(m) THEN tree[q] ELSE m.files[q]]
Baseline(m) ==
  [q \in Path |-> IF q \in Retained(m) THEN OldFiles(m)[q]
                  ELSE IF q \in Candidates(m)
                  THEN m.files[CHOOSE r \in Renewed(m) : NewOf[r] = q]
                  ELSE m.files[q]]

Writes(m) == (Shipped(m) \ Retained(m)) \cup Candidates(m)

\* Files the new version no longer has. Edited configuration stays.
Gone(m) == {q \in Path : OldFiles(m)[q] # Absent /\ Baseline(m)[q] = Absent}

Dropped_Never(m) == {q \in Retained(m) : ~Exists(q)}
Dropped(m) == {q \in Gone(m) : q \in Config => tree[q] = OldFiles(m)[q]}

\* The transaction of an install or upgrade.
InstallGoal(m) ==
  [q \in Path |-> CASE q \in Writes(m)            -> Baseline(m)[q]
                    [] q \in Dropped(m)           -> Absent
                    [] q \in Gone(m) \ Dropped(m) -> Forget
                    [] OTHER                      -> Keep]
-----------------------------------------------------------------------------
\* Why install() raises before its first write.
MixesCpu_Unchecked(m) == m \notin Catalog
MixesCpu(m) == cpu \notin {None, m.cpu}

NeedsAbi(m) ==
  \E d \in Name : /\ m.dependencies[d] # None
                  /\ d \in Installed => packages[d].abi # m.dependencies[d]

Conflicts_OwnedOnly(m) == \E q \in Shipped(m) : Owners(q) \ {m.name} # {}
Conflicts_UnownedOnly(m) == \E q \in Shipped(m) : Owners(q) = {} /\ Exists(q)
Conflicts(m) ==
  \E q \in Shipped(m) : \/ Owners(q) \ {m.name} # {}
                        \/ Owners(q) = {} /\ Exists(q)

CandidateInTheWay(m) ==
  \E q \in Candidates(m) : Exists(q) \/ Owners(q) # {} \/ m.files[q] # Absent

NamesDirectory(goal) == \E q \in Touched(goal) : tree[q] = Dir

\* Everything that depends on n, directly or not: the loop of install() ends
\* with the least set that holds n and the dependents of its members.
DependsInto(m, S) == \E d \in S : packages[m].dependencies[d] # None

Affected(n) ==
  {m \in Installed :
     \A S \in SUBSET Installed :
       n \in S /\ (\A k \in Installed : DependsInto(k, S) => k \in S) => m \in S}

\* What is queued for `vfos pkg rebuild' afterwards.
Requeued_Only(m) == rebuild \ {m.name}
Requeued_Kept(m) == rebuild \cup (IF m.name \in Installed THEN {m.name} ELSE {})
Requeued(m) ==
  (rebuild \ {m.name}) \cup
    (IF m.name \in Installed /\ packages[m.name].abi # m.abi
     THEN Affected(m.name) \ {m.name} ELSE {})

Accepts(m, upgrade) ==
  /\ ~MixesCpu(m)
  /\ m.name \in Installed => upgrade
  /\ ~NeedsAbi(m) /\ ~Conflicts(m) /\ ~CandidateInTheWay(m)
  /\ ~NamesDirectory(InstallGoal(m))

\* install(package, upgrade).
Install(m, upgrade) ==
  /\ Accepts(m, upgrade)
  /\ tree' = Overlay(InstallGoal(m), tree)
  /\ cpu' = m.cpu
  /\ packages' = [packages EXCEPT ![m.name] =
       [abi |-> m.abi, cpu |-> m.cpu, dependencies |-> m.dependencies, files |-> Baseline(m)]]
  /\ rebuild' = Requeued(m)
  /\ edited' = edited \ Touched(InstallGoal(m))
  /\ UNCHANGED edits

\* remove(name): edited configuration stays, other files go even if edited.
RemoveGoal(n) ==
  [q \in Path |-> IF packages[n].files[q] = Absent THEN Keep
                  ELSE IF q \in Config /\ tree[q] # packages[n].files[q] THEN Forget
                  ELSE Absent]

Required(n) == \E m \in Installed : packages[m].dependencies[n] # None

Remove(n) ==
  /\ n \in Installed /\ ~Required(n)
  /\ ~NamesDirectory(RemoveGoal(n))
  /\ tree' = Overlay(RemoveGoal(n), tree)
  /\ packages' = [packages EXCEPT ![n] = None]
  /\ rebuild' = rebuild \ {n}
  /\ edited' = edited \ Touched(RemoveGoal(n))
  /\ UNCHANGED <<cpu, edits>>

\* The administrator writes, deletes or replaces a path while vfos is not at it.
Edit(q) ==
  /\ edits < MaxEdits
  /\ \E v \in Whole \ {tree[q]} : tree' = [tree EXCEPT ![q] = v]
  /\ edited' = edited \cup {q}
  /\ edits' = edits + 1
  /\ UNCHANGED <<cpu, packages, rebuild>>

Operate ==
  \/ \E m \in Catalog, upgrade \in BOOLEAN : Install(m, upgrade)
  \/ \E n \in Name : Remove(n)

Next == Operate \/ \E q \in Path : Edit(q)

Spec == Init /\ [][Next]_vars
-----------------------------------------------------------------------------
\* verify(strict=True): owned paths that differ from the database, and files
\* that belong to no package.
Mismatched == {q \in Path : \E n \in Owners(q) : tree[q] # packages[n].files[q]}

Unowned == {q \in Path : tree[q] \notin {Absent, Dir} /\ Owners(q) = {}}

\* packages.py:247-256. The owners dictionary keeps one name per path, so every
\* later conflict check is right only while no two packages own a path, the
\* candidates that upgrades add included.
OneOwner ==
  \A q \in Path : \A n, m \in Owners(q) : n = m

\* packages.py:303-320. Strict verification accuses only what the administrator
\* really touched: after any sequence of operations the tree is otherwise
\* exactly what the database says.
VerifyBlamesEdits == Mismatched \cup Unowned \subseteq edited

\* packages.py:244-246, 277-285, 293-295. Whatever is upgraded or removed in
\* whatever order, each dependency of an installed package is installed, and at
\* the ABI it was built for unless the package is queued for a rebuild.
MismatchIsQueued ==
  /\ rebuild \subseteq Installed
  /\ \A n \in Installed, d \in Name :
       packages[n].dependencies[d] # None =>
         /\ d \in Installed
         /\ packages[d].abi # packages[n].dependencies[d] => n \in rebuild

\* packages.py:238-239, 275. One system never mixes CPU profiles.
OneCpu == \A n \in Installed : packages[n].cpu = cpu

\* docs/packages.md:45-48, packages.py:255-272, 297. No operation overwrites or
\* deletes a file that belongs to no package, or configuration that differs
\* from the baseline its package recorded.
EditsSurvive ==
  [][ Operate =>
        \A q \in Path : Exists(q) /\ tree'[q] # tree[q] =>
          \E n \in Owners(q) : q \in Config => tree[q] = packages[n].files[q] ]_vars

\* The files of data["packages"] as one map: the database of AtomicTree.
RecordedFiles ==
  [q \in Path |-> IF Owners(q) = {} THEN Absent
                  ELSE packages[CHOOSE n \in Owners(q) : TRUE].files[q]]

Transaction == INSTANCE AtomicTree WITH db <- RecordedFiles

\* packages.py:286, 301. What an operation does to the payload and to what all
\* packages together record of it is one transaction of AtomicTree: the writes,
\* deletes and data that it hands to transaction() agree path by path.
OperationsAreTransactions == [][Operate => Transaction!Transact]_vars

\* docs/packages.md:46-48. "An upgrade's new default goes to .vfos-new; resolve
\* an existing candidate before the next changed default": an upgrade is refused
\* over a candidate only while there is one to resolve.
RefusalHasCandidate ==
  \A m \in Catalog : CandidateInTheWay(m) => \E q \in Candidates(m) : Exists(q)
=============================================================================
