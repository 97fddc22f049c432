--------------------------- MODULE PackageDbProof ---------------------------
(***************************************************************************)
(* Proofs about PackageDb, for every catalog of archives and any number of *)
(* edits.  OneOwner, VerifyBlamesEdits and MismatchIsQueued hold together: *)
(* what verify reports is exact only while a path has one owner.           *)
(***************************************************************************)
EXTENDS PackageDb, TLAPS

IInv == TypeOK /\ OneOwner /\ VerifyBlamesEdits /\ MismatchIsQueued

\* The database entry of an archive.
Entry(m) ==
  [abi |-> m.abi, cpu |-> m.cpu, dependencies |-> m.dependencies, files |-> Baseline(m)]
-----------------------------------------------------------------------------
\* What a transaction leaves at each path, and records of it.
LEMMA GoalEffect ==
  ASSUME NEW g \in Goals, NEW f, NEW q \in Path
  PROVE  /\ q \in Touched(g) <=> g[q] \in Content \cup {Absent}
         /\ Overlay(g, f)[q] = IF q \in Touched(g) THEN g[q] ELSE f[q]
         /\ Registered(g, f)[q] = IF g[q] = Forget THEN Absent
                                  ELSE IF q \in Touched(g) THEN g[q] ELSE f[q]
BY MarkersDistinct DEF Goals, Touched, Overlay, Registered

LEMMA ManifestType ==
  ASSUME NEW m \in Catalog
  PROVE  /\ m.name \in Name /\ m.cpu \in Cpu /\ m.abi \in Abi
         /\ m.dependencies \in [Name -> Abi \cup {None}]
         /\ m.files \in [Path -> Content \cup {Absent}]
BY CatalogAssumption DEF Manifests, Databases

LEMMA OldFilesType ==
  ASSUME TypeOK, NEW m \in Catalog
  PROVE  OldFiles(m) \in [Path -> Content \cup {Absent}]
BY ManifestType DEF OldFiles, TypeOK, Installed, Entries, Databases

\* The default a candidate file holds.
LEMMA CandidateContent ==
  ASSUME TypeOK, NEW m \in Catalog, NEW q \in Candidates(m)
  PROVE  m.files[CHOOSE r \in Renewed(m) : NewOf[r] = q] \in Content
<1>1. \E r \in Renewed(m) : NewOf[r] = q
  BY DEF Candidates
<1>2. (CHOOSE r \in Renewed(m) : NewOf[r] = q) \in Renewed(m)
  BY <1>1
<1> QED
  BY <1>2, ManifestType DEF Renewed, Retained, Shipped

LEMMA BaselineType ==
  ASSUME TypeOK, NEW m \in Catalog
  PROVE  /\ Baseline(m) \in [Path -> Content \cup {Absent}]
         /\ \A q \in Writes(m) : Baseline(m)[q] \in Content /\ q \in Path
         /\ \A q \in Path : Baseline(m)[q] # Absent => q \in Shipped(m) \cup Candidates(m)
<1>1. \A q \in Candidates(m) : q \in Path /\ q \notin Retained(m)
  <2>1. \A r \in Retained(m) : r \in DOMAIN NewOf
    BY CatalogAssumption DEF Retained, Shipped
  <2>2. \A r \in Renewed(m) : NewOf[r] \in Config \ DOMAIN NewOf
    BY <2>1, CatalogAssumption DEF Renewed
  <2> QED
    BY <2>1, <2>2, CatalogAssumption DEF Candidates
<1>2. \A q \in Path : Baseline(m)[q] \in Content \cup {Absent}
  BY CandidateContent, OldFilesType, ManifestType DEF Baseline
<1>3. \A q \in Writes(m) : Baseline(m)[q] \in Content /\ q \in Path
  <2>1. \A q \in Candidates(m) : Baseline(m)[q] \in Content
    BY <1>1, CandidateContent DEF Baseline
  <2>2. \A q \in Shipped(m) \ Retained(m) : q \notin Candidates(m) => Baseline(m)[q] \in Content
    BY ManifestType DEF Baseline, Shipped
  <2> QED
    BY <1>1, <2>1, <2>2 DEF Writes, Shipped
<1>4. \A q \in Path : Baseline(m)[q] # Absent => q \in Shipped(m) \cup Candidates(m)
  BY DEF Baseline, Retained, Shipped
<1> QED
  BY <1>2, <1>3, <1>4 DEF Baseline

\* The paths of an installation: what it writes it has a baseline for.
LEMMA InstallGoalAt ==
  ASSUME TypeOK, NEW m \in Catalog, NEW q \in Path
  PROVE  /\ q \in Writes(m) => InstallGoal(m)[q] = Baseline(m)[q] /\ Baseline(m)[q] \in Content
         /\ q \in Dropped(m) => InstallGoal(m)[q] = Absent
         /\ q \in Gone(m) \ Dropped(m) => InstallGoal(m)[q] = Forget
         /\ q \notin Writes(m) \cup Gone(m) => InstallGoal(m)[q] = Keep
<1>1. q \in Writes(m) => q \notin Gone(m)
  BY BaselineType, MarkersDistinct DEF Gone
<1>2. Dropped(m) \subseteq Gone(m)
  BY DEF Dropped
<1> QED
  BY <1>1, <1>2, BaselineType DEF InstallGoal

\* What an installation does to each path.
LEMMA InstallGoalEffect ==
  ASSUME TypeOK, NEW m \in Catalog, NEW q \in Path
  PROVE  /\ InstallGoal(m) \in Goals
         /\ q \in Touched(InstallGoal(m)) <=> q \in Writes(m) \cup Dropped(m)
         /\ Overlay(InstallGoal(m), tree)[q] =
              IF q \in Writes(m) THEN Baseline(m)[q]
              ELSE IF q \in Dropped(m) THEN Absent ELSE tree[q]
<1>1. InstallGoal(m) \in Goals
  <2>1. \A r \in Path : InstallGoal(m)[r] \in Content \cup {Absent, Keep, Forget}
    BY InstallGoalAt
  <2> QED
    BY <2>1 DEF InstallGoal, Goals
<1>2. q \in Touched(InstallGoal(m)) <=> q \in Writes(m) \cup Dropped(m)
  BY <1>1, InstallGoalAt, GoalEffect, MarkersDistinct DEF Dropped
<1> QED
  BY <1>1, <1>2, InstallGoalAt, GoalEffect, BaselineType DEF Dropped, Gone

\* An installation leaves alone the baseline of every other path it records.
LEMMA BaselineUnwritten ==
  ASSUME TypeOK, NEW m \in Catalog, NEW q \in Path, q \notin Writes(m), Baseline(m)[q] # Absent
  PROVE  q \in Retained(m)
BY BaselineType DEF Writes

\* What a removal does to each path.
LEMMA RemoveGoalEffect ==
  ASSUME TypeOK, NEW n \in Installed, NEW q \in Path
  PROVE  /\ RemoveGoal(n) \in Goals
         /\ q \in Touched(RemoveGoal(n)) <=>
              packages[n].files[q] # Absent /\ (q \in Config => tree[q] = packages[n].files[q])
         /\ Overlay(RemoveGoal(n), tree)[q] =
              IF q \in Touched(RemoveGoal(n)) THEN Absent ELSE tree[q]
         /\ RemoveGoal(n)[q] = Forget <=>
              packages[n].files[q] # Absent /\ q \notin Touched(RemoveGoal(n))
<1>1. RemoveGoal(n) \in Goals
  BY DEF RemoveGoal, Goals
<1> QED
  BY <1>1, GoalEffect, MarkersDistinct DEF RemoveGoal

LEMMA TypeStep == ASSUME TypeOK, [Next]_vars PROVE TypeOK'
<1>1. ASSUME NEW m \in Catalog, NEW upgrade \in BOOLEAN, Install(m, upgrade) PROVE TypeOK'
  <2>1. tree' \in [Path -> Whole]
    <3>1. \A q \in Path : tree'[q] \in Whole
      BY <1>1, InstallGoalEffect, BaselineType DEF Install, TypeOK, Whole
    <3> QED
      BY <1>1, <3>1 DEF Install, Overlay
  <2>2. Entry(m) \in Entries
    BY ManifestType, BaselineType DEF Entry, Entries, Databases
  <2>3. packages' \in [Name -> Entries \cup {None}]
    BY <1>1, <2>2, ManifestType DEF Install, Entry, TypeOK
  <2>4. rebuild' \subseteq Name
    BY <1>1 DEF Install, Requeued, Affected, Installed, TypeOK
  <2> QED
    BY <1>1, <2>1, <2>3, <2>4, ManifestType DEF Install, TypeOK
<1>2. ASSUME NEW n \in Name, Remove(n) PROVE TypeOK'
  <2>1. tree' \in [Path -> Whole]
    <3>1. \A q \in Path : tree'[q] \in Whole
      BY <1>2, RemoveGoalEffect DEF Remove, TypeOK, Whole
    <3> QED
      BY <1>2, <3>1 DEF Remove, Overlay
  <2> QED
    BY <1>2, <2>1 DEF Remove, TypeOK
<1>3. ASSUME NEW q \in Path, Edit(q) PROVE TypeOK'
  BY <1>3, CatalogAssumption DEF Edit, TypeOK
<1>4. CASE UNCHANGED vars
  BY <1>4 DEF vars, TypeOK
<1> QED
  BY <1>1, <1>2, <1>3, <1>4 DEF Next, Operate

\* Every state is well typed, for every catalog.
THEOREM TypeCorrect == Spec => []TypeOK
<1>1. Init => TypeOK
  BY CatalogAssumption DEF Init, TypeOK
<1> QED
  BY <1>1, TypeStep, PTL DEF Spec
-----------------------------------------------------------------------------
\* What an installation that no check refused may rely on.
LEMMA Unrefused ==
  ASSUME IInv, NEW m \in Catalog, NEW upgrade \in BOOLEAN, Install(m, upgrade)
  PROVE  /\ \A q \in Shipped(m) : Owners(q) \subseteq {m.name}
         /\ \A q \in Shipped(m) : Owners(q) = {} => ~Exists(q)
         /\ \A q \in Candidates(m) : Owners(q) = {} /\ ~Exists(q)
BY DEF Install, Accepts, Conflicts, CandidateInTheWay

LEMMA EntryFields ==
  ASSUME NEW m
  PROVE  /\ Entry(m).abi = m.abi /\ Entry(m).dependencies = m.dependencies
         /\ Entry(m).files = Baseline(m)
BY DEF Entry

LEMMA InstallPackages ==
  ASSUME TypeOK, NEW m \in Catalog, NEW upgrade \in BOOLEAN, Install(m, upgrade)
  PROVE  /\ Installed' = Installed \cup {m.name}
         /\ packages'[m.name] = Entry(m)
         /\ \A n \in Name \ {m.name} : packages'[n] = packages[n]
<1>1. /\ packages'[m.name] = Entry(m)
      /\ \A n \in Name \ {m.name} : packages'[n] = packages[n]
  BY ManifestType DEF Install, Entry, TypeOK
<1>2. Entry(m) # None
  BY CatalogAssumption, ManifestType, BaselineType DEF Entry, Entries, Databases
<1> QED
  BY <1>1, <1>2, ManifestType DEF Installed

\* Afterwards the package owns exactly what its entry names, and nobody lost or
\* gained anything else.
LEMMA OwnersAfterInstall ==
  ASSUME IInv, NEW m \in Catalog, NEW upgrade \in BOOLEAN, Install(m, upgrade),
         NEW q \in Path
  PROVE  Owners(q)' = IF Baseline(m)[q] # Absent THEN {m.name} ELSE Owners(q) \ {m.name}
<1>1. /\ Installed' = Installed \cup {m.name}
      /\ packages'[m.name].files = Baseline(m)
      /\ \A n \in Name \ {m.name} : packages'[n] = packages[n]
  BY InstallPackages, EntryFields DEF IInv
<1>2. Owners(q)' = (Owners(q) \ {m.name}) \cup (IF Baseline(m)[q] # Absent THEN {m.name} ELSE {})
  BY <1>1, ManifestType DEF Owners, Installed
<1>3. Baseline(m)[q] # Absent => Owners(q) \subseteq {m.name}
  BY Unrefused, BaselineType DEF IInv
<1> QED
  BY <1>2, <1>3

LEMMA OldFilesOwned ==
  ASSUME OneOwner, NEW m \in Catalog, NEW q \in Path, OldFiles(m)[q] # Absent
  PROVE  /\ Owners(q) = {m.name}
         /\ OldFiles(m) = packages[m.name].files
BY ManifestType DEF OneOwner, Owners, OldFiles, Installed

LEMMA InstallStep ==
  ASSUME IInv, NEW m \in Catalog, NEW upgrade \in BOOLEAN, Install(m, upgrade)
  PROVE  OneOwner' /\ VerifyBlamesEdits' /\ MismatchIsQueued'
<1>1. OneOwner'
  BY OwnersAfterInstall DEF OneOwner, IInv
<1>2. VerifyBlamesEdits'
  <2> SUFFICES ASSUME NEW q \in Path, q \in Mismatched' \cup Unowned'
               PROVE  q \in edited'
    BY DEF VerifyBlamesEdits, Mismatched, Unowned
  <2>1. /\ edited' = edited \ Touched(InstallGoal(m))
        /\ tree' = Overlay(InstallGoal(m), tree)
    BY DEF Install
  <2>2. packages'[m.name].files = Baseline(m)
    BY InstallPackages, EntryFields DEF IInv
  <2>3. CASE q \in Writes(m)
    <3>1. tree'[q] = Baseline(m)[q] /\ Baseline(m)[q] # Absent
      BY <2>1, <2>3, InstallGoalEffect, BaselineType, MarkersDistinct DEF IInv
    <3>2. Owners(q)' = {m.name}
      BY <3>1, OwnersAfterInstall
    <3> QED
      BY <2>2, <3>1, <3>2 DEF Mismatched, Unowned
  <2>4. CASE q \notin Writes(m) /\ q \in Dropped(m)
    <3>1. tree'[q] = Absent /\ Baseline(m)[q] = Absent
      BY <2>1, <2>4, InstallGoalEffect, BaselineType DEF IInv, Dropped, Gone
    <3>2. Owners(q)' = {}
      BY <2>4, <3>1, OwnersAfterInstall, OldFilesOwned DEF Dropped, Gone, IInv
    <3> QED
      BY <3>1, <3>2 DEF Mismatched, Unowned
  <2>5. CASE q \notin Writes(m) /\ q \notin Dropped(m)
    <3>1. tree'[q] = tree[q] /\ (q \in edited => q \in edited')
      BY <2>1, <2>5, InstallGoalEffect DEF IInv
    <3>2. CASE Baseline(m)[q] # Absent
      <4>1. q \in Retained(m)
        BY <2>5, <3>2, BaselineUnwritten DEF IInv
      <4>2. Owners(q) = {m.name} /\ tree[q] # packages[m.name].files[q]
        BY <4>1, OldFilesOwned DEF Retained, IInv
      <4> QED
        BY <3>1, <4>2 DEF IInv, VerifyBlamesEdits, Mismatched
    <3>3. CASE Baseline(m)[q] = Absent
      <4>1. Owners(q)' = Owners(q) \ {m.name}
        BY <3>3, OwnersAfterInstall
      <4>2. CASE m.name \in Owners(q)
        <5>1. OldFiles(m)[q] # Absent
          BY <4>2 DEF OldFiles, Owners
        <5>2. tree[q] # OldFiles(m)[q] /\ OldFiles(m) = packages[m.name].files
          BY <2>5, <3>3, <5>1, OldFilesOwned DEF Dropped, Gone, IInv
        <5> QED
          BY <3>1, <4>2, <5>2 DEF IInv, VerifyBlamesEdits, Mismatched
      <4>3. CASE m.name \notin Owners(q)
        <5>1. \A n \in Owners(q) : packages'[n] = packages[n]
          BY <4>3, InstallPackages DEF Owners, Installed, IInv
        <5> QED
          BY <3>1, <4>1, <4>3, <5>1 DEF IInv, VerifyBlamesEdits, Mismatched, Unowned
      <4> QED
        BY <4>2, <4>3
    <3> QED
      BY <3>2, <3>3
  <2> QED
    BY <2>3, <2>4, <2>5
<1>3. MismatchIsQueued'
  <2>1. /\ Installed' = Installed \cup {m.name}
        /\ packages'[m.name] = Entry(m)
        /\ \A n \in Name \ {m.name} : packages'[n] = packages[n]
        /\ rebuild' = Requeued(m)
    BY InstallPackages DEF IInv, Install
  <2>2. rebuild' \subseteq Installed'
    BY <2>1 DEF Requeued, Affected, IInv, MismatchIsQueued
  <2>3. ASSUME NEW d \in Name, m.dependencies[d] # None
        PROVE  d \in Installed /\ d # m.name /\ packages[d].abi = m.dependencies[d]
    BY <2>3, CatalogAssumption DEF Install, Accepts, NeedsAbi
  <2>4. ASSUME NEW n \in Installed, n # m.name, NEW d \in Name,
               packages[n].dependencies[d] # None
        PROVE  /\ d \in Installed
               /\ packages'[d].abi # packages[n].dependencies[d] => n \in rebuild'
    <3>1. /\ d \in Installed
          /\ packages[d].abi # packages[n].dependencies[d] => n \in rebuild
      BY <2>4 DEF IInv, MismatchIsQueued
    <3>2. n \in rebuild => n \in rebuild'
      BY <2>1, <2>4 DEF Requeued
    <3>3. CASE d = m.name /\ packages[d].abi # m.abi
      <4>1. \A S \in SUBSET Installed :
              d \in S /\ (\A k \in Installed : DependsInto(k, S) => k \in S) => n \in S
        BY <2>4 DEF DependsInto
      <4>2. n \in Affected(m.name)
        BY <3>3, <4>1 DEF Affected
      <4> QED
        BY <2>1, <2>4, <3>1, <3>3, <4>2 DEF Requeued
    <3>4. CASE ~(d = m.name /\ packages[d].abi # m.abi)
      <4>1. packages'[d].abi = packages[d].abi
        BY <2>1, <3>4 DEF Entry
      <4> QED
        BY <3>1, <3>2, <4>1
    <3> QED
      BY <3>3, <3>4
  <2> QED
    BY <2>1, <2>2, <2>3, <2>4 DEF MismatchIsQueued, Entry, Installed
<1> QED
  BY <1>1, <1>2, <1>3

LEMMA RemoveStep ==
  ASSUME IInv, NEW n \in Name, Remove(n)
  PROVE  OneOwner' /\ VerifyBlamesEdits' /\ MismatchIsQueued'
<1>1. /\ Installed' = Installed \ {n}
      /\ \A m \in Name \ {n} : packages'[m] = packages[m]
  BY DEF Remove, Installed, IInv, TypeOK
<1>2. \A q \in Path : Owners(q)' = Owners(q) \ {n}
  BY <1>1 DEF Owners, Installed
<1>3. OneOwner'
  BY <1>2 DEF IInv, OneOwner
<1>4. VerifyBlamesEdits'
  <2> SUFFICES ASSUME NEW q \in Path, q \in Mismatched' \cup Unowned'
               PROVE  q \in edited'
    BY DEF VerifyBlamesEdits, Mismatched, Unowned
  <2>1. /\ edited' = edited \ Touched(RemoveGoal(n))
        /\ q \in Touched(RemoveGoal(n)) <=>
             packages[n].files[q] # Absent /\ (q \in Config => tree[q] = packages[n].files[q])
        /\ tree'[q] = IF q \in Touched(RemoveGoal(n)) THEN Absent ELSE tree[q]
    BY RemoveGoalEffect DEF Remove, IInv
  <2>2. CASE q \in Touched(RemoveGoal(n))
    <3>1. Owners(q) \subseteq {n}
      BY <2>1, <2>2 DEF Owners, IInv, OneOwner, Remove
    <3> QED
      BY <1>2, <2>1, <2>2, <3>1 DEF Mismatched, Unowned
  <2>3. CASE q \notin Touched(RemoveGoal(n)) /\ n \in Owners(q)
    <3>1. tree[q] # packages[n].files[q]
      BY <2>1, <2>3 DEF Owners
    <3> QED
      BY <2>1, <2>3, <3>1 DEF IInv, VerifyBlamesEdits, Mismatched
  <2>4. CASE q \notin Touched(RemoveGoal(n)) /\ n \notin Owners(q)
    <3>1. \A m \in Owners(q) : packages'[m] = packages[m]
      BY <1>1, <2>4 DEF Owners, Installed
    <3> QED
      BY <1>2, <2>1, <2>4, <3>1 DEF IInv, VerifyBlamesEdits, Mismatched, Unowned
  <2> QED
    BY <2>2, <2>3, <2>4
<1>5. MismatchIsQueued'
  <2>1. \A m \in Installed : packages[m].dependencies[n] = None
    BY DEF Remove, Required
  <2>2. rebuild' = rebuild \ {n}
    BY DEF Remove
  <2> QED
    BY <1>1, <2>1, <2>2 DEF IInv, MismatchIsQueued, Installed
<1> QED
  BY <1>3, <1>4, <1>5

LEMMA EditStep ==
  ASSUME IInv, NEW q \in Path, Edit(q)
  PROVE  OneOwner' /\ VerifyBlamesEdits' /\ MismatchIsQueued'
<1>1. UNCHANGED <<packages, rebuild>>
  BY DEF Edit
<1>2. OneOwner' /\ MismatchIsQueued'
  BY <1>1 DEF IInv, OneOwner, MismatchIsQueued, Owners, Installed
<1>3. /\ edited' = edited \cup {q}
      /\ \A r \in Path \ {q} : tree'[r] = tree[r]
  BY DEF Edit, IInv, TypeOK
<1>4. VerifyBlamesEdits'
  BY <1>1, <1>3 DEF IInv, VerifyBlamesEdits, Mismatched, Unowned, Owners, Installed
<1> QED
  BY <1>2, <1>4

LEMMA StepIInv == ASSUME IInv, [Next]_vars PROVE IInv'
<1>1. TypeOK'
  BY TypeStep DEF IInv
<1>2. CASE UNCHANGED vars
  BY <1>1, <1>2 DEF vars, IInv, OneOwner, VerifyBlamesEdits, MismatchIsQueued,
                    Mismatched, Unowned, Owners, Installed
<1>3. CASE Next
  BY <1>1, <1>3, InstallStep, RemoveStep, EditStep DEF Next, Operate, IInv
<1> QED
  BY <1>2, <1>3

THEOREM IInvInvariant == Spec => []IInv
<1>1. Init => IInv
  <2> SUFFICES ASSUME Init PROVE IInv
    OBVIOUS
  <2>1. TypeOK
    BY CatalogAssumption DEF Init, TypeOK
  <2>2. Installed = {} /\ \A q \in Path : Owners(q) = {}
    BY DEF Init, Installed, Owners
  <2>3. VerifyBlamesEdits
    BY <2>2 DEF Init, VerifyBlamesEdits, Mismatched, Unowned
  <2> QED
    BY <2>1, <2>2, <2>3 DEF IInv, OneOwner, MismatchIsQueued, Init
<1> QED
  BY <1>1, StepIInv, PTL DEF Spec

\* No two packages ever own a path, candidates and all.
THEOREM OneOwnerHolds == Spec => []OneOwner
BY IInvInvariant, PTL DEF IInv

\* Strict verification accuses only what the administrator changed.
THEOREM VerifyIsExact == Spec => []VerifyBlamesEdits
BY IInvInvariant, PTL DEF IInv

\* Every ABI mismatch between installed packages is queued for a rebuild.
THEOREM MismatchesAreQueued == Spec => []MismatchIsQueued
BY IInvInvariant, PTL DEF IInv
-----------------------------------------------------------------------------
\* No operation overwrites or deletes an unowned file or edited configuration.
LEMMA OperateKeeps ==
  ASSUME IInv, Operate, NEW q \in Path, Exists(q), tree'[q] # tree[q]
  PROVE  \E n \in Owners(q) : q \in Config => tree[q] = packages[n].files[q]
<1>1. ASSUME NEW m \in Catalog, NEW upgrade \in BOOLEAN, Install(m, upgrade)
      PROVE  \E n \in Owners(q) : q \in Config => tree[q] = packages[n].files[q]
  <2>1. q \in Writes(m) \cup Dropped(m)
    BY <1>1, InstallGoalEffect DEF Install, IInv
  <2>2. CASE q \in Dropped(m)
    BY <2>2, OldFilesOwned DEF Dropped, Gone, IInv
  <2>3. CASE q \in Writes(m)
    <3>1. q \in Shipped(m) \ Retained(m)
      BY <1>1, <2>3, Unrefused DEF Writes
    <3>2. Owners(q) = {m.name}
      BY <1>1, <3>1, Unrefused
    <3>3. OldFiles(m) = packages[m.name].files /\ OldFiles(m)[q] # Absent
      BY <3>2 DEF OldFiles, Owners
    <3> QED
      BY <3>1, <3>2, <3>3 DEF Retained
  <2> QED
    BY <2>1, <2>2, <2>3
<1>2. ASSUME NEW n \in Name, Remove(n)
      PROVE  \E m \in Owners(q) : q \in Config => tree[q] = packages[m].files[q]
  <2>1. packages[n].files[q] # Absent /\ (q \in Config => tree[q] = packages[n].files[q])
    BY <1>2, RemoveGoalEffect DEF Remove, IInv
  <2> QED
    BY <1>2, <2>1 DEF Owners, Remove
<1> QED
  BY <1>1, <1>2 DEF Operate

THEOREM EditsAreKept == Spec => EditsSurvive
<1> DEFINE Kept == Operate =>
        \A q \in Path : Exists(q) /\ tree'[q] # tree[q] =>
          \E n \in Owners(q) : q \in Config => tree[q] = packages[n].files[q]
<1>1. IInv => Kept
  BY OperateKeeps
<1> QED
  BY <1>1, IInvInvariant, PTL DEF Spec, EditsSurvive
-----------------------------------------------------------------------------
\* With one owner, what is recorded of a path is what that owner's entry says.
LEMMA RecordedAt ==
  ASSUME OneOwner, NEW q \in Path
  PROVE  /\ \A n \in Owners(q) : RecordedFiles[q] = packages[n].files[q]
         /\ Owners(q) = {} => RecordedFiles[q] = Absent
<1>1. ASSUME NEW n \in Owners(q) PROVE (CHOOSE m \in Owners(q) : TRUE) = n
  <2>1. (CHOOSE m \in Owners(q) : TRUE) \in Owners(q)
    BY <1>1
  <2> QED
    BY <1>1, <2>1 DEF OneOwner
<1> QED
  BY <1>1 DEF RecordedFiles

LEMMA RecordedAfter ==
  ASSUME OneOwner', NEW q \in Path
  PROVE  /\ \A n \in Owners(q)' : RecordedFiles'[q] = packages'[n].files[q]
         /\ Owners(q)' = {} => RecordedFiles'[q] = Absent
<1>1. ASSUME NEW n \in Owners(q)' PROVE (CHOOSE m \in Owners(q)' : TRUE) = n
  <2>1. (CHOOSE m \in Owners(q)' : TRUE) \in Owners(q)'
    BY <1>1
  <2> QED
    BY <1>1, <2>1 DEF OneOwner
<1> QED
  BY <1>1 DEF RecordedFiles

LEMMA RecordedFilesType ==
  ASSUME IInv PROVE Recorded(RecordedFiles) = RecordedFiles
<1>1. \A q \in Path : RecordedFiles[q] \in Content \cup {Absent}
  <2> SUFFICES ASSUME NEW q \in Path PROVE RecordedFiles[q] \in Content \cup {Absent}
    OBVIOUS
  <2>1. \A n \in Owners(q) : packages[n].files[q] \in Content \cup {Absent}
    BY DEF IInv, TypeOK, Owners, Installed, Entries, Databases
  <2> QED
    BY <2>1, RecordedAt DEF IInv
<1>2. RecordedFiles \in Databases
  BY <1>1 DEF RecordedFiles, Databases
<1> QED
  BY <1>2, MarkersDistinct DEF Recorded

\* The data that install() hands over records what it writes, deletes and keeps.
LEMMA InstallRecords ==
  ASSUME IInv, NEW m \in Catalog, NEW upgrade \in BOOLEAN, Install(m, upgrade)
  PROVE  RecordedFiles' = Registered(InstallGoal(m), RecordedFiles)
<1> SUFFICES ASSUME NEW q \in Path
             PROVE  RecordedFiles'[q] = Registered(InstallGoal(m), RecordedFiles)[q]
  BY DEF RecordedFiles, Registered
<1>1. /\ InstallGoal(m) \in Goals
      /\ q \in Touched(InstallGoal(m)) <=> q \in Writes(m) \cup Dropped(m)
  BY InstallGoalEffect DEF IInv
<1>2. OneOwner /\ OneOwner'
  BY InstallStep DEF IInv
<1>3. packages'[m.name].files = Baseline(m)
  BY InstallPackages, EntryFields DEF IInv
<1>4. Owners(q)' = IF Baseline(m)[q] # Absent THEN {m.name} ELSE Owners(q) \ {m.name}
  BY OwnersAfterInstall
<1>5. RecordedFiles'[q] = Baseline(m)[q] \/ Baseline(m)[q] = Absent
  BY <1>2, <1>3, <1>4, RecordedAfter
<1>6. CASE q \in Writes(m)
  <2>1. InstallGoal(m)[q] = Baseline(m)[q] /\ Baseline(m)[q] \in Content
    BY <1>6, InstallGoalAt DEF IInv
  <2> QED
    BY <1>1, <1>5, <1>6, <2>1, GoalEffect, MarkersDistinct
<1>7. CASE q \in Gone(m)
  <2>1. Owners(q)' = {}
    BY <1>4, <1>7, OldFilesOwned DEF Gone, IInv
  <2>2. InstallGoal(m)[q] \in {Absent, Forget}
    BY <1>7, InstallGoalAt DEF IInv
  <2> QED
    BY <1>1, <1>2, <2>1, <2>2, RecordedAfter, GoalEffect, MarkersDistinct
<1>8. CASE q \notin Writes(m) \cup Gone(m)
  <2>1. Registered(InstallGoal(m), RecordedFiles)[q] = RecordedFiles[q]
    <3>1. InstallGoal(m)[q] = Keep
      BY <1>8, InstallGoalAt DEF IInv
    <3> QED
      BY <1>1, <3>1, GoalEffect, MarkersDistinct
  <2>2. CASE Baseline(m)[q] # Absent
    <3>1. q \in Retained(m)
      BY <1>8, <2>2, BaselineUnwritten DEF IInv
    <3>2. Baseline(m)[q] = OldFiles(m)[q] /\ OldFiles(m)[q] # Absent
      BY <3>1 DEF Baseline, Retained
    <3>3. m.name \in Owners(q) /\ OldFiles(m) = packages[m.name].files
      BY <1>2, <3>2, OldFilesOwned
    <3> QED
      BY <1>2, <1>5, <2>1, <2>2, <3>2, <3>3, RecordedAt
  <2>3. CASE Baseline(m)[q] = Absent
    <3>1. m.name \notin Owners(q)
      BY <1>8, <2>3 DEF Gone, OldFiles, Owners
    <3>2. Owners(q)' = Owners(q)
      BY <1>4, <2>3, <3>1
    <3>3. \A n \in Owners(q) : packages'[n] = packages[n]
      BY <3>1, InstallPackages DEF IInv, Owners, Installed
    <3> QED
      BY <1>2, <2>1, <3>2, <3>3, RecordedAt, RecordedAfter
  <2> QED
    BY <2>2, <2>3
<1> QED
  BY <1>6, <1>7, <1>8

\* So does the data of remove().
LEMMA RemoveRecords ==
  ASSUME IInv, NEW n \in Name, Remove(n)
  PROVE  RecordedFiles' = Registered(RemoveGoal(n), RecordedFiles)
<1> SUFFICES ASSUME NEW q \in Path
             PROVE  RecordedFiles'[q] = Registered(RemoveGoal(n), RecordedFiles)[q]
  BY DEF RecordedFiles, Registered
<1>1. OneOwner /\ OneOwner' /\ n \in Installed
  BY RemoveStep DEF IInv, Remove
<1>2. /\ RemoveGoal(n) \in Goals
      /\ q \in Touched(RemoveGoal(n)) => packages[n].files[q] # Absent
      /\ RemoveGoal(n)[q] = Forget <=>
           packages[n].files[q] # Absent /\ q \notin Touched(RemoveGoal(n))
  BY <1>1, RemoveGoalEffect DEF IInv
<1>3. /\ Owners(q)' = Owners(q) \ {n}
      /\ \A m \in Owners(q) \ {n} : packages'[m] = packages[m]
  BY DEF Remove, Owners, Installed, IInv, TypeOK
<1>4. CASE packages[n].files[q] # Absent
  <2>1. Owners(q)' = {}
    BY <1>1, <1>3, <1>4 DEF Owners, OneOwner
  <2>2. RemoveGoal(n)[q] \in {Absent, Forget}
    BY <1>4 DEF RemoveGoal
  <2> QED
    BY <1>1, <1>2, <2>1, <2>2, RecordedAfter, GoalEffect, MarkersDistinct
<1>5. CASE packages[n].files[q] = Absent
  <2>1. n \notin Owners(q)
    BY <1>5 DEF Owners
  <2> QED
    BY <1>1, <1>2, <1>3, <1>5, <2>1, RecordedAt, RecordedAfter, GoalEffect
<1> QED
  BY <1>4, <1>5

LEMMA OperationApplies ==
  ASSUME IInv, Operate
  PROVE  \E goal \in Goals : /\ \A q \in Touched(goal) : tree[q] # Dir
                             /\ tree' = Overlay(goal, tree)
                             /\ RecordedFiles' = Registered(goal, Recorded(RecordedFiles))
<1>1. ASSUME NEW m \in Catalog, NEW upgrade \in BOOLEAN, Install(m, upgrade)
      PROVE  /\ \A q \in Touched(InstallGoal(m)) : tree[q] # Dir
             /\ tree' = Overlay(InstallGoal(m), tree)
             /\ RecordedFiles' = Registered(InstallGoal(m), Recorded(RecordedFiles))
             /\ InstallGoal(m) \in Goals
  <2>1. InstallGoal(m) \in Goals
    <3>1. \A q \in Path : InstallGoal(m)[q] \in Content \cup {Absent, Keep, Forget}
      BY InstallGoalAt DEF IInv
    <3> QED
      BY <3>1 DEF InstallGoal, Goals
  <2> QED
    BY <1>1, <2>1, InstallRecords, RecordedFilesType DEF Install, Accepts, NamesDirectory
<1>2. ASSUME NEW n \in Name, Remove(n)
      PROVE  /\ \A q \in Touched(RemoveGoal(n)) : tree[q] # Dir
             /\ tree' = Overlay(RemoveGoal(n), tree)
             /\ RecordedFiles' = Registered(RemoveGoal(n), Recorded(RecordedFiles))
             /\ RemoveGoal(n) \in Goals
  <2>1. RemoveGoal(n) \in Goals
    BY DEF RemoveGoal, Goals
  <2> QED
    BY <1>2, <2>1, RemoveRecords, RecordedFilesType DEF Remove, NamesDirectory
<1> QED
  BY <1>1, <1>2 DEF Operate

\* Every install, upgrade and removal is one transaction of AtomicTree, on the
\* payload and on what all packages together record of it.
THEOREM OperationsTransact == Spec => OperationsAreTransactions
<1>1. IInv => (Operate => Transaction!Transact)
  BY OperationApplies
     DEF Transaction!Transact, Transaction!Apply, Transaction!Goals, Transaction!Touched,
         Transaction!Overlay, Transaction!Registered, Transaction!Recorded,
         Goals, Touched, Overlay, Registered, Recorded
<1> QED
  BY <1>1, IInvInvariant, PTL DEF Spec, OperationsAreTransactions
-----------------------------------------------------------------------------
\* One system never mixes CPU profiles, removals and downgrades included: once
\* data["cpu"] is set every archive that is accepted has it.
THEOREM CpuIsOne == Spec => []OneCpu
<1>1. Init => OneCpu
  BY DEF Init, OneCpu, Installed
<1>2. ASSUME TypeOK, OneCpu, [Next]_vars PROVE OneCpu'
  <2>1. CASE UNCHANGED vars
    BY <1>2, <2>1 DEF vars, OneCpu, Installed
  <2>2. ASSUME NEW m \in Catalog, NEW upgrade \in BOOLEAN, Install(m, upgrade) PROVE OneCpu'
    <3>1. m.name \in Name /\ cpu \in {None, m.cpu}
      BY <2>2, ManifestType DEF Install, Accepts, MixesCpu
    <3>2. ASSUME NEW n \in Installed' PROVE packages'[n].cpu = m.cpu
      <4>1. CASE n = m.name
        BY <1>2, <2>2, <3>1, <4>1 DEF Install, TypeOK
      <4>2. CASE n # m.name
        <5>1. n \in Installed /\ packages'[n] = packages[n]
          BY <1>2, <2>2, <3>1, <3>2, <4>2 DEF Install, TypeOK, Installed
        <5>2. packages[n].cpu = cpu /\ packages[n].cpu \in Cpu
          BY <1>2, <5>1 DEF OneCpu, TypeOK, Installed, Entries
        <5> QED
          BY <3>1, <5>1, <5>2, CatalogAssumption
      <4> QED
        BY <4>1, <4>2
    <3> QED
      BY <2>2, <3>2 DEF Install, OneCpu
  <2>3. ASSUME NEW n \in Name, Remove(n) PROVE OneCpu'
    BY <1>2, <2>3 DEF Remove, OneCpu, Installed, TypeOK
  <2>4. ASSUME NEW q \in Path, Edit(q) PROVE OneCpu'
    BY <1>2, <2>4 DEF Edit, OneCpu, Installed
  <2> QED
    BY <1>2, <2>1, <2>2, <2>3, <2>4 DEF Next, Operate
<1> QED
  BY <1>1, <1>2, TypeCorrect, PTL DEF Spec
=============================================================================
