# A verification of VFOS in TLA+

This directory models the parts of VFOS (`../src/vfos/`, Python) whose correctness
depends on order, interruption or several processes, checks the models with TLC on
small instances, and proves the main results with TLAPS for every instance. Paths
below are relative to the repository; `packages.py` means `vfos/packages.py`.

Run a check with `tlc -workers 2 -config <cfg> <module>` and the proofs with
`tlapm <module>.tla`; `PROJECT.json` lists every run, what it checks, the mutant
that shows each property can fail, and the source lines of every definition.

## 1. Inventory

| Component | State it keeps | Operations | Hard behaviour | What makes it correct |
|---|---|---|---|---|
| **Transaction journal** (`packages.py` `Database.locked`, `recover`, `copy`, `transaction`) | payload tree, `packages.json`, `transaction/` (`journal.json`, `backup-i`, `committed`), flock | open under the lock, recover, back up, apply, commit, clean up | death between any two durable steps, also during recovery; an exception in the try block; several processes; a path that becomes a directory between them | a transaction is atomic; a body never sees half of one; a journal can always be rolled back, is never given up half way and is eventually resolved |
| **Package database** (`Database.install`, `remove`, `verify`) | tree, owned files with hashes, CPU, ABI, rebuild queue | install, upgrade, remove, verify; an administrator edits files in between | long sequences of legal operations; edited configuration; `.vfos-new` candidates; ABI changes along the dependency graph | one owner per path; verify is exact; edits survive; ABI mismatches are queued; one CPU profile |
| **Package archives** (`file_info`, `pack`, `Package`) | an archive, its manifest and receipt, a private staging directory | pack, open and validate, close | crash between the archive and its receipt | an opened package is exactly its manifest |
| **Rebuild** (`cli.py` `pkg rebuild`) | the queue it read, the artifacts it built | read queue, build, install each | the flock is released between installs; refusal or death half way; install order | the queue drains; nothing is forgotten |
| **Recipe planner** (`recipes.py` `Repository.plan`, `reverse_dependencies`) | recipe graph, DFS stack, plan | plan, reverse dependencies | cyclic or incomplete graphs | dependencies first, no duplicates, raises exactly when it must |
| **Recipe repository** (`Repository.__init__`) | recipe files | load and validate headers | none (pure parsing) | every recipe is well formed |
| **Source cache and builder** (`build.py`) | `cache/`, `out/<cpu>/` (archive, receipt, inputs, log), a lock per source and per build id | fetch, unpack, build in a sandbox, reuse | concurrent builders, crash between durable steps, builder root changing after its verification | one artifact per build id; reuse only of what was verified; an interrupted build can be retried |
| **Recipe sync** (`cli.py` `sync`) | `recipes/`, `recipes.previous` | fetch, validate, two renames | crash or a second sync between the renames; builders at work | no tree in use or kept is lost; a failed sync leaves a tree in use |
| **Installer** (`installer.py` `execute`, `load_media`, `configure`) | disk, LUKS mapper, mount stack, open packages | preflight, partition, format, mount, install, configure, boot, clean up | failure of any command, interrupts, cleanup failing half way | nothing written before every gate; whatever was opened is closed, in order |
| **Disk layout** (`installer.py` `layout`, `partition_path`) | none | partition table for a disk size | sector size, rounding at the end of the disk | partitions contiguous, aligned, clear of both GPTs; the ESP is a FAT32 |
| **Boot loader set-up** (`boot.py`) | core images, EFI files, `grub.cfg` | write configuration, embed cores | failure between targets | configuration matches the encryption choice; run by the installer (one `Run` of Installer) |
| **Kernel update** (`kernel.py` `update`) | dracut.conf, initramfs, `.previous`, grub.cfg | check the root, regenerate, switch | failure, death or power loss between the four replacements; several updates at once; the kernel removed meanwhile | the menu always names a kernel with a whole image that is on the disk; the rescue copy is the image that was replaced |
| **Session supervisor** (`session.py`, `sessions/*`) | process tree, runtime directory, signal handlers | launch, terminate descendants, reap | forks, threads and reparenting between the snapshot and the kill; a second signal during cleanup; processes of root | a finished cleanup leaves no process and no runtime directory, and ends unless its SIGKILL pass missed somebody |
| **Release gate and image** (`release.py`, `image.py`) | manifest, live root, ISO | require_qualified, image | the root can change after its verification | only qualified, verified content is shipped |
| **Paths** (`common.py` `relative_path`, `under`, `resolve_target`) | none | check and resolve a path | symlink chains | never leaves the target root |
| **Bootstrap plan** (`bootstrap.py`) | none | list stages; the action is a hard gate | none | always refuses |
| **Dialogs and CLI plumbing** (`installer.py` `Dialog`, `wizard`, `cli.py`) | none of their own | parse, ask, dispatch | none | - |
| **CI scripts, configuration, profiles, recipes** (`ci/`, `config/`, `profiles/`, `recipes/`) | files | run by hosted CI, SysVinit, bash | shell and third-party programs | - |

How they interact: the CLI opens a `Package` and hands it to `Database.install`;
`install`, `remove` and `verify` run inside `locked()`, which takes the flock and
recovers; `install` and `remove` end in one `transaction()`. `pkg rebuild` reads the
queue through `Database.query`, asks `Builder.build` (which orders its work by
`Repository.plan` and installs dependency artifacts into a private `Database`), and
calls `Database.install` once per name. The installer installs the media's packages
through a `Database` twice, in a staging directory before it touches the disk and
then on the target. `image` verifies the live root through `Database`. `pkg sync`
replaces the recipe tree that a builder reads, with no lock in common. `update-kernel`
shares `/boot` with the package transactions that install and remove kernels, again
with no lock in common. A desktop session is one supervisor per login.

## 2. Modules

    Payload ── AtomicTree                      (abstract)
       ├────── Transactions ── MCTransactions  implements AtomicTree
       │             └──────── TransactionsProof
       └────── PackageDb ───── MCPackageDb     its operations are steps of AtomicTree
                     ├──────── PackageDbProof
                     └──────── Rebuild ─────── MCRebuild, RebuildProof (over PackageDbProof)
    RecipePlan ── MCRecipePlan, RecipePlanProof
    ArtifactStore                              (abstract)
       └────── BuildCache                      implements ArtifactStore
    RecipeSync       │
       └────── BuildSystem ─── MCBuildSystem   implements BuildCache
                     └──────── BuildSystemProof
    KernelUpdate ── MCKernelUpdate, KernelUpdateProof
    Session ── MCSession, SessionProof
    DiskLayout
       └────── Installer ───── MCInstaller
                     └──────── InstallerProof

**Payload** is the vocabulary: paths, contents, what a transaction names and does
to a tree (`Overlay`) and to the recorded files (`Registered`). `Keep` leaves a path
alone, `Forget` leaves the file but records it no longer, as for edited configuration of
a package that goes. A content stands for what `file_info` compares: type, hash
or target, and mode.

**AtomicTree** is the abstract specification of the database: a tree and a recorded
database, both changed by one indivisible `Apply(goal)` (`Transact`). `Rearrange` is the
administrator, who makes directories and removes them.

**Transactions** is the journal. A step is one durable change, so a death can fall
between any two: `Acquire` takes the flock; `Recover` is the three-way decision at
`packages.py:168-175`; `Pick`/`Copy` are one round of the backup, restore and
apply loops (unlink, torn copy, whole copy); `WriteRecord`, `WriteDatabase` and
`Commit` are the three atomic JSON files; `Clean`/`CleanDone` are `rmtree`, one
entry at a time in any order; `Rollback` is the `except BaseException` of
`transaction()`; `Abort` is a death or an exception that leaves `locked()`. Every
process runs it, recoveries included, so a recovery can itself be killed. `Administer`
is the administrator between the commands, when nobody holds the flock (`packages.py:5-6`
asks callers to keep the tree private): a payload path becomes a directory, or stops
being one. `Begin` refuses a directory (`packages.py:206`), and `Obstruct` is the error
of `recover()` over one (`packages.py:178-179`), with the journal and what has been
restored so far left for the next opening. `altered` remembers the paths that vfos has
not written since the administrator touched them.

**PackageDb** has one action per operation of `Database`, each indivisible as
Transactions shows, plus the administrator's `Edit`. The guard of `Install` is the
conjunction of the code's refusals (`MixesCpu`, `NeedsAbi`, `Conflicts`,
`CandidateInTheWay`, `NamesDirectory`); `Baseline`, `Writes` and `Dropped` are the
`files`, `writes` and `deletes` the code collects; `Affected` is the fixpoint of
the rebuild loop, written as a least set. The recorded database is the function
`packages`, the queue the set `rebuild` (the code keeps a sorted list). That the one-step operations
are those Transactions makes indivisible is itself checked: `RecordedFiles` joins the
recorded files of all packages to the database of AtomicTree, and every operation is a
step of its `Next` (`OperationsAreTransactions`).

**Rebuild** composes PackageDb with a process running `pkg rebuild` (`Start`,
`InstallOne`, `Refused`, `Finished`, `Killed`) and an administrator at another
console (`ByHand`), whose editor is `EditByHand`. `steady` remembers that the running rebuild started with everything
outside the queue at its recipe's ABI and that no other command has run since.

**RecipePlan** is the recursion of `plan()` as a machine: `active` is the stack,
`left` the rest of each frame's loop, a step is one entry to or return from
`visit()`.

**ArtifactStore** is the abstract specification of the builder's output directory: a
map from build ids to artifacts in which an id is published once, and answers that are
the published artifact.

**BuildCache** is `Builder.one` with `fetch` and `pack`, by several builders over one
cache and one output directory. `Call` computes the id from the recipe files; `Enter`
takes the lock of the id; `Reuse` returns or refuses the archive it finds; `LockSource`,
`UseCached` and `Download` are `fetch`, once per source; `Make` copies the recipe into
the sandbox and builds (`CopyFails` when a sync has moved the recipe away); `Replace`,
`WriteReceipt` and `WriteInputs` are the three durable files in their order. `Abort` is
an exception or a death at any of these points, `PowerLoss` also tears cached sources,
which the code does not sync, and may lose the rename of an archive until its receipt is
written. `Discard` is the user removing a corrupt source, as the error message asks;
`Edit` puts any recipe files in place of those there are. An id is the recipe
and what its files said; the rest of what goes into it (sources, dependencies, CPU,
builder root) is fixed during a run. What a build yields is any payload: builds need not
be reproducible for an id to have one artifact.

**RecipeSync** is `sync()` of `cli.py` by several processes: `Check` is the refusal when
`recipes.previous` exists, `Look` the test for a present tree, `MoveAway` and `MoveIn`
the two renames, which raise as `rename(2)` of directories does, `Undo` the
`except BaseException`; `Die` and `Crash` are the death of one and of all; `Review` is
the operator who looks at the kept tree and removes it, or puts it back, at any time.
`stranded` remembers that there has been no tree since a sync was killed between its
renames.

**BuildSystem** runs BuildCache and RecipeSync over one variable: what a builder reads as
`recipe` is what a sync renames, `NoTree` between the renames. Every step of a sync is an
`Edit` for the builders or leaves them alone, so BuildSystem implements BuildCache.

**KernelUpdate** is `update()` of `kernel.py` by several processes, with the boot tree
as processes see it (`boot`) and the trees that a power loss may bring back (`log`, a
journaling file system: every state since the last synchronised directory). Each durable
change is an action (`WriteConf`, `Keep` and `Copied` for the two ends of `copyfile`,
`Replace`, `SwitchMenu`), as is each synchronisation (`SyncDir`, `Fsync`). A file that
was never synchronised may come back torn. The checks at the top of `update()` are the
guard of `Start`; `Install` and `Remove` are package transactions. An image is `whole`
if dracut wrote it under the VFOS configuration and `unfit` if that was not in place.

**Session** is `launch()`, `descendants()` and `terminate_children()` beside the kernel's
process table: processes fork from any thread, exit, become orphans (adopted by the
supervisor, a subreaper), turn to root, and are reaped. `MakeRuntime`, `Guard` and
`Spawn` start a session, `CallReturns` and `Signal` end it; `Walk` reads one `children`
file, `Send` signals one process, `PassDone` starts the SIGKILL pass or the wait, `Wait`
and `WaitDone` are the `waitpid` loop, `RemoveRuntime` the `rmtree`. `stray` remembers the
processes that moved out of the sight of the SIGKILL pass: those hidden behind a thread
(`Unseen`), those forked after the children of their parent had been read, and those
whose parent exited once the children of the supervisor had been (`Orphaned`).

**DiskLayout** is the arithmetic of `layout()` in sectors for the disks that
`Answers.validate` lets through; Installer extends it, and says of the table that a call
wrote that it fits.

**Installer** is `execute()` beside what the kernel holds: mounts on the target, the
mapped device, and the live `/dev`, `/proc`, `/sys`, `/run` bound into it. `Call` and
`Load` are the gates up to `load_media`, `Check` the last inspection of the disk. A
command with an effect on mounts or mappings is an action (`Open`, `Mount`, `MakeSlave`,
`Unmount`, `Close`), and so is the bookkeeping that follows it (`NoteMapper`, `Note`),
since an interrupt can fall in between; all other commands, `configure()` and
`install_boot()` included, are `Run`. `Stop` is a failing command or an interrupt in
either try block, `FailUnmount`, `FailClose` and `InterruptCleanup` the same in the
finally clauses, `Kill` the death of the installer. A recursive unmount of a bound tree
that is still shared takes the submounts of the live tree with it; a recursive unmount
that fails leaves any part of what it meant to unmount. The user retries, inspects and
cleans up by hand (`Inspect`) or reboots.

## 3. Runs

| Run | Question | Result |
|---|---|---|
| `transactions` | Is every transaction atomic (refinement of AtomicTree), with bodies that see whole transactions, rollbacks that lack no preimage and are never given up half way, for two processes and two deaths, exceptions or new directories anywhere? And does somebody who opens the database always end an interrupted one, unless a directory stays in its way? | holds |
| `rmtree_undo` | Is a transaction atomic with a death inside `rmtree`? | **violated**, see section 5 |
| `package_db` | Ownership, verification, ABI queue, CPU and edits over all sequences of operations; is each operation one transaction of AtomicTree? | holds |
| `candidate` | Is an upgrade refused over a candidate only if there is one? | **violated** |
| `rebuild` | Does the queue drain, and does a rebuild nobody interrupts end at the recipes' ABIs, with deaths, edits and other commands between the installs? | holds; `QueueDrains` since these names sort in dependency order |
| `rebuild_order` | The same when they do not | **violated** |
| `recipe_plan` | Order, duplicates, outcome, progress of every step and termination on every graph | holds |
| `builds` | With two builders and two syncs of the recipe tree, a death or failure among each: has each id one artifact for ever (refinement of ArtifactStore), is every unpacked source verified, is no recipe tree lost, and is one in use whenever no sync is, or was killed, between its renames, do builders never wait for each other in a ring, and does every build call end? | holds |
| `kernel_update` | Does the menu always name a bootable kernel, and is the rescue copy the image that was replaced, for two updates of two kernels with two failures, deaths or power losses and kernels coming and going? | holds |
| `session` | Does a finished cleanup leave nothing behind, does what escapes the SIGKILL pass descend from a process that moved out of its sight, and does a cleanup end unless it waits for what that pass missed? | holds |
| `session_root` | Are the user's processes ended even if one in the session is root's? | **violated** |
| `installer` | Is a disk never partitioned while an earlier call left it in use, is nothing left behind by a completed or plainly failed call, and do the live mounts survive, unless a fault strikes between a bind and its `make-rslave`? Do the partitions fit every disk, and is the ESP a FAT32? | holds |

Bounds, each a constant of its configuration:

* `transactions` (505,600 states): two paths, two contents, two processes, two faults
  (`MaxFaults`), which are exceptions, deaths or new directories.
  Every transaction over two paths occurs, one after another without bound: those that
  create, replace, delete and leave a path. The first fault stops a transaction at any
  durable step, the second stops its recovery (by either process) at any durable step, or
  puts a directory in its way; directories come and go while no transaction is pending too.
  The proof covers every bound. No symmetry, since liveness is checked too.
* `package_db`: the catalogue of `MCPackageDb` has three versions of a library (its ABI
  changes once, its configuration default changes, it drops a file), two of an
  application built against either ABI, one of which wants a path of the library, a
  plugin above the application, also built for another CPU profile; `MaxEdits = 2` lets the administrator edit, create or delete
  two paths, before the first install too (`Init`).
* `rebuild` (9,765 states): a chain of three packages, whose ABIs change in two places, five
  commands by hand, one death of rebuild and two edits (`MaxEdits`). The client ships a
  configuration file whose default changes, so that a rebuild keeps an edited one, writes
  a candidate, or is refused over one. `rebuild_order` has no files (`Path = {}`).
* `recipe_plan`: all recipe graphs over three names, cycles, self-loops and missing
  recipes included, and every set of names asked for.
* `builds` (438,630 states): one recipe of two sources in two versions, two
  builders that visit the sources in any order (so every crossing of the source locks
  occurs), two calls and one fault; two syncs of which one may die, so that two overlap,
  one restarts after the other was killed between its renames, and a build meets the
  recipe before, between and after them. An artifact differs from another by the version
  that was copied, so one payload suffices. No symmetry (liveness).
* `kernel_update` (324,574 states): two updates in flight, two kernels, of which one is installed at first, two runs of dracut, two
  faults: a fault meets an update, and a second one the update after it. The updaters are
  symmetric. The proof covers every bound.
* `session` (116,510 states): four processes, so that a tree of depth three can lose its
  middle and an orphan can fork while it is adopted; two signals, one to end the session
  and one in the middle of the cleanup. `session_root`: three processes, no signal.
* `installer`: two live trees, one mounted shared, the other private; two calls and two
  faults, so that a fault meets the cleanup after another one, or a retry meets what a
  fault left. The code binds four trees in a fixed order; two in any order include it
  (142,775 states). The disks are those of 8 GiB and every size up to 1 MiB more, where
  the rounding matters, for both sector sizes, and the largest that TLC can count; the
  proof covers all sizes.

Type correctness is proved for every module with a proof; the runs `recipe_plan`, `session`
and `kernel_update` leave it to its theorem, as `rebuild` leaves `MismatchIsQueued`.

Deadlock is checked in `transactions` and `installer`. It is off where the system may
stop: `plan()` returns; every package operation may be refused; a rebuild ends;
calls, syncs and updates are bounded (that no build call blocks is `CallsEnd`); a
session ends, and a cleanup may wait for ever for a process its SIGKILL pass missed.

Fairness. `FairSpec` of Transactions: a process that runs goes on (`WF` of its
`Progress`), and somebody opens the database again (`WF` of `Acquire` by any); deaths
and rollbacks are not fair and are bounded. `RFairSpec` of Rebuild: somebody keeps
running `vfos pkg rebuild` while a queue exists, which is what `status.md:63-64`
asks of the user, and the administrator's and the killer's steps are not fair.
`FairSpec` of RecipePlan: a call runs until it returns. `FairSystem` of
BuildSystem: a builder that can take a step of its call takes one (`WF` of its
`Progress`); a lock is not granted in any fair order, but calls are finitely many; no
sync ever has to go on. `Spec` of Session: the supervisor goes on with its sweep when it
can (`WF` of `Sweep`); no process of the session ever has to exit or reap, since nothing
in the code makes it.

## 4. Proofs

`TransactionsProof`: for every set of paths, contents and processes and any number of
faults,

* `TypeCorrect`: with and without deaths inside `rmtree`.
* `BodiesSafe`, `RollbackSafe`, `RollbacksAreWhole` and `TransactionsAreAtomic`
  (`Spec => Atomic`, the refinement) under `CrashInRmtree = FALSE`; section 5 shows that
  assumption is needed.

The argument: none of these is inductive, since each says something only of one
moment. `IInv` adds what holds in between. Only the holder of the flock is away from
`idle`, so a single process matters at a time. Its phase determines what the disk
holds: during `backup` the tree is still as the database says and the backups done so
far are copies; once `journal.json` exists each kept path has its whole backup and the
old database is recorded; in `apply` the paths already done hold their new content, in
`restore` their old one; `commit` means tree and database are both new; and with nobody holding
the lock the journal is absent, settled, or complete (`JournalComplete`). For the
refinement the abstract tree is `EffectiveTree`, what a recovery *would* leave: every
step keeps it but `Commit`, which is `Apply`, and `Administer`, which is `Rearrange` or
touches only a path that a rollback will put back. `BodiesSeeWholeTransactions` speaks of
the paths the administrator has not changed since (`altered`); everything else holds with
his directories anywhere. The step lemma has one case per action;
the conclusion follows by PTL.

`PackageDbProof`: `TypeCorrect`, `OneOwnerHolds`, `VerifyIsExact`,
`MismatchesAreQueued`, `EditsAreKept`, `OperationsTransact` and `CpuIsOne` for every catalogue that satisfies
`CatalogAssumption`. The properties are inductive only together (`IInv`): verification
stays exact across an upgrade because the package that owns a path is the only one
(`OneOwner`), and a removal breaks no dependency because everything that depends on a
package is recorded (`MismatchIsQueued`). What an installation does to the tree, to the
recorded files and to the owners of a path are lemmas of their own, cited by the steps.
`OperationsTransact` shows path by path that the `writes`, the `deletes` and the new
database which an operation hands to `transaction()` agree: what is written is recorded,
what is deleted is not, edited configuration that a package gives up is forgotten, and
nothing else changes. It needs `OneOwner`, by which the record of a path is one, and the
refusals of `install`. With `TransactionsAreAtomic` this is the argument that lets an
operation of PackageDb be a single step.

`RebuildProof`: `RebuildImplements` (`RSpec => Spec` of PackageDb, from the invariant that
only names with a recipe are queued), so that the theorems of `PackageDbProof` hold while
rebuilds run, are refused and die, with the administrator's editor at work all the time:
`RebuildKeepsMismatches`, `RebuildKeepsEdits`, `RebuildTransacts`. `SteadyRebuildsComplete` is the safety half of `QueueDrains`, for
every set of recipes and every order of names: a rebuild that starts up to date and that
no other command interrupts ends with all packages at the ABIs of their recipes, or was
killed, or was refused over an artifact that comes before one it needs (`Misplaced`, which
is finding 3 of section 5) or over something other than an ABI. The invariant: whatever is
installed and no longer in the queue is at its recipe's ABI (`SteadyInv`); so an ABI can
only be missing for a dependency that is still to come.

`RecipePlanProof`: `TypeCorrect`, `PlanIsOrdered`, `PlanHasNoDuplicates`,
`OutcomeAlwaysRight` and `WorkAlwaysShrinks` for every recipe graph.
The invariant `StackInv` ties the stack to the loops: no call is on the stack twice or
finished, and what a call has visited is finished or is the call it waits for; `SeenInv`
says that `seen` and the plan hold the same names. For the outcome, `OInv` adds
that the walk stays among the names that are needed (`Needed`), that each call on the
stack is below the ones before it (`Descends`), so that meeting one again is a cycle that
a requested name reaches, and that no requested name is forgotten (`Visited`). That
nothing planned reaches a cycle follows from the order of the plan. `WorkAlwaysShrinks` is
the safety half of `Terminates`: each step that does not end the walk strictly reduces
the roots, the edges still to follow (`Edges`) or the recipes to finish, and adds to none
of them, on cyclic graphs too; for a finite set of recipes no walk is infinite.

`BuildSystemProof`, part 1, about BuildCache: `TypeCorrect`, `OneArtifact` (`Spec =>
OneArtifactPerId`, the refinement), `SourcesAreVerified` and `NobodyWaitsInARing`, for any
builders, recipes, sources, faults and edits. An archive counts as published from its receipt on (`Published`), since without one it is refused.
The invariant says that the holder of an id's lock is the only builder past `waiting`
with that id, and that from there to its receipt nothing is published under it, so that
`WriteReceipt` publishes an id that had no artifact and `Replace` never overwrites a
published archive. Sources only become valid while somebody lives, so what a builder has
fetched stays valid until it unpacks it. That nobody waits in a ring is proved from an
account of the locks (`LInv`: a lock is held by the builder whose id or source in hand it
is, and by nobody else): a builder that holds the lock of a source waits for nothing, and
one that waits for a source holds only an id, for which nobody waits who holds a source.

Part 2, about BuildSystem: `SystemImplements` (`SystemSpec => Spec` of BuildCache), from which
`SystemSourcesVerified`, `SystemOneArtifact` and `SystemNoCircularWait` follow with builders and syncs together;
and `TreesAlwaysKept` and `TreeAlwaysInUse` for any syncs. The invariant `SyncInv`
adds that some tree is in use or kept: two syncs may both have looked, but a rename only
succeeds where no tree is, so the one that comes second raises. `TreeAlwaysInUse` excuses
a missing tree only while a sync is between its renames, or when one was killed there and
its tree is still at `recipes.previous`; a death elsewhere excuses nothing.

`KernelUpdateProof`: `TypeCorrect`, `MenuAlwaysBoots`, `MenuAlwaysHasKernel` and
`RescueAlwaysKept` for any kernels, updates and faults. The argument is about the log:
every tree a power loss may bring back boots, not only the one processes see
(`LogBoots`). An update past `fsync` holds a whole, synchronised image; from `imagesync`
on its kernel has such an image (`Progress`), and synchronising the directory leaves only
trees that hold it; so switching the menu then is safe, whatever the other updates do,
since no step ever puts anything but a whole and synchronised image in place.
`KernelsKept` does the same for the menu's kernel and what was removed under an update,
`Faithful` follows a `copyfile` that no update of the same kernel overlaps.

`SessionProof`: `TypeCorrect`, `ExitAlwaysClean` and `KillPassAlwaysComplete` for any
number of processes and signals. The parent of a process is alive and was born before it,
or is the supervisor (`Family`), so that following parents from any process ends at the
supervisor (by well-founded induction, `Oldest`). During the SIGKILL pass every live
child of a process whose children were read is found or a stray (`Seen`); what is found is
killed, so when the wait begins a live child of the supervisor is a stray, and anything
else that lives has a living parent. What escapes is thus exactly bounded, and a process
that moves without leaving the sight of the pass does not.

`InstallerProof`: all properties of the run, for any live trees, calls and faults, and
for every disk that `Answers.validate` accepts (`LayoutAlwaysFits`, `EspAlwaysFat32`).
The invariant (`IInv`) keeps accounts at every label: while a call runs, or if nothing
but commands of the body has ever failed, what the program has recorded is what the
kernel holds, up to the one mount or mapping it is about to record (`Accounted`); and
whatever happened, nothing is mounted below a root that is not (`RootIsBase`), so that
the inspection before the first write sees every leftover. `HostMountsSurvive` and
`FailureIsClean` have the premises their comments state. The faults they exclude do harm:
one between a bind and its `make-rslave` has the cleanup take live mounts along, others
leave mounts, mappings or directories behind; a mount or mapping that is left makes the
next call refuse the disk.

Only model-checked: everything temporal that needs fairness (`JournalResolved`,
`QueueDrains`, `Terminates`, `CallsEnd`, `CleanupEnds`), since the prover does not reach
liveness. What is proved beside them is what a step may do: that a rollback never lacks a
preimage (`RollbackSafe`) and is never given up half way (`RollbacksAreWhole`), that a steady rebuild ends where it should
(`SteadyRebuildsComplete`), that a walk always shrinks (`WorkAlwaysShrinks`) and that no
builders wait in a ring (`NobodyWaitsInARing`).

## 5. What the checks found

1. `rmtree_undo`: recovery deletes the journal directory with `shutil.rmtree`
   (`packages.py:187`) in directory order. If `committed` goes before `journal.json`
   and the process dies, the next opening rolls a *committed* transaction back. If
   backups go as well, that rollback unlinks a file and then fails on its missing backup,
   at every opening after it. `docs/packages.md:40-41` says a committed journal is
   cleaned up.
2. `candidate`: `packages.py:262` refuses an upgrade when the candidate is *owned* even
   if the administrator has resolved (removed) it; the entry stays in the database, so
   the next changed default is refused until the package is removed.
   `docs/packages.md:47-48` asks only to resolve the existing candidate.
3. `rebuild_order`: `pkg rebuild` installs in the alphabetical order of the queue
   (`cli.py:190`), not in the order of the plan. If a queued dependency's ABI changed
   and it sorts after its client, the client is refused first, and again on every run.
   `SteadyRebuildsComplete` shows the converse: this order is the only ABI trouble that
   an undisturbed rebuild can meet.
4. `session_root`: `terminate_children()` catches only `ProcessLookupError`
   (`session.py:45-50`). If a descendant runs as root, `pidfd_send_signal` raises
   `PermissionError` in the middle of the sweep: the descendants after it are not
   signalled, nothing is killed or waited for, and the runtime directory stays.
   `docs/boot-and-sessions.md:53-54` says that a logout terminates session descendants.

Met on the way, without a run: `one()` computes the id at `build.py:88` and copies the
recipe's files into the sandbox at `build.py:110`, after waiting for locks and downloads.
A `pkg sync` in between has the new files built under the old id, and the artifact is
returned for that id from then on (`docs/packages.md:21` says that build IDs change when
inputs change). BuildSystem has this behaviour; what holds in spite of it is that the id
keeps one artifact.

## 6. What is not modelled, and why

* The crash model keeps every metadata change made before a death (a process death, or
  a machine crash on XFS with its ordered log). A power loss that loses an unsynced
  `unlink` (`packages.py:180` syncs no directory for a path that had no backup) is
  planned as a variant.
* Path syntax, ancestors and symlinks (`under`, `relative_path`) appear only as the
  refusals over a directory, in a transaction and in a recovery; an ancestor turned into
  a symlink behind the code's back makes both raise in the same places.
* Temporary `.vfos-*` files that a death leaves beside `packages.json`: no code
  reads them.
* The order in which a loop visits its paths: any order, which includes the code's.
* Hashes are taken to be injective; archives and manifests are values.
* In Transactions the administrator only makes and removes directories, and only while
  nobody holds the flock; his edits of files are PackageDb's.
* In KernelUpdate a kernel removed while an update of it runs may end up in the menu:
  `MenuHasKernel` sets these apart (`pulled`), since nothing in the code prevents it.
* In Installer the message of a failed call: an unmount that fails lets the mapping fail
  to close, and that error takes the place of the advice to inspect mounts
  (`installer.py:316-322`).
* In BuildCache: the builder root changing under a build, dependencies (part of the id),
  the moment between loading a recipe's header and taking its digests (one step of
  `Call`), and the quality of the log: that a builder killed before `inputs.json` leaves an
  artifact without it can be seen in the model (`logged`), but no property is about it.
* In RecipeSync: fetching, unpacking and validating, which touch only a temporary
  directory. The renames are taken to be on the disk, the files of a snapshot to be
  whole, although the code syncs neither. In BuildSystem a copy of a recipe directory
  (`copytree`) is one step: a sync between two of its files gives a mixture, which as far
  as the properties can tell is one more payload.
* In KernelUpdate: temporary files that a death leaves beside their targets, and the
  checks of `findmnt`, `crypttab` and the key, which read what nothing here changes.
* In Session: `run_child` (between fork and exec of the desktop), the reuse of process
  numbers, and a failing `rmtree`. A process that another thread than the main one forks
  is not in the `children` file the code reads; the wait for it has no bound, hence the
  second alternative of `CleanupEnds`.
* In Installer: anybody else using the disk between its last inspection and `sfdisk`
  (nothing in the code locks it), and the two assignments between `load_media` and the
  `try` that closes its packages.
* The release gate and `image.py` are sequential checks around programs that build the
  image. Archives (`Package`) and recipe files are parsed and validated without state of
  their own. `common.py` is durable writes, which the models take as atomic steps, and
  path checks. `bootstrap.py` always refuses.
* Third-party commands, dialogs, CI, GRUB text and recipes: no state of their own.

## 7. Plan

What is left, in order of worth:

1. `Builder`: BuildSystem composed with the package database of the builder root, which is
   queried, verified and copied under separate locks (`build.py:69`).
2. `Release`: the qualification gate, and `image` against a root that changes.
3. A durability variant of Transactions with lost unsynced directory changes
   (`packages.py:180`).
4. Package: an archive, its validation and what an installation reads of it later.
5. Proofs: that each pass of the session's sweep signals a process at most once, and what
   bounds a recovery of the journal.
