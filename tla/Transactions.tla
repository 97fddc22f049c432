---------------------------- MODULE Transactions ----------------------------
(***************************************************************************)
(* The rollback journal of vfos/packages.py (class Database): the advisory *)
(* lock, preimages and journal.json, payload writes, the database file,    *)
(* the commit marker, and the recovery that every opening runs.            *)
(*                                                                         *)
(* A step is one durable change of the filesystem, so that a process can   *)
(* be killed between any two of them; a copy is two steps with a torn file *)
(* in between. Every metadata change before a crash is taken to survive it *)
(* (the target root is XFS, whose metadata log is ordered).  The order in  *)
(* which a loop visits its paths is left open.  Between the commands that  *)
(* hold the flock the administrator may make directories of payload paths. *)
(***************************************************************************)
EXTENDS Payload, Naturals

CONSTANTS
  Proc,           \* vfos processes using one target root
  MaxFaults,      \* bound on the exceptions, deaths and new directories of one
                  \* behaviour
  CrashInRmtree   \* may rmtree be cut short between its deletions?

VARIABLES
  tree,       \* the payload paths of the target root
  dbfile,     \* packages.json, or None
  jdir,       \* does the directory transaction/ exist?
  record,     \* journal.json, or None
  backup,     \* the backup-i file of each path, or Absent
  marked,     \* does the file `committed' exist?
  altered,    \* history: paths the administrator changed since vfos last did
  lock,       \* holder of the flock, or None
  faults,     \* exceptions, deaths and new directories so far
  pc,         \* where each process is
  opening,    \* does locked() (not transaction()) wait for this recover()?
  todo,       \* paths the loop of this process has still to visit
  cur,        \* the path it is copying, or None
  goal,       \* the writes and deletes of its transaction
  data        \* self.data: the database it read under the lock

disk == <<tree, dbfile, jdir, record, backup, marked>>
journal == <<jdir, record, backup, marked>>
local == <<opening, todo, cur, goal, data>>
vars == <<disk, altered, lock, faults, pc, local>>

Records == [paths : SUBSET Path, kept : SUBSET Path, database : Databases \cup {None}]

Labels == {"idle", "recover", "restore", "clean", "cleaning", "open", "backup", "apply", "commit"}

NoGoal == [q \in Path |-> Keep]

NoBackup == [q \in Path |-> Absent]

ASSUME ProcessAssumption ==
  /\ None \notin Proc /\ None \notin Records
  /\ MaxFaults \in Nat
  /\ CrashInRmtree \in BOOLEAN

TypeOK ==
  /\ tree \in [Path -> Whole \cup {Torn}]
  /\ dbfile \in Databases \cup {None}
  /\ jdir \in BOOLEAN /\ marked \in BOOLEAN
  /\ record \in Records \cup {None}
  /\ backup \in [Path -> Content \cup {Absent, Torn}]
  /\ altered \subseteq Path
  /\ lock \in Proc \cup {None}
  /\ faults \in 0..MaxFaults
  /\ pc \in [Proc -> Labels]
  /\ opening \in [Proc -> BOOLEAN]
  /\ todo \in [Proc -> SUBSET Path]
  /\ cur \in [Proc -> Path \cup {None}]
  /\ goal \in [Proc -> Goals]
  /\ data \in [Proc -> Databases]

Init ==
  /\ tree \in [Path -> Whole]
  /\ dbfile = None
  /\ jdir = FALSE /\ record = None /\ backup = NoBackup /\ marked = FALSE
  /\ altered = {}
  /\ lock = None
  /\ faults = 0
  /\ pc = [p \in Proc |-> "idle"]
  /\ opening = [p \in Proc |-> FALSE]
  /\ todo = [p \in Proc |-> {}]
  /\ cur = [p \in Proc |-> None]
  /\ goal = [p \in Proc |-> NoGoal]
  /\ data = [p \in Proc |-> Recorded(None)]
-----------------------------------------------------------------------------
\* Leaving locked() releases the flock and drops the locals of the call.
Release(p) ==
  /\ lock' = IF lock = p THEN None ELSE lock
  /\ pc' = [pc EXCEPT ![p] = "idle"]
  /\ opening' = [opening EXCEPT ![p] = FALSE]
  /\ todo' = [todo EXCEPT ![p] = {}]
  /\ cur' = [cur EXCEPT ![p] = None]
  /\ goal' = [goal EXCEPT ![p] = NoGoal]
  /\ data' = [data EXCEPT ![p] = Recorded(None)]

\* recover() returns: locked() loads the database and runs its body, and a
\* transaction that ended (either way) leaves.
Return(p) ==
  IF opening[p]
  THEN /\ pc' = [pc EXCEPT ![p] = "open"]
       /\ data' = [data EXCEPT ![p] = Recorded(dbfile)]
       /\ UNCHANGED <<lock, opening, todo, cur, goal>>
  ELSE Release(p)

\* with locked(): flock, then recover().
Acquire(p) ==
  /\ pc[p] = "idle" /\ lock = None
  /\ lock' = p
  /\ pc' = [pc EXCEPT ![p] = "recover"]
  /\ opening' = [opening EXCEPT ![p] = TRUE]
  /\ UNCHANGED <<disk, altered, faults, todo, cur, goal, data>>

\* query, verify, or an operation that a check refuses before its first write.
Leave(p) ==
  /\ pc[p] = "open"
  /\ Release(p)
  /\ UNCHANGED <<disk, altered, faults>>

\* transaction() refuses to name a directory.
Replaceable(g) == \A q \in Touched(g) : tree[q] # Dir

\* transaction(): create the journal directory.
Begin(p) ==
  /\ pc[p] = "open"
  /\ \E g \in Goals :
       /\ Replaceable(g)
       /\ \A q \in Path : g[q] = Forget => data[p][q] # Absent
       /\ goal' = [goal EXCEPT ![p] = g]
       /\ todo' = [todo EXCEPT ![p] = Touched(g)]
  /\ cur' = [cur EXCEPT ![p] = None]
  /\ jdir' = TRUE
  /\ pc' = [pc EXCEPT ![p] = "backup"]
  /\ UNCHANGED <<tree, dbfile, record, backup, marked, altered, lock, faults, opening, data>>
-----------------------------------------------------------------------------
\* One round of the backup, restore or apply loop takes the next path; the
\* last two unlink it first, a restore only if it is no directory (Obstruct).
Pick(p) ==
  /\ pc[p] \in {"backup", "restore", "apply"} /\ cur[p] = None
  /\ \E q \in todo[p] :
       /\ pc[p] = "restore" => tree[q] # Dir
       /\ cur' = [cur EXCEPT ![p] = q]
       /\ tree' = IF pc[p] = "backup" THEN tree ELSE [tree EXCEPT ![q] = Absent]
  /\ UNCHANGED <<dbfile, journal, altered, lock, faults, pc, opening, todo, goal, data>>

\* What that round then copies; Absent if there is nothing to copy.
Source(p) ==
  CASE pc[p] = "backup"  -> tree[cur[p]]
    [] pc[p] = "restore" -> IF cur[p] \in record.kept THEN backup[cur[p]] ELSE Absent
    [] OTHER             -> goal[p][cur[p]]

\* Database.copy: the destination is torn until the whole file is there. A
\* restore whose backup is gone raises (Abort) instead.
Copy(p) ==
  /\ pc[p] \in {"backup", "restore", "apply"} /\ cur[p] # None
  /\ pc[p] = "restore" /\ cur[p] \in record.kept => Source(p) # Absent
  /\ \E v \in {Torn, Source(p)} :
       /\ v = Torn => Source(p) # Absent
       /\ IF pc[p] = "backup"
          THEN backup' = [backup EXCEPT ![cur[p]] = v] /\ UNCHANGED tree
          ELSE tree' = [tree EXCEPT ![cur[p]] = v] /\ UNCHANGED backup
       /\ IF v = Torn
          THEN UNCHANGED <<todo, cur>>
          ELSE /\ todo' = [todo EXCEPT ![p] = @ \ {cur[p]}]
               /\ cur' = [cur EXCEPT ![p] = None]
  /\ UNCHANGED <<dbfile, jdir, record, marked, altered, lock, faults, pc, opening, goal, data>>

\* The journal: what there was at each path, and the database of before.
Preimage(p) ==
  [paths    |-> Touched(goal[p]),
   kept     |-> {q \in Touched(goal[p]) : tree[q] # Absent},
   database |-> IF dbfile = None THEN None ELSE data[p]]

\* The preimages are durable: write journal.json.
BackedUp_Assumed(p) == pc[p] = "backup"
BackedUp(p) == pc[p] = "backup" /\ todo[p] = {}

WriteRecord(p) ==
  /\ BackedUp(p)
  /\ record' = Preimage(p)
  /\ todo' = [todo EXCEPT ![p] = Touched(goal[p])]
  /\ cur' = [cur EXCEPT ![p] = None]
  /\ pc' = [pc EXCEPT ![p] = "apply"]
  /\ UNCHANGED <<tree, dbfile, jdir, backup, marked, altered, lock, faults, opening, goal, data>>

\* Every path is in place: replace packages.json.
WriteDatabase(p) ==
  /\ pc[p] = "apply" /\ todo[p] = {}
  /\ dbfile' = Registered(goal[p], data[p])
  /\ pc' = [pc EXCEPT ![p] = "commit"]
  /\ UNCHANGED <<tree, journal, altered, lock, faults, local>>

\* Create the marker; recover() then only cleans up, and the command leaves.
Commit(p) ==
  /\ pc[p] = "commit"
  /\ marked' = TRUE
  /\ pc' = [pc EXCEPT ![p] = "recover"]
  /\ opening' = [opening EXCEPT ![p] = FALSE]
  /\ altered' = altered \ Touched(goal[p])
  /\ UNCHANGED <<tree, dbfile, jdir, record, backup, lock, faults, todo, cur, goal, data>>
-----------------------------------------------------------------------------
\* A journal that recover() only has to remove, and one it has to roll back.
Settled_Always == jdir
Settled_Marked == jdir /\ marked
Settled == jdir /\ (record = None \/ marked)

Unsettled == record # None /\ ~marked

\* recover(): nothing to do, a committed or unfinished journal to clean up, or
\* a transaction to roll back.
Recover(p) ==
  /\ pc[p] = "recover"
  /\ \/ /\ ~jdir
        /\ Return(p)
     \/ /\ Settled
        /\ pc' = [pc EXCEPT ![p] = "clean"]
        /\ UNCHANGED <<lock, local>>
     \/ /\ Unsettled
        /\ pc' = [pc EXCEPT ![p] = "restore"]
        /\ todo' = [todo EXCEPT ![p] = record.paths]
        /\ cur' = [cur EXCEPT ![p] = None]
        /\ UNCHANGED <<lock, opening, goal, data>>
  /\ UNCHANGED <<disk, altered, faults>>

\* recover() meets a directory at the next path: it raises out of locked(), and
\* the journal stays as it is.
Obstruct_Skip(p) ==
  /\ pc[p] = "restore" /\ cur[p] = None
  /\ \E q \in todo[p] : tree[q] = Dir /\ todo' = [todo EXCEPT ![p] = @ \ {q}]
  /\ UNCHANGED <<disk, altered, lock, faults, pc, opening, cur, goal, data>>
Obstruct(p) ==
  /\ pc[p] = "restore" /\ cur[p] = None
  /\ \E q \in todo[p] : tree[q] = Dir
  /\ Release(p)
  /\ UNCHANGED <<disk, altered, faults>>

\* The preimages are back: put the old packages.json back, or remove it.
Restored_NotDatabase == dbfile
Restored == record.database

RestoreDatabase(p) ==
  /\ pc[p] = "restore" /\ todo[p] = {}
  /\ dbfile' = Restored
  /\ pc' = [pc EXCEPT ![p] = "clean"]
  /\ UNCHANGED <<tree, journal, altered, lock, faults, local>>

\* rmtree(transaction/) deletes the entries in directory order, which is any.
Clean(p) ==
  /\ pc[p] \in {"clean", "cleaning"}
  /\ \/ record # None /\ record' = None /\ UNCHANGED <<backup, marked>>
     \/ marked /\ marked' = FALSE /\ UNCHANGED <<record, backup>>
     \/ \E q \in Path :
          /\ backup[q] # Absent
          /\ backup' = [backup EXCEPT ![q] = Absent]
          /\ UNCHANGED <<record, marked>>
  /\ pc' = [pc EXCEPT ![p] = "cleaning"]
  /\ UNCHANGED <<tree, dbfile, jdir, altered, lock, faults, local>>

\* The directory is empty: rmtree removes it and recover() returns.
CleanDone(p) ==
  /\ pc[p] \in {"clean", "cleaning"}
  /\ record = None /\ ~marked /\ backup = NoBackup
  /\ jdir' = FALSE
  /\ Return(p)
  /\ UNCHANGED <<tree, dbfile, record, backup, marked, altered, faults>>
-----------------------------------------------------------------------------
\* An exception inside the try block of transaction() rolls back at once.
Rollback(p) ==
  /\ pc[p] \in {"apply", "commit"}
  /\ faults < MaxFaults /\ faults' = faults + 1
  /\ pc' = [pc EXCEPT ![p] = "recover"]
  /\ opening' = [opening EXCEPT ![p] = FALSE]
  /\ todo' = [todo EXCEPT ![p] = {}]
  /\ cur' = [cur EXCEPT ![p] = None]
  /\ UNCHANGED <<disk, altered, lock, goal, data>>

\* rmtree has deleted something, and what is left reads as a transaction that
\* must be rolled back.
JournalSpoiled(p) == pc[p] = "cleaning" /\ Unsettled

\* The process dies, or an exception elsewhere leaves locked(): the kernel
\* drops the flock and the disk stays as it is.
Abort(p) ==
  /\ pc[p] # "idle"
  /\ JournalSpoiled(p) => CrashInRmtree
  /\ faults < MaxFaults /\ faults' = faults + 1
  /\ Release(p)
  /\ UNCHANGED <<disk, altered>>

\* packages.py:5-6: callers keep the tree private while vfos is at it. Between
\* its commands the administrator makes a directory of a path, or removes one.
\* A rollback that is still to come puts the path back.
Administer(q) ==
  /\ lock = None
  /\ \/ /\ tree[q] # Dir /\ tree' = [tree EXCEPT ![q] = Dir]
        /\ faults < MaxFaults /\ faults' = faults + 1
     \/ /\ tree[q] = Dir /\ tree' = [tree EXCEPT ![q] = Absent]
        /\ UNCHANGED faults
  /\ altered' = altered \cup (IF Unsettled THEN {q} \ record.paths ELSE {q})
  /\ UNCHANGED <<dbfile, journal, lock, pc, local>>

Progress(p) ==
  \/ Leave(p) \/ Begin(p)
  \/ Pick(p) \/ Copy(p) \/ WriteRecord(p) \/ WriteDatabase(p) \/ Commit(p)
  \/ Recover(p) \/ Obstruct(p) \/ RestoreDatabase(p) \/ Clean(p) \/ CleanDone(p)

Next ==
  \/ \E p \in Proc : Acquire(p) \/ Progress(p) \/ Rollback(p) \/ Abort(p)
  \/ \E q \in Path : Administer(q)

Spec == Init /\ [][Next]_vars

\* A running process keeps running, and somebody opens the database again.
Fairness ==
  /\ \A p \in Proc : WF_vars(Progress(p))
  /\ WF_vars(\E p \in Proc : Acquire(p))

FairSpec == Spec /\ Fairness
-----------------------------------------------------------------------------
\* The journal, not the tree, holds the state a recovery will restore. While
\* rmtree runs the tree is already right, whatever is left of the journal.
Pending == Unsettled /\ \A p \in Proc : pc[p] # "cleaning"

\* What a rollback puts at a path the journal names.
Undo(q) == IF q \in record.kept THEN backup[q] ELSE Absent

\* The tree and database a recovery of the present disk would leave.
EffectiveTree ==
  [q \in Path |-> IF Pending /\ q \in record.paths THEN Undo(q) ELSE tree[q]]

EffectiveDb == IF Pending THEN record.database ELSE dbfile

Abstract == INSTANCE AtomicTree WITH tree <- EffectiveTree, db <- EffectiveDb

\* packages.py:1-7 and docs/packages.md:37-41. Whatever is killed or fails, each
\* transaction takes effect as a whole, on top of those before it, at the moment
\* its commit marker appears, or not at all.
Atomic == Abstract!Spec

\* packages.py:160-166. A body of locked() (query, verify, install, remove)
\* never sees a torn file, or an owned path that differs from the database and
\* that the administrator did not change since, even when it opened the root
\* after a crash in the middle of a transaction.
BodiesSeeWholeTransactions ==
  \A p \in Proc : pc[p] = "open" =>
    /\ data[p] = Recorded(dbfile)
    /\ \A q \in Path :
         /\ tree[q] # Torn
         /\ data[p][q] # Absent /\ q \notin altered => tree[q] = data[p][q]

\* packages.py:174-188. A journal that asks for a rollback can always be rolled
\* back: every preimage it names is there in full, so recovery cannot fail on a
\* missing backup after it has unlinked the file.
RollbackPossible ==
  Pending => \A q \in record.kept : backup[q] \in Content

\* packages.py:174-187. A journal that asks for a rollback is given up only for
\* a commit, or once every path it names and the database are back: a rollback
\* that meets a directory on its way, whatever it has restored by then, keeps
\* the journal for the next opening.
RolledBack == (\A q \in record.paths : tree[q] = Undo(q)) /\ dbfile = record.database

RollbackIsWhole == [][Pending /\ ~Pending' => marked' \/ RolledBack]_vars

\* A recovery that cannot succeed before somebody removes a directory.
Obstructed == Unsettled /\ \E q \in record.paths : tree[q] = Dir

\* packages.py:164, 178-179, README.md:51-52. An interrupted transaction does
\* not stay behind: once somebody opens the database again its journal is
\* resolved, as soon as no directory is in the way.
JournalResolved == jdir ~> ~jdir \/ Obstructed
=============================================================================
