------------------------- MODULE TransactionsProof --------------------------
(***************************************************************************)
(* Proofs about Transactions, for any number of paths, contents, processes *)
(* and faults.  Part 1 holds even when rmtree may be cut short: the types  *)
(* of the variables.  Part 2 assumes that rmtree of the journal is not cut *)
(* short, and proves that transactions are atomic, that a journal is given *)
(* up only after a whole rollback, and what follows from that.             *)
(***************************************************************************)
EXTENDS Transactions, TLAPS

\* The flock: whoever is past it holds it.
Mutex == \A p \in Proc : pc[p] # "idle" <=> lock = p

\* Without its directory there is no journal.
NoStrayJournal == ~jdir => record = None /\ ~marked

\* A transaction in progress names no directory, and its loop copies a path it
\* has still to finish.
LoopInv(p) ==
  /\ todo[p] \subseteq Touched(goal[p])
  /\ cur[p] \in todo[p] \cup {None}
  /\ \A q \in Touched(goal[p]) : tree[q] # Dir

\* The same of a rollback in progress, which needs a record to follow.
RestoreLoopInv(p) ==
  /\ jdir /\ Unsettled
  /\ todo[p] \subseteq record.paths
  /\ cur[p] \in todo[p] \cup {None}

Loops ==
  \A p \in Proc :
    /\ pc[p] \in {"backup", "apply"} => LoopInv(p)
    /\ pc[p] \in {"backup", "apply", "commit"} => jdir
    /\ pc[p] = "restore" => RestoreLoopInv(p)

WInv == TypeOK /\ Mutex /\ NoStrayJournal /\ Loops
-----------------------------------------------------------------------------
\* What a transaction leaves at each path, and records of it.
LEMMA GoalEffect ==
  ASSUME NEW g \in Goals, NEW f, NEW q \in Path
  PROVE  /\ q \in Touched(g) <=> g[q] \in Content \cup {Absent}
         /\ Overlay(g, f)[q] = IF q \in Touched(g) THEN g[q] ELSE f[q]
         /\ Registered(g, f)[q] = IF g[q] = Forget THEN Absent
                                  ELSE IF q \in Touched(g) THEN g[q] ELSE f[q]
BY MarkersDistinct DEF Goals, Touched, Overlay, Registered

LEMMA RegisteredType ==
  ASSUME NEW g \in Goals, NEW f \in Databases
  PROVE  Registered(g, f) \in Databases
<1>1. \A q \in Path : Registered(g, f)[q] \in Content \cup {Absent}
  BY GoalEffect DEF Databases
<1> QED
  BY <1>1 DEF Registered, Databases

LEMMA RecordedType ==
  ASSUME NEW f \in Databases \cup {None}
  PROVE  Recorded(f) \in Databases
BY MarkersDistinct DEF Recorded, Databases

LEMMA NoGoalType == NoGoal \in Goals
BY DEF NoGoal, Goals

\* Releasing the lock, and a return of recover(), keep the types.
LEMMA ReleaseType ==
  ASSUME TypeOK, NEW p \in Proc, Release(p)
  PROVE  /\ lock' \in Proc \cup {None}
         /\ pc' \in [Proc -> Labels]
         /\ opening' \in [Proc -> BOOLEAN]
         /\ todo' \in [Proc -> SUBSET Path]
         /\ cur' \in [Proc -> Path \cup {None}]
         /\ goal' \in [Proc -> Goals]
         /\ data' \in [Proc -> Databases]
BY NoGoalType, RecordedType DEF Release, TypeOK, Labels

LEMMA ReturnType ==
  ASSUME TypeOK, NEW p \in Proc, Return(p)
  PROVE  /\ lock' \in Proc \cup {None}
         /\ pc' \in [Proc -> Labels]
         /\ opening' \in [Proc -> BOOLEAN]
         /\ todo' \in [Proc -> SUBSET Path]
         /\ cur' \in [Proc -> Path \cup {None}]
         /\ goal' \in [Proc -> Goals]
         /\ data' \in [Proc -> Databases]
BY ReleaseType, RecordedType DEF Return, TypeOK, Labels

LEMMA InitWInv == Init => WInv
<1> SUFFICES ASSUME Init PROVE WInv
  OBVIOUS
<1>1. TypeOK
  <2>1. Recorded(None) \in Databases
    BY RecordedType
  <2>2. tree \in [Path -> Whole \cup {Torn}]
    BY DEF Init
  <2>3. backup \in [Path -> Content \cup {Absent, Torn}]
    BY DEF Init, NoBackup
  <2>4. faults \in 0..MaxFaults
    BY ProcessAssumption DEF Init
  <2>5. /\ pc \in [Proc -> Labels]
        /\ opening \in [Proc -> BOOLEAN]
        /\ todo \in [Proc -> SUBSET Path]
        /\ cur \in [Proc -> Path \cup {None}]
        /\ goal \in [Proc -> Goals]
        /\ data \in [Proc -> Databases]
    BY <2>1, NoGoalType DEF Init, Labels
  <2> QED
    BY <2>2, <2>3, <2>4, <2>5 DEF TypeOK, Init
<1>2. Mutex
  BY ProcessAssumption DEF Init, Mutex
<1>3. NoStrayJournal /\ Loops
  BY DEF Init, NoStrayJournal, Loops
<1> QED
  BY <1>1, <1>2, <1>3 DEF WInv
-----------------------------------------------------------------------------
\* Only the process that holds the flock is past it.
LEMMA OthersIdle ==
  ASSUME Mutex, NEW p \in Proc, pc[p] # "idle"
  PROVE  lock = p /\ \A r \in Proc \ {p} : pc[r] = "idle"
BY DEF Mutex

\* A step that moves the holder to another label keeps the mutual exclusion.
LEMMA MutexKept ==
  ASSUME Mutex, TypeOK, NEW p \in Proc, pc[p] # "idle", NEW l \in Labels, l # "idle",
         lock' = lock, pc' = [pc EXCEPT ![p] = l]
  PROVE  Mutex'
BY OthersIdle DEF Mutex, TypeOK

\* So does one that leaves.
LEMMA MutexReleased ==
  ASSUME Mutex, TypeOK, NEW p \in Proc, pc[p] # "idle", Release(p)
  PROVE  Mutex' /\ \A r \in Proc : pc'[r] = "idle"
BY OthersIdle, ProcessAssumption DEF Mutex, TypeOK, Release

LEMMA MutexReturned ==
  ASSUME Mutex, TypeOK, NEW p \in Proc, pc[p] # "idle", Return(p)
  PROVE  Mutex' /\ \A r \in Proc : pc'[r] \in {"idle", "open"}
<1>1. CASE opening[p]
  <2>1. lock' = lock /\ pc' = [pc EXCEPT ![p] = "open"]
    BY <1>1 DEF Return
  <2>2. Mutex'
    BY <2>1, MutexKept DEF Labels
  <2> QED
    BY <2>1, <2>2, OthersIdle DEF TypeOK
<1>2. CASE ~opening[p]
  BY <1>2, MutexReleased DEF Return
<1> QED
  BY <1>1, <1>2

\* A step of p that leaves p at a label without a loop owes Loops nothing else
\* than that.
LEMMA LoopsIdle ==
  ASSUME \A r \in Proc : pc'[r] \notin {"backup", "apply", "commit", "restore"}
  PROVE  Loops'
BY DEF Loops

\* The holder's own clause is the only one that matters.
LEMMA LoopsHolder ==
  ASSUME Mutex, TypeOK, NEW p \in Proc, pc[p] # "idle", NEW l \in Labels,
         pc' = [pc EXCEPT ![p] = l],
         l \in {"backup", "apply"} => LoopInv(p)',
         l \in {"backup", "apply", "commit"} => jdir',
         l = "restore" => RestoreLoopInv(p)'
  PROVE  Loops'
BY OthersIdle DEF Loops, TypeOK

LEMMA SourceType ==
  ASSUME WInv, NEW p \in Proc, pc[p] \in {"backup", "restore", "apply"}, cur[p] # None
  PROVE  /\ cur[p] \in todo[p] /\ cur[p] \in Path
         /\ Source(p) \in Content \cup {Absent, Torn}
<1>1. cur[p] \in todo[p] /\ cur[p] \in Path
  BY DEF WInv, TypeOK, Loops, LoopInv, RestoreLoopInv
<1>2. CASE pc[p] = "backup"
  <2>1. cur[p] \in Touched(goal[p]) /\ tree[cur[p]] # Dir
    BY <1>1, <1>2 DEF WInv, Loops, LoopInv
  <2>2. Source(p) = tree[cur[p]]
    BY <1>2 DEF Source
  <2> QED
    BY <1>1, <2>1, <2>2 DEF WInv, TypeOK, Whole
<1>3. CASE pc[p] = "restore"
  <2>1. Source(p) \in {backup[cur[p]], Absent}
    BY <1>3 DEF Source
  <2> QED
    BY <1>1, <2>1 DEF WInv, TypeOK
<1>4. CASE pc[p] = "apply"
  <2>1. cur[p] \in Touched(goal[p])
    BY <1>1, <1>4 DEF WInv, Loops, LoopInv
  <2>2. Source(p) = goal[p][cur[p]]
    BY <1>4 DEF Source
  <2> QED
    BY <1>1, <2>1, <2>2 DEF WInv, TypeOK, Goals, Touched
<1> QED
  BY <1>1, <1>2, <1>3, <1>4
-----------------------------------------------------------------------------
LEMMA AcquireW == ASSUME WInv, NEW p \in Proc, Acquire(p) PROVE WInv'
<1>1. TypeOK'
  BY DEF WInv, TypeOK, Acquire, disk, Labels
<1>2. \A r \in Proc : pc[r] = "idle"
  BY ProcessAssumption DEF Acquire, WInv, Mutex
<1>3. Mutex' /\ Loops'
  BY <1>2, ProcessAssumption DEF Acquire, WInv, TypeOK, Mutex, Loops
<1>4. NoStrayJournal'
  BY DEF Acquire, WInv, disk, NoStrayJournal
<1> QED
  BY <1>1, <1>3, <1>4 DEF WInv

LEMMA LeaveW ==
  ASSUME WInv, NEW p \in Proc, Leave(p) \/ Obstruct(p) \/ Abort(p) PROVE WInv'
<1>1. /\ Release(p) /\ pc[p] # "idle"
      /\ UNCHANGED <<disk, altered>> /\ faults' \in 0..MaxFaults
  BY ProcessAssumption DEF Leave, Obstruct, Abort, WInv, TypeOK
<1>2. TypeOK'
  BY <1>1, ReleaseType DEF WInv, TypeOK, disk
<1>3. Mutex' /\ Loops'
  BY <1>1, MutexReleased, LoopsIdle DEF WInv
<1>4. NoStrayJournal'
  BY <1>1 DEF WInv, disk, NoStrayJournal
<1> QED
  BY <1>2, <1>3, <1>4 DEF WInv

LEMMA BeginW == ASSUME WInv, NEW p \in Proc, Begin(p) PROVE WInv'
<1> PICK g \in Goals : /\ Replaceable(g)
                       /\ goal' = [goal EXCEPT ![p] = g]
                       /\ todo' = [todo EXCEPT ![p] = Touched(g)]
  BY DEF Begin
<1>1. TypeOK'
  BY DEF WInv, TypeOK, Begin, Labels, Touched
<1>2. Mutex'
  BY MutexKept DEF Begin, WInv, Labels
<1>3. LoopInv(p)'
  BY DEF WInv, TypeOK, Begin, LoopInv, Replaceable
<1>4. Loops'
  BY <1>3, LoopsHolder DEF Begin, WInv, Labels
<1>5. NoStrayJournal'
  BY DEF Begin, WInv, NoStrayJournal
<1> QED
  BY <1>1, <1>2, <1>4, <1>5 DEF WInv

LEMMA PickW == ASSUME WInv, NEW p \in Proc, Pick(p) PROVE WInv'
<1> PICK q \in todo[p] :
      /\ cur' = [cur EXCEPT ![p] = q]
      /\ tree' = IF pc[p] = "backup" THEN tree ELSE [tree EXCEPT ![q] = Absent]
  BY DEF Pick
<1>1. q \in Path
  BY DEF WInv, TypeOK
<1>2. TypeOK'
  BY <1>1 DEF WInv, TypeOK, Pick, journal, Whole
<1>3. Mutex'
  BY DEF Pick, WInv, Mutex
<1>4. \A r \in Path : tree[r] # Dir => tree'[r] # Dir
  BY <1>1, MarkersDistinct DEF WInv, TypeOK
<1>5. pc' = [pc EXCEPT ![p] = pc[p]]
  BY DEF Pick, WInv, TypeOK
<1>6. pc[p] \in {"backup", "apply"} => LoopInv(p)'
  BY <1>4 DEF WInv, TypeOK, Loops, Pick, LoopInv, Touched
<1>7. pc[p] = "restore" => RestoreLoopInv(p)'
  BY DEF WInv, TypeOK, Loops, Pick, journal, RestoreLoopInv, Unsettled
<1>8. Loops'
  BY <1>5, <1>6, <1>7, LoopsHolder DEF Pick, journal, WInv, Loops, Labels
<1> QED
  BY <1>2, <1>3, <1>8 DEF WInv, NoStrayJournal, Pick, journal

LEMMA CopyW == ASSUME WInv, NEW p \in Proc, Copy(p) PROVE WInv'
<1> PICK v \in {Torn, Source(p)} :
      /\ v = Torn => Source(p) # Absent
      /\ IF pc[p] = "backup"
         THEN backup' = [backup EXCEPT ![cur[p]] = v] /\ UNCHANGED tree
         ELSE tree' = [tree EXCEPT ![cur[p]] = v] /\ UNCHANGED backup
      /\ IF v = Torn
         THEN UNCHANGED <<todo, cur>>
         ELSE /\ todo' = [todo EXCEPT ![p] = @ \ {cur[p]}]
              /\ cur' = [cur EXCEPT ![p] = None]
  BY DEF Copy
<1>1. cur[p] \in todo[p] /\ cur[p] \in Path /\ v \in Content \cup {Absent, Torn}
  BY SourceType DEF Copy
<1>2. TypeOK'
  <2>1. backup' \in [Path -> Content \cup {Absent, Torn}]
    BY <1>1 DEF WInv, TypeOK
  <2>2. tree' \in [Path -> Whole \cup {Torn}]
    BY <1>1 DEF WInv, TypeOK, Whole
  <2>3. todo' \in [Proc -> SUBSET Path] /\ cur' \in [Proc -> Path \cup {None}]
    BY DEF WInv, TypeOK
  <2> QED
    BY <2>1, <2>2, <2>3 DEF WInv, TypeOK, Copy
<1>3. Mutex'
  BY DEF Copy, WInv, Mutex
<1>4. \A r \in Path : tree[r] # Dir => tree'[r] # Dir
  BY <1>1, MarkersDistinct DEF WInv, TypeOK
<1>5. pc' = [pc EXCEPT ![p] = pc[p]]
  BY DEF Copy, WInv, TypeOK
<1>6. pc[p] \in {"backup", "apply"} => LoopInv(p)'
  BY <1>4 DEF WInv, TypeOK, Loops, Copy, LoopInv, Touched
<1>7. pc[p] = "restore" => RestoreLoopInv(p)'
  BY DEF WInv, TypeOK, Loops, Copy, RestoreLoopInv, Unsettled
<1>8. Loops'
  BY <1>5, <1>6, <1>7, LoopsHolder DEF Copy, WInv, Loops, Labels
<1> QED
  BY <1>2, <1>3, <1>8 DEF WInv, NoStrayJournal, Copy

LEMMA PreimageType ==
  ASSUME TypeOK, NEW p \in Proc
  PROVE  /\ Preimage(p) \in Records /\ Preimage(p) # None
         /\ Preimage(p).paths = Touched(goal[p])
         /\ Preimage(p).kept = {q \in Touched(goal[p]) : tree[q] # Absent}
         /\ Preimage(p).database = IF dbfile = None THEN None ELSE data[p]
BY ProcessAssumption DEF Preimage, Records, Touched, TypeOK

LEMMA WriteRecordW == ASSUME WInv, NEW p \in Proc, WriteRecord(p) PROVE WInv'
<1>1. pc[p] = "backup" /\ LoopInv(p) /\ jdir
  BY DEF WriteRecord, BackedUp, WInv, Loops
<1>2. TypeOK'
  BY PreimageType DEF WriteRecord, WInv, TypeOK, Labels, Touched
<1>3. Mutex'
  BY <1>1, MutexKept DEF WriteRecord, WInv, Labels
<1>4. NoStrayJournal'
  BY <1>1 DEF WriteRecord, NoStrayJournal
<1>5. LoopInv(p)'
  BY <1>1 DEF WriteRecord, LoopInv, WInv, TypeOK
<1>6. Loops'
  BY <1>1, <1>5, LoopsHolder DEF WriteRecord, WInv, Labels
<1> QED
  BY <1>2, <1>3, <1>4, <1>6 DEF WInv

LEMMA WriteDatabaseW == ASSUME WInv, NEW p \in Proc, WriteDatabase(p) PROVE WInv'
<1>1. pc[p] = "apply" /\ jdir
  BY DEF WriteDatabase, WInv, Loops
<1>2. TypeOK'
  BY RegisteredType DEF WriteDatabase, WInv, TypeOK, Labels, journal, local
<1>3. Mutex' /\ Loops'
  BY <1>1, MutexKept, LoopsHolder DEF WriteDatabase, WInv, Labels, journal
<1>4. NoStrayJournal'
  BY DEF WriteDatabase, WInv, NoStrayJournal, journal
<1> QED
  BY <1>2, <1>3, <1>4 DEF WInv

LEMMA CommitW == ASSUME WInv, NEW p \in Proc, Commit(p) PROVE WInv'
<1>1. pc[p] = "commit" /\ jdir
  BY DEF Commit, WInv, Loops
<1>2. TypeOK'
  BY DEF Commit, WInv, TypeOK, Labels
<1>3. Mutex' /\ Loops'
  BY <1>1, MutexKept, LoopsHolder DEF Commit, WInv, Labels
<1>4. NoStrayJournal'
  BY <1>1 DEF Commit, WInv, NoStrayJournal
<1> QED
  BY <1>2, <1>3, <1>4 DEF WInv

LEMMA RecoverW == ASSUME WInv, NEW p \in Proc, Recover(p) PROVE WInv'
<1>1. pc[p] = "recover" /\ UNCHANGED <<disk, altered>> /\ faults' = faults
  BY DEF Recover
<1>2. NoStrayJournal'
  BY <1>1 DEF WInv, disk, NoStrayJournal
<1>3. CASE Return(p)
  <2>1. TypeOK'
    BY <1>1, <1>3, ReturnType DEF WInv, TypeOK, disk
  <2>2. Mutex' /\ Loops'
    BY <1>1, <1>3, MutexReturned, LoopsIdle DEF WInv
  <2> QED
    BY <1>2, <2>1, <2>2 DEF WInv
<1>4. CASE pc' = [pc EXCEPT ![p] = "clean"] /\ UNCHANGED <<lock, local>>
  <2>1. TypeOK'
    BY <1>1, <1>4 DEF WInv, TypeOK, disk, local, Labels
  <2>2. Mutex' /\ Loops'
    BY <1>1, <1>4, MutexKept, LoopsHolder DEF WInv, Labels
  <2> QED
    BY <1>2, <2>1, <2>2 DEF WInv
<1>5. CASE /\ Unsettled
           /\ pc' = [pc EXCEPT ![p] = "restore"]
           /\ todo' = [todo EXCEPT ![p] = record.paths]
           /\ cur' = [cur EXCEPT ![p] = None]
           /\ UNCHANGED <<lock, opening, goal, data>>
  <2>1. record.paths \subseteq Path
    BY <1>5 DEF WInv, TypeOK, Unsettled, Records
  <2>2. TypeOK'
    BY <1>1, <1>5, <2>1 DEF WInv, TypeOK, disk, Labels
  <2>3. RestoreLoopInv(p)'
    BY <1>1, <1>5 DEF WInv, TypeOK, NoStrayJournal, RestoreLoopInv, Unsettled, disk
  <2>4. Mutex' /\ Loops'
    BY <1>1, <1>5, <2>3, MutexKept, LoopsHolder DEF WInv, Labels
  <2> QED
    BY <1>2, <2>2, <2>4 DEF WInv
<1> QED
  BY <1>3, <1>4, <1>5 DEF Recover

LEMMA RestoreDatabaseW == ASSUME WInv, NEW p \in Proc, RestoreDatabase(p) PROVE WInv'
<1>1. pc[p] = "restore" /\ Unsettled
  BY DEF RestoreDatabase, WInv, Loops, RestoreLoopInv
<1>2. dbfile' \in Databases \cup {None}
  BY <1>1 DEF RestoreDatabase, Restored, WInv, TypeOK, Records, Unsettled
<1>3. TypeOK'
  BY <1>2 DEF RestoreDatabase, WInv, TypeOK, Labels, journal, local
<1>4. Mutex' /\ Loops'
  BY <1>1, MutexKept, LoopsHolder DEF RestoreDatabase, WInv, Labels
<1>5. NoStrayJournal'
  BY DEF RestoreDatabase, WInv, NoStrayJournal, journal
<1> QED
  BY <1>3, <1>4, <1>5 DEF WInv

LEMMA CleanW == ASSUME WInv, NEW p \in Proc, Clean(p) PROVE WInv'
<1>1. pc[p] \in {"clean", "cleaning"}
  BY DEF Clean
<1>2. /\ record' \in {record, None} /\ marked' \in {marked, FALSE}
      /\ backup' \in [Path -> Content \cup {Absent, Torn}]
  BY DEF Clean, WInv, TypeOK
<1>3. TypeOK'
  BY <1>2 DEF Clean, WInv, TypeOK, Labels, local
<1>4. Mutex' /\ Loops'
  BY <1>1, MutexKept, LoopsHolder DEF Clean, WInv, Labels
<1>5. NoStrayJournal'
  BY <1>2 DEF Clean, WInv, NoStrayJournal
<1> QED
  BY <1>3, <1>4, <1>5 DEF WInv

LEMMA CleanDoneW == ASSUME WInv, NEW p \in Proc, CleanDone(p) PROVE WInv'
<1>1. pc[p] # "idle" /\ Return(p)
  BY DEF CleanDone
<1>2. TypeOK'
  BY <1>1, ReturnType DEF CleanDone, WInv, TypeOK
<1>3. Mutex' /\ Loops'
  BY <1>1, MutexReturned, LoopsIdle DEF WInv
<1>4. NoStrayJournal'
  BY DEF CleanDone, WInv, NoStrayJournal
<1> QED
  BY <1>2, <1>3, <1>4 DEF WInv

LEMMA RollbackW == ASSUME WInv, NEW p \in Proc, Rollback(p) PROVE WInv'
<1>1. pc[p] # "idle" /\ faults' \in 0..MaxFaults
  BY ProcessAssumption DEF Rollback, WInv, TypeOK
<1>2. TypeOK'
  BY <1>1 DEF Rollback, WInv, TypeOK, Labels, disk
<1>3. Mutex' /\ Loops'
  BY <1>1, MutexKept, LoopsHolder DEF Rollback, WInv, Labels
<1>4. NoStrayJournal'
  BY DEF Rollback, WInv, NoStrayJournal, disk
<1> QED
  BY <1>2, <1>3, <1>4 DEF WInv

\* Only the holder of the flock is in a loop, and there is none.
LEMMA AdministerW == ASSUME WInv, NEW q \in Path, Administer(q) PROVE WInv'
<1>1. \A p \in Proc : pc[p] = "idle"
  BY ProcessAssumption DEF Administer, WInv, Mutex
<1>2. TypeOK'
  <2>1. faults' \in 0..MaxFaults
    BY ProcessAssumption DEF Administer, WInv, TypeOK
  <2>2. tree' \in [Path -> Whole \cup {Torn}] /\ altered' \subseteq Path
    BY DEF Administer, WInv, TypeOK, Whole
  <2> QED
    BY <2>1, <2>2 DEF Administer, WInv, TypeOK, journal, local
<1>3. Mutex' /\ NoStrayJournal'
  BY DEF Administer, WInv, Mutex, NoStrayJournal, journal
<1>4. Loops'
  BY <1>1 DEF Administer, Loops
<1> QED
  BY <1>2, <1>3, <1>4 DEF WInv

LEMMA StutterW == ASSUME WInv, UNCHANGED vars PROVE WInv'
BY DEF WInv, TypeOK, Mutex, NoStrayJournal, Loops, LoopInv,
       RestoreLoopInv, Unsettled, vars, disk, local

LEMMA NextW == ASSUME WInv, [Next]_vars PROVE WInv'
<1>1. CASE UNCHANGED vars
  BY <1>1, StutterW
<1>2. ASSUME NEW p \in Proc, Acquire(p) \/ Progress(p) \/ Rollback(p) \/ Abort(p)
      PROVE  WInv'
  BY <1>2, AcquireW, LeaveW, BeginW, PickW, CopyW, WriteRecordW, WriteDatabaseW, CommitW,
     RecoverW, RestoreDatabaseW, CleanW, CleanDoneW, RollbackW DEF Progress
<1> QED
  BY <1>1, <1>2, AdministerW DEF Next

THEOREM WInvInvariant == Spec => []WInv
BY InitWInv, NextW, PTL DEF Spec

\* TypeOK holds in every reachable state, however rmtree is cut short: no value
\* of another kind ever reaches the database, the journal or a local.
THEOREM TypeCorrect == Spec => []TypeOK
BY WInvInvariant, PTL DEF WInv
-----------------------------------------------------------------------------
(***************************************************************************)
(* Part 2.                                                                 *)
(***************************************************************************)
\* A journal that asks for a rollback has every preimage it names.
JournalComplete ==
  Pending => /\ record.kept \subseteq record.paths
             /\ \A q \in record.kept : backup[q] \in Content

\* What recovery would leave is whole and, where the administrator left it
\* alone, agrees with the database.
Consistent ==
  \A q \in Path :
    /\ EffectiveTree[q] # Torn
    /\ Recorded(EffectiveDb)[q] # Absent /\ q \notin altered =>
         EffectiveTree[q] = Recorded(EffectiveDb)[q]

OpenInv(p) == ~jdir /\ data[p] = Recorded(dbfile)

BackupInv(p) ==
  /\ record = None /\ ~marked
  /\ data[p] = Recorded(dbfile)
  /\ \A q \in Touched(goal[p]) : q \notin todo[p] => backup[q] = tree[q]

\* The payload is being replaced: the journal holds what there was.
ReplaceInv(p) ==
  /\ Unsettled
  /\ record.paths = Touched(goal[p])
  /\ data[p] = Recorded(record.database)

ApplyInv(p) ==
  /\ ReplaceInv(p)
  /\ \A q \in Touched(goal[p]) : q \notin todo[p] => tree[q] = goal[p][q]

CommitInv(p) ==
  /\ ReplaceInv(p)
  /\ \A q \in Touched(goal[p]) : tree[q] = goal[p][q]
  /\ dbfile = Registered(goal[p], data[p])

RestoreInv(p) ==
  \A q \in record.paths : q \notin todo[p] => tree[q] = Undo(q)

CleanInv(p) == EffectiveTree = tree /\ EffectiveDb = dbfile

Phase(p) ==
  /\ pc[p] = "open"    => OpenInv(p)
  /\ pc[p] = "backup"  => BackupInv(p)
  /\ pc[p] = "apply"   => ApplyInv(p)
  /\ pc[p] = "commit"  => CommitInv(p)
  /\ pc[p] = "restore" => RestoreInv(p)
  /\ pc[p] = "clean"   => CleanInv(p)

Phases == \A p \in Proc : Phase(p)

IInv == WInv /\ JournalComplete /\ Consistent /\ Phases

effective == <<EffectiveTree, EffectiveDb>>
-----------------------------------------------------------------------------
\* Whether the journal is pending is decided by the holder of the flock alone.
LEMMA PendingOfHolder ==
  ASSUME Mutex, NEW p \in Proc, pc[p] # "idle"
  PROVE  Pending <=> Unsettled /\ pc[p] # "cleaning"
BY OthersIdle DEF Pending

LEMMA PendingAfter ==
  ASSUME Mutex, TypeOK, NEW p \in Proc, pc[p] # "idle", NEW l \in Labels,
         pc' = [pc EXCEPT ![p] = l]
  PROVE  /\ Pending' <=> Unsettled' /\ l # "cleaning"
         /\ pc'[p] = l
         /\ Phases' <=> Phase(p)'
<1>1. pc'[p] = l /\ \A r \in Proc \ {p} : pc'[r] = "idle"
  BY OthersIdle DEF TypeOK
<1>2. Pending' <=> Unsettled' /\ l # "cleaning"
  BY <1>1 DEF Pending
<1>3. \A r \in Proc \ {p} : Phase(r)'
  BY <1>1 DEF Phase
<1>4. Phases' <=> Phase(p)'
  BY <1>3 DEF Phases
<1> QED
  BY <1>1, <1>2, <1>4

LEMMA PendingAtRest ==
  ASSUME \A r \in Proc : pc'[r] \in {"idle", "open", "recover"}
  PROVE  Pending' <=> Unsettled'
BY DEF Pending

\* A pending journal shadows the tree exactly on the paths it names.
LEMMA EffectiveAt ==
  ASSUME NEW q \in Path
  PROVE  EffectiveTree[q] = IF Pending /\ q \in record.paths THEN Undo(q) ELSE tree[q]
BY DEF EffectiveTree, Undo

LEMMA EffectiveSettled ==
  ASSUME TypeOK, ~Pending
  PROVE  EffectiveTree = tree /\ EffectiveDb = dbfile
BY DEF EffectiveTree, EffectiveDb, TypeOK

LEMMA EffectiveSettledNext ==
  ASSUME TypeOK', ~Pending'
  PROVE  EffectiveTree' = tree' /\ EffectiveDb' = dbfile'
BY DEF EffectiveTree, EffectiveDb, TypeOK

LEMMA EffectiveType ==
  ASSUME WInv, JournalComplete
  PROVE  /\ EffectiveTree \in [Path -> Whole \cup {Torn}]
         /\ EffectiveDb \in Databases \cup {None}
<1>1. CASE Pending
  <2>1. record \in Records
    BY <1>1 DEF Pending, Unsettled, WInv, TypeOK
  <2>2. \A q \in Path : EffectiveTree[q] \in Whole \cup {Torn}
    BY <1>1, EffectiveAt DEF JournalComplete, Undo, Whole, WInv, TypeOK
  <2> QED
    BY <1>1, <2>1, <2>2 DEF EffectiveTree, EffectiveDb, Records
<1>2. CASE ~Pending
  BY <1>2, EffectiveSettled DEF WInv, TypeOK
<1> QED
  BY <1>1, <1>2

\* A step that leaves the disk and the standing of the journal alone.
LEMMA SameDisk ==
  ASSUME JournalComplete, UNCHANGED disk, Pending' <=> Pending
  PROVE  JournalComplete' /\ UNCHANGED effective
BY DEF JournalComplete, effective, EffectiveTree, Undo, EffectiveDb, disk
-----------------------------------------------------------------------------
\* What each action other than Commit owes to the invariant and to the abstract
\* specification: it is a stutter there.
Stutters == JournalComplete' /\ Phases' /\ UNCHANGED effective

\* Releasing the lock over a disk that a rollback is not needed for, or over a
\* complete journal.
LEMMA ReleaseS ==
  ASSUME IInv, NEW p \in Proc, pc[p] # "idle", Release(p), UNCHANGED disk,
         pc[p] = "cleaning" => ~Unsettled
  PROVE  Stutters
<1>1. \A r \in Proc : pc'[r] = "idle"
  BY MutexReleased DEF IInv, WInv
<1>2. Pending' <=> Pending
  BY <1>1, PendingAtRest, PendingOfHolder DEF IInv, WInv, Unsettled, disk
<1>3. Phases'
  BY <1>1 DEF Phases, Phase
<1> QED
  BY <1>2, <1>3, SameDisk DEF IInv, Stutters

LEMMA AcquireS == ASSUME IInv, NEW p \in Proc, Acquire(p) PROVE Stutters
<1>1. \A r \in Proc : pc[r] = "idle" /\ pc'[r] \in {"idle", "recover"}
  BY ProcessAssumption DEF Acquire, IInv, WInv, TypeOK, Mutex
<1>2. Pending' <=> Pending
  BY <1>1, PendingAtRest DEF Pending, Unsettled, Acquire, disk
<1>3. Phases'
  BY <1>1 DEF Phases, Phase
<1> QED
  BY <1>2, <1>3, SameDisk DEF IInv, Stutters, Acquire

LEMMA LeaveS ==
  ASSUME IInv, CrashInRmtree = FALSE, NEW p \in Proc, Leave(p) \/ Obstruct(p) \/ Abort(p)
  PROVE  Stutters
BY ReleaseS DEF Leave, Obstruct, Abort, JournalSpoiled

LEMMA BeginS == ASSUME IInv, NEW p \in Proc, Begin(p) PROVE Stutters
<1>1. pc[p] = "open" /\ pc' = [pc EXCEPT ![p] = "backup"]
  BY DEF Begin
<1>2. OpenInv(p) /\ record = None /\ ~marked
  BY <1>1 DEF IInv, WInv, Phases, Phase, OpenInv, NoStrayJournal
<1>3. ~Unsettled /\ ~Unsettled'
  BY <1>2 DEF Unsettled, Begin
<1>4. ~Pending /\ ~Pending'
  BY <1>1, <1>3, PendingOfHolder, PendingAfter DEF IInv, WInv, Labels
<1>5. BackupInv(p)'
  BY <1>1, <1>2 DEF Begin, BackupInv, OpenInv, IInv, WInv, TypeOK
<1>6. Phases'
  BY <1>1, <1>5, PendingAfter DEF IInv, WInv, Labels, Phase
<1>7. UNCHANGED effective
  BY <1>4 DEF effective, EffectiveTree, EffectiveDb, Begin
<1> QED
  BY <1>4, <1>6, <1>7 DEF Stutters, JournalComplete

\* One path of a loop: only what the journal shadows, or a backup that no
\* journal names yet, changes.
LEMMA LoopS ==
  ASSUME IInv, NEW p \in Proc, pc[p] \in {"backup", "restore", "apply"},
         NEW q \in todo[p],
         UNCHANGED <<dbfile, record, marked, pc>>,
         pc[p] = "backup" => UNCHANGED tree,
         pc[p] # "backup" => UNCHANGED backup,
         \A r \in Path \ {q} : tree'[r] = tree[r] /\ backup'[r] = backup[r]
  PROVE  JournalComplete' /\ UNCHANGED effective
<1>1. pc[p] # "idle"
  OBVIOUS
<1>2. Pending <=> Unsettled
  BY <1>1, PendingOfHolder DEF IInv, WInv
<1>3. Pending' <=> Unsettled
  BY <1>2 DEF Pending, Unsettled
<1>4. CASE pc[p] = "backup"
  <2>1. ~Pending /\ ~Pending'
    BY <1>2, <1>3, <1>4 DEF IInv, Phases, Phase, BackupInv, Unsettled
  <2> QED
    BY <1>4, <2>1 DEF JournalComplete, effective, EffectiveTree, EffectiveDb
<1>5. CASE pc[p] # "backup"
  <2>1. Pending /\ Pending' /\ q \in record.paths
    BY <1>2, <1>3, <1>5 DEF IInv, WInv, Loops, LoopInv, RestoreLoopInv, Phases, Phase,
                            ApplyInv, ReplaceInv
  <2>2. JournalComplete'
    BY <1>5, <2>1 DEF IInv, JournalComplete
  <2>3. EffectiveTree' = EffectiveTree
    BY <1>5, <2>1 DEF EffectiveTree, Undo
  <2> QED
    BY <2>1, <2>2, <2>3 DEF effective, EffectiveDb
<1> QED
  BY <1>4, <1>5

LEMMA PickS == ASSUME IInv, NEW p \in Proc, Pick(p) PROVE Stutters
<1> PICK q \in todo[p] :
      /\ cur' = [cur EXCEPT ![p] = q]
      /\ tree' = IF pc[p] = "backup" THEN tree ELSE [tree EXCEPT ![q] = Absent]
  BY DEF Pick
<1>1. pc[p] \in {"backup", "restore", "apply"} /\ pc' = [pc EXCEPT ![p] = pc[p]]
  BY DEF Pick, IInv, WInv, TypeOK
<1>2. \A r \in Path \ {q} : tree'[r] = tree[r]
  BY DEF IInv, WInv, TypeOK
<1>3. JournalComplete' /\ UNCHANGED effective
  BY <1>1, <1>2, LoopS DEF Pick, journal
<1>4. Phase(p)'
  BY <1>1, <1>2 DEF Pick, journal, IInv, WInv, TypeOK, Phases, Phase, BackupInv, ApplyInv,
                    ReplaceInv, RestoreInv, Undo, Unsettled, Loops, LoopInv,
                    RestoreLoopInv, Touched
<1>5. Phases'
  BY <1>1, <1>4, PendingAfter DEF IInv, WInv, TypeOK
<1> QED
  BY <1>3, <1>5 DEF Stutters

LEMMA CopyS == ASSUME IInv, NEW p \in Proc, Copy(p) PROVE Stutters
<1> PICK v \in {Torn, Source(p)} :
      /\ v = Torn => Source(p) # Absent
      /\ IF pc[p] = "backup"
         THEN backup' = [backup EXCEPT ![cur[p]] = v] /\ UNCHANGED tree
         ELSE tree' = [tree EXCEPT ![cur[p]] = v] /\ UNCHANGED backup
      /\ IF v = Torn
         THEN UNCHANGED <<todo, cur>>
         ELSE /\ todo' = [todo EXCEPT ![p] = @ \ {cur[p]}]
              /\ cur' = [cur EXCEPT ![p] = None]
  BY DEF Copy
<1> DEFINE q == cur[p]
<1>1. pc[p] \in {"backup", "restore", "apply"} /\ pc' = [pc EXCEPT ![p] = pc[p]]
  BY DEF Copy, IInv, WInv, TypeOK
<1>2. q \in todo[p] /\ q \in Path
  BY SourceType DEF Copy, IInv
<1>3. /\ \A r \in Path \ {q} : tree'[r] = tree[r] /\ backup'[r] = backup[r]
      /\ pc[p] = "backup" => UNCHANGED tree /\ backup'[q] = v
      /\ pc[p] # "backup" => UNCHANGED backup /\ tree'[q] = v
  BY <1>2 DEF IInv, WInv, TypeOK
<1>4. JournalComplete' /\ UNCHANGED effective
  BY <1>1, <1>2, <1>3, LoopS DEF Copy
<1>5. todo'[p] = todo[p] \/ (v = Source(p) /\ todo'[p] = todo[p] \ {q})
  BY DEF IInv, WInv, TypeOK
<1>6. CASE pc[p] = "backup"
  <2>1. Source(p) = tree[q]
    BY <1>6 DEF Source
  <2>2. BackupInv(p)'
    BY <1>2, <1>3, <1>5, <1>6, <2>1
       DEF Copy, IInv, Phases, Phase, BackupInv, Touched
  <2> QED
    BY <1>1, <1>4, <1>6, <2>2, PendingAfter DEF IInv, WInv, TypeOK, Stutters, Phase
<1>7. CASE pc[p] = "restore"
  <2>1. Source(p) = Undo(q)
    BY <1>7 DEF Source, Undo
  <2>2. record.paths \subseteq Path
    BY <1>7 DEF IInv, WInv, Loops, RestoreLoopInv, Unsettled, TypeOK, Records
  <2>3. RestoreInv(p)'
    BY <1>2, <1>3, <1>5, <1>7, <2>1, <2>2
       DEF Copy, IInv, Phases, Phase, RestoreInv, Undo
  <2> QED
    BY <1>1, <1>4, <1>7, <2>3, PendingAfter DEF IInv, WInv, TypeOK, Stutters, Phase
<1>8. CASE pc[p] = "apply"
  <2>1. Source(p) = goal[p][q]
    BY <1>8 DEF Source
  <2>2. ApplyInv(p)'
    BY <1>2, <1>3, <1>5, <1>8, <2>1
       DEF Copy, IInv, Phases, Phase, ApplyInv, ReplaceInv, Unsettled, Touched
  <2> QED
    BY <1>1, <1>4, <1>8, <2>2, PendingAfter DEF IInv, WInv, TypeOK, Stutters, Phase
<1> QED
  BY <1>1, <1>6, <1>7, <1>8

LEMMA WriteRecordS == ASSUME IInv, WInv', NEW p \in Proc, WriteRecord(p) PROVE Stutters
<1>1. pc[p] = "backup" /\ todo[p] = {} /\ pc' = [pc EXCEPT ![p] = "apply"]
  BY DEF WriteRecord, BackedUp
<1>2. BackupInv(p) /\ LoopInv(p)
  BY <1>1 DEF IInv, WInv, Loops, Phases, Phase
<1>3. /\ record'.paths = Touched(goal[p])
      /\ record'.kept = {q \in Touched(goal[p]) : tree[q] # Absent}
      /\ record'.database = dbfile
      /\ record' # None
  BY <1>2, PreimageType DEF WriteRecord, IInv, WInv, BackupInv, Recorded
<1>4. ~Pending /\ EffectiveTree = tree /\ EffectiveDb = dbfile
  BY <1>2, EffectiveSettled DEF IInv, WInv, Pending, BackupInv, Unsettled
<1>5. \A q \in Touched(goal[p]) :
        /\ q \in Path /\ backup[q] = tree[q]
        /\ tree[q] \in Content \cup {Absent}
  BY <1>1, <1>2, <1>4 DEF BackupInv, LoopInv, IInv, WInv, TypeOK, Whole, Consistent, Touched
<1>6. Pending'
  BY <1>1, <1>2, <1>3, PendingAfter
     DEF IInv, WInv, Labels, Unsettled, BackupInv, WriteRecord
<1>7. JournalComplete'
  BY <1>3, <1>5 DEF JournalComplete, WriteRecord
<1>8. EffectiveTree' = EffectiveTree
  <2>1. \A q \in Path : EffectiveTree'[q] = tree[q]
    BY <1>3, <1>5, <1>6 DEF EffectiveTree, Undo, WriteRecord
  <2> QED
    BY <1>4, <2>1 DEF EffectiveTree, IInv, WInv, TypeOK
<1>9. EffectiveDb' = EffectiveDb
  BY <1>3, <1>4, <1>6 DEF EffectiveDb
<1>10. ApplyInv(p)'
  BY <1>1, <1>2, <1>3 DEF WriteRecord, ApplyInv, ReplaceInv, Unsettled, BackupInv,
                          IInv, WInv, TypeOK
<1>11. Phases'
  BY <1>1, <1>10, PendingAfter DEF IInv, WInv, Labels, Phase
<1> QED
  BY <1>7, <1>8, <1>9, <1>11 DEF Stutters, effective

\* With the journal written, the database file is shadowed like the tree.
LEMMA WriteDatabaseS == ASSUME IInv, NEW p \in Proc, WriteDatabase(p) PROVE Stutters
<1>1. pc[p] = "apply" /\ todo[p] = {} /\ pc' = [pc EXCEPT ![p] = "commit"]
  BY DEF WriteDatabase
<1>2. ApplyInv(p)
  BY <1>1 DEF IInv, Phases, Phase
<1>3. Pending /\ Pending'
  BY <1>1, <1>2, PendingOfHolder, PendingAfter
     DEF IInv, WInv, Labels, ApplyInv, ReplaceInv, Unsettled, WriteDatabase, journal
<1>4. JournalComplete' /\ UNCHANGED effective
  BY <1>3 DEF IInv, JournalComplete, effective, EffectiveTree, Undo, EffectiveDb,
              WriteDatabase, journal
<1>5. CommitInv(p)'
  BY <1>1, <1>2 DEF WriteDatabase, journal, local, ApplyInv, CommitInv, ReplaceInv, Unsettled
<1>6. Phases'
  BY <1>1, <1>5, PendingAfter DEF IInv, WInv, Labels, Phase
<1> QED
  BY <1>4, <1>6 DEF Stutters

LEMMA RollbackS == ASSUME IInv, NEW p \in Proc, Rollback(p) PROVE Stutters
<1>1. pc[p] \in {"apply", "commit"} /\ pc' = [pc EXCEPT ![p] = "recover"] /\ UNCHANGED disk
  BY DEF Rollback
<1>2. Pending' <=> Pending
  BY <1>1, PendingOfHolder, PendingAfter DEF IInv, WInv, Labels, Unsettled, disk
<1>3. Phases'
  BY <1>1, PendingAfter DEF IInv, WInv, Labels, Phase
<1> QED
  BY <1>1, <1>2, <1>3, SameDisk DEF IInv, Stutters

\* recover() returns to a body only when there is no journal left.
LEMMA ReturnPhases ==
  ASSUME IInv, NEW p \in Proc, pc[p] # "idle", Return(p), ~jdir', dbfile' = dbfile
  PROVE  Phases' /\ \A r \in Proc : pc'[r] \in {"idle", "open"}
<1>1. \A r \in Proc : pc'[r] \in {"idle", "open"}
  BY MutexReturned DEF IInv, WInv
<1>2. CASE opening[p]
  <2>1. pc' = [pc EXCEPT ![p] = "open"] /\ data'[p] = Recorded(dbfile)
    BY <1>2 DEF Return, IInv, WInv, TypeOK
  <2>2. Phase(p)'
    BY <2>1 DEF Phase, OpenInv, IInv, WInv, TypeOK
  <2> QED
    BY <1>1, <2>1, <2>2, PendingAfter DEF IInv, WInv, Labels
<1>3. CASE ~opening[p]
  BY <1>1, <1>3, MutexReleased DEF Return, IInv, WInv, Phases, Phase
<1> QED
  BY <1>1, <1>2, <1>3

LEMMA RecoverS == ASSUME IInv, NEW p \in Proc, Recover(p) PROVE Stutters
<1>1. pc[p] = "recover" /\ UNCHANGED disk
  BY DEF Recover
<1>2. Pending <=> Unsettled
  BY <1>1, PendingOfHolder DEF IInv, WInv
<1>3. Unsettled' <=> Unsettled
  BY <1>1 DEF Unsettled, disk
<1>4. CASE ~jdir /\ Return(p)
  <2>1. Phases' /\ \A r \in Proc : pc'[r] \in {"idle", "open"}
    BY <1>1, <1>4, ReturnPhases DEF disk
  <2>2. Pending' <=> Pending
    BY <1>2, <1>3, <2>1, PendingAtRest
  <2> QED
    BY <1>1, <2>1, <2>2, SameDisk DEF IInv, Stutters
<1>5. CASE Settled /\ pc' = [pc EXCEPT ![p] = "clean"]
  <2>1. ~Pending /\ ~Pending'
    BY <1>1, <1>2, <1>3, <1>5, PendingAfter DEF IInv, WInv, Labels, Settled, Unsettled
  <2>2. JournalComplete' /\ UNCHANGED effective
    BY <1>1, <2>1, SameDisk DEF IInv
  <2>3. CleanInv(p)'
    BY <1>1, <2>1, <2>2, EffectiveSettled DEF CleanInv, effective, disk, IInv, WInv
  <2> QED
    BY <1>1, <1>5, <2>2, <2>3, PendingAfter DEF IInv, WInv, Labels, Stutters, Phase
<1>6. CASE /\ Unsettled
           /\ pc' = [pc EXCEPT ![p] = "restore"]
           /\ todo' = [todo EXCEPT ![p] = record.paths]
  <2>1. Pending /\ Pending'
    BY <1>1, <1>2, <1>3, <1>6, PendingAfter DEF IInv, WInv, Labels
  <2>2. RestoreInv(p)'
    BY <1>1, <1>6 DEF RestoreInv, IInv, WInv, TypeOK, disk
  <2> QED
    BY <1>1, <1>6, <2>1, <2>2, SameDisk, PendingAfter DEF IInv, WInv, Labels, Stutters, Phase
<1> QED
  BY <1>4, <1>5, <1>6 DEF Recover

LEMMA RestoreDatabaseS ==
  ASSUME IInv, WInv', NEW p \in Proc, RestoreDatabase(p) PROVE Stutters
<1>1. pc[p] = "restore" /\ todo[p] = {} /\ pc' = [pc EXCEPT ![p] = "clean"]
  BY DEF RestoreDatabase
<1>2. Unsettled /\ RestoreInv(p)
  BY <1>1 DEF IInv, WInv, Loops, RestoreLoopInv, Phases, Phase
<1>3. Pending /\ Pending'
  BY <1>1, <1>2, PendingOfHolder, PendingAfter
     DEF IInv, WInv, Labels, Unsettled, RestoreDatabase, journal
<1>4. JournalComplete' /\ UNCHANGED effective
  BY <1>3 DEF IInv, JournalComplete, effective, EffectiveTree, Undo, EffectiveDb,
              RestoreDatabase, journal
<1>5. EffectiveTree' = tree'
  <2>1. \A q \in Path : EffectiveTree[q] = tree[q]
    BY <1>1, <1>2, EffectiveAt DEF RestoreInv
  <2> QED
    BY <1>4, <2>1 DEF effective, EffectiveTree, RestoreDatabase, IInv, WInv, TypeOK
<1>6. EffectiveDb' = dbfile'
  BY <1>3 DEF EffectiveDb, RestoreDatabase, Restored, journal
<1>7. Phases'
  BY <1>1, <1>5, <1>6, PendingAfter DEF IInv, WInv, Labels, Phase, CleanInv
<1> QED
  BY <1>4, <1>7 DEF Stutters

LEMMA CleanS == ASSUME IInv, WInv', NEW p \in Proc, Clean(p) PROVE Stutters
<1>1. pc[p] \in {"clean", "cleaning"} /\ pc' = [pc EXCEPT ![p] = "cleaning"]
  BY DEF Clean
<1>2. EffectiveTree = tree /\ EffectiveDb = dbfile
  BY <1>1, PendingOfHolder, EffectiveSettled DEF IInv, WInv, Phases, Phase, CleanInv
<1>3. ~Pending'
  BY <1>1, PendingAfter DEF IInv, WInv, Labels
<1>4. UNCHANGED effective
  BY <1>2, <1>3, EffectiveSettledNext DEF WInv, effective, Clean
<1>5. Phases'
  BY <1>1, PendingAfter DEF IInv, WInv, Labels, Phase
<1> QED
  BY <1>3, <1>4, <1>5 DEF Stutters, JournalComplete

LEMMA CleanDoneS == ASSUME IInv, WInv', NEW p \in Proc, CleanDone(p) PROVE Stutters
<1>1. pc[p] # "idle" /\ Return(p) /\ ~jdir' /\ dbfile' = dbfile
  BY DEF CleanDone
<1>2. ~Unsettled /\ ~Unsettled'
  BY DEF CleanDone, Unsettled
<1>3. ~Pending /\ ~Pending'
  BY <1>2 DEF Pending
<1>4. UNCHANGED effective
  BY <1>3, EffectiveSettled, EffectiveSettledNext DEF IInv, WInv, effective, CleanDone
<1> QED
  BY <1>1, <1>3, <1>4, ReturnPhases DEF Stutters, JournalComplete
-----------------------------------------------------------------------------
\* The commit marker is the moment the whole transaction takes effect.
LEMMA CommitTakesEffect ==
  ASSUME IInv, WInv', NEW p \in Proc, Commit(p)
  PROVE  /\ JournalComplete' /\ Phases'
         /\ \A q \in Touched(goal[p]) : EffectiveTree[q] # Dir
         /\ EffectiveTree' = Overlay(goal[p], EffectiveTree)
         /\ EffectiveDb' = Registered(goal[p], Recorded(EffectiveDb))
<1>1. pc[p] = "commit" /\ pc' = [pc EXCEPT ![p] = "recover"] /\ marked'
  BY DEF Commit
<1>2. CommitInv(p)
  BY <1>1 DEF IInv, Phases, Phase
<1>3. Pending /\ ~Pending'
  BY <1>1, <1>2, PendingOfHolder, PendingAfter
     DEF IInv, WInv, Labels, CommitInv, ReplaceInv, Unsettled
<1>4. record.paths = Touched(goal[p])
  BY <1>2 DEF CommitInv, ReplaceInv
<1>5. EffectiveTree' = tree /\ EffectiveDb' = dbfile
  BY <1>3, EffectiveSettledNext DEF WInv, Commit
<1>6. \A q \in Touched(goal[p]) : EffectiveTree[q] # Dir
  BY <1>3, <1>4, MarkersDistinct DEF EffectiveTree, Undo, IInv, JournalComplete, Touched
<1>7. tree = Overlay(goal[p], EffectiveTree)
  <2>1. \A q \in Path : tree[q] = Overlay(goal[p], EffectiveTree)[q]
    BY <1>2, <1>4 DEF Overlay, EffectiveTree, CommitInv, Touched
  <2> QED
    BY <2>1 DEF Overlay, IInv, WInv, TypeOK
<1>8. dbfile = Registered(goal[p], Recorded(EffectiveDb))
  BY <1>2, <1>3 DEF CommitInv, ReplaceInv, EffectiveDb
<1>9. Phases'
  BY <1>1, PendingAfter DEF IInv, WInv, Labels, Phase
<1> QED
  BY <1>3, <1>5, <1>6, <1>7, <1>8, <1>9 DEF JournalComplete

\* A whole transaction leaves the tree whole and in agreement with the database.
LEMMA OverlayConsistent ==
  ASSUME Consistent, WInv, JournalComplete, NEW g \in Goals,
         altered' = altered \ Touched(g),
         EffectiveTree' = Overlay(g, EffectiveTree),
         EffectiveDb' = Registered(g, Recorded(EffectiveDb))
  PROVE  Consistent'
<1>1. Recorded(EffectiveDb)' = Registered(g, Recorded(EffectiveDb))
  <2>1. Registered(g, Recorded(EffectiveDb)) \in Databases
    BY EffectiveType, RecordedType, RegisteredType
  <2> QED
    BY <2>1, MarkersDistinct DEF Recorded
<1>2. \A q \in Path : EffectiveTree'[q] = IF q \in Touched(g) THEN g[q] ELSE EffectiveTree[q]
  BY GoalEffect
<1>3. \A q \in Path : Recorded(EffectiveDb)'[q] =
                        IF g[q] = Forget THEN Absent
                        ELSE IF q \in Touched(g) THEN g[q] ELSE Recorded(EffectiveDb)[q]
  BY <1>1, GoalEffect
<1>4. \A q \in Touched(g) : g[q] \in Content \cup {Absent}
  BY GoalEffect DEF Touched
<1> QED
  BY <1>2, <1>3, <1>4, MarkersDistinct DEF Consistent

LEMMA StutterConsistent ==
  ASSUME Consistent, UNCHANGED <<effective, altered>> PROVE Consistent'
BY DEF Consistent, effective, Recorded

\* A path of a pending journal will be put back. At any other one the tree that
\* recovery would leave has, or loses, a directory too.
LEMMA AdministerS ==
  ASSUME IInv, WInv', NEW q \in Path, Administer(q)
  PROVE  /\ JournalComplete' /\ Phases' /\ Consistent'
         /\ Abstract!Rearrange \/ UNCHANGED effective
<1>1. \A p \in Proc : pc[p] = "idle" /\ pc'[p] = "idle"
  BY ProcessAssumption DEF Administer, IInv, WInv, Mutex
<1>2. Phases'
  BY <1>1 DEF Phases, Phase
<1>3. (Pending <=> Unsettled) /\ (Pending' <=> Pending)
  BY <1>1 DEF Pending, Unsettled, Administer, journal
<1>4. JournalComplete'
  BY <1>3 DEF IInv, JournalComplete, Administer, journal
<1>5. /\ tree' = [tree EXCEPT ![q] = IF tree[q] = Dir THEN Absent ELSE Dir]
      /\ UNCHANGED <<dbfile, record, backup>>
  BY DEF Administer, journal
<1>6. UNCHANGED EffectiveDb
  BY <1>3, <1>5 DEF EffectiveDb
<1>7. CASE Pending /\ q \in record.paths
  <2>1. altered' = altered
    BY <1>3, <1>7 DEF Administer
  <2>2. UNCHANGED EffectiveTree
    BY <1>3, <1>5, <1>7 DEF EffectiveTree, Undo, IInv, WInv, TypeOK
  <2> QED
    BY <1>2, <1>4, <1>6, <2>1, <2>2, StutterConsistent DEF IInv, effective
<1>8. CASE ~(Pending /\ q \in record.paths)
  <2>1. altered' = altered \cup {q}
    BY <1>3, <1>8 DEF Administer
  <2>2. EffectiveTree[q] = tree[q]
    BY <1>8, EffectiveAt
  <2>3. EffectiveTree' =
          [EffectiveTree EXCEPT ![q] = IF EffectiveTree[q] = Dir THEN Absent ELSE Dir]
    <3>1. \A r \in Path : EffectiveTree'[r] =
            IF r = q THEN (IF tree[q] = Dir THEN Absent ELSE Dir) ELSE EffectiveTree[r]
      BY <1>3, <1>5, <1>8 DEF EffectiveTree, Undo, IInv, WInv, TypeOK
    <3> QED
      BY <2>2, <3>1 DEF EffectiveTree
  <2>4. Abstract!Rearrange
    BY <1>6, <2>3 DEF Abstract!Rearrange
  <2>5. Consistent'
    <3>1. \A r \in Path : r # q => EffectiveTree'[r] = EffectiveTree[r]
      BY <2>3 DEF EffectiveTree
    <3>2. EffectiveTree'[q] # Torn
      BY <2>3, MarkersDistinct DEF EffectiveTree
    <3> QED
      BY <1>6, <2>1, <3>1, <3>2 DEF IInv, Consistent, Recorded
  <2> QED
    BY <1>2, <1>4, <2>4, <2>5
<1> QED
  BY <1>7, <1>8

LEMMA InitIInv == Init => IInv
<1> SUFFICES ASSUME Init PROVE IInv
  OBVIOUS
<1>1. WInv
  BY InitWInv
<1>2. ~Pending
  BY DEF Init, Pending, Unsettled
<1>3. EffectiveTree = tree /\ EffectiveDb = None
  BY <1>1, <1>2, EffectiveSettled DEF WInv, Init
<1>4. Consistent
  BY <1>3, MarkersDistinct DEF Consistent, Recorded, Init, Whole
<1>5. JournalComplete /\ Phases
  BY <1>2 DEF JournalComplete, Phases, Phase, Init
<1> QED
  BY <1>1, <1>4, <1>5 DEF IInv

\* Every step keeps the invariant, and is a transaction or a stutter.
LEMMA NextIInv ==
  ASSUME CrashInRmtree = FALSE, IInv, [Next]_vars
  PROVE  IInv' /\ [Abstract!Next]_effective
<1>1. WInv'
  BY NextW DEF IInv
<1>2. CASE (Stutters /\ UNCHANGED altered) \/ UNCHANGED vars
  <2>1. Stutters
    BY <1>2 DEF vars, disk, local, IInv, JournalComplete, Pending, Unsettled, Phases,
                Phase, OpenInv, BackupInv, ApplyInv, CommitInv, ReplaceInv, RestoreInv,
                CleanInv, Undo, EffectiveTree, EffectiveDb, Stutters, effective
  <2>2. UNCHANGED altered
    BY <1>2 DEF vars
  <2> QED
    BY <1>1, <2>1, <2>2, StutterConsistent DEF IInv, Stutters, effective
<1>3. ASSUME NEW p \in Proc, Commit(p) PROVE IInv' /\ Abstract!Next
  <2>1. goal[p] \in Goals
    BY DEF IInv, WInv, TypeOK
  <2>2. Abstract!Apply(goal[p])
    BY <1>1, <1>3, CommitTakesEffect
       DEF Abstract!Apply, Abstract!Touched, Abstract!Overlay, Abstract!Registered,
           Abstract!Recorded, Touched, Overlay, Registered, Recorded
  <2>3. Abstract!Next
    BY <2>1, <2>2 DEF Abstract!Next, Abstract!Transact, Abstract!Goals, Goals
  <2>4. altered' = altered \ Touched(goal[p])
    BY <1>3 DEF Commit
  <2> QED
    BY <1>1, <1>3, <2>1, <2>3, <2>4, CommitTakesEffect, OverlayConsistent DEF IInv
<1>4. ASSUME NEW p \in Proc, Acquire(p) \/ Progress(p) \/ Rollback(p) \/ Abort(p), ~Commit(p)
      PROVE  Stutters
  BY <1>1, <1>4, AcquireS, LeaveS, BeginS, PickS, CopyS, WriteRecordS, WriteDatabaseS,
     RecoverS, RestoreDatabaseS, CleanS, CleanDoneS, RollbackS DEF Progress
<1>5. ASSUME NEW p \in Proc, Acquire(p) \/ Progress(p) \/ Rollback(p) \/ Abort(p), ~Commit(p)
      PROVE  UNCHANGED altered
  BY <1>5 DEF Acquire, Progress, Leave, Begin, Pick, Copy, WriteRecord, WriteDatabase,
              Recover, Obstruct, RestoreDatabase, Clean, CleanDone, Rollback, Abort
<1>6. ASSUME NEW q \in Path, Administer(q) PROVE IInv' /\ [Abstract!Next]_effective
  BY <1>1, <1>6, AdministerS DEF IInv, Abstract!Next
<1> QED
  BY <1>2, <1>3, <1>4, <1>5, <1>6 DEF Next
-----------------------------------------------------------------------------
THEOREM IInvInvariant == ASSUME CrashInRmtree = FALSE PROVE Spec => []IInv
<1>1. IInv /\ [Next]_vars => IInv'
  BY NextIInv
<1> QED
  BY <1>1, InitIInv, PTL DEF Spec

\* A body of locked() never sees a torn file, or an owned path that differs
\* from the database it read and that the administrator left alone.
THEOREM BodiesSafe ==
  ASSUME CrashInRmtree = FALSE PROVE Spec => []BodiesSeeWholeTransactions
<1>1. IInv => BodiesSeeWholeTransactions
  <2> SUFFICES ASSUME IInv, NEW p \in Proc, pc[p] = "open"
               PROVE  /\ data[p] = Recorded(dbfile)
                      /\ \A q \in Path : /\ tree[q] # Torn
                                         /\ data[p][q] # Absent /\ q \notin altered =>
                                              tree[q] = data[p][q]
    BY DEF BodiesSeeWholeTransactions
  <2>1. ~jdir /\ data[p] = Recorded(dbfile)
    BY DEF IInv, Phases, Phase, OpenInv
  <2>2. EffectiveTree = tree /\ EffectiveDb = dbfile
    BY <2>1, EffectiveSettled DEF IInv, WInv, NoStrayJournal, Pending, Unsettled
  <2> QED
    BY <2>1, <2>2 DEF IInv, Consistent
<1> QED
  BY <1>1, IInvInvariant, PTL

\* A journal that asks for a rollback has every preimage in full.
THEOREM RollbackSafe ==
  ASSUME CrashInRmtree = FALSE PROVE Spec => []RollbackPossible
<1>1. IInv => RollbackPossible
  BY DEF IInv, JournalComplete, RollbackPossible
<1> QED
  BY <1>1, IInvInvariant, PTL

\* The journal implements an indivisible transaction: whatever is killed or
\* fails outside rmtree, the tree and database that recovery would leave change
\* only by whole transactions.
THEOREM TransactionsAreAtomic == ASSUME CrashInRmtree = FALSE PROVE Spec => Atomic
<1>1. Init => Abstract!Init
  <2> SUFFICES ASSUME Init PROVE Abstract!Init
    OBVIOUS
  <2>1. IInv /\ ~Pending
    BY InitIInv DEF Init, Pending, Unsettled
  <2>2. EffectiveTree = tree /\ EffectiveDb = dbfile
    BY <2>1, EffectiveSettled DEF IInv, WInv
  <2> QED
    BY <2>2 DEF Abstract!Init, Abstract!Whole, Whole, Init
<1>2. IInv /\ [Next]_vars => [Abstract!Next]_effective
  BY NextIInv
<1>3. effective = Abstract!vars
  BY DEF effective, Abstract!vars
<1>4. IInv /\ [Next]_vars => [Abstract!Next]_Abstract!vars
  BY <1>2, <1>3 DEF effective, Abstract!vars
<1> QED
  BY <1>1, <1>4, IInvInvariant, PTL DEF Spec, Atomic, Abstract!Spec

\* A journal that asks for a rollback is given up only for a commit, or once
\* all that it names is back; a directory in the way does not make it go.
THEOREM RollbacksAreWhole == ASSUME CrashInRmtree = FALSE PROVE Spec => RollbackIsWhole
<1>1. ASSUME IInv, [Next]_vars, Pending, ~Pending' PROVE marked' \/ RolledBack
  <2>1. ASSUME NEW p \in Proc, Clean(p) PROVE RolledBack
    <3>1. pc[p] = "clean"
      BY <1>1, <2>1 DEF Clean, Pending
    <3>2. EffectiveTree = tree /\ EffectiveDb = dbfile
      BY <1>1, <3>1 DEF IInv, Phases, Phase, CleanInv
    <3>3. record.paths \subseteq Path
      BY <1>1 DEF Pending, Unsettled, IInv, WInv, TypeOK, Records
    <3> QED
      BY <1>1, <3>2, <3>3, EffectiveAt DEF RolledBack, EffectiveDb
  <2>2. ASSUME NEW p \in Proc, Acquire(p) \/ Progress(p) \/ Rollback(p) \/ Abort(p),
               ~Clean(p), ~Commit(p)
        PROVE  FALSE
    <3>1. Unsettled'
      BY <1>1, <2>2, PreimageType
         DEF Pending, Unsettled, IInv, WInv, Acquire, Progress, Leave, Begin, Pick, Copy,
             WriteRecord, WriteDatabase, Recover, Obstruct, RestoreDatabase, CleanDone,
             Rollback, Abort, disk, journal
    <3>2. \A r \in Proc : pc'[r] # "cleaning"
      BY <1>1, <2>2
         DEF Pending, IInv, WInv, TypeOK, Acquire, Progress, Leave, Begin, Pick, Copy,
             WriteRecord, WriteDatabase, Recover, Obstruct, RestoreDatabase, CleanDone,
             Rollback, Abort, Release, Return
    <3> QED
      BY <1>1, <3>1, <3>2 DEF Pending
  <2>3. ASSUME NEW p \in Proc, Commit(p) PROVE marked'
    BY <2>3 DEF Commit
  <2>4. ASSUME UNCHANGED vars \/ \E q \in Path : Administer(q) PROVE FALSE
    BY <1>1, <2>4 DEF Pending, Unsettled, Administer, vars, disk, journal
  <2> QED
    BY <1>1, <2>1, <2>2, <2>3, <2>4 DEF Next
<1>2. IInv /\ [Next]_vars => (Pending /\ ~Pending' => marked' \/ RolledBack)
  BY <1>1
<1> QED
  BY <1>2, IInvInvariant, PTL DEF Spec, RollbackIsWhole
=============================================================================
