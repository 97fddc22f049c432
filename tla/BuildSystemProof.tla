-------------------------- MODULE BuildSystemProof --------------------------
(***************************************************************************)
(* Proofs about BuildCache and BuildSystem, for any number of builders,    *)
(* syncs, recipes, deaths, power losses and edits.  Part 1: builders over  *)
(* one cache and one output directory implement the artifact store and     *)
(* unpack only verified sources.  Part 2: syncs lose no recipe tree and    *)
(* leave one in use, and to the builders they are edits of recipes, so     *)
(* that all of part 1 holds of the system.                                 *)
(***************************************************************************)
EXTENDS BuildSystem, TLAPS

\* Between taking and dropping the lock of its id.
Inside == {"locked", "fetch", "copy", "replace", "receipt", "log"}

\* What a builder knows of its id while it holds the lock.
Phase(p) ==
  /\ pc[p] # "idle" => id[p] \in Id
  /\ pc[p] \in Inside => lock[id[p]] = p
  /\ pc[p] \in {"fetch", "copy", "replace", "receipt"} => receipt[id[p]] = None
  /\ pc[p] = "replace" => made[p] \in Artifact
  /\ pc[p] = "receipt" => archive[id[p]] \in Artifact
  /\ pc[p] = "log" => receipt[id[p]] # None

Phases == \A p \in Proc : Phase(p)

\* A receipt is of the archive that is there.
ReceiptsMatch == \A b \in Id : receipt[b] # None => archive[b] = receipt[b]

IInv == TypeOK /\ Phases /\ ReceiptsMatch /\ SourcesVerified
-----------------------------------------------------------------------------
LEMMA IdFields ==
  /\ \A r \in Recipe, v \in Version : <<r, v>> \in Id
  /\ \A b \in Id : b[1] \in Recipe /\ SourcesOf[b[1]] \in SUBSET Source
BY BuildAssumption DEF Id

\* Leaving one() changes nothing for the other builders.
LEMMA LeaveEffect ==
  ASSUME TypeOK, NEW p \in Proc, Leave(p)
  PROVE  /\ pc'[p] = "idle"
         /\ \A q \in Proc \ {p} :
              /\ pc'[q] = pc[q] /\ id'[q] = id[q] /\ todo'[q] = todo[q]
              /\ fetching'[q] = fetching[q] /\ made'[q] = made[q]
              /\ \A x \in Id \cup Source : lock[x] = q => lock'[x] = q
         /\ lock' \in [Id \cup Source -> Proc \cup {None}]
         /\ pc' \in [Proc -> Labels]
         /\ id' \in [Proc -> Id \cup {None}]
         /\ todo' \in [Proc -> SUBSET Source]
         /\ fetching' \in [Proc -> Source \cup {None}]
         /\ made' \in [Proc -> Artifact \cup {None}]
BY DEF Leave, Goto, TypeOK, Labels

\* So does a return or an exception that leaves the files as they are, or adds
\* a source that was not there.
LEMMA LeaveStep ==
  ASSUME IInv, NEW p \in Proc, Leave(p),
         recipe' = recipe, cached' = cached, archive' = archive, receipt' = receipt,
         logged' \in SUBSET Id, served' \in SUBSET (Id \X Artifact),
         calls' = calls, faults' \in 0..MaxFaults
  PROVE  IInv'
<1>1. TypeOK'
  BY LeaveEffect DEF IInv, TypeOK
<1>2. ASSUME NEW q \in Proc PROVE Phase(q)'
  <2>1. CASE q = p
    BY <2>1, LeaveEffect DEF Phase, Inside, IInv
  <2>2. CASE q # p
    <3>1. Phase(q) /\ pc'[q] = pc[q] /\ id'[q] = id[q] /\ made'[q] = made[q]
      BY <2>2, LeaveEffect DEF Phases, IInv
    <3>2. pc[q] \in Inside => lock'[id[q]] = q
      BY <2>2, <3>1, LeaveEffect DEF Phase, Inside, IInv
    <3> QED
      BY <3>1, <3>2 DEF Phase
  <2> QED
    BY <2>1, <2>2
<1>3. SourcesVerified'
  BY LeaveEffect DEF SourcesVerified, IInv
<1> QED
  BY <1>1, <1>2, <1>3 DEF IInv, Phases, ReceiptsMatch
-----------------------------------------------------------------------------
LEMMA CallStep == ASSUME IInv, NEW p \in Proc, Call(p) PROVE IInv'
<1>1. PICK r \in Recipe : recipe[r] # None /\ id' = [id EXCEPT ![p] = <<r, recipe[r]>>]
  BY DEF Call
<1>2. recipe[r] \in Version /\ <<r, recipe[r]>> \in Id
  BY <1>1, IdFields DEF IInv, TypeOK
<1>3. calls' \in 0..MaxCalls
  BY BuildAssumption DEF Call, IInv, TypeOK
<1>4. pc' = [pc EXCEPT ![p] = "waiting"] /\ pc' \in [Proc -> Labels]
  BY DEF Call, Goto, IInv, TypeOK, Labels
<1>5. TypeOK'
  BY <1>1, <1>2, <1>3, <1>4 DEF Call, disk, IInv, TypeOK
<1>6. ASSUME NEW q \in Proc PROVE Phase(q)'
  <2>1. CASE q = p
    BY <1>1, <1>2, <1>4, <2>1 DEF Phase, Inside, IInv, TypeOK
  <2>2. CASE q # p
    BY <1>1, <1>4, <2>2 DEF Call, disk, Phase, Phases, IInv, TypeOK
  <2> QED
    BY <2>1, <2>2
<1>7. SourcesVerified' /\ ReceiptsMatch'
  BY <1>1, <1>4 DEF Call, disk, SourcesVerified, ReceiptsMatch, IInv, TypeOK
<1> QED
  BY <1>5, <1>6, <1>7 DEF IInv, Phases

LEMMA EnterStep == ASSUME IInv, NEW p \in Proc, Enter(p) PROVE IInv'
<1>1. id[p] \in Id /\ lock[id[p]] = None
  BY DEF Enter, Free, IInv, Phases, Phase
<1>2. pc' = [pc EXCEPT ![p] = "locked"] /\ pc' \in [Proc -> Labels]
  BY DEF Enter, Goto, IInv, TypeOK, Labels
<1>3. lock' = [lock EXCEPT ![id[p]] = p] /\ lock' \in [Id \cup Source -> Proc \cup {None}]
  BY <1>1 DEF Enter, IInv, TypeOK
<1>4. TypeOK'
  BY <1>2, <1>3 DEF Enter, disk, local, bounds, IInv, TypeOK
<1>5. ASSUME NEW q \in Proc PROVE Phase(q)'
  <2>1. CASE q = p
    BY <1>1, <1>2, <1>3, <2>1 DEF Enter, local, disk, Phase, Inside, IInv, TypeOK
  <2>2. CASE q # p
    <3>1. pc[q] \in Inside => lock'[id[q]] = q
      BY <1>1, <1>3, <2>2, BuildAssumption DEF IInv, TypeOK, Phases, Phase, Inside
    <3> QED
      BY <1>2, <2>2, <3>1 DEF Enter, local, disk, Phase, Phases, IInv, TypeOK
  <2> QED
    BY <2>1, <2>2
<1>6. SourcesVerified' /\ ReceiptsMatch'
  BY <1>2 DEF Enter, disk, local, SourcesVerified, ReceiptsMatch, IInv, TypeOK
<1> QED
  BY <1>4, <1>5, <1>6 DEF IInv, Phases

LEMMA MissStep == ASSUME IInv, NEW p \in Proc, Miss(p) PROVE IInv'
<1>1. id[p] \in Id /\ lock[id[p]] = p /\ receipt[id[p]] = None
  BY DEF Miss, IInv, Phases, Phase, Inside, ReceiptsMatch
<1>2. pc' = [pc EXCEPT ![p] = "fetch"] /\ pc' \in [Proc -> Labels]
  BY DEF Miss, Goto, IInv, TypeOK, Labels
<1>3. todo' = [todo EXCEPT ![p] = SourcesOf[id[p][1]]] /\ todo' \in [Proc -> SUBSET Source]
  BY <1>1, IdFields DEF Miss, IInv, TypeOK
<1>4. TypeOK'
  BY <1>2, <1>3 DEF Miss, disk, bounds, IInv, TypeOK
<1>5. ASSUME NEW q \in Proc PROVE Phase(q)'
  BY <1>1, <1>2 DEF Miss, disk, Phase, Phases, Inside, IInv, TypeOK
<1>6. SourcesVerified' /\ ReceiptsMatch'
  BY <1>2, <1>3 DEF Miss, disk, SourcesVerified, ReceiptsMatch, IInv, TypeOK
<1> QED
  BY <1>4, <1>5, <1>6 DEF IInv, Phases
-----------------------------------------------------------------------------
LEMMA LockSourceStep == ASSUME IInv, NEW p \in Proc, LockSource(p) PROVE IInv'
<1>1. PICK s \in todo[p] : /\ Free(s) /\ lock' = [lock EXCEPT ![s] = p]
                           /\ fetching' = [fetching EXCEPT ![p] = s]
  BY DEF LockSource
<1>2. s \in Source /\ s \notin Id
  BY <1>1, BuildAssumption DEF IInv, TypeOK
<1>3. TypeOK'
  BY <1>1, <1>2 DEF LockSource, disk, bounds, IInv, TypeOK
<1>4. \A b \in Id : lock'[b] = lock[b]
  BY <1>1, <1>2 DEF IInv, TypeOK
<1>5. Phases'
  BY <1>4 DEF LockSource, disk, Phases, Phase, Inside, IInv
<1> QED
  BY <1>3, <1>5 DEF LockSource, disk, IInv, SourcesVerified, ReceiptsMatch

\* fetch returned: one more source of this builder is there and genuine.
LEMMA FetchedStep ==
  ASSUME IInv, NEW p \in Proc, fetching[p] # None, Fetched(p),
         cached' \in [Source -> {Good, Bad, None}], cached'[fetching[p]] = Good,
         \A s \in Source : cached[s] = Good => cached'[s] = Good,
         UNCHANGED <<recipe, archive, receipt, logged, served, bounds>>
  PROVE  IInv'
<1>1. fetching[p] \in Source /\ fetching[p] \notin Id
  BY BuildAssumption DEF IInv, TypeOK
<1>2. TypeOK'
  BY <1>1 DEF Fetched, Unlocked, bounds, IInv, TypeOK
<1>3. \A b \in Id : lock'[b] = lock[b]
  BY <1>1 DEF Fetched, Unlocked, IInv, TypeOK
<1>4. Phases'
  BY <1>3 DEF Fetched, Phases, Phase, Inside, IInv
<1>5. SourcesVerified'
  <2> SUFFICES ASSUME NEW q \in Proc, pc[q] \in {"fetch", "copy"},
                      NEW s \in SourcesOf[id[q][1]] \ todo'[q]
               PROVE  cached'[s] = Good
    BY DEF SourcesVerified, Fetched
  <2>1. s \in Source
    BY IdFields DEF IInv, Phases, Phase
  <2>2. CASE s \notin todo[q]
    BY <2>1, <2>2 DEF IInv, SourcesVerified
  <2>3. CASE s \in todo[q]
    BY <2>3 DEF Fetched, IInv, TypeOK
  <2> QED
    BY <2>2, <2>3
<1> QED
  BY <1>2, <1>4, <1>5 DEF IInv, ReceiptsMatch

LEMMA UseCachedStep == ASSUME IInv, NEW p \in Proc, UseCached(p) PROVE IInv'
<1>1. CASE Genuine(cached[fetching[p]])
  <2>1. Fetched(p) /\ cached'[fetching[p]] = Good /\ cached' \in [Source -> {Good, Bad, None}]
    BY <1>1 DEF UseCached, Genuine, disk, IInv, TypeOK
  <2> QED
    BY <2>1, FetchedStep DEF UseCached, disk
<1>2. CASE ~Genuine(cached[fetching[p]])
  <2>1. logged' \in SUBSET Id /\ served' \in SUBSET (Id \X Artifact) /\ faults' \in 0..MaxFaults
    BY DEF UseCached, disk, bounds, IInv, TypeOK
  <2> QED
    BY <1>2, <2>1, LeaveStep DEF UseCached, disk, bounds
<1> QED
  BY <1>1, <1>2

LEMMA DownloadStep == ASSUME IInv, NEW p \in Proc, Download(p) PROVE IInv'
<1>1. CASE cached' = [cached EXCEPT ![fetching[p]] = Good] /\ Fetched(p)
  <2>1. fetching[p] \in Source
    BY DEF Download, IInv, TypeOK
  <2>2. cached' \in [Source -> {Good, Bad, None}] /\ cached'[fetching[p]] = Good
    BY <1>1, <2>1 DEF IInv, TypeOK
  <2>3. \A s \in Source : cached[s] = Good => cached'[s] = Good
    BY <1>1, <2>1 DEF IInv, TypeOK
  <2> QED
    BY <1>1, <2>2, <2>3, FetchedStep DEF Download
<1>2. CASE UNCHANGED cached /\ Leave(p)
  <2>1. logged' \in SUBSET Id /\ served' \in SUBSET (Id \X Artifact) /\ faults' \in 0..MaxFaults
    BY DEF Download, bounds, IInv, TypeOK
  <2> QED
    BY <1>2, <2>1, LeaveStep DEF Download, bounds
<1> QED
  BY <1>1, <1>2 DEF Download, Genuine

LEMMA AllFetchedStep == ASSUME IInv, NEW p \in Proc, AllFetched(p) PROVE IInv'
<1>1. pc' = [pc EXCEPT ![p] = "copy"] /\ pc' \in [Proc -> Labels]
  BY DEF AllFetched, Goto, IInv, TypeOK, Labels
<1>2. TypeOK'
  BY <1>1 DEF AllFetched, disk, local, bounds, IInv, TypeOK
<1>3. ASSUME NEW q \in Proc PROVE Phase(q)'
  BY <1>1 DEF AllFetched, disk, local, Phase, Phases, Inside, IInv, TypeOK
<1>4. SourcesVerified' /\ ReceiptsMatch'
  BY <1>1 DEF AllFetched, disk, local, SourcesVerified, ReceiptsMatch, IInv, TypeOK
<1> QED
  BY <1>2, <1>3, <1>4 DEF IInv, Phases

LEMMA MakeStep == ASSUME IInv, NEW p \in Proc, Make(p) PROVE IInv'
<1>1. PICK a \in Yields(p) : made' = [made EXCEPT ![p] = a]
  BY DEF Make
<1>2. id[p] \in Id
  BY DEF Make, IInv, Phases, Phase
<1>3. a \in Artifact
  <2>1. recipe[id[p][1]] \in Version
    BY <1>2, IdFields DEF Make, IInv, TypeOK
  <2> QED
    BY <1>1, <2>1 DEF Yields, Artifact
<1>4. pc' = [pc EXCEPT ![p] = "replace"] /\ pc' \in [Proc -> Labels]
  BY DEF Make, Goto, IInv, TypeOK, Labels
<1>5. TypeOK'
  BY <1>1, <1>3, <1>4 DEF Make, disk, bounds, IInv, TypeOK
<1>6. ASSUME NEW q \in Proc PROVE Phase(q)'
  BY <1>1, <1>3, <1>4 DEF Make, disk, Phase, Phases, Inside, IInv, TypeOK
<1>7. SourcesVerified' /\ ReceiptsMatch'
  BY <1>4 DEF Make, disk, SourcesVerified, ReceiptsMatch, IInv, TypeOK
<1> QED
  BY <1>5, <1>6, <1>7 DEF IInv, Phases

LEMMA CopyFailsStep == ASSUME IInv, NEW p \in Proc, CopyFails(p) PROVE IInv'
<1>1. logged' \in SUBSET Id /\ served' \in SUBSET (Id \X Artifact) /\ faults' \in 0..MaxFaults
  BY DEF CopyFails, disk, bounds, IInv, TypeOK
<1> QED
  BY <1>1, LeaveStep DEF CopyFails, disk, bounds

\* Two builders are never inside for the same id.
LEMMA Alone ==
  ASSUME IInv, NEW p \in Proc, NEW q \in Proc, p # q, pc[p] \in Inside, pc[q] \in Inside
  PROVE  id[p] # id[q]
BY DEF IInv, Phases, Phase

LEMMA ReplaceStep == ASSUME IInv, NEW p \in Proc, Replace(p) PROVE IInv'
<1>1. /\ id[p] \in Id /\ made[p] \in Artifact /\ receipt[id[p]] = None
      /\ lock[id[p]] = p /\ pc[p] \in Inside
  BY DEF Replace, IInv, Phases, Phase, Inside
<1>2. pc' = [pc EXCEPT ![p] = "receipt"] /\ pc' \in [Proc -> Labels]
  BY DEF Replace, Goto, IInv, TypeOK, Labels
<1>3. archive' = [archive EXCEPT ![id[p]] = made[p]] /\ archive' \in [Id -> Artifact \cup {None}]
  BY <1>1 DEF Replace, IInv, TypeOK
<1>4. TypeOK'
  BY <1>2, <1>3 DEF Replace, local, bounds, IInv, TypeOK
<1>5. ASSUME NEW q \in Proc PROVE Phase(q)'
  <2>1. CASE q = p
    BY <1>1, <1>2, <1>3, <2>1 DEF Replace, local, Phase, Inside, IInv, TypeOK
  <2>2. CASE q # p
    <3>1. pc[q] = "receipt" => archive'[id[q]] = archive[id[q]]
      BY <1>1, <1>3, <2>2, Alone DEF IInv, TypeOK, Phases, Phase, Inside
    <3> QED
      BY <1>2, <2>2, <3>1 DEF Replace, local, Phase, Phases, Inside, IInv, TypeOK
  <2> QED
    BY <2>1, <2>2
<1>6. SourcesVerified'
  BY <1>2 DEF Replace, local, SourcesVerified, IInv, TypeOK
<1>7. ReceiptsMatch'
  BY <1>1, <1>3 DEF Replace, ReceiptsMatch, IInv, TypeOK
<1> QED
  BY <1>4, <1>5, <1>6, <1>7 DEF IInv, Phases

LEMMA WriteReceiptStep == ASSUME IInv, NEW p \in Proc, WriteReceipt(p) PROVE IInv'
<1>1. /\ id[p] \in Id /\ archive[id[p]] \in Artifact /\ archive[id[p]] # None
      /\ lock[id[p]] = p /\ pc[p] \in Inside
  BY BuildAssumption DEF WriteReceipt, IInv, Phases, Phase, Inside
<1>2. pc' = [pc EXCEPT ![p] = "log"] /\ pc' \in [Proc -> Labels]
  BY DEF WriteReceipt, Goto, IInv, TypeOK, Labels
<1>3. /\ receipt' = [receipt EXCEPT ![id[p]] = archive[id[p]]]
      /\ receipt' \in [Id -> Artifact \cup {None}]
  BY <1>1 DEF WriteReceipt, IInv, TypeOK
<1>4. TypeOK'
  BY <1>2, <1>3 DEF WriteReceipt, local, bounds, IInv, TypeOK
<1>5. ASSUME NEW q \in Proc PROVE Phase(q)'
  <2>1. CASE q = p
    BY <1>1, <1>2, <1>3, <2>1 DEF WriteReceipt, local, Phase, Inside, IInv, TypeOK
  <2>2. CASE q # p
    <3>1. pc[q] \in Inside => id[q] \in Id /\ receipt'[id[q]] = receipt[id[q]]
      BY <1>1, <1>3, <2>2, Alone DEF IInv, TypeOK, Phases, Phase, Inside
    <3> QED
      BY <1>2, <2>2, <3>1 DEF WriteReceipt, local, Phase, Phases, Inside, IInv, TypeOK
  <2> QED
    BY <2>1, <2>2
<1>6. SourcesVerified'
  BY <1>2 DEF WriteReceipt, local, SourcesVerified, IInv, TypeOK
<1>7. ReceiptsMatch'
  BY <1>1, <1>3 DEF WriteReceipt, ReceiptsMatch, IInv, TypeOK
<1> QED
  BY <1>4, <1>5, <1>6, <1>7 DEF IInv, Phases
-----------------------------------------------------------------------------
LEMMA ReuseStep == ASSUME IInv, NEW p \in Proc, Reuse(p) PROVE IInv'
<1>1. id[p] \in Id /\ archive[id[p]] \in Artifact
  BY DEF Reuse, IInv, TypeOK, Phases, Phase
<1>2. <<id[p], archive[id[p]]>> \in Id \X Artifact
  BY <1>1
<1>3. served' \in SUBSET (Id \X Artifact)
  BY <1>2 DEF Reuse, IInv, TypeOK
<1>4. logged' \in SUBSET Id /\ faults' \in 0..MaxFaults
  BY DEF Reuse, disk, bounds, IInv, TypeOK
<1> QED
  BY <1>3, <1>4, LeaveStep DEF Reuse, disk, bounds

LEMMA WriteInputsStep == ASSUME IInv, NEW p \in Proc, WriteInputs(p) PROVE IInv'
<1>1. id[p] \in Id /\ archive[id[p]] \in Artifact
  BY DEF WriteInputs, IInv, TypeOK, Phases, Phase, ReceiptsMatch
<1>2. <<id[p], archive[id[p]]>> \in Id \X Artifact
  BY <1>1
<1>3. served' \in SUBSET (Id \X Artifact) /\ logged' \in SUBSET Id
  BY <1>1, <1>2 DEF WriteInputs, IInv, TypeOK
<1>4. faults' \in 0..MaxFaults
  BY DEF WriteInputs, bounds, IInv, TypeOK
<1> QED
  BY <1>3, <1>4, LeaveStep DEF WriteInputs, bounds

LEMMA AbortStep == ASSUME IInv, NEW p \in Proc, Abort(p) PROVE IInv'
<1>1. faults' \in 0..MaxFaults
  BY BuildAssumption DEF Abort, IInv, TypeOK
<1>2. served' \in SUBSET (Id \X Artifact) /\ logged' \in SUBSET Id
  BY DEF Abort, disk, IInv, TypeOK
<1> QED
  BY <1>1, <1>2, LeaveStep DEF Abort, disk

LEMMA PowerLossStep == ASSUME IInv, PowerLoss PROVE IInv'
<1>1. faults' \in 0..MaxFaults
  BY BuildAssumption DEF PowerLoss, IInv, TypeOK
<1>2. cached' \in [Source -> {Good, Bad, None}]
  BY DEF PowerLoss, IInv, TypeOK
<1>3. /\ archive' \in [Id -> Artifact \cup {None}]
      /\ \A b \in Id : receipt[b] # None => archive'[b] = archive[b]
  BY DEF PowerLoss, IInv, TypeOK
<1>4. TypeOK'
  BY <1>1, <1>2, <1>3 DEF PowerLoss, IInv, TypeOK, Labels
<1>5. Phases' /\ SourcesVerified'
  BY DEF PowerLoss, Phases, Phase, Inside, SourcesVerified
<1>6. ReceiptsMatch'
  BY <1>3 DEF PowerLoss, ReceiptsMatch, IInv
<1> QED
  BY <1>4, <1>5, <1>6 DEF IInv

LEMMA DiscardStep == ASSUME IInv, NEW s \in Source, Discard(s) PROVE IInv'
<1>1. TypeOK'
  BY DEF Discard, local, bounds, IInv, TypeOK
<1>2. Phases'
  BY DEF Discard, local, Phases, Phase, IInv
<1>3. SourcesVerified'
  <2>1. \A t \in Source : cached[t] = Good => cached'[t] = Good
    BY BuildAssumption DEF Discard, IInv, TypeOK
  <2>2. ASSUME NEW q \in Proc, pc[q] \in {"fetch", "copy"}, NEW t \in SourcesOf[id[q][1]] \ todo[q]
        PROVE  cached'[t] = Good
    BY <2>1, <2>2, IdFields DEF IInv, SourcesVerified, Phases, Phase
  <2> QED
    BY <2>2 DEF Discard, local, SourcesVerified
<1> QED
  BY <1>1, <1>2, <1>3 DEF Discard, IInv, ReceiptsMatch

LEMMA EditStep ==
  ASSUME IInv, NEW files \in [Recipe -> Version \cup {None}], Edit(files) PROVE IInv'
<1>1. TypeOK'
  BY DEF Edit, disk, local, bounds, IInv, TypeOK
<1> QED
  BY <1>1 DEF Edit, disk, local, IInv, Phases, Phase, SourcesVerified, ReceiptsMatch

LEMMA StepIInv == ASSUME IInv, [Next]_vars PROVE IInv'
<1>1. CASE UNCHANGED vars
  BY <1>1 DEF vars, disk, local, bounds, IInv, TypeOK, Phases, Phase, SourcesVerified, ReceiptsMatch
<1>2. CASE Next
  BY <1>2, CallStep, EnterStep, ReuseStep, MissStep, LockSourceStep, UseCachedStep, DownloadStep,
     AllFetchedStep, MakeStep, CopyFailsStep, ReplaceStep, WriteReceiptStep, WriteInputsStep, AbortStep,
     PowerLossStep, DiscardStep, EditStep DEF Next, Builders, Progress
<1> QED
  BY <1>1, <1>2

LEMMA InitIInv == ASSUME Init PROVE IInv
<1>1. TypeOK
  BY BuildAssumption DEF Init, TypeOK, Labels
<1> QED
  BY <1>1 DEF Init, IInv, Phases, Phase, Inside, SourcesVerified, ReceiptsMatch

THEOREM IInvInvariant == Spec => []IInv
<1>1. Init => IInv
  BY InitIInv
<1> QED
  BY <1>1, StepIInv, PTL DEF Spec

\* build.py, whoever builds, dies or edits: every file and local has its type.
THEOREM TypeCorrect == Spec => []TypeOK
BY IInvInvariant, PTL DEF IInv

\* What is unpacked has the pinned hash, though the lock of a source is dropped
\* as soon as it is fetched.
THEOREM SourcesAreVerified == Spec => []SourcesVerified
BY IInvInvariant, PTL DEF IInv
-----------------------------------------------------------------------------
\* Who holds the lock of a source is fetching it and has it still to fetch; who
\* holds that of an id is past taking it.
LockInv ==
  /\ \A s \in Source : lock[s] # None => pc[lock[s]] = "fetch" /\ fetching[lock[s]] = s
  /\ \A b \in Id : lock[b] # None => pc[lock[b]] \in Inside /\ id[lock[b]] = b
  /\ \A p \in Proc : fetching[p] # None =>
       pc[p] = "fetch" /\ fetching[p] \in todo[p] /\ lock[fetching[p]] = p

LInv == IInv /\ LockInv

\* Leaving one() leaves no lock behind.
LEMMA LeaveLocks == ASSUME LInv, NEW p \in Proc, Leave(p) PROVE LockInv'
<1>1. /\ lock' = [x \in Id \cup Source |-> IF lock[x] = p THEN None ELSE lock[x]]
      /\ \A x \in Id \cup Source : lock[x] \in Proc \cup {None}
      /\ fetching'[p] = None
  BY DEF Leave, LInv, IInv, TypeOK
<1>2. \A q \in Proc \ {p} : pc'[q] = pc[q] /\ id'[q] = id[q] /\ fetching'[q] = fetching[q] /\ todo'[q] = todo[q]
  BY LeaveEffect DEF LInv, IInv
<1>3. \A q \in Proc : fetching[q] \in Source \cup {None}
  BY DEF LInv, IInv, TypeOK
<1> QED
  BY <1>1, <1>2, <1>3 DEF LInv, LockInv

\* A step of a builder that takes and drops no lock.
LEMMA LocksKept ==
  ASSUME LInv, NEW p \in Proc, NEW l \in Labels, Goto(p, l), UNCHANGED <<lock, fetching, id>>,
         \A q \in Proc \ {p} : todo'[q] = todo[q],
         fetching[p] = None,
         pc[p] \in Inside => l \in Inside
  PROVE  LockInv'
<1>1. pc'[p] = l /\ \A q \in Proc \ {p} : pc'[q] = pc[q]
  BY DEF Goto, LInv, IInv, TypeOK
<1>2. \A s \in Source : lock[s] # p
  BY BuildAssumption DEF LInv, LockInv
<1>3. pc[p] \notin Inside => \A b \in Id : lock[b] # p
  BY BuildAssumption DEF LInv, LockInv
<1>4. \A x \in Id \cup Source : lock[x] \in Proc \cup {None}
  BY DEF LInv, IInv, TypeOK
<1> QED
  BY <1>1, <1>2, <1>3, <1>4 DEF LInv, LockInv

LEMMA CallLocks == ASSUME LInv, NEW p \in Proc, Call(p) PROVE LockInv'
<1>1. /\ pc[p] = "idle" /\ UNCHANGED <<lock, fetching, todo>>
      /\ \A q \in Proc \ {p} : pc'[q] = pc[q] /\ id'[q] = id[q]
  BY DEF Call, Goto, LInv, IInv, TypeOK
<1>2. fetching[p] = None /\ \A x \in Id \cup Source : lock[x] # p
  BY <1>1, BuildAssumption DEF LInv, LockInv, Inside
<1>3. \A x \in Id \cup Source : lock[x] \in Proc \cup {None}
  BY DEF LInv, IInv, TypeOK
<1> QED
  BY <1>1, <1>2, <1>3 DEF LInv, LockInv

LEMMA EnterLocks == ASSUME LInv, NEW p \in Proc, Enter(p) PROVE LockInv'
<1>1. /\ pc[p] = "waiting" /\ pc'[p] = "locked" /\ UNCHANGED <<fetching, todo, id>>
      /\ \A q \in Proc \ {p} : pc'[q] = pc[q]
      /\ id[p] \in Id /\ lock[id[p]] = None
      /\ lock' = [lock EXCEPT ![id[p]] = p]
  BY DEF Enter, Free, Goto, local, LInv, IInv, Phases, Phase, TypeOK
<1>2. fetching[p] = None /\ \A x \in Id \cup Source : lock[x] # p
  BY <1>1, BuildAssumption DEF LInv, LockInv, Inside
<1>3. \A x \in (Id \cup Source) \ {id[p]} : lock'[x] = lock[x] /\ lock[x] \in Proc \cup {None}
  BY <1>1 DEF LInv, IInv, TypeOK
<1>4. lock'[id[p]] = p /\ id[p] \notin Source
  BY <1>1, BuildAssumption DEF LInv, IInv, TypeOK
<1>5. \A q \in Proc : fetching[q] # None => fetching[q] \in Source
  BY DEF LInv, IInv, TypeOK
<1> QED
  BY <1>1, <1>2, <1>3, <1>4, <1>5 DEF LInv, LockInv, Inside

LEMMA LockSourceLocks == ASSUME LInv, NEW p \in Proc, LockSource(p) PROVE LockInv'
<1> PICK s \in todo[p] : /\ lock[s] = None
                         /\ lock' = [lock EXCEPT ![s] = p]
                         /\ fetching' = [fetching EXCEPT ![p] = s]
  BY DEF LockSource, Free
<1>1. pc[p] = "fetch" /\ fetching[p] = None /\ s \in Source /\ UNCHANGED <<pc, todo, id>>
  BY DEF LockSource, LInv, IInv, TypeOK
<1>2. \A t \in Source : lock[t] # p
  BY <1>1, BuildAssumption DEF LInv, LockInv
<1>3. /\ \A x \in (Id \cup Source) \ {s} : lock'[x] = lock[x]
      /\ lock'[s] = p /\ s \notin Id
      /\ fetching'[p] = s /\ \A q \in Proc \ {p} : fetching'[q] = fetching[q]
  BY <1>1, BuildAssumption DEF LInv, IInv, TypeOK
<1>4. \A x \in Source, t \in Proc : lock[x] = t => lock[x] # None /\ x # s
  BY BuildAssumption
<1>5. \A q \in Proc \ {p} : fetching[q] # None => fetching[q] \in Source \ {s}
  BY <1>4 DEF LInv, LockInv, IInv, TypeOK
<1>6. \A x \in Source : lock'[x] # None => pc'[lock'[x]] = "fetch" /\ fetching'[lock'[x]] = x
  <2> SUFFICES ASSUME NEW x \in Source, x # s, lock[x] # None
               PROVE  pc[lock[x]] = "fetch" /\ fetching'[lock[x]] = x
    BY <1>1, <1>3
  <2>1. lock[x] \in Proc \ {p}
    BY <1>2 DEF LInv, IInv, TypeOK
  <2> QED
    BY <1>3, <2>1 DEF LInv, LockInv
<1>7. \A b \in Id : lock'[b] = lock[b]
  BY <1>3
<1>8. \A q \in Proc : fetching'[q] # None =>
        pc'[q] = "fetch" /\ fetching'[q] \in todo'[q] /\ lock'[fetching'[q]] = q
  BY <1>1, <1>3, <1>5 DEF LInv, LockInv
<1> QED
  BY <1>1, <1>6, <1>7, <1>8 DEF LInv, LockInv

LEMMA FetchedLocks ==
  ASSUME LInv, NEW p \in Proc, fetching[p] # None, Fetched(p) PROVE LockInv'
<1>1. /\ pc[p] = "fetch" /\ fetching[p] \in Source /\ lock[fetching[p]] = p
      /\ UNCHANGED <<pc, id>>
  BY DEF Fetched, LInv, LockInv, IInv, TypeOK
<1>2. /\ \A x \in (Id \cup Source) \ {fetching[p]} : lock'[x] = lock[x]
      /\ lock'[fetching[p]] = None /\ fetching[p] \notin Id
      /\ fetching'[p] = None
      /\ \A q \in Proc \ {p} : fetching'[q] = fetching[q] /\ todo'[q] = todo[q]
  BY <1>1, BuildAssumption DEF Fetched, Unlocked, LInv, IInv, TypeOK
<1>3. \A q \in Proc \ {p} : fetching[q] # None => fetching[q] \in Source \ {fetching[p]}
  BY <1>1 DEF LInv, LockInv, IInv, TypeOK
<1>4. \A x \in Source : lock'[x] # None => pc'[lock'[x]] = "fetch" /\ fetching'[lock'[x]] = x
  <2> SUFFICES ASSUME NEW x \in Source, x # fetching[p], lock[x] # None
               PROVE  pc[lock[x]] = "fetch" /\ fetching'[lock[x]] = x
    BY <1>1, <1>2
  <2>1. lock[x] \in Proc /\ fetching[lock[x]] = x
    BY DEF LInv, LockInv, IInv, TypeOK
  <2>2. lock[x] # p
    BY <2>1
  <2> QED
    BY <1>2, <2>1, <2>2 DEF LInv, LockInv
<1>5. \A b \in Id : lock'[b] = lock[b]
  BY <1>1, <1>2, BuildAssumption
<1>6. \A q \in Proc : fetching'[q] # None =>
        pc'[q] = "fetch" /\ fetching'[q] \in todo'[q] /\ lock'[fetching'[q]] = q
  BY <1>1, <1>2, <1>3 DEF LInv, LockInv
<1> QED
  BY <1>1, <1>4, <1>5, <1>6 DEF LInv, LockInv

LEMMA PowerLossLocks == ASSUME LInv, PowerLoss PROVE LockInv'
BY BuildAssumption DEF PowerLoss, LInv, IInv, TypeOK, LockInv

LEMMA StepLInv == ASSUME LInv, [Next]_vars PROVE LInv'
<1>1. IInv'
  BY StepIInv DEF LInv
<1>2. CASE UNCHANGED <<lock, pc, local>>
  BY <1>1, <1>2 DEF LInv, LockInv, local
<1>3. ASSUME NEW p \in Proc, Progress(p) PROVE LockInv'
  <2>1. CASE pc[p] \in {"locked", "fetch", "copy", "replace", "receipt"} /\ fetching[p] = None
             /\ (Miss(p) \/ AllFetched(p) \/ Make(p) \/ Replace(p) \/ WriteReceipt(p))
    <3>1. PICK l \in Inside : Goto(p, l)
      BY <2>1 DEF Miss, AllFetched, Make, Replace, WriteReceipt, Inside
    <3>2. l \in Labels
      BY <3>1 DEF Inside, Labels
    <3>3. UNCHANGED <<lock, fetching, id>> /\ \A q \in Proc \ {p} : todo'[q] = todo[q]
      BY <2>1 DEF Miss, AllFetched, Make, Replace, WriteReceipt, local, LInv, IInv, TypeOK
    <3> QED
      BY <2>1, <3>1, <3>2, <3>3, LocksKept
  <2>2. ASSUME Miss(p) \/ AllFetched(p) \/ Make(p) \/ Replace(p) \/ WriteReceipt(p)
        PROVE  pc[p] \in {"locked", "fetch", "copy", "replace", "receipt"} /\ fetching[p] = None
    BY <2>2 DEF Miss, AllFetched, Make, Replace, WriteReceipt, LInv, LockInv
  <2>3. CASE Leave(p)
    BY <2>3, LeaveLocks
  <2>4. CASE fetching[p] # None /\ Fetched(p)
    BY <2>4, FetchedLocks
  <2> QED
    BY <1>3, <2>1, <2>2, <2>3, <2>4, EnterLocks, LockSourceLocks
       DEF Progress, Reuse, UseCached, Download, CopyFails, WriteInputs
<1>4. ASSUME NEW p \in Proc, Abort(p) PROVE LockInv'
  BY <1>4, LeaveLocks DEF Abort
<1> QED
  BY <1>1, <1>2, <1>3, <1>4, CallLocks, PowerLossLocks
     DEF Next, Builders, Discard, Edit, vars, LInv

THEOREM LInvInvariant == Spec => []LInv
<1>1. Init => LInv
  <2>1. Init => IInv
    BY InitIInv
  <2>2. Init => LockInv
    BY DEF Init, LockInv
  <2> QED
    BY <2>1, <2>2 DEF LInv
<1> QED
  BY <1>1, StepLInv, PTL DEF Spec

\* Who waits for the lock of a source waits for somebody who waits for nobody,
\* and who waits for that of an id for somebody inside.
LEMMA WaitsAreShort ==
  ASSUME LInv, NEW p \in Proc, NEW q \in Proc, WaitsFor(p, q)
  PROVE  \/ \A r \in Proc : ~WaitsFor(q, r)
         \/ \A r \in Proc : WaitsFor(q, r) => \A t \in Proc : ~WaitsFor(r, t)
<1>1. ASSUME NEW s \in Source, NEW r \in Proc, lock[s] = r PROVE \A t \in Proc : ~WaitsFor(r, t)
  BY <1>1, BuildAssumption DEF LInv, LockInv, WaitsFor
<1>2. ASSUME NEW r \in Proc, NEW t \in Proc, WaitsFor(r, t), pc[r] # "waiting"
      PROVE  \E s \in Source : lock[s] = t
  BY <1>2 DEF WaitsFor, LInv, IInv, TypeOK
<1>3. CASE pc[p] = "waiting"
  <2>1. lock[id[p]] = q /\ id[p] \in Id
    BY <1>3 DEF WaitsFor, LInv, IInv, Phases, Phase
  <2>2. pc[q] # "waiting"
    BY <2>1, BuildAssumption DEF LInv, LockInv, Inside
  <2> QED
    BY <1>1, <1>2, <2>2
<1>4. CASE pc[p] # "waiting"
  BY <1>1, <1>2, <1>4
<1> QED
  BY <1>3, <1>4

\* No ring of builders waits for itself, and no lock outlives its call.
THEOREM NobodyWaitsInARing == Spec => []NoCircularWait
<1>1. LInv => NoCircularWait
  <2> SUFFICES ASSUME LInv PROVE NoCircularWait
    OBVIOUS
  <2>1. ASSUME NEW x \in Id \cup Source, lock[x] # None
        PROVE  pc[lock[x]] \notin {"idle", "waiting"}
    BY <2>1 DEF LInv, LockInv, Inside
  <2>2. ASSUME NEW S \in (SUBSET Proc) \ {{}} PROVE \E p \in S : \A q \in S : ~WaitsFor(p, q)
    <3> SUFFICES ASSUME \A p \in S : \E q \in S : WaitsFor(p, q) PROVE FALSE
      OBVIOUS
    <3>0. PICK p \in S : TRUE
      OBVIOUS
    <3>1. PICK q \in S : WaitsFor(p, q)
      OBVIOUS
    <3>2. PICK r \in S : WaitsFor(q, r)
      OBVIOUS
    <3>3. PICK t \in S : WaitsFor(r, t)
      OBVIOUS
    <3> QED
      BY <3>1, <3>2, <3>3, WaitsAreShort
  <2> QED
    BY <2>1, <2>2 DEF NoCircularWait
<1> QED
  BY <1>1, LInvInvariant, PTL
-----------------------------------------------------------------------------
\* The receipt publishes an archive; until then and after it no step changes
\* what is published.
LEMMA PublishedType ==
  ASSUME TypeOK
  PROVE  /\ Published \in [Id -> Artifact \cup {None}]
         /\ \A b \in Id : receipt[b] = None => Published[b] = None
         /\ \A b \in Id : receipt[b] # None => Published[b] = archive[b]
BY DEF TypeOK, Published

LEMMA PublishedSame ==
  ASSUME receipt' = receipt, \A b \in Id : receipt[b] # None => archive'[b] = archive[b]
  PROVE  Published' = Published
BY DEF Published

LEMMA ReceiptPublishes ==
  ASSUME IInv, NEW p \in Proc, WriteReceipt(p)
  PROVE  Abstract!Publish(id[p], archive[id[p]]) /\ id[p] \in Id /\ archive[id[p]] \in Artifact
<1>1. /\ id[p] \in Id /\ archive[id[p]] \in Artifact /\ archive[id[p]] # None
      /\ receipt[id[p]] = None
  BY BuildAssumption DEF WriteReceipt, IInv, Phases, Phase
<1>2. receipt' = [receipt EXCEPT ![id[p]] = archive[id[p]]] /\ archive' = archive
  BY DEF WriteReceipt
<1>3. Published' = [Published EXCEPT ![id[p]] = archive[id[p]]]
  BY <1>1, <1>2 DEF Published, IInv, TypeOK
<1> QED
  BY <1>1, <1>3 DEF Abstract!Publish, WriteReceipt, Published

LEMMA AnswersArePublished ==
  ASSUME IInv, NEW p \in Proc, Reuse(p) \/ WriteInputs(p)
  PROVE  (\E b \in Id : Abstract!Serve(b)) \/ UNCHANGED <<Published, served>>
<1>1. id[p] \in Id /\ Published' = Published
  BY PublishedSame DEF Reuse, WriteInputs, disk, IInv, Phases, Phase
<1>2. CASE served' = served
  BY <1>1, <1>2
<1>3. CASE /\ served' = served \cup {<<id[p], archive[id[p]]>>}
           /\ receipt[id[p]] = archive[id[p]] /\ receipt[id[p]] # None
  <2>1. Published[id[p]] = archive[id[p]] /\ Published[id[p]] # None
    BY <1>1, <1>3, PublishedType DEF IInv
  <2> QED
    BY <1>1, <1>3, <2>1 DEF Abstract!Serve
<1> QED
  BY <1>1, <1>2, <1>3 DEF Reuse, Verified, WriteInputs, IInv, Phases, Phase, ReceiptsMatch

LEMMA StepImplements ==
  ASSUME IInv, [Next]_vars
  PROVE  Abstract!Next \/ UNCHANGED <<Published, served>>
<1>1. ASSUME NEW p \in Proc, WriteReceipt(p) PROVE Abstract!Next
  BY <1>1, ReceiptPublishes DEF Abstract!Next
<1>2. ASSUME NEW p \in Proc, Reuse(p) \/ WriteInputs(p)
      PROVE  Abstract!Next \/ UNCHANGED <<Published, served>>
  BY <1>2, AnswersArePublished DEF Abstract!Next
<1>3. ASSUME NEW p \in Proc, Replace(p) PROVE UNCHANGED <<Published, served>>
  <2>1. id[p] \in Id /\ receipt[id[p]] = None
    BY <1>3 DEF Replace, IInv, Phases, Phase
  <2>2. receipt' = receipt /\ served' = served /\ \A b \in Id : b # id[p] => archive'[b] = archive[b]
    BY <1>3 DEF Replace, IInv, TypeOK
  <2> QED
    BY <2>1, <2>2, PublishedSame
<1>4. CASE PowerLoss
  <2>1. \A b \in Id : receipt[b] # None => archive'[b] = archive[b]
    BY <1>4 DEF PowerLoss, IInv, TypeOK
  <2> QED
    BY <1>4, <2>1, PublishedSame DEF PowerLoss
<1>5. CASE UNCHANGED <<archive, receipt, served>>
  BY <1>5, PublishedSame
<1>6. CASE UNCHANGED vars
  BY <1>5, <1>6 DEF vars, disk
<1>7. ASSUME NEW p \in Proc, Call(p) \/ Enter(p) \/ Miss(p) \/ LockSource(p) \/ AllFetched(p) \/ Make(p)
      PROVE  UNCHANGED <<archive, receipt, served>>
  BY <1>7 DEF Call, Enter, Miss, LockSource, AllFetched, Make, disk
<1>8. ASSUME NEW p \in Proc, UseCached(p) \/ Download(p) \/ CopyFails(p) \/ Abort(p)
      PROVE  UNCHANGED <<archive, receipt, served>>
  BY <1>8 DEF UseCached, Download, CopyFails, Abort, disk
<1>9. ASSUME NEW s \in Source, Discard(s) PROVE UNCHANGED <<archive, receipt, served>>
  BY <1>9 DEF Discard, disk
<1>10. ASSUME NEW files \in [Recipe -> Version \cup {None}], Edit(files)
       PROVE  UNCHANGED <<archive, receipt, served>>
  BY <1>10 DEF Edit, disk
<1> QED
  BY <1>1, <1>2, <1>3, <1>4, <1>5, <1>6, <1>7, <1>8, <1>9, <1>10 DEF Next, Builders, Progress

\* For any builders, recipes, sources and edits, and any number of deaths and
\* power losses: an id has one artifact, and every answer is that artifact.
THEOREM OneArtifact == Spec => OneArtifactPerId
<1>1. Init => Abstract!Init
  BY DEF Init, Abstract!Init, Published
<1>2. IInv /\ [Next]_vars => [Abstract!Next]_<<Published, served>>
  BY StepImplements
<1> QED
  BY <1>1, <1>2, IInvInvariant, PTL DEF Spec, OneArtifactPerId, Abstract!Spec, Abstract!vars
-----------------------------------------------------------------------------

\* A tree is in use or kept; that, and who may have moved it, is inductive.
SyncInv ==
  /\ Sync!TypeOK
  /\ Sync!TreeInUse
  /\ recipe # NoTree \/ previous # NoTree

LEMMA NoTreeIsNone == NoTree \notin Trees
<1>1. PICK r \in Recipe : TRUE
  BY SystemAssumption
<1>2. ASSUME NEW v \in Version, NoTree = [x \in Recipe |-> v] PROVE FALSE
  BY <1>1, <1>2, BuildAssumption DEF NoTree
<1> QED
  BY <1>2 DEF Trees

\* Builders change no recipe.
LEMMA BuildersKeepRecipes == ASSUME Builders \/ PowerLoss PROVE recipe' = recipe
BY DEF Builders, Progress, Call, Enter, Reuse, Miss, LockSource, UseCached, Download, AllFetched,
   Make, CopyFails, Replace, WriteReceipt, WriteInputs, Abort, PowerLoss, Discard
-----------------------------------------------------------------------------
\* One step of one sync.
LEMMA SyncTypes == ASSUME SyncInv, NEW y \in Syncer, Sync!Sync(y) PROVE Sync!TypeOK'
<1>1. \A step \in Sync!Steps : Sync!Goto(y, step) => at' \in [Syncer -> Sync!Steps]
  BY DEF Sync!Goto, SyncInv, Sync!TypeOK
<1>2. at' \in [Syncer -> Sync!Steps]
  BY <1>1 DEF Sync!Sync, Sync!Check, Sync!Look, Sync!MoveAway, Sync!MoveIn, Sync!Undo, Sync!Die, Sync!Steps
<1>3. recipe' \in Trees \cup {NoTree} /\ previous' \in Trees \cup {NoTree}
  BY DEF SyncInv, Sync!TypeOK, Sync!Sync, Sync!Check, Sync!Look, Sync!MoveAway, Sync!MoveIn,
     Sync!Undo, Sync!Restores, Sync!Renames, Sync!Die
<1>4. syncs' \in 0..MaxSyncs /\ deaths' \in 0..MaxDeaths
  BY SystemAssumption DEF SyncInv, Sync!TypeOK, Sync!Sync, Sync!Check, Sync!Look, Sync!MoveAway,
     Sync!MoveIn, Sync!Undo, Sync!Die
<1>5. stranded' \in BOOLEAN
  BY DEF SyncInv, Sync!TypeOK, Sync!Sync, Sync!Check, Sync!Look, Sync!MoveAway,
     Sync!MoveIn, Sync!Undo, Sync!Die
<1> QED
  BY <1>2, <1>3, <1>4, <1>5 DEF Sync!TypeOK

LEMMA SyncKeepsTrees ==
  ASSUME SyncInv, NEW y \in Syncer, Sync!Sync(y)
  PROVE  {recipe, previous} \ {NoTree} \subseteq {recipe', previous'}
BY NoTreeIsNone DEF SyncInv, Sync!TypeOK, Sync!Sync, Sync!Check, Sync!Look, Sync!MoveAway, Sync!MoveIn,
   Sync!Undo, Sync!Restores, Sync!Renames, Sync!Die

\* Who is between its renames stays there while another one steps. Who leaves
\* with no tree in use was killed, since what it took away is there to restore.
LEMMA SyncTreeInUse == ASSUME SyncInv, NEW y \in Syncer, Sync!Sync(y) PROVE Sync!TreeInUse'
<1> SUFFICES ASSUME recipe' = NoTree
             PROVE  stranded' \/ \E q \in Syncer : Sync!BetweenRenames(q)'
  BY SyncKeepsTrees DEF Sync!TreeInUse, SyncInv
<1>1. CASE Sync!MoveAway(y) /\ Sync!Renames(recipe, previous)
  BY <1>1 DEF Sync!MoveAway, Sync!Goto, Sync!BetweenRenames, SyncInv, Sync!TypeOK
<1>2. CASE Sync!MoveIn(y)
  <2>1. ~\E t \in Trees : recipe' = t
    BY NoTreeIsNone
  <2> QED
    BY <1>2, <2>1 DEF Sync!MoveIn, Sync!Goto, Sync!BetweenRenames, SyncInv, Sync!TypeOK
<1>3. CASE Sync!Undo(y)
  BY <1>3 DEF Sync!Undo, Sync!Restores, Sync!Renames, SyncInv
<1>4. CASE Sync!Die(y)
  <2>1. recipe = NoTree /\ \A q \in Syncer \ {y} : at'[q] = at[q]
    BY <1>4 DEF Sync!Die, Sync!Goto, SyncInv, Sync!TypeOK
  <2>2. stranded \/ \E q \in Syncer : Sync!BetweenRenames(q)
    BY <2>1 DEF SyncInv, Sync!TreeInUse
  <2> QED
    BY <1>4, <2>1, <2>2 DEF Sync!Die, Sync!BetweenRenames
<1>5. CASE Sync!Check(y) \/ Sync!Look(y) \/ (Sync!MoveAway(y) /\ ~Sync!Renames(recipe, previous))
  <2>1. recipe = NoTree /\ stranded' = stranded /\ at[y] \notin {"in", "undo"}
        /\ \A q \in Syncer \ {y} : at'[q] = at[q]
    BY <1>5 DEF Sync!Check, Sync!Look, Sync!MoveAway, Sync!Goto, SyncInv, Sync!TypeOK
  <2> QED
    BY <2>1 DEF SyncInv, Sync!TreeInUse, Sync!BetweenRenames
<1>6. \/ Sync!Check(y) \/ Sync!Look(y) \/ Sync!MoveAway(y)
      \/ Sync!MoveIn(y) \/ Sync!Undo(y) \/ Sync!Die(y)
  BY DEF Sync!Sync
<1> QED
  BY <1>1, <1>2, <1>3, <1>4, <1>5, <1>6
-----------------------------------------------------------------------------
LEMMA SyncInvInit == ASSUME Sync!Init PROVE SyncInv
<1>1. recipe # NoTree
  BY NoTreeIsNone DEF Sync!Init
<1>2. Sync!TypeOK
  <2>1. syncs \in 0..MaxSyncs /\ deaths \in 0..MaxDeaths
    BY SystemAssumption DEF Sync!Init
  <2> QED
    BY <2>1 DEF Sync!Init, Sync!TypeOK, Sync!Steps
<1> QED
  BY <1>1, <1>2 DEF SyncInv, Sync!Init, Sync!TreeInUse

LEMMA SyncInvStep == ASSUME SyncInv, [SystemNext]_systemVars PROVE SyncInv'
<1>1. CASE recipe' = recipe /\ UNCHANGED syncVars
  BY <1>1 DEF syncVars, SyncInv, Sync!TypeOK, Sync!TreeInUse, Sync!BetweenRenames
<1>2. ASSUME NEW y \in Syncer, Sync!Sync(y) PROVE SyncInv'
  <2>1. recipe' # NoTree \/ previous' # NoTree
    BY <1>2, SyncKeepsTrees DEF SyncInv
  <2> QED
    BY <1>2, <2>1, SyncTypes, SyncTreeInUse DEF SyncInv
<1>3. CASE Sync!Review
  BY <1>3 DEF Sync!Review, SyncInv, Sync!TypeOK, Sync!TreeInUse
<1>4. CASE Sync!Crash /\ recipe' = recipe
  <2>1. deaths' \in 0..MaxDeaths /\ stranded' \in BOOLEAN
    BY <1>4, SystemAssumption DEF Sync!Crash, SyncInv, Sync!TypeOK
  <2>2. at' \in [Syncer -> Sync!Steps]
    BY <1>4 DEF Sync!Crash, Sync!Steps
  <2>3. Sync!TreeInUse'
    BY <1>4 DEF Sync!Crash, SyncInv, Sync!TreeInUse
  <2> QED
    BY <1>4, <2>1, <2>2, <2>3 DEF Sync!Crash, SyncInv, Sync!TypeOK
<1> QED
  BY <1>1, <1>2, <1>3, <1>4, BuildersKeepRecipes
  DEF SystemNext, BuilderStep, SyncStep, MachineStops, systemVars, vars

THEOREM SyncInvInvariant == SystemSpec => []SyncInv
<1>1. SystemInit => SyncInv
  BY SyncInvInit DEF SystemInit
<1> QED
  BY <1>1, SyncInvStep, PTL DEF SystemSpec

\* cli.py:57-64. However many syncs run at once, fail or are killed: while no
\* tree is in use, one is between its renames, or the last that was there has
\* been killed and left the tree at recipes.previous.
THEOREM TreeAlwaysInUse == SystemSpec => []TreeInUse
<1>1. SyncInv => TreeInUse
  BY DEF SyncInv, TreeInUse
<1> QED
  BY <1>1, SyncInvInvariant, PTL

\* cli.py:55-64. No sync loses a tree that is in use or kept.
THEOREM TreesAlwaysKept == SystemSpec => TreesKept
<1>1. SyncInv /\ [SystemNext]_systemVars =>
        [Sync!Review \/ {recipe, previous} \ {NoTree} \subseteq {recipe', previous'}]_<<recipe, previous>>
  BY SyncKeepsTrees, BuildersKeepRecipes
  DEF SystemNext, BuilderStep, SyncStep, MachineStops, Sync!Crash, syncVars, systemVars, vars
<1> QED
  BY <1>1, SyncInvInvariant, PTL DEF SystemSpec, TreesKept, Sync!TreesKept
-----------------------------------------------------------------------------
\* The builders see a sync as an edit of the recipe files.
THEOREM SystemImplements == SystemSpec => Spec
<1>1. SystemInit => Init
  BY DEF SystemInit
<1>2. SyncInv /\ SyncInv' /\ [SystemNext]_systemVars => [Next]_vars
  <2> SUFFICES ASSUME SyncInv', [SystemNext]_systemVars PROVE [Next]_vars
    OBVIOUS
  <2>1. recipe' \in [Recipe -> Version \cup {None}]
    BY DEF SyncInv, Sync!TypeOK, Trees, NoTree
  <2>2. CASE SyncStep
    BY <2>1, <2>2 DEF SyncStep, Next, Edit
  <2>3. CASE BuilderStep \/ MachineStops
    BY <2>3 DEF BuilderStep, MachineStops, Next
  <2> QED
    BY <2>2, <2>3 DEF SystemNext, systemVars
<1> QED
  BY <1>1, <1>2, SyncInvInvariant, PTL DEF SystemSpec, Spec

\* build.py and cli.py: every file, local and step has its type.
THEOREM SystemTypeCorrect == SystemSpec => []SystemTypeOK
<1>1. IInv /\ SyncInv => SystemTypeOK
  BY DEF IInv, SyncInv, SystemTypeOK
<1> QED
  BY <1>1, SystemImplements, IInvInvariant, SyncInvInvariant, PTL

\* build.py:25-40. What is unpacked has the pinned hash, while recipes change.
THEOREM SystemSourcesVerified == SystemSpec => []SourcesVerified
BY SystemImplements, SourcesAreVerified, PTL

\* build.py:95-104, packages.py:76-79. An id has one artifact and every answer
\* is that one, while recipes change.
THEOREM SystemOneArtifact == SystemSpec => OneArtifactPerId
BY SystemImplements, OneArtifact, PTL

\* build.py:23-24, 95-96. No ring of builders waits for itself, while recipes
\* change.
THEOREM SystemNoCircularWait == SystemSpec => []NoCircularWait
BY SystemImplements, NobodyWaitsInARing, PTL
=============================================================================
