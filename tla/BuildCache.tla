----------------------------- MODULE BuildCache -----------------------------
(***************************************************************************)
(* vfos/build.py: fetch and Builder.one, and pack of vfos/packages.py, run *)
(* by several builders over one source cache and one output directory.  A  *)
(* step is one durable change or one decision, so that a builder can be    *)
(* killed, or the machine lose power, between any two of them.  A builder  *)
(* calls one() for one recipe after another; what a build puts into its    *)
(* private sandbox is one step, and what it yields is left open.           *)
(***************************************************************************)
EXTENDS Naturals

CONSTANTS
  Proc,       \* builder processes
  Recipe,     \* recipes
  Version,    \* what the files of a recipe can say
  Source,     \* pinned source archives
  SourcesOf,  \* the sources each recipe names
  Content,    \* payloads a build can yield
  Good, Bad,  \* a source file with the pinned hash, and one without
  None,       \* no file, no process
  MaxCalls,   \* bound on calls of one()
  MaxFaults   \* bound on exceptions, deaths and power losses

\* identity(inputs): what a recipe's files said, and with it everything else
\* that goes into the id.
Id == Recipe \X Version

\* An archive: its payload and what the recipe files said that made it.
Artifact == Content \X Version

ASSUME BuildAssumption ==
  /\ SourcesOf \in [Recipe -> SUBSET Source]
  /\ Good # Bad /\ None \notin {Good, Bad} /\ None \notin Proc /\ None \notin Artifact
  /\ None \notin Version
  /\ None \notin Source /\ None \notin Id
  /\ Id \cap Source = {}
  /\ MaxCalls \in Nat /\ MaxFaults \in Nat

VARIABLES
  recipe,     \* what the files of each recipe say now, or None
  cached,     \* cache/sources: each source file, or None
  archive,    \* output: the archive of each id, or None
  receipt,    \* the .sha256.json of each id, or None
  logged,     \* the ids with an .inputs.json
  lock,       \* the process that holds each flock, or None
  pc,         \* where each process is
  id,         \* the id it builds, or None
  todo,       \* the sources it has still to fetch
  fetching,   \* the one it holds the lock of, or None
  made,       \* the archive in its temporary file, or None
  served,     \* history: every answer one() has given
  calls, faults

disk == <<cached, archive, receipt, logged>>
local == <<id, todo, fetching, made>>
bounds == <<calls, faults>>
vars == <<recipe, disk, lock, pc, local, served, bounds>>

Labels == {"idle", "waiting", "locked", "fetch", "copy", "replace", "receipt", "log"}

TypeOK ==
  /\ recipe \in [Recipe -> Version \cup {None}]
  /\ cached \in [Source -> {Good, Bad, None}]
  /\ archive \in [Id -> Artifact \cup {None}]
  /\ receipt \in [Id -> Artifact \cup {None}]
  /\ logged \subseteq Id
  /\ lock \in [Id \cup Source -> Proc \cup {None}]
  /\ pc \in [Proc -> Labels]
  /\ id \in [Proc -> Id \cup {None}]
  /\ todo \in [Proc -> SUBSET Source]
  /\ fetching \in [Proc -> Source \cup {None}]
  /\ made \in [Proc -> Artifact \cup {None}]
  /\ served \subseteq Id \X Artifact
  /\ calls \in 0..MaxCalls /\ faults \in 0..MaxFaults

Init ==
  /\ recipe \in [Recipe -> Version]
  /\ cached = [s \in Source |-> None]
  /\ archive = [b \in Id |-> None] /\ receipt = archive /\ logged = {}
  /\ lock = [x \in Id \cup Source |-> None]
  /\ pc = [p \in Proc |-> "idle"]
  /\ id = [p \in Proc |-> None]
  /\ todo = [p \in Proc |-> {}]
  /\ fetching = [p \in Proc |-> None]
  /\ made = [p \in Proc |-> None]
  /\ served = {}
  /\ calls = 0 /\ faults = 0
-----------------------------------------------------------------------------
Goto(p, label) == pc' = [pc EXCEPT ![p] = label]

\* Leaving one(), by a return or an exception, drops its locks and locals.
Leave(p) ==
  /\ lock' = [x \in Id \cup Source |-> IF lock[x] = p THEN None ELSE lock[x]]
  /\ Goto(p, "idle")
  /\ id' = [id EXCEPT ![p] = None]
  /\ todo' = [todo EXCEPT ![p] = {}]
  /\ fetching' = [fetching EXCEPT ![p] = None]
  /\ made' = [made EXCEPT ![p] = None]

\* The inputs are collected, the id computed; without its files one() raises.
Call(p) ==
  /\ pc[p] = "idle" /\ calls < MaxCalls
  /\ \E r \in Recipe :
       recipe[r] # None /\ id' = [id EXCEPT ![p] = <<r, recipe[r]>>]
  /\ Goto(p, "waiting")
  /\ calls' = calls + 1
  /\ UNCHANGED <<recipe, disk, lock, todo, fetching, made, served, faults>>

\* flock on <id>.lock
Free_Ignored(x) == x \in Id \cup Source
Free(x) == lock[x] = None

Enter(p) ==
  /\ pc[p] = "waiting" /\ Free(id[p])
  /\ lock' = [lock EXCEPT ![id[p]] = p]
  /\ Goto(p, "locked")
  /\ UNCHANGED <<recipe, disk, local, served, bounds>>

\* The archive is there: it is returned if its receipt says so, else one() raises.
Verified(b) == receipt[b] = archive[b]

Reuse(p) ==
  /\ pc[p] = "locked" /\ archive[id[p]] # None
  /\ served' = IF Verified(id[p]) THEN served \cup {<<id[p], archive[id[p]]>>} ELSE served
  /\ Leave(p)
  /\ UNCHANGED <<recipe, disk, bounds>>

Miss(p) ==
  /\ pc[p] = "locked" /\ archive[id[p]] = None
  /\ todo' = [todo EXCEPT ![p] = SourcesOf[id[p][1]]]
  /\ Goto(p, "fetch")
  /\ UNCHANGED <<recipe, disk, lock, id, fetching, made, served, bounds>>
-----------------------------------------------------------------------------
\* fetch: flock on <sha256>.lock
LockSource(p) ==
  /\ pc[p] = "fetch" /\ fetching[p] = None
  /\ \E s \in todo[p] :
       /\ Free(s)
       /\ lock' = [lock EXCEPT ![s] = p]
       /\ fetching' = [fetching EXCEPT ![p] = s]
  /\ UNCHANGED <<recipe, disk, pc, id, todo, made, served, bounds>>

\* fetch returns, and with it the lock.
Unlocked_Later(s) == lock
Unlocked(s) == [lock EXCEPT ![s] = None]

Fetched(p) ==
  /\ lock' = Unlocked(fetching[p])
  /\ todo' = [todo EXCEPT ![p] = @ \ {fetching[p]}]
  /\ fetching' = [fetching EXCEPT ![p] = None]
  /\ UNCHANGED <<pc, id, made>>

\* A cached file is used if it has the pinned hash, else fetch raises.
Genuine_Assumed(file) == file # None
Genuine(file) == file = Good

UseCached(p) ==
  /\ fetching[p] # None /\ cached[fetching[p]] # None
  /\ IF Genuine(cached[fetching[p]]) THEN Fetched(p) ELSE Leave(p)
  /\ UNCHANGED <<recipe, disk, served, bounds>>

\* A download replaces the cached file if it has the pinned hash, else raises.
Download(p) ==
  /\ fetching[p] # None /\ cached[fetching[p]] = None
  /\ \E file \in {Good, Bad} :
       IF Genuine(file)
       THEN cached' = [cached EXCEPT ![fetching[p]] = file] /\ Fetched(p)
       ELSE UNCHANGED cached /\ Leave(p)
  /\ UNCHANGED <<recipe, archive, receipt, logged, served, bounds>>

AllFetched(p) ==
  /\ pc[p] = "fetch" /\ todo[p] = {}
  /\ Goto(p, "copy")
  /\ UNCHANGED <<recipe, disk, lock, local, served, bounds>>

\* copytree(recipe.path.parent, work / "recipe"), then the build in the sandbox.
Yields_NoMetadata(p) == Content
Yields(p) == Content \X {recipe[id[p][1]]}

Make(p) ==
  /\ pc[p] = "copy" /\ recipe[id[p][1]] # None
  /\ \E a \in Yields(p) : made' = [made EXCEPT ![p] = a]
  /\ Goto(p, "replace")
  /\ UNCHANGED <<recipe, disk, lock, id, todo, fetching, served, bounds>>

\* The files are gone: copytree raises.
CopyFails(p) ==
  /\ pc[p] = "copy" /\ recipe[id[p][1]] = None
  /\ Leave(p)
  /\ UNCHANGED <<recipe, disk, served, bounds>>

\* pack: os.replace(temporary, output)
Replace(p) ==
  /\ pc[p] = "replace"
  /\ archive' = [archive EXCEPT ![id[p]] = made[p]]
  /\ Goto(p, "receipt")
  /\ UNCHANGED <<recipe, cached, receipt, logged, lock, local, served, bounds>>

\* pack: the receipt holds the hash of the output file.
WriteReceipt(p) ==
  /\ pc[p] = "receipt"
  /\ receipt' = [receipt EXCEPT ![id[p]] = archive[id[p]]]
  /\ Goto(p, "log")
  /\ UNCHANGED <<recipe, cached, archive, logged, lock, local, served, bounds>>

\* <id>.inputs.json, and one() returns.
WriteInputs(p) ==
  /\ pc[p] = "log"
  /\ logged' = logged \cup {id[p]}
  /\ served' = served \cup {<<id[p], archive[id[p]]>>}
  /\ Leave(p)
  /\ UNCHANGED <<recipe, cached, archive, receipt, bounds>>
-----------------------------------------------------------------------------
\* An exception or the death of a builder.
Abort(p) ==
  /\ pc[p] # "idle"
  /\ faults < MaxFaults /\ faults' = faults + 1
  /\ Leave(p)
  /\ UNCHANGED <<recipe, disk, served, calls>>

\* Everything dies. Cached sources are never synced, and the rename of an
\* archive is only when its receipt is written.
PowerLoss ==
  /\ faults < MaxFaults /\ faults' = faults + 1
  /\ \E torn \in SUBSET {s \in Source : cached[s] = Good} :
       cached' = [s \in Source |-> IF s \in torn THEN Bad ELSE cached[s]]
  /\ \E lost \in SUBSET {b \in Id : receipt[b] = None} :
       archive' = [b \in Id |-> IF b \in lost THEN None ELSE archive[b]]
  /\ lock' = [x \in Id \cup Source |-> None]
  /\ pc' = [p \in Proc |-> "idle"]
  /\ id' = [p \in Proc |-> None]
  /\ todo' = [p \in Proc |-> {}]
  /\ fetching' = [p \in Proc |-> None]
  /\ made' = [p \in Proc |-> None]
  /\ UNCHANGED <<recipe, receipt, logged, served, calls>>

\* "corrupt cached source: remove it and retry"
Discard(s) ==
  /\ cached[s] = Bad
  /\ cached' = [cached EXCEPT ![s] = None]
  /\ UNCHANGED <<recipe, archive, receipt, logged, lock, pc, local, served, bounds>>

\* An editor or pkg sync changes, removes or brings back files of recipes.
Edit(files) ==
  /\ recipe' = files
  /\ UNCHANGED <<disk, lock, pc, local, served, bounds>>

Progress(p) ==
  \/ Enter(p) \/ Reuse(p) \/ Miss(p)
  \/ LockSource(p) \/ UseCached(p) \/ Download(p) \/ AllFetched(p)
  \/ Make(p) \/ CopyFails(p) \/ Replace(p) \/ WriteReceipt(p) \/ WriteInputs(p)

Builders ==
  \/ \E p \in Proc : Call(p) \/ Progress(p) \/ Abort(p)
  \/ \E s \in Source : Discard(s)

Next ==
  \/ Builders \/ PowerLoss
  \/ \E files \in [Recipe -> Version \cup {None}] : Edit(files)

Spec == Init /\ [][Next]_vars
-----------------------------------------------------------------------------
\* An archive counts from its receipt on; without one it is refused.
Published == [b \in Id |-> IF receipt[b] = None THEN None ELSE archive[b]]

Abstract == INSTANCE ArtifactStore WITH store <- Published

\* docs/packages.md:18-22, build.py:95-104, packages.py:76-79. Whoever builds an
\* id, together with whom, and whatever dies in between: the first archive with
\* a receipt is the artifact of the id for ever, and every answer is that one.
OneArtifactPerId == Abstract!Spec

\* build.py:25-40, 105-116. What a build unpacks has the pinned hash, though it
\* reads the cache again after it gave up the lock of the source.
SourcesVerified ==
  \A p \in Proc : pc[p] \in {"fetch", "copy"} =>
    \A s \in SourcesOf[id[p][1]] \ todo[p] : cached[s] = Good

\* build.py:23-24, 95-96. Builders wait for each other's ids and sources, but
\* each call of one() ends.
CallsEnd == \A p \in Proc : pc[p] # "idle" ~> pc[p] = "idle"

\* p needs a lock that q holds: of its id, or of a source it has still to fetch.
WaitsFor(p, q) ==
  \/ pc[p] = "waiting" /\ lock[id[p]] = q
  \/ pc[p] = "fetch" /\ fetching[p] = None /\ \E s \in todo[p] : lock[s] = q

\* build.py:23-24, 95-96. The safety half of that, without fairness: a held lock
\* is held by a call in progress, and no builders wait for each other in a ring
\* (or one for itself), in whatever orders their recipes name common sources.
NoCircularWait ==
  /\ \A x \in Id \cup Source : lock[x] # None => pc[lock[x]] \notin {"idle", "waiting"}
  /\ \A S \in (SUBSET Proc) \ {{}} : \E p \in S : \A q \in S : ~WaitsFor(p, q)
=============================================================================
