--------------------------- MODULE ArtifactStore ----------------------------
(***************************************************************************)
(* What the builder's output directory promises (docs/packages.md:18-22):  *)
(* a build id names one artifact, once and for all, and every build of     *)
(* that id answers with it.                                                *)
(***************************************************************************)
CONSTANTS
  Id,         \* build ids
  Artifact,   \* archives
  None        \* no artifact yet

VARIABLES
  store,      \* the artifact of each id, or None
  served      \* the answers given so far, each an id with an artifact

vars == <<store, served>>

Init ==
  /\ store = [b \in Id |-> None]
  /\ served = {}

Publish(b, a) ==
  /\ store[b] = None
  /\ store' = [store EXCEPT ![b] = a]
  /\ UNCHANGED served

Serve(b) ==
  /\ store[b] # None
  /\ served' = served \cup {<<b, store[b]>>}
  /\ UNCHANGED store

Next == \E b \in Id : Serve(b) \/ \E a \in Artifact : Publish(b, a)

Spec == Init /\ [][Next]_vars
=============================================================================
