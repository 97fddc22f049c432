----------------------------- MODULE AtomicTree -----------------------------
(***************************************************************************)
(* What the package database promises (module docstring of                 *)
(* vfos/packages.py, docs/packages.md:37-41): a transaction replaces its   *)
(* payload paths and the recorded database in one indivisible step, on top *)
(* of the transactions before it, and nothing else changes either, but for *)
(* the directories that the administrator makes and removes.               *)
(***************************************************************************)
EXTENDS Payload

VARIABLES
  tree,       \* what is at each path
  db          \* packages.json, or None while the file does not exist

vars == <<tree, db>>

Init ==
  /\ tree \in [Path -> Whole]
  /\ db = None

\* The whole transaction at once. It never names a path that is a directory.
Apply(goal) ==
  /\ \A q \in Touched(goal) : tree[q] # Dir
  /\ tree' = Overlay(goal, tree)
  /\ db' = Registered(goal, Recorded(db))

Transact == \E goal \in Goals : Apply(goal)

\* Not vfos: a path becomes a directory, or stops being one.
Rearrange ==
  /\ \E q \in Path : tree' = [tree EXCEPT ![q] = IF tree[q] = Dir THEN Absent ELSE Dir]
  /\ UNCHANGED db

Next == Transact \/ Rearrange

Spec == Init /\ [][Next]_vars
=============================================================================
