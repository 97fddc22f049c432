----------------------------- MODULE RecipePlan -----------------------------
(***************************************************************************)
(* Repository.plan of vfos/recipes.py: a depth-first walk over the recipes *)
(* that the builder, the bootstrap and the release gate order their work   *)
(* by.  A step is one entry to visit() or one return from it.  The lists   *)
(* the code walks (the names, each recipe's dependencies) are visited in   *)
(* any order here.                                                         *)
(***************************************************************************)
EXTENDS SequencesExt

CONSTANTS
  Name,       \* package names
  Graphs      \* recipe trees: the dependencies of each name that has a recipe

ASSUME GraphAssumption ==
  \A g \in Graphs : DOMAIN g \subseteq Name /\ \A n \in DOMAIN g : g[n] \subseteq Name

VARIABLES
  depends,    \* the recipe tree: depends[n] for every name n with a recipe
  names,      \* the names asked for
  roots,      \* those the outer loop has still to visit
  active,     \* the names of the calls of visit() in progress, innermost last
  left,       \* for each of them the dependencies it has still to visit
  seen,
  ordered,    \* the plan so far
  outcome     \* "running", "planned", or why it raised: "cycle", "missing"

vars == <<depends, names, roots, active, left, seen, ordered, outcome>>

TypeOK ==
  /\ depends \in Graphs
  /\ names \subseteq Name /\ roots \subseteq names
  /\ active \in Seq(DOMAIN depends)
  /\ left \in Seq(SUBSET Name) /\ Len(left) = Len(active)
  /\ seen \subseteq DOMAIN depends
  /\ ordered \in Seq(DOMAIN depends)
  /\ outcome \in {"running", "planned", "cycle", "missing"}

Init ==
  /\ depends \in Graphs
  /\ names \in SUBSET Name /\ roots = names
  /\ active = <<>> /\ left = <<>> /\ seen = {} /\ ordered = <<>>
  /\ outcome = "running"
-----------------------------------------------------------------------------
\* A call of visit(n), whose caller has `rest' (a sequence like left) to visit.
AlreadySeen_Never(n) == n \notin Name
AlreadySeen(n) == n \in seen

OnStack_OrSeen(n) == n \in ToSet(active) \cup seen
OnStack(n) == n \in ToSet(active)

Visit(n, rest) ==
  \/ /\ OnStack(n)
     /\ outcome' = "cycle"
     /\ UNCHANGED <<active, left>>
  \/ /\ ~OnStack(n) /\ AlreadySeen(n)
     /\ left' = rest
     /\ UNCHANGED <<active, outcome>>
  \/ /\ ~OnStack(n) /\ ~AlreadySeen(n) /\ n \notin DOMAIN depends
     /\ outcome' = "missing"
     /\ UNCHANGED <<active, left>>
  \/ /\ ~OnStack(n) /\ ~AlreadySeen(n) /\ n \in DOMAIN depends
     /\ active' = Append(active, n)
     /\ left' = Append(rest, depends[n])
     /\ UNCHANGED outcome

\* for name in names: visit(name)
VisitRoot ==
  /\ outcome = "running" /\ active = <<>>
  /\ \E n \in roots : roots' = roots \ {n} /\ Visit(n, left)
  /\ UNCHANGED <<depends, names, seen, ordered>>

\* for dep in dependencies: visit(dep)
Rest_Same(d) == left
Rest(d) == [left EXCEPT ![Len(left)] = @ \ {d}]

VisitDependency ==
  /\ outcome = "running" /\ active # <<>>
  /\ \E d \in Last(left) : Visit(d, Rest(d))
  /\ UNCHANGED <<depends, names, roots, seen, ordered>>

\* Every dependency is planned: active.pop(), and the recipe goes into the plan.
Planned_Early == active # <<>>
Planned == active # <<>> /\ Last(left) = {}

Finish ==
  /\ outcome = "running" /\ Planned
  /\ seen' = seen \cup {Last(active)}
  /\ ordered' = Append(ordered, Last(active))
  /\ active' = Front(active) /\ left' = Front(left)
  /\ UNCHANGED <<depends, names, roots, outcome>>

Return ==
  /\ outcome = "running" /\ active = <<>> /\ roots = {}
  /\ outcome' = "planned"
  /\ UNCHANGED <<depends, names, roots, active, left, seen, ordered>>

Next == VisitRoot \/ VisitDependency \/ Finish \/ Return

Spec == Init /\ [][Next]_vars

\* plan() is a plain call: it runs until it returns or raises.
FairSpec == Spec /\ WF_vars(Next)
-----------------------------------------------------------------------------
\* recipes.py:104-110, build.py:81-87: the builder looks up the artifact of
\* every dependency by name when it comes to a recipe, so each must be earlier.
DependenciesFirst ==
  \A i \in DOMAIN ordered :
    depends[ordered[i]] \subseteq {ordered[j] : j \in 1..(i - 1)}

\* recipes.py:102-103. No recipe is planned (and so built) twice.
PlannedOnce ==
  \A i, j \in DOMAIN ordered : ordered[i] = ordered[j] => i = j

\* What names need, directly or not: the least set that holds them and the
\* dependencies of its members.
Needs(asked) ==
  {n \in Name :
     \A S \in SUBSET Name :
       asked \subseteq S /\ (\A k \in S \cap DOMAIN depends : depends[k] \subseteq S) => n \in S}

Below(n) == UNION {Needs({d}) : d \in depends[n]}

\* recipes.py:96-114. A plan holds exactly what was asked for and all it needs,
\* and plan() raises only over a cycle or a missing recipe among those.
OutcomeIsRight ==
  /\ outcome = "planned" => ToSet(ordered) = Needs(names)
  /\ outcome = "missing" => Needs(names) \ DOMAIN depends # {}
  /\ outcome = "cycle" => \E n \in Needs(names) \cap DOMAIN depends : n \in Below(n)

\* What is left of the walk: the dependencies that the calls in progress have
\* still to visit and those of recipes not yet come to, and the recipes to finish.
Edges ==
  {e \in Name \X Name :
     \/ \E i \in DOMAIN active : active[i] = e[1] /\ e[2] \in left[i]
     \/ /\ e[1] \in DOMAIN depends /\ e[1] \notin seen \cup ToSet(active)
        /\ e[2] \in depends[e[1]]}

Unfinished == DOMAIN depends \ seen

\* recipes.py:99-114. The safety half of termination: each step of the walk ends
\* it or takes something off what is left and adds nothing, so that visit() is
\* entered at most once for each name asked for and each dependency there is.
WorkShrinks ==
  [][ outcome' # "running" \/
        /\ roots' \subseteq roots /\ Edges' \subseteq Edges /\ Unfinished' \subseteq Unfinished
        /\ roots' # roots \/ Edges' # Edges \/ Unfinished' # Unfinished ]_vars

\* recipes.py:99-110. The walk ends on every recipe tree, cyclic ones included.
Terminates == <>(outcome # "running")
=============================================================================
