-------------------------- MODULE RecipePlanProof ---------------------------
(***************************************************************************)
(* For every set of recipe trees: a plan, complete or not, lists each      *)
(* recipe once and after all of its dependencies; a complete one holds     *)
(* what was asked for and all it needs; and every step of the walk leaves  *)
(* less of it to do.                                                       *)
(***************************************************************************)
EXTENDS RecipePlan, TLAPS

\* The stack: its calls are of different names, none finished; what a call has
\* behind it is finished, or is the call it is waiting for.
StackInv ==
  /\ \A i, j \in DOMAIN active : active[i] = active[j] => i = j
  /\ \A i \in DOMAIN active :
       /\ active[i] \notin seen
       /\ \A d \in depends[active[i]] \ left[i] :
            d \in seen \/ (i < Len(active) /\ d = active[i + 1])

SeenInv == \A n \in Name : n \in seen <=> \E i \in DOMAIN ordered : ordered[i] = n

IInv == TypeOK /\ StackInv /\ SeenInv /\ DependenciesFirst /\ PlannedOnce
-----------------------------------------------------------------------------
LEMMA FrontOf ==
  ASSUME NEW T, NEW s \in Seq(T), s # <<>>
  PROVE  /\ Front(s) \in Seq(T) /\ Len(Front(s)) = Len(s) - 1
         /\ \A i \in DOMAIN Front(s) : i \in DOMAIN s /\ i < Len(s) /\ Front(s)[i] = s[i]
         /\ Last(s) = s[Len(s)] /\ Len(s) \in DOMAIN s /\ Last(s) \in T
<1>1. Len(s) \in Nat \ {0}
  OBVIOUS
<1>2. Front(s) = [i \in 1..(Len(s) - 1) |-> s[i]]
  BY <1>1 DEF Front
<1>3. Len(Front(s)) = Len(s) - 1
  BY <1>1, <1>2
<1>4. Front(s) \in Seq(T)
  BY <1>1, <1>2
<1> QED
  BY <1>1, <1>2, <1>3, <1>4 DEF Last

LEMMA AppendOf ==
  ASSUME NEW T, NEW s \in Seq(T), NEW e \in T
  PROVE  /\ Append(s, e) \in Seq(T) /\ Len(Append(s, e)) = Len(s) + 1
         /\ \A i \in DOMAIN s : i \in DOMAIN Append(s, e) /\ Append(s, e)[i] = s[i]
         /\ Append(s, e)[Len(s) + 1] = e
         /\ \A i \in DOMAIN Append(s, e) : i \in DOMAIN s \/ i = Len(s) + 1
OBVIOUS

LEMMA DependsType ==
  ASSUME TypeOK
  PROVE  DOMAIN depends \subseteq Name /\ \A n \in DOMAIN depends : depends[n] \subseteq Name
BY GraphAssumption DEF TypeOK

\* One call of visit(n) from a caller that n is what it visits next: `rest' is
\* left without n in the caller's entry.
LEMMA VisitStep ==
  ASSUME IInv, NEW n \in Name, NEW rest \in Seq(SUBSET Name), Len(rest) = Len(left),
         \A i \in DOMAIN active :
           \A d \in depends[active[i]] \ rest[i] :
             \/ d \in seen
             \/ i < Len(active) /\ d = active[i + 1]
             \/ i = Len(active) /\ d = n,
         Visit(n, rest), UNCHANGED <<depends, names, seen, ordered>>, roots' \subseteq roots
  PROVE  IInv'
<1>1. SeenInv' /\ DependenciesFirst' /\ PlannedOnce'
  BY DEF IInv, SeenInv, DependenciesFirst, PlannedOnce
<1>2. CASE UNCHANGED <<active, left>> /\ outcome' \in {"cycle", "missing"}
  BY <1>1, <1>2 DEF IInv, TypeOK, StackInv
<1>3. CASE AlreadySeen(n) /\ left' = rest /\ UNCHANGED <<active, outcome>>
  <2>1. TypeOK'
    BY <1>3 DEF IInv, TypeOK
  <2>2. StackInv'
    BY <1>3 DEF IInv, StackInv, AlreadySeen
  <2> QED
    BY <1>1, <2>1, <2>2 DEF IInv
<1>4. CASE /\ ~OnStack(n) /\ ~AlreadySeen(n) /\ n \in DOMAIN depends
           /\ active' = Append(active, n) /\ left' = Append(rest, depends[n])
           /\ UNCHANGED outcome
  <2>1. depends[n] \in SUBSET Name
    BY <1>4, DependsType DEF IInv
  <2>2. TypeOK'
    BY <1>4, <2>1 DEF IInv, TypeOK
  <2>3. \A i \in DOMAIN active : active[i] # n
    BY <1>4 DEF OnStack, ToSet
  <2>4. active \in Seq(DOMAIN depends) /\ Len(rest) = Len(active)
    BY DEF IInv, TypeOK
  <2>5. StackInv'
    <3>1. \A i, j \in DOMAIN active' : active'[i] = active'[j] => i = j
      BY <1>4, <2>3, <2>4 DEF IInv, StackInv
    <3>2. \A i \in DOMAIN active' : active'[i] \notin seen
      BY <1>4, <2>4 DEF IInv, StackInv, AlreadySeen
    <3>3. ASSUME NEW i \in DOMAIN active', NEW d \in depends[active'[i]] \ left'[i]
          PROVE  d \in seen \/ (i < Len(active') /\ d = active'[i + 1])
      <4>1. CASE i = Len(active) + 1
        BY <1>4, <2>1, <2>4, <3>3, <4>1
      <4>2. CASE i \in DOMAIN active
        <5>1. active'[i] = active[i] /\ left'[i] = rest[i] /\ Len(active') = Len(active) + 1
          BY <1>4, <2>1, <2>4, <4>2
        <5>2. \/ d \in seen
              \/ i < Len(active) /\ d = active[i + 1]
              \/ i = Len(active) /\ d = n
          BY <3>3, <4>2, <5>1
        <5> QED
          BY <1>4, <2>4, <4>2, <5>1, <5>2
      <4> QED
        BY <1>4, <2>4, <4>1, <4>2
    <3> QED
      BY <3>1, <3>2, <3>3 DEF StackInv
  <2> QED
    BY <1>1, <2>2, <2>5 DEF IInv
<1> QED
  BY <1>2, <1>3, <1>4 DEF Visit

LEMMA VisitRootStep == ASSUME IInv, VisitRoot PROVE IInv'
<1> PICK n \in roots : roots' = roots \ {n} /\ Visit(n, left)
  BY DEF VisitRoot
<1>1. n \in Name /\ left \in Seq(SUBSET Name)
  BY DEF IInv, TypeOK
<1>2. \A i \in DOMAIN active :
        \A d \in depends[active[i]] \ left[i] :
          \/ d \in seen
          \/ i < Len(active) /\ d = active[i + 1]
          \/ i = Len(active) /\ d = n
  BY DEF IInv, StackInv
<1> QED
  BY <1>1, <1>2, VisitStep DEF VisitRoot

LEMMA VisitDependencyStep == ASSUME IInv, VisitDependency PROVE IInv'
<1> PICK n \in Last(left) : Visit(n, Rest(n))
  BY DEF VisitDependency
<1>1. /\ active # <<>> /\ active \in Seq(DOMAIN depends)
      /\ left \in Seq(SUBSET Name) /\ Len(left) = Len(active)
  BY DEF IInv, TypeOK, VisitDependency
<1>2. Len(left) \in DOMAIN left /\ Last(left) = left[Len(left)] /\ Last(left) \in SUBSET Name
  <2>1. left # <<>>
    BY <1>1
  <2> QED
    BY <1>1, <2>1, FrontOf
<1>3. Rest(n) \in Seq(SUBSET Name) /\ Len(Rest(n)) = Len(left)
  BY <1>1, <1>2 DEF Rest
<1>4. ASSUME NEW i \in DOMAIN active, NEW d \in depends[active[i]] \ Rest(n)[i]
      PROVE  \/ d \in seen
             \/ i < Len(active) /\ d = active[i + 1]
             \/ i = Len(active) /\ d = n
  <2>1. CASE i = Len(active)
    <3>1. Rest(n)[i] = left[i] \ {n}
      BY <1>1, <1>2, <2>1 DEF Rest
    <3> QED
      BY <1>4, <2>1, <3>1 DEF IInv, StackInv
  <2>2. CASE i # Len(active)
    <3>1. Rest(n)[i] = left[i]
      BY <1>1, <1>4, <2>2 DEF Rest
    <3> QED
      BY <1>4, <3>1 DEF IInv, StackInv
  <2> QED
    BY <2>1, <2>2
<1> QED
  BY <1>2, <1>3, <1>4, VisitStep DEF VisitDependency

LEMMA FinishStep == ASSUME IInv, Finish PROVE IInv'
<1> DEFINE n == Last(active)
<1>1. /\ active # <<>> /\ active \in Seq(DOMAIN depends)
      /\ left # <<>> /\ left \in Seq(SUBSET Name) /\ Len(left) = Len(active)
      /\ ordered \in Seq(DOMAIN depends)
  BY DEF IInv, TypeOK, Finish, Planned
<1>2. /\ n \in DOMAIN depends /\ n \in Name /\ n = active[Len(active)]
      /\ Len(active) \in DOMAIN active
      /\ left[Len(active)] = {}
  BY <1>1, FrontOf, DependsType DEF Finish, Planned, IInv
<1>3. depends[n] \subseteq seen /\ n \notin seen
  BY <1>2 DEF IInv, StackInv
<1>4. TypeOK'
  <2>1. active' \in Seq(DOMAIN depends) /\ Len(active') = Len(active) - 1
    BY <1>1, FrontOf DEF Finish
  <2>2. left' \in Seq(SUBSET Name) /\ Len(left') = Len(left) - 1
    BY <1>1, FrontOf DEF Finish
  <2>3. ordered' \in Seq(DOMAIN depends)
    BY <1>1, <1>2 DEF Finish
  <2> QED
    BY <1>1, <1>2, <2>1, <2>2, <2>3 DEF Finish, IInv, TypeOK
<1>5. \A i \in DOMAIN active' :
        /\ i \in DOMAIN active /\ i < Len(active) /\ Len(active') = Len(active) - 1
        /\ active'[i] = active[i] /\ left'[i] = left[i]
  <2>1. Len(active') = Len(active) - 1 /\ Len(left') = Len(left) - 1
    BY <1>1, FrontOf DEF Finish
  <2>2. DOMAIN active' = 1..(Len(active) - 1) /\ DOMAIN left' = DOMAIN active'
    BY <1>1, <2>1, FrontOf DEF Finish
  <2> QED
    BY <1>1, <2>1, <2>2, FrontOf DEF Finish
<1>6. StackInv'
  <2>1. \A i, j \in DOMAIN active' : active'[i] = active'[j] => i = j
    BY <1>5 DEF IInv, StackInv
  <2>2. \A i \in DOMAIN active' : active'[i] \notin seen'
    BY <1>1, <1>2, <1>5 DEF IInv, StackInv, Finish
  <2>3. ASSUME NEW i \in DOMAIN active', NEW d \in depends[active'[i]] \ left'[i]
        PROVE  d \in seen' \/ (i < Len(active') /\ d = active'[i + 1])
    <3>1. d \in seen \/ (i < Len(active) /\ d = active[i + 1])
      BY <1>5, <2>3 DEF IInv, StackInv, Finish
    <3>2. CASE i + 1 = Len(active)
      BY <1>2, <3>1, <3>2 DEF Finish
    <3>3. CASE i + 1 # Len(active)
      <4>1. i + 1 \in DOMAIN active' /\ i < Len(active')
        BY <1>1, <1>5, <2>3, <3>3, FrontOf DEF Finish
      <4> QED
        BY <1>5, <3>1, <4>1 DEF Finish
    <3> QED
      BY <3>2, <3>3
  <2> QED
    BY <2>1, <2>2, <2>3 DEF StackInv, Finish
<1>7. /\ Len(ordered') = Len(ordered) + 1
      /\ ordered'[Len(ordered) + 1] = n
      /\ DOMAIN ordered' = 1..(Len(ordered) + 1)
      /\ \A i \in DOMAIN ordered : ordered'[i] = ordered[i]
  BY <1>1, <1>2 DEF Finish
<1>8. SeenInv'
  <2>1. ASSUME NEW m \in Name
        PROVE  m \in seen' <=> \E i \in DOMAIN ordered' : ordered'[i] = m
    <3>1. seen' = seen \cup {n}
      BY DEF Finish
    <3>2. m \in seen <=> \E i \in DOMAIN ordered : ordered[i] = m
      BY DEF IInv, SeenInv
    <3>3. DOMAIN ordered' = DOMAIN ordered \cup {Len(ordered) + 1}
      BY <1>1, <1>7
    <3>4. CASE m = n
      BY <1>7, <3>1, <3>3, <3>4
    <3>5. CASE m # n
      <4> HIDE DEF n
      <4>1. m \in seen' <=> m \in seen
        BY <3>1, <3>5
      <4>2. (\E i \in DOMAIN ordered' : ordered'[i] = m) <=> (\E i \in DOMAIN ordered : ordered[i] = m)
        BY <1>7, <3>3, <3>5
      <4> QED
        BY <3>2, <4>1, <4>2
    <3> QED
      BY <3>4, <3>5
  <2> QED
    BY <2>1 DEF SeenInv
<1>9. PlannedOnce'
  <2>1. \A i \in DOMAIN ordered : ordered[i] # n
    BY <1>2, <1>3 DEF IInv, SeenInv
  <2> QED
    BY <1>1, <1>7, <2>1 DEF IInv, PlannedOnce
<1>10. DependenciesFirst'
  <2>1. ASSUME NEW i \in DOMAIN ordered', NEW d \in depends[ordered'[i]]
        PROVE  \E j \in 1..(i - 1) : ordered'[j] = d
    <3>1. CASE i = Len(ordered) + 1
      <4>1. d \in seen /\ d \in Name
        BY <1>2, <1>3, <1>7, <2>1, <3>1, DependsType DEF IInv
      <4>2. PICK j \in DOMAIN ordered : ordered[j] = d
        BY <4>1 DEF IInv, SeenInv
      <4> QED
        BY <1>1, <1>7, <3>1, <4>2
    <3>2. CASE i \in DOMAIN ordered
      <4>1. \E j \in 1..(i - 1) : ordered[j] = d
        BY <1>7, <2>1, <3>2 DEF IInv, DependenciesFirst
      <4> QED
        BY <1>1, <1>7, <3>2, <4>1
    <3> QED
      BY <1>1, <1>7, <3>1, <3>2
  <2>2. depends' = depends
    BY DEF Finish
  <2> QED
    BY <2>1, <2>2 DEF DependenciesFirst
<1> QED
  BY <1>4, <1>6, <1>8, <1>9, <1>10 DEF IInv

LEMMA StepIInv == ASSUME IInv, [Next]_vars PROVE IInv'
<1>1. CASE Return
  BY <1>1 DEF Return, IInv, TypeOK, StackInv, SeenInv, DependenciesFirst, PlannedOnce
<1>2. CASE UNCHANGED vars
  BY <1>2 DEF vars, IInv, TypeOK, StackInv, SeenInv, DependenciesFirst, PlannedOnce
<1> QED
  BY <1>1, <1>2, VisitRootStep, VisitDependencyStep, FinishStep DEF Next

THEOREM IInvInvariant == Spec => []IInv
<1>1. Init => IInv
  BY DEF Init, IInv, TypeOK, StackInv, SeenInv, DependenciesFirst, PlannedOnce
<1> QED
  BY <1>1, StepIInv, PTL DEF Spec

\* In every plan, and in every part of one, a recipe comes after all of its
\* dependencies: the builder always finds their artifacts.
THEOREM PlanIsOrdered == Spec => []DependenciesFirst
BY IInvInvariant, PTL DEF IInv

\* No recipe is planned twice.
THEOREM PlanHasNoDuplicates == Spec => []PlannedOnce
BY IInvInvariant, PTL DEF IInv

\* Every name, list and outcome of the walk has its type.
THEOREM TypeCorrect == Spec => []TypeOK
BY IInvInvariant, PTL DEF IInv
-----------------------------------------------------------------------------
\* Needs holds what was asked for, and the dependencies of what it holds.
LEMMA NeedsAsked == ASSUME NEW X, NEW n \in X \cap Name PROVE n \in Needs(X)
BY DEF Needs

LEMMA NeedsClosed ==
  ASSUME TypeOK, NEW X, NEW n \in Needs(X), n \in DOMAIN depends, NEW d \in depends[n]
  PROVE  d \in Needs(X)
<1>1. d \in Name
  BY DependsType
<1> QED
  BY <1>1 DEF Needs

LEMMA BelowDirect ==
  ASSUME TypeOK, NEW n \in DOMAIN depends, NEW d \in depends[n] PROVE d \in Below(n)
<1>1. d \in Needs({d})
  BY NeedsAsked, DependsType
<1> QED
  BY <1>1 DEF Below

LEMMA BelowClosed ==
  ASSUME TypeOK, NEW m, NEW n \in Below(m), n \in DOMAIN depends, NEW d \in depends[n]
  PROVE  d \in Below(m)
<1>1. PICK e \in depends[m] : n \in Needs({e})
  BY DEF Below
<1>2. d \in Needs({e})
  BY <1>1, NeedsClosed
<1> QED
  BY <1>1, <1>2 DEF Below

\* A set that has what was asked for and all dependencies of its members has
\* all that is needed.
LEMMA NeedsLeast ==
  ASSUME NEW X, NEW S \in SUBSET Name, X \subseteq S,
         \A k \in S \cap DOMAIN depends : depends[k] \subseteq S
  PROVE  Needs(X) \subseteq S
BY DEF Needs

LEMMA NeedsSame ==
  ASSUME depends' = depends, names' = names
  PROVE  Needs(names)' = Needs(names) /\ \A m : Below(m)' = Below(m)
BY DEF Needs, Below

\* The walk stays among what is needed, its stack goes down, and a name asked
\* for is still to visit, finished, or at the bottom of the stack.
Needed ==
  /\ \A i \in DOMAIN active : active[i] \in Needs(names) /\ left[i] \subseteq depends[active[i]]
  /\ seen \subseteq Needs(names)

Descends == \A i, j \in DOMAIN active : i < j => active[j] \in Below(active[i])

Visited ==
  outcome \in {"running", "planned"} =>
    \A n \in names : n \in roots \cup seen \/ (active # <<>> /\ n = active[1])

OInv == Needed /\ Descends /\ Visited /\ OutcomeIsRight

LEMMA VisitOutcome ==
  ASSUME IInv, OInv, outcome = "running", NEW n \in Needs(names), NEW rest \in Seq(SUBSET Name),
         Len(rest) = Len(left),
         \A i \in DOMAIN active : rest[i] \subseteq left[i],
         active # <<>> => n \in depends[Last(active)],
         roots' = roots \/ (active = <<>> /\ roots' = roots \ {n}),
         Visit(n, rest), UNCHANGED <<depends, names, seen, ordered>>
  PROVE  OInv'
<1>1. /\ active \in Seq(DOMAIN depends) /\ Len(rest) = Len(active) /\ Len(active) \in Nat
      /\ DOMAIN active = 1..Len(active) /\ n \in Name
  BY DEF IInv, TypeOK, Needs
<1>2. Needs(names)' = Needs(names)
  BY NeedsSame
<1>3. \A m : Below(m)' = Below(m)
  BY NeedsSame
<1>4. CASE OnStack(n) /\ outcome' = "cycle" /\ UNCHANGED <<active, left>>
  <2>1. Needed' /\ Descends' /\ Visited'
    BY <1>2, <1>3, <1>4 DEF OInv, Needed, Descends, Visited
  <2>2. PICK k \in DOMAIN active : active[k] = n
    BY <1>4 DEF OnStack, ToSet
  <2>3. active # <<>> /\ Last(active) = active[Len(active)] /\ Len(active) \in DOMAIN active
    BY <1>1, <2>2, FrontOf
  <2>4. n \in DOMAIN depends /\ Last(active) \in DOMAIN depends
    BY <1>1, <2>2, <2>3
  <2>5. n \in Below(n)
    <3>1. CASE k = Len(active)
      BY <2>2, <2>3, <2>4, <3>1, BelowDirect DEF IInv
    <3>2. CASE k < Len(active)
      <4>1. Last(active) \in Below(n)
        BY <2>2, <2>3, <3>2 DEF OInv, Descends
      <4> QED
        BY <2>3, <2>4, <4>1, BelowClosed DEF IInv
    <3> QED
      BY <1>1, <3>1, <3>2
  <2>6. OutcomeIsRight'
    BY <1>2, <1>3, <1>4, <2>4, <2>5 DEF OutcomeIsRight
  <2> QED
    BY <2>1, <2>6 DEF OInv
<1>5. CASE AlreadySeen(n) /\ left' = rest /\ UNCHANGED <<active, outcome>>
  <2>1. Needed'
    BY <1>2, <1>5 DEF OInv, Needed
  <2>2. Descends'
    BY <1>3, <1>5 DEF OInv, Descends
  <2>3. Visited'
    BY <1>5 DEF OInv, Visited, AlreadySeen
  <2>4. OutcomeIsRight'
    BY <1>5 DEF OutcomeIsRight
  <2> QED
    BY <2>1, <2>2, <2>3, <2>4 DEF OInv
<1>6. CASE n \notin DOMAIN depends /\ outcome' = "missing" /\ UNCHANGED <<active, left>>
  <2>1. Needed' /\ Descends' /\ Visited'
    BY <1>2, <1>3, <1>6 DEF OInv, Needed, Descends, Visited
  <2>2. OutcomeIsRight'
    BY <1>2, <1>6 DEF OutcomeIsRight
  <2> QED
    BY <2>1, <2>2 DEF OInv
<1>7. CASE /\ n \in DOMAIN depends /\ active' = Append(active, n)
           /\ left' = Append(rest, depends[n]) /\ UNCHANGED outcome
  <2>1. /\ Len(active') = Len(active) + 1 /\ active'[Len(active) + 1] = n
        /\ DOMAIN active' = DOMAIN active \cup {Len(active) + 1}
        /\ \A i \in DOMAIN active : active'[i] = active[i]
    BY <1>1, <1>7
  <2>2. left'[Len(active) + 1] = depends[n] /\ \A i \in DOMAIN active : left'[i] = rest[i]
    <3>1. depends[n] \in SUBSET Name
      BY <1>7, DependsType DEF IInv
    <3> QED
      BY <1>1, <1>7, <3>1
  <2>3. Needed'
    BY <1>2, <2>1, <2>2 DEF OInv, Needed
  <2>4. Descends'
    <3>1. ASSUME NEW i \in DOMAIN active PROVE n \in Below(active[i])
      <4>1. active # <<>> /\ Last(active) = active[Len(active)] /\ Len(active) \in DOMAIN active
            /\ Last(active) \in DOMAIN depends
        BY <1>1, FrontOf
      <4>2. CASE i = Len(active)
        BY <4>1, <4>2, BelowDirect DEF IInv
      <4>3. CASE i < Len(active)
        <5>1. Last(active) \in Below(active[i])
          BY <4>1, <4>3 DEF OInv, Descends
        <5> QED
          BY <4>1, <5>1, BelowClosed DEF IInv
      <4> QED
        BY <1>1, <4>2, <4>3
    <3> SUFFICES ASSUME NEW i \in DOMAIN active', NEW j \in DOMAIN active', i < j
                 PROVE  active'[j] \in Below(active'[i])
      BY <1>3 DEF Descends
    <3>2. i \in DOMAIN active
      BY <1>1, <2>1
    <3>3. CASE j = Len(active) + 1
      BY <2>1, <3>1, <3>2, <3>3
    <3>4. CASE j \in DOMAIN active
      BY <2>1, <3>2, <3>4 DEF OInv, Descends
    <3> QED
      BY <2>1, <3>3, <3>4
  <2>5. Visited'
    <3>1. active' # <<>>
      BY <1>1, <2>1
    <3>2. CASE active = <<>>
      BY <1>1, <1>7, <2>1, <3>1, <3>2 DEF OInv, Visited
    <3>3. CASE active # <<>>
      <4>1. 1 \in DOMAIN active
        BY <1>1, <3>3
      <4> QED
        BY <1>7, <2>1, <3>1, <3>3, <4>1 DEF OInv, Visited
    <3> QED
      BY <3>2, <3>3
  <2>6. OutcomeIsRight'
    BY <1>7 DEF OutcomeIsRight
  <2> QED
    BY <2>3, <2>4, <2>5, <2>6 DEF OInv
<1> QED
  BY <1>4, <1>5, <1>6, <1>7 DEF Visit

LEMMA StepOInv == ASSUME IInv, OInv, [Next]_vars PROVE OInv'
<1>1. CASE VisitRoot
  <2> PICK n \in roots : roots' = roots \ {n} /\ Visit(n, left)
    BY <1>1 DEF VisitRoot
  <2>1. n \in Needs(names)
    BY NeedsAsked DEF IInv, TypeOK
  <2>2. left \in Seq(SUBSET Name)
    BY DEF IInv, TypeOK
  <2> QED
    BY <1>1, <2>1, <2>2, VisitOutcome DEF VisitRoot
<1>2. CASE VisitDependency
  <2> PICK n \in Last(left) : Visit(n, Rest(n))
    BY <1>2 DEF VisitDependency
  <2>1. /\ active # <<>> /\ active \in Seq(DOMAIN depends)
        /\ left # <<>> /\ left \in Seq(SUBSET Name) /\ Len(left) = Len(active)
    BY <1>2 DEF IInv, TypeOK, VisitDependency
  <2>2. /\ Len(active) \in DOMAIN active /\ Len(left) \in DOMAIN left
        /\ Last(active) = active[Len(active)] /\ Last(left) = left[Len(left)]
        /\ Last(active) \in DOMAIN depends
    BY <2>1, FrontOf
  <2>3. n \in depends[Last(active)] /\ Last(active) \in Needs(names)
    BY <2>1, <2>2 DEF OInv, Needed
  <2>4. n \in Needs(names)
    BY <2>2, <2>3, NeedsClosed DEF IInv
  <2>5. Rest(n) \in Seq(SUBSET Name) /\ Len(Rest(n)) = Len(left)
    BY <2>1, <2>2 DEF Rest
  <2>6. \A i \in DOMAIN active : Rest(n)[i] \subseteq left[i]
    BY <2>1, <2>2 DEF Rest
  <2> QED
    BY <1>2, <2>3, <2>4, <2>5, <2>6, VisitOutcome DEF VisitDependency
<1>3. CASE Finish
  <2>1. /\ active # <<>> /\ active \in Seq(DOMAIN depends)
        /\ left # <<>> /\ left \in Seq(SUBSET Name) /\ Len(left) = Len(active)
    BY <1>3 DEF IInv, TypeOK, Finish, Planned
  <2>2. /\ Len(active) \in DOMAIN active /\ Last(active) = active[Len(active)]
        /\ DOMAIN active' \subseteq DOMAIN active /\ DOMAIN active' = 1..(Len(active) - 1)
        /\ \A i \in DOMAIN active' : active'[i] = active[i] /\ left'[i] = left[i]
    <3>1. Len(active') = Len(active) - 1 /\ Len(left') = Len(left) - 1
          /\ active' \in Seq(DOMAIN depends) /\ left' \in Seq(SUBSET Name)
      BY <1>3, <2>1, FrontOf DEF Finish
    <3>2. DOMAIN active' = 1..(Len(active) - 1) /\ DOMAIN left' = DOMAIN active'
      BY <2>1, <3>1
    <3> QED
      BY <1>3, <2>1, <3>2, FrontOf DEF Finish
  <2>3. Needs(names)' = Needs(names) /\ \A m : Below(m)' = Below(m)
    BY <1>3, NeedsSame DEF Finish
  <2>4. Needed'
    BY <1>3, <2>2, <2>3 DEF OInv, Needed, Finish
  <2>5. Descends'
    BY <2>2, <2>3 DEF OInv, Descends
  <2>6. Visited'
    <3> SUFFICES ASSUME NEW m \in names, m \notin roots \cup seen'
                 PROVE  active' # <<>> /\ m = active'[1]
      BY <1>3 DEF Visited, Finish
    <3>1. m = active[1] /\ m # Last(active)
      BY <1>3 DEF OInv, Visited, Finish
    <3>2. Len(active) > 1
      BY <2>1, <2>2, <3>1
    <3>3. 1 \in DOMAIN active'
      BY <2>1, <2>2, <3>2
    <3> QED
      BY <2>2, <3>1, <3>3
  <2>7. OutcomeIsRight'
    BY <1>3 DEF Finish, OutcomeIsRight
  <2> QED
    BY <2>4, <2>5, <2>6, <2>7 DEF OInv
<1>4. CASE Return
  <2>1. Needs(names)' = Needs(names) /\ \A m : Below(m)' = Below(m)
    BY <1>4, NeedsSame DEF Return
  <2>2. Needed' /\ Descends' /\ Visited'
    BY <1>4, <2>1 DEF Return, OInv, Needed, Descends, Visited
  <2>3. names \subseteq seen /\ seen \in SUBSET Name /\ seen \subseteq DOMAIN depends
    BY <1>4, DependsType DEF Return, OInv, Visited, IInv, TypeOK
  <2>4. ASSUME NEW k \in seen PROVE depends[k] \subseteq seen
    <3>1. PICK i \in DOMAIN ordered : ordered[i] = k
      BY <2>3 DEF IInv, SeenInv
    <3>2. \A d \in depends[k] : \E j \in 1..(i - 1) : ordered[j] = d
      BY <3>1 DEF IInv, DependenciesFirst
    <3>3. 1..(i - 1) \subseteq DOMAIN ordered
      BY <3>1 DEF IInv, TypeOK
    <3>4. depends[k] \subseteq Name
      BY <2>3, DependsType DEF IInv
    <3> QED
      BY <3>2, <3>3, <3>4 DEF IInv, SeenInv
  <2>5. Needs(names) = seen
    BY <2>3, <2>4, NeedsLeast DEF OInv, Needed
  <2>6. ToSet(ordered) = seen
    <3>1. \A m \in ToSet(ordered) : m \in Name
      BY DependsType DEF ToSet, IInv, TypeOK
    <3> QED
      BY <2>3, <3>1 DEF ToSet, IInv, SeenInv
  <2>7. OutcomeIsRight'
    BY <1>4, <2>1, <2>5, <2>6 DEF Return, OutcomeIsRight
  <2> QED
    BY <2>2, <2>7 DEF OInv
<1>5. CASE UNCHANGED vars
  <2>1. Needs(names)' = Needs(names) /\ \A m : Below(m)' = Below(m)
    BY <1>5, NeedsSame DEF vars
  <2> QED
    BY <1>5, <2>1 DEF vars, OInv, Needed, Descends, Visited, OutcomeIsRight
<1> QED
  BY <1>1, <1>2, <1>3, <1>4, <1>5 DEF Next

\* recipes.py:96-114. A plan holds exactly what was asked for and all it needs;
\* plan() raises only over a cycle or a missing recipe among those.
THEOREM OutcomeAlwaysRight == Spec => []OutcomeIsRight
<1>1. Init => OInv
  BY DEF Init, OInv, Needed, Descends, Visited, OutcomeIsRight
<1>2. IInv /\ OInv /\ [Next]_vars => OInv'
  BY StepOInv
<1>3. OInv => OutcomeIsRight
  BY DEF OInv
<1> QED
  BY <1>1, <1>2, <1>3, IInvInvariant, PTL DEF Spec
-----------------------------------------------------------------------------
\* A call of visit() that does not raise adds nothing to what is left: the
\* dependencies of the recipe it comes to were left before.
LEMMA VisitAddsNothing ==
  ASSUME IInv, NEW n \in Name, NEW rest \in Seq(SUBSET Name), Len(rest) = Len(left),
         \A i \in DOMAIN active : rest[i] \subseteq left[i],
         Visit(n, rest), outcome' = "running", UNCHANGED <<depends, seen>>
  PROVE  /\ Edges' \subseteq Edges
         /\ \A i \in DOMAIN active : i \in DOMAIN active' /\ active'[i] = active[i] /\ left'[i] = rest[i]
         /\ \A i \in DOMAIN active' : i \in DOMAIN active \/ active'[i] \notin ToSet(active)
<1>1. active \in Seq(DOMAIN depends) /\ Len(rest) = Len(active)
  BY DEF IInv, TypeOK
<1>2. CASE left' = rest /\ UNCHANGED active
  BY <1>2 DEF Edges
<1>3. CASE /\ ~OnStack(n) /\ ~AlreadySeen(n) /\ n \in DOMAIN depends
           /\ active' = Append(active, n) /\ left' = Append(rest, depends[n])
  <2>1. depends[n] \in SUBSET Name
    BY <1>3, DependsType DEF IInv
  <2>2. /\ DOMAIN active' = DOMAIN active \cup {Len(active) + 1}
        /\ active'[Len(active) + 1] = n /\ left'[Len(active) + 1] = depends[n]
        /\ \A i \in DOMAIN active : active'[i] = active[i] /\ left'[i] = rest[i]
    BY <1>1, <1>3, <2>1
  <2>3. ToSet(active) \subseteq ToSet(active')
    BY <2>2 DEF ToSet
  <2>4. n \notin seen \cup ToSet(active)
    BY <1>3 DEF OnStack, AlreadySeen
  <2>5. Edges' \subseteq Edges
    <3> SUFFICES ASSUME NEW m \in Name, NEW d \in Name, <<m, d>> \in Edges'
                 PROVE  <<m, d>> \in Edges
      BY DEF Edges
    <3>1. CASE \E i \in DOMAIN active' : active'[i] = m /\ d \in left'[i]
      <4> PICK i \in DOMAIN active' : active'[i] = m /\ d \in left'[i]
        BY <3>1
      <4>1. CASE i \in DOMAIN active
        <5>1. active[i] = m /\ d \in left[i]
          BY <2>2, <4>1
        <5> QED
          BY <4>1, <5>1 DEF Edges
      <4>2. CASE i = Len(active) + 1
        <5>1. m = n /\ d \in depends[n]
          BY <2>2, <4>2
        <5> QED
          BY <1>3, <2>4, <5>1 DEF Edges
      <4> QED
        BY <2>2, <4>1, <4>2
    <3>2. CASE /\ m \in DOMAIN depends' /\ m \notin seen' \cup ToSet(active')
               /\ d \in depends'[m]
      BY <2>3, <3>2 DEF Edges
    <3> QED
      BY <3>1, <3>2 DEF Edges
  <2> QED
    BY <2>2, <2>4, <2>5
<1> QED
  BY <1>2, <1>3 DEF Visit

\* The dependency a call visits next is then off the list.
LEMMA VisitDependencyShrinks ==
  ASSUME IInv, VisitDependency, outcome' = "running"
  PROVE  Edges' \subseteq Edges /\ Edges' # Edges
<1> PICK n \in Last(left) : Visit(n, Rest(n))
  BY DEF VisitDependency
<1> DEFINE k == Len(active)
<1>1. /\ active # <<>> /\ active \in Seq(DOMAIN depends)
      /\ left # <<>> /\ left \in Seq(SUBSET Name) /\ Len(left) = k
  BY DEF IInv, TypeOK, VisitDependency
<1>2. /\ k \in DOMAIN active /\ k \in DOMAIN left
      /\ n \in left[k] /\ n \in Name /\ active[k] \in Name
  <2>1. k \in DOMAIN active /\ active[k] \in DOMAIN depends
    BY <1>1, FrontOf
  <2>2. k \in DOMAIN left /\ Last(left) = left[k] /\ Last(left) \in SUBSET Name
    BY <1>1, FrontOf
  <2> QED
    BY <2>1, <2>2, DependsType DEF IInv
<1>3. Rest(n) \in Seq(SUBSET Name) /\ Len(Rest(n)) = Len(left)
  BY <1>1, <1>2 DEF Rest
<1>4. Rest(n)[k] = left[k] \ {n} /\ \A i \in DOMAIN active : Rest(n)[i] \subseteq left[i]
  BY <1>1, <1>2 DEF Rest
<1>5. /\ Edges' \subseteq Edges
      /\ \A i \in DOMAIN active : i \in DOMAIN active' /\ active'[i] = active[i] /\ left'[i] = Rest(n)[i]
      /\ \A i \in DOMAIN active' : i \in DOMAIN active \/ active'[i] \notin ToSet(active)
  BY <1>2, <1>3, <1>4, VisitAddsNothing DEF VisitDependency
<1>6. <<active[k], n>> \in Edges
  BY <1>2 DEF Edges
<1>7. ASSUME NEW i \in DOMAIN active', active'[i] = active[k] PROVE n \notin left'[i]
  <2>1. active[k] \in ToSet(active)
    BY <1>2 DEF ToSet
  <2>2. i = k
    BY <1>2, <1>5, <1>7, <2>1 DEF IInv, StackInv
  <2> QED
    BY <1>2, <1>4, <1>5, <2>2
<1>8. active[k] \in ToSet(active')
  BY <1>2, <1>5 DEF ToSet
<1>9. <<active[k], n>> \notin Edges'
  BY <1>7, <1>8 DEF Edges
<1> QED
  BY <1>5, <1>6, <1>9

LEMMA VisitRootShrinks ==
  ASSUME IInv, VisitRoot, outcome' = "running"
  PROVE  roots' \subseteq roots /\ roots' # roots /\ Edges' \subseteq Edges
<1> PICK n \in roots : roots' = roots \ {n} /\ Visit(n, left)
  BY DEF VisitRoot
<1>1. n \in Name /\ left \in Seq(SUBSET Name)
  BY DEF IInv, TypeOK
<1>2. Edges' \subseteq Edges
  BY <1>1, VisitAddsNothing DEF VisitRoot
<1> QED
  BY <1>2

LEMMA FinishShrinks ==
  ASSUME IInv, Finish
  PROVE  Edges' \subseteq Edges /\ Unfinished' \subseteq Unfinished /\ Unfinished' # Unfinished
<1>1. /\ active # <<>> /\ active \in Seq(DOMAIN depends)
      /\ left # <<>> /\ left \in Seq(SUBSET Name) /\ Len(left) = Len(active)
  BY DEF IInv, TypeOK, Finish, Planned
<1>2. Last(active) \in DOMAIN depends /\ Last(active) \notin seen
  BY <1>1, FrontOf DEF IInv, StackInv
<1>3. \A i \in DOMAIN active' : i \in DOMAIN active /\ active'[i] = active[i] /\ left'[i] = left[i]
  <2>1. Len(active') = Len(active) - 1 /\ Len(left') = Len(left) - 1
        /\ active' \in Seq(DOMAIN depends) /\ left' \in Seq(SUBSET Name)
    BY <1>1, FrontOf DEF Finish
  <2>2. DOMAIN left' = DOMAIN active'
    BY <1>1, <2>1
  <2> QED
    BY <1>1, <2>2, FrontOf DEF Finish
<1>4. ToSet(active) \subseteq ToSet(active') \cup {Last(active)}
  <2>1. /\ Len(active') = Len(active) - 1 /\ active' \in Seq(DOMAIN depends)
        /\ Last(active) = active[Len(active)]
    BY <1>1, FrontOf DEF Finish
  <2>2. \A i \in DOMAIN active : i = Len(active) \/ i \in DOMAIN active'
    BY <1>1, <2>1
  <2> QED
    BY <1>3, <2>1, <2>2 DEF ToSet
<1>5. Edges' \subseteq Edges
  BY <1>3, <1>4 DEF Edges, Finish
<1> QED
  BY <1>2, <1>5 DEF Unfinished, Finish

\* recipes.py:99-114. Each step of the walk ends it or leaves less of it, on
\* every recipe tree: it cannot go round in a cycle of recipes.
THEOREM WorkAlwaysShrinks == Spec => WorkShrinks
<1> DEFINE Shrinks ==
      /\ roots' \subseteq roots /\ Edges' \subseteq Edges /\ Unfinished' \subseteq Unfinished
      /\ roots' # roots \/ Edges' # Edges \/ Unfinished' # Unfinished
<1>1. ASSUME IInv, Next, outcome' = "running" PROVE Shrinks
  <2>1. CASE VisitRoot
    BY <1>1, <2>1, VisitRootShrinks DEF VisitRoot, Unfinished
  <2>2. CASE VisitDependency
    BY <1>1, <2>2, VisitDependencyShrinks DEF VisitDependency, Unfinished
  <2>3. CASE Finish
    BY <1>1, <2>3, FinishShrinks DEF Finish
  <2> QED
    BY <1>1, <2>1, <2>2, <2>3 DEF Next, Return
<1>2. IInv /\ [Next]_vars => [outcome' # "running" \/ Shrinks]_vars
  BY <1>1
<1> QED
  BY <1>2, IInvInvariant, PTL DEF Spec, WorkShrinks
=============================================================================
