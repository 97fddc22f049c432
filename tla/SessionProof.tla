---------------------------- MODULE SessionProof ----------------------------
(***************************************************************************)
(* For every number of processes and signals: type correctness,            *)
(* ExitIsClean and KillPassIsComplete of Session.                          *)
(***************************************************************************)
EXTENDS Session, TLAPS, WellFoundedInduction

\* Processes are numbered in the order of their birth, and the parent of one
\* that is present is older, and alive.
Family ==
  /\ pc \in {"start", "bare", "guarded"} => born = 0
  /\ \A p \in Pid : status[p] = "unborn" <=> p > born
  /\ \A p \in Pid : status[p] = "unborn" => parent[p] = Supervisor /\ p \notin hidden
  /\ \A p \in Pid : Present(p) =>
       /\ parent[p] < p
       /\ parent[p] # Supervisor => parent[p] \in Live

\* Once the wait is over nothing is left.
Swept ==
  /\ pc = "rmtree" => \A p \in Pid : ~Present(p)
  /\ ExitIsClean

\* What the SIGKILL pass has seen so far: the children of whoever it has read,
\* but for strays, and every live process behind a thread is a stray.
Seen ==
  /\ Killing =>
       /\ hidden \cap Live \subseteq stray
       /\ \A p \in Live :
            parent[p] \in (found \cup {Supervisor}) \ pending => p \in found \cup stray
  /\ Killing /\ pc = "signal" => pending = {}
  /\ pc = "reap" => pass = "KILL" /\ pending = {} /\ found = {}
  /\ KillPassIsComplete

IInv == TypeOK /\ Family /\ Swept /\ Seen
-----------------------------------------------------------------------------
\* A non-empty set of processes has an oldest member.
LEMMA Oldest ==
  ASSUME NEW T \in SUBSET Nat, T # {}
  PROVE  \E p \in T : \A q \in T : p <= q
<1> DEFINE R == OpToRel(<, Nat)
<1>1. \A x, y \in Nat : x < y => <<x, y>> \in R
  BY DEF OpToRel
<1>2. IsWellFoundedOn(R, Nat)
  BY NatLessThanWellFounded
<1> HIDE DEF R
<1>3. PICK p \in T : \A q \in T : ~(<<q, p>> \in R)
  BY <1>2, WFMin
<1>4. ASSUME NEW q \in T
      PROVE  p <= q
  <2>1. ~(q < p)
    BY <1>1, <1>3
  <2>2. p \in Nat /\ q \in Nat
    OBVIOUS
  <2> QED
    BY <2>1, <2>2
<1> QED
  BY <1>4

\* If the supervisor has no child, it has no descendant.
LEMMA NoDescendants ==
  ASSUME TypeOK, Family, NoChild
  PROVE  \A p \in Pid : ~Present(p)
<1> SUFFICES ASSUME NEW x \in Pid, Present(x) PROVE FALSE
  OBVIOUS
<1> DEFINE T == {p \in Pid : Present(p)}
<1>1. T \in SUBSET Nat /\ T # {}
  BY DEF Pid
<1>2. PICK p \in T : \A q \in T : p <= q
  BY <1>1, Oldest
<1>3. parent[p] # Supervisor /\ parent[p] < p /\ parent[p] \in Live
  BY <1>2 DEF Family, NoChild
<1>4. parent[p] \in T /\ parent[p] \in Nat /\ p \in Nat
  BY <1>3 DEF Live, Present, Pid
<1> QED
  BY <1>2, <1>3, <1>4

LEMMA Initially == Init => IInv
<1> USE SessionAssumption DEF Init, Present, Live, Pid, Supervisor
<1>1. Init => TypeOK
  <2>1. Init => runtime \in BOOLEAN
    OBVIOUS
  <2>2. Init => /\ born \in 0..MaxPid /\ status \in [Pid -> {"unborn", "live", "zombie", "gone"}]
                /\ parent \in [Pid -> 0..MaxPid] /\ signals \in 0..MaxSignals
    OBVIOUS
  <2>3. Init => /\ hidden \subseteq Pid /\ root \subseteq Pid /\ pending \subseteq 0..MaxPid
                /\ found \subseteq Pid /\ stray \subseteq Pid
    OBVIOUS
  <2> QED
    BY <2>1, <2>2, <2>3 DEF TypeOK
<1>2. Init => Family
  BY DEF Family
<1>3. Init => Swept /\ Seen
  BY DEF Swept, Seen, ExitIsClean, KillPassIsComplete, Killing
<1> QED
  BY <1>1, <1>2, <1>3 DEF IInv

\* A death keeps the types.
LEMMA DieTypes ==
  ASSUME TypeOK, NEW p \in Pid, Die(p)
  PROVE  /\ status' \in [Pid -> {"unborn", "live", "zombie", "gone"}]
         /\ parent' \in [Pid -> 0..MaxPid]
         /\ hidden' \subseteq Pid
<1>1. status' \in [Pid -> {"unborn", "live", "zombie", "gone"}]
  BY DEF TypeOK, Die
<1>2. Supervisor \in 0..MaxPid
  BY SessionAssumption DEF Supervisor
<1>3. parent' \in [Pid -> 0..MaxPid]
  BY <1>2 DEF TypeOK, Die, Adopter
<1>4. hidden' \subseteq Pid
  BY DEF TypeOK, Die
<1> QED
  BY <1>1, <1>3, <1>4

\* The children of the dead go to the supervisor, the others stay.
LEMMA DieParents ==
  ASSUME NEW p, Die(p)
  PROVE  \A x \in Pid : parent'[x] = IF parent[x] = p THEN Supervisor ELSE parent[x]
BY DEF Die, Adopter

\* Each step keeps the types.
LEMMA TypeStep ==
  ASSUME TypeOK, Family, [Next]_vars
  PROVE  TypeOK'
<1> USE SessionAssumption DEF TypeOK, Family, Present, Pid, Supervisor, kernel, sweep
<1>1. ASSUME NEW p \in Pid, Fork(p) PROVE TypeOK'
  BY <1>1 DEF TypeOK, Fork, Killing
<1>2. ASSUME NEW p \in Pid, Exit(p) PROVE TypeOK'
  <2>1. Die(p)
    BY <1>2 DEF Exit
  <2>2. stray' \subseteq Pid
    BY <1>2 DEF TypeOK, Exit, Orphaned
  <2> QED
    BY <1>2, <2>1, <2>2, DieTypes DEF TypeOK, Exit
<1>3. ASSUME NEW p \in Pid, Reaped(p) PROVE TypeOK'
  BY <1>3 DEF TypeOK, Reaped
<1>4. CASE MakeRuntime
  BY <1>4 DEF TypeOK, MakeRuntime
<1>5. CASE Guard
  BY <1>5 DEF TypeOK, Guard
<1>6. CASE Spawn
  <2>1. born' \in 0..MaxPid /\ status' \in [Pid -> {"unborn", "live", "zombie", "gone"}]
    BY <1>6 DEF TypeOK, Spawn, Cleanup, Child
  <2>2. runtime' \in BOOLEAN /\ stray' \subseteq Pid
    BY <1>6 DEF TypeOK, Spawn, Cleanup
  <2>3. /\ pending' \subseteq 0..MaxPid /\ found' \subseteq Pid /\ pass' \in {"TERM", "KILL"}
        /\ pc' \in {"session", "walk"} /\ cut' = cut
    BY <1>6 DEF TypeOK, Spawn, Cleanup
  <2> QED
    BY <1>6, <2>1, <2>2, <2>3 DEF TypeOK, Spawn
<1>7. CASE CallReturns
  BY <1>7 DEF TypeOK, CallReturns, Cleanup, Child
<1>8. CASE Signal
  <2>1. /\ status' \in [Pid -> {"unborn", "live", "zombie", "gone"}]
        /\ parent' \in [Pid -> 0..MaxPid] /\ hidden' \subseteq Pid
        /\ UNCHANGED <<born, root>>
    <3>1. Child \in Pid
      BY DEF Child
    <3>2. CASE Die(Child)
      BY <1>8, <3>1, <3>2, DieTypes DEF Signal
    <3>3. CASE UNCHANGED <<status, parent, hidden>>
      BY <1>8, <3>3 DEF TypeOK, Signal
    <3> QED
      BY <1>8, <3>2, <3>3 DEF Signal
  <2>2. runtime' \in BOOLEAN /\ stray' \subseteq Pid
    BY <1>8 DEF TypeOK, Signal, Cleanup, Cut
  <2>3. /\ pending' \subseteq 0..MaxPid /\ found' \subseteq Pid /\ pass' \in {"TERM", "KILL"}
        /\ pc' \in {"walk", "done", "killed"} /\ cut' \in {"no", "interrupt", "permission"}
    BY <1>8 DEF TypeOK, Signal, Cleanup, Cut
  <2>4. signals' \in 0..MaxSignals
    BY <1>8 DEF TypeOK, Signal
  <2> QED
    BY <2>1, <2>2, <2>3, <2>4 DEF TypeOK
<1>9. CASE Walk
  <2>1. PICK q \in pending :
          /\ found' = found \cup Children(q)
          /\ pending' = (pending \ {q}) \cup ToRead(Children(q))
    BY <1>9 DEF Walk
  <2>2. Children(q) \subseteq Pid /\ Pid \subseteq 0..MaxPid
    BY DEF Children
  <2>3. found' \subseteq Pid /\ pending' \subseteq 0..MaxPid
    BY <2>1, <2>2 DEF TypeOK, ToRead
  <2> QED
    BY <1>9, <2>3 DEF TypeOK, Walk
<1>10. CASE WalkDone
  BY <1>10 DEF TypeOK, WalkDone
<1>11. CASE Send
  <2>1. PICK p \in found :
          \/ Cut("permission") /\ UNCHANGED kernel
          \/ /\ found' = found \ {p}
             /\ Die(p) \/ UNCHANGED <<status, parent, hidden>>
             /\ UNCHANGED <<born, root, pc, pass, pending, stray, cut>>
    BY <1>11 DEF Send
  <2>2. p \in Pid /\ UNCHANGED <<runtime, signals>>
    BY <1>11 DEF TypeOK, Send
  <2>3. CASE Cut("permission") /\ UNCHANGED kernel
    BY <2>2, <2>3 DEF TypeOK, Cut
  <2>4. CASE found' = found \ {p} /\ Die(p) /\ UNCHANGED <<born, root, pc, pass, pending, stray, cut>>
    BY <2>2, <2>4, DieTypes DEF TypeOK
  <2>5. CASE /\ found' = found \ {p}
             /\ UNCHANGED <<status, parent, hidden>>
             /\ UNCHANGED <<born, root, pc, pass, pending, stray, cut>>
    BY <2>2, <2>5 DEF TypeOK
  <2> QED
    BY <2>1, <2>3, <2>4, <2>5
<1>12. CASE PassDone
  <2>1. stray' = hidden \cap Live \/ stray' = stray
    BY <1>12 DEF PassDone
  <2>2. stray' \subseteq Pid /\ runtime' \in BOOLEAN
    BY <1>12, <2>1 DEF TypeOK, PassDone
  <2>3. pending' = {Supervisor} \/ pending' = pending
    BY <1>12 DEF PassDone
  <2>4. pending' \subseteq 0..MaxPid
    <3>1. pending \subseteq 0..MaxPid /\ Supervisor \in 0..MaxPid
      BY DEF TypeOK
    <3> QED
      BY <2>3, <3>1
  <2>5. pass' \in {"TERM", "KILL"} /\ pc' \in {"walk", "reap"}
    BY <1>12 DEF TypeOK, PassDone
  <2>6. UNCHANGED <<kernel, found, cut, signals>>
    BY <1>12 DEF PassDone
  <2> QED
    BY <2>2, <2>4, <2>5, <2>6 DEF TypeOK
<1>13. CASE Wait
  BY <1>13 DEF TypeOK, Wait, Waitable
<1>14. CASE WaitDone
  BY <1>14 DEF TypeOK, WaitDone, NoChild
<1>15. CASE RemoveRuntime
  BY <1>15 DEF TypeOK, RemoveRuntime
<1>16. CASE UNCHANGED vars
  BY <1>16 DEF vars
<1> QED
  BY <1>1, <1>2, <1>3, <1>4, <1>5, <1>6, <1>7, <1>8, <1>9, <1>10, <1>11, <1>12, <1>13, <1>14, <1>15, <1>16 DEF Next, Sweep

\* Orphans are adopted by the supervisor.
LEMMA FamilyStep ==
  ASSUME TypeOK, Family, [Next]_vars
  PROVE  Family'
<1> USE SessionAssumption DEF TypeOK, Family, Present, Live, Pid, Supervisor, kernel, sweep
<1>1. ASSUME NEW p \in Pid, Fork(p) PROVE Family'
  BY <1>1 DEF Fork, Killing
<1>2. ASSUME NEW p \in Pid, Exit(p) PROVE Family'
  BY <1>2 DEF Exit, Killing, Die, Adopter
<1>3. ASSUME NEW p \in Pid, Reaped(p) PROVE Family'
  BY <1>3 DEF Reaped
<1>4. CASE MakeRuntime
  BY <1>4 DEF MakeRuntime
<1>5. CASE Guard
  BY <1>5 DEF Guard
<1>6. CASE Spawn
  <2>1. CASE born' = Child /\ status' = [status EXCEPT ![Child] = "live"] /\ pc' = "session"
    <3>1. /\ UNCHANGED <<parent, hidden>> /\ born = 0
          /\ \A p \in Pid : status[p] = "unborn" /\ p \notin hidden
      BY <1>6 DEF Spawn
    <3>2. parent[Child] = Supervisor
      BY <3>1 DEF Child
    <3>3. \A p \in Pid : status'[p] = IF p = Child THEN "live" ELSE "unborn"
      BY <2>1, <3>1 DEF Child
    <3>4. born' = 1 /\ pc' = "session" /\ hidden' = hidden /\ parent' = parent
      BY <2>1, <3>1 DEF Child
    <3> QED
      BY <3>1, <3>2, <3>3, <3>4 DEF Child
  <2>2. CASE Cleanup /\ UNCHANGED <<born, status>>
    BY <1>6, <2>2 DEF Spawn, Cleanup
  <2> QED
    BY <1>6, <2>1, <2>2 DEF Spawn
<1>7. CASE CallReturns
  BY <1>7 DEF CallReturns, Cleanup, Child
<1>8. CASE Signal
  BY <1>8 DEF Signal, Cleanup, Cut, Die, Adopter, Child
<1>9. CASE Walk
  BY <1>9 DEF Walk, Children, ToRead
<1>10. CASE WalkDone
  BY <1>10 DEF WalkDone
<1>11. CASE Send
  <2>1. PICK p \in Pid :
          \/ Cut("permission") /\ UNCHANGED kernel
          \/ Die(p) /\ status[p] = "live" /\ UNCHANGED <<born, pc>>
          \/ UNCHANGED <<status, parent, hidden, born, pc>>
    BY <1>11 DEF Send
  <2>2. CASE Cut("permission") /\ UNCHANGED kernel
    BY <2>2 DEF Cut
  <2>3. CASE Die(p) /\ status[p] = "live" /\ UNCHANGED <<born, pc>>
    BY <2>3 DEF Die, Adopter
  <2>4. CASE UNCHANGED <<status, parent, hidden, born, pc>>
    BY <2>4
  <2> QED
    BY <2>1, <2>2, <2>3, <2>4
<1>12. CASE PassDone
  BY <1>12 DEF PassDone
<1>13. CASE Wait
  BY <1>13 DEF Wait, Waitable
<1>14. CASE WaitDone
  BY <1>14 DEF WaitDone, NoChild
<1>15. CASE RemoveRuntime
  BY <1>15 DEF RemoveRuntime
<1>16. CASE UNCHANGED vars
  BY <1>16 DEF vars
<1> QED
  BY <1>1, <1>2, <1>3, <1>4, <1>5, <1>6, <1>7, <1>8, <1>9, <1>10, <1>11, <1>12, <1>13, <1>14, <1>15, <1>16 DEF Next, Sweep

\* The wait ends only when the supervisor has no child, and so no descendant.
LEMMA SweptStep ==
  ASSUME TypeOK, Family, Swept, [Next]_vars
  PROVE  Swept'
<1> USE SessionAssumption DEF TypeOK, Swept, ExitIsClean, Present, Pid, Supervisor, kernel, sweep
<1>1. ASSUME NEW p \in Pid, Fork(p) PROVE Swept'
  BY <1>1 DEF Fork, Killing
<1>2. ASSUME NEW p \in Pid, Exit(p) PROVE Swept'
  BY <1>2 DEF Exit, Killing, Die, Adopter
<1>3. ASSUME NEW p \in Pid, Reaped(p) PROVE Swept'
  BY <1>3 DEF Reaped
<1>4. CASE MakeRuntime
  BY <1>4 DEF MakeRuntime
<1>5. CASE Guard
  BY <1>5 DEF Guard
<1>6. CASE Spawn
  BY <1>6 DEF Spawn, Cleanup, Child
<1>7. CASE CallReturns
  BY <1>7 DEF CallReturns, Cleanup, Child
<1>8. CASE Signal
  BY <1>8 DEF Signal, Cleanup, Cut, Die, Adopter, Child
<1>9. CASE Walk
  BY <1>9 DEF Walk, Children, ToRead
<1>10. CASE WalkDone
  BY <1>10 DEF WalkDone
<1>11. CASE Send
  BY <1>11 DEF Send, Cut, Die, Adopter
<1>12. CASE PassDone
  BY <1>12 DEF PassDone
<1>13. CASE Wait
  BY <1>13 DEF Wait, Waitable
<1>14. CASE WaitDone
  BY <1>14, NoDescendants DEF WaitDone, NoChild
<1>15. CASE RemoveRuntime
  BY <1>15 DEF RemoveRuntime
<1>16. CASE UNCHANGED vars
  BY <1>16 DEF vars
<1> QED
  BY <1>1, <1>2, <1>3, <1>4, <1>5, <1>6, <1>7, <1>8, <1>9, <1>10, <1>11, <1>12, <1>13, <1>14, <1>15, <1>16 DEF Next, Sweep

\* The SIGKILL pass kills whatever it reads, and only strays escape it.
LEMMA SeenStep ==
  ASSUME TypeOK, Family, Seen, [Next]_vars
  PROVE  Seen'
<1> USE SessionAssumption DEF TypeOK, Family, Seen, KillPassIsComplete, Present, Live, Killing, Pid, Supervisor, kernel, sweep
<1>1. ASSUME NEW p \in Pid, Fork(p) PROVE Seen'
  <2> DEFINE c == born'
  <2>1. /\ c \in Pid /\ p \in Live /\ p \in Nat \ {0}
        /\ Live' = Live \cup {c} /\ c \notin Live
        /\ parent'[c] = p /\ \A x \in Pid \ {c} : parent'[x] = parent[x]
        /\ UNCHANGED <<pc, pass, pending, found>>
    BY <1>1 DEF Fork
  <2>2. PICK other \in BOOLEAN :
          /\ hidden' = IF other THEN hidden \cup {c} ELSE hidden
          /\ stray' = IF Unseen(p, other) THEN stray \cup {c} ELSE stray
    BY <1>1 DEF Fork
  <2> HIDE DEF c
  <2>3. stray \subseteq stray'
    BY <2>2
  <2>4. Killing => hidden' \cap Live' \subseteq stray'
    <3>1. c \notin hidden
      BY <1>1 DEF Fork, c
    <3> QED
      BY <2>1, <2>2, <3>1 DEF Unseen
  <2>5. ASSUME Killing, NEW x \in Live', parent'[x] \in (found \cup {Supervisor}) \ pending
        PROVE  x \in found \cup stray'
    <3>1. CASE x = c
      BY <2>1, <2>2, <2>5, <3>1 DEF Unseen
    <3>2. CASE x # c
      BY <2>1, <2>3, <2>5, <3>2
    <3> QED
      BY <3>1, <3>2
  <2>6. KillPassIsComplete'
    <3> SUFFICES ASSUME pc = "reap", NEW x \in Live' PROVE x \in stray' \/ parent'[x] \in Live'
      BY <2>1 DEF KillPassIsComplete
    <3>1. CASE x = c
      BY <2>1, <3>1
    <3>2. CASE x # c
      BY <2>1, <2>3, <3>2
    <3> QED
      BY <3>1, <3>2
  <2> QED
    BY <2>1, <2>4, <2>5, <2>6
<1>2. ASSUME NEW p \in Pid, Exit(p) PROVE Seen'
  BY <1>2 DEF Exit, Orphaned, Die, Adopter
<1>3. ASSUME NEW p \in Pid, Reaped(p) PROVE Seen'
  BY <1>3 DEF Reaped
<1>4. CASE MakeRuntime
  BY <1>4 DEF MakeRuntime
<1>5. CASE Guard
  BY <1>5 DEF Guard
<1>6. CASE Spawn
  BY <1>6 DEF Spawn, Cleanup, Child
<1>7. CASE CallReturns
  BY <1>7 DEF CallReturns, Cleanup, Child
<1>8. CASE Signal
  BY <1>8 DEF Signal, Cleanup, Cut, Die, Adopter, Child
<1>9. CASE Walk
  BY <1>9 DEF Walk, Children, ToRead
<1>10. CASE WalkDone
  BY <1>10 DEF WalkDone
<1>11. CASE Send
  <2>1. PICK p \in found :
          \/ Cut("permission")
          \/ /\ found' = found \ {p}
             /\ IF pass = "KILL" /\ status[p] = "live"
                THEN Die(p) ELSE UNCHANGED <<status, parent, hidden>>
             /\ UNCHANGED <<pc, pass, pending, stray>>
    BY <1>11 DEF Send
  <2>2. pc = "signal" /\ p \in Pid
    BY <1>11 DEF Send
  <2>3. CASE Cut("permission")
    BY <2>2, <2>3 DEF Cut
  <2>4. CASE /\ found' = found \ {p} /\ pass = "KILL" /\ status[p] = "live" /\ Die(p)
             /\ UNCHANGED <<pc, pass, pending, stray>>
    <3>1. /\ Live' = Live \ {p} /\ hidden' \subseteq hidden
          /\ \A x \in Pid : parent'[x] = IF parent[x] = p THEN Supervisor ELSE parent[x]
      <4>1. /\ status' = [status EXCEPT ![p] = "zombie"]
            /\ parent' = [x \in Pid |-> IF parent[x] = p THEN Supervisor ELSE parent[x]]
            /\ hidden' = {x \in hidden : parent[x] # p}
        BY <2>4 DEF Die, Adopter
      <4>2. Live' = Live \ {p}
        BY <2>2, <4>1
      <4>3. \A x \in Pid : parent'[x] = IF parent[x] = p THEN Supervisor ELSE parent[x]
        BY <2>4, DieParents
      <4> QED
        BY <4>1, <4>2, <4>3
    <3>2. ASSUME NEW x \in Live', parent'[x] \in found' \cup {Supervisor}
          PROVE  x \in found' \cup stray'
      <4>1. x \in Live /\ x # p /\ pending = {}
        BY <2>2, <2>4, <3>1
      <4>2. parent[x] \in (found \cup {Supervisor}) \ pending
        BY <2>1, <2>4, <3>1, <3>2, <4>1
      <4>3. x \in found \cup stray
        BY <2>2, <2>4, <4>1, <4>2
      <4> QED
        BY <2>4, <4>1, <4>3
    <3> QED
      BY <2>2, <2>4, <3>1, <3>2
  <2>5. CASE /\ found' = found \ {p} /\ ~(pass = "KILL" /\ status[p] = "live")
             /\ UNCHANGED <<status, parent, hidden>>
             /\ UNCHANGED <<pc, pass, pending, stray>>
    <3>1. CASE pass = "KILL"
      <4>1. p \notin Live /\ Live' = Live /\ pending = {}
        BY <2>2, <2>5, <3>1
      <4>2. ASSUME NEW x \in Live, parent[x] \in found' \cup {Supervisor}
            PROVE  x \in found' \cup stray'
        <5>1. x \in found \cup stray
          BY <2>2, <2>5, <3>1, <4>1, <4>2
        <5> QED
          BY <2>5, <4>1, <5>1
      <4> QED
        BY <2>2, <2>5, <3>1, <4>1, <4>2
    <3>2. CASE pass # "KILL"
      BY <2>2, <2>5, <3>2
    <3> QED
      BY <3>1, <3>2
  <2> QED
    BY <2>1, <2>3, <2>4, <2>5
<1>12. CASE PassDone
  BY <1>12 DEF PassDone
<1>13. CASE Wait
  BY <1>13 DEF Wait, Waitable
<1>14. CASE WaitDone
  BY <1>14 DEF WaitDone, NoChild
<1>15. CASE RemoveRuntime
  BY <1>15 DEF RemoveRuntime
<1>16. CASE UNCHANGED vars
  BY <1>16 DEF vars
<1> QED
  BY <1>1, <1>2, <1>3, <1>4, <1>5, <1>6, <1>7, <1>8, <1>9, <1>10, <1>11, <1>12, <1>13, <1>14, <1>15, <1>16 DEF Next, Sweep

\* The invariant holds throughout.
LEMMA Invariance == Spec => []IInv
<1>1. IInv /\ [Next]_vars => IInv'
  BY TypeStep, FamilyStep, SweptStep, SeenStep DEF IInv
<1> QED
  BY Initially, <1>1, PTL DEF Spec

\* Type correctness of Session.
THEOREM TypeCorrect == Spec => []TypeOK
<1>1. IInv => TypeOK
  BY DEF IInv
<1> QED
  BY Invariance, <1>1, PTL

\* session.py:117-121. A cleanup that runs to its end leaves no process of the
\* session and no runtime directory, however the tree moved meanwhile.
THEOREM ExitAlwaysClean == Spec => []ExitIsClean
<1>1. IInv => ExitIsClean
  BY DEF IInv, Swept
<1> QED
  BY Invariance, <1>1, PTL

\* session.py:20-50. However the tree moves, forks and exits, the SIGKILL pass
\* leaves alive only strays and what descends from them.
THEOREM KillPassAlwaysComplete == Spec => []KillPassIsComplete
<1>1. IInv => KillPassIsComplete
  BY DEF IInv, Seen
<1> QED
  BY Invariance, <1>1, PTL
=============================================================================
