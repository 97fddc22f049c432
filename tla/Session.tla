------------------------------- MODULE Session -------------------------------
(***************************************************************************)
(* vfos/session.py: launch() starts the desktop as one child and, when it  *)
(* ends or a signal arrives, sweeps whatever the session left behind: a    *)
(* SIGTERM and a SIGKILL to every descendant it can find under /proc, a    *)
(* wait for every child, and the removal of the runtime directory.         *)
(*                                                                         *)
(* The kernel's side is external: processes fork, exit and are reaped at   *)
(* any moment, orphans become children of the supervisor (a subreaper),    *)
(* /proc/P/task/P/children lists only what the main thread of P forked,    *)
(* and root's processes cannot be signalled.  No pid is used twice.        *)
(***************************************************************************)
EXTENDS Naturals

CONSTANTS
  MaxPid,     \* bound on the processes of a session
  MaxSignals  \* bound on SIGTERM, SIGHUP and SIGINT to the supervisor

ASSUME SessionAssumption == MaxPid \in Nat \ {0} /\ MaxSignals \in Nat

Supervisor == 0
Child == 1        \* dbus-run-session, the only process launch() starts
Pid == 1..MaxPid

VARIABLES
  born,     \* processes forked so far; they are numbered in order
  status,   \* of each process
  parent,   \* of each process
  hidden,   \* forked by another thread than the main one of their parent
  root,     \* running as root
  runtime,  \* does the runtime directory exist?
  pc,       \* where the supervisor is
  pass,     \* the signal terminate_children sends
  pending,  \* descendants(): processes whose children are still to be read
  found,    \* descendants() so far, then those still to be signalled
  stray,    \* history: what moved out of the sight of the SIGKILL pass
  cut,      \* history: what cut the cleanup short, or "no"
  signals   \* signals received

kernel == <<born, status, parent, hidden, root>>
sweep == <<pass, pending, found, stray>>
vars == <<kernel, runtime, pc, sweep, cut, signals>>

TypeOK ==
  /\ born \in 0..MaxPid
  /\ status \in [Pid -> {"unborn", "live", "zombie", "gone"}]
  /\ parent \in [Pid -> 0..MaxPid]
  /\ hidden \subseteq Pid /\ root \subseteq Pid
  /\ runtime \in BOOLEAN
  /\ pc \in {"start", "bare", "guarded", "session", "walk", "signal", "reap", "rmtree",
             "done", "killed"}
  /\ pass \in {"TERM", "KILL"}
  /\ pending \subseteq 0..MaxPid /\ found \subseteq Pid /\ stray \subseteq Pid
  /\ cut \in {"no", "interrupt", "permission"}
  /\ signals \in 0..MaxSignals

Init ==
  /\ born = 0
  /\ status = [p \in Pid |-> "unborn"]
  /\ parent = [p \in Pid |-> Supervisor]
  /\ hidden = {} /\ root = {}
  /\ runtime = FALSE
  /\ pc = "start"
  /\ pass = "TERM" /\ pending = {} /\ found = {} /\ stray = {}
  /\ cut = "no"
  /\ signals = 0
-----------------------------------------------------------------------------
\* The processes the supervisor may still see.
Present(p) == status[p] \in {"live", "zombie"}
Live == {p \in Pid : status[p] = "live"}

\* Is the SIGKILL pass looking for processes, or signalling them?
Killing == pass = "KILL" /\ pc \in {"walk", "signal"}

\* A process escapes that pass if another thread forked it, or a parent whose
\* children had been read, or if its parent exits once the supervisor's own had.
Unseen(p, other) == Killing /\ (other \/ p \in found \ pending)
Orphaned(p) ==
  IF pass = "KILL" /\ Supervisor \notin pending
  THEN {c \in Pid : parent[c] = p} \ found ELSE {}

\* Orphans go to the nearest subreaper: prctl(PR_SET_CHILD_SUBREAPER).
Adopter == Supervisor

\* A process dies: a zombie until its parent asks, its children adopted.
Die(p) ==
  /\ status' = [status EXCEPT ![p] = "zombie"]
  /\ parent' = [c \in Pid |-> IF parent[c] = p THEN Adopter ELSE parent[c]]
  /\ hidden' = {c \in hidden : parent[c] # p}

\* Any process of the session forks, from any of its threads; su makes root.
Fork(p) ==
  /\ status[p] = "live" /\ born < MaxPid
  /\ pc \notin {"done", "killed"}
  /\ born' = born + 1
  /\ status' = [status EXCEPT ![born'] = "live"]
  /\ parent' = [parent EXCEPT ![born'] = p]
  /\ \E other \in BOOLEAN :
       /\ hidden' = IF other THEN hidden \cup {born'} ELSE hidden
       /\ stray' = IF Unseen(p, other) THEN stray \cup {born'} ELSE stray
  /\ \E su \in BOOLEAN : root' = IF su THEN root \cup {born'} ELSE root
  /\ UNCHANGED <<runtime, pc, pass, pending, found, cut, signals>>

Exit(p) ==
  /\ status[p] = "live"
  /\ pc \notin {"done", "killed"}
  /\ Die(p)
  /\ stray' = stray \cup Orphaned(p)
  /\ UNCHANGED <<born, root, runtime, pc, pass, pending, found, cut, signals>>

\* A parent other than the supervisor reaps its child.
Reaped(p) ==
  /\ status[p] = "zombie" /\ parent[p] # Supervisor
  /\ pc \notin {"done", "killed"}
  /\ status' = [status EXCEPT ![p] = "gone"]
  /\ UNCHANGED <<born, parent, hidden, root, runtime, pc, sweep, cut, signals>>
-----------------------------------------------------------------------------
\* The checks passed, prctl and mkdtemp succeeded.
MakeRuntime ==
  /\ pc = "start"
  /\ runtime' = TRUE /\ pc' = "bare"
  /\ UNCHANGED <<kernel, sweep, cut, signals>>

\* try: the handlers of SIGTERM and SIGHUP are set.
Guard ==
  /\ pc = "bare"
  /\ pc' = "guarded"
  /\ UNCHANGED <<kernel, runtime, sweep, cut, signals>>

\* finally: terminate_children starts with SIGTERM.
Cleanup ==
  /\ pc' = "walk" /\ pass' = "TERM"
  /\ pending' = {Supervisor} /\ found' = {}
  /\ UNCHANGED <<stray, cut>>

\* subprocess.call starts the child, or cannot.
Spawn ==
  /\ pc = "guarded"
  /\ \/ /\ born' = Child
        /\ status' = [status EXCEPT ![Child] = "live"]
        /\ pc' = "session"
        /\ UNCHANGED <<sweep, cut>>
     \/ Cleanup /\ UNCHANGED <<born, status>>
  /\ UNCHANGED <<parent, hidden, root, runtime, signals>>

\* subprocess.call returns the status of the child.
CallReturns ==
  /\ pc = "session" /\ status[Child] = "zombie"
  /\ status' = [status EXCEPT ![Child] = "gone"]
  /\ Cleanup
  /\ UNCHANGED <<born, parent, hidden, root, runtime, signals>>

\* KeyboardInterrupt, or an error nobody catches, leaves the finally clause.
Cut(reason) ==
  /\ pc' = "done" /\ cut' = reason
  /\ UNCHANGED sweep

\* A signal: fatal before the handlers are set, an interrupt after that.
\* subprocess.call kills the child and passes the interrupt on; the finally
\* clause does not survive one.
Signal ==
  /\ pc \in {"bare", "guarded", "session", "walk", "signal", "reap", "rmtree"}
  /\ signals < MaxSignals /\ signals' = signals + 1
  /\ CASE pc = "bare" -> pc' = "killed" /\ UNCHANGED <<kernel, sweep, cut>>
       [] pc = "guarded" -> Cleanup /\ UNCHANGED kernel
       [] pc = "session" ->
            /\ IF status[Child] = "live" THEN Die(Child) ELSE UNCHANGED <<status, parent, hidden>>
            /\ Cleanup
            /\ UNCHANGED <<born, root>>
       [] OTHER -> Cut("interrupt") /\ UNCHANGED kernel
  /\ UNCHANGED runtime
-----------------------------------------------------------------------------
\* What the children file of process q shows.
Children(q) == {c \in Pid \ hidden : Present(c) /\ parent[c] = q}

\* descendants() reads the children of one more process, if it still exists.
ToRead_Never(children) == {}
ToRead(children) == children \ found

Walk ==
  /\ pc = "walk"
  /\ \E q \in pending :
       /\ found' = found \cup Children(q)
       /\ pending' = (pending \ {q}) \cup ToRead(Children(q))
  /\ UNCHANGED <<kernel, runtime, pc, pass, stray, cut, signals>>

WalkDone ==
  /\ pc = "walk" /\ pending = {}
  /\ pc' = "signal"
  /\ UNCHANGED <<kernel, runtime, sweep, cut, signals>>

\* pidfd_open and pidfd_send_signal.  A process that is gone is passed over;
\* one of root's raises PermissionError.  What SIGTERM does is up to Exit.
Send ==
  /\ pc = "signal"
  /\ \E p \in found :
       \/ /\ status[p] # "gone" /\ p \in root
          /\ Cut("permission")
          /\ UNCHANGED kernel
       \/ /\ status[p] = "gone" \/ p \notin root
          /\ found' = found \ {p}
          /\ IF pass = "KILL" /\ status[p] = "live"
             THEN Die(p) ELSE UNCHANGED <<status, parent, hidden>>
          /\ UNCHANGED <<born, root, pc, pass, pending, stray, cut>>
  /\ UNCHANGED <<runtime, signals>>

\* After 0.3 s the SIGKILL pass takes a new look; after it the wait begins.
PassDone ==
  /\ pc = "signal" /\ found = {}
  /\ IF pass = "TERM"
     THEN /\ pass' = "KILL" /\ pc' = "walk" /\ pending' = {Supervisor}
          /\ stray' = hidden \cap Live
     ELSE /\ pc' = "reap" /\ UNCHANGED <<pass, pending, stray>>
  /\ UNCHANGED <<kernel, runtime, found, cut, signals>>

\* waitpid(-1, 0) returns a dead child, or raises ChildProcessError.
Waitable_ChildOnly(p) == p = Child /\ status[p] = "zombie"
Waitable(p) == parent[p] = Supervisor /\ status[p] = "zombie"

Wait ==
  /\ pc = "reap"
  /\ \E p \in Pid :
       /\ Waitable(p)
       /\ status' = [status EXCEPT ![p] = "gone"]
  /\ UNCHANGED <<born, parent, hidden, root, runtime, pc, sweep, cut, signals>>

NoChild_NoZombie == \A p \in Pid : parent[p] = Supervisor => status[p] # "zombie"
NoChild == \A p \in Pid : parent[p] = Supervisor => ~Present(p)

WaitDone ==
  /\ pc = "reap" /\ NoChild
  /\ pc' = "rmtree"
  /\ UNCHANGED <<kernel, runtime, sweep, cut, signals>>

RemoveRuntime ==
  /\ pc = "rmtree"
  /\ runtime' = FALSE /\ pc' = "done"
  /\ UNCHANGED <<kernel, sweep, cut, signals>>

Sweep == Walk \/ WalkDone \/ Send \/ PassDone \/ Wait \/ WaitDone \/ RemoveRuntime

Next ==
  \/ \E p \in Pid : Fork(p) \/ Exit(p) \/ Reaped(p)
  \/ MakeRuntime \/ Guard \/ Spawn \/ CallReturns \/ Signal
  \/ Sweep

\* The supervisor goes on when it can; no process of the session ever has to.
Spec == Init /\ [][Next]_vars /\ WF_vars(Sweep)
-----------------------------------------------------------------------------
\* session.py:117-121. A supervisor that ends its cleanup (nothing cut it
\* short) leaves no process of the session, orphaned, hidden or its own, and
\* no runtime directory.
ExitIsClean ==
  pc = "done" /\ cut = "no" => (\A p \in Pid : ~Present(p)) /\ ~runtime

\* session.py:20-50. What the SIGKILL pass leaves alive, however deep the tree,
\* and whatever else moves, exits or ignores SIGTERM meanwhile, descends from a
\* process that hid behind a thread, was forked after its parent's children had
\* been read, or lost its parent to an exit after the supervisor's had.
KillPassIsComplete ==
  pc = "reap" => \A p \in Live : p \in stray \/ parent[p] \in Live

\* session.py:36-55. A cleanup ends, unless it waits for a process that the
\* SIGKILL pass missed.
CleanupEnds ==
  pc \in {"walk", "signal", "reap", "rmtree"} ~> pc = "done" \/ (pc = "reap" /\ Live # {})

\* docs/boot-and-sessions.md: "On logout it terminates session descendants,
\* including orphaned applications".  Those of the user, that is, and unless a
\* second signal cuts the cleanup short.
DescendantsEnd ==
  pc = "done" /\ cut # "interrupt" => Live \subseteq root
=============================================================================
