------------------------------ MODULE Payload -------------------------------
(***************************************************************************)
(* The vocabulary of vfos/packages.py: the paths below a target root, what *)
(* can be found at one, and the change a transaction makes to them.        *)
(***************************************************************************)
CONSTANTS
  Path,       \* payload paths below the target root
  Content,    \* what a complete regular file or symlink can hold
  Absent,     \* nothing at a path
  Dir,        \* a directory at a path
  Torn,       \* a file whose copy has begun and not ended
  Keep,       \* "this transaction does not name the path"
  Forget,     \* "nor does the new database": left alone, recorded no longer
  None        \* no value: a missing file, a lock nobody holds, ...

\* What a copy can leave at a path once it has ended.
Whole == Content \cup {Absent, Dir}

\* A transaction: for each path a content to write, Absent to delete, Keep, or
\* Forget (edited configuration of a package that goes or no longer ships it).
Goals == [Path -> Content \cup {Absent, Keep, Forget}]

\* A database: the content recorded for each owned path, Absent elsewhere.
Databases == [Path -> Content \cup {Absent}]

\* The markers are distinct and are not contents, paths or databases.
ASSUME MarkersDistinct ==
  /\ Absent \notin Content /\ Dir \notin Content
  /\ Torn \notin Content /\ Keep \notin Content
  /\ Absent # Dir /\ Absent # Torn /\ Absent # Keep
  /\ Dir # Torn /\ Dir # Keep /\ Torn # Keep
  /\ Forget \notin Content \cup {Absent, Dir, Torn, Keep}
  /\ None \notin Path /\ None \notin Databases

\* The paths a transaction names: `paths' in Database.transaction.
Touched(goal) == {q \in Path : goal[q] \notin {Keep, Forget}}

\* The tree f with the paths a transaction names replaced.
Overlay(goal, f) == [q \in Path |-> IF q \in Touched(goal) THEN goal[q] ELSE f[q]]

\* The database that goes with that: `data' in Database.transaction.
Registered(goal, d) ==
  [q \in Path |-> IF goal[q] = Forget THEN Absent ELSE Overlay(goal, d)[q]]

\* What the database file says; a missing file reads as an empty database.
Recorded_NoDefault(file) == file
Recorded(file) == IF file = None THEN [q \in Path |-> Absent] ELSE file
=============================================================================
