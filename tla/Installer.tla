----------------------------- MODULE Installer ------------------------------
(***************************************************************************)
(* vfos/installer.py: execute() and load_media(), with configure() and     *)
(* install_boot(), beside what the kernel of the live system holds: the    *)
(* mounts on the target directory, the LUKS mapping, and the live trees    *)
(* bound into the target.  A step is one external command or one update    *)
(* of the bookkeeping that the cleanup relies on (`mounted', `mapper'), so *)
(* that a command can fail, and an interrupt or a kill come, between any   *)
(* two.  Calls follow one another, as a user retries.                      *)
(***************************************************************************)
EXTENDS DiskLayout, FiniteSets

CONSTANTS
  Tree,       \* dev, proc, sys and run
  SharedTree, \* those the live system mounts shared
  None,
  MaxCalls,   \* bound on calls of execute()
  MaxFaults   \* bound on failures, interrupts and kills of different kinds

ASSUME InstallerAssumption ==
  /\ Tree # {} /\ IsFiniteSet(Tree) /\ SharedTree \subseteq Tree
  /\ None \notin Tree /\ Tree \cap {"root", "efi"} = {}
  /\ MaxCalls \in Nat /\ MaxFaults \in Nat

Point == Tree \cup {"root", "efi"}

VARIABLES
  \* the live system
  mounts,     \* the points of the target something is mounted on
  shared,     \* the bound trees whose unmounts still reach the live tree
  host,       \* the live trees that have all their submounts
  mapping,    \* whether the mapped device exists
  directory,  \* whether the mount directory of the latest call exists
  opened,     \* whether its packages are open
  disk,       \* the call that last wrote a partition table to the disk, or 0
  \* execute()
  input,      \* what the latest call was given
  pc,
  left,       \* the points it has still to mount
  point,      \* the one it is mounting
  mounted,    \* its list of mounts to undo
  mapper,     \* its flag of a mapping to close
  stuck,      \* whether cleanup_errors has an entry
  result,
  \* bounds and history
  calls,
  faults      \* every fault so far: its kind, and where it struck

live == <<mounts, shared, host, mapping, directory, opened, disk>>
local == <<left, point, mounted, mapper, stuck>>
vars == <<live, input, pc, local, result, calls, faults>>

\* The try block from line 242, and the one within it from line 279.
Outer == {"check", "partition", "settle", "format_esp", "luks_format", "open", "note_mapper",
          "luks_uuid", "format_root", "mkdtemp", "enter"}
Inner == {"mount", "note", "note_bind", "slave", "install", "configure", "add_key", "install_boot"}
Body == Outer \cup Inner
Cleanup == {"unmount", "rmdir", "close", "close_packages"}
Labels == {"idle", "load"} \cup Body \cup Cleanup

\* Commands that change neither mounts nor mappings, configure() and
\* install_boot() included.
Plain == {"partition", "settle", "format_esp", "luks_format", "luks_uuid", "format_root", "enter",
          "install", "configure", "add_key", "install_boot"}

\* Steps of the program itself, which only an interrupt can stop.
NoCommand == {"load", "check", "enter", "note_mapper", "note", "note_bind"}

Kinds == {"fail", "interrupt", "kill"}

TypeOK ==
  /\ mounts \subseteq Point /\ shared \subseteq Tree \cap mounts
  /\ host \subseteq Tree
  /\ {mapping, directory, opened, mapper, stuck} \subseteq BOOLEAN
  /\ disk \in 0..MaxCalls
  /\ input \in [encrypted : BOOLEAN, confirmed : BOOLEAN, qualified : BOOLEAN]
  /\ pc \in Labels
  /\ left \subseteq Point /\ point \in Point \cup {None}
  /\ pc = "slave" => point \in Tree
  /\ mounted \subseteq Point
  /\ result \in {"running", "complete", "failed"}
  /\ calls \in 0..MaxCalls
  /\ faults \subseteq Kinds \X Labels

Init ==
  /\ mounts = {} /\ shared = {} /\ host = Tree
  /\ mapping = FALSE /\ directory = FALSE /\ opened = FALSE
  /\ disk = 0
  /\ input = [encrypted |-> FALSE, confirmed |-> FALSE, qualified |-> FALSE]
  /\ pc = "idle"
  /\ left = {} /\ point = None /\ mounted = {} /\ mapper = FALSE /\ stuck = FALSE
  /\ result = "failed"
  /\ calls = 0 /\ faults = {}
-----------------------------------------------------------------------------
(* Before the first write.                                                 *)

\* A confirmation other than "ERASE " and the disk ends the call at once.
Confirmed(given) == given.confirmed

Call ==
  /\ pc = "idle" /\ calls < MaxCalls
  /\ calls' = calls + 1
  /\ input' \in [encrypted : BOOLEAN, confirmed : BOOLEAN, qualified : BOOLEAN]
  /\ IF Confirmed(input')
     THEN pc' = "load" /\ result' = "running"
     ELSE pc' = "idle" /\ result' = "failed"
  /\ left' = Point /\ point' = None /\ mounted' = {} /\ mapper' = FALSE /\ stuck' = FALSE
  /\ directory' = FALSE /\ opened' = FALSE
  /\ UNCHANGED <<mounts, shared, host, mapping, disk, faults>>

\* load_media: qualified media, whose closure installs into a staging root.
Load ==
  /\ pc = "load"
  /\ IF input.qualified
     THEN opened' = TRUE /\ pc' = "check" /\ UNCHANGED result
     ELSE opened' = FALSE /\ pc' = "idle" /\ result' = "failed"
  /\ UNCHANGED <<mounts, shared, host, mapping, directory, disk, input, local, calls, faults>>

\* An exception goes to the finally clause of its try block.
Raise ==
  /\ pc' = CASE pc = "load" -> "idle" [] pc \in Outer -> "close" [] pc \in Inner -> "unmount"
  /\ result' = "failed"

\* inventory() leaves out a disk with a mounted partition or a mapping on it.
InUse_Ignored == FALSE
InUse == mounts \cap {"root", "efi"} # {} \/ mapping

\* The tools, the identity of the disk, its use, and the name of the mapping.
Check ==
  /\ pc = "check"
  /\ \/ Raise
     \/ /\ ~InUse /\ ~mapping
        /\ pc' = "partition" /\ UNCHANGED result
  /\ UNCHANGED <<live, input, local, calls, faults>>
-----------------------------------------------------------------------------
(* The commands.                                                           *)

\* sfdisk writes the partition table.
Written == IF pc = "partition" THEN calls ELSE disk

After(step) ==
  CASE step = "partition"    -> "settle"
    [] step = "settle"       -> "format_esp"
    [] step = "format_esp"   -> IF input.encrypted THEN "luks_format" ELSE "format_root"
    [] step = "luks_format"  -> "open"
    [] step = "luks_uuid"    -> "format_root"
    [] step = "format_root"  -> "mkdtemp"
    [] step = "enter"        -> "mount"
    [] step = "install"      -> "mount"
    [] step = "configure"    -> IF input.encrypted THEN "add_key" ELSE "install_boot"
    [] step = "add_key"      -> "install_boot"
    [] step = "install_boot" -> "unmount"

Run ==
  /\ pc \in Plain
  /\ pc' = After(pc)
  /\ disk' = Written
  /\ UNCHANGED <<mounts, shared, host, mapping, directory, opened, input, local, result, calls, faults>>

\* cryptsetup open, and only then mapper = True.
Open ==
  /\ pc = "open"
  /\ mapping' = TRUE
  /\ pc' = "note_mapper"
  /\ UNCHANGED <<mounts, shared, host, directory, opened, disk, input, local, result, calls, faults>>

MapperNoted_Never == FALSE
MapperNoted == TRUE

NoteMapper ==
  /\ pc = "note_mapper"
  /\ mapper' = MapperNoted
  /\ pc' = "luks_uuid"
  /\ UNCHANGED <<live, input, left, point, mounted, stuck, result, calls, faults>>

MakeDirectory ==
  /\ pc = "mkdtemp"
  /\ directory' = TRUE
  /\ pc' = "enter"
  /\ UNCHANGED <<mounts, shared, host, mapping, opened, disk, input, local, result, calls, faults>>

\* The root, /efi, and then the live trees.
IsNext(p) ==
  /\ p \in left
  /\ p = "efi" => "root" \notin left
  /\ p \in Tree => left \subseteq Tree

\* A bind of a shared tree is a peer of it.
Mount ==
  /\ pc = "mount"
  /\ \E p \in Point :
       /\ IsNext(p)
       /\ point' = p
       /\ mounts' = mounts \cup {p}
       /\ shared' = shared \cup ({p} \cap SharedTree)
       /\ pc' = IF p \in Tree THEN "note_bind" ELSE "note"
  /\ UNCHANGED <<host, mapping, directory, opened, disk, input, left, mounted, mapper, stuck, result, calls, faults>>

\* mounted.append
Noted_NotRoot(p) == mounted \cup ({p} \ {"root"})
Noted(p) == mounted \cup {p}

AfterNote_Slave(p) == IF p = "root" THEN "install" ELSE "slave"
AfterNote(p) ==
  CASE p = "root" -> "install" [] p = "efi" -> "mount" [] p \in Tree -> "slave"

Note ==
  /\ pc \in {"note", "note_bind"}
  /\ mounted' = Noted(point)
  /\ left' = left \ {point}
  /\ pc' = AfterNote(point)
  /\ UNCHANGED <<live, input, point, mapper, stuck, result, calls, faults>>

\* mount --make-rslave
Slaved_TopOnly(t) == shared
Slaved(t) == shared \ {t}

MakeSlave ==
  /\ pc = "slave"
  /\ shared' = Slaved(point)
  /\ pc' = IF left = {} THEN "configure" ELSE "mount"
  /\ UNCHANGED <<mounts, host, mapping, directory, opened, disk, input, local, result, calls, faults>>
-----------------------------------------------------------------------------
(* The finally clauses.                                                    *)

\* reversed(mounted)
IsLast(p) ==
  /\ p \in mounted
  /\ p = "efi" => mounted \cap Tree = {}
  /\ p = "root" => mounted = {"root"}

\* umount --recursive p
Under(p) == IF p = "root" THEN Point ELSE {p}

Unmount ==
  /\ pc = "unmount"
  /\ \E p \in Point :
       /\ IsLast(p)
       /\ mounted' = mounted \ {p}
       /\ mounts' = mounts \ Under(p)
       /\ shared' = shared \ Under(p)
       /\ host' = host \ (shared \cap Under(p))
  /\ UNCHANGED <<mapping, directory, opened, disk, input, pc, left, point, mapper, stuck, result, calls, faults>>

\* It stops half way: what lies below is gone in part.
Unmounted(p) ==
  /\ \E gone \in SUBSET (Under(p) \ {p}), hit \in SUBSET (Under(p) \cap shared) :
       /\ shared \cap gone \subseteq hit
       /\ mounts' = mounts \ gone
       /\ shared' = shared \ gone
       /\ host' = host \ hit
  /\ UNCHANGED <<mapping, directory, opened, disk>>

AllUnmounted ==
  /\ pc = "unmount" /\ mounted = {}
  /\ IF stuck
     THEN pc' = "close" /\ result' = "failed"
     ELSE pc' = "rmdir" /\ UNCHANGED result
  /\ UNCHANGED <<live, input, local, calls, faults>>

\* rmdir of a directory something is mounted on raises.
RemoveDirectory ==
  /\ pc = "rmdir"
  /\ IF "root" \in mounts
     THEN UNCHANGED directory /\ result' = "failed"
     ELSE directory' = FALSE /\ UNCHANGED result
  /\ pc' = "close"
  /\ UNCHANGED <<mounts, shared, host, mapping, opened, disk, input, local, calls, faults>>

\* cryptsetup close fails on a mapping in use, and then the packages stay open.
Close ==
  /\ pc = "close"
  /\ IF mapper /\ "root" \in mounts
     THEN pc' = "idle" /\ result' = "failed" /\ UNCHANGED mapping
     ELSE pc' = "close_packages" /\ mapping' = (mapping /\ ~mapper) /\ UNCHANGED result
  /\ UNCHANGED <<mounts, shared, host, directory, opened, disk, input, local, calls, faults>>

ClosePackages ==
  /\ pc = "close_packages"
  /\ opened' = FALSE
  /\ pc' = "idle"
  /\ result' = IF result = "running" THEN "complete" ELSE result
  /\ UNCHANGED <<mounts, shared, host, mapping, directory, disk, input, local, calls, faults>>
-----------------------------------------------------------------------------
Strike(kind) ==
  /\ Cardinality(faults) < MaxFaults
  /\ faults' = faults \cup {<<kind, pc>>}

\* A command fails, or Ctrl-C interrupts it or the program before it.  What
\* fails has changed neither mounts nor mappings, and the disk perhaps.
Stop(kind) ==
  /\ pc \in {"load"} \cup Body
  /\ kind = "fail" => pc \notin NoCommand
  /\ Strike(kind)
  /\ Raise
  /\ disk' \in {disk, Written}
  /\ UNCHANGED <<mounts, shared, host, mapping, directory, opened, input, local, calls>>

\* One umount fails, the loop goes on.
FailUnmount ==
  /\ pc = "unmount"
  /\ Strike("fail")
  /\ \E p \in Point : IsLast(p) /\ mounted' = mounted \ {p} /\ Unmounted(p)
  /\ stuck' = TRUE
  /\ UNCHANGED <<input, pc, left, point, mapper, result, calls>>

FailClose ==
  /\ pc = "close" /\ mapper
  /\ Strike("fail")
  /\ pc' = "idle" /\ result' = "failed"
  /\ UNCHANGED <<live, input, local, calls>>

\* The loop catches no interrupt, and neither does anything after it.
InterruptCleanup ==
  /\ pc \in Cleanup
  /\ Strike("interrupt")
  /\ pc' = IF pc \in {"unmount", "rmdir"} THEN "close" ELSE "idle"
  /\ result' = "failed"
  /\ \/ UNCHANGED live
     \/ pc = "unmount" /\ \E p \in Point : IsLast(p) /\ Unmounted(p)
  /\ UNCHANGED <<input, local, calls>>

Kill ==
  /\ pc # "idle"
  /\ Strike("kill")
  /\ pc' = "idle" /\ result' = "failed"
  /\ UNCHANGED <<live, input, local, calls>>

\* "inspect mounts before reboot": the user unmounts and closes what is left.
Inspect ==
  /\ pc = "idle"
  /\ mounts' = {} /\ shared' = {} /\ host' = host \ shared
  /\ mapping' = FALSE /\ directory' = FALSE
  /\ UNCHANGED <<opened, disk, input, pc, local, result, calls, faults>>

Reboot ==
  /\ pc = "idle"
  /\ mounts' = {} /\ shared' = {} /\ host' = Tree
  /\ mapping' = FALSE /\ directory' = FALSE /\ opened' = FALSE
  /\ UNCHANGED <<disk, input, pc, local, result, calls, faults>>

Next ==
  \/ Call \/ Load \/ Check
  \/ Run \/ Open \/ NoteMapper \/ MakeDirectory \/ Mount \/ Note \/ MakeSlave
  \/ Unmount \/ AllUnmounted \/ RemoveDirectory \/ Close \/ ClosePackages
  \/ Stop("fail") \/ Stop("interrupt") \/ FailUnmount \/ FailClose \/ InterruptCleanup \/ Kill
  \/ Inspect \/ Reboot

Spec == Init /\ [][Next]_vars
-----------------------------------------------------------------------------
Clean == mounts = {} /\ ~mapping /\ ~directory /\ ~opened

\* installer.py:229-258. No call writes to a disk that an earlier one, however
\* it ended, left mounted or mapped, nor without a confirmation and qualified
\* media.
WritesAreGuarded ==
  [][disk' # disk => mounts = {} /\ ~mapping /\ input.confirmed /\ input.qualified]_vars

\* installer.py:309-324. An installation that says it is complete has left
\* nothing behind, whatever went wrong in earlier ones.
CompleteIsClean == pc = "idle" /\ result = "complete" => Clean

\* installer.py:107, 309-324: "unmount and close mappings". If nothing
\* went wrong but commands of the body, nothing is left behind either.
FailureIsClean ==
  pc = "idle" /\ faults \subseteq {"fail"} \X Body => Clean

\* installer.py:289-292, 311-318. The recursive unmounts of the cleanup leave
\* the trees of the live system alone, unless a fault struck between a bind
\* and its make-rslave.
HostMountsSurvive ==
  faults \cap (Kinds \X {"note_bind", "slave"}) = {} => host = Tree

\* installer.py:77-90, boot-and-sessions.md:3-5. The partition table that a call
\* wrote fits, on whichever of the disks that validate() lets through.
LayoutFits == disk # 0 => AllFit

\* installer.py:81, 262, boot-and-sessions.md:3-6. And its EFI partition is large
\* enough for the FAT32 that mkfs.fat is told to make of it.
EspIsFat32 == disk # 0 => AllHaveFat32
=============================================================================
