----------------------------- MODULE KernelUpdate -----------------------------
(***************************************************************************)
(* vfos update-kernel (vfos/kernel.py): regenerate the initramfs of one    *)
(* installed kernel and point the GRUB menu at it.  Nothing locks /boot:   *)
(* several updates may run at once, each may fail or be killed, kernels    *)
(* come and go with the package manager, and the power may fail.           *)
(*                                                                         *)
(* A power loss brings back some boot tree since the last synchronised one *)
(* (XFS logs its metadata in order); data never synchronised may be torn.  *)
(***************************************************************************)
EXTENDS Naturals

CONSTANTS
  Version,    \* kernel versions
  Installed,  \* the kernel the installer set up
  Updater,    \* processes running vfos update-kernel
  MaxBuilds,  \* bound on the runs of dracut
  MaxFaults   \* bound on failures, deaths and power losses

ASSUME KernelAssumption ==
  Installed \in Version /\ MaxBuilds \in Nat /\ MaxFaults \in Nat

VARIABLES
  conf,    \* does 10-vfos.conf hold what VFOS wants?
  menu,    \* the kernel grub.cfg names
  kernels, \* the kernels installed, with their modules
  image,   \* the initramfs of each kernel
  rescue,  \* its .previous copy
  log,     \* the trees a power loss may bring back
  pulled,  \* kernels removed under an update, or under the menu
  builds,  \* runs of dracut so far
  faults,  \* failures, deaths and power losses so far
  pc,      \* where each update is
  ver,     \* the kernel it is about
  new,     \* its temporary initramfs
  src,     \* the image its copyfile has open
  alone    \* no other update of the same kernel ran meanwhile

local == <<pc, ver, new, src, alone>>
tree == <<conf, menu, kernels, image, rescue>>
vars == <<tree, log, pulled, builds, faults, local>>

\* The boot tree as processes see it.
boot == [conf |-> conf, menu |-> menu, kernels |-> kernels, image |-> image, rescue |-> rescue]

File == [build : 0..MaxBuilds, \* which run of dracut wrote it, 0 the installer's
         state : {"absent", "whole", "unfit", "torn", "mixed"},
         safe  : BOOLEAN]      \* are its data on the disk?

NoFile == [build |-> 0, state |-> "absent", safe |-> TRUE]

Tree == [conf : BOOLEAN, menu : Version, kernels : SUBSET Version,
         image : [Version -> File], rescue : [Version -> File]]

\* The labels at which an update synchronises a directory, and what follows.
AfterSync == [confsync |-> "dracut", imagesync |-> "menu"]

Labels == DOMAIN AfterSync \cup
  {"idle", "conf", "dracut", "fsync", "keep", "copy", "replace", "menu", "menusync"}

TypeOK ==
  /\ conf \in BOOLEAN /\ menu \in Version /\ kernels \subseteq Version
  /\ image \in [Version -> File] /\ rescue \in [Version -> File]
  /\ log \subseteq Tree
  /\ pulled \in SUBSET Version
  /\ builds \in 0..MaxBuilds /\ faults \in 0..MaxFaults
  /\ pc \in [Updater -> Labels] /\ ver \in [Updater -> Version]
  /\ new \in [Updater -> File] /\ src \in [Updater -> File]
  /\ alone \in [Updater -> BOOLEAN]

\* What install_boot leaves; 10-vfos.conf may have been edited since.
Init ==
  /\ conf \in BOOLEAN /\ menu = Installed /\ kernels = {Installed}
  /\ image = [v \in Version |-> IF v = Installed THEN [NoFile EXCEPT !.state = "whole"] ELSE NoFile]
  /\ rescue = [v \in Version |-> NoFile]
  /\ log = {boot}
  /\ pulled = {}
  /\ builds = 0 /\ faults = 0
  /\ pc = [u \in Updater |-> "idle"]
  /\ ver = [u \in Updater |-> Installed]
  /\ new = [u \in Updater |-> NoFile] /\ src = [u \in Updater |-> NoFile]
  /\ alone = [u \in Updater |-> TRUE]
-----------------------------------------------------------------------------
Goto(u, label) == pc' = [pc EXCEPT ![u] = label]

\* The locals of an update that has not started, or has ended.
Leave(u) ==
  /\ Goto(u, "idle")
  /\ ver' = [ver EXCEPT ![u] = Installed]
  /\ new' = [new EXCEPT ![u] = NoFile]
  /\ src' = [src EXCEPT ![u] = NoFile]
  /\ alone' = [alone EXCEPT ![u] = TRUE]

\* A change of the tree that no synchronisation has made durable yet.
Logged == log' = log \cup {boot'}

\* Other updates of kernel v under way.
Rivals(u, v) == {w \in Updater \ {u} : pc[w] # "idle" /\ ver[w] = v}

\* Is one of these updates writing the rescue copy?
Writing(U) == \E w \in U : pc[w] = "copy"

\* The update's checks passed: the kernel and its modules are installed.
Startable_Unchecked == Version
Startable == kernels

Start(u) ==
  /\ pc[u] = "idle"
  /\ \E v \in Startable :
       /\ ver' = [ver EXCEPT ![u] = v]
       /\ alone' = [w \in Updater |->
                      IF w = u THEN Rivals(u, v) = {} ELSE alone[w] /\ w \notin Rivals(u, v)]
  /\ Goto(u, "conf")
  /\ UNCHANGED <<tree, log, pulled, builds, faults, new, src>>

\* replace_text of 10-vfos.conf: the file is whole whenever it is there.
WriteConf(u) ==
  /\ pc[u] = "conf"
  /\ conf' = TRUE
  /\ Goto(u, "confsync")
  /\ UNCHANGED <<menu, kernels, image, rescue, pulled, builds, faults, ver, new, src, alone>>
  /\ Logged

\* sync_dir: every earlier change of the filesystem is durable.
SyncDir(u) ==
  /\ pc[u] \in DOMAIN AfterSync
  /\ log' = {boot}
  /\ Goto(u, AfterSync[pc[u]])
  /\ UNCHANGED <<tree, pulled, builds, faults, ver, new, src, alone>>

\* dracut writes the temporary image; a failure or an empty file is Stop.
Dracut(u) ==
  /\ pc[u] = "dracut" /\ builds < MaxBuilds
  /\ builds' = builds + 1
  /\ new' = [new EXCEPT ![u] = [build |-> builds + 1, safe |-> FALSE,
                                state |-> IF conf THEN "whole" ELSE "unfit"]]
  /\ Goto(u, "fsync")
  /\ UNCHANGED <<tree, log, pulled, faults, ver, src, alone>>

Synced_Not(file) == file
Synced(file) == [file EXCEPT !.safe = TRUE]

Fsync(u) ==
  /\ pc[u] = "fsync"
  /\ new' = [new EXCEPT ![u] = Synced(@)]
  /\ Goto(u, "keep")
  /\ UNCHANGED <<tree, log, pulled, builds, faults, ver, src, alone>>

HasImage_NotKept(v) == image[v].state # "absent" /\ rescue[v].state = "absent"
HasImage(v) == image[v].state # "absent"

\* copyfile opens the current image, if any, and truncates the rescue copy.
Keep(u) ==
  /\ pc[u] = "keep"
  /\ LET v == ver[u] IN
     IF HasImage(v)
     THEN /\ rescue' = [rescue EXCEPT ![v] =
                         [build |-> 0, safe |-> FALSE,
                          state |-> IF Writing(Rivals(u, v)) THEN "mixed" ELSE "torn"]]
          /\ src' = [src EXCEPT ![u] = image[v]]
          /\ Goto(u, "copy")
     ELSE Goto(u, "replace") /\ UNCHANGED <<rescue, src>>
  /\ UNCHANGED <<conf, menu, kernels, image, pulled, builds, faults, ver, new, alone>>
  /\ Logged

\* copyfile has written its last byte, perhaps among those of a rival's.
Copied(u) ==
  /\ pc[u] = "copy"
  /\ LET v == ver[u]
         copy == [src[u] EXCEPT !.safe = FALSE]
         mess == [build |-> 0, state |-> "mixed", safe |-> FALSE]
     IN \E f \in (IF Writing(Rivals(u, v)) THEN {mess}
                  ELSE IF rescue[v].state = "mixed" THEN {mess, copy} ELSE {copy}) :
          rescue' = [rescue EXCEPT ![v] = f]
  /\ src' = [src EXCEPT ![u] = NoFile]
  /\ Goto(u, "replace")
  /\ UNCHANGED <<conf, menu, kernels, image, pulled, builds, faults, ver, new, alone>>
  /\ Logged

Replace(u) ==
  /\ pc[u] = "replace"
  /\ image' = [image EXCEPT ![ver[u]] = new[u]]
  /\ Goto(u, "imagesync")
  /\ UNCHANGED <<conf, menu, kernels, rescue, pulled, builds, faults, ver, new, src, alone>>
  /\ Logged

\* replace_text of grub.cfg.
SwitchMenu(u) ==
  /\ pc[u] = "menu"
  /\ menu' = ver[u]
  /\ Goto(u, "menusync")
  /\ UNCHANGED <<conf, kernels, image, rescue, pulled, builds, faults, ver, new, src, alone>>
  /\ Logged

Return(u) ==
  /\ pc[u] = "menusync"
  /\ log' = {boot}
  /\ Leave(u)
  /\ UNCHANGED <<tree, pulled, builds, faults>>

\* Any step raises, or the process is killed; the temporary image is lost.
Stop(u) ==
  /\ pc[u] # "idle" /\ faults < MaxFaults
  /\ faults' = faults + 1
  /\ Leave(u)
  /\ UNCHANGED <<tree, log, pulled, builds>>

\* Unsynchronised data of the files T may be lost.
Tear(files, T) ==
  [v \in Version |-> IF v \in T /\ ~files[v].safe
                     THEN [build |-> 0, state |-> "torn", safe |-> TRUE]
                     ELSE [files[v] EXCEPT !.safe = TRUE]]

PowerLoss ==
  /\ faults < MaxFaults
  /\ faults' = faults + 1
  /\ \E t \in log, I, R \in SUBSET Version :
       /\ conf' = t.conf /\ menu' = t.menu /\ kernels' = t.kernels
       /\ image' = Tear(t.image, I) /\ rescue' = Tear(t.rescue, R)
  /\ log' = {boot'}
  /\ pc' = [u \in Updater |-> "idle"]
  /\ ver' = [u \in Updater |-> Installed]
  /\ new' = [u \in Updater |-> NoFile] /\ src' = [u \in Updater |-> NoFile]
  /\ alone' = [u \in Updater |-> TRUE]
  /\ UNCHANGED <<pulled, builds>>

\* A package transaction installs a kernel, or removes one, whatever runs;
\* its own synchronisations make every change before it durable.
Packages(set) ==
  /\ kernels' = set
  /\ UNCHANGED <<conf, menu, image, rescue, builds, faults, local>>
  /\ log' = {boot'}

Install(v) ==
  /\ v \notin kernels
  /\ Packages(kernels \cup {v})
  /\ UNCHANGED pulled

Remove(v) ==
  /\ v \in kernels
  /\ Packages(kernels \ {v})
  /\ pulled' = IF menu = v \/ \E u \in Updater : pc[u] # "idle" /\ ver[u] = v
               THEN pulled \cup {v} ELSE pulled

Step(u) ==
  \/ Start(u) \/ WriteConf(u) \/ SyncDir(u) \/ Dracut(u) \/ Fsync(u) \/ Keep(u)
  \/ Copied(u) \/ Replace(u) \/ SwitchMenu(u) \/ Return(u) \/ Stop(u)

Next ==
  \/ \E u \in Updater : Step(u)
  \/ PowerLoss
  \/ \E v \in Version : Install(v) \/ Remove(v)

Spec == Init /\ [][Next]_vars
-----------------------------------------------------------------------------
\* kernel.py:72-89 ("Switching the menu is last"), boot-and-sessions.md:36-38.
\* The menu names a kernel whose initramfs is whole, was built under the VFOS
\* dracut configuration, and survives a power loss: at every step of any
\* number of updates, and after failures, deaths and power losses.
MenuBoots ==
  /\ image[menu].state = "whole"
  /\ image[menu].safe

\* kernel.py:41-42, 89. The check for the kernel and its modules is old when
\* the menu is switched: the menu names a missing kernel only if that kernel
\* was removed while an update of it ran, or while the menu named it.
MenuHasKernel == menu \in kernels \cup pulled

\* kernel.py:79-86 ("Retain a rescue copy"). An update that no update of the
\* same kernel overlapped replaces an image only when the rescue copy holds
\* exactly that image.
RescueHolds(u) ==
  LET v == ver[u] IN
    \/ image[v].state = "absent"
    \/ /\ rescue[v].state = image[v].state
       /\ rescue[v].build = image[v].build

RescueKept ==
  [][\A u \in Updater :
       pc[u] = "replace" /\ pc'[u] = "imagesync" /\ alone[u] => RescueHolds(u)]_vars
=============================================================================
