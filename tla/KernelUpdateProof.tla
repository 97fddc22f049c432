-------------------------- MODULE KernelUpdateProof --------------------------
(***************************************************************************)
(* For every number of kernels, updates, builds and faults: type           *)
(* correctness, MenuBoots, MenuHasKernel and RescueKept of KernelUpdate.   *)
(***************************************************************************)
EXTENDS KernelUpdate, TLAPS

\* Every tree a power loss may bring back boots.
LogBoots ==
  /\ boot \in log
  /\ \A t \in log :
       /\ \A v \in Version : t.image[v].state \in {"absent", "whole"} /\ t.image[v].safe
       /\ t.image[t.menu].state = "whole"

\* What an update has established when it gets to a label.
Progress ==
  \A u \in Updater :
    /\ pc[u] \notin {"idle", "conf"} => conf
    /\ pc[u] \in {"fsync", "keep", "copy", "replace"} => new[u].state = "whole"
    /\ pc[u] \in {"keep", "copy", "replace"} => new[u].safe
    /\ pc[u] \in {"imagesync", "menu", "menusync"} => image[ver[u]].state = "whole"

\* A kernel that is updated, or that a menu names, is installed or pulled.
KernelsKept ==
  /\ \A u \in Updater : pc[u] # "idle" => ver[u] \in kernels \cup pulled
  /\ \A t \in log : t.menu \in t.kernels \cup pulled

\* An update that is alone has no rivals, and its copy is of the image.
Faithful ==
  \A u \in Updater : pc[u] # "idle" /\ alone[u] =>
    /\ \A w \in Updater \ {u} : pc[w] = "idle" \/ ver[w] # ver[u]
    /\ pc[u] = "copy" =>
         /\ src[u].state = image[ver[u]].state
         /\ src[u].build = image[ver[u]].build
         /\ rescue[ver[u]].state = "torn"
    /\ pc[u] = "replace" => RescueHolds(u)

IInv == TypeOK /\ LogBoots /\ Progress /\ KernelsKept /\ Faithful
-----------------------------------------------------------------------------
\* The initial tree satisfies the invariant.
LEMMA Initially == Init => IInv
<1> USE KernelAssumption DEF Init, Labels, AfterSync
<1> SUFFICES ASSUME Init PROVE IInv
  OBVIOUS
<1>1. NoFile \in File /\ [NoFile EXCEPT !.state = "whole"] \in File
  BY KernelAssumption, 0 \in 0..MaxBuilds DEF NoFile, File
<1>2. image \in [Version -> File] /\ rescue \in [Version -> File]
  BY <1>1
<1>3. boot \in Tree
  BY <1>2 DEF Tree, boot
<1>4. TypeOK
  BY <1>1, <1>2, <1>3 DEF TypeOK
<1>5. LogBoots
  BY DEF LogBoots, boot, NoFile
<1>6. KernelsKept
  BY DEF KernelsKept, boot
<1>7. Progress /\ Faithful
  BY DEF Progress, Faithful
<1> QED
  BY <1>4, <1>5, <1>6, <1>7 DEF IInv

\* A power loss tears only what was not safe.
LEMMA TearTypes ==
  ASSUME NEW files \in [Version -> File], NEW T \in SUBSET Version
  PROVE  /\ Tear(files, T) \in [Version -> File]
         /\ \A v \in Version : files[v].safe =>
              Tear(files, T)[v].state = files[v].state /\ Tear(files, T)[v].safe
<1>1. ASSUME NEW v \in Version
      PROVE  [files[v] EXCEPT !.safe = TRUE] \in File
  BY DEF File
<1>2. [build |-> 0, state |-> "torn", safe |-> TRUE] \in File
  BY KernelAssumption DEF File
<1>3. Tear(files, T) \in [Version -> File]
  BY <1>1, <1>2 DEF Tear
<1>4. ASSUME NEW v \in Version, files[v].safe
      PROVE  Tear(files, T)[v].state = files[v].state /\ Tear(files, T)[v].safe
  <2>1. Tear(files, T)[v] = [files[v] EXCEPT !.safe = TRUE]
    BY <1>4 DEF Tear
  <2> QED
    BY <2>1 DEF File
<1> QED
  BY <1>3, <1>4

\* Each step keeps the types.
LEMMA TypeStep ==
  ASSUME TypeOK, [Next]_vars
  PROVE  TypeOK'
<1> USE KernelAssumption DEF TypeOK, File, NoFile, Goto, Labels, AfterSync, tree, local
<1>1. ASSUME NEW u \in Updater, Start(u) PROVE TypeOK'
  <2>1. PICK v \in kernels :
          /\ ver' = [ver EXCEPT ![u] = v]
          /\ alone' = [w \in Updater |->
                         IF w = u THEN Rivals(u, v) = {} ELSE alone[w] /\ w \notin Rivals(u, v)]
    BY <1>1 DEF Start, Startable
  <2>2. \A w \in Updater : (IF w = u THEN Rivals(u, v) = {}
                              ELSE alone[w] /\ w \notin Rivals(u, v)) \in BOOLEAN
    OBVIOUS
  <2>3. ver' \in [Updater -> Version] /\ alone' \in [Updater -> BOOLEAN]
    BY <2>1, <2>2
  <2> QED
    BY <1>1, <2>3 DEF Start
<1>2. ASSUME NEW u \in Updater, WriteConf(u) PROVE TypeOK'
  <2>1. /\ conf' \in BOOLEAN /\ menu' \in Version /\ kernels' \subseteq Version
        /\ image' \in [Version -> File] /\ rescue' \in [Version -> File]
    BY <1>2 DEF WriteConf
  <2>2. boot' \in Tree
    BY <2>1 DEF Tree, boot
  <2>3. log' \subseteq Tree
    BY <1>2, <2>2 DEF WriteConf, Logged
  <2> QED
    BY <1>2, <2>1, <2>3 DEF WriteConf
<1>3. ASSUME NEW u \in Updater, SyncDir(u) PROVE TypeOK'
  BY <1>3 DEF SyncDir, boot, Tree
<1>4. ASSUME NEW u \in Updater, Dracut(u) PROVE TypeOK'
  BY <1>4 DEF Dracut, boot
<1>5. ASSUME NEW u \in Updater, Fsync(u) PROVE TypeOK'
  BY <1>5 DEF Fsync, Synced, boot
<1>6. ASSUME NEW u \in Updater, Keep(u) PROVE TypeOK'
  <2> DEFINE f == [build |-> 0, safe |-> FALSE,
                   state |-> IF Writing(Rivals(u, ver[u])) THEN "mixed" ELSE "torn"]
  <2>1. f \in File
    OBVIOUS
  <2>2. rescue' = rescue \/ rescue' = [rescue EXCEPT ![ver[u]] = f]
    BY <1>6 DEF Keep
  <2>3. rescue' \in [Version -> File]
    BY <2>1, <2>2
  <2>4. UNCHANGED <<conf, menu, kernels, image>>
    BY <1>6 DEF Keep
  <2>5. boot' \in Tree
    BY <2>3, <2>4 DEF Tree, boot
  <2>6. log' \subseteq Tree
    BY <1>6, <2>5 DEF Keep, Logged
  <2>7. /\ src' = src \/ src' = [src EXCEPT ![u] = image[ver[u]]]
        /\ pc' = [pc EXCEPT ![u] = "copy"] \/ pc' = [pc EXCEPT ![u] = "replace"]
    BY <1>6 DEF Keep
  <2>8. src' \in [Updater -> File] /\ pc' \in [Updater -> Labels]
    BY <2>7
  <2> QED
    BY <1>6, <2>3, <2>4, <2>6, <2>8 DEF Keep
<1>7. ASSUME NEW u \in Updater, Copied(u) PROVE TypeOK'
  <2>1. PICK f : /\ f = [build |-> 0, state |-> "mixed", safe |-> FALSE]
                    \/ f = [src[u] EXCEPT !.safe = FALSE]
                 /\ rescue' = [rescue EXCEPT ![ver[u]] = f]
    BY <1>7 DEF Copied
  <2>2. f \in File
    <3>1. CASE f = [build |-> 0, state |-> "mixed", safe |-> FALSE]
      BY <3>1
    <3>2. CASE f = [src[u] EXCEPT !.safe = FALSE]
      <4>1. src[u] \in File
        OBVIOUS
      <4> QED
        BY <3>2, <4>1
    <3> QED
      BY <2>1, <3>1, <3>2
  <2>3. rescue' \in [Version -> File]
    BY <2>1, <2>2
  <2>4. UNCHANGED <<conf, menu, kernels, image>>
    BY <1>7 DEF Copied
  <2>5. boot' \in Tree
    BY <2>3, <2>4 DEF Tree, boot
  <2>6. log' \subseteq Tree
    BY <1>7, <2>5 DEF Copied, Logged
  <2>7. src' \in [Updater -> File] /\ pc' \in [Updater -> Labels]
    BY <1>7 DEF Copied
  <2> QED
    BY <1>7, <2>3, <2>4, <2>6, <2>7 DEF Copied
<1>8. ASSUME NEW u \in Updater, Replace(u) PROVE TypeOK'
  <2>1. /\ conf' \in BOOLEAN /\ menu' \in Version /\ kernels' \subseteq Version
        /\ image' \in [Version -> File] /\ rescue' \in [Version -> File]
    BY <1>8 DEF Replace
  <2>2. boot' \in Tree
    BY <2>1 DEF Tree, boot
  <2>3. log' \subseteq Tree
    BY <1>8, <2>2 DEF Replace, Logged
  <2> QED
    BY <1>8, <2>1, <2>3 DEF Replace
<1>9. ASSUME NEW u \in Updater, SwitchMenu(u) PROVE TypeOK'
  <2>1. /\ conf' \in BOOLEAN /\ menu' \in Version /\ kernels' \subseteq Version
        /\ image' \in [Version -> File] /\ rescue' \in [Version -> File]
    BY <1>9 DEF SwitchMenu
  <2>2. boot' \in Tree
    BY <2>1 DEF Tree, boot
  <2>3. log' \subseteq Tree
    BY <1>9, <2>2 DEF SwitchMenu, Logged
  <2> QED
    BY <1>9, <2>1, <2>3 DEF SwitchMenu
<1>10. ASSUME NEW u \in Updater, Return(u) PROVE TypeOK'
  BY <1>10 DEF Return, Leave, boot, Tree
<1>11. ASSUME NEW u \in Updater, Stop(u) PROVE TypeOK'
  BY <1>11 DEF Stop, Leave, boot
<1>12. CASE PowerLoss
  <2>1. PICK t \in log, I \in SUBSET Version, R \in SUBSET Version :
          /\ conf' = t.conf /\ menu' = t.menu /\ kernels' = t.kernels
          /\ image' = Tear(t.image, I) /\ rescue' = Tear(t.rescue, R)
    BY <1>12 DEF PowerLoss
  <2>2. /\ t.conf \in BOOLEAN /\ t.menu \in Version /\ t.kernels \subseteq Version
        /\ t.image \in [Version -> File] /\ t.rescue \in [Version -> File]
    BY DEF Tree
  <2>3. image' \in [Version -> File] /\ rescue' \in [Version -> File]
    BY <2>1, <2>2, TearTypes
  <2>4. boot' \in Tree
    BY <2>1, <2>2, <2>3 DEF Tree, boot
  <2>5. log' \subseteq Tree
    BY <1>12, <2>4 DEF PowerLoss
  <2> QED
    BY <1>12, <2>1, <2>2, <2>3, <2>5 DEF PowerLoss
<1>13. ASSUME NEW v \in Version, Install(v) PROVE TypeOK'
  BY <1>13 DEF Install, Packages, boot, Tree
<1>14. ASSUME NEW v \in Version, Remove(v) PROVE TypeOK'
  BY <1>14 DEF Remove, Packages, boot, Tree
<1>15. CASE UNCHANGED vars
  BY <1>15 DEF vars, boot
<1> QED
  BY <1>1, <1>2, <1>3, <1>4, <1>5, <1>6, <1>7, <1>8, <1>9, <1>10, <1>11, <1>12, <1>13, <1>14, <1>15 DEF Next, Step

\* Only synchronised, whole images reach the tree, the menu after them.
LEMMA LogStep ==
  ASSUME TypeOK, LogBoots, Progress, [Next]_vars
  PROVE  LogBoots'
<1> USE KernelAssumption DEF TypeOK, File, Tree, LogBoots, Progress, Goto, Labels, AfterSync, tree, local
<1>1. ASSUME NEW u \in Updater, Start(u) PROVE LogBoots'
  BY <1>1 DEF Start, Startable, Rivals, boot
<1>2. ASSUME NEW u \in Updater, WriteConf(u) PROVE LogBoots'
  <2>1. boot'.image = image' /\ boot'.menu = menu' /\ boot.image = image /\ boot.menu = menu
    BY DEF boot
  <2> QED
    BY <1>2, <2>1 DEF WriteConf, Logged
<1>3. ASSUME NEW u \in Updater, SyncDir(u) PROVE LogBoots'
  BY <1>3 DEF SyncDir, boot
<1>4. ASSUME NEW u \in Updater, Dracut(u) PROVE LogBoots'
  BY <1>4 DEF Dracut, boot
<1>5. ASSUME NEW u \in Updater, Fsync(u) PROVE LogBoots'
  BY <1>5 DEF Fsync, Synced, boot
<1>6. ASSUME NEW u \in Updater, Keep(u) PROVE LogBoots'
  BY <1>6 DEF Keep, HasImage, Rivals, Writing, Logged, boot
<1>7. ASSUME NEW u \in Updater, Copied(u) PROVE LogBoots'
  BY <1>7 DEF Copied, Rivals, Writing, Logged, boot
<1>8. ASSUME NEW u \in Updater, Replace(u) PROVE LogBoots'
  <2>1. boot'.image = image' /\ boot'.menu = menu' /\ boot.image = image /\ boot.menu = menu
    BY DEF boot
  <2>2. new[u].state = "whole" /\ new[u].safe /\ ver[u] \in Version
    BY <1>8 DEF Replace
  <2>3. /\ image' = [image EXCEPT ![ver[u]] = new[u]] /\ menu' = menu
        /\ log' = log \cup {boot'}
    BY <1>8 DEF Replace, Logged
  <2>4. /\ \A v \in Version : boot'.image[v].state \in {"absent", "whole"} /\ boot'.image[v].safe
        /\ boot'.image[boot'.menu].state = "whole"
    BY <2>1, <2>2, <2>3
  <2> QED
    BY <2>3, <2>4
<1>9. ASSUME NEW u \in Updater, SwitchMenu(u) PROVE LogBoots'
  BY <1>9 DEF SwitchMenu, Logged, boot
<1>10. ASSUME NEW u \in Updater, Return(u) PROVE LogBoots'
  BY <1>10 DEF Return, Leave, boot
<1>11. ASSUME NEW u \in Updater, Stop(u) PROVE LogBoots'
  BY <1>11 DEF Stop, Leave, boot
<1>12. CASE PowerLoss
  BY <1>12 DEF PowerLoss, Tear, boot
<1>13. ASSUME NEW v \in Version, Install(v) PROVE LogBoots'
  BY <1>13 DEF Install, Packages, boot
<1>14. ASSUME NEW v \in Version, Remove(v) PROVE LogBoots'
  BY <1>14 DEF Remove, Packages, boot
<1>15. CASE UNCHANGED vars
  BY <1>15 DEF vars, boot
<1> QED
  BY <1>1, <1>2, <1>3, <1>4, <1>5, <1>6, <1>7, <1>8, <1>9, <1>10, <1>11, <1>12, <1>13, <1>14, <1>15 DEF Next, Step

\* What an update has established stays so.
LEMMA ProgressStep ==
  ASSUME TypeOK, LogBoots, Progress, [Next]_vars
  PROVE  Progress'
<1> USE KernelAssumption DEF TypeOK, File, Tree, NoFile, Progress, Goto, Labels, AfterSync, tree, local
<1>1. ASSUME NEW u \in Updater, Start(u) PROVE Progress'
  BY <1>1 DEF Start, Startable, Rivals, boot
<1>2. ASSUME NEW u \in Updater, WriteConf(u) PROVE Progress'
  BY <1>2 DEF WriteConf, Logged, boot
<1>3. ASSUME NEW u \in Updater, SyncDir(u) PROVE Progress'
  BY <1>3 DEF SyncDir, boot
<1>4. ASSUME NEW u \in Updater, Dracut(u) PROVE Progress'
  BY <1>4 DEF Dracut, boot
<1>5. ASSUME NEW u \in Updater, Fsync(u) PROVE Progress'
  BY <1>5 DEF Fsync, Synced, boot
<1>6. ASSUME NEW u \in Updater, Keep(u) PROVE Progress'
  BY <1>6 DEF Keep, HasImage, Rivals, Writing, Logged, boot
<1>7. ASSUME NEW u \in Updater, Copied(u) PROVE Progress'
  BY <1>7 DEF Copied, Rivals, Writing, Logged, boot
<1>8. ASSUME NEW u \in Updater, Replace(u) PROVE Progress'
  BY <1>8 DEF Replace, Logged, boot
<1>9. ASSUME NEW u \in Updater, SwitchMenu(u) PROVE Progress'
  BY <1>9 DEF SwitchMenu, Logged, boot
<1>10. ASSUME NEW u \in Updater, Return(u) PROVE Progress'
  BY <1>10 DEF Return, Leave, boot
<1>11. ASSUME NEW u \in Updater, Stop(u) PROVE Progress'
  BY <1>11 DEF Stop, Leave, boot
<1>12. CASE PowerLoss
  BY <1>12 DEF PowerLoss, Tear, boot
<1>13. ASSUME NEW v \in Version, Install(v) PROVE Progress'
  BY <1>13 DEF Install, Packages, boot
<1>14. ASSUME NEW v \in Version, Remove(v) PROVE Progress'
  BY <1>14 DEF Remove, Packages, boot
<1>15. CASE UNCHANGED vars
  BY <1>15 DEF vars, boot
<1> QED
  BY <1>1, <1>2, <1>3, <1>4, <1>5, <1>6, <1>7, <1>8, <1>9, <1>10, <1>11, <1>12, <1>13, <1>14, <1>15 DEF Next, Step

\* Only Remove takes a kernel away.
LEMMA KernelsStep ==
  ASSUME TypeOK, LogBoots, KernelsKept, [Next]_vars
  PROVE  KernelsKept'
<1> USE KernelAssumption DEF TypeOK, File, Tree, LogBoots, KernelsKept, Goto, Labels, AfterSync, tree, local
<1>1. ASSUME NEW u \in Updater, Start(u) PROVE KernelsKept'
  BY <1>1 DEF Start, Startable, Rivals, boot
<1>2. ASSUME NEW u \in Updater, WriteConf(u) PROVE KernelsKept'
  <2>1. boot'.menu = menu' /\ boot'.kernels = kernels' /\ boot.kernels = kernels /\ boot.menu = menu
    BY DEF boot
  <2> QED
    BY <1>2, <2>1 DEF WriteConf, Logged
<1>3. ASSUME NEW u \in Updater, SyncDir(u) PROVE KernelsKept'
  BY <1>3 DEF SyncDir, boot
<1>4. ASSUME NEW u \in Updater, Dracut(u) PROVE KernelsKept'
  BY <1>4 DEF Dracut, boot
<1>5. ASSUME NEW u \in Updater, Fsync(u) PROVE KernelsKept'
  BY <1>5 DEF Fsync, Synced, boot
<1>6. ASSUME NEW u \in Updater, Keep(u) PROVE KernelsKept'
  BY <1>6 DEF Keep, HasImage, Rivals, Writing, Logged, boot
<1>7. ASSUME NEW u \in Updater, Copied(u) PROVE KernelsKept'
  BY <1>7 DEF Copied, Rivals, Writing, Logged, boot
<1>8. ASSUME NEW u \in Updater, Replace(u) PROVE KernelsKept'
  BY <1>8 DEF Replace, Logged, boot
<1>9. ASSUME NEW u \in Updater, SwitchMenu(u) PROVE KernelsKept'
  BY <1>9 DEF SwitchMenu, Logged, boot
<1>10. ASSUME NEW u \in Updater, Return(u) PROVE KernelsKept'
  BY <1>10 DEF Return, Leave, boot
<1>11. ASSUME NEW u \in Updater, Stop(u) PROVE KernelsKept'
  BY <1>11 DEF Stop, Leave, boot
<1>12. CASE PowerLoss
  BY <1>12 DEF PowerLoss, Tear, boot
<1>13. ASSUME NEW v \in Version, Install(v) PROVE KernelsKept'
  BY <1>13 DEF Install, Packages, boot
<1>14. ASSUME NEW v \in Version, Remove(v) PROVE KernelsKept'
  BY <1>14 DEF Remove, Packages, boot
<1>15. CASE UNCHANGED vars
  BY <1>15 DEF vars, boot
<1> QED
  BY <1>1, <1>2, <1>3, <1>4, <1>5, <1>6, <1>7, <1>8, <1>9, <1>10, <1>11, <1>12, <1>13, <1>14, <1>15 DEF Next, Step

\* No other kernel's update touches the image or its rescue copy.
LEMMA FaithfulStep ==
  ASSUME TypeOK, Faithful, [Next]_vars
  PROVE  Faithful'
<1> USE KernelAssumption DEF TypeOK, File, Tree, NoFile, Faithful, RescueHolds, Goto, Labels, AfterSync, tree, local
<1>1. ASSUME NEW u \in Updater, Start(u) PROVE Faithful'
  <2>1. PICK v \in kernels :
          /\ ver' = [ver EXCEPT ![u] = v]
          /\ alone' = [w \in Updater |->
                         IF w = u THEN Rivals(u, v) = {} ELSE alone[w] /\ w \notin Rivals(u, v)]
    BY <1>1 DEF Start, Startable
  <2>2. pc' = [pc EXCEPT ![u] = "conf"] /\ UNCHANGED <<tree, src>>
    BY <1>1 DEF Start
  <2>3. ASSUME NEW x \in Updater, pc'[x] # "idle", alone'[x]
        PROVE  \A w \in Updater \ {x} : pc'[w] = "idle" \/ ver'[w] # ver'[x]
    <3>1. CASE x = u
      <4>1. Rivals(u, v) = {}
        BY <2>1, <2>3, <3>1
      <4>2. /\ ver'[u] = v
            /\ \A w \in Updater \ {u} : pc'[w] = pc[w] /\ ver'[w] = ver[w]
        BY <2>1, <2>2
      <4> QED
        BY <3>1, <4>1, <4>2 DEF Rivals
    <3>2. CASE x # u
      <4>1. alone[x] /\ x \notin Rivals(u, v) /\ pc[x] # "idle" /\ ver'[x] = ver[x]
        BY <2>1, <2>2, <2>3, <3>2
      <4>2. ver[x] # v
        BY <3>2, <4>1 DEF Rivals
      <4> QED
        BY <2>1, <2>2, <4>1, <4>2
    <3> QED
      BY <3>1, <3>2
  <2>4. ASSUME NEW x \in Updater, alone'[x], pc'[x] \in {"copy", "replace"}
        PROVE  x # u /\ alone[x] /\ pc[x] = pc'[x] /\ ver'[x] = ver[x]
    BY <2>1, <2>2, <2>4
  <2> QED
    BY <2>2, <2>3, <2>4
<1>2. ASSUME NEW u \in Updater, WriteConf(u) PROVE Faithful'
  BY <1>2 DEF WriteConf, Logged, boot
<1>3. ASSUME NEW u \in Updater, SyncDir(u) PROVE Faithful'
  BY <1>3 DEF SyncDir, boot
<1>4. ASSUME NEW u \in Updater, Dracut(u) PROVE Faithful'
  BY <1>4 DEF Dracut, boot
<1>5. ASSUME NEW u \in Updater, Fsync(u) PROVE Faithful'
  BY <1>5 DEF Fsync, Synced, boot
<1>6. ASSUME NEW u \in Updater, Keep(u) PROVE Faithful'
  <2>1. /\ UNCHANGED <<image, ver, alone>>
        /\ \A x \in Updater \ {u} : pc'[x] = pc[x] /\ src'[x] = src[x]
        /\ \A v \in Version : v # ver[u] => rescue'[v] = rescue[v]
        /\ pc[u] # "idle"
    BY <1>6 DEF Keep
  <2>2. CASE ~HasImage(ver[u])
    BY <1>6, <2>1, <2>2 DEF Keep, HasImage
  <2>3. CASE HasImage(ver[u])
    <3>1. alone[u] => ~Writing(Rivals(u, ver[u]))
      BY <1>6 DEF Keep, Rivals, Writing
    <3>2. /\ pc'[u] = "copy" /\ src'[u] = image[ver[u]]
          /\ alone[u] => rescue'[ver[u]].state = "torn"
      BY <1>6, <2>3, <3>1 DEF Keep
    <3> QED
      BY <2>1, <3>2
  <2> QED
    BY <2>2, <2>3
<1>7. ASSUME NEW u \in Updater, Copied(u) PROVE Faithful'
  BY <1>7 DEF Copied, Rivals, Writing, Logged, boot
<1>8. ASSUME NEW u \in Updater, Replace(u) PROVE Faithful'
  BY <1>8 DEF Replace, Logged, boot
<1>9. ASSUME NEW u \in Updater, SwitchMenu(u) PROVE Faithful'
  BY <1>9 DEF SwitchMenu, Logged, boot
<1>10. ASSUME NEW u \in Updater, Return(u) PROVE Faithful'
  BY <1>10 DEF Return, Leave, boot
<1>11. ASSUME NEW u \in Updater, Stop(u) PROVE Faithful'
  BY <1>11 DEF Stop, Leave, boot
<1>12. CASE PowerLoss
  BY <1>12 DEF PowerLoss, Tear, boot
<1>13. ASSUME NEW v \in Version, Install(v) PROVE Faithful'
  BY <1>13 DEF Install, Packages, boot
<1>14. ASSUME NEW v \in Version, Remove(v) PROVE Faithful'
  BY <1>14 DEF Remove, Packages, boot
<1>15. CASE UNCHANGED vars
  BY <1>15 DEF vars, boot
<1> QED
  BY <1>1, <1>2, <1>3, <1>4, <1>5, <1>6, <1>7, <1>8, <1>9, <1>10, <1>11, <1>12, <1>13, <1>14, <1>15 DEF Next, Step

\* The invariant holds throughout.
LEMMA Invariance == Spec => []IInv
<1>1. IInv /\ [Next]_vars => IInv'
  BY TypeStep, LogStep, ProgressStep, KernelsStep, FaithfulStep DEF IInv
<1> QED
  BY Initially, <1>1, PTL DEF Spec

\* Type correctness of KernelUpdate.
THEOREM TypeCorrect == Spec => []TypeOK
<1>1. IInv => TypeOK
  BY DEF IInv
<1> QED
  BY Invariance, <1>1, PTL

\* kernel.py:88. However many updates, failures, deaths and power losses: the
\* image of the kernel in the menu is whole and durable.
THEOREM MenuAlwaysBoots == Spec => []MenuBoots
<1>1. IInv => MenuBoots
  BY DEF IInv, LogBoots, MenuBoots, boot, TypeOK
<1> QED
  BY Invariance, <1>1, PTL

\* kernel.py:41. The kernel in the menu is installed, or was removed under an
\* update of it or under the menu.
THEOREM MenuAlwaysHasKernel == Spec => []MenuHasKernel
<1>1. IInv => MenuHasKernel
  BY DEF IInv, LogBoots, KernelsKept, MenuHasKernel, boot
<1> QED
  BY Invariance, <1>1, PTL

\* kernel.py:82. An update without rivals replaces an image only when the rescue
\* copy holds it.
THEOREM RescueAlwaysKept == Spec => RescueKept
<1>1. IInv => \A u \in Updater : pc[u] = "replace" /\ alone[u] => RescueHolds(u)
  BY DEF IInv, Faithful
<1>2. IInv /\ [Next]_vars =>
        [\A u \in Updater :
           pc[u] = "replace" /\ pc'[u] = "imagesync" /\ alone[u] => RescueHolds(u)]_vars
  BY <1>1
<1> QED
  BY Invariance, <1>2, PTL DEF Spec, RescueKept
=============================================================================
