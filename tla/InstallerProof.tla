--------------------------- MODULE InstallerProof ---------------------------
(***************************************************************************)
(* What an installation promises, for any live trees and any number of     *)
(* calls and faults.  Two facts are accounted for at every label: what the *)
(* program has recorded, and what the kernel holds.  They agree as long as *)
(* a call is running, or nothing but a command of the body has ever failed *)
(* (`InOrder').                                                            *)
(***************************************************************************)
EXTENDS Installer, TLAPS

\* Only commands of the body have failed so far.
PlainFaults == faults \subseteq {"fail"} \X Body

\* No fault has met a bound tree that was not yet a slave.
NoneExposed == faults \cap (Kinds \X {"note_bind", "slave"}) = {}

NotMapped == {"load", "check", "partition", "settle", "format_esp", "luks_format", "open"}
NoDirectory == NotMapped \cup {"note_mapper", "luks_uuid", "format_root", "mkdtemp"}

\* Where a call stands, whatever the earlier ones left.
Progress ==
  /\ pc # "idle" => input.confirmed
  /\ pc \in Body \cup Cleanup => input.qualified
  /\ pc \in {"load"} \cup Body => result = "running"
  /\ pc # "idle" => result # "complete"
  /\ pc \in {"load"} \cup Outer => left = Point /\ mounted = {}
  /\ pc \in NotMapped => ~mapper
  /\ pc \in NoDirectory => ~directory

\* Nothing is mounted below a root that is not.
RootIsBase ==
  /\ mounts # {} => "root" \in mounts
  /\ pc \in Inner /\ "root" \notin left => "root" \in mounts
  /\ pc \in {"note", "note_bind"} => point \in mounts

InOrder ==
  \/ result = "running" /\ pc \notin {"load", "check"}
  \/ pc = "idle" /\ result = "complete"
  \/ PlainFaults

Noting == IF pc \in {"note", "note_bind"} THEN {point} ELSE {}

Accounted ==
  InOrder =>
    /\ pc \notin Inner \cup {"unmount"} => mounts = {}
    /\ pc \in Inner \cup {"unmount"} /\ ~stuck => mounts = mounted \cup Noting
    /\ pc \in NotMapped \cup {"idle", "close_packages"} => ~mapping
    /\ pc \notin NotMapped \cup {"idle", "close_packages", "note_mapper"} => mapping = mapper
    /\ pc = "note_mapper" => mapping
    /\ pc \in NoDirectory \cup {"idle", "close", "close_packages"} => ~directory
    /\ pc \in {"idle", "load"} => ~opened

NeverStuck == PlainFaults => ~stuck

HostKept ==
  NoneExposed =>
    /\ host = Tree
    /\ shared \subseteq IF pc \in {"note_bind", "slave"} THEN {point} ELSE {}

IInv == TypeOK /\ Progress /\ RootIsBase /\ Accounted /\ NeverStuck /\ HostKept
-----------------------------------------------------------------------------
LEMMA Points ==
  /\ Tree \subseteq Point /\ "root" \in Point /\ "efi" \in Point
  /\ "root" \notin Tree /\ "efi" \notin Tree
BY InstallerAssumption DEF Point

LEMMA TypeStep ==
  ASSUME TypeOK, RootIsBase, [Next]_vars
  PROVE  TypeOK'
<1> USE DEF TypeOK
<1>1. CASE Call
  <2>1. calls' \in 0..MaxCalls
    BY <1>1, InstallerAssumption DEF Call
  <2> QED
    BY <1>1, <2>1 DEF Call, Labels
<1>2. CASE Load
  BY <1>2, Points DEF Load, Labels, Body, Outer, Inner, Cleanup, live, local
<1>3. CASE Check
  BY <1>3, Points DEF Check, Raise, Labels, Body, Outer, Inner, Cleanup, live, local
<1>4. CASE Run
  BY <1>4, Points DEF Run, Plain, After, Written, Labels, Body, Outer, Inner, Cleanup, live, local
<1>5. CASE Open
  BY <1>5, Points DEF Open, Labels, Body, Outer, Inner, Cleanup, live, local
<1>6. CASE NoteMapper
  BY <1>6, Points DEF NoteMapper, MapperNoted, Labels, Body, Outer, Inner, Cleanup, live, local
<1>7. CASE MakeDirectory
  BY <1>7, Points DEF MakeDirectory, Labels, Body, Outer, Inner, Cleanup, live, local
<1>8. CASE Mount
  BY <1>8, Points DEF Mount, IsNext, Labels, Body, Outer, Inner, Cleanup, live, local
<1>9. CASE Note
  <2>1. point \in Point
    BY <1>9 DEF RootIsBase, Note
  <2>2. CASE point \in Tree
    BY <1>9, <2>1, <2>2, Points DEF Note, Noted, AfterNote, Labels, Body, Inner, live
  <2>3. CASE point = "root"
    BY <1>9, <2>1, <2>3, Points DEF Note, Noted, AfterNote, Labels, Body, Inner, live
  <2>4. CASE point = "efi"
    BY <1>9, <2>1, <2>4, Points DEF Note, Noted, AfterNote, Labels, Body, Inner, live
  <2> QED
    BY <2>1, <2>2, <2>3, <2>4 DEF Point
<1>10. CASE MakeSlave
  BY <1>10, Points DEF MakeSlave, Slaved, Labels, Body, Outer, Inner, Cleanup, live, local
<1>11. CASE Unmount
  BY <1>11, Points DEF Unmount, Under, IsLast, Labels, Body, Outer, Inner, Cleanup, live, local
<1>12. CASE AllUnmounted
  BY <1>12, Points DEF AllUnmounted, Labels, Body, Outer, Inner, Cleanup, live, local
<1>13. CASE RemoveDirectory
  BY <1>13, Points DEF RemoveDirectory, Labels, Body, Outer, Inner, Cleanup, live, local
<1>14. CASE Close
  BY <1>14, Points DEF Close, Labels, Body, Outer, Inner, Cleanup, live, local
<1>15. CASE ClosePackages
  BY <1>15, Points DEF ClosePackages, Labels, Body, Outer, Inner, Cleanup, live, local
<1>16. CASE FailUnmount
  BY <1>16, Points DEF FailUnmount, Unmounted, Under, IsLast, Strike, Kinds, Labels, Body, Outer, Inner, Cleanup, live, local
<1>17. CASE FailClose
  BY <1>17, Points DEF FailClose, Strike, Kinds, Labels, Body, Outer, Inner, Cleanup, live, local
<1>18. CASE InterruptCleanup
  BY <1>18, Points DEF InterruptCleanup, Unmounted, Under, IsLast, Strike, Kinds, Labels, Body, Outer, Inner, Cleanup, live, local
<1>19. CASE Kill
  BY <1>19, Points DEF Kill, Strike, Kinds, Labels, Body, Outer, Inner, Cleanup, live, local
<1>20. CASE Inspect
  BY <1>20, Points DEF Inspect, Labels, Body, Outer, Inner, Cleanup, live, local
<1>21. CASE Reboot
  BY <1>21, Points DEF Reboot, Labels, Body, Outer, Inner, Cleanup, live, local
<1>22. ASSUME NEW kind \in Kinds, Stop(kind) PROVE TypeOK'
  <2>1. pc' \in Labels
    BY <1>22 DEF Stop, Raise, Labels, Body, Outer, Inner, Cleanup
  <2>2. pc' # "slave" /\ result' = "failed"
    BY <1>22 DEF Stop, Raise, Body, Outer, Inner
  <2>3. disk' \in 0..MaxCalls
    BY <1>22 DEF Stop, Written
  <2>4. faults' \subseteq Kinds \X Labels
    BY <1>22 DEF Stop, Strike
  <2> QED
    BY <1>22, <2>1, <2>2, <2>3, <2>4 DEF Stop, local
<1>23. CASE UNCHANGED vars
  BY <1>23 DEF vars, live, local
<1> QED
  BY <1>1, <1>2, <1>3, <1>4, <1>5, <1>6, <1>7, <1>8, <1>9, <1>10, <1>11, <1>12, <1>13, <1>14, <1>15, <1>16, <1>17, <1>18, <1>19, <1>20, <1>21, <1>22, <1>23 DEF Next, Kinds

\* What a fault adds to the history.
LEMMA StrikeEffect ==
  ASSUME NEW kind \in Kinds, Strike(kind)
  PROVE  /\ NoneExposed' => NoneExposed /\ pc \notin {"note_bind", "slave"}
         /\ PlainFaults' => PlainFaults /\ kind = "fail" /\ pc \in Body
<1>1. <<kind, pc>> \in faults' /\ faults \subseteq faults'
  BY DEF Strike
<1>2. NoneExposed' => NoneExposed /\ pc \notin {"note_bind", "slave"}
  <2>1. ASSUME NoneExposed', pc \in {"note_bind", "slave"} PROVE FALSE
    <3>1. <<kind, pc>> \in Kinds \X {"note_bind", "slave"}
      BY <2>1
    <3> QED
      BY <1>1, <2>1, <3>1 DEF NoneExposed
  <2> QED
    BY <1>1, <2>1 DEF NoneExposed
<1>3. PlainFaults' => PlainFaults /\ kind = "fail" /\ pc \in Body
  BY <1>1 DEF PlainFaults
<1> QED
  BY <1>2, <1>3

\* Where the bookkeeping of a mount leads.
LEMMA NoteEffect ==
  ASSUME TypeOK, RootIsBase, Note
  PROVE  /\ point \in mounts /\ mounts' = mounts
         /\ pc' \in {"install", "mount", "slave"}
         /\ point \in Tree <=> pc' = "slave"
         /\ point = "root" <=> pc' = "install"
<1>1. point \in mounts /\ point \in Point /\ mounts' = mounts
  BY DEF TypeOK, RootIsBase, Note, live
<1>2. CASE point \in Tree
  BY <1>1, <1>2, Points DEF Note, AfterNote
<1>3. CASE point = "root"
  BY <1>1, <1>3, Points DEF Note, AfterNote
<1>4. CASE point = "efi"
  BY <1>1, <1>4, Points DEF Note, AfterNote
<1> QED
  BY <1>1, <1>2, <1>3, <1>4 DEF Point

LEMMA ProgressStep ==
  ASSUME TypeOK, Progress, RootIsBase, [Next]_vars
  PROVE  Progress'
<1> USE DEF TypeOK, Progress, NotMapped, NoDirectory, Labels, Body, Outer, Inner, Cleanup, live, local
<1>1. CASE Call
  BY <1>1, Points DEF Call, Confirmed
<1>2. CASE Load
  BY <1>2, Points DEF Load
<1>3. CASE Check
  BY <1>3, Points DEF Check, Raise, InUse
<1>4. CASE Run
  BY <1>4, Points DEF Run, Plain, After, Written
<1>5. CASE Open
  BY <1>5, Points DEF Open
<1>6. CASE NoteMapper
  BY <1>6, Points DEF NoteMapper, MapperNoted
<1>7. CASE MakeDirectory
  BY <1>7, Points DEF MakeDirectory
<1>8. CASE Mount
  BY <1>8, Points DEF Mount, IsNext
<1>9. CASE Note
  BY <1>9, NoteEffect DEF Note
<1>10. CASE MakeSlave
  BY <1>10, Points DEF MakeSlave, Slaved
<1>11. CASE Unmount
  BY <1>11, Points DEF Unmount, Under, IsLast
<1>12. CASE AllUnmounted
  BY <1>12, Points DEF AllUnmounted
<1>13. CASE RemoveDirectory
  BY <1>13, Points DEF RemoveDirectory
<1>14. CASE Close
  BY <1>14, Points DEF Close
<1>15. CASE ClosePackages
  BY <1>15, Points DEF ClosePackages
<1>16. CASE FailUnmount
  BY <1>16, Points DEF FailUnmount, Unmounted, Under, IsLast, Strike, Kinds
<1>17. CASE FailClose
  BY <1>17, Points DEF FailClose, Strike, Kinds
<1>18. CASE InterruptCleanup
  BY <1>18, Points DEF InterruptCleanup, Unmounted, Under, IsLast, Strike, Kinds
<1>19. CASE Kill
  BY <1>19, Points DEF Kill, Strike, Kinds
<1>20. CASE Inspect
  BY <1>20, Points DEF Inspect
<1>21. CASE Reboot
  BY <1>21, Points DEF Reboot
<1>22. ASSUME NEW kind \in Kinds, Stop(kind) PROVE Progress'
  BY <1>22, Points DEF Stop, Strike, Raise, Written, Kinds, NoCommand
<1>23. CASE UNCHANGED vars
  BY <1>23 DEF vars
<1> QED
  BY <1>1, <1>2, <1>3, <1>4, <1>5, <1>6, <1>7, <1>8, <1>9, <1>10, <1>11, <1>12, <1>13, <1>14, <1>15, <1>16, <1>17, <1>18, <1>19, <1>20, <1>21, <1>22, <1>23 DEF Next, Kinds

LEMMA RootStep ==
  ASSUME TypeOK, Progress, RootIsBase, [Next]_vars
  PROVE  RootIsBase'
<1> USE DEF TypeOK, Progress, RootIsBase, Labels, Body, Outer, Inner, Cleanup, live, local
<1>1. CASE Call
  BY <1>1, Points DEF Call, Confirmed
<1>2. CASE Load
  BY <1>2, Points DEF Load
<1>3. CASE Check
  BY <1>3, Points DEF Check, Raise, InUse
<1>4. CASE Run
  BY <1>4, Points DEF Run, Plain, After, Written
<1>5. CASE Open
  BY <1>5, Points DEF Open
<1>6. CASE NoteMapper
  BY <1>6, Points DEF NoteMapper, MapperNoted
<1>7. CASE MakeDirectory
  BY <1>7, Points DEF MakeDirectory
<1>8. CASE Mount
  <2>1. PICK p \in Point : IsNext(p) /\ point' = p /\ mounts' = mounts \cup {p} /\ pc = "mount"
    BY <1>8 DEF Mount
  <2>2. left' = left /\ pc' \in {"note", "note_bind"}
    BY <1>8 DEF Mount
  <2>3. "root" \in mounts \/ p = "root"
    BY <2>1, Points DEF IsNext, Point
  <2> QED
    BY <2>1, <2>2, <2>3
<1>9. CASE Note
  BY <1>9, NoteEffect DEF Note
<1>10. CASE MakeSlave
  BY <1>10, Points DEF MakeSlave, Slaved
<1>11. CASE Unmount
  BY <1>11, Points DEF Unmount, Under, IsLast
<1>12. CASE AllUnmounted
  BY <1>12, Points DEF AllUnmounted
<1>13. CASE RemoveDirectory
  BY <1>13, Points DEF RemoveDirectory
<1>14. CASE Close
  BY <1>14, Points DEF Close
<1>15. CASE ClosePackages
  BY <1>15, Points DEF ClosePackages
<1>16. CASE FailUnmount
  BY <1>16, Points DEF FailUnmount, Unmounted, Under, IsLast, Strike, Kinds
<1>17. CASE FailClose
  BY <1>17, Points DEF FailClose, Strike, Kinds
<1>18. CASE InterruptCleanup
  BY <1>18, Points DEF InterruptCleanup, Unmounted, Under, IsLast, Strike, Kinds
<1>19. CASE Kill
  BY <1>19, Points DEF Kill, Strike, Kinds
<1>20. CASE Inspect
  BY <1>20, Points DEF Inspect
<1>21. CASE Reboot
  BY <1>21, Points DEF Reboot
<1>22. ASSUME NEW kind \in Kinds, Stop(kind) PROVE RootIsBase'
  BY <1>22, Points DEF Stop, Strike, Raise, Written, Kinds, NoCommand
<1>23. CASE UNCHANGED vars
  BY <1>23 DEF vars
<1> QED
  BY <1>1, <1>2, <1>3, <1>4, <1>5, <1>6, <1>7, <1>8, <1>9, <1>10, <1>11, <1>12, <1>13, <1>14, <1>15, <1>16, <1>17, <1>18, <1>19, <1>20, <1>21, <1>22, <1>23 DEF Next, Kinds

LEMMA HostStep ==
  ASSUME TypeOK, HostKept, [Next]_vars
  PROVE  HostKept'
<1> USE DEF TypeOK, HostKept, Labels, Body, Outer, Inner, Cleanup, live, local
<1>1. CASE Call
  BY <1>1, Points DEF Call, Confirmed, NoneExposed
<1>2. CASE Load
  BY <1>2, Points DEF Load, NoneExposed
<1>3. CASE Check
  BY <1>3, Points DEF Check, Raise, InUse, NoneExposed
<1>4. CASE Run
  BY <1>4, Points DEF Run, Plain, After, Written, NoneExposed
<1>5. CASE Open
  BY <1>5, Points DEF Open, NoneExposed
<1>6. CASE NoteMapper
  BY <1>6, Points DEF NoteMapper, MapperNoted, NoneExposed
<1>7. CASE MakeDirectory
  BY <1>7, Points DEF MakeDirectory, NoneExposed
<1>8. CASE Mount
  <2>1. PICK p \in Point :
          /\ point' = p /\ shared' = shared \cup ({p} \cap SharedTree)
          /\ pc' = IF p \in Tree THEN "note_bind" ELSE "note"
    BY <1>8 DEF Mount
  <2>2. pc = "mount" /\ host' = host /\ faults' = faults
    BY <1>8 DEF Mount
  <2>3. p \notin Tree => shared' = shared
    BY <2>1, InstallerAssumption
  <2> QED
    BY <2>1, <2>2, <2>3 DEF NoneExposed
<1>9. CASE Note
  BY <1>9, Points DEF Note, Noted, AfterNote, NoneExposed
<1>10. CASE MakeSlave
  BY <1>10, Points DEF MakeSlave, Slaved, NoneExposed
<1>11. CASE Unmount
  BY <1>11, Points DEF Unmount, Under, IsLast, NoneExposed
<1>12. CASE AllUnmounted
  BY <1>12, Points DEF AllUnmounted, NoneExposed
<1>13. CASE RemoveDirectory
  BY <1>13, Points DEF RemoveDirectory, NoneExposed
<1>14. CASE Close
  BY <1>14, Points DEF Close, NoneExposed
<1>15. CASE ClosePackages
  BY <1>15, Points DEF ClosePackages, NoneExposed
<1>16. CASE FailUnmount
  BY <1>16, StrikeEffect DEF FailUnmount, Unmounted, Under, IsLast, Kinds
<1>17. CASE FailClose
  BY <1>17, StrikeEffect DEF FailClose, Kinds
<1>18. CASE InterruptCleanup
  BY <1>18, StrikeEffect DEF InterruptCleanup, Unmounted, Under, IsLast, Kinds
<1>19. CASE Kill
  BY <1>19, StrikeEffect DEF Kill, Kinds
<1>20. CASE Inspect
  BY <1>20, Points DEF Inspect, NoneExposed
<1>21. CASE Reboot
  BY <1>21, Points DEF Reboot, NoneExposed
<1>22. ASSUME NEW kind \in Kinds, Stop(kind) PROVE HostKept'
  BY <1>22, StrikeEffect DEF Stop, Raise, Written, Kinds, NoCommand
<1>23. CASE UNCHANGED vars
  BY <1>23 DEF vars, NoneExposed
<1> QED
  BY <1>1, <1>2, <1>3, <1>4, <1>5, <1>6, <1>7, <1>8, <1>9, <1>10, <1>11, <1>12, <1>13, <1>14, <1>15, <1>16, <1>17, <1>18, <1>19, <1>20, <1>21, <1>22, <1>23 DEF Next, Kinds

LEMMA StuckStep ==
  ASSUME TypeOK, NeverStuck, [Next]_vars
  PROVE  NeverStuck'
<1> USE DEF NeverStuck, Labels, Body, Outer, Inner, Cleanup, live, local
<1>1. CASE Call
  BY <1>1, Points DEF Call, Confirmed, PlainFaults
<1>2. CASE Load
  BY <1>2, Points DEF Load, PlainFaults
<1>3. CASE Check
  BY <1>3, Points DEF Check, Raise, InUse, PlainFaults
<1>4. CASE Run
  BY <1>4, Points DEF Run, Plain, After, Written, PlainFaults
<1>5. CASE Open
  BY <1>5, Points DEF Open, PlainFaults
<1>6. CASE NoteMapper
  BY <1>6, Points DEF NoteMapper, MapperNoted, PlainFaults
<1>7. CASE MakeDirectory
  BY <1>7, Points DEF MakeDirectory, PlainFaults
<1>8. CASE Mount
  BY <1>8, Points DEF Mount, IsNext, PlainFaults
<1>9. CASE Note
  BY <1>9, NoteEffect DEF Note, Noted, PlainFaults
<1>10. CASE MakeSlave
  BY <1>10, Points DEF MakeSlave, Slaved, PlainFaults
<1>11. CASE Unmount
  BY <1>11, Points DEF Unmount, Under, IsLast, PlainFaults
<1>12. CASE AllUnmounted
  BY <1>12, Points DEF AllUnmounted, PlainFaults
<1>13. CASE RemoveDirectory
  BY <1>13, Points DEF RemoveDirectory, PlainFaults
<1>14. CASE Close
  BY <1>14, Points DEF Close, PlainFaults
<1>15. CASE ClosePackages
  BY <1>15, Points DEF ClosePackages, PlainFaults
<1>16. CASE FailUnmount
  BY <1>16, StrikeEffect DEF FailUnmount, Unmounted, Under, IsLast, Kinds
<1>17. CASE FailClose
  BY <1>17, StrikeEffect DEF FailClose, Kinds
<1>18. CASE InterruptCleanup
  BY <1>18, StrikeEffect DEF InterruptCleanup, Unmounted, Under, IsLast, Kinds
<1>19. CASE Kill
  BY <1>19, StrikeEffect DEF Kill, Kinds
<1>20. CASE Inspect
  BY <1>20, Points DEF Inspect, PlainFaults
<1>21. CASE Reboot
  BY <1>21, Points DEF Reboot, PlainFaults
<1>22. ASSUME NEW kind \in Kinds, Stop(kind) PROVE NeverStuck'
  BY <1>22, StrikeEffect DEF Stop, Raise, Written, Kinds, NoCommand
<1>23. CASE UNCHANGED vars
  BY <1>23 DEF vars, PlainFaults
<1> QED
  BY <1>1, <1>2, <1>3, <1>4, <1>5, <1>6, <1>7, <1>8, <1>9, <1>10, <1>11, <1>12, <1>13, <1>14, <1>15, <1>16, <1>17, <1>18, <1>19, <1>20, <1>21, <1>22, <1>23 DEF Next, Kinds

LEMMA AccountStep ==
  ASSUME TypeOK, Progress, RootIsBase, NeverStuck, Accounted, [Next]_vars
  PROVE  Accounted'
<1> USE DEF TypeOK, Progress, RootIsBase, NeverStuck, Accounted, InOrder, Noting, NotMapped, NoDirectory, Labels, Body, Outer, Inner, Cleanup, live, local
<1>1. CASE Call
  BY <1>1, Points DEF Call, Confirmed, PlainFaults
<1>2. CASE Load
  BY <1>2, Points DEF Load, PlainFaults
<1>3. CASE Check
  BY <1>3, Points DEF Check, Raise, InUse, PlainFaults
<1>4. CASE Run
  <2>1. pc \in Plain /\ pc' = After(pc)
    BY <1>4 DEF Run
  <2>2. InOrder' => InOrder
    BY <1>4, <2>1 DEF Run, Plain, PlainFaults
  <2>3. CASE pc \in {"partition", "settle", "format_esp"}
    BY <1>4, <2>1, <2>2, <2>3 DEF Run, After
  <2>4. CASE pc \in {"luks_format", "luks_uuid", "format_root"}
    BY <1>4, <2>1, <2>2, <2>4 DEF Run, After
  <2>5. CASE pc = "enter"
    BY <1>4, <2>1, <2>2, <2>5 DEF Run, After
  <2>6. CASE pc \in {"install", "configure", "add_key", "install_boot"}
    BY <1>4, <2>1, <2>2, <2>6 DEF Run, After
  <2> QED
    BY <2>1, <2>3, <2>4, <2>5, <2>6 DEF Plain
<1>5. CASE Open
  BY <1>5, Points DEF Open, PlainFaults
<1>6. CASE NoteMapper
  BY <1>6, Points DEF NoteMapper, MapperNoted, PlainFaults
<1>7. CASE MakeDirectory
  BY <1>7, Points DEF MakeDirectory, PlainFaults
<1>8. CASE Mount
  BY <1>8, Points DEF Mount, IsNext, PlainFaults
<1>9. CASE Note
  BY <1>9, NoteEffect DEF Note, Noted, PlainFaults
<1>10. CASE MakeSlave
  BY <1>10, Points DEF MakeSlave, Slaved, PlainFaults
<1>11. CASE Unmount
  BY <1>11, Points DEF Unmount, Under, IsLast, PlainFaults
<1>12. CASE AllUnmounted
  BY <1>12, Points DEF AllUnmounted, PlainFaults
<1>13. CASE RemoveDirectory
  BY <1>13, Points DEF RemoveDirectory, PlainFaults
<1>14. CASE Close
  BY <1>14, Points DEF Close, PlainFaults
<1>15. CASE ClosePackages
  BY <1>15, Points DEF ClosePackages, PlainFaults
<1>16. CASE FailUnmount
  BY <1>16, StrikeEffect DEF FailUnmount, Unmounted, Under, IsLast, Kinds
<1>17. CASE FailClose
  BY <1>17, StrikeEffect DEF FailClose, Kinds
<1>18. CASE InterruptCleanup
  BY <1>18, StrikeEffect DEF InterruptCleanup, Unmounted, Under, IsLast, Kinds
<1>19. CASE Kill
  BY <1>19, StrikeEffect DEF Kill, Kinds
<1>20. CASE Inspect
  BY <1>20, Points DEF Inspect, PlainFaults
<1>21. CASE Reboot
  BY <1>21, Points DEF Reboot, PlainFaults
<1>22. ASSUME NEW kind \in Kinds, Stop(kind) PROVE Accounted'
  BY <1>22, StrikeEffect DEF Stop, Raise, Written, Kinds, NoCommand
<1>23. CASE UNCHANGED vars
  BY <1>23 DEF vars, PlainFaults
<1> QED
  BY <1>1, <1>2, <1>3, <1>4, <1>5, <1>6, <1>7, <1>8, <1>9, <1>10, <1>11, <1>12, <1>13, <1>14, <1>15, <1>16, <1>17, <1>18, <1>19, <1>20, <1>21, <1>22, <1>23 DEF Next, Kinds
-----------------------------------------------------------------------------
LEMMA InitIInv == Init => IInv
<1> SUFFICES ASSUME Init PROVE IInv
  OBVIOUS
<1>1. TypeOK
  <2>1. 0 \in 0..MaxCalls
    BY InstallerAssumption
  <2>2. input \in [encrypted : BOOLEAN, confirmed : BOOLEAN, qualified : BOOLEAN]
    BY DEF Init
  <2>3. {mapping, directory, opened, mapper, stuck} \subseteq BOOLEAN
    BY DEF Init
  <2> QED
    BY <2>1, <2>2, <2>3 DEF Init, TypeOK, Labels
<1>2. Progress /\ RootIsBase
  BY DEF Init, Progress, RootIsBase, Body, Outer, Inner, Cleanup, NotMapped, NoDirectory
<1>3. Accounted /\ NeverStuck /\ HostKept
  BY DEF Init, Accounted, NeverStuck, HostKept, Inner, NotMapped, NoDirectory
<1> QED
  BY <1>1, <1>2, <1>3 DEF IInv

LEMMA StepIInv == IInv /\ [Next]_vars => IInv'
BY TypeStep, ProgressStep, RootStep, AccountStep, StuckStep, HostStep DEF IInv

\* For any live trees, calls and faults the accounts are right.
THEOREM IInvInvariant == Spec => []IInv
BY InitIInv, StepIInv, PTL DEF Spec

\* execute() keeps its state well formed, and only ever makes a slave of a
\* tree it has bound.
THEOREM TypeCorrect == Spec => []TypeOK
<1>1. IInv => TypeOK
  BY DEF IInv
<1> QED
  BY <1>1, IInvInvariant, PTL

\* An installation that says it is complete has left no mount, no mapping, no
\* directory and no open package, whatever went wrong in earlier ones.
THEOREM CompleteLeavesNothing == Spec => []CompleteIsClean
<1>1. IInv => CompleteIsClean
  BY DEF IInv, CompleteIsClean, Clean, Accounted, InOrder, Inner, NoDirectory, NotMapped
<1> QED
  BY <1>1, IInvInvariant, PTL

\* A failure of any command of the body, however often, leaves nothing behind.
THEOREM FailureLeavesNothing == Spec => []FailureIsClean
<1>1. IInv => FailureIsClean
  BY DEF IInv, FailureIsClean, PlainFaults, Clean, Accounted, InOrder, Inner, NoDirectory, NotMapped
<1> QED
  BY <1>1, IInvInvariant, PTL

\* The live trees keep their mounts, unless a fault struck between a bind and
\* its make-rslave.
THEOREM HostIsKept == Spec => []HostMountsSurvive
<1>1. IInv => HostMountsSurvive
  BY DEF IInv, HostMountsSurvive, HostKept, NoneExposed
<1> QED
  BY <1>1, IInvInvariant, PTL

\* Only a confirmed call with qualified media writes a partition table, and
\* never to a disk something is still mounted from or mapped on.
THEOREM WritesGuarded == Spec => WritesAreGuarded
<1>1. ASSUME IInv, [Next]_vars
      PROVE  [disk' # disk => mounts = {} /\ ~mapping /\ input.confirmed /\ input.qualified]_vars
  <2> SUFFICES ASSUME disk' # disk
               PROVE  mounts = {} /\ ~mapping /\ input.confirmed /\ input.qualified
    OBVIOUS
  <2>1. pc = "partition"
    BY <1>1 DEF Next, vars, live, Call, Load, Check, Run, Written, Open, NoteMapper, MakeDirectory, Mount,
         Note, MakeSlave, Unmount, AllUnmounted, RemoveDirectory, Close, ClosePackages, Stop,
         FailUnmount, FailClose, InterruptCleanup, Kill, Inspect, Reboot, Unmounted
  <2>2. input.confirmed /\ input.qualified /\ result = "running"
    BY <1>1, <2>1 DEF IInv, Progress, Body, Outer
  <2>3. mounts = {} /\ ~mapping
    BY <1>1, <2>1, <2>2 DEF IInv, Accounted, InOrder, Inner, NotMapped
  <2> QED
    BY <2>2, <2>3
<1> QED
  BY <1>1, IInvInvariant, PTL DEF Spec, WritesAreGuarded
-----------------------------------------------------------------------------
\* What rounding down to a multiple does.
LEMMA RoundDown ==
  ASSUME NEW n \in Nat, NEW m \in {256, 2048}
  PROVE  /\ (n \div m) * m \in Nat /\ ((n \div m) * m) % m = 0
         /\ (n \div m) * m <= n /\ n < (n \div m) * m + m
BY SMT

\* On every disk of at least 8 GiB the partitions are aligned, follow one
\* another, and leave both GPTs alone.
LEMMA EveryLayoutFits == AllFit
<1> SUFFICES ASSUME NEW d \in Disk
             PROVE  /\ \A i \in 1..3 : Layout(d)[i].start % First(d) = 0
                    /\ Layout(d)[1].start >= PrimaryGpt(d)
                    /\ \A i \in 1..2 : Layout(d)[i + 1].start = PastEnd(Layout(d)[i])
                    /\ Layout(d)[3].size >= 300 * First(d)
                    /\ PastEnd(Layout(d)[3]) <= d.count - BackupGpt(d)
  BY DEF AllFit
<1>1. d.count \in Nat /\ d.sector \in {512, 4096} /\ d.count >= 8192 * First(d)
  BY DiskAssumption DEF Valid
<1>2. CASE d.sector = 512
  <2>1. First(d) = 2048 /\ EspMiB(d) = 36 /\ BackupGpt(d) = 33 /\ PrimaryGpt(d) = 34
    BY <1>2 DEF First, MiB, EspMiB, BackupGpt, PrimaryGpt
  <2>2. RootStart(d) = 77824
    BY <2>1 DEF RootStart
  <2>3. /\ End(d) \in Nat /\ End(d) <= d.count - 34 /\ End(d) > d.count - 34 - 2048
    BY <1>1, <2>1, RoundDown DEF End
  <2> QED
    BY <1>1, <2>1, <2>2, <2>3 DEF Layout, PastEnd
<1>3. CASE d.sector = 4096
  <2>1. First(d) = 256 /\ EspMiB(d) = 260 /\ BackupGpt(d) = 5 /\ PrimaryGpt(d) = 6
    BY <1>3 DEF First, MiB, EspMiB, BackupGpt, PrimaryGpt
  <2>2. RootStart(d) = 67072
    BY <2>1 DEF RootStart
  <2>3. /\ End(d) \in Nat /\ End(d) <= d.count - 34 /\ End(d) > d.count - 34 - 256
    BY <1>1, <2>1, RoundDown DEF End
  <2> QED
    BY <1>1, <2>1, <2>2, <2>3 DEF Layout, PastEnd
<1> QED
  BY <1>1, <1>2, <1>3

\* installer.py:77-90. So a table that was written fits.
THEOREM LayoutAlwaysFits == Spec => []LayoutFits
<1>1. LayoutFits
  BY EveryLayoutFits DEF LayoutFits
<1> QED
  BY <1>1, PTL

\* The ESP has clusters enough for a FAT32.
LEMMA EveryEspIsFat32 == AllHaveFat32
<1> SUFFICES ASSUME NEW d \in Disk
             PROVE  Layout(d)[2].size >= Fat32(d)
  BY DEF AllHaveFat32
<1>1. d.sector \in {512, 4096}
  BY DiskAssumption DEF Valid
<1>2. CASE d.sector = 512
  BY <1>2 DEF Layout, EspMiB, First, MiB, Fat32
<1>3. CASE d.sector = 4096
  BY <1>3 DEF Layout, EspMiB, First, MiB, Fat32
<1> QED
  BY <1>1, <1>2, <1>3

\* installer.py:81, 262. And so does the file system mkfs.fat makes of it.
THEOREM EspAlwaysFat32 == Spec => []EspIsFat32
<1>1. EspIsFat32
  BY EveryEspIsFat32 DEF EspIsFat32
<1> QED
  BY <1>1, PTL
=============================================================================
