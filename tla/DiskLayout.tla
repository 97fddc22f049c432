----------------------------- MODULE DiskLayout -----------------------------
(***************************************************************************)
(* vfos/installer.py: layout(), the partitions that plan() shows and       *)
(* execute() writes, in logical sectors, for the disks that                *)
(* Answers.validate() lets through.                                        *)
(***************************************************************************)
EXTENDS Integers

CONSTANT Disk   \* disks: their logical sector, and how many of it they hold

MiB == 1048576

\* MIB // sector
First(d) == MiB \div d.sector

\* Answers.validate(): at least 8 GiB, in sectors of 512 or 4096 bytes.
Valid(d) == d.sector \in {512, 4096} /\ d.count >= 8192 * First(d)

ASSUME DiskAssumption == \A d \in Disk : d.count \in Nat /\ Valid(d)

EspMiB_PowerOfTwo(d) == IF d.sector = 512 THEN 32 ELSE 256
EspMiB(d) == IF d.sector = 512 THEN 36 ELSE 260

RootStart(d) == (2 + EspMiB(d)) * First(d)

\* "Leave space for the backup GPT and round down to a MiB boundary."
End_NoBackup(d) == (d.count \div First(d)) * First(d)
End(d) == ((d.count - 34) \div First(d)) * First(d)

Layout(d) ==
  << [start |-> First(d), size |-> First(d)],                       \* BIOS boot
     [start |-> 2 * First(d), size |-> EspMiB(d) * First(d)],       \* EFI system
     [start |-> RootStart(d), size |-> End(d) - RootStart(d)] >>    \* VFOS root
-----------------------------------------------------------------------------
PastEnd(part) == part.start + part.size

\* A GPT: 128 entries of 128 bytes and a header, at both ends of the disk; at
\* the front the protective MBR as well.
BackupGpt(d) == 16384 \div d.sector + 1
PrimaryGpt(d) == BackupGpt(d) + 1

\* The partitions follow one another on MiB boundaries, clear of both GPTs, and
\* the root is one that mkfs.xfs takes, at least 300 MiB.
AllFit ==
  \A d \in Disk :
    /\ \A i \in 1..3 : Layout(d)[i].start % First(d) = 0
    /\ Layout(d)[1].start >= PrimaryGpt(d)
    /\ \A i \in 1..2 : Layout(d)[i + 1].start = PastEnd(Layout(d)[i])
    /\ Layout(d)[3].size >= 300 * First(d)
    /\ PastEnd(Layout(d)[3]) <= d.count - BackupGpt(d)

\* mkfs.fat -F 32 -s 1: the 65525 clusters of one sector that make a FAT32,
\* beside 32 reserved sectors and two FATs of four bytes a cluster.
Fat32(d) == 65525 + 32 + 2 * ((4 * 65527 - 1) \div d.sector + 1)

AllHaveFat32 == \A d \in Disk : Layout(d)[2].size >= Fat32(d)
=============================================================================
