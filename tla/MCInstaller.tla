---------------------------- MODULE MCInstaller -----------------------------
(***************************************************************************)
(* One shared live tree and one private one; two calls, two faults; disks  *)
(* of 8 GiB and up to 1 MiB more, and the largest TLC can count.           *)
(***************************************************************************)
EXTENDS Installer

MCDisk ==
  {[sector |-> 512, count |-> 8192 * 2048 + n] : n \in 0..2048}
    \cup {[sector |-> 4096, count |-> 8192 * 256 + n] : n \in 0..256}
    \cup {[sector |-> s, count |-> 2147483647] : s \in {512, 4096}}
=============================================================================
