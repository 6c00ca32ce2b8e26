----------------------------- MODULE Resources -----------------------------
(***************************************************************************)
(* What the host reports (src/src/resources.rs) and the pure decision both *)
(* the admission gate and the supervisor take on it (admission::decide).   *)
(***************************************************************************)
EXTENDS Integers

CONSTANTS
    Hosts,        \* host states: [avail, psi, disk], whole units or Unreadable
    Unreadable,   \* the reading cannot be taken or parsed
    MinAvail,     \* min_avail_mib
    PsiMax,       \* psi_max
    MinDisk,      \* min_disk_gib
    DiskMax       \* u64::MAX, the disk reading of a failed statvfs

ASSUME ResourcesAssumption ==
    /\ MinAvail \in Nat /\ PsiMax \in Nat /\ MinDisk \in Nat
    /\ DiskMax \in Nat /\ MinDisk <= DiskMax
    /\ Unreadable \notin Nat
    /\ Hosts \subseteq [avail: Nat \union {Unreadable},
                        psi: Nat \union {Unreadable},
                        disk: Nat \union {Unreadable}]

(* An unreadable /proc file counts as no memory, or as no pressure; a      *)
(* failed statvfs as unlimited disk.                                       *)
Reading(value, default) == IF value = Unreadable THEN default ELSE value

MemAvailable(host) == Reading(host.avail, 0)
MemPsi(host) == Reading(host.psi, 0)
DiskFree(host) == Reading(host.disk, DiskMax)

(* decide(): the three thresholds, in the code's own comparisons. *)
Decide(avail, psi, disk) ==
    \/ avail < MinAvail
    \/ psi >= PsiMax
    \/ disk < MinDisk

(* Gate::blocked() *)
Blocked(host) == Decide(MemAvailable(host), MemPsi(host), DiskFree(host))
=============================================================================
