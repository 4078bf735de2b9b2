---------------------------- MODULE DataPartition ----------------------------
(***************************************************************************)
(* What the node data partition promises its users (localstorage,          *)
(* DataDirectory.MountNew and MountExisting), stated without device-mapper *)
(* devices, journal modes or failing system calls.                         *)
(*                                                                         *)
(* The partition holds unknown content (what was there before the node     *)
(* took it), a blank device, or the node's filesystem. While no            *)
(* configuration is sealed and nothing is mounted, enrolment may destroy   *)
(* the content and leave a blank device or a fresh filesystem behind; it  *)
(* mounts only a fresh filesystem it created, and may seal its             *)
(* configuration when it does. Once sealed, the content is never touched   *)
(* again: it can only be mounted, and a reboot unmounts it.                *)
(***************************************************************************)

VARIABLES
    content,   \* "unknown", "blank" or "fs"
    mounted,   \* the data filesystem is mounted
    sealed     \* the node holds a sealed configuration for the partition

vars == <<content, mounted, sealed>>

TypeOK ==
    /\ content \in {"unknown", "blank", "fs"}
    /\ mounted \in BOOLEAN
    /\ sealed \in BOOLEAN

Init == content = "unknown" /\ ~mounted /\ ~sealed

\* Enrolment overwrites the unsealed, unmounted partition.
Wipe ==
    /\ ~sealed /\ ~mounted
    /\ content' \in {"blank", "fs"}
    /\ UNCHANGED <<mounted, sealed>>

\* Enrolment mounts the filesystem it just created, and may seal.
CreateAndMount ==
    /\ ~sealed /\ ~mounted
    /\ content' = "fs" /\ mounted'
    /\ sealed' \in BOOLEAN

\* A node with a sealed configuration mounts the filesystem it holds.
MountSealed ==
    /\ sealed /\ ~mounted /\ content = "fs"
    /\ mounted'
    /\ UNCHANGED <<content, sealed>>

Reboot ==
    /\ ~mounted'
    /\ UNCHANGED <<content, sealed>>

Next == Wipe \/ CreateAndMount \/ MountSealed \/ Reboot

Spec == Init /\ [][Next]_vars

=============================================================================
