---------------------------- MODULE LocalStorage ----------------------------
(***************************************************************************)
(* The node data partition: DataDirectory.MountNew and MountExisting      *)
(* (localstorage/directory_data.go) over the dm-integrity + dm-crypt      *)
(* setup of crypt.go (cryptMap, cryptUnmap, CryptInit).                    *)
(*                                                                         *)
(* Both calls run under flagLock, so each is one action; the system calls  *)
(* they make may fail, and each action chooses the first failing call (or *)
(* none) and applies what the code did up to it, its cleanup included.    *)
(* Kernel objects are the two device-mapper devices and their /dev nodes,  *)
(* and the mount; they vanish on reboot, the partition's content does not.*)
(* Only the authenticated-encryption mode is modelled: the mode dispatch   *)
(* (crypt.Map, crypt.Init) is not under src/.                              *)
(***************************************************************************)
EXTENDS Naturals

CONSTANTS
    MaxFailures,   \* bound on failing system calls
    MaxAttempts,   \* bound on calls of MountNew / MountExisting
    MaxReboots     \* bound on reboots

\* The kernel objects cryptMap creates, in creation order.
DMObjs == {"intDM", "intNode", "cryptDM", "cryptNode"}

VARIABLES
    res,       \* kernel objects present: subset of DMObjs \cup {"mount"}
    jmode,     \* dm-integrity journal mode of the last mapping: "D" or "J"
    disk,      \* partition content: "old", "wiped", "formatted", "zeroed", "xfs"
    flag,      \* DataDirectory.mounted
    sealed,    \* the caller sealed the configuration returned by MountNew
    outcome,   \* result of the latest call: "none", "ok", "err"
    failures, attempts, reboots

vars == <<res, jmode, disk, flag, sealed, outcome, failures, attempts, reboots>>

Disk == {"old", "wiped", "formatted", "zeroed", "xfs"}

TypeOK ==
    /\ res \subseteq DMObjs \cup {"mount"}
    /\ jmode \in {"D", "J"}
    /\ disk \in Disk
    /\ flag \in BOOLEAN /\ sealed \in BOOLEAN
    /\ outcome \in {"none", "ok", "err"}
    /\ failures \in 0..MaxFailures
    /\ attempts \in 0..MaxAttempts
    /\ reboots \in 0..MaxReboots

\* The result of running code: kernel objects, partition, mapping mode,
\* success, and whether an injected failure (env = 1) ended it.
Out(r, d, j, ok, e) == [res |-> r, disk |-> d, jmode |-> j, ok |-> ok, env |-> e]

-----------------------------------------------------------------------------
(* cryptMap: readDataSectors, then create the integrity device, its node, *)
(* the crypt device, its node. A create fails on its own if the object    *)
(* already exists; a failure undoes what the code unlinks and removes.    *)

MapStep == <<"sectors", "intDM", "intNode", "cryptDM", "cryptNode">>

\* What the error path after a failure at step k removes.
MapCleanup == <<{}, {}, {"intNode", "intDM"}, {"intNode", "intDM"}, DMObjs>>

CryptMap(r, d, j) ==
    LET Made(k) == {MapStep[i] : i \in 2..k-1}
        Reached(k) == \A i \in 2..k-1 : MapStep[i] \notin r
        Forced(k) == k > 1 /\ MapStep[k] \in r
    IN  {Out((r \cup Made(k)) \ MapCleanup[k], d, j, FALSE, IF Forced(k) THEN 0 ELSE 1)
           : k \in {k \in 1..5 : Reached(k)}}
        \cup (IF Reached(6) THEN {Out(r \cup DMObjs, d, j, TRUE, 0)} ELSE {})

\* cryptUnmap: unlink the integrity node (ENOENT ignored), unlink the crypt
\* node (ENOENT is an error), remove both devices (ENOENT ignored).
UnmapStep == <<"intNode", "cryptNode", "cryptDM", "intDM">>

CryptUnmap(r, d, j) ==
    LET Removed(k) == {UnmapStep[i] : i \in 1..k-1}
        Forced(k) == k = 2 /\ "cryptNode" \notin r
        Reached(k) == \A i \in 1..k-1 : ~Forced(i)
    IN  {Out(r \ Removed(k), d, j, FALSE, IF Forced(k) THEN 0 ELSE 1)
           : k \in {k \in 1..4 : Reached(k)}}
        \cup (IF Reached(5) THEN {Out(r \ DMObjs, d, j, TRUE, 0)} ELSE {})

\* Variant: the zeroing mapping is created with no journal mode set.
CryptInitModeUnset(r, d) ==
    LET Failed(S) == {o \in S : ~o.ok}
    IN  {Out(r, d, "D", FALSE, 1)}
        \cup (IF "intDM" \in r THEN {} ELSE Failed(CryptMap(r, "formatted", "")))

\* Variant: the device is left mapped without journal after zeroing.
CryptInitNoRemap(r, d) ==
    LET Failed(S) == {o \in S : ~o.ok}
    IN  {Out(r, d, "D", FALSE, 1)}
        \cup {Out(r, "wiped", "D", FALSE, IF "intDM" \in r THEN 0 ELSE 1)}
        \cup (IF "intDM" \in r THEN {} ELSE
                {Out(r \cup {"intDM"}, "formatted", "D", FALSE, 1)}
                \cup Failed(CryptMap(r, "formatted", "D"))
                \cup (IF \E o \in CryptMap(r, "formatted", "D") : o.ok
                      THEN {Out(r \cup DMObjs, "formatted", "D", FALSE, 1),
                            Out(r \cup DMObjs, "zeroed", "D", TRUE, 0)}
                      ELSE {}))

\* CryptInit: wipe the header, create and remove a discovery integrity
\* device (formatting its superblock), map without journal, zero the whole
\* device, unmap, map again with journal.
CryptInit(r, d) ==
    LET Failed(S) == {o \in S : ~o.ok}
        mapped == r \cup DMObjs
    IN  {Out(r, d, "D", FALSE, 1)}                               \* header write
        \cup {Out(r, "wiped", "D", FALSE, IF "intDM" \in r THEN 0 ELSE 1)}
        \cup (IF "intDM" \in r THEN {} ELSE
                {Out(r \cup {"intDM"}, "formatted", "D", FALSE, 1)} \* RemoveDevice
                \cup Failed(CryptMap(r, "formatted", "D"))
                \cup (IF \E o \in CryptMap(r, "formatted", "D") : o.ok
                      THEN {Out(mapped, "formatted", "D", FALSE, 1)} \* open, zeroing
                           \cup Failed(CryptUnmap(mapped, "zeroed", "D"))
                           \cup CryptMap(r \ DMObjs, "zeroed", "J")
                      ELSE {}))

-----------------------------------------------------------------------------
(* MountNew and MountExisting after the mounted flag: what the rest of     *)
(* each call can end in.                                                   *)

\* DataDirectory.mount: unix.Mount of the mapped device adds the mount.
Mount(r) == r \cup {"mount"}

\* Variant: the partition is mounted without running mkfs.xfs first.
MountNewRestNoMkfs(sec, r, d, j) ==
    IF sec = "invalid" THEN {Out(r, d, j, FALSE, 0)}
    ELSE LET Init == CryptInit(r, d)
         IN  {Out(r, d, j, FALSE, 1)}
             \cup {o \in Init : ~o.ok}
             \cup UNION {{Out(Mount(o.res), o.disk, o.jmode, TRUE, 0)}
                         : o \in {o \in Init : o.ok}}

\* MountNew after d.mounted = true: the security switch, key generation,
\* CryptInit, mkfs.xfs, mount, then the MkdirAll of every directory.
MountNewRest(sec, r, d, j) ==
    IF sec = "invalid" THEN {Out(r, d, j, FALSE, 0)}
    ELSE LET Init == CryptInit(r, d)
         IN  {Out(r, d, j, FALSE, 1)}                            \* key generation
             \cup {o \in Init : ~o.ok}
             \cup UNION {{Out(o.res, o.disk, o.jmode, FALSE, 1),   \* mkfs
                          Out(o.res, "xfs", o.jmode, FALSE, 1),    \* mount
                          Out(Mount(o.res), "xfs", o.jmode, FALSE, 1), \* MkdirAll
                          Out(Mount(o.res), "xfs", o.jmode, TRUE, 0)}
                         : o \in {o \in Init : o.ok}}

\* MountExisting after d.mounted = true: map with journal, then mount.
MountExistingRest(r, d, j) ==
    LET M == CryptMap(r, d, "J")
    IN  {o \in M : ~o.ok}
        \cup UNION {{Out(o.res, d, "J", FALSE, 1), Out(Mount(o.res), d, "J", TRUE, 0)}
                    : o \in {o \in M : o.ok}}

\* A call of either: the checks before the flag, "already mounted", or the
\* flag set and the rest run. The caller seals the configuration MountNew
\* returned on success.
Call(pre, Rest) ==
    /\ attempts < MaxAttempts
    /\ attempts' = attempts + 1
    /\ IF ~pre \/ flag
          THEN /\ outcome' = "err"
               /\ UNCHANGED <<res, jmode, disk, flag, sealed, failures>>
          ELSE \E o \in Rest :
                  /\ failures + o.env <= MaxFailures
                  /\ res' = o.res /\ disk' = o.disk /\ jmode' = o.jmode
                  /\ flag' = TRUE
                  /\ outcome' = IF o.ok THEN "ok" ELSE "err"
                  /\ failures' = failures + o.env
                  /\ sealed' = (sealed \/ o.ok)
    /\ UNCHANGED reboots

\* The node's enrolment calls MountNew while it has no sealed configuration,
\* with a storage security value from its configuration.
MountNew ==
    /\ ~sealed
    /\ \E sec \in {"authenticated", "invalid"} :
          Call(TRUE, MountNewRest(sec, res, disk, jmode))

\* With a sealed configuration it calls MountExisting with the cluster
\* unlock key, whose length is checked before the flag.
MountExisting ==
    /\ sealed
    /\ \E keyLenOK \in BOOLEAN : Call(keyLenOK, MountExistingRest(res, disk, jmode))

\* A reboot: kernel objects and the in-memory flag are gone.
Reboot ==
    /\ reboots < MaxReboots
    /\ reboots' = reboots + 1
    /\ res' = {} /\ flag' = FALSE /\ outcome' = "none"
    /\ UNCHANGED <<jmode, disk, sealed, failures, attempts>>

Init ==
    /\ res = {} /\ jmode = "J" /\ disk = "old"
    /\ flag = FALSE /\ sealed = FALSE /\ outcome = "none"
    /\ failures = 0 /\ attempts = 0 /\ reboots = 0

Next == MountNew \/ MountExisting \/ Reboot

Spec == Init /\ [][Next]_vars

-----------------------------------------------------------------------------
(* Properties.                                                             *)

\* Whenever the data filesystem is mounted, it sits on a complete mapping
\* whose dm-integrity device runs with a journal: CryptInit's unjournaled
\* mapping, used only for zeroing, is never the one MountNew mounts.
MountedIsJournaled == "mount" \in res => DMObjs \subseteq res /\ jmode = "J"

\* The partition as DataPartition sees it: the old content, a device some
\* step of CryptInit or mkfs left blank, or the XFS filesystem; mounted when
\* the mount exists.
DP == INSTANCE DataPartition
        WITH content <- CASE disk = "xfs" -> "fs"
                          [] disk = "old" -> "unknown"
                          [] OTHER -> "blank",
             mounted <- "mount" \in res,
             sealed <- sealed

\* MountNew and MountExisting, with every failing system call, retry and
\* reboot, implement DataPartition: the partition is overwritten only while
\* unsealed and unmounted, MountNew mounts only the filesystem it created,
\* and a sealed configuration always finds that filesystem to mount, so no
\* failure inside MountNew lets the caller seal a half-initialized disk.
DataPartitionSpec == DP!Spec

\* A call that returned an error leaves the node as before the call, so the
\* caller can call again: the mounted flag is clear and no device-mapper
\* object of the data partition is left behind.
FailedCallRetryable == outcome = "err" => ~flag /\ res \cap DMObjs = {}

=============================================================================
