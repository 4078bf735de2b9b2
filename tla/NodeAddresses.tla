---------------------------- MODULE NodeAddresses ----------------------------
(***************************************************************************)
(* A node's address on its way through the cluster: the status pusher of  *)
(* node Remote (StatusPush) publishes it with UpdateNodeStatus, the        *)
(* curator stores it, and the hostsfile service of node Local (Hostsfile)  *)
(* receives it on its Watch and writes it to /etc/hosts and the ESP        *)
(* ClusterDirectory (roleserve/worker_statuspush.go, both halves).         *)
(*                                                                         *)
(* The two components share one piece of state: the curator's view of     *)
(* Remote's ExternalAddress. StatusPush keeps it as `stored`, Hostsfile as *)
(* cl[Remote] together with the Watch events it causes. Every step of the  *)
(* pusher that changes what the curator stores is, for Hostsfile, a        *)
(* cluster change of Remote carried by an open Watch; every other step of  *)
(* either component leaves the other alone. The curator stores whatever    *)
(* string the status carries, so Hostsfile's addresses are the IPs and the *)
(* string "<nil>".                                                          *)
(***************************************************************************)
EXTENDS Naturals, Sequences

CONSTANTS
    Local, Remote,     \* the hostsfile's node, the pushing node
    IPs,               \* IP addresses a node's network service may report
    NilIP, None,
    MaxPushChanges,    \* bound on changes of the pusher's watched values
    MaxPushFailures,   \* bound on the pusher's failed RPCs and cancellations
    MaxHostsChanges,   \* bound on Local's network changes and curator updates
    MaxBreaks          \* bound on broken Watch streams

VARIABLES
    val, ver, pEnvChanges, seen, held, status, cur, nodeID, lpc, pushing,
    stored, pFailures,
    netIP, netVer, cl, stream, hEnvChanges, lSeen, lHeld, rpc, cn, breaks,
    mpc, nodes, hostsFile, cdFile, cdSaved, hFailures

pvars == <<val, ver, pEnvChanges, seen, held, status, cur, nodeID, lpc,
           pushing, stored, pFailures>>
hvars == <<netIP, netVer, cl, stream, hEnvChanges, lSeen, lHeld, rpc, cn,
           breaks, mpc, nodes, hostsFile, cdFile, cdSaved, hFailures>>
vars == <<pvars, hvars>>

P == INSTANCE StatusPush
        WITH Addrs <- IPs, NodeID <- Remote, MaxEnvChanges <- MaxPushChanges,
             MaxFailures <- MaxPushFailures, envChanges <- pEnvChanges,
             failures <- pFailures

H == INSTANCE Hostsfile
        WITH Self <- Local, Others <- {Remote}, Addrs <- IPs \cup {"<nil>"},
             MaxEnvChanges <- MaxHostsChanges, MaxFailures <- 0,
             envChanges <- hEnvChanges, failures <- hFailures

\* The curator's ExternalAddress for Remote: "" while it stored no status.
CuratorAddr(s) == IF s = None THEN "" ELSE s.addr

\* Remote is registered without a status; the other state of each
\* component is as at its start. Local's network reports an IP or nil.
Init ==
    /\ P!Init
    /\ H!Init
    /\ cl[Remote] = CuratorAddr(stored)
    /\ cl[Local] # "<nil>" /\ netIP # "<nil>"

\* UpdateNodeStatus ends (applied or not): the curator's change of Remote's
\* address, if any, is an event on Local's Watch.
Published(Push) ==
    /\ Push
    /\ IF CuratorAddr(stored') = cl[Remote] THEN UNCHANGED hvars
       ELSE H!ClusterSet(Remote, CuratorAddr(stored'))

PusherStep ==
    /\ \/ P!EnvChange
       \/ \E s \in P!Sources : P!PipeGet(s) \/ P!LoopReceive(s)
       \/ P!Cancel \/ P!Restart
    /\ UNCHANGED hvars

HostsStep ==
    /\ \/ \E ip \in IPs \cup {NilIP} : H!NetSet(ip)
       \/ H!LocalGet \/ H!MainLocal
       \/ H!ClusterRecv \/ H!MainCluster \/ H!WatchBreak \/ H!ClusterRestart
       \/ H!ESPWrite
    /\ UNCHANGED pvars

Next == PusherStep \/ HostsStep \/ Published(P!PushOK) \/ Published(P!PushFail)

Spec == Init /\ [][Next]_vars

-----------------------------------------------------------------------------

\* Local's /etc/hosts (and with it the ESP ClusterDirectory, written from
\* the same map) lists Remote only under an IP address its network service
\* reported: the status pusher publishes only real addresses, and runCluster
\* keeps only addresses the curator received from a pusher.
HostsHoldIPs == hostsFile[Remote] \in IPs \cup {None}

=============================================================================
