----------------------------- MODULE Hostsfile -----------------------------
(***************************************************************************)
(* The hostsfile service (package hostsfile, in                            *)
(* roleserve/worker_statuspush.go).                                        *)
(*                                                                         *)
(* Run starts two children: "local", an event pipe that forwards every new *)
(* network Status over an unbuffered channel, and "cluster" (runCluster),  *)
(* which keeps a map of cluster nodes from a curator Watch stream and      *)
(* sends a copy of it over another unbuffered channel after every event.   *)
(* Run's loop merges both into its nodeMap and, whenever that changed,     *)
(* writes /etc/hosts, then the ClusterDirectory on the ESP, then sets      *)
(* ClusterDirectorySaved.                                                  *)
(*                                                                         *)
(* File contents are abstracted to the map they are generated from:       *)
(* hosts() to the node -> address function, clusterDirectory() to the set *)
(* of non-local addresses. Machine-id, hostname and the self-resolution   *)
(* check write nothing the properties read and are folded into Run's      *)
(* prologue.                                                               *)
(***************************************************************************)
EXTENDS Naturals, Sequences, SequencesExt

CONSTANTS
    Self,            \* Config.NodeID, the local node
    Others,          \* ids of the other cluster nodes
    Addrs,           \* IP addresses (as strings) nodes may have
    NilIP,           \* a network Status whose ExternalAddress is nil
    None,            \* no map entry / node absent from the cluster
    MaxEnvChanges,   \* bound on network and cluster updates
    MaxBreaks,       \* bound on failed Watch streams (Recv errors)
    MaxFailures      \* bound on failures of Run itself

ASSUME Self \notin Others /\ NilIP \notin Addrs /\ None \notin Addrs \cup {""}

Nodes == {Self} \cup Others

VARIABLES
    netIP, netVer,  \* the network service's Status value and its version
    cl,             \* the curator's view: node -> ExternalAddress, "" or None
    stream,         \* WatchEvents queued on the open Watch stream
    envChanges,
    lSeen, lHeld,   \* "local" pipe: version last read, Status not yet sent
    rpc,            \* runCluster: "recv", "send", "failed" (returned), "exited"
    cn,             \* runCluster's nodes map
    breaks,
    mpc,            \* Run: "loop", "esp" (hosts written), "failed" (returned)
    nodes,          \* Run's nodeMap
    hostsFile,      \* /etc/hosts, as the map it was generated from
    cdFile,         \* the ESP ClusterDirectory, as its set of addresses
    cdSaved,        \* ClusterDirectorySaved
    failures

vars == <<netIP, netVer, cl, stream, envChanges, lSeen, lHeld, rpc, cn, breaks,
          mpc, nodes, hostsFile, cdFile, cdSaved, failures>>

NodeMap == [Nodes -> Addrs \cup {None}]
EmptyMap == [n \in Nodes |-> None]
Event == [nodes : SUBSET (Nodes \X (Addrs \cup {""})), tombs : SUBSET Nodes]

TypeOK ==
    /\ netIP \in Addrs \cup {NilIP} /\ netVer \in Nat
    /\ cl \in [Nodes -> Addrs \cup {"", None}]
    /\ stream \in Seq(Event)
    /\ envChanges \in 0..MaxEnvChanges
    /\ lSeen \in Nat /\ lHeld \in Addrs \cup {NilIP, None}
    /\ rpc \in {"recv", "send", "failed", "exited"}
    /\ cn \in NodeMap
    /\ breaks \in 0..MaxBreaks
    /\ mpc \in {"loop", "esp", "failed"}
    /\ nodes \in NodeMap /\ hostsFile \in NodeMap
    /\ cdFile \in SUBSET Addrs \cup {None}
    /\ cdSaved \in BOOLEAN
    /\ failures \in 0..MaxFailures

-----------------------------------------------------------------------------
(* The curator's Watch(NodesInCluster): a fresh stream begins with a       *)
(* snapshot of every node; afterwards every change is one event, a node    *)
(* update or a tombstone.                                                  *)

Snapshot == [nodes |-> {<<n, cl[n]>> : n \in {m \in Nodes : cl[m] # None}},
             tombs |-> {}]

Change(n, a) == IF a = None THEN [nodes |-> {}, tombs |-> {n}]
                ELSE [nodes |-> {<<n, a>>}, tombs |-> {}]

\* clusterDirectory(): the addresses of all entries that are not local.
Directory(m) == {m[n] : n \in {k \in Others : m[k] # None}}

\* Run's prologue: ClusterDirectorySaved.Set(false), new channels, the two
\* children started (the cluster child opening its Watch), machine-id,
\* hostname, and an /etc/hosts with only localhost.
Init ==
    /\ netIP \in Addrs \cup {NilIP} /\ netVer = 0
    /\ cl \in [Nodes -> Addrs \cup {"", None}]
    /\ stream = <<Snapshot>>
    /\ envChanges = 0
    /\ lSeen = 0 /\ lHeld = None
    /\ rpc = "recv" /\ cn = EmptyMap /\ breaks = 0
    /\ mpc = "loop" /\ nodes = EmptyMap /\ hostsFile = EmptyMap
    /\ cdFile = None /\ cdSaved = FALSE
    /\ failures = 0

-----------------------------------------------------------------------------
(* The environment: the network service sets a new Status; a node of the  *)
(* cluster gets a new address, an empty one, or is deleted. An open       *)
(* Watch stream carries the change.                                        *)

NetSet(ip) ==
    /\ envChanges < MaxEnvChanges
    /\ netIP' = ip /\ netVer' = netVer + 1
    /\ envChanges' = envChanges + 1
    /\ UNCHANGED <<cl, stream, lSeen, lHeld, rpc, cn, breaks, mpc, nodes,
                   hostsFile, cdFile, cdSaved, failures>>

\* The Watch contract lets the curator coalesce adjacent updates of one
\* node, delivering only the newest; a tombstone is never coalesced away.
Coalescible(n) ==
    stream # <<>> /\ \E b \in Addrs \cup {""} : Last(stream) = Change(n, b)

ClusterSet(n, a) ==
    /\ envChanges < MaxEnvChanges
    /\ a # cl[n]
    /\ cl' = [cl EXCEPT ![n] = a]
    /\ \/ rpc \notin {"recv", "send"} /\ UNCHANGED stream
       \/ rpc \in {"recv", "send"} /\ stream' = Append(stream, Change(n, a))
       \/ rpc \in {"recv", "send"} /\ Coalescible(n)
          /\ stream' = [stream EXCEPT ![Len(stream)] = Change(n, a)]
    /\ envChanges' = envChanges + 1
    /\ UNCHANGED <<netIP, netVer, lSeen, lHeld, rpc, cn, breaks, mpc, nodes,
                   hostsFile, cdFile, cdSaved, failures>>

-----------------------------------------------------------------------------
(* The "local" child: event.Pipe(Network.Value(), localC).                 *)

LocalGet ==
    /\ lHeld = None
    /\ netVer > lSeen
    /\ lHeld' = netIP /\ lSeen' = netVer
    /\ UNCHANGED <<netIP, netVer, cl, stream, envChanges, rpc, cn, breaks, mpc,
                   nodes, hostsFile, cdFile, cdSaved, failures>>

-----------------------------------------------------------------------------
(* The "cluster" child, runCluster: Recv one WatchEvent, apply it to its   *)
(* map (nodes without an address are skipped, tombstones delete), then     *)
(* send a copy of the map on clusterC: a plain send, with no select on     *)
(* ctx.Done().                                                             *)

\* Variant: nodes whose status carries no address are stored as well.
ApplyEventKeepingEmpty(m, ev) ==
    [n \in Nodes |->
        IF n \in ev.tombs THEN None
        ELSE IF \E a \in Addrs \cup {""} : <<n, a>> \in ev.nodes
             THEN CHOOSE a \in Addrs \cup {""} : <<n, a>> \in ev.nodes
             ELSE m[n]]

ApplyEvent(m, ev) ==
    [n \in Nodes |->
        IF n \in ev.tombs THEN None
        ELSE IF \E a \in Addrs : <<n, a>> \in ev.nodes
             THEN CHOOSE a \in Addrs : <<n, a>> \in ev.nodes
             ELSE m[n]]

ClusterRecv ==
    /\ rpc = "recv"
    /\ stream # <<>>
    /\ cn' = ApplyEvent(cn, Head(stream))
    /\ stream' = Tail(stream)
    /\ rpc' = "send"
    /\ UNCHANGED <<netIP, netVer, cl, envChanges, lSeen, lHeld, breaks, mpc,
                   nodes, hostsFile, cdFile, cdSaved, failures>>

\* Recv returns an error (the stream broke): runCluster returns it.
WatchBreak ==
    /\ rpc = "recv"
    /\ breaks < MaxBreaks
    /\ rpc' = "failed" /\ stream' = <<>>
    /\ breaks' = breaks + 1
    /\ UNCHANGED <<netIP, netVer, cl, envChanges, lSeen, lHeld, cn, mpc, nodes,
                   hostsFile, cdFile, cdSaved, failures>>

\* The supervisor restarts the failed child alone (Run is still running):
\* a new Watch, starting with a snapshot, and an empty map.
ClusterRestart ==
    /\ rpc = "failed"
    /\ mpc # "failed"
    /\ rpc' = "recv" /\ cn' = EmptyMap /\ stream' = <<Snapshot>>
    /\ UNCHANGED <<netIP, netVer, cl, envChanges, lSeen, lHeld, breaks, mpc,
                   nodes, hostsFile, cdFile, cdSaved, failures>>

-----------------------------------------------------------------------------
(* Run's loop: one select case, then, if the nodeMap changed, the hosts    *)
(* file is written (ESP write follows as a separate step).                 *)

\* The nodeMap changed: write /etc/hosts from it.
WriteHosts(m) ==
    /\ nodes' = m /\ hostsFile' = m /\ mpc' = "esp"

\* case st := <-localC: nil and unchanged addresses are ignored.
MainLocal ==
    /\ mpc = "loop"
    /\ lHeld # None
    /\ lHeld' = None
    /\ IF lHeld = NilIP \/ nodes[Self] = lHeld
          THEN UNCHANGED <<nodes, hostsFile, mpc>>
          ELSE WriteHosts([nodes EXCEPT ![Self] = lHeld])
    /\ UNCHANGED <<netIP, netVer, cl, stream, envChanges, lSeen, rpc, cn, breaks,
                   cdFile, cdSaved, failures>>

\* Variant: the cluster's entry for the local node is not skipped.
MergeClusterWithSelf(m, u) ==
    [n \in Nodes |-> IF u[n] # None THEN u[n] ELSE m[n]]

\* Variant: an address already known for a node is never replaced.
MergeClusterKeepFirst(m, u) ==
    [n \in Nodes |-> IF n # Self /\ u[n] # None /\ m[n] = None THEN u[n] ELSE m[n]]

\* case u := <-s.clusterC: the local node's entry is skipped, every other
\* entry of u overwrites; nodes missing from u are kept.
MergeCluster(m, u) ==
    [n \in Nodes |-> IF n # Self /\ u[n] # None THEN u[n] ELSE m[n]]

MainCluster ==
    /\ mpc = "loop"
    /\ rpc = "send"
    /\ rpc' = "recv"
    /\ LET m == MergeCluster(nodes, cn)
       IN IF m = nodes THEN UNCHANGED <<nodes, hostsFile, mpc>>
          ELSE WriteHosts(m)
    /\ UNCHANGED <<netIP, netVer, cl, stream, envChanges, lSeen, lHeld, cn,
                   breaks, cdFile, cdSaved, failures>>

\* Variant: ClusterDirectorySaved is not set after the write.
ESPWriteUnsignalled ==
    /\ mpc = "esp"
    /\ cdFile' = Directory(nodes)
    /\ mpc' = "loop"
    /\ UNCHANGED <<netIP, netVer, cl, stream, envChanges, lSeen, lHeld, rpc, cn,
                   breaks, nodes, hostsFile, cdSaved, failures>>

\* ClusterDirectory written to the ESP, Sync, ClusterDirectorySaved.Set(true).
ESPWrite ==
    /\ mpc = "esp"
    /\ cdFile' = Directory(nodes)
    /\ cdSaved' = TRUE
    /\ mpc' = "loop"
    /\ UNCHANGED <<netIP, netVer, cl, stream, envChanges, lSeen, lHeld, rpc, cn,
                   breaks, nodes, hostsFile, failures>>

-----------------------------------------------------------------------------
(* Failures of Run itself: the ESP write returns an error, or Run's        *)
(* context is canceled while it waits in select. The supervisor then      *)
(* cancels both children, waits for them to exit, and runs Run again.     *)

ESPWriteFail ==
    /\ mpc = "esp"
    /\ failures < MaxFailures
    /\ mpc' = "failed" /\ failures' = failures + 1
    /\ UNCHANGED <<netIP, netVer, cl, stream, envChanges, lSeen, lHeld, rpc, cn,
                   breaks, nodes, hostsFile, cdFile, cdSaved>>

RunCanceled ==
    /\ mpc = "loop"
    /\ failures < MaxFailures
    /\ mpc' = "failed" /\ failures' = failures + 1
    /\ UNCHANGED <<netIP, netVer, cl, stream, envChanges, lSeen, lHeld, rpc, cn,
                   breaks, nodes, hostsFile, cdFile, cdSaved>>

\* runCluster observes the cancellation only inside Recv (or has already
\* returned); blocked in its send on clusterC it never does. The "local"
\* pipe's send is preemptible, so it always exits.
ClusterExit ==
    /\ mpc = "failed"
    /\ rpc \in {"recv", "failed"}
    /\ rpc' = "exited" /\ stream' = <<>>
    /\ UNCHANGED <<netIP, netVer, cl, envChanges, lSeen, lHeld, cn, breaks, mpc,
                   nodes, hostsFile, cdFile, cdSaved, failures>>

\* All children exited: Run starts again with its prologue.
RunRestart ==
    /\ mpc = "failed"
    /\ rpc = "exited"
    /\ mpc' = "loop" /\ nodes' = EmptyMap /\ hostsFile' = EmptyMap
    /\ cdSaved' = FALSE
    /\ lSeen' = 0 /\ lHeld' = None
    /\ rpc' = "recv" /\ cn' = EmptyMap /\ stream' = <<Snapshot>>
    /\ UNCHANGED <<netIP, netVer, cl, envChanges, breaks, cdFile, failures>>

-----------------------------------------------------------------------------

\* Run never fails: its writes succeed and nobody cancels it.
Next ==
    \/ \E ip \in Addrs \cup {NilIP} : NetSet(ip)
    \/ \E n \in Nodes, a \in Addrs \cup {"", None} : ClusterSet(n, a)
    \/ LocalGet \/ MainLocal
    \/ ClusterRecv \/ MainCluster \/ WatchBreak \/ ClusterRestart
    \/ ESPWrite

\* Run may fail and be restarted by the supervisor.
NextWithRunFailures ==
    \/ Next
    \/ ESPWriteFail \/ RunCanceled \/ ClusterExit \/ RunRestart

\* Goroutines are scheduled fairly and the supervisor restarts what died;
\* the environment, stream breaks and Run's failures are not fair.
Fairness ==
    /\ WF_vars(LocalGet) /\ WF_vars(MainLocal)
    /\ WF_vars(ClusterRecv) /\ WF_vars(MainCluster) /\ WF_vars(ClusterRestart)
    /\ WF_vars(ESPWrite)

Spec == Init /\ [][Next]_vars /\ Fairness

SpecWithRunFailures ==
    Init /\ [][NextWithRunFailures]_vars /\ Fairness
    /\ WF_vars(ClusterExit) /\ WF_vars(RunRestart)

(* Properties.                                                             *)

\* The addresses the hosts file should hold: every other node's current
\* address in the curator (nodes without one keep what they had), and the
\* local node's current network address when it has one.
HostsCurrent ==
    /\ \A n \in Others : cl[n] \in Addrs => hostsFile[n] = cl[n]
    /\ netVer > 0 /\ netIP # NilIP => hostsFile[Self] = netIP

\* Run waits in select and the "local" pipe has delivered the newest Status.
LocalIdle == mpc = "loop" /\ lHeld = None /\ lSeen = netVer

\* Once the local pipe has caught up, /etc/hosts maps the local node to the
\* address the network service reports, never to the (possibly outdated)
\* address the curator's Watch carries for it, in whatever order the two
\* channels are served.
SelfEntryFromNetwork ==
    LocalIdle /\ netVer > 0 /\ netIP # NilIP => hostsFile[Self] = netIP

\* Run waits in select and runCluster has applied and handed over every
\* event of its Watch stream.
ClusterIdle == mpc = "loop" /\ rpc = "recv" /\ stream = <<>>

\* Once the cluster child has caught up, every other node with an address
\* in the curator has that address in /etc/hosts: no update is lost to the
\* snapshot-then-changes stream, the map copy handed to Run, Run's merge,
\* or a Watch that broke and was opened again.
HostsMatchCluster ==
    ClusterIdle => \A n \in Others : cl[n] \in Addrs => hostsFile[n] = cl[n]

\* Once updates stop, /etc/hosts eventually holds every current address for
\* good and, if it lists any node, the ESP ClusterDirectory holds the same
\* non-local addresses and ClusterDirectorySaved is true.
FilesConverge ==
    <>[](/\ HostsCurrent
         /\ hostsFile # EmptyMap => cdSaved /\ cdFile = Directory(hostsFile))

\* After Run fails (an ESP write error, or its context canceled), the
\* supervisor eventually has it running its loop again.
RunRestarts == mpc = "failed" ~> mpc = "loop"

=============================================================================
