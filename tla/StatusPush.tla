----------------------------- MODULE StatusPush -----------------------------
(***************************************************************************)
(* The node's Status Pusher (roleserve/worker_statuspush.go).              *)
(*                                                                         *)
(* Three "map" runnables watch event values (the network status, the      *)
(* local control plane, the curator connection) and forward every new     *)
(* value over an unbuffered channel to workerStatusPushLoop, which keeps   *)
(* the node's status locally and calls UpdateNodeStatus whenever it        *)
(* changed and a curator, a node id and an external address are known.     *)
(* A failed RPC makes the loop return an error: the supervisor cancels    *)
(* the map runnables and runs the whole pusher again, with fresh channels *)
(* and fresh watchers that start from the values current at that time.    *)
(*                                                                         *)
(* The curator's side of UpdateNodeStatus is reduced to the status it      *)
(* stores for this node.                                                   *)
(***************************************************************************)
EXTENDS Naturals

CONSTANTS
    Addrs,          \* the IP addresses the network service may report
    NilIP,          \* a nil net.IP in a network Status
    NodeID,         \* the node id carried by the curator connection
    None,           \* no value held / no status stored
    MaxEnvChanges,  \* bound on updates of the three watched values
    MaxFailures     \* bound on failed UpdateNodeStatus calls and cancellations

ASSUME NilIP \notin Addrs /\ MaxEnvChanges \in Nat /\ MaxFailures \in Nat

\* The three event values the pusher watches, by the runnable that maps it.
Sources == {"network", "lcp", "curcon"}

VARIABLES
    val,        \* current value of each event value (network IP, lcp exists, node id)
    ver,        \* number of times each value was set; 0 means never set
    envChanges, \* updates made so far by the environment
    seen,       \* per source: the version its watcher last returned
    held,       \* per source: value read by Get and not yet sent on the channel
    status,     \* workerStatusPushLoop's local status: [addr, curator]
    cur,        \* cur != nil: the loop has a curator client
    nodeID,     \* the loop's node id ("" until a connection arrived)
    lpc,        \* loop: "select", "push" (RPC in flight) or "failed" (returned)
    pushing,    \* the status carried by the in-flight RPC
    stored,     \* the status the curator holds for this node
    failures    \* RPC failures and cancellations so far

vars == <<val, ver, envChanges, seen, held, status, cur, nodeID, lpc, pushing,
          stored, failures>>

\* net.IP.String(): a nil IP formats as "<nil>", not as "".
AddrString(ip) == IF ip = NilIP THEN "<nil>" ELSE ip

EmptyStatus == [addr |-> "", curator |-> FALSE]

Status == [addr : {""} \cup {"<nil>"} \cup Addrs, curator : BOOLEAN]

-----------------------------------------------------------------------------
(* The initial state: the watched values have not been set yet (the first *)
(* Get of a watcher blocks until they are), the pusher has just started.  *)

LoopInit ==
    /\ status = EmptyStatus
    /\ cur = FALSE
    /\ nodeID = ""
    /\ lpc = "select"
    /\ pushing = None

Init ==
    /\ \E ip \in Addrs \cup {NilIP}, b \in BOOLEAN :
          val = [network |-> ip, lcp |-> b, curcon |-> NodeID]
    /\ ver = [s \in Sources |-> 0]
    /\ envChanges = 0
    /\ seen = [s \in Sources |-> 0]
    /\ held = [s \in Sources |-> None]
    /\ LoopInit
    /\ stored = None
    /\ failures = 0

-----------------------------------------------------------------------------
(* The environment: the network service, the local control plane and the  *)
(* curator connection event values are Set by other services.             *)

EnvSet(s, v) ==
    /\ envChanges < MaxEnvChanges
    /\ val' = [val EXCEPT ![s] = v]
    /\ ver' = [ver EXCEPT ![s] = @ + 1]
    /\ envChanges' = envChanges + 1
    /\ UNCHANGED <<seen, held, status, cur, nodeID, lpc, pushing, stored, failures>>

EnvChange ==
    \/ \E ip \in Addrs \cup {NilIP} : EnvSet("network", ip)
    \/ \E b \in BOOLEAN : EnvSet("lcp", b)
    \/ EnvSet("curcon", NodeID)

-----------------------------------------------------------------------------
(* The map runnables. Get returns the newest value the watcher has not    *)
(* returned yet (intermediate values may be skipped). map-network sends   *)
(* the address formatted with String(); the two pipes send the value.     *)

Forwarded(s) == IF s = "network" THEN AddrString(val["network"]) ELSE val[s]

PipeGet(s) ==
    /\ held[s] = None
    /\ ver[s] > seen[s]
    /\ held' = [held EXCEPT ![s] = Forwarded(s)]
    /\ seen' = [seen EXCEPT ![s] = ver[s]]
    /\ UNCHANGED <<val, ver, envChanges, status, cur, nodeID, lpc, pushing, stored, failures>>

-----------------------------------------------------------------------------
(* workerStatusPushLoop: one select case (received together with the      *)
(* map runnable's send on the unbuffered channel), then the push check.   *)

\* The new local state after receiving v from source s, and whether it changed.
OnAddress(v) ==
    [status |-> [status EXCEPT !.addr = v], cur |-> cur, nodeID |-> nodeID,
     changed |-> v # status.addr]

OnCuratorConnection(v) ==
    [status |-> status, cur |-> TRUE, nodeID |-> v,
     changed |-> nodeID # v \/ ~cur]

\* Variant: a local curator that stops is not marked as a change.
OnLocalControlPlaneStopUnchanged(v) ==
    LET running == IF ~status.curator /\ v THEN TRUE
                   ELSE IF status.curator /\ ~v THEN FALSE
                   ELSE status.curator
    IN [status |-> [status EXCEPT !.curator = running], cur |-> cur,
        nodeID |-> nodeID, changed |-> ~status.curator /\ v]

OnLocalControlPlane(v) ==
    LET running == IF ~status.curator /\ v THEN TRUE
                   ELSE IF status.curator /\ ~v THEN FALSE
                   ELSE status.curator
    IN [status |-> [status EXCEPT !.curator = running], cur |-> cur,
        nodeID |-> nodeID, changed |-> running # status.curator]

Received(s, v) ==
    CASE s = "network" -> OnAddress(v)
      [] s = "curcon"  -> OnCuratorConnection(v)
      [] s = "lcp"     -> OnLocalControlPlane(v)

\* if cur != nil && nodeID != "" && changed && status.ExternalAddress != ""
ShouldPush(r) == r.cur /\ r.nodeID # "" /\ r.changed /\ r.status.addr # ""

LoopReceive(s) ==
    /\ lpc = "select"
    /\ held[s] # None
    /\ LET r == Received(s, held[s])
       IN /\ status' = r.status
          /\ cur' = r.cur
          /\ nodeID' = r.nodeID
          /\ IF ShouldPush(r)
                THEN lpc' = "push" /\ pushing' = r.status
                ELSE UNCHANGED <<lpc, pushing>>
    /\ held' = [held EXCEPT ![s] = None]
    /\ UNCHANGED <<val, ver, envChanges, seen, stored, failures>>

\* UpdateNodeStatus succeeds: the curator stores the status.
PushOK ==
    /\ lpc = "push"
    /\ stored' = pushing
    /\ lpc' = "select"
    /\ pushing' = None
    /\ UNCHANGED <<val, ver, envChanges, seen, held, status, cur, nodeID, failures>>

\* UpdateNodeStatus returns an error: the request may or may not have been
\* applied by the curator before the error. The loop returns the error.
PushFail ==
    /\ lpc = "push"
    /\ failures < MaxFailures
    /\ \E applied \in BOOLEAN : stored' = IF applied THEN pushing ELSE stored
    /\ lpc' = "failed"
    /\ pushing' = None
    /\ failures' = failures + 1
    /\ UNCHANGED <<val, ver, envChanges, seen, held, status, cur, nodeID>>

\* The pusher's context is canceled from above while the loop waits in select.
Cancel ==
    /\ lpc = "select"
    /\ failures < MaxFailures
    /\ lpc' = "failed"
    /\ failures' = failures + 1
    /\ UNCHANGED <<val, ver, envChanges, seen, held, status, cur, nodeID, pushing, stored>>

\* Variant: the restarted watchers resume where the old ones stopped
\* instead of returning the current values first.
RestartKeepingWatchers ==
    /\ lpc = "failed"
    /\ held' = [s \in Sources |-> None]
    /\ status' = EmptyStatus
    /\ cur' = FALSE
    /\ nodeID' = ""
    /\ lpc' = "select"
    /\ pushing' = None
    /\ UNCHANGED <<val, ver, envChanges, seen, stored, failures>>

\* The supervisor cancels the map runnables (their sends are preemptible,
\* so they all exit), waits, and runs workerStatusPush.run again: new
\* channels, new watchers, a new loop with an empty status.
Restart ==
    /\ lpc = "failed"
    /\ seen' = [s \in Sources |-> 0]
    /\ held' = [s \in Sources |-> None]
    /\ status' = EmptyStatus
    /\ cur' = FALSE
    /\ nodeID' = ""
    /\ lpc' = "select"
    /\ pushing' = None
    /\ UNCHANGED <<val, ver, envChanges, stored, failures>>

-----------------------------------------------------------------------------

Next ==
    \/ EnvChange
    \/ \E s \in Sources : PipeGet(s) \/ LoopReceive(s)
    \/ PushOK
    \/ PushFail
    \/ Cancel
    \/ Restart

\* Goroutines are scheduled fairly by the Go runtime and the supervisor
\* always restarts a failed runnable after its backoff; the environment and
\* failures are not fair.
Fairness ==
    /\ \A s \in Sources : WF_vars(PipeGet(s)) /\ WF_vars(LoopReceive(s))
    /\ WF_vars(PushOK)
    /\ WF_vars(Restart)

Spec == Init /\ [][Next]_vars /\ Fairness

-----------------------------------------------------------------------------
(* Properties.                                                             *)

\* The status the node would report now: the formatted network address (""
\* before the network service published one) and whether a local curator runs.
NodeStatus ==
    [addr    |-> IF ver["network"] > 0 THEN AddrString(val["network"]) ELSE "",
     curator |-> ver["lcp"] > 0 /\ val["lcp"]]

\* The pusher has caught up: the loop waits in select, no map runnable holds
\* a value, and every watcher has returned the newest value.
Idle ==
    /\ lpc = "select"
    /\ \A s \in Sources : held[s] = None /\ seen[s] = ver[s]

\* The curator can be told: a connection exists and an address is known.
Reportable == ver["curcon"] > 0 /\ NodeStatus.addr # ""

\* Whenever the pusher is idle and the status is reportable, the curator
\* holds exactly the node's current status: no change of address or of the
\* local curator is left unpublished by the changed/push logic of
\* workerStatusPushLoop, across failed RPCs and restarts.
IdleImpliesPublished == Idle /\ Reportable => stored = NodeStatus

\* Once the environment stops changing, the curator eventually holds the
\* node's current status for good (the map runnables and the loop make
\* progress and restarts re-deliver the current values).
StatusPublished == <>[](Reportable => stored = NodeStatus)

=============================================================================
