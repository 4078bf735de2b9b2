# TLA+ models of the Metropolis node services

This directory holds TLA+ models of parts of the Monogon/Metropolis node in
`src/`, the TLC configurations that check them, and `PROJECT.json`. That file
lists every component, every run, a mutant for each checked property, the source
lines each definition models, the findings, and the hazards.

Run the checks from this directory, for example:

    tlc -workers 2 -config StatusPush.cfg MCStatusPush

## The system and its parts

A Metropolis node is a tree of *runnables* under a supervisor. The supervisor's
implementation is not in `src/`; its contract comes from the spec:

- A runnable that returns an error is DEAD. The supervisor cancels all of its
  descendants, waits for each of them to exit, and runs it again after a
  backoff.
- A runnable whose context is canceled is CANCELED.
- Blocking operations inside runnables must be cancel-aware.

The code in `src/` falls into these parts. *(M)* means modelled.

| Part | Source | State | Operations / interactions |
|---|---|---|---|
| Status pusher *(M)* | `roleserve/worker_statuspush.go` 1-141 | local `NodeStatus`, curator client, node id | 3 map runnables → 3 unbuffered channels → `workerStatusPushLoop` → `UpdateNodeStatus` RPC to the curator |
| hostsfile service *(M)* | `roleserve/worker_statuspush.go` 142-417 | `nodeMap`, `/etc/hosts`, ESP `ClusterDirectory`, `ClusterDirectorySaved` | `local` pipe from the network service; `runCluster` follows a curator `Watch`; `Run` merges both and writes the files |
| Supervisor | `unnamed/part_000`, `osbase/supervisor/supervisor_test.go` | runnable tree | restart, cancel, groups (harness and tests only) |
| Curator / node lifecycle | `curator/impl_leader_test.go` | nodes in etcd | tests only; it serves `UpdateNodeStatus` and `Watch` |
| Node init | `unnamed/part_001` | trapdoor channel | one-shot root runnable that starts storage, network, enrolment, curator, PKI, roleserve and debug |
| Data directory + crypt *(M)* | `localstorage/directory_data.go`, `localstorage/crypt/crypt.go` | `mounted` flag, dm-crypt/dm-integrity mappings | MountNew, MountExisting, cryptMap/Unmap, CryptInit |
| Kubernetes reconciler *(M)* | `core/internal/kubernetes/reconcile.go` | built-in objects in the API server | List/Create/Delete per kind, every 10 s |
| Kubernetes PKI *(M)* | `unnamed/part_003` | certificates and the service account key in etcd | EnsureAll, ServiceAccountKey (Get then Put) |
| mkerofs *(M)* | `metropolis/node/build/mkerofs/main.go` | entrySpec tree | place spec entries via `pathRef`, then `writeRecursive` |
| CSI plugin, JoinCluster API, blockdev, takeownership, bazel_cc_fix, scripts, tests | see `PROJECT.json` | — | stateless request handlers, syscall wrappers, build tools |

How the parts interact:

- The network service's status feeds both the status pusher and the
  hostsfile service.
- The pusher's `UpdateNodeStatus` sets the node's status in the curator.
- The curator's `Watch` carries every node's status to the hostsfile service
  of every node.

A node's external address therefore travels from the network service, through
its own pusher and the curator, into every other node's `/etc/hosts` and
`ClusterDirectory`.
`NodeAddresses.tla` composes the two services along this path.

## Modules

### StatusPush (`StatusPush.tla`, `MCStatusPush.tla`)

**State.** The model keeps:

- the three watched event values (`val`, `ver`);
- per map runnable, the version its watcher last returned (`seen`) and the
  value it holds but has not sent yet (`held`);
- the loop's `status`, `cur` and `nodeID`;
- the loop's position (`lpc`: `select`, `push` or `failed`);
- the status the curator stores (`stored`).

**Actions.**

- `PipeGet`: a watcher's `Get`. It returns the newest unseen value, and
  map-network formats the address with `String()`.
- `LoopReceive`: one select case, together with the push decision at
  line 93.
- `PushOK` and `PushFail`: the RPC's outcome. A failed RPC may or may not
  have been applied.
- `Cancel`: the loop's context is canceled.
- `Restart`: the supervisor reruns `run()` with fresh watchers and an empty
  loop.

**Runs.**

- `StatusPush.cfg` (pass): checks `IdleImpliesPublished` and
  `StatusPublished`.
  - `IdleImpliesPublished`: when every runnable has caught up and the loop
    waits, the curator holds exactly the node's current status.
  - `StatusPublished`: this eventually holds for good.
  - There is no type invariant. The channels' Go types (`chan string` and
    the two pointer channels) already fix what the map runnables send.
  - A curator applying a failed call after a newer one (line 96) is not in
    the model, so neither property covers it.
- The nil address (finding 1) is checked end to end in `NodeAddresses`
  below.

**Bounds.**

- Two addresses plus the nil IP.
- 4 environment changes, enough for every source to change and one to
  change twice.
- 2 failures or cancellations, so a failure can hit a restarted pusher.

### Hostsfile (`Hostsfile.tla`, `MCHostsfile.tla`)

**State.**

- The network status (`netIP`, `netVer`).
- The curator's view of the cluster (`cl`: an address, `""`, or absent).
- The open Watch stream (`stream`: a snapshot followed by change events).
- The local pipe (`lSeen`, `lHeld`).
- `runCluster`: its position (`rpc`) and its map (`cn`).
- `Run`: its position (`mpc`) and its `nodes`.
- The files, abstracted to what they are generated from: `hostsFile` as a
  map, `cdFile` as a set of addresses, and the `cdSaved` flag.

**Actions.**

- `ClusterSet`: the curator's view of one node changes. While a Watch is
  open the change reaches the stream in one of two ways. It is appended, or
  (`Coalescible`) it replaces a last event that was a plain update of the
  same node. The second way is the Watch contract's permission to coalesce
  adjacent updates of one node and deliver only the newest. A tombstone is
  never replaced.
- `LocalGet`, `MainLocal`: the local pipe and the select case that reads it.
- `ClusterRecv`: `Recv` and `apply`.
- `MainCluster`: the select case that receives the copy. The hosts file is
  written in the same step.
- `ESPWrite`: writes the ClusterDirectory, then Sync and `Set(true)`.
- `WatchBreak`, `ClusterRestart`: a `Recv` error, and the supervisor
  restarting the child alone.
- `ESPWriteFail`, `RunCanceled`, `ClusterExit`, `RunRestart`: Run fails or
  is canceled; the supervisor waits for the children and restarts Run.
  These are only in `NextWithRunFailures`.

**Runs.**

- `Hostsfile.cfg` (pass): checks `SelfEntryFromNetwork`, `HostsMatchCluster`
  and `FilesConverge`. Run never fails in this run, so a failed ESP write
  after the hosts file was written (line 368) is not covered. Run failures
  are only in the next run, where the restart itself hangs.
- `HostsfileStuckRestart.cfg` (violation): `RunRestarts` fails.

**Bounds.**

- One local and one other node.
- Two addresses.
- 3 environment changes.
- 1 Watch break in the pass run.
- 1 Run failure in the violation run.

With these bounds the local and cluster entries can change and the stream
can break between them.

### NodeAddresses (`NodeAddresses.tla`): StatusPush and Hostsfile composed

Composes the status pusher of node `Remote` (`P == INSTANCE StatusPush`) with
the hostsfile service of node `Local` (`H == INSTANCE Hostsfile`). Each
instance gets its own copy of the variable names the two modules share
(`pEnvChanges`, `hEnvChanges`, `pFailures`, `hFailures`).

**Shared state.** The curator's address for `Remote`. StatusPush holds it as
`stored`, Hostsfile as `cl[Remote]`. `CuratorAddr(stored)` is `""` while
nothing is stored.

**Actions.**

- `Published(P!PushOK)` and `Published(P!PushFail)`: an `UpdateNodeStatus`
  ends. If the stored address changed, the same step is `H!ClusterSet` for
  `Remote`, so an open Watch carries the change.
- `PusherStep`: every other pusher step. The hostsfile side is unchanged.
- `HostsStep`: every hostsfile step except cluster changes. The pusher side
  is unchanged.

The curator stores any string, so Hostsfile's address set is the IPs plus
`"<nil>"`. Local's own network service reports only IPs or nil.

**Run.** `NodeAddresses.cfg` (violation): `HostsHoldIPs` (Local's
`/etc/hosts` lists Remote only under an IP) fails in 12 steps. Remote's
network service reports a nil address, the pusher publishes `"<nil>"`, the
curator's Watch delivers it, and `runCluster` and `Run` write it to
`/etc/hosts`. Bounds: one IP, 3 pusher environment changes, 2 hostsfile
changes, no failures or breaks (the trace needs none).

### LocalStorage (`LocalStorage.tla`, `DataPartition.tla`)

Models `DataDirectory.MountNew` and `MountExisting`
(`localstorage/directory_data.go`) over `cryptMap`, `cryptUnmap` and
`CryptInit` (`localstorage/crypt/crypt.go`).

**State.**

- The kernel objects present (`res`): the integrity and crypt device-mapper
  devices, their `/dev` nodes, and the mount.
- The journal mode of the last integrity mapping (`jmode`).
- The partition's content (`disk`).
- The `mounted` flag (`flag`), and whether the caller sealed a configuration
  (`sealed`).

**Actions.** Both calls run under `flagLock`, so each is one action:

- The call first passes or fails the checks before the flag.
- It then chooses the first failing system call, or none, and applies
  everything the code did up to it, including its cleanup.
- `CryptMap`, `CryptUnmap` and `CryptInit` return the set of such outcomes,
  one per failure point.
- `Reboot` clears the kernel objects and the flag.

Only the authenticated-encryption mode is modelled. The mode dispatch
(`crypt.Map`/`crypt.Init`) is not under `src/`.

**Runs.**

- `LocalStorage.cfg` (pass): checks `MountedIsJournaled` (the mount always
  sits on a complete, journaled mapping) and `DataPartitionSpec`: the
  refinement below.
- `LocalStorageRetry.cfg` (violation): `FailedCallRetryable` fails.

**Bounds.** 2 failing calls, 4 calls, 2 reboots. This allows a failure in
MountNew, a retry, a reboot and a second failure.

**Refinement.** `DataPartition.tla` is the abstract contract of the data
partition. Its content is `"unknown"`, `"blank"` or `"fs"`; it has a
`mounted` and a `sealed` flag. Its actions:

- `Wipe`: while unsealed and unmounted, the content becomes blank or a fresh
  filesystem.
- `CreateAndMount`: while unsealed and unmounted, a fresh filesystem is
  created and mounted, and the configuration may be sealed.
- `MountSealed`: once sealed, only the filesystem it holds is mounted.
- `Reboot`: unmounts.

`LocalStorage` maps onto it with `DP == INSTANCE DataPartition WITH ...`:

- `disk = "xfs"` becomes `"fs"`, `"old"` becomes `"unknown"`, and every
  intermediate state of `CryptInit` becomes `"blank"`;
- `mounted` is the mount being among the kernel objects;
- `sealed` is `sealed`.

`DataPartitionSpec == DP!Spec` is checked as a PROPERTY. It holds over every
failure point, retry and reboot. So no call overwrites a sealed or mounted
partition, MountNew mounts only the filesystem it created, and a sealed
configuration always finds that filesystem.

### Reconciler (`Reconciler.tla`)

Models `runReconciler` and the five reconcile functions of
`core/internal/kubernetes/reconcile.go`.

**State.**

- The objects of each kind in the API server (`api`). An object is reduced
  to its name and whether it carries the `smalltown.com/builtin` label.
- The result of each kind's last call.
- The running call: the kinds this tick has still to reconcile (`todo`),
  the kind whose function runs (`rk`), and what its List left to do: the
  built-ins still to Create (`pendC`) and the names still to Delete
  (`pendD`).

**Actions.** Every API call is its own step, because administrators act
between them.

- `List(k)`: `reconcile()` picks the next kind in map order, and its
  function Lists the labelled objects. `PendingCreates` and
  `PendingDeletes` are the two loops' work, computed from that List. A
  failed List returns an error.
- `Create(k, o)`: one Create, in map order. It succeeds (`CreateOK`), or it
  fails with AlreadyExists when an object of that name exists, labelled or
  not, or with an injected failure. A failure returns from the function.
- `Delete(k, n)`: once every create succeeded, one `Delete(name)`. It
  removes whatever object has that name now, or fails with NotFound or an
  injected failure.
- `Finish(k)`: `return nil`. `Tick`: the ticker starts the next round.
- `AdminDelete` and `AdminCreate`: administrators delete any object, or
  create a foreign one. With `ReplaceStray`, one of these is an unlabelled
  object named like the labelled stray.

**Fairness.** The reconciler goroutine is weakly fair. Each kind's
`CreateOK` is strongly fair, because Go randomizes every map range: a
create loop that reaches a creatable object before an AlreadyExists keeps
recurring.

**Runs.**

- `Reconciler.cfg` (pass, 213,773 states), with PSPs (labelled),
  ClusterRoles (unlabelled, one built-in) and ClusterRoleBindings
  (unlabelled, two built-ins), and no name reuse:
  - `BuiltinsConverge`: once administrators stop, every built-in exists
    for good.
  - `DeletesOnlyStrays`: the reconciler never deletes a built-in or an
    unlabelled object, although its Deletes act on an earlier List.
- `ReconcilerStaleDelete.cfg` (violation): with `ReplaceStray`,
  `DeletesOnlyStrays` fails. An administrator replaces the listed stray
  with an unlabelled object of the same name before the Delete.
- `ReconcilerStrays.cfg` (violation): `StraysRemoved` fails for
  ClusterRoleBindings.

**Bounds.** Three kinds: a labelled one, and the two unlabelled ones with
one and two built-ins. The kinds are independent: each has its own function
and objects, and StorageClasses and CSIDrivers have the same shape as PSPs
(one labelled built-in). There are 3 administrator changes and 2 failed
calls, shared by all kinds, so failures and deletions can hit different
kinds in one behaviour. All five kinds at once exceed TLC's time budget
under the strong fairness the liveness check needs. One kind and three
administrator changes suffice for the stale delete: create the stray,
delete it after the List, create the unlabelled one.

### KubePKI (`KubePKI.tla`)

Models `PKI.EnsureAll` and `PKI.ServiceAccountKey` (`unnamed/part_003`) on
several nodes that share one etcd.

**State.**

- The key stored in etcd (`stored`). Keys are numbered in generation order.
- Per node:
  - its position (`pc`);
  - the key its current call generated (`gen`);
  - the key its Kubernetes service runs with (`used`).

**Actions.**

- `CertsEnsure`: the certificate loop. `Certificate.Ensure` is not under
  `src/`, so it is one step that succeeds or fails.
- `SAGet`: the etcd `Get`, which may fail, return the stored key, or lead
  to a fresh key.
- `SAPut`: the unconditional `Put`, which may fail.
- `Reboot`: a node loses power wherever its boot is. Etcd keeps what was
  stored, and node init runs `EnsureAll` again from the start.

Each etcd call is its own step, because other nodes run between them. A
node calls `ServiceAccountKey` twice: once inside `EnsureAll` (node init,
`part_001:202`, where an error closes the trapdoor), and once for its
Kubernetes service.

**Runs.** `KubePKI.cfg` (violation; two nodes, 2 failed etcd calls, 1
reboot): `KeysAgree` fails. TLC's shortest trace is one node: its Put in
`EnsureAll` fails and is swallowed, then its Kubernetes service generates
another key, and that Put fails too. The service runs with a key etcd never
held. With `MaxFailures = 0` the same invariant fails through the two-node
Get/Put race.

The race needs two nodes to reach `ServiceAccountKey` while no key is
stored. For example, a node reboots between its Get and its Put, or all
nodes boot together after a failed first `Put`.

### Mkerofs (`Mkerofs.tla`, `MCMkerofs.tla`)

Models mkerofs as a checked algorithm.

**State and actions.**

- `Init` enumerates every spec with, in `Mkerofs.cfg`:
  - at most 1 directory, 2 files and 1 link;
  - paths of up to 2 components over `a`, `b` and `..`.
- `Place`: one iteration of main's placement loops. `PathRef` models
  `path.Clean` (`CleanFrom`) and the creation of missing directories.
- `Write`: the special-file check, then `WriteRecursive`, a recursive
  operator producing the sequence of `Create` calls.

**Runs.**

- `Mkerofs.cfg` (pass; 414,288 states) compares the output with reference
  definitions made from the spec directly:
  - `ImageFaithful`: every written inode is the last entry at its path, or
    a directory standing for a path component.
  - `ImageWellFormed`: the root comes first, every path is created once,
    after the directory listing it, and children lists are sorted and
    complete.
- `MkerofsComplete.cfg` (violation): `ImageComplete` fails.

## Fairness

Goroutines get weak fairness on each of their steps. The Go runtime schedules
every runnable goroutine, and an unbuffered send completes once both sides
are ready. The supervisor's restart also gets weak fairness: the spec says a
DEAD runnable is always re-scheduled after its backoff.

The Reconciler's goroutine (its ticker and every API call) gets weak
fairness. A successful Create of each kind gets strong fairness. Go
randomizes map iteration on every `range`, so a create loop that tries a
creatable object before an object that fails with AlreadyExists keeps
recurring while such an object is missing.

LocalStorage, KubePKI and Mkerofs have no fairness and no liveness
property. Their calls are made once per boot or per build, not by a loop.

The environment, RPC failures, stream breaks and cancellations are not fair.
Each is bounded, so every behaviour ends with the system left alone. The
liveness properties are about what happens after that.

## Findings

1. **Nil address published as `"<nil>"`** (`worker_statuspush.go:130`).
   map-network publishes `st.ExternalAddress.String()`, and a nil IP formats
   as `"<nil>"`. That string passes the non-empty check at line 93 and is
   stored in the curator. The hostsfile service treats the same status as
   "no address" (line 309). However, its `runCluster` only filters `""`
   (line 397). `NodeAddresses` shows the string reaching another node's
   `/etc/hosts` and `ClusterDirectory`.
2. **Stuck restart of the hostsfile service** (`worker_statuspush.go:415`).
   `runCluster` sends on `clusterC` without selecting on `ctx.Done()`. If
   `Run` fails or is canceled while `runCluster` holds an update, the send
   never completes. The supervisor waits for the child forever, and the
   hostsfile service is never restarted.

3. **The mounted flag blocks every retry** (`directory_data.go:101`).
   `MountNew` (and `MountExisting`, line 68) sets `d.mounted = true` before
   every call that can fail, and no error path clears it. After one failure,
   every further call returns "already mounted" until a reboot.
4. **CryptInit leaks its mapping** (`crypt.go:163`). When opening or
   zeroing the temporary mapping fails, or removing the discovery device
   fails (line 152), the devices stay mapped. Nothing unmaps them until the
   node reboots. The mounted flag (finding 3) already refuses every retry
   until then.
5. **Labelled stray ClusterRoleBindings are never deleted**
   (`reconcile.go:133`). The built-in ClusterRoles and ClusterRoleBindings
   carry no builtin label, so the labelled List never returns them. Every
   tick their Create fails with AlreadyExists, and the function returns at
   line 335 before its delete loop. This contradicts the package comment
   (lines 17-19), and an error is logged every 10 seconds.

6. **A failed Put of the service account key is reported as success**
   (`part_003:273`). The error is wrapped into `err`, but `key, nil` is
   returned. `EnsureAll` succeeds with no key in etcd, and a second swallowed
   Put leaves the Kubernetes service running with a key etcd never held.
7. **Concurrent generation of the service account key**
   (`part_003:271`). `ServiceAccountKey` is a Get followed by an
   unconditional Put; the code's own TODO (line 245) asks for try-or-create
   semantics. If two nodes both find no key, the last Put wins. A node
   whose Kubernetes service already read its own key then signs tokens the
   other nodes' apiservers reject.
8. **The delete loop acts on a stale List** (`reconcile.go:275`).
   `Delete(name)` goes by the name from the List at the start of the
   function, with no UID precondition. An administrator can delete a
   labelled stray and create an unlabelled object of the same name between
   the List and the Delete. That object is then deleted, although the
   package comment leaves unlabelled objects to administrators.
9. **mkerofs silently drops entries** (`mkerofs/main.go:156`). A file or
   link placed at a path that already has children keeps the children map.
   `writeRecursive` never visits it, so the entries vanish without an
   error. The path may be a directory entry, or the root via `""` or
   `a/..`.

## Not modelled (yet)

See `PROJECT.json` "components" for each part and the reason. In short:

- The supervisor and the curator are not under `src/`. Their contracts are
  the environment of the modules above.
- Node init is a one-shot sequence.
- The CSI plugin, the JoinCluster API and blockdev are stateless wrappers
  around syscalls or RPCs. blockdev's error-handling slips (`File.Discard`
  reports every success as an error; `FromFileHandle` wraps the wrong error)
  are listed as hazards.
- `cmd_takeownership.go` is a linear CLI (read a file, call one RPC, write
  a file). The rest of that file is an end-to-end test. `setup.go` is a
  one-shot token comparison. Neither has state that a model would add to.
- A curator that applies an `UpdateNodeStatus` after a newer one (hazard
  at `worker_statuspush.go:96`). The curator's request handling is not under
  `src/`, and the fault would need a violation run of its own.
- The remaining parts are build tools, scripts and tests.

Not yet checked:

- A KubePKI crash between Get and Put.
