------------------------------ MODULE KubePKI ------------------------------
(***************************************************************************)
(* The Kubernetes PKI's service account key (unnamed/part_003,            *)
(* PKI.EnsureAll and PKI.ServiceAccountKey), on every node of a cluster   *)
(* sharing one etcd.                                                       *)
(*                                                                         *)
(* After enrolment, node init (unnamed/part_001, line 202) calls          *)
(* EnsureAll, which ensures every static certificate and then calls       *)
(* ServiceAccountKey, discarding the key; an error closes the trapdoor    *)
(* and the node halts. The PKI object is then handed to the role service, *)
(* whose Kubernetes service calls ServiceAccountKey for the key its       *)
(* apiserver and controller-manager use. ServiceAccountKey is a Get, and  *)
(* when no key is stored a freshly generated key and an unconditional Put. *)
(* Each etcd call is a step of its own: other nodes run between them.     *)
(*                                                                         *)
(* Keys are numbered in generation order; rsa.GenerateKey never repeats.  *)
(* Certificate.Ensure (metropolis/pkg/pki, not under src/) is one step    *)
(* that succeeds or fails.                                                 *)
(***************************************************************************)
EXTENDS Naturals, FiniteSets

CONSTANTS
    Nodes,         \* the nodes booting against the same etcd
    MaxFailures,   \* bound on failed etcd calls
    MaxReboots     \* bound on nodes losing power

None == 0

\* Every ServiceAccountKey call may generate one key.
MaxKeys == 2 * Cardinality(Nodes) * (MaxReboots + 1)

VARIABLES
    stored,    \* the key at /kube-pki/service-account-privkey.der, or None
    pc,        \* per node: where its boot is
    gen,       \* per node: the key its current call generated
    used,      \* per node: the key its Kubernetes service runs with, or None
    keys,      \* keys generated so far
    failures,
    reboots

vars == <<stored, pc, gen, used, keys, failures, reboots>>

\* "certs": EnsureAll's certificate loop; "get"/"put": ServiceAccountKey
\* inside EnsureAll; "kget"/"kput": ServiceAccountKey called by the
\* Kubernetes service; "serving": it runs with the key; "halted": the
\* trapdoor closed.
PCs == {"certs", "get", "put", "kget", "kput", "serving", "halted"}

TypeOK ==
    /\ stored \in 0..MaxKeys
    /\ pc \in [Nodes -> PCs]
    /\ gen \in [Nodes -> 0..MaxKeys]
    /\ used \in [Nodes -> 0..MaxKeys]
    /\ keys \in 0..MaxKeys
    /\ failures \in 0..MaxFailures
    /\ reboots \in 0..MaxReboots

Init ==
    /\ stored = None
    /\ pc = [n \in Nodes |-> "certs"]
    /\ gen = [n \in Nodes |-> None]
    /\ used = [n \in Nodes |-> None]
    /\ keys = 0
    /\ failures = 0
    /\ reboots = 0

\* The step after ServiceAccountKey returned key k (its error is nil):
\* EnsureAll returns nil and the role service starts, or the Kubernetes
\* service runs with k.
Returned(n, k) ==
    IF pc[n] \in {"get", "put"}
    THEN pc' = [pc EXCEPT ![n] = "kget"] /\ UNCHANGED used
    ELSE pc' = [pc EXCEPT ![n] = "serving"] /\ used' = [used EXCEPT ![n] = k]

\* ServiceAccountKey returned an error: EnsureAll's closes the trapdoor;
\* the Kubernetes service returns it and the supervisor runs it again.
Failed(n) ==
    pc' = [pc EXCEPT ![n] = IF pc[n] = "get" THEN "halted" ELSE "kget"]

-----------------------------------------------------------------------------

\* EnsureAll's loop over k.Certificates: Certificate.Ensure of each.
CertsEnsure(n) ==
    /\ pc[n] = "certs"
    /\ \/ pc' = [pc EXCEPT ![n] = "get"] /\ UNCHANGED failures
       \/ /\ failures < MaxFailures
          /\ failures' = failures + 1
          /\ pc' = [pc EXCEPT ![n] = "halted"]
    /\ UNCHANGED <<stored, gen, used, keys, reboots>>

\* k.KV.Get(ctx, path): an error returns at once; a stored key is
\* returned; otherwise a new key is generated for the Put.
SAGet(n) ==
    /\ pc[n] \in {"get", "kget"}
    /\ \/ /\ failures < MaxFailures
          /\ failures' = failures + 1
          /\ Failed(n)
          /\ UNCHANGED <<gen, keys, used>>
       \/ /\ stored # None
          /\ Returned(n, stored)
          /\ UNCHANGED <<gen, keys, failures>>
       \/ /\ stored = None /\ keys < MaxKeys
          /\ keys' = keys + 1
          /\ gen' = [gen EXCEPT ![n] = keys + 1]
          /\ pc' = [pc EXCEPT ![n] = IF pc[n] = "get" THEN "put" ELSE "kput"]
          /\ UNCHANGED <<used, failures>>
    /\ UNCHANGED <<stored, reboots>>

\* k.KV.Put(ctx, path, key): overwrites whatever is stored. A failed Put
\* is wrapped into err, but the function returns the key and nil.
SAPut(n) ==
    /\ pc[n] \in {"put", "kput"}
    /\ \/ stored' = gen[n] /\ UNCHANGED failures
       \/ /\ failures < MaxFailures
          /\ failures' = failures + 1
          /\ UNCHANGED stored
    /\ Returned(n, gen[n])
    /\ UNCHANGED <<gen, keys, reboots>>

\* The node loses power wherever its boot is (a halted node is rebooted
\* too). Etcd keeps what was stored; on the next boot node init runs
\* EnsureAll again from the start.
Reboot(n) ==
    /\ reboots < MaxReboots
    /\ pc' = [pc EXCEPT ![n] = "certs"]
    /\ gen' = [gen EXCEPT ![n] = None]
    /\ used' = [used EXCEPT ![n] = None]
    /\ reboots' = reboots + 1
    /\ UNCHANGED <<stored, keys, failures>>

Next == \E n \in Nodes : CertsEnsure(n) \/ SAGet(n) \/ SAPut(n) \/ Reboot(n)

Spec == Init /\ [][Next]_vars

-----------------------------------------------------------------------------
(* Properties.                                                             *)

\* Every node's Kubernetes service runs with the key stored in etcd, so the
\* apiservers of all nodes verify the tokens every controller-manager signs.
KeysAgree == \A n \in Nodes : pc[n] = "serving" => used[n] = stored

=============================================================================
