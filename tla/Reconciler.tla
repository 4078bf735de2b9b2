----------------------------- MODULE Reconciler -----------------------------
(***************************************************************************)
(* The Kubernetes built-in resource reconciler                             *)
(* (core/internal/kubernetes/reconcile.go).                                *)
(*                                                                         *)
(* Every tick, runReconciler calls one reconcile function per kind, in Go  *)
(* map order. Each Lists the objects carrying the                          *)
(* smalltown.com/builtin=true label, Creates every built-in object missing *)
(* from that list, then Deletes by name every listed object that is not    *)
(* built in; the first failing call ends the function with an error,      *)
(* which is only logged. Creates and deletes run over Go maps, so their   *)
(* order is random. Every API call is a step of its own: administrators   *)
(* change the objects between the List and the calls that act on it.      *)
(*                                                                         *)
(* Objects are reduced to a name and whether they carry the label.        *)
(***************************************************************************)
EXTENDS Naturals

CONSTANTS
    Kinds,         \* the kinds reconciled (the reconcilers map's keys)
    MaxAdmin,      \* bound on administrator changes
    MaxFailures,   \* bound on failed API calls
    ReplaceStray   \* whether administrators may reuse a stray's name for
                   \* an object of their own, without the label

\* The built-in objects of each kind as the code declares them: their names
\* and whether their ObjectMeta carries the smalltown.com/builtin label.
Builtin ==
    [psps                |-> {[name |-> "default", lab |-> TRUE]},
     clusterroles        |-> {[name |-> "smalltown:psp-default", lab |-> FALSE]},
     clusterrolebindings |-> {[name |-> "smalltown:default-psp-for-sa", lab |-> FALSE],
                              [name |-> "smalltown:apiserver-kubelet-client", lab |-> FALSE]},
     storageclasses      |-> {[name |-> "local", lab |-> TRUE]},
     csidrivers          |-> {[name |-> "dev.monogon.metropolis.vfs", lab |-> TRUE]}]

ASSUME Kinds \subseteq DOMAIN Builtin

BuiltinNames(k) == {o.name : o \in Builtin[k]}

\* Objects administrators create: one with the label, one without, and,
\* with ReplaceStray, an unlabelled object under the labelled one's name.
Foreign ==
    {[name |-> "stray", lab |-> TRUE], [name |-> "custom", lab |-> FALSE]}
    \cup (IF ReplaceStray THEN {[name |-> "stray", lab |-> FALSE]} ELSE {})

Object == UNION {Builtin[k] : k \in Kinds} \cup Foreign

NoKind == "none"

VARIABLES
    api,       \* objects stored in the API server, per kind
    result,    \* outcome of the kind's last reconcile call: "none", "ok", "err"
    todo,      \* kinds the current tick has still to reconcile
    rk,        \* the kind whose reconcile function runs, or NoKind
    pendC,     \* its create loop: built-in objects still to Create
    pendD,     \* its delete loop: names still to Delete
    admin,     \* administrator changes so far
    failures   \* failed API calls so far

vars == <<api, result, todo, rk, pendC, pendD, admin, failures>>

TypeOK ==
    /\ api \in [Kinds -> SUBSET Object]
    /\ result \in [Kinds -> {"none", "ok", "err"}]
    /\ todo \subseteq Kinds
    /\ rk \in Kinds \cup {NoKind}
    /\ pendC \subseteq Object /\ pendD \subseteq {o.name : o \in Object}
    /\ admin \in 0..MaxAdmin
    /\ failures \in 0..MaxFailures

Names(S) == {o.name : o \in S}

\* The API server starts without any of the objects; runReconciler calls
\* reconcile() once before waiting for the ticker.
Init ==
    /\ api = [k \in Kinds |-> {}]
    /\ result = [k \in Kinds |-> "none"]
    /\ todo = Kinds /\ rk = NoKind /\ pendC = {} /\ pendD = {}
    /\ admin = 0 /\ failures = 0

-----------------------------------------------------------------------------
(* One reconcile function for kind k: List with the label selector, the   *)
(* create loop, the delete loop, each API call a step.                     *)

\* Variant: List without the label selector.
ListedAll(k) == api[k]

\* List(LabelSelector: smalltown.com/builtin=true).
Listed(k) == {o \in api[k] : o.lab}

\* Variant: the create loop's membership test is inverted.
PendingCreatesFlipped(k) == {o \in Builtin[k] : o.name \in Names(Listed(k))}

\* expectedMap entries missing from availableMap.
PendingCreates(k) == {o \in Builtin[k] : o.name \notin Names(Listed(k))}

\* availableMap entries missing from expectedMap.
PendingDeletes(k) == Names(Listed(k)) \ BuiltinNames(k)

\* The function returns (nil or the error of the last call).
Return(k, res) ==
    /\ result' = [result EXCEPT ![k] = res]
    /\ rk' = NoKind /\ pendC' = {} /\ pendD' = {}

\* An injected failure of an API call: the call changes nothing.
Fail == failures < MaxFailures /\ failures' = failures + 1

\* reconcile(): the next kind of this tick, in map order; its List.
List(k) ==
    /\ rk = NoKind /\ k \in todo
    /\ todo' = todo \ {k}
    /\ \/ Fail /\ result' = [result EXCEPT ![k] = "err"]
          /\ UNCHANGED <<rk, pendC, pendD>>
       \/ rk' = k /\ pendC' = PendingCreates(k) /\ pendD' = PendingDeletes(k)
          /\ UNCHANGED <<result, failures>>
    /\ UNCHANGED <<api, admin>>

CreateOK(k, o) ==
    /\ rk = k /\ o \in pendC
    /\ o.name \notin Names(api[k])
    /\ api' = [api EXCEPT ![k] = @ \cup {o}]
    /\ pendC' = pendC \ {o}
    /\ UNCHANGED <<result, todo, rk, pendD, admin, failures>>

\* Create of one pending object, in map order: it succeeds, fails with
\* AlreadyExists (an object of that name exists, labelled or not), or fails.
Create(k, o) ==
    \/ CreateOK(k, o)
    \/ /\ rk = k /\ o \in pendC
       /\ \/ o.name \in Names(api[k]) /\ UNCHANGED failures
          \/ Fail
       /\ Return(k, "err")
       /\ UNCHANGED <<api, todo, admin>>

\* Delete(name) of one pending name, once every create succeeded. It
\* removes whatever object has that name now; NotFound if there is none.
Delete(k, n) ==
    /\ rk = k /\ pendC = {} /\ n \in pendD
    /\ \/ /\ n \in Names(api[k])
          /\ api' = [api EXCEPT ![k] = {o \in @ : o.name # n}]
          /\ pendD' = pendD \ {n}
          /\ UNCHANGED <<result, rk, pendC, failures>>
       \/ /\ \/ n \notin Names(api[k]) /\ UNCHANGED failures
             \/ Fail
          /\ Return(k, "err") /\ UNCHANGED api
    /\ UNCHANGED <<todo, admin>>

\* return nil
Finish(k) ==
    /\ rk = k /\ pendC = {} /\ pendD = {}
    /\ Return(k, "ok")
    /\ UNCHANGED <<api, todo, admin, failures>>

\* A whole reconcile function: the same List, create loop and delete loop
\* for every kind.
ReconcileCall(k) ==
    \/ List(k) \/ Finish(k)
    \/ \E o \in Builtin[k] : Create(k, o)
    \/ \E n \in {o.name : o \in Object} : Delete(k, n)

\* The ticker fires once every kind of the last tick was reconciled.
Tick ==
    /\ rk = NoKind /\ todo = {}
    /\ todo' = Kinds
    /\ UNCHANGED <<api, result, rk, pendC, pendD, admin, failures>>

-----------------------------------------------------------------------------
(* Administrators: delete any object, or create a foreign one.            *)

AdminDelete(k, o) ==
    /\ admin < MaxAdmin /\ o \in api[k]
    /\ api' = [api EXCEPT ![k] = @ \ {o}]
    /\ admin' = admin + 1
    /\ UNCHANGED <<result, todo, rk, pendC, pendD, failures>>

AdminCreate(k, o) ==
    /\ admin < MaxAdmin /\ o.name \notin Names(api[k])
    /\ api' = [api EXCEPT ![k] = @ \cup {o}]
    /\ admin' = admin + 1
    /\ UNCHANGED <<result, todo, rk, pendC, pendD, failures>>

Reconciler == Tick \/ \E k \in Kinds : ReconcileCall(k)

Next ==
    \/ Reconciler
    \/ \E k \in Kinds, o \in Object : AdminDelete(k, o)
    \/ \E k \in Kinds, o \in Foreign : AdminCreate(k, o)

\* The ticker fires forever and the goroutine keeps running. Go randomizes
\* map iteration on every range, so a create loop that reaches an object
\* it can still create before an AlreadyExists keeps recurring.
Fairness ==
    /\ WF_vars(Reconciler)
    /\ \A k \in Kinds : SF_vars(\E o \in Builtin[k] : CreateOK(k, o))

Spec == Init /\ [][Next]_vars /\ Fairness

-----------------------------------------------------------------------------
(* Properties.                                                             *)

\* Once administrators stop, every built-in object eventually exists for
\* good: the List/Create loop restores deleted objects despite failed
\* calls, AlreadyExists errors and random map order.
BuiltinsConverge ==
    <>[](\A k \in Kinds : BuiltinNames(k) \subseteq Names(api[k]))

\* The reconciler never deletes a built-in object or an object without the
\* builtin label (the package comment leaves those to administrators),
\* although its Deletes go by the names of an earlier List while
\* administrators delete and create objects in between.
DeletesOnlyStrays ==
    [][admin' = admin =>
         \A k \in Kinds : \A o \in api[k] \ api'[k] :
             o.lab /\ o.name \notin BuiltinNames(k)]_vars

\* Once administrators stop, no object carrying the builtin label that is
\* not built in survives: the package comment makes every labelled object
\* the reconciler's, and the delete loop removes the others.
StraysRemoved ==
    <>[](\A k \in Kinds : \A o \in api[k] : o.lab => o.name \in BuiltinNames(k))

=============================================================================
