---------------------------- MODULE SecretAccess ----------------------------
(***************************************************************************)
(* How the operator reads the TLS Secrets of Gateway listeners: the cache  *)
(* per namespace (src/internal/secrets/access.go), the two controllers     *)
(* that point it at namespaces and grant it access there                   *)
(* (src/internal/controller/gateway_secrets_controller.go), and the        *)
(* Gateway controller as the reader of the certificates.                   *)
(*                                                                         *)
(* A Gateway has one certificateRef, a namespace one Secret a Gateway may  *)
(* name, and a Gateway's status is what it reports of its certificate.     *)
(* Gateways and ReferenceGrants are the informer's copies: every reader of *)
(* this module reads those.                                                *)
(***************************************************************************)
EXTENDS Naturals, FiniteSets

CONSTANTS
  Gateway,
  Ns,
  Home,       \* Home[g]: the namespace of Gateway g
  SpecsOf,    \* SpecsOf[g]: what Gateway g may become, Nil if it may go
  GrantsOf,   \* the ReferenceGrants there are at first, which users remove and add again
  Start,      \* the Gateways that exist when the operator starts
  Meddled,    \* the RoleBindings that others write: pairs of a key and a value
  MaxVersion, \* how often a Secret changes
  Policies,   \* whether the chart's admission policy is installed, in which instances
  Budget,     \* how often the environment may act, by kind: the allowed combinations
  Nil

Kinds == {"gateway", "grant", "secret", "binding", "fault"}

\* The RoleBindings of a namespace: the one named after the ClusterRole, and one
\* of another name.
Role == "role"
Key == Ns \X {Role, "stray"}

\* role: whether it binds the operator's ClusterRole; label and subject likewise.
Binding == [role : BOOLEAN, label : BOOLEAN, subject : BOOLEAN]
Spec1 == [ours : BOOLEAN, deleting : BOOLEAN, ref : Ns]
Version == 0..MaxVersion          \* 0: there is no such Secret of type kubernetes.io/tls
View == [state : {"none", "denied", "unavailable", "read"}, at : Version]
NamespaceCache == [synced : BOOLEAN, content : Version \cup {Nil}]

ASSUME ConstantsAssumption ==
  /\ Home \in [Gateway -> Ns]
  /\ SpecsOf \in [Gateway -> SUBSET (Spec1 \cup {Nil})] /\ GrantsOf \subseteq Ns \X Ns
  /\ Meddled \subseteq Key \X (Binding \cup {Nil})
  /\ Start \in [Gateway -> Spec1 \cup {Nil}]
  /\ MaxVersion \in Nat \ {0} /\ Policies \subseteq BOOLEAN
  /\ Budget \subseteq [Kinds -> Nat]
  /\ Nil \notin Spec1 /\ Nil \notin Binding /\ Nil \notin Version /\ Nil \notin NamespaceCache
  /\ Nil \notin Gateway /\ \A N \in SUBSET Ns : N # Nil

VARIABLES
  gw,           \* the Gateways
  grants,       \* the ReferenceGrants: <<f, t>> lets Gateways in f name Secrets in t
  secret,       \* the Secrets at the API server
  binding,      \* the RoleBindings at the API server
  listed,       \* the informer's copies of the labelled ones
  news,         \* the changes to labelled ones that it has not delivered yet
  policy,       \* whether the admission policy guards RoleBindings
  namespaces,   \* Access.namespaces
  watchQueued,  \* whether GatewaySecretWatchReconciler has a request
  watchWant,    \* the namespaces that its worker read, Nil between reconciles
  accessQueued, \* the same for GatewaySecretAccessReconciler
  accessWant,
  revoke,       \* the RoleBindings that its worker has to delete
  bind,         \* the namespaces that it has to bind
  lapsed,       \* history: the namespaces not wanted at some time since it read them
  gwQueue,      \* the Gateways waiting to be reconciled
  job,          \* the Gateway being reconciled, and the namespace of its certificate
  got,          \* the cache that Get has picked: live, or stopped with what it held
  view,         \* the status of each Gateway
  spent         \* how much of each budget is used up

worldVars  == <<gw, grants, secret, policy>>
watchVars  == <<namespaces, watchQueued, watchWant>>
accessVars == <<binding, listed, news, accessQueued, accessWant, revoke, bind, lapsed>>
gwVars     == <<gwQueue, job, got, view>>
vars == <<worldVars, watchVars, accessVars, gwVars, spent>>

NoJob == [gw |-> Nil, ns |-> Nil]

TypeOK ==
  /\ gw \in [Gateway -> Spec1 \cup {Nil}]
  /\ grants \subseteq Ns \X Ns
  /\ secret \in [Ns -> Version]
  /\ binding \in [Key -> Binding \cup {Nil}] /\ listed \in [Key -> Binding \cup {Nil}]
  /\ news \subseteq Key /\ revoke \subseteq Key
  /\ policy \in BOOLEAN /\ watchQueued \in BOOLEAN /\ accessQueued \in BOOLEAN
  /\ namespaces \in [Ns -> NamespaceCache \cup {Nil}]
  /\ watchWant # Nil => watchWant \subseteq Ns
  /\ accessWant # Nil => accessWant \subseteq Ns
  /\ bind \subseteq Ns /\ lapsed \subseteq Ns
  /\ gwQueue \subseteq Gateway
  /\ job \in [gw : Gateway, ns : Ns] \cup {NoJob}
  /\ got \in [live : BOOLEAN, at : Version] \cup {Nil}
  /\ view \in [Gateway -> View]
  /\ spent \in [Kinds -> Nat]
  /\ \A n \in Ns : namespaces[n] # Nil /\ namespaces[n].synced => namespaces[n].content # Nil

-----------------------------------------------------------------------------
(* Which namespaces Gateways take certificates from *)

\* Permitted, for a Gateway that refers to a Secret.
Permitted(from, to) == from = to \/ <<from, to>> \in grants

OurGateways == {g \in Gateway : gw[g] # Nil /\ gw[g].ours}

Live == {g \in OurGateways : ~gw[g].deleting}

CertificateNamespaces == {gw[g].ref : g \in {h \in Live : Permitted(Home[h], gw[h].ref)}}

-----------------------------------------------------------------------------
OurBinding == [role |-> TRUE, label |-> TRUE, subject |-> TRUE]

\* What Gateway g would report of its certificate if it read it now.
Truth(g) == IF g \notin Live THEN [state |-> "none", at |-> 0]
            ELSE IF Permitted(Home[g], gw[g].ref) THEN [state |-> "read", at |-> secret[gw[g].ref]]
            ELSE [state |-> "denied", at |-> 0]

\* The operator has served the Gateways of Start; Restart begins anew.
Init ==
  /\ gw = Start /\ grants = GrantsOf
  /\ secret = [n \in Ns |-> 1]
  /\ binding = [k \in Key |-> IF k[1] \in CertificateNamespaces /\ k[2] = Role THEN OurBinding ELSE Nil]
  /\ listed = binding /\ news = {}
  /\ policy \in Policies
  /\ namespaces = [n \in Ns |-> IF n \in CertificateNamespaces THEN [synced |-> TRUE, content |-> secret[n]] ELSE Nil]
  /\ watchQueued = FALSE /\ watchWant = Nil
  /\ accessQueued = FALSE /\ accessWant = Nil /\ revoke = {} /\ bind = {} /\ lapsed = {}
  /\ gwQueue = {} /\ job = NoJob /\ got = Nil
  /\ view = [g \in Gateway |-> Truth(g)]
  /\ spent = [k \in Kinds |-> 0]

-----------------------------------------------------------------------------
(* GatewaySecretWatchReconciler and Access *)

\* Every subscriber is handed an event, which stands for every Gateway of ours.
NotifyLocked == gwQueue' = gwQueue \cup OurGateways

ReadWatched ==
  /\ watchQueued /\ watchWant = Nil
  /\ watchQueued' = FALSE
  /\ watchWant' = CertificateNamespaces
  /\ UNCHANGED <<worldVars, namespaces, accessVars, gwVars, spent>>

Stopped == {n \in Ns : namespaces[n] # Nil /\ n \notin watchWant}
Missing == {n \in watchWant : namespaces[n] = Nil}

\* The unwanted caches are stopped and those in `started' are started.  A Get that has
\* picked a cache which is stopped now goes on to read what it held.
Rewatch(started) ==
  /\ namespaces' = [n \in Ns |-> IF n \in Stopped THEN Nil
                                 ELSE IF n \in started THEN [synced |-> FALSE, content |-> Nil]
                                 ELSE namespaces[n]]
  /\ got' = IF got # Nil /\ got.live /\ job.ns \in Stopped
            THEN [live |-> FALSE, at |-> namespaces[job.ns].content] ELSE got
  /\ watchWant' = Nil
  /\ UNCHANGED <<worldVars, accessVars, job, view>>

\* Access.mu is held from the first stopped cache to the last notification.
SetNamespaces ==
  /\ watchWant # Nil
  /\ Rewatch(Missing)
  /\ IF Stopped = {} THEN UNCHANGED gwQueue ELSE NotifyLocked
  /\ UNCHANGED <<watchQueued, spent>>

Spend(k) ==
  /\ spent' = [spent EXCEPT ![k] = @ + 1]
  /\ spent' \in Budget

\* A cache cannot be started: the error comes before the notifications.
SetNamespacesFails(started) ==
  /\ watchWant # Nil /\ started \subseteq Missing /\ started # Missing
  /\ Spend("fault")
  /\ Rewatch(started)
  /\ watchQueued' = TRUE
  /\ UNCHANGED gwQueue

\* The operator may list and watch the Secrets of n.
Granted(n) == LET b == binding[<<n, Role>>] IN b # Nil /\ b.role /\ b.subject

\* The first list succeeds, and each Secret in it is an Add event.
ListSecrets(n) ==
  /\ namespaces[n] # Nil /\ namespaces[n].content = Nil /\ Granted(n)
  /\ namespaces' = [namespaces EXCEPT ![n].content = secret[n]]
  /\ IF secret[n] = 0 THEN UNCHANGED gwQueue ELSE NotifyLocked
  /\ UNCHANGED <<worldVars, watchQueued, watchWant, accessVars, job, got, view, spent>>

\* Variant: the cache becomes readable without a word to the Gateways.
CacheSyncedSilently(n) ==
  /\ namespaces[n] # Nil /\ namespaces[n].content # Nil /\ ~namespaces[n].synced
  /\ namespaces' = [namespaces EXCEPT ![n].synced = TRUE]
  /\ UNCHANGED <<worldVars, watchQueued, watchWant, accessVars, gwVars, spent>>

CacheSynced(n) ==
  /\ namespaces[n] # Nil /\ namespaces[n].content # Nil /\ ~namespaces[n].synced
  /\ namespaces' = [namespaces EXCEPT ![n].synced = TRUE]
  /\ NotifyLocked
  /\ UNCHANGED <<worldVars, watchQueued, watchWant, accessVars, job, got, view, spent>>

\* The informer's handlers; an open watch may outlive the RoleBinding.
SecretEvent(n) ==
  /\ namespaces[n] # Nil /\ namespaces[n].content \notin {Nil, secret[n]}
  /\ namespaces' = [namespaces EXCEPT ![n].content = secret[n]]
  /\ NotifyLocked
  /\ UNCHANGED <<worldVars, watchQueued, watchWant, accessVars, job, got, view, spent>>

-----------------------------------------------------------------------------
(* GatewaySecretAccessReconciler *)

Labelled(b) == b # Nil /\ b.label
Write(k, b) ==
  /\ binding' = [binding EXCEPT ![k] = b]
  /\ news' = IF b # binding[k] /\ (Labelled(b) \/ Labelled(binding[k])) THEN news \cup {k} ELSE news

\* Reconcile returns; q says whether there is a request afterwards.
AccessReturn(q) == /\ accessWant' = Nil /\ revoke' = {} /\ bind' = {} /\ lapsed' = {}
                   /\ accessQueued' = q

\* Variant: nothing is revoked.
ReadAccessKeeps ==
  /\ accessQueued /\ accessWant = Nil
  /\ accessQueued' = FALSE
  /\ accessWant' = CertificateNamespaces /\ bind' = CertificateNamespaces /\ revoke' = {}
  /\ lapsed' = Ns \ CertificateNamespaces
  /\ UNCHANGED <<worldVars, watchVars, binding, listed, news, gwVars, spent>>

ReadAccess ==
  /\ accessQueued /\ accessWant = Nil
  /\ accessQueued' = FALSE
  /\ accessWant' = CertificateNamespaces
  /\ bind' = CertificateNamespaces
  /\ revoke' = {k \in Key : listed[k] # Nil /\ ~(k[1] \in CertificateNamespaces /\ k[2] = Role)}
  /\ lapsed' = Ns \ CertificateNamespaces
  /\ UNCHANGED <<worldVars, watchVars, binding, listed, news, gwVars, spent>>

\* Variant: a failed list reads as no Gateways.
ReadFailsAsNone ==
  /\ accessQueued /\ accessWant = Nil /\ Spend("fault")
  /\ accessQueued' = TRUE
  /\ accessWant' = {} /\ bind' = {}
  /\ revoke' = {k \in Key : listed[k] # Nil}
  /\ lapsed' = Ns \ CertificateNamespaces
  /\ UNCHANGED <<worldVars, watchVars, binding, listed, news, gwVars>>

\* A failed list is an error, "and must not read as no Gateways".
ReadFails ==
  /\ accessQueued /\ accessWant = Nil /\ Spend("fault")
  /\ AccessReturn(TRUE)
  /\ UNCHANGED <<worldVars, watchVars, binding, listed, news, gwVars>>

Refused(k) == policy /\ binding[k] # Nil /\ ~binding[k].role

\* Delete, by name.
Revoke(k) ==
  /\ accessWant # Nil /\ k \in revoke /\ ~Refused(k)
  /\ Write(k, Nil)
  /\ revoke' = revoke \ {k}
  /\ UNCHANGED <<worldVars, watchVars, listed, accessQueued, accessWant, bind, lapsed, gwVars, spent>>

RevokeRefused(k) ==
  /\ accessWant # Nil /\ k \in revoke /\ Refused(k)
  /\ AccessReturn(TRUE)
  /\ UNCHANGED <<worldVars, watchVars, binding, listed, news, gwVars, spent>>

\* A RoleBinding that binds another role is deleted, and n bound afterwards.
Replace(n) ==
  /\ accessWant # Nil /\ revoke = {} /\ n \in bind
  /\ binding[<<n, Role>>] # Nil /\ ~binding[<<n, Role>>].role /\ ~policy
  /\ Write(<<n, Role>>, Nil)
  /\ UNCHANGED <<worldVars, watchVars, listed, accessQueued, accessWant, revoke, bind, lapsed, gwVars, spent>>

\* Variant: the namespaces are bound in a fixed order.
BindInOrder(n) ==
  /\ accessWant # Nil /\ revoke = {} /\ n \in bind
  /\ n = CHOOSE m \in bind : TRUE
  /\ binding[<<n, Role>>] # Nil => binding[<<n, Role>>].role
  /\ Write(<<n, Role>>, OurBinding)
  /\ bind' = bind \ {n}
  /\ UNCHANGED <<worldVars, watchVars, listed, accessQueued, accessWant, revoke, lapsed, gwVars, spent>>

\* The RoleBinding is created, or updated as it is found at the API server.  A write
\* between the read and the update is a Conflict, an error like any other.
Bind(n) ==
  /\ accessWant # Nil /\ revoke = {} /\ n \in bind
  /\ binding[<<n, Role>>] # Nil => binding[<<n, Role>>].role
  /\ Write(<<n, Role>>, OurBinding)
  /\ bind' = bind \ {n}
  /\ UNCHANGED <<worldVars, watchVars, listed, accessQueued, accessWant, revoke, lapsed, gwVars, spent>>

BindRefused(n) ==
  /\ accessWant # Nil /\ revoke = {} /\ n \in bind /\ Refused(<<n, Role>>)
  /\ AccessReturn(TRUE)
  /\ UNCHANGED <<worldVars, watchVars, binding, listed, news, gwVars, spent>>

AccessDone ==
  /\ accessWant # Nil /\ revoke = {} /\ bind = {}
  /\ AccessReturn(accessQueued)
  /\ UNCHANGED <<worldVars, watchVars, binding, listed, news, gwVars, spent>>

AccessFails ==
  /\ accessWant # Nil /\ Spend("fault")
  /\ AccessReturn(TRUE)
  /\ UNCHANGED <<worldVars, watchVars, binding, listed, news, gwVars>>

SyncBinding(k) ==
  /\ k \in news
  /\ listed' = [listed EXCEPT ![k] = IF Labelled(binding[k]) THEN binding[k] ELSE Nil]
  /\ news' = news \ {k}
  /\ accessQueued' = TRUE
  /\ UNCHANGED <<worldVars, watchVars, binding, accessWant, revoke, bind, lapsed, gwVars, spent>>

-----------------------------------------------------------------------------
(* The Gateway controller, as far as it reads certificates *)

\* The status is written and the worker is free.
Report(g, s, v) ==
  /\ view' = [view EXCEPT ![g] = [state |-> s, at |-> v]]
  /\ job' = NoJob /\ got' = Nil

StartGateway(g) ==
  /\ job = NoJob /\ g \in gwQueue
  /\ gwQueue' = gwQueue \ {g}
  /\ IF g \notin Live THEN UNCHANGED <<job, got, view>>
     ELSE IF ~Permitted(Home[g], gw[g].ref) THEN Report(g, "denied", 0)
     ELSE job' = [gw |-> g, ns |-> gw[g].ref] /\ UNCHANGED <<got, view>>
  /\ UNCHANGED <<worldVars, watchVars, accessVars, spent>>

\* Variant: a cache is read before it has synced.
PickUnsynced ==
  /\ job # NoJob /\ got = Nil
  /\ IF namespaces[job.ns] # Nil
     THEN got' = [live |-> FALSE, at |-> namespaces[job.ns].content] /\ UNCHANGED <<job, view>>
     ELSE Report(job.gw, "unavailable", 0)
  /\ UNCHANGED <<worldVars, watchVars, accessVars, gwQueue, spent>>

\* Get, under the mutex.
Pick ==
  /\ job # NoJob /\ got = Nil
  /\ IF namespaces[job.ns] # Nil /\ namespaces[job.ns].synced
     THEN got' = [live |-> TRUE, at |-> 0] /\ UNCHANGED <<job, view>>
     ELSE Report(job.gw, "unavailable", 0)
  /\ UNCHANGED <<worldVars, watchVars, accessVars, gwQueue, spent>>

\* Get, after the unlock.
ReadSecret ==
  /\ got # Nil
  /\ Report(job.gw, "read", IF got.live THEN namespaces[job.ns].content ELSE got.at)
  /\ UNCHANGED <<worldVars, watchVars, accessVars, gwQueue, spent>>

\* The status cannot be written.
GatewayFails ==
  /\ job # NoJob /\ Spend("fault")
  /\ gwQueue' = gwQueue \cup {job.gw}
  /\ job' = NoJob /\ got' = Nil
  /\ UNCHANGED <<worldVars, watchVars, accessVars, view>>

-----------------------------------------------------------------------------
(* The environment *)

\* A watched object changes: both Secret controllers and the Gateways get requests.
Enqueue(gateways) ==
  /\ watchQueued' = TRUE /\ accessQueued' = TRUE
  /\ gwQueue' = gwQueue \cup gateways
  /\ lapsed' = IF accessWant = Nil THEN {} ELSE lapsed \cup (Ns \ CertificateNamespaces')
  /\ UNCHANGED <<secret, policy, namespaces, watchWant, binding, listed, news, accessWant,
                 revoke, bind, job, got>>

GatewayChanges(g, s) ==
  /\ gw[g] # s /\ Spend("gateway")
  /\ gw' = [gw EXCEPT ![g] = s]
  /\ view' = IF s = Nil THEN [view EXCEPT ![g] = [state |-> "none", at |-> 0]] ELSE view
  /\ UNCHANGED grants
  /\ Enqueue({g})

GrantChanges(p) ==
  /\ Spend("grant")
  /\ grants' = IF p \in grants THEN grants \ {p} ELSE grants \cup {p}
  /\ UNCHANGED <<gw, view>>
  /\ Enqueue(OurGateways)

SecretChanges(n, v) ==
  /\ secret[n] # v /\ Spend("secret")
  /\ secret' = [secret EXCEPT ![n] = v]
  /\ UNCHANGED <<gw, grants, policy, watchVars, accessVars, gwVars>>

BindingMeddled(k, b) ==
  /\ binding[k] # b /\ Spend("binding")
  /\ Write(k, b)
  /\ UNCHANGED <<worldVars, watchVars, listed, accessQueued, accessWant, revoke, bind, lapsed, gwVars>>

\* Everything in memory is lost; the informers list again and every Gateway is queued.
Restart ==
  /\ Spend("fault")
  /\ namespaces' = [n \in Ns |-> Nil] /\ watchQueued' = TRUE /\ watchWant' = Nil
  /\ listed' = [k \in Key |-> IF Labelled(binding[k]) THEN binding[k] ELSE Nil] /\ news' = {}
  /\ AccessReturn(TRUE)
  /\ gwQueue' = {g \in Gateway : gw[g] # Nil} /\ job' = NoJob /\ got' = Nil
  /\ UNCHANGED <<worldVars, binding, view>>

WatchStep  == ReadWatched \/ SetNamespaces
AccessStep == \/ ReadAccess \/ AccessDone
              \/ \E k \in Key : Revoke(k) \/ RevokeRefused(k)
              \/ \E n \in Ns : Replace(n) \/ Bind(n) \/ BindRefused(n)
GatewayStep == Pick \/ ReadSecret \/ \E g \in Gateway : StartGateway(g)
CacheStep(n) == ListSecrets(n) \/ CacheSynced(n) \/ SecretEvent(n)

Environment ==
  \/ \E g \in Gateway : \E s \in SpecsOf[g] : GatewayChanges(g, s)
  \/ \E p \in GrantsOf : GrantChanges(p)
  \/ \E n \in Ns, v \in Version : SecretChanges(n, v)
  \/ \E m \in Meddled : BindingMeddled(m[1], m[2])
  \/ \E started \in SUBSET Ns : SetNamespacesFails(started)
  \/ ReadFails \/ AccessFails \/ GatewayFails \/ Restart

Next ==
  \/ WatchStep \/ AccessStep \/ GatewayStep
  \/ \E n \in Ns : CacheStep(n)
  \/ \E k \in Key : SyncBinding(k)
  \/ Environment

Spec == Init /\ [][Next]_vars

\* What is left to do besides GatewaySecretAccessReconciler, which may retry for ever.
OtherStep ==
  \/ WatchStep \/ GatewayStep
  \/ \E k \in Key : SyncBinding(k)
  \/ \E n \in Ns : CacheSynced(n) \/ (Granted(n) /\ CacheStep(n))

(***************************************************************************)
(* Each controller has a worker and informers deliver what they may read;  *)
(* one condition does for all of them, because what they do comes to an    *)
(* end.  Go visits the namespaces of a map in an order that differs from   *)
(* one loop to the next, so none is always behind another that fails.      *)
(***************************************************************************)
FairSpec ==
  /\ Spec
  /\ WF_vars(OtherStep) /\ WF_vars(AccessStep)
  /\ \A n \in Ns : SF_vars(Bind(n))

-----------------------------------------------------------------------------
(* Properties *)

\* Gateway g reports what is true of its certificate.
Reports(g) == g \in Live => view[g] = Truth(g)

Quiet ==
  /\ ~watchQueued /\ watchWant = Nil /\ ~accessQueued /\ accessWant = Nil
  /\ gwQueue = {} /\ job = NoJob /\ news = {}
  /\ \A n \in Ns : namespaces[n] # Nil /\ Granted(n)
                   => namespaces[n].synced /\ namespaces[n].content = secret[n]

(***************************************************************************)
(* Every Gateway has the certificate it may have.  Notifications are the   *)
(* only thing that brings a Gateway back to a Secret: once nothing is left *)
(* to do, no Gateway reports a Secret that has changed, a namespace that   *)
(* it may read by now, or one it may not read any more, whether a Get read *)
(* a cache that SetNamespaces had stopped, or SetNamespaces failed half    *)
(* way and notified nobody.                                                *)
(***************************************************************************)
QuietMeansReported == Quiet => \A g \in Gateway : Reports(g)

(***************************************************************************)
(* GatewaySecretAccessReconciler grants access in the namespaces that      *)
(* GatewaySecretWatchReconciler watches, "and only those": once nothing is *)
(* left to do, the namespaces with a cache, those bound and those Gateways *)
(* take certificates from are the same, and no binding with the label is   *)
(* left anywhere else.                                                     *)
(***************************************************************************)
QuietMeansOnlyThose ==
  Quiet => /\ {n \in Ns : namespaces[n] # Nil} = CertificateNamespaces
           /\ \A n \in CertificateNamespaces : Granted(n)
           /\ \A k \in Key : Labelled(binding[k]) => k[1] \in CertificateNamespaces /\ k[2] = Role

(***************************************************************************)
(* certificateNamespaces: "a failed list must not read as no Gateways and  *)
(* revoke every binding".  The worker takes the operator's access away     *)
(* only from a namespace that no Gateway took certificates from at some    *)
(* time since the worker read them.                                        *)
(***************************************************************************)
WantedAccessStays ==
  [][\A n \in Ns : accessWant # Nil /\ revoke' # revoke /\ Granted(n) /\ ~Granted(n)' => n \in lapsed]_vars

\* The policy keeps the operator from the RoleBinding in the way of namespace n, or from
\* a labelled one that it must delete before it binds anything.
Blocked(n) ==
  policy /\ (Refused(<<n, Role>>)
             \/ \E k \in Key : /\ Labelled(binding[k]) /\ ~binding[k].role
                               /\ ~(k[1] \in CertificateNamespaces /\ k[2] = Role))

(***************************************************************************)
(* Once the environment leaves it alone, every Gateway comes to report its *)
(* certificate and keeps reporting it.  A RoleBinding to another role in   *)
(* the way of one namespace does not cost the Gateways with certificates   *)
(* in others; a labelled one that cannot be deleted does, since Reconcile  *)
(* gives up before it binds any.                                           *)
(***************************************************************************)
ComesToRest ==
  <>[](\A g \in Gateway : (gw[g] # Nil => ~Blocked(gw[g].ref)) => Reports(g))
=============================================================================
