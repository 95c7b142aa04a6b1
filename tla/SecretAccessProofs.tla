------------------------- MODULE SecretAccessProofs -------------------------
(* Proofs about SecretAccess, for every set of Gateways, namespaces and grants. *)
EXTENDS SecretAccess, TLAPS

USE ConstantsAssumption

-----------------------------------------------------------------------------
(* The inductive invariant, part by part *)

Synced(n) == namespaces[n] # Nil /\ namespaces[n].synced

\* A Get that has picked a live cache reads one that is synced.
LocalsOK ==
  /\ got # Nil => job # NoJob
  /\ got # Nil /\ got.live => Synced(job.ns)

TypeInv == TypeOK /\ LocalsOK

\* The cache of RoleBindings is behind only where an event is under way.
ListedInv == \A k \in Key \ news : listed[k] = IF Labelled(binding[k]) THEN binding[k] ELSE Nil

\* Access watches what Gateways want, or the watch controller is going to see to it.
WatchInv ==
  ~watchQueued => IF watchWant = Nil THEN {n \in Ns : namespaces[n] # Nil} = CertificateNamespaces
                                     ELSE watchWant = CertificateNamespaces

\* What the access worker has to do comes from what it read.
RevokeInv ==
  IF accessWant = Nil THEN revoke = {} /\ bind = {}
  ELSE /\ \A k \in revoke : ~(k[1] \in accessWant /\ k[2] = Role)
       /\ bind \subseteq accessWant /\ Ns \ accessWant \subseteq lapsed

\* Every RoleBinding is as it should be, is going to be written, or has an event to come.
AccessInv ==
  ~accessQueued =>
    /\ accessWant # Nil => accessWant = CertificateNamespaces
    /\ \A k \in Key \ news :
         IF k[1] \in CertificateNamespaces /\ k[2] = Role
         THEN k[1] \in bind \/ binding[k] = OurBinding
         ELSE Labelled(binding[k]) => k \in revoke

(***************************************************************************)
(* A Gateway of ours that is not queued is being reconciled from what is   *)
(* true now, or reports what the cache of its namespace holds, if that has *)
(* synced.  A Get from a stopped cache is harmless: the next cache of the  *)
(* namespace notifies when it has synced.                                  *)
(***************************************************************************)
ViewInv ==
  \A g \in Live \ gwQueue :
    LET n == gw[g].ref
        allowed == Permitted(Home[g], n)
    IN  IF job.gw = g THEN allowed /\ job.ns = n /\ (got # Nil /\ ~got.live => ~Synced(n))
        ELSE IF allowed THEN Synced(n) => view[g] = [state |-> "read", at |-> namespaces[n].content]
        ELSE view[g] = [state |-> "denied", at |-> 0]

-----------------------------------------------------------------------------
(* The operators *)

LEMMA NamespacesType ==
  ASSUME TypeOK
  PROVE  /\ CertificateNamespaces \subseteq Ns /\ CertificateNamespaces # Nil
         /\ \A g \in Live : gw[g] \in Spec1 /\ gw[g].ref \in Ns
         /\ Live \subseteq OurGateways /\ OurGateways \subseteq Gateway
<1>1. \A g \in OurGateways : gw[g] \in Spec1 /\ gw[g].ref \in Ns
  BY DEF OurGateways, TypeOK, Spec1
<1>2. Live \subseteq OurGateways /\ OurGateways \subseteq Gateway
  BY DEF Live, OurGateways
<1>3. CertificateNamespaces \subseteq Ns
  BY <1>1, <1>2 DEF CertificateNamespaces
<1>. QED BY <1>1, <1>2, <1>3

LEMMA WriteEffect ==
  ASSUME TypeOK, NEW k \in Key, NEW b \in Binding \cup {Nil}, Write(k, b)
  PROVE  /\ binding' \in [Key -> Binding \cup {Nil}] /\ binding'[k] = b
         /\ \A j \in Key \ {k} : binding'[j] = binding[j]
         /\ news' \subseteq Key /\ news \subseteq news' /\ news' \subseteq news \cup {k}
         /\ k \in news' \/ b = binding[k] \/ (~Labelled(b) /\ ~Labelled(binding[k]))
BY DEF Write, TypeOK

LEMMA SpendType == ASSUME TypeOK, NEW k \in Kinds, Spend(k) PROVE spent' \in [Kinds -> Nat]
<1>1. spent \in [Kinds -> Nat] /\ spent' = [spent EXCEPT ![k] = spent[k] + 1]
  BY DEF TypeOK, Spend
<1>. QED BY <1>1

LEMMA OurBindingType == OurBinding \in Binding /\ OurBinding # Nil /\ Labelled(OurBinding)
<1>1. OurBinding \in Binding
  BY DEF OurBinding, Binding
<1>2. OurBinding # Nil
  BY <1>1
<1>. QED BY <1>1, <1>2 DEF OurBinding, Labelled

LEMMA RoleKey == \A n \in Ns : <<n, Role>> \in Key
BY DEF Key, Role

\* A view is a view.
LEMMA ReportType ==
  ASSUME TypeOK, NEW g \in Gateway, NEW s \in {"none", "denied", "unavailable", "read"}, NEW v \in Version,
         Report(g, s, v)
  PROVE  view' \in [Gateway -> View] /\ job' = NoJob /\ got' = Nil
<1>1. [state |-> s, at |-> v] \in View
  BY DEF View
<1>. QED BY <1>1 DEF Report, TypeOK

\* What a cache of a namespace may be.
LEMMA CacheFields ==
  /\ [synced |-> FALSE, content |-> Nil] \in NamespaceCache
  /\ \A c \in NamespaceCache :
       /\ c # Nil /\ c.synced \in BOOLEAN /\ c.content \in Version \cup {Nil}
       /\ [c EXCEPT !.synced = TRUE] \in NamespaceCache
       /\ [c EXCEPT !.synced = TRUE].synced /\ [c EXCEPT !.synced = TRUE].content = c.content
BY DEF NamespaceCache

LEMMA WithContent ==
  ASSUME NEW c \in NamespaceCache, NEW v \in Version
  PROVE  /\ [c EXCEPT !.content = v] \in NamespaceCache
         /\ [c EXCEPT !.content = v].content = v
         /\ [c EXCEPT !.content = v].synced = c.synced
BY DEF NamespaceCache

\* Every synced cache has been listed.
Listed == \A n \in Ns : Synced(n) => namespaces[n].content # Nil

LEMMA SyncedContent == ASSUME TypeOK, NEW n \in Ns, Synced(n) PROVE namespaces[n].content \in Version
<1>1. namespaces[n] \in NamespaceCache /\ namespaces[n].content # Nil
  BY DEF TypeOK, Synced
<1>. QED BY <1>1, CacheFields

-----------------------------------------------------------------------------
(* Types *)

LEMMA InitType == Init => TypeInv
<1>. SUFFICES ASSUME Init PROVE TypeInv
  OBVIOUS
<1>1. gw \in [Gateway -> Spec1 \cup {Nil}] /\ grants \subseteq Ns \X Ns
  BY DEF Init
<1>2. secret \in [Ns -> Version] /\ 0 \in Version /\ 1 \in Version
  BY DEF Init, Version
<1>3. binding \in [Key -> Binding \cup {Nil}] /\ listed \in [Key -> Binding \cup {Nil}]
  BY OurBindingType DEF Init
<1>4. \A n \in Ns : [synced |-> TRUE, content |-> secret[n]] \in NamespaceCache
  BY <1>2 DEF NamespaceCache
<1>5. namespaces \in [Ns -> NamespaceCache \cup {Nil}] /\ Listed
  BY <1>2, <1>4, CacheFields DEF Init, Listed, Synced
<1>6. \A g \in Live : gw[g].ref \in Ns
  BY <1>1 DEF Live, OurGateways, Spec1
<1>7. \A g \in Gateway : Truth(g) \in View
  BY <1>2, <1>6 DEF Truth, View
<1>8. spent \in [Kinds -> Nat]
  BY DEF Init
<1>9. got = Nil /\ job = NoJob /\ watchWant = Nil /\ accessWant = Nil
  BY DEF Init
<1>10. view \in [Gateway -> View]
  BY <1>7 DEF Init
<1>. QED BY <1>1, <1>2, <1>3, <1>5, <1>8, <1>9, <1>10 DEF Init, TypeInv, TypeOK, LocalsOK, Listed, Synced

LEMMA RewatchType ==
  ASSUME TypeInv, watchWant # Nil, NEW started \in SUBSET Missing, Rewatch(started)
  PROVE  /\ namespaces' \in [Ns -> NamespaceCache \cup {Nil}] /\ Listed' /\ LocalsOK'
         /\ got' \in [live : BOOLEAN, at : Version] \cup {Nil}
<1>. USE DEF TypeInv, TypeOK
<1>1. started \subseteq Ns /\ \A n \in started : namespaces[n] = Nil
  BY DEF Missing
<1>2. namespaces' \in [Ns -> NamespaceCache \cup {Nil}]
  BY CacheFields DEF Rewatch
<1>3. \A n \in Ns : Synced(n)' => Synced(n) /\ namespaces'[n] = namespaces[n]
  BY CacheFields DEF Rewatch, Synced
<1>4. Listed'
  BY <1>3 DEF Listed, Synced
<1>5. CASE got # Nil /\ got.live /\ job.ns \in Stopped
  <2>1. got' = [live |-> FALSE, at |-> namespaces[job.ns].content] /\ job' = job
    BY <1>5 DEF Rewatch
  <2>2. job.ns \in Ns /\ Synced(job.ns)
    BY <1>5 DEF LocalsOK, Stopped
  <2>3. namespaces[job.ns].content \in Version
    BY <2>2, SyncedContent
  <2>4. ~got'.live /\ job' # NoJob
    BY <1>5, <2>1 DEF LocalsOK
  <2>. QED BY <1>2, <1>4, <2>1, <2>3, <2>4 DEF LocalsOK
<1>6. CASE ~(got # Nil /\ got.live /\ job.ns \in Stopped)
  <2>1. got' = got /\ job' = job
    BY <1>6 DEF Rewatch
  <2>2. got # Nil /\ got.live => Synced(job.ns)'
    <3>. SUFFICES ASSUME got # Nil, got.live PROVE Synced(job.ns)'
      BY <2>1
    <3>1. Synced(job.ns) /\ job.ns \in Ns /\ job.ns \notin Stopped
      BY <1>6 DEF LocalsOK, NoJob
    <3>2. namespaces'[job.ns] = namespaces[job.ns]
      BY <1>1, <3>1 DEF Rewatch, Synced
    <3>. QED BY <2>1, <3>1, <3>2 DEF Synced
  <2>. QED BY <1>2, <1>4, <2>1, <2>2 DEF LocalsOK, Synced
<1>. QED BY <1>5, <1>6

LEMMA WatchType ==
  ASSUME TypeInv, WatchStep \/ \E started \in SUBSET Ns : SetNamespacesFails(started)
  PROVE  TypeInv'
<1>1. CASE ReadWatched
  BY <1>1, NamespacesType DEF ReadWatched, worldVars, accessVars, gwVars, TypeInv, TypeOK, LocalsOK, Synced
<1>2. CASE SetNamespaces
  <2>1. Rewatch(Missing) /\ watchWant # Nil /\ UNCHANGED <<watchQueued, spent>>
    BY <1>2 DEF SetNamespaces
  <2>2. gwQueue' \subseteq Gateway
    BY <1>2, NamespacesType DEF SetNamespaces, NotifyLocked, TypeInv, TypeOK
  <2>. QED BY <2>1, <2>2, RewatchType DEF Rewatch, worldVars, accessVars, TypeInv, TypeOK, Listed, Synced
<1>3. ASSUME NEW started \in SUBSET Ns, SetNamespacesFails(started) PROVE TypeInv'
  <2>1. Rewatch(started) /\ watchWant # Nil /\ started \in SUBSET Missing /\ watchQueued' = TRUE /\ gwQueue' = gwQueue
    BY <1>3 DEF SetNamespacesFails
  <2>2. spent' \in [Kinds -> Nat]
    BY <1>3, SpendType DEF SetNamespacesFails, Kinds, TypeInv
  <2>. QED BY <2>1, <2>2, RewatchType DEF Rewatch, worldVars, accessVars, TypeInv, TypeOK, Listed, Synced
<1>. QED BY <1>1, <1>2, <1>3 DEF WatchStep

\* A step that leaves the caches and the Gateway's worker alone.
Aside == UNCHANGED <<gwVars, watchVars, worldVars>>

LEMMA AccessType ==
  ASSUME TypeInv, AccessStep \/ ReadFails \/ AccessFails \/ \E k \in Key : SyncBinding(k)
  PROVE  TypeInv'
<1>. USE DEF TypeInv
<1>1. Aside => LocalsOK' /\ UNCHANGED <<gw, grants, secret, policy, watchQueued, watchWant, namespaces, gwQueue, job, got, view>>
  BY DEF Aside, gwVars, watchVars, worldVars, LocalsOK, Synced
<1>2. CASE ReadAccess
  <2>1. Aside /\ UNCHANGED <<binding, listed, news, spent>>
    BY <1>2 DEF ReadAccess, Aside
  <2>. QED BY <1>1, <1>2, <2>1, NamespacesType DEF ReadAccess, TypeOK
<1>3. CASE AccessDone \/ (\E k \in Key : RevokeRefused(k)) \/ (\E n \in Ns : BindRefused(n))
  <2>1. Aside /\ UNCHANGED <<binding, listed, news, spent>> /\ \E q \in BOOLEAN : AccessReturn(q)
    BY <1>3 DEF AccessDone, RevokeRefused, BindRefused, Aside, TypeOK
  <2>. QED BY <1>1, <2>1 DEF AccessReturn, TypeOK
<1>4. CASE ReadFails \/ AccessFails
  <2>1. Aside /\ UNCHANGED <<binding, listed, news>> /\ AccessReturn(TRUE) /\ spent' \in [Kinds -> Nat]
    BY <1>4, SpendType DEF ReadFails, AccessFails, Aside, Kinds
  <2>. QED BY <1>1, <2>1 DEF AccessReturn, TypeOK
<1>5. ASSUME NEW k \in Key, Revoke(k) PROVE TypeInv'
  <2>1. Aside /\ Write(k, Nil)
    BY <1>5 DEF Revoke, Aside
  <2>. QED BY <1>1, <1>5, <2>1, WriteEffect DEF Revoke, TypeOK
<1>6. ASSUME NEW n \in Ns, Replace(n) PROVE TypeInv'
  <2>1. Aside /\ Write(<<n, Role>>, Nil)
    BY <1>6 DEF Replace, Aside
  <2>. QED BY <1>1, <1>6, <2>1, WriteEffect, RoleKey DEF Replace, TypeOK
<1>7. ASSUME NEW n \in Ns, Bind(n) PROVE TypeInv'
  <2>1. Aside /\ Write(<<n, Role>>, OurBinding)
    BY <1>7 DEF Bind, Aside
  <2>. QED BY <1>1, <1>7, <2>1, WriteEffect, RoleKey, OurBindingType DEF Bind, TypeOK
<1>8. ASSUME NEW k \in Key, SyncBinding(k) PROVE TypeInv'
  <2>1. Aside
    BY <1>8 DEF SyncBinding, Aside
  <2>. QED BY <1>1, <1>8, <2>1 DEF SyncBinding, TypeOK
<1>. QED BY <1>2, <1>3, <1>4, <1>5, <1>6, <1>7, <1>8 DEF AccessStep

LEMMA GatewayType ==
  ASSUME TypeInv, GatewayStep \/ GatewayFails
  PROVE  TypeInv'
<1>. USE DEF TypeInv
<1>0. 0 \in Version
  BY DEF Version
<1>1. CASE Pick
  <2>1. job \in [gw : Gateway, ns : Ns] /\ job # NoJob /\ UNCHANGED <<worldVars, watchVars, accessVars, gwQueue, spent>>
    BY <1>1 DEF Pick, TypeOK
  <2>2. CASE Synced(job.ns)
    <3>1. got' = [live |-> TRUE, at |-> 0] /\ UNCHANGED <<job, view>>
      BY <1>1, <2>2 DEF Pick, Synced
    <3>. QED BY <1>0, <2>1, <2>2, <3>1 DEF worldVars, watchVars, accessVars, TypeOK, LocalsOK, Synced
  <2>3. CASE ~Synced(job.ns)
    <3>1. Report(job.gw, "unavailable", 0)
      BY <1>1, <2>3 DEF Pick, Synced
    <3>. QED BY <1>0, <2>1, <3>1, ReportType DEF worldVars, watchVars, accessVars, TypeOK, LocalsOK
  <2>. QED BY <2>2, <2>3
<1>2. CASE ReadSecret
  <2>. DEFINE v == IF got.live THEN namespaces[job.ns].content ELSE got.at
  <2>1. job \in [gw : Gateway, ns : Ns] /\ UNCHANGED <<worldVars, watchVars, accessVars, gwQueue, spent>>
    BY <1>2 DEF ReadSecret, TypeOK, LocalsOK
  <2>2. v \in Version
    <3>1. got \in [live : BOOLEAN, at : Version] /\ (got.live => Synced(job.ns))
      BY <1>2 DEF ReadSecret, TypeOK, LocalsOK
    <3>2. got.live => namespaces[job.ns].content \in Version
      BY <2>1, <3>1, SyncedContent
    <3>. QED BY <3>1, <3>2
  <2>3. Report(job.gw, "read", v)
    BY <1>2 DEF ReadSecret
  <2>. HIDE DEF v
  <2>. QED BY <2>1, <2>2, <2>3, ReportType DEF worldVars, watchVars, accessVars, TypeOK, LocalsOK
<1>3. ASSUME NEW g \in Gateway, StartGateway(g) PROVE TypeInv'
  <2>1. job = NoJob /\ got = Nil /\ gwQueue' \subseteq Gateway /\ UNCHANGED <<worldVars, watchVars, accessVars, spent>>
    BY <1>3 DEF StartGateway, TypeOK, LocalsOK
  <2>2. \/ UNCHANGED <<job, got, view>>
        \/ Report(g, "denied", 0)
        \/ g \in Live /\ job' = [gw |-> g, ns |-> gw[g].ref] /\ UNCHANGED <<got, view>>
    BY <1>3 DEF StartGateway
  <2>3. view' \in [Gateway -> View] /\ job' \in [gw : Gateway, ns : Ns] \cup {NoJob} /\ got' = Nil
    BY <1>0, <2>1, <2>2, ReportType, NamespacesType DEF TypeOK
  <2>. QED BY <2>1, <2>3 DEF worldVars, watchVars, accessVars, TypeOK, LocalsOK
<1>4. CASE GatewayFails
  <2>1. gwQueue' \subseteq Gateway /\ spent' \in [Kinds -> Nat]
    BY <1>4, SpendType DEF GatewayFails, Kinds, TypeOK
  <2>. QED BY <1>4, <2>1 DEF GatewayFails, worldVars, watchVars, accessVars, TypeOK, LocalsOK
<1>. QED BY <1>1, <1>2, <1>3, <1>4 DEF GatewayStep

\* What a step of the cache of namespace n may do to it.
CacheMoves(n) ==
  /\ namespaces' \in [Ns -> NamespaceCache \cup {Nil}]
  /\ \A m \in Ns \ {n} : namespaces'[m] = namespaces[m]
  /\ namespaces[n] # Nil /\ namespaces'[n] # Nil /\ namespaces'[n].content = secret[n]
  /\ namespaces'[n].synced = namespaces[n].synced
  /\ (gwQueue' = gwQueue /\ namespaces[n].content = Nil) \/ NotifyLocked
  /\ Listed'
  /\ UNCHANGED <<worldVars, watchQueued, watchWant, accessVars, job, got, view, spent>>

LEMMA ContentMoves ==
  ASSUME TypeInv, NEW n \in Ns, ListSecrets(n) \/ SecretEvent(n)
  PROVE  CacheMoves(n)
<1>. DEFINE c == [namespaces[n] EXCEPT !.content = secret[n]]
<1>1. namespaces \in [Ns -> NamespaceCache \cup {Nil}] /\ namespaces[n] \in NamespaceCache /\ secret[n] \in Version
  BY DEF TypeInv, TypeOK, ListSecrets, SecretEvent
<1>2. c \in NamespaceCache /\ c # Nil /\ c.content = secret[n] /\ c.synced = namespaces[n].synced
  <2>1. c \in NamespaceCache /\ c.content = secret[n] /\ c.synced = namespaces[n].synced
    BY <1>1, WithContent
  <2>. QED BY <2>1
<1>3. namespaces' = [namespaces EXCEPT ![n] = c]
  <2>1. CASE ListSecrets(n)
    BY <2>1 DEF ListSecrets
  <2>2. CASE SecretEvent(n)
    BY <2>2 DEF SecretEvent
  <2>. QED BY <2>1, <2>2
<1>. HIDE DEF c
<1>4. namespaces' \in [Ns -> NamespaceCache \cup {Nil}] /\ namespaces'[n] = c /\ \A m \in Ns \ {n} : namespaces'[m] = namespaces[m]
  BY <1>1, <1>2, <1>3
<1>5. Listed'
  BY <1>1, <1>2, <1>4 DEF TypeInv, TypeOK, Listed, Synced
<1>. QED BY <1>1, <1>2, <1>4, <1>5 DEF CacheMoves, ListSecrets, SecretEvent

\* The cache of namespace n has synced.
SyncMoves(n) ==
  /\ namespaces' \in [Ns -> NamespaceCache \cup {Nil}]
  /\ \A m \in Ns \ {n} : namespaces'[m] = namespaces[m]
  /\ namespaces[n] # Nil /\ namespaces'[n] # Nil /\ namespaces'[n].synced
  /\ Listed' /\ NotifyLocked
  /\ UNCHANGED <<worldVars, watchQueued, watchWant, accessVars, job, got, view, spent>>

LEMMA SyncedMoves == ASSUME TypeInv, NEW n \in Ns, CacheSynced(n) PROVE SyncMoves(n)
<1>. DEFINE c == [namespaces[n] EXCEPT !.synced = TRUE]
<1>1. namespaces \in [Ns -> NamespaceCache \cup {Nil}] /\ namespaces[n] \in NamespaceCache /\ namespaces[n].content # Nil
  BY DEF TypeInv, TypeOK, CacheSynced
<1>2. c \in NamespaceCache /\ c # Nil /\ c.synced /\ c.content = namespaces[n].content
  BY <1>1, CacheFields
<1>3. namespaces' = [namespaces EXCEPT ![n] = c]
  BY DEF CacheSynced
<1>. HIDE DEF c
<1>4. namespaces' \in [Ns -> NamespaceCache \cup {Nil}] /\ namespaces'[n] = c /\ \A m \in Ns \ {n} : namespaces'[m] = namespaces[m]
  BY <1>1, <1>2, <1>3
<1>5. Listed'
  BY <1>1, <1>2, <1>4 DEF TypeInv, TypeOK, Listed, Synced
<1>. QED BY <1>1, <1>2, <1>4, <1>5 DEF SyncMoves, CacheSynced

LEMMA CacheType == ASSUME TypeInv, NEW n \in Ns, CacheStep(n) PROVE TypeInv'
<1>1. CASE ListSecrets(n) \/ SecretEvent(n)
  <2>1. CacheMoves(n) /\ gwQueue' \subseteq Gateway
    BY <1>1, ContentMoves, NamespacesType DEF CacheMoves, NotifyLocked, TypeInv, TypeOK
  <2>. QED BY <2>1 DEF CacheMoves, Listed, Synced, LocalsOK, worldVars, accessVars, TypeInv, TypeOK
<1>2. CASE CacheSynced(n)
  <2>1. SyncMoves(n) /\ gwQueue' \subseteq Gateway
    BY <1>2, SyncedMoves, NamespacesType DEF SyncMoves, NotifyLocked, TypeInv, TypeOK
  <2>. QED BY <2>1 DEF SyncMoves, Listed, Synced, LocalsOK, worldVars, accessVars, TypeInv, TypeOK
<1>. QED BY <1>1, <1>2 DEF CacheStep

LEMMA WorldType ==
  ASSUME TypeInv, \/ \E g \in Gateway : \E s \in SpecsOf[g] : GatewayChanges(g, s)
                  \/ \E p \in GrantsOf : GrantChanges(p)
                  \/ \E n \in Ns, v \in Version : SecretChanges(n, v)
                  \/ \E m \in Meddled : BindingMeddled(m[1], m[2])
                  \/ Restart
  PROVE  TypeInv'
<1>. USE DEF TypeInv, Kinds
<1>1. ASSUME NEW g \in Gateway, NEW s \in SpecsOf[g], GatewayChanges(g, s) PROVE TypeInv'
  <2>1. s \in Spec1 \cup {Nil} /\ [state |-> "none", at |-> 0] \in View /\ spent' \in [Kinds -> Nat]
    BY <1>1, SpendType DEF View, Version, GatewayChanges
  <2>. QED BY <1>1, <2>1 DEF GatewayChanges, Enqueue, TypeOK, LocalsOK, Synced
<1>2. ASSUME NEW p \in GrantsOf, GrantChanges(p) PROVE TypeInv'
  <2>1. OurGateways \subseteq Gateway /\ spent' \in [Kinds -> Nat]
    BY <1>2, NamespacesType, SpendType DEF GrantChanges
  <2>2. grants' \subseteq Ns \X Ns
    BY <1>2 DEF GrantChanges, TypeOK
  <2>. QED BY <1>2, <2>1, <2>2 DEF GrantChanges, Enqueue, TypeOK, LocalsOK, Synced
<1>3. ASSUME NEW n \in Ns, NEW v \in Version, SecretChanges(n, v) PROVE TypeInv'
  BY <1>3, SpendType DEF SecretChanges, watchVars, accessVars, gwVars, TypeOK, LocalsOK, Synced
<1>4. ASSUME NEW m \in Meddled, BindingMeddled(m[1], m[2]) PROVE TypeInv'
  <2>1. m[1] \in Key /\ m[2] \in Binding \cup {Nil}
    OBVIOUS
  <2>2. Write(m[1], m[2]) /\ Spend("binding")
    BY <1>4 DEF BindingMeddled
  <2>3. Aside /\ UNCHANGED <<listed, accessQueued, accessWant, revoke, bind, lapsed>>
    BY <1>4 DEF BindingMeddled, Aside
  <2>4. /\ binding' \in [Key -> Binding \cup {Nil}] /\ news' \subseteq Key /\ spent' \in [Kinds -> Nat]
    BY <2>1, <2>2, WriteEffect, SpendType
  <2>. QED BY <2>3, <2>4 DEF Aside, worldVars, watchVars, gwVars, TypeOK, LocalsOK, Synced
<1>5. CASE Restart
  <2>1. spent' \in [Kinds -> Nat]
    BY <1>5, SpendType DEF Restart
  <2>. QED BY <1>5, <2>1 DEF Restart, AccessReturn, worldVars, TypeOK, LocalsOK
<1>. QED BY <1>1, <1>2, <1>3, <1>4, <1>5

LEMMA NextType == TypeInv /\ [Next]_vars => TypeInv'
<1>1. TypeInv /\ UNCHANGED vars => TypeInv'
  BY DEF TypeInv, TypeOK, LocalsOK, Synced, vars, worldVars, watchVars, accessVars, gwVars
<1>. QED BY <1>1, WatchType, AccessType, GatewayType, CacheType, WorldType DEF Next, Environment

(***************************************************************************)
(* Every variable keeps its type: in particular a Get that goes on reading *)
(* the cache it picked under the mutex always finds one that has synced,   *)
(* and a synced cache has been listed (Access.Get, SetNamespaces).         *)
(***************************************************************************)
THEOREM TypeCorrect == Spec => []TypeOK
<1>1. TypeInv => TypeOK
  BY DEF TypeInv
<1>. QED BY <1>1, InitType, NextType, PTL DEF Spec

-----------------------------------------------------------------------------
(* The watch and the access controller *)

\* The steps, by what they leave alone.
InWatch   == WatchStep \/ (\E n \in Ns : CacheStep(n)) \/ \E started \in SUBSET Ns : SetNamespacesFails(started)
InGateway == GatewayStep \/ GatewayFails
InSecrets == \E n \in Ns, v \in Version : SecretChanges(n, v)
InWorld   == (\E g \in Gateway : \E s \in SpecsOf[g] : GatewayChanges(g, s)) \/ \E p \in GrantsOf : GrantChanges(p)
GivesUp   == ReadFails \/ AccessFails \/ (\E k \in Key : RevokeRefused(k)) \/ \E n \in Ns : BindRefused(n)
InBinding == (\E n \in Ns : Replace(n)) \/ \E m \in Meddled : BindingMeddled(m[1], m[2])

LEMMA Steps ==
  Next => \/ InWatch \/ InGateway \/ InSecrets \/ InWorld \/ GivesUp \/ InBinding
          \/ ReadAccess \/ AccessDone \/ Restart
          \/ (\E k \in Key : Revoke(k) \/ SyncBinding(k)) \/ \E n \in Ns : Bind(n)
BY DEF Next, Environment, AccessStep, InWatch, InGateway, InSecrets, InWorld, GivesUp, InBinding

LEMMA WatchLeaves == InWatch => UNCHANGED <<worldVars, accessVars>>
<1>1. ASSUME NEW n \in Ns, CacheStep(n) PROVE UNCHANGED <<worldVars, accessVars>>
  BY <1>1 DEF CacheStep, ListSecrets, CacheSynced, SecretEvent
<1>2. ASSUME WatchStep \/ \E started \in SUBSET Ns : SetNamespacesFails(started) PROVE UNCHANGED <<worldVars, accessVars>>
  BY <1>2 DEF WatchStep, ReadWatched, SetNamespaces, SetNamespacesFails, Rewatch
<1>. QED BY <1>1, <1>2 DEF InWatch

LEMMA GatewayLeaves == InGateway => UNCHANGED <<worldVars, watchVars, accessVars>>
BY DEF InGateway, GatewayStep, Pick, ReadSecret, StartGateway, GatewayFails

\* A write of a RoleBinding is one of these.
Writes == \E k \in Key, b \in Binding \cup {Nil} : Write(k, b) /\ listed' = listed

LEMMA WorkerWrites == ASSUME TypeInv, InBinding \/ (\E k \in Key : Revoke(k)) \/ \E n \in Ns : Bind(n) PROVE Writes
<1>1. ASSUME NEW k \in Key, Revoke(k) PROVE Writes
  BY <1>1 DEF Revoke, Writes
<1>2. ASSUME NEW n \in Ns, Replace(n) PROVE Writes
  BY <1>2, RoleKey DEF Replace, Writes
<1>3. ASSUME NEW n \in Ns, Bind(n) PROVE Writes
  BY <1>3, RoleKey, OurBindingType DEF Bind, Writes
<1>4. ASSUME NEW m \in Meddled, BindingMeddled(m[1], m[2]) PROVE Writes
  <2>1. m[1] \in Key /\ m[2] \in Binding \cup {Nil}
    OBVIOUS
  <2>. QED BY <1>4, <2>1 DEF BindingMeddled, Writes
<1>. QED BY <1>1, <1>2, <1>3, <1>4 DEF InBinding

LEMMA ListedStep == ASSUME TypeInv, ListedInv, Next PROVE ListedInv'
<1>. USE DEF ListedInv, Labelled
<1>1. CASE UNCHANGED <<binding, listed, news>>
  BY <1>1
<1>2. CASE Writes
  <2>1. PICK k \in Key, b \in Binding \cup {Nil} : Write(k, b) /\ listed' = listed
    BY <1>2 DEF Writes
  <2>. QED BY <2>1, WriteEffect DEF TypeInv, TypeOK
<1>3. ASSUME NEW k \in Key, SyncBinding(k) PROVE ListedInv'
  BY <1>3 DEF SyncBinding, TypeInv, TypeOK
<1>4. CASE Restart
  BY <1>4 DEF Restart, TypeInv, TypeOK
<1>5. InWatch \/ InGateway \/ InSecrets \/ InWorld \/ GivesUp \/ ReadAccess \/ AccessDone => UNCHANGED <<binding, listed, news>>
  BY WatchLeaves, GatewayLeaves DEF accessVars, InSecrets, SecretChanges, InWorld, GatewayChanges, GrantChanges, Enqueue,
     GivesUp, ReadFails, AccessFails, RevokeRefused, BindRefused, ReadAccess, AccessDone
<1>. QED BY <1>1, <1>2, <1>3, <1>4, <1>5, Steps, WorkerWrites

LEMMA WatchNext == ASSUME TypeInv, WatchInv, Next PROVE WatchInv'
<1>. USE DEF WatchInv
<1>1. CASE watchQueued'
  BY <1>1
<1>2. UNCHANGED <<gw, grants>> => UNCHANGED CertificateNamespaces
  BY DEF CertificateNamespaces, Live, OurGateways, Permitted
<1>3. UNCHANGED worldVars => UNCHANGED CertificateNamespaces
  BY <1>2 DEF worldVars
<1>4. CASE ReadWatched
  BY <1>3, <1>4, NamespacesType DEF ReadWatched, TypeInv
<1>5. CASE SetNamespaces
  <2>1. watchWant # Nil /\ watchWant \subseteq Ns /\ watchWant' = Nil /\ watchQueued' = watchQueued /\ UNCHANGED CertificateNamespaces
    BY <1>3, <1>5 DEF SetNamespaces, Rewatch, TypeInv, TypeOK
  <2>2. \A n \in Ns : namespaces'[n] # Nil <=> n \in watchWant
    BY <1>5, <2>1, CacheFields DEF SetNamespaces, Rewatch, Stopped, Missing
  <2>3. {n \in Ns : namespaces'[n] # Nil} = watchWant
    BY <2>1, <2>2
  <2>. QED BY <2>1, <2>3
<1>6. ASSUME NEW n \in Ns, CacheStep(n) PROVE WatchInv'
  <2>1. /\ \A m \in Ns : namespaces'[m] # Nil <=> namespaces[m] # Nil
        /\ UNCHANGED <<worldVars, watchQueued, watchWant>>
    BY <1>6, ContentMoves, SyncedMoves DEF CacheStep, CacheMoves, SyncMoves
  <2>2. {m \in Ns : namespaces'[m] # Nil} = {m \in Ns : namespaces[m] # Nil}
    BY <2>1
  <2>. QED BY <1>3, <2>1, <2>2
<1>7. (\E started \in SUBSET Ns : SetNamespacesFails(started)) \/ InWorld \/ Restart => watchQueued'
  BY DEF SetNamespacesFails, InWorld, GatewayChanges, GrantChanges, Enqueue, Restart
<1>8. CASE UNCHANGED <<gw, grants, watchVars>>
  BY <1>2, <1>8 DEF watchVars
<1>9. \/ InGateway \/ InSecrets \/ GivesUp \/ InBinding \/ ReadAccess \/ AccessDone
      \/ (\E k \in Key : Revoke(k) \/ SyncBinding(k)) \/ (\E n \in Ns : Bind(n))
      => UNCHANGED <<gw, grants, watchVars>>
  BY GatewayLeaves DEF worldVars, InSecrets, SecretChanges, GivesUp, ReadFails, AccessFails, RevokeRefused, BindRefused, InBinding, Replace, BindingMeddled,
     ReadAccess, AccessDone, Revoke, SyncBinding, Bind
<1>. QED BY <1>1, <1>4, <1>5, <1>6, <1>7, <1>8, <1>9, Steps DEF InWatch, WatchStep

LEMMA RevokeNext == ASSUME TypeInv, RevokeInv, Next PROVE RevokeInv'
<1>. USE DEF RevokeInv
<1>1. CASE UNCHANGED <<accessWant, revoke, bind, lapsed>>
  BY <1>1
<1>2. InWatch \/ InGateway \/ InSecrets \/ InBinding \/ (\E k \in Key : SyncBinding(k))
      => UNCHANGED <<accessWant, revoke, bind, lapsed>>
  BY WatchLeaves, GatewayLeaves DEF accessVars, InSecrets, SecretChanges, InBinding, Replace, BindingMeddled, SyncBinding
<1>3. CASE InWorld
  <2>1. UNCHANGED <<accessWant, revoke, bind>> /\ (accessWant # Nil => lapsed \subseteq lapsed')
    BY <1>3 DEF InWorld, GatewayChanges, GrantChanges, Enqueue
  <2>. QED BY <2>1
<1>4. CASE GivesUp \/ AccessDone \/ Restart
  BY <1>4 DEF GivesUp, ReadFails, AccessFails, RevokeRefused, BindRefused, AccessDone, Restart, AccessReturn
<1>5. CASE ReadAccess
  BY <1>5, NamespacesType DEF ReadAccess, TypeInv
<1>6. ASSUME NEW k \in Key, Revoke(k) PROVE RevokeInv'
  BY <1>6 DEF Revoke
<1>7. ASSUME NEW n \in Ns, Bind(n) PROVE RevokeInv'
  BY <1>7 DEF Bind
<1>. QED BY <1>1, <1>2, <1>3, <1>4, <1>5, <1>6, <1>7, Steps

LEMMA AccessNext == ASSUME TypeInv, ListedInv, RevokeInv, AccessInv, Next PROVE AccessInv'
<1>1. CASE accessQueued'
  BY <1>1 DEF AccessInv
<1>2. GivesUp \/ InWorld \/ Restart \/ (\E k \in Key : SyncBinding(k)) => accessQueued'
  BY DEF GivesUp, ReadFails, AccessFails, RevokeRefused, BindRefused, AccessReturn, InWorld, GatewayChanges,
     GrantChanges, Enqueue, Restart, SyncBinding
<1>3. UNCHANGED <<gw, grants>> => UNCHANGED CertificateNamespaces
  BY DEF CertificateNamespaces, Live, OurGateways, Permitted
<1>4. CASE UNCHANGED <<gw, grants, accessVars>>
  BY <1>3, <1>4 DEF accessVars, AccessInv, Labelled
<1>5. InWatch \/ InGateway \/ InSecrets => UNCHANGED <<gw, grants, accessVars>>
  BY WatchLeaves, GatewayLeaves DEF worldVars, InSecrets, SecretChanges
<1>6. CASE ReadAccess
  <2>1. accessWant' = CertificateNamespaces' /\ bind' = CertificateNamespaces' /\ UNCHANGED <<binding, news>>
    BY <1>3, <1>6 DEF ReadAccess, worldVars
  <2>2. revoke' = {k \in Key : listed[k] # Nil /\ ~(k[1] \in CertificateNamespaces' /\ k[2] = Role)}
    BY <1>3, <1>6 DEF ReadAccess, worldVars
  <2>3. \A k \in Key \ news : Labelled(binding[k]) => listed[k] # Nil
    BY DEF ListedInv, Labelled
  <2>. QED BY <2>1, <2>2, <2>3 DEF AccessInv, Labelled
<1>7. CASE AccessDone
  BY <1>3, <1>7 DEF AccessDone, AccessReturn, worldVars, AccessInv, Labelled
<1>8. ASSUME NEW k \in Key, Revoke(k), ~accessQueued' PROVE AccessInv'
  <2>1. Write(k, Nil) /\ k \in revoke /\ accessWant = CertificateNamespaces /\ UNCHANGED <<gw, grants, accessWant, accessQueued, bind>>
    BY <1>8 DEF Revoke, worldVars, AccessInv
  <2>2. ~(k[1] \in CertificateNamespaces /\ k[2] = Role)
    BY <1>8, <2>1 DEF RevokeInv, Revoke
  <2>3. revoke' = revoke \ {k}
    BY <1>8 DEF Revoke
  <2>. QED BY <1>3, <1>8, <2>1, <2>2, <2>3, WriteEffect DEF AccessInv, Labelled, TypeInv
<1>9. ASSUME NEW n \in Ns, Replace(n), ~accessQueued' PROVE AccessInv'
  <2>1. Write(<<n, Role>>, Nil) /\ n \in bind /\ UNCHANGED <<gw, grants, accessWant, accessQueued, bind, revoke>>
    BY <1>9 DEF Replace, worldVars
  <2>. QED BY <1>3, <1>9, <2>1, WriteEffect, RoleKey DEF AccessInv, Labelled, TypeInv
<1>10. ASSUME NEW n \in Ns, Bind(n), ~accessQueued' PROVE AccessInv'
  <2>1. /\ Write(<<n, Role>>, OurBinding) /\ n \in bind /\ accessWant = CertificateNamespaces
        /\ UNCHANGED <<gw, grants, accessWant, accessQueued, revoke>>
    BY <1>10 DEF Bind, worldVars, AccessInv
  <2>2. n \in CertificateNamespaces /\ bind' = bind \ {n}
    BY <1>10, <2>1 DEF RevokeInv, Bind
  <2>3. \A j \in Key : j[2] = Role /\ j[1] = n => j = <<n, Role>>
    BY DEF Key
  <2>. QED BY <1>3, <1>10, <2>1, <2>2, <2>3, WriteEffect, RoleKey, OurBindingType DEF AccessInv, Labelled, TypeInv
<1>11. ASSUME NEW m \in Meddled, BindingMeddled(m[1], m[2]), ~accessQueued' PROVE AccessInv'
  <2>1. m[1] \in Key /\ m[2] \in Binding \cup {Nil}
    OBVIOUS
  <2>2. PICK k \in Key, b \in Binding \cup {Nil} : /\ Write(k, b) /\ binding[k] # b
                                                   /\ UNCHANGED <<gw, grants, accessWant, accessQueued, bind, revoke>>
    BY <1>11, <2>1 DEF BindingMeddled, worldVars
  <2>. QED BY <1>3, <1>11, <2>2, WriteEffect, OurBindingType DEF AccessInv, TypeInv, Labelled
<1>. QED BY <1>1, <1>2, <1>4, <1>5, <1>6, <1>7, <1>8, <1>9, <1>10, <1>11, Steps DEF InBinding

-----------------------------------------------------------------------------
(* The Gateways *)

\* ViewInv, for one Gateway.
InView(g) ==
  LET n == gw[g].ref
      allowed == Permitted(Home[g], n)
  IN  IF job.gw = g THEN allowed /\ job.ns = n /\ (got # Nil /\ ~got.live => ~Synced(n))
      ELSE IF allowed THEN Synced(n) => view[g] = [state |-> "read", at |-> namespaces[n].content]
      ELSE view[g] = [state |-> "denied", at |-> 0]

LEMMA ViewByGateway == ViewInv <=> \A g \in Live \ gwQueue : InView(g)
BY DEF ViewInv, InView

\* A step after which every synced cache was so before, with what it holds now.
LEMMA ViewKept ==
  ASSUME TypeInv, ViewInv, UNCHANGED <<gw, grants, job, view>>,
         \A n \in Ns : Synced(n)' => Synced(n) /\ namespaces'[n] = namespaces[n],
         gwQueue' = gwQueue \/ NotifyLocked,
         got' = got \/ ~Synced(job.ns)'
  PROVE  ViewInv'
<1>. SUFFICES ASSUME NEW g \in Live' \ gwQueue' PROVE InView(g)'
  BY ViewByGateway DEF ViewInv, InView
<1>1. UNCHANGED <<Live, OurGateways>>
  BY DEF Live, OurGateways
<1>2. g \in Live /\ g \notin gwQueue
  BY <1>1, NamespacesType DEF NotifyLocked, TypeInv
<1>3. InView(g) /\ gw[g].ref \in Ns
  BY <1>2, ViewByGateway, NamespacesType DEF TypeInv
<1>4. Permitted(Home[g], gw[g].ref)' <=> Permitted(Home[g], gw[g].ref)
  BY DEF Permitted
<1>. QED BY <1>3, <1>4 DEF InView

LEMMA ViewNext == ASSUME TypeInv, ViewInv, Next PROVE ViewInv'
<1>1. CASE UNCHANGED <<gw, grants, namespaces, gwVars>>
  BY <1>1, ViewKept DEF gwVars, Synced
<1>2. ReadWatched \/ InSecrets \/ GivesUp \/ InBinding \/ ReadAccess \/ AccessDone
      \/ (\E k \in Key : Revoke(k) \/ SyncBinding(k)) \/ (\E n \in Ns : Bind(n))
      => UNCHANGED <<gw, grants, namespaces, gwVars>>
  BY DEF ReadWatched, worldVars, watchVars, InSecrets, SecretChanges, GivesUp, ReadFails, AccessFails, RevokeRefused,
     BindRefused, InBinding, Replace, BindingMeddled, ReadAccess, AccessDone, Revoke, SyncBinding, Bind
<1>3. ASSUME NEW started \in SUBSET Missing, watchWant # Nil, Rewatch(started), gwQueue' = gwQueue \/ NotifyLocked
      PROVE  ViewInv'
  <2>1. UNCHANGED <<gw, grants, job, view>>
    BY <1>3 DEF Rewatch, worldVars
  <2>2. \A n \in Ns : Synced(n)' => Synced(n) /\ namespaces'[n] = namespaces[n]
    BY <1>3, CacheFields DEF Rewatch, Synced
  <2>3. CASE got # Nil /\ got.live /\ job.ns \in Stopped
    <3>1. ~Synced(job.ns)'
      BY <1>3, <2>3 DEF Rewatch, Synced, Stopped
    <3>. QED BY <1>3, <2>1, <2>2, <3>1, ViewKept
  <2>4. CASE ~(got # Nil /\ got.live /\ job.ns \in Stopped)
    <3>1. got' = got
      BY <1>3, <2>4 DEF Rewatch
    <3>. QED BY <1>3, <2>1, <2>2, <3>1, ViewKept
  <2>. QED BY <2>3, <2>4
<1>4. CASE SetNamespaces
  BY <1>3, <1>4 DEF SetNamespaces
<1>5. ASSUME NEW started \in SUBSET Ns, SetNamespacesFails(started) PROVE ViewInv'
  BY <1>3, <1>5 DEF SetNamespacesFails
<1>6. CASE UNCHANGED <<gw, grants>> /\ OurGateways \subseteq gwQueue'
  <2>1. UNCHANGED Live
    BY <1>6 DEF Live, OurGateways
  <2>. QED BY <1>6, <2>1, NamespacesType DEF TypeInv, ViewInv
<1>7. ASSUME NEW n \in Ns, CacheStep(n) PROVE ViewInv'
  <2>1. CASE NotifyLocked
    BY <1>6, <1>7, <2>1 DEF NotifyLocked, CacheStep, ListSecrets, CacheSynced, SecretEvent, worldVars
  <2>2. CASE ~NotifyLocked
    <3>1. CacheMoves(n) /\ gwQueue' = gwQueue /\ ~Synced(n)
      BY <1>7, <2>2, ContentMoves, SyncedMoves DEF CacheStep, CacheMoves, SyncMoves, TypeInv, TypeOK, Synced
    <3>2. \A m \in Ns : Synced(m)' => Synced(m) /\ namespaces'[m] = namespaces[m]
      BY <3>1 DEF CacheMoves, Synced
    <3>. QED BY <3>1, <3>2, ViewKept DEF CacheMoves, worldVars
  <2>. QED BY <2>1, <2>2
<1>8. CASE InGateway
  <2>. SUFFICES ASSUME NEW g \in Live' \ gwQueue' PROVE InView(g)'
    BY ViewByGateway DEF ViewInv, InView
  <2>1. UNCHANGED <<gw, grants, namespaces>>
    BY <1>8, GatewayLeaves DEF worldVars, watchVars
  <2>2. g \in Live /\ gw[g].ref \in Ns /\ g \in Gateway /\ g # Nil
    BY <2>1, NamespacesType DEF Live, OurGateways, TypeInv
  <2>3. /\ Permitted(Home[g], gw[g].ref)' <=> Permitted(Home[g], gw[g].ref)
        /\ Synced(gw[g].ref)' <=> Synced(gw[g].ref)
    BY <2>1 DEF Permitted, Synced
  <2>4. CASE Pick
    <3>1. InView(g) /\ job \in [gw : Gateway, ns : Ns]
      BY <2>2, <2>4, ViewByGateway DEF Pick, TypeInv, TypeOK
    <3>2. CASE Synced(job.ns)
      <4>1. got' = [live |-> TRUE, at |-> 0] /\ UNCHANGED <<job, view>>
        BY <2>4, <3>2 DEF Pick, Synced
      <4>2. got'.live
        BY <4>1
      <4>. QED BY <2>1, <2>3, <3>1, <4>1, <4>2 DEF InView
    <3>3. CASE ~Synced(job.ns)
      <4>1. Report(job.gw, "unavailable", 0)
        BY <2>4, <3>3 DEF Pick, Synced
      <4>2. job' = NoJob /\ \A h \in Gateway \ {job.gw} : view'[h] = view[h]
        BY <4>1 DEF Report, TypeInv, TypeOK
      <4>. QED BY <2>1, <2>2, <2>3, <3>1, <3>3, <4>2 DEF InView, NoJob
    <3>. QED BY <3>2, <3>3
  <2>5. CASE ReadSecret
    <3>. DEFINE v == IF got.live THEN namespaces[job.ns].content ELSE got.at
    <3>1. InView(g) /\ job \in [gw : Gateway, ns : Ns] /\ got # Nil
      BY <2>2, <2>5, ViewByGateway DEF ReadSecret, LocalsOK, TypeInv, TypeOK
    <3>2. Report(job.gw, "read", v)
      BY <2>5 DEF ReadSecret
    <3>3. job' = NoJob /\ view'[job.gw] = [state |-> "read", at |-> v] /\ \A h \in Gateway \ {job.gw} : view'[h] = view[h]
      BY <3>1, <3>2 DEF Report, TypeInv, TypeOK
    <3>4. CASE g = job.gw
      <4>1. Synced(gw[g].ref) => v = namespaces[gw[g].ref].content
        BY <3>1, <3>4 DEF InView
      <4>. HIDE DEF v
      <4>. QED BY <2>1, <2>2, <2>3, <3>1, <3>3, <3>4, <4>1 DEF InView, NoJob
    <3>5. CASE g # job.gw
      BY <2>1, <2>2, <2>3, <3>1, <3>3, <3>5 DEF InView, NoJob
    <3>. QED BY <3>4, <3>5
  <2>6. ASSUME NEW h \in Gateway, StartGateway(h) PROVE InView(g)'
    <3>1. job = NoJob /\ got = Nil /\ gwQueue' = gwQueue \ {h}
      BY <2>6 DEF StartGateway, LocalsOK, TypeInv
    <3>2. CASE g = h
      <4>1. CASE Permitted(Home[g], gw[g].ref)
        <5>1. job' = [gw |-> g, ns |-> gw[g].ref] /\ got' = Nil
          BY <2>2, <2>6, <3>1, <3>2, <4>1 DEF StartGateway
        <5>. QED BY <2>1, <2>3, <4>1, <5>1 DEF InView
      <4>2. CASE ~Permitted(Home[g], gw[g].ref)
        <5>1. Report(g, "denied", 0)
          BY <2>2, <2>6, <3>2, <4>2 DEF StartGateway
        <5>2. job' = NoJob /\ view'[g] = [state |-> "denied", at |-> 0]
          BY <2>2, <5>1 DEF Report, TypeInv, TypeOK
        <5>. QED BY <2>1, <2>2, <2>3, <4>2, <5>2 DEF InView, NoJob
      <4>. QED BY <4>1, <4>2
    <3>3. CASE g # h
      <4>1. InView(g)
        BY <2>2, <3>1, <3>3, ViewByGateway
      <4>2. view'[g] = view[g] /\ job'.gw # g
        BY <2>2, <2>6, <3>1, <3>3 DEF StartGateway, Report, NoJob, TypeInv, TypeOK
      <4>. QED BY <2>1, <2>2, <2>3, <3>1, <4>1, <4>2 DEF InView, NoJob
    <3>. QED BY <3>2, <3>3
  <2>7. CASE GatewayFails
    <3>1. g \notin gwQueue /\ g # job.gw /\ job' = NoJob /\ view' = view
      BY <2>7 DEF GatewayFails
    <3>2. InView(g)
      BY <2>2, <3>1, ViewByGateway
    <3>. QED BY <2>1, <2>2, <2>3, <3>1, <3>2 DEF InView, NoJob
  <2>. QED BY <1>8, <2>4, <2>5, <2>6, <2>7 DEF InGateway, GatewayStep
<1>9. ASSUME NEW h \in Gateway, NEW s \in SpecsOf[h], GatewayChanges(h, s) PROVE ViewInv'
  <2>. SUFFICES ASSUME NEW g \in Live' \ gwQueue' PROVE InView(g)'
    BY ViewByGateway DEF ViewInv, InView
  <2>1. g # h /\ g \in Gateway /\ g \notin gwQueue
    BY <1>9 DEF GatewayChanges, Enqueue, Live, OurGateways
  <2>2. gw'[g] = gw[g] /\ UNCHANGED <<grants, namespaces, job, got>> /\ view'[g] = view[g]
    BY <1>9, <2>1 DEF GatewayChanges, Enqueue, TypeInv, TypeOK
  <2>3. g \in Live
    BY <2>1, <2>2 DEF Live, OurGateways
  <2>4. InView(g)
    BY <2>1, <2>3, ViewByGateway
  <2>. QED BY <2>2, <2>4 DEF InView, Permitted, Synced
<1>10. ASSUME NEW p \in GrantsOf, GrantChanges(p) PROVE ViewInv'
  <2>1. UNCHANGED Live /\ OurGateways \subseteq gwQueue'
    BY <1>10 DEF GrantChanges, Enqueue, Live, OurGateways
  <2>. QED BY <2>1, NamespacesType DEF ViewInv, TypeInv
<1>11. CASE Restart
  <2>1. Live' \subseteq gwQueue'
    BY <1>11 DEF Restart, worldVars, Live, OurGateways
  <2>. QED BY <2>1 DEF ViewInv
<1>. QED BY <1>1, <1>2, <1>4, <1>5, <1>7, <1>8, <1>9, <1>10, <1>11, Steps DEF InWatch, WatchStep, InWorld

-----------------------------------------------------------------------------
(* The theorems *)

IInv == TypeInv /\ ListedInv /\ WatchInv /\ RevokeInv /\ AccessInv /\ ViewInv

LEMMA InitIInv == Init => IInv
<1>. SUFFICES ASSUME Init PROVE IInv
  OBVIOUS
<1>1. TypeInv
  BY InitType
<1>2. CertificateNamespaces \subseteq Ns
  BY <1>1, NamespacesType DEF TypeInv
<1>3. \A k \in Key : binding[k] = IF k[1] \in CertificateNamespaces /\ k[2] = Role THEN OurBinding ELSE Nil
  BY DEF Init
<1>4. ListedInv /\ RevokeInv /\ AccessInv
  BY <1>3, OurBindingType DEF Init, ListedInv, RevokeInv, AccessInv, Labelled
<1>5. \A n \in Ns : namespaces[n] = IF n \in CertificateNamespaces THEN [synced |-> TRUE, content |-> secret[n]] ELSE Nil
  BY DEF Init
<1>6. ASSUME NEW n \in CertificateNamespaces PROVE namespaces[n] # Nil /\ namespaces[n].content = secret[n]
  <2>1. n \in Ns /\ secret[n] \in Version
    BY <1>1, <1>2, <1>6 DEF TypeInv, TypeOK
  <2>2. namespaces[n] = [synced |-> TRUE, content |-> secret[n]]
    BY <1>5, <1>6, <2>1
  <2>3. [synced |-> TRUE, content |-> secret[n]] \in NamespaceCache
    BY <2>1 DEF NamespaceCache
  <2>4. namespaces[n] # Nil
    BY <2>2, <2>3
  <2>. QED BY <2>2, <2>4
<1>7. WatchInv
  BY <1>2, <1>5, <1>6 DEF Init, WatchInv
<1>8. ASSUME NEW g \in Live PROVE InView(g)
  <2>1. view[g] = Truth(g) /\ job.gw # g /\ gw[g].ref \in Ns
    <3>1. g \in Gateway /\ gw[g].ref \in Ns
      BY <1>1, <1>8, NamespacesType DEF TypeInv
    <3>2. job.gw = Nil /\ view = [h \in Gateway |-> Truth(h)]
      BY DEF Init, NoJob
    <3>. QED BY <3>1, <3>2
  <2>2. Permitted(Home[g], gw[g].ref) => gw[g].ref \in CertificateNamespaces
    BY <1>8 DEF CertificateNamespaces
  <2>3. Permitted(Home[g], gw[g].ref) => namespaces[gw[g].ref].content = secret[gw[g].ref]
    BY <1>6, <2>2
  <2>4. Truth(g) = IF Permitted(Home[g], gw[g].ref) THEN [state |-> "read", at |-> secret[gw[g].ref]]
                   ELSE [state |-> "denied", at |-> 0]
    BY <1>8 DEF Truth
  <2>. QED BY <2>1, <2>3, <2>4 DEF InView
<1>. QED BY <1>1, <1>4, <1>7, <1>8, ViewByGateway DEF IInv

LEMMA NextIInv == IInv /\ [Next]_vars => IInv'
<1>1. ASSUME IInv, Next PROVE IInv'
  BY <1>1, NextType, ListedStep, WatchNext, RevokeNext, AccessNext, ViewNext DEF IInv
<1>2. ASSUME IInv, UNCHANGED vars PROVE IInv'
  <2>. USE DEF vars, worldVars, watchVars, accessVars, gwVars, IInv
  <2>1. UNCHANGED <<CertificateNamespaces, Live>>
    BY <1>2 DEF CertificateNamespaces, Live, OurGateways, Permitted
  <2>2. TypeInv'
    BY <1>2, NextType
  <2>3. ListedInv' /\ WatchInv' /\ RevokeInv' /\ AccessInv'
    BY <1>2, <2>1 DEF ListedInv, WatchInv, RevokeInv, AccessInv, Labelled
  <2>4. ViewInv'
    BY <1>2, ViewKept DEF Synced
  <2>. QED BY <2>2, <2>3, <2>4
<1>. QED BY <1>1, <1>2

LEMMA Invariance == Spec => []IInv
BY InitIInv, NextIInv, PTL DEF Spec

(***************************************************************************)
(* Once nothing is left to do every Gateway reports its certificate as it  *)
(* is, for every set of Gateways, namespaces and grants: no sequence of    *)
(* stopped, failed and restarted caches leaves a Gateway with what a cache *)
(* that is gone had held (Access.SetNamespaces, Get, notifyLocked).        *)
(***************************************************************************)
THEOREM Reported == Spec => []QuietMeansReported
<1>1. ASSUME IInv PROVE QuietMeansReported
  <2>. SUFFICES ASSUME Quiet, NEW g \in Live PROVE view[g] = Truth(g)
    BY DEF QuietMeansReported, Reports
  <2>. DEFINE n == gw[g].ref
  <2>1. InView(g) /\ job.gw # g /\ n \in Ns
    BY <1>1, ViewByGateway, NamespacesType DEF IInv, TypeInv, Quiet, NoJob, Live, OurGateways
  <2>2. CASE Permitted(Home[g], n)
    <3>1. n \in CertificateNamespaces
      BY <2>2 DEF CertificateNamespaces
    <3>2. namespaces[n] # Nil
      BY <1>1, <3>1 DEF IInv, WatchInv, Quiet
    <3>3. binding[<<n, Role>>] = OurBinding
      <4>1. <<n, Role>> \in Key /\ <<n, Role>> \notin news /\ bind = {} /\ ~accessQueued
        BY <1>1, <2>1, RoleKey DEF Quiet, IInv, RevokeInv
      <4>. QED BY <1>1, <3>1, <4>1 DEF IInv, AccessInv
    <3>4. Granted(n)
      BY <3>3, OurBindingType DEF Granted, OurBinding
    <3>5. Synced(n) /\ namespaces[n].content = secret[n]
      BY <2>1, <3>2, <3>4 DEF Quiet, Synced
    <3>. QED BY <2>1, <2>2, <3>5 DEF InView, Truth
  <2>3. CASE ~Permitted(Home[g], n)
    BY <2>1, <2>3 DEF InView, Truth
  <2>. QED BY <2>2, <2>3
<1>. QED BY <1>1, Invariance, PTL

(***************************************************************************)
(* Once nothing is left to do the namespaces that are watched, those that  *)
(* are bound and those that Gateways take certificates from are the same,  *)
(* and no labelled binding is left anywhere else, whatever others did to   *)
(* the RoleBindings (GatewaySecretAccessReconciler).                       *)
(***************************************************************************)
THEOREM OnlyThose == Spec => []QuietMeansOnlyThose
<1>1. ASSUME IInv PROVE QuietMeansOnlyThose
  <2>. SUFFICES ASSUME Quiet
                PROVE  /\ {n \in Ns : namespaces[n] # Nil} = CertificateNamespaces
                       /\ \A n \in CertificateNamespaces : Granted(n)
                       /\ \A k \in Key : Labelled(binding[k]) => k[1] \in CertificateNamespaces /\ k[2] = Role
    BY DEF QuietMeansOnlyThose
  <2>1. {n \in Ns : namespaces[n] # Nil} = CertificateNamespaces
    BY <1>1 DEF IInv, WatchInv, Quiet
  <2>2. revoke = {} /\ bind = {} /\ news = {} /\ ~accessQueued
    BY <1>1 DEF Quiet, IInv, RevokeInv
  <2>3. \A k \in Key : Labelled(binding[k]) => k[1] \in CertificateNamespaces /\ k[2] = Role
    BY <1>1, <2>2 DEF IInv, AccessInv
  <2>4. ASSUME NEW n \in CertificateNamespaces PROVE Granted(n)
    <3>1. <<n, Role>> \in Key
      BY <1>1, NamespacesType, RoleKey DEF IInv, TypeInv
    <3>2. binding[<<n, Role>>] = OurBinding
      BY <1>1, <2>2, <3>1 DEF IInv, AccessInv
    <3>. QED BY <3>2, OurBindingType DEF Granted, OurBinding
  <2>. QED BY <2>1, <2>3, <2>4
<1>. QED BY <1>1, Invariance, PTL

(***************************************************************************)
(* The worker takes access away only from a namespace that no Gateway took *)
(* certificates from at some time since the worker read them, whatever     *)
(* failed, changed or was restarted meanwhile (certificateNamespaces,      *)
(* revokeOthers).                                                          *)
(***************************************************************************)
THEOREM AccessStays == Spec => WantedAccessStays
<1>. DEFINE Stays == \A n \in Ns : accessWant # Nil /\ revoke' # revoke /\ Granted(n) /\ ~Granted(n)' => n \in lapsed
<1>1. ASSUME IInv, [Next]_vars PROVE [Stays]_vars
  <2>. SUFFICES ASSUME Next, NEW n \in Ns, accessWant # Nil, revoke' # revoke, Granted(n), ~Granted(n)'
                PROVE  n \in lapsed
    BY <1>1
  <2>1. binding' # binding
    BY DEF Granted
  <2>2. PICK k \in Key : Revoke(k)
    <3>1. InWatch \/ InGateway \/ InSecrets \/ InWorld \/ InBinding \/ (\E j \in Key : SyncBinding(j)) \/ (\E m \in Ns : Bind(m))
          => revoke' = revoke
      BY WatchLeaves, GatewayLeaves DEF accessVars, InSecrets, SecretChanges, InWorld, GatewayChanges, GrantChanges,
         Enqueue, InBinding, Replace, BindingMeddled, SyncBinding, Bind
    <3>2. GivesUp \/ ReadAccess \/ AccessDone \/ Restart => binding' = binding
      BY DEF GivesUp, ReadFails, AccessFails, RevokeRefused, BindRefused, ReadAccess, AccessDone, Restart
    <3>. QED BY <2>1, <3>1, <3>2, Steps
  <2>3. Write(k, Nil) /\ k \in revoke
    BY <2>2 DEF Revoke
  <2>4. k = <<n, Role>>
    <3>1. k # <<n, Role>> => binding'[<<n, Role>>] = binding[<<n, Role>>]
      BY <1>1, <2>3, WriteEffect, RoleKey DEF IInv, TypeInv
    <3>. QED BY <3>1 DEF Granted
  <2>. QED BY <1>1, <2>3, <2>4 DEF IInv, RevokeInv
<1>. QED BY <1>1, Invariance, PTL DEF Spec, WantedAccessStays
=============================================================================
