-------------------------- MODULE CloudflaredProofs --------------------------
(***************************************************************************)
(* Proofs about CloudflaredController, for every number of versions,       *)
(* tunnels and objects and every budget of the environment.                *)
(***************************************************************************)
EXTENDS CloudflaredController, TLAPS

-----------------------------------------------------------------------------
(* The inductive invariant *)

\* The queue or the informer of the object holds something for the worker.
ObjDue == queued \/ "obj" \in news

\* An app whose events enqueue the Cloudflared.
Owned(a) == a # Nil /\ a.owner # Foreign

LocalsInv ==
  /\ pc # "idle" => rec \in Object
  /\ pc = "unknown" => rec.status.cond = "none"
  /\ pc \in {"lookupCreate", "create", "recordKind"} => rec.status.kind = Nil
  /\ pc \in {"clearKind", "deleteApp"} => rec.status.kind \in Kind
  /\ pc \in {"lookupUpdate", "patchApp"} => seen \in App /\ rec.status.kind = rec.spec.kind

TypeInv == TypeOK /\ LocalsInv

\* A copy differs from the original only while there is news of it.
CacheInv ==
  /\ "obj" \in news \/ cache = obj
  /\ \A k \in Kind : k \in news \/ appCache[k] = app[k]

\* Reconcile works on the current object, or will run again.
FreshInv == pc # "idle" => ObjDue \/ rec = obj

\* So does it on the current tunnel.
TunnelInv == pc \in {"create", "recordKind", "patchApp"} => ObjDue \/ id = Looked(rec.spec.config)

\* An app that enqueues is not hidden by a copy that does not.
OwnInv == \A k \in Kind : Owned(app[k]) => appCache[k] = Nil \/ Owned(appCache[k])

\* The app that Reconcile is about to update is in the cache, or not its own.
UpdatingInv ==
  pc \in {"lookupUpdate", "patchApp"} /\ ~ObjDue
    => appCache[rec.spec.kind] # Nil \/ ~Owned(app[rec.spec.kind])

\* Between two reconciles: the app runs what it should, and if it goes the cache has
\* a copy whose removal enqueues; or such a removal is under way.
RunningInv ==
  pc = "idle" /\ ~ObjDue /\ obj # Nil /\ ~obj.deleting =>
    /\ obj.status.kind = obj.spec.kind
    /\ \/ obj.spec.kind \in news /\ Owned(appCache[obj.spec.kind])
       \/ Runs(obj) /\ (Owned(app[obj.spec.kind]) => Owned(appCache[obj.spec.kind]))

\* Only a DaemonSet has no replicas.
Sized(k, a) == a # Nil => (a.replicas = Nil <=> k = "DaemonSet")
SizeInv == \A k \in Kind : Sized(k, app[k])

\* The app that Reconcile compares with is the cached one, unless that enqueues nobody.
SeenInv ==
  pc \in {"lookupUpdate", "patchApp"} /\ ~ObjDue
    => seen = appCache[rec.spec.kind] \/ ~Owned(appCache[rec.spec.kind])

IInv == /\ TypeInv /\ CacheInv /\ OwnInv /\ SizeInv
        /\ FreshInv /\ TunnelInv /\ SeenInv /\ UpdatingInv /\ RunningInv

\* Nobody deletes an app that is not the operator's and has the name of a Cloudflared.
ForeignAppsStay == \A k \in Kind : AppMeddled(k) => ~(app[k] # Nil /\ app[k].owner = Foreign)

-----------------------------------------------------------------------------
(* Records *)

LEMMA Constants ==
  /\ Nil \notin Version /\ Nil \notin TunnelId /\ Nil \notin Size /\ Nil \notin Kind
  /\ "pending" \notin TunnelId /\ Nil # "pending" /\ Foreign \notin Uid /\ One \in Size
  /\ Nil \notin Object /\ Nil \notin App
  /\ \A s \in SpecsOf : s \in CloudflaredSpec
  /\ MaxUid \in Nat
BY ConstantsAssumption, NilAssumption

\* The fields of an object.
LEMMA ObjectFields ==
  ASSUME NEW o \in Object
  PROVE  /\ o # Nil /\ o.uid \in Uid /\ o.deleting \in BOOLEAN
         /\ o.spec \in CloudflaredSpec /\ o.status \in CloudflaredStatus
         /\ o.spec.kind \in Kind /\ o.spec.version \in Version /\ o.spec.config \in Config
         /\ o.spec.config.id \in TunnelId \cup {Nil} /\ o.spec.config.account \in BOOLEAN
         /\ o.spec.config.ref \in BOOLEAN /\ o.spec.replicas \in Size \cup {Nil}
         /\ o.status.kind \in Kind \cup {Nil} /\ o.status.id \in TunnelId \cup {Nil}
         /\ o.status.cond \in {"none", "Unknown", "True", "False"}
<1>1. o # Nil
  BY Constants
<1>2. /\ o.uid \in Uid /\ o.deleting \in BOOLEAN
      /\ o.spec \in CloudflaredSpec /\ o.status \in CloudflaredStatus
  BY DEF Object
<1>3. QED
  BY <1>1, <1>2 DEF CloudflaredSpec, CloudflaredStatus, Config

\* What a patch of the status leaves: the type and the rest of the object, and a
\* difference where the copy was current and the patch changes something.
LEMMA PatchedFields ==
  ASSUME TypeInv, obj \in Object, rec \in Object, NEW new \in CloudflaredStatus
  PROVE  /\ Patched(new) \in Object
         /\ rec = obj => Patched(new).status = new
<1>1. /\ obj.status \in CloudflaredStatus /\ rec.status \in CloudflaredStatus
  BY ObjectFields
<1> DEFINE F(n, b, w) == IF w # b THEN w ELSE n
           s == [cond |-> F(obj.status.cond, rec.status.cond, new.cond),
                 kind |-> F(obj.status.kind, rec.status.kind, new.kind),
                 id   |-> F(obj.status.id, rec.status.id, new.id)]
<1>2. s \in CloudflaredStatus
  BY <1>1 DEF CloudflaredStatus
<1>3. rec = obj => s = new
  BY <1>1 DEF CloudflaredStatus
<1>4. Patched(new) = [obj EXCEPT !.status = s]
  BY DEF Patched
<1> HIDE DEF s
<1>5. QED
  BY <1>2, <1>3, <1>4 DEF Object

\* The answer of the API server decoded over the copy is an object.
LEMMA RefreshedFields ==
  ASSUME rec \in Object, NEW o \in Object
  PROVE  Refreshed(o) \in Object
<1> DEFINE F(n, b) == IF n = Nil THEN b ELSE n
           c == o.spec.config
           r == rec.spec.config
           c1 == [id |-> F(c.id, r.id), account |-> c.account \/ r.account, ref |-> c.ref \/ r.ref]
           k1 == F(o.status.kind, rec.status.kind)
           i1 == F(o.status.id, rec.status.id)
           n1 == F(o.spec.replicas, rec.spec.replicas)
<1>1. /\ c1 \in Config /\ k1 \in Kind \cup {Nil} /\ i1 \in TunnelId \cup {Nil} /\ n1 \in Size \cup {Nil}
  <2>1. k1 \in Kind \cup {Nil} /\ i1 \in TunnelId \cup {Nil} /\ n1 \in Size \cup {Nil}
    BY ObjectFields
  <2>2. F(c.id, r.id) \in TunnelId \cup {Nil}
    BY ObjectFields
  <2>3. (c.account \/ r.account) \in BOOLEAN /\ (c.ref \/ r.ref) \in BOOLEAN
    BY ObjectFields
  <2>4. QED
    BY <2>1, <2>2, <2>3 DEF Config
<1>2. Refreshed(o) = [o EXCEPT !.status.kind = k1, !.status.id = i1, !.spec.config = c1, !.spec.replicas = n1]
  BY ObjectFields DEF Refreshed
<1> DEFINE st == [o.status EXCEPT !.kind = k1, !.id = i1]
           sp == [o.spec EXCEPT !.config = c1, !.replicas = n1]
<1> HIDE DEF c1, k1, i1, n1
<1>3. o.status \in CloudflaredStatus /\ o.spec \in CloudflaredSpec
  BY ObjectFields
<1>4. st \in CloudflaredStatus /\ sp \in CloudflaredSpec
  BY <1>1, <1>3 DEF CloudflaredStatus, CloudflaredSpec
<1>5. Refreshed(o) = [o EXCEPT !.status = st, !.spec = sp]
  BY <1>2 DEF Object
<1> HIDE DEF st, sp
<1>6. QED
  BY <1>4, <1>5 DEF Object

\* The fields of an app.
LEMMA AppFields ==
  ASSUME NEW a \in App
  PROVE  /\ a # Nil /\ a.owner \in Uid \cup {Foreign} /\ a.selector \in Version
         /\ a.pod \in Pod /\ a.replicas \in Size \cup {Nil}
<1>1. a # Nil
  BY Constants
<1>2. QED
  BY <1>1 DEF App

LEMMA ReplicasType ==
  ASSUME NEW s \in CloudflaredSpec
  PROVE  Replicas(s) \in Size \cup {Nil}
BY Constants DEF Replicas, CloudflaredSpec

LEMMA LookedType ==
  ASSUME TypeInv, NEW c \in Config
  PROVE  Looked(c) \in TunnelId \cup {Nil}
BY Constants DEF Looked, Config, TypeInv, TypeOK

\* What Reconcile goes on with, and what it has then read.
LEMMA DispatchCases ==
  ASSUME TypeInv, NEW o \in Object
  PROVE  /\ Dispatch(o) \in {"lookupCreate", "clearKind", "deleteApp", "lookupUpdate"}
         /\ SeenBy(o) \in App \cup {Nil}
         /\ Dispatch(o) = "lookupCreate" => o.status.kind = Nil
         /\ Dispatch(o) \in {"clearKind", "deleteApp"} => o.status.kind \in Kind
         /\ Dispatch(o) = "lookupUpdate" => /\ o.status.kind = o.spec.kind
                                            /\ SeenBy(o) \in App
                                            /\ appCache[o.spec.kind] # Nil
<1>1. o.status.kind \in Kind \cup {Nil} /\ appCache \in [Kind -> App \cup {Nil}]
  BY ObjectFields DEF TypeInv, TypeOK
<1>2. o.status.kind # Nil => appCache[o.status.kind] \in App \cup {Nil}
  BY <1>1
<1>3. QED
  BY <1>1, <1>2, Constants DEF Dispatch, SeenBy

-----------------------------------------------------------------------------
(* What the writes do *)

LEMMA WriteEffect ==
  ASSUME TypeInv, NEW o \in Object \cup {Nil}, Write(o)
  PROVE  /\ obj' \in Object \cup {Nil} /\ obj' = o
         /\ news' \subseteq Kind \cup {"obj"}
         /\ news \subseteq news' /\ \A k \in Kind : k \in news' => k \in news
         /\ obj' # obj => "obj" \in news'
         /\ app' = app
<1>1. "obj" \notin Kind
  BY DEF Kind
<1>2. QED
  BY <1>1 DEF Write, TypeInv, TypeOK

LEMMA WriteAppEffect ==
  ASSUME TypeInv, NEW k \in Kind, NEW a \in App \cup {Nil}, WriteApp(k, a)
  PROVE  /\ app' \in [Kind -> App \cup {Nil}]
         /\ app'[k] = a /\ \A j \in Kind : j # k => app'[j] = app[j]
         /\ news' \subseteq Kind \cup {"obj"}
         /\ news \subseteq news' /\ ("obj" \in news' => "obj" \in news)
         /\ \A j \in Kind : j # k /\ j \in news' => j \in news
         /\ a # app[k] => k \in news'
         /\ obj' = obj
<1>1. "obj" \notin Kind
  BY DEF Kind
<1>2. QED
  BY <1>1 DEF WriteApp, TypeInv, TypeOK

LEMMA SpendEffect ==
  ASSUME TypeInv, NEW k \in Budgets, Spend(k)
  PROVE  spent' \in [Budgets -> Nat]
BY DEF Spend, TypeInv, TypeOK

\* The app that Reconcile would create.
LEMMA NewAppType ==
  ASSUME TypeInv, NEW s \in CloudflaredSpec, NEW u \in Uid
  PROVE  NewApp(s, u) \in App /\ NewApp(s, u).owner = u
<1>1. PodTemplateSpec(s) \in Pod
  BY DEF PodTemplateSpec, Pod, CloudflaredSpec, TypeInv, TypeOK
<1>2. s.version \in Version /\ Replicas(s) \in Size \cup {Nil}
  BY ReplicasType DEF CloudflaredSpec
<1>3. QED
  BY <1>1, <1>2 DEF NewApp, App

\* The app that Reconcile leaves where it updates one.
Updated == UpdatedApp(app[rec.spec.kind])

LEMMA UpdatedAppType ==
  ASSUME TypeInv, rec \in Object, app[rec.spec.kind] # Nil
  PROVE  /\ Updated \in App
         /\ Updated.owner = app[rec.spec.kind].owner
         /\ Updated.pod = [version |-> rec.spec.version, id |-> id]
         /\ Updated.replicas = IF rec.spec.replicas = seen.replicas
                               THEN app[rec.spec.kind].replicas ELSE Replicas(rec.spec)
<1>1. rec.spec.kind \in Kind /\ rec.spec \in CloudflaredSpec
  BY ObjectFields
<1>2. app[rec.spec.kind] \in App
  BY <1>1 DEF TypeInv, TypeOK
<1>3. PodTemplateSpec(rec.spec) \in Pod
  BY <1>1 DEF PodTemplateSpec, Pod, CloudflaredSpec, TypeInv, TypeOK
<1> DEFINE a == app[rec.spec.kind]
           r == IF rec.spec.replicas = seen.replicas THEN a.replicas ELSE Replicas(rec.spec)
<1>4. r \in Size \cup {Nil}
  BY <1>1, <1>2, ReplicasType, AppFields
<1>5. PodTemplateSpec(rec.spec) = [version |-> rec.spec.version, id |-> id]
  BY DEF PodTemplateSpec
<1>6. Updated = [a EXCEPT !.pod = PodTemplateSpec(rec.spec), !.replicas = r]
  BY <1>2 DEF Updated, UpdatedApp
<1> HIDE DEF r
<1>7. Updated \in App /\ Updated.owner = a.owner /\ Updated.pod = PodTemplateSpec(rec.spec) /\ Updated.replicas = r
  BY <1>2, <1>3, <1>4, <1>6 DEF App
<1>8. QED
  BY <1>5, <1>7 DEF r

-----------------------------------------------------------------------------
(* Types *)

\* The steps that only return, to try again.
Retries ==
  /\ pc \in Calls /\ UNCHANGED <<clusterVars, tunnel>> /\ Return(TRUE)
  /\ spent' \in [Budgets -> Nat]

LEMMA RetrySteps ==
  ASSUME TypeInv,
         PatchGone \/ LookupTunnelFails \/ RefuseApp \/ CreateAppExists \/ UpdateAppRejected \/ CallFails
  PROVE  Retries
<1>1. CASE CallFails
  BY <1>1, SpendEffect DEF CallFails, Retries, Budgets
<1>2. CASE PatchGone \/ LookupTunnelFails \/ RefuseApp \/ CreateAppExists \/ UpdateAppRejected
  BY <1>2 DEF PatchGone, LookupTunnelFails, RefuseApp, CreateAppExists, UpdateAppRejected, Retries,
              Calls, TypeInv, TypeOK
<1>3. QED
  BY <1>1, <1>2

\* What Reconcile returns leaves nothing of its own state.
LEMMA ReturnType ==
  ASSUME NEW q \in BOOLEAN, Return(q)
  PROVE  /\ LocalsInv' /\ rec' = Nil /\ seen' = Nil /\ id' = Nil /\ pc' = "idle" /\ queued' = q
         /\ queued' \in BOOLEAN
BY DEF Return, LocalsInv

LEMMA RetryType == ASSUME TypeInv, Retries PROVE TypeInv'
<1>1. LocalsInv' /\ rec' = Nil /\ seen' = Nil /\ id' = Nil /\ pc' = "idle" /\ queued' \in BOOLEAN
  BY ReturnType DEF Retries
<1>2. QED
  BY <1>1 DEF Retries, clusterVars, TypeInv, TypeOK

\* The worker's own steps without a write.
LEMMA WorkerType ==
  ASSUME TypeInv, ReconcileNothing \/ Reconcile \/ LookupTunnel \/ AdoptApp
  PROVE  TypeInv'
<1> USE DEF TypeInv
<1>1. CASE ReconcileNothing
  BY <1>1 DEF ReconcileNothing, clusterVars, workerVars, TypeOK, LocalsInv
<1>2. CASE Reconcile
  <2>1. cache \in Object
    BY <1>2 DEF Reconcile, TypeOK
  <2>2. /\ SeenBy(cache) \in App \cup {Nil}
        /\ pc' \in {"unknown", "lookupCreate", "clearKind", "deleteApp", "lookupUpdate"}
        /\ pc' = "unknown" => cache.status.cond = "none"
        /\ pc' # "unknown" => pc' = Dispatch(cache)
    BY <1>2, <2>1, DispatchCases DEF Reconcile, Goto
  <2>3. rec' = cache /\ seen' = SeenBy(cache)
    BY <1>2 DEF Reconcile
  <2>4. LocalsInv'
    BY <2>1, <2>2, <2>3, DispatchCases DEF LocalsInv
  <2>5. QED
    BY <1>2, <2>1, <2>2, <2>3, <2>4 DEF Reconcile, clusterVars, TypeOK, Calls
<1>3. CASE LookupTunnel
  <2>1. rec \in Object /\ rec.spec.config \in Config
    BY <1>3, ObjectFields DEF LookupTunnel, LocalsInv
  <2>2. id' \in TunnelId \cup {Nil}
    BY <1>3, <2>1, LookedType DEF LookupTunnel
  <2>3. LocalsInv'
    BY <1>3, <2>1 DEF LookupTunnel, LocalsInv, Goto
  <2>4. QED
    BY <1>3, <2>2, <2>3 DEF LookupTunnel, Goto, clusterVars, TypeOK, Calls
<1>4. CASE AdoptApp
  BY <1>4 DEF AdoptApp, Goto, clusterVars, TypeOK, LocalsInv, Calls
<1>5. QED
  BY <1>1, <1>2, <1>3, <1>4

\* The first status patch.
LEMMA StartEffect ==
  ASSUME TypeInv, StartReconciliation
  PROVE  /\ rec \in Object /\ obj \in Object
         /\ Write(Patched([rec.status EXCEPT !.cond = "Unknown"]))
         /\ obj' \in Object /\ rec' \in Object
         /\ rec = obj => obj' # obj
         /\ pc' = Dispatch(rec') /\ seen' = SeenBy(rec')
<1> USE DEF TypeInv
<1>1. rec \in Object /\ obj \in Object /\ rec.status.cond = "none"
  BY DEF StartReconciliation, LocalsInv, TypeOK
<1> DEFINE new == [rec.status EXCEPT !.cond = "Unknown"]
<1>2. new \in CloudflaredStatus /\ new.cond = "Unknown"
  BY <1>1, ObjectFields DEF CloudflaredStatus
<1>3. obj' = Patched(new) /\ Write(Patched(new))
  BY DEF StartReconciliation, Write
<1> HIDE DEF new
<1>4. obj' \in Object /\ (rec = obj => obj'.status = new)
  BY <1>1, <1>2, <1>3, PatchedFields
<1>5. rec = obj => obj' # obj
  BY <1>1, <1>2, <1>4
<1>6. rec' \in Object
  BY <1>1, <1>4, RefreshedFields DEF StartReconciliation
<1>7. QED
  BY <1>1, <1>3, <1>4, <1>5, <1>6 DEF StartReconciliation, Goto, new

\* The patch after the creation.
LEMMA RecordEffect ==
  ASSUME TypeInv, RecordKind
  PROVE  /\ rec \in Object /\ obj \in Object /\ rec.status.kind = Nil
         /\ Write(Patched([cond |-> "True", kind |-> rec.spec.kind, id |-> id]))
         /\ obj' \in Object
         /\ rec = obj => obj' # obj
<1> USE DEF TypeInv
<1>1. rec \in Object /\ obj \in Object /\ rec.status.kind = Nil
  BY DEF RecordKind, LocalsInv, TypeOK
<1> DEFINE new == [cond |-> "True", kind |-> rec.spec.kind, id |-> id]
<1>2. rec.spec.kind \in Kind /\ rec.spec.kind # Nil
  BY <1>1, ObjectFields, Constants
<1>3. new \in CloudflaredStatus /\ new.kind # Nil
  BY <1>2 DEF CloudflaredStatus, TypeOK
<1>4. obj' = Patched(new) /\ Write(Patched(new))
  BY DEF RecordKind, Write
<1> HIDE DEF new
<1>5. obj' \in Object /\ (rec = obj => obj'.status = new)
  BY <1>1, <1>3, <1>4, PatchedFields
<1>6. rec = obj => obj' # obj
  BY <1>1, <1>3, <1>5
<1>7. QED
  BY <1>1, <1>4, <1>5, <1>6 DEF new

\* The patch where the app is gone.
LEMMA ClearEffect ==
  ASSUME TypeInv, ClearKind
  PROVE  /\ Write(Patched([rec.status EXCEPT !.cond = "False", !.kind = Nil]))
         /\ obj' \in Object
<1> USE DEF TypeInv
<1>1. rec \in Object /\ obj \in Object
  BY DEF ClearKind, LocalsInv, TypeOK
<1> DEFINE new == [rec.status EXCEPT !.cond = "False", !.kind = Nil]
<1>2. new \in CloudflaredStatus
  BY <1>1, ObjectFields DEF CloudflaredStatus
<1>3. obj' = Patched(new) /\ Write(Patched(new))
  BY DEF ClearKind, Write
<1> HIDE DEF new
<1>4. QED
  BY <1>1, <1>2, <1>3, PatchedFields DEF new

\* The steps of others that write the object, and those that write an app.
ObjWritten ==
  /\ \E o \in Object \cup {Nil} : Write(o)
  /\ UNCHANGED <<cache, appCache, queued, tunnel, workerVars>>
  /\ uids' \in 0..MaxUid /\ spent' \in [Budgets -> Nat]

AppWritten(k) ==
  /\ \/ app[k] # Nil /\ WriteApp(k, Nil)
     \/ app[k] = Nil /\ \E a \in App : a.owner = Foreign /\ WriteApp(k, a)
  /\ UNCHANGED <<cache, appCache, uids, queued, tunnel, workerVars>>
  /\ spent' \in [Budgets -> Nat]

LEMMA ObjSteps ==
  ASSUME TypeInv, UserDeletes \/ CollectObject \/ \E s \in SpecsOf : UserCreates(s) \/ UserEdits(s)
  PROVE  ObjWritten
<1> USE DEF TypeInv
<1>1. CASE \E s \in SpecsOf : UserCreates(s)
  <2>1. PICK s \in SpecsOf : UserCreates(s)
    BY <1>1
  <2>2. uids + 1 \in Uid
    BY <2>1, Constants DEF UserCreates, Uid, TypeOK
  <2>3. NoStatus \in CloudflaredStatus
    BY DEF NoStatus, CloudflaredStatus
  <2>4. [uid |-> uids + 1, deleting |-> FALSE, spec |-> s, status |-> NoStatus] \in Object
    BY <2>2, <2>3, Constants DEF Object
  <2>5. spent' \in [Budgets -> Nat]
    BY <2>1, SpendEffect DEF UserCreates, Budgets
  <2>6. uids' \in 0..MaxUid
    BY <2>1, <2>2, Constants DEF UserCreates, Uid
  <2>7. QED
    BY <2>1, <2>4, <2>5, <2>6 DEF UserCreates, ObjWritten
<1>2. CASE \E s \in SpecsOf : UserEdits(s)
  <2>1. PICK s \in SpecsOf : UserEdits(s)
    BY <1>2
  <2>2. obj \in Object
    BY <2>1 DEF UserEdits, TypeOK
  <2>3. [obj EXCEPT !.spec = s] \in Object
    BY <2>2, Constants DEF Object
  <2>4. spent' \in [Budgets -> Nat]
    BY <2>1, SpendEffect DEF UserEdits, Budgets
  <2>5. QED
    BY <2>1, <2>3, <2>4 DEF UserEdits, ObjWritten, TypeOK
<1>3. CASE UserDeletes
  <2>1. obj \in Object
    BY <1>3 DEF UserDeletes, TypeOK
  <2>2. [obj EXCEPT !.deleting = TRUE] \in Object
    BY <2>1 DEF Object
  <2>3. spent' \in [Budgets -> Nat]
    BY <1>3, SpendEffect DEF UserDeletes, Budgets
  <2>4. QED
    BY <1>3, <2>2, <2>3 DEF UserDeletes, ObjWritten, TypeOK
<1>4. CASE CollectObject
  BY <1>4 DEF CollectObject, ObjWritten, TypeOK
<1>5. QED
  BY <1>1, <1>2, <1>3, <1>4

LEMMA AppSteps ==
  ASSUME TypeInv, NEW k \in Kind, AppMeddled(k) \/ CollectApp(k)
  PROVE  AppWritten(k)
<1> USE DEF TypeInv
<1>1. CASE CollectApp(k)
  BY <1>1 DEF CollectApp, Orphaned, AppWritten, TypeOK
<1>2. CASE AppMeddled(k)
  <2> DEFINE new(v) == [owner |-> Foreign, selector |-> v, pod |-> [version |-> v, id |-> Nil],
                        replicas |-> IF k = "DaemonSet" THEN Nil ELSE One]
  <2>1. \A v \in Version : new(v) \in App /\ new(v).owner = Foreign
    BY Constants DEF App, Pod
  <2>2. \/ app[k] # Nil /\ WriteApp(k, Nil)
        \/ app[k] = Nil /\ \E v \in Version : WriteApp(k, new(v))
    BY <1>2 DEF AppMeddled
  <2> HIDE DEF new
  <2>3. spent' \in [Budgets -> Nat]
    BY <1>2, SpendEffect DEF AppMeddled, Budgets
  <2>4. QED
    BY <1>2, <2>1, <2>2, <2>3 DEF AppMeddled, AppWritten
<1>3. QED
  BY <1>1, <1>2

LEMMA TypeStep ==
  ASSUME TypeInv, [Next]_vars
  PROVE  TypeInv'
<1> USE DEF TypeInv
<1>1. CASE UNCHANGED vars
  BY <1>1 DEF vars, TypeOK, LocalsInv
<1>2. CASE PatchGone \/ LookupTunnelFails \/ RefuseApp \/ CreateAppExists \/ UpdateAppRejected \/ CallFails
  BY <1>2, RetrySteps, RetryType
<1>3. CASE ReconcileNothing \/ Reconcile \/ LookupTunnel \/ AdoptApp
  BY <1>3, WorkerType
<1>4. CASE StartReconciliation
  <2>1. obj' \in Object \cup {Nil} /\ news' \subseteq Kind \cup {"obj"} /\ app' = app
    BY <1>4, StartEffect, WriteEffect DEF Write
  <2>2. /\ rec' \in Object /\ pc' = Dispatch(rec') /\ seen' = SeenBy(rec')
    BY <1>4, StartEffect
  <2>3. LocalsInv' /\ pc' \in Calls /\ seen' \in App \cup {Nil}
    BY <2>2, DispatchCases DEF LocalsInv, Calls
  <2>4. QED
    BY <1>4, <2>1, <2>2, <2>3 DEF StartReconciliation, TypeOK
<1>5. CASE RecordKind \/ ClearKind
  <2>1. obj' \in Object \cup {Nil} /\ news' \subseteq Kind \cup {"obj"} /\ app' = app
    BY <1>5, RecordEffect, ClearEffect, WriteEffect DEF Write
  <2>2. \E q \in BOOLEAN : Return(q)
    BY <1>5 DEF RecordKind, ClearKind, TypeOK
  <2>3. LocalsInv' /\ rec' = Nil /\ seen' = Nil /\ id' = Nil /\ pc' = "idle" /\ queued' \in BOOLEAN
    BY <2>2, ReturnType
  <2>4. QED
    BY <1>5, <2>1, <2>3 DEF RecordKind, ClearKind, TypeOK
<1>6. CASE CreateApp
  <2>1. rec \in Object /\ rec.spec.kind \in Kind /\ NewApp(rec.spec, rec.uid) \in App
    BY <1>6, ObjectFields, NewAppType DEF CreateApp, LocalsInv
  <2>2. app' \in [Kind -> App \cup {Nil}] /\ news' \subseteq Kind \cup {"obj"} /\ obj' = obj
    BY <1>6, <2>1, WriteAppEffect DEF CreateApp
  <2>3. LocalsInv'
    BY <1>6 DEF CreateApp, Goto, LocalsInv
  <2>4. QED
    BY <1>6, <2>2, <2>3 DEF CreateApp, Goto, TypeOK, Calls
<1>7. CASE DeleteApp \/ UpdateApp
  <2>1. app' \in [Kind -> App \cup {Nil}] /\ news' \subseteq Kind \cup {"obj"} /\ obj' = obj
    <3>1. CASE DeleteApp
      BY <3>1, WriteAppEffect DEF DeleteApp, LocalsInv
    <3>2. CASE UpdateApp
      <4>1. rec \in Object /\ rec.spec.kind \in Kind /\ app[rec.spec.kind] # Nil
        BY <3>2, ObjectFields DEF UpdateApp, PatchRejected, LocalsInv
      <4>2. Updated \in App /\ WriteApp(rec.spec.kind, Updated)
        BY <3>2, <4>1, UpdatedAppType DEF UpdateApp, Updated
      <4>3. QED
        BY <4>1, <4>2, WriteAppEffect
    <3>3. QED
      BY <1>7, <3>1, <3>2
  <2>2. \E q \in BOOLEAN : Return(q)
    BY <1>7 DEF DeleteApp, UpdateApp, TypeOK
  <2>3. LocalsInv' /\ rec' = Nil /\ seen' = Nil /\ id' = Nil /\ pc' = "idle" /\ queued' \in BOOLEAN
    BY <2>2, ReturnType
  <2>4. QED
    BY <1>7, <2>1, <2>3 DEF DeleteApp, UpdateApp, TypeOK
<1>8. CASE Restart
  <2>1. LocalsInv' /\ rec' = Nil /\ seen' = Nil /\ id' = Nil /\ pc' = "idle" /\ queued' \in BOOLEAN
    BY <1>8, ReturnType DEF Restart
  <2>2. spent' \in [Budgets -> Nat]
    BY <1>8, SpendEffect DEF Restart, Budgets
  <2>3. QED
    BY <1>8, <2>1, <2>2 DEF Restart, TypeOK
<1>9. CASE Sync \/ \E k \in Kind : SyncApp(k)
  <2>1. queued' \in BOOLEAN
    BY <1>9 DEF Sync, SyncApp
  <2>2. /\ cache' \in Object \cup {Nil} /\ appCache' \in [Kind -> App \cup {Nil}]
        /\ news' \subseteq Kind \cup {"obj"}
    BY <1>9 DEF Sync, SyncApp, TypeOK
  <2>3. UNCHANGED <<obj, app, uids, tunnel, pc, rec, seen, id, spent>>
    BY <1>9 DEF Sync, SyncApp, workerVars
  <2>4. QED
    BY <2>1, <2>2, <2>3 DEF TypeOK, LocalsInv
<1>10. CASE ObjWritten
  <2>1. obj' \in Object \cup {Nil} /\ news' \subseteq Kind \cup {"obj"} /\ app' = app
    BY <1>10, WriteEffect DEF ObjWritten
  <2>2. QED
    BY <1>10, <2>1 DEF ObjWritten, workerVars, TypeOK, LocalsInv
<1>11. CASE \E k \in Kind : AppWritten(k)
  <2>1. app' \in [Kind -> App \cup {Nil}] /\ news' \subseteq Kind \cup {"obj"} /\ obj' = obj
    BY <1>11, WriteAppEffect DEF AppWritten
  <2>2. QED
    BY <1>11, <2>1 DEF AppWritten, workerVars, TypeOK, LocalsInv
<1>12. CASE \E t \in TunnelId \cup {Nil, "pending"} : TunnelChanges(t)
  <2>1. spent' \in [Budgets -> Nat] /\ tunnel' \in TunnelId \cup {Nil, "pending"} /\ queued' \in BOOLEAN
    BY <1>12, SpendEffect DEF TunnelChanges, Budgets, TypeOK
  <2>2. QED
    BY <1>12, <2>1 DEF TunnelChanges, clusterVars, workerVars, TypeOK, LocalsInv
<1>13. QED
  BY <1>1, <1>2, <1>3, <1>4, <1>5, <1>6, <1>7, <1>8, <1>9, <1>10, <1>11, <1>12, ObjSteps, AppSteps
  DEF Next, ReconcileStep, Environment, Collect

LEMMA InitTypes == ASSUME Init PROVE TypeInv
<1>1. uids \in 0..MaxUid
  BY Constants DEF Init
<1>2. spent \in [Budgets -> Nat] /\ app \in [Kind -> App \cup {Nil}] /\ appCache \in [Kind -> App \cup {Nil}]
  BY DEF Init
<1>3. LocalsInv
  BY DEF Init, LocalsInv
<1>4. QED
  BY <1>1, <1>2, <1>3 DEF Init, TypeInv, TypeOK

(***************************************************************************)
(* Every variable has its type in every reachable state, for every set of  *)
(* versions, tunnels and specs: the dispatch of Reconcile is total, an     *)
(* update meets an app, and what the API server's answer is decoded over   *)
(* gives an object.                                                        *)
(***************************************************************************)
THEOREM TypeCorrect == Spec => []TypeOK
<1>1. Init => TypeInv
  BY InitTypes
<1>2. TypeInv /\ [Next]_vars => TypeInv'
  BY TypeStep
<1>3. TypeInv => TypeOK
  BY DEF TypeInv
<1>4. QED
  BY <1>1, <1>2, <1>3, PTL DEF Spec

-----------------------------------------------------------------------------
(* What is due *)

LEMMA KindNotObj == "obj" \notin Kind
BY DEF Kind

\* Every write of Reconcile, once for all the parts below.
LEMMA WorkerWrites ==
  ASSUME TypeInv
  PROVE  /\ StartReconciliation \/ RecordKind \/ ClearKind
              => /\ \E o \in Object \cup {Nil} : Write(o)
                 /\ UNCHANGED <<cache, appCache>>
         /\ CreateApp => /\ rec.spec.kind \in Kind
                         /\ \E a \in App : a.owner # Foreign /\ WriteApp(rec.spec.kind, a)
                         /\ appCache[rec.spec.kind] = Nil
                         /\ UNCHANGED <<cache, appCache>>
         /\ DeleteApp => /\ rec.status.kind \in Kind
                         /\ WriteApp(rec.status.kind, Nil)
                         /\ UNCHANGED <<cache, appCache>>
         /\ UpdateApp => /\ rec \in Object /\ rec.spec.kind \in Kind
                         /\ app[rec.spec.kind] # Nil
                         /\ Updated \in App /\ Updated.owner = app[rec.spec.kind].owner
                         /\ WriteApp(rec.spec.kind, Updated)
                         /\ UNCHANGED <<cache, appCache>>
<1> USE DEF TypeInv
<1>1. ASSUME StartReconciliation \/ RecordKind \/ ClearKind
      PROVE  (\E o \in Object \cup {Nil} : Write(o)) /\ UNCHANGED <<cache, appCache>>
  <2>1. obj' \in Object /\ Write(obj')
    BY <1>1, StartEffect, RecordEffect, ClearEffect DEF Write
  <2>2. QED
    BY <1>1, <2>1 DEF StartReconciliation, RecordKind, ClearKind
<1>2. ASSUME CreateApp
      PROVE  /\ rec.spec.kind \in Kind
             /\ \E a \in App : a.owner # Foreign /\ WriteApp(rec.spec.kind, a)
             /\ appCache[rec.spec.kind] = Nil
             /\ UNCHANGED <<cache, appCache>>
  <2>1. rec.spec.kind \in Kind /\ rec.spec \in CloudflaredSpec /\ rec.uid \in Uid /\ rec.uid # Foreign
    BY <1>2, ObjectFields, Constants DEF CreateApp, LocalsInv
  <2>2. NewApp(rec.spec, rec.uid) \in App /\ NewApp(rec.spec, rec.uid).owner = rec.uid
    BY <2>1, NewAppType
  <2>3. QED
    BY <1>2, <2>1, <2>2 DEF CreateApp
<1>3. DeleteApp => /\ rec.status.kind \in Kind
                   /\ WriteApp(rec.status.kind, Nil)
                   /\ UNCHANGED <<cache, appCache>>
  BY DEF DeleteApp, LocalsInv
<1>4. ASSUME UpdateApp
      PROVE  /\ rec \in Object /\ rec.spec.kind \in Kind
             /\ app[rec.spec.kind] # Nil
             /\ Updated \in App /\ Updated.owner = app[rec.spec.kind].owner
             /\ WriteApp(rec.spec.kind, Updated)
             /\ UNCHANGED <<cache, appCache>>
  <2>1. rec \in Object /\ rec.spec.kind \in Kind /\ app[rec.spec.kind] # Nil
    BY <1>4, ObjectFields DEF UpdateApp, PatchRejected, LocalsInv
  <2>2. QED
    BY <1>4, <2>1, UpdatedAppType DEF UpdateApp, Updated
<1>5. QED
  BY <1>1, <1>2, <1>3, <1>4

\* The steps that touch neither the originals nor the copies.
LEMMA StillSteps ==
  ASSUME TypeInv,
         \/ ReconcileNothing \/ Reconcile \/ LookupTunnel \/ AdoptApp
         \/ PatchGone \/ LookupTunnelFails \/ RefuseApp \/ CreateAppExists \/ UpdateAppRejected \/ CallFails
         \/ \E t \in TunnelId \cup {Nil, "pending"} : TunnelChanges(t)
         \/ UNCHANGED vars
  PROVE  UNCHANGED <<obj, cache, app, appCache, news>>
<1>1. CASE ReconcileNothing \/ Reconcile \/ LookupTunnel \/ AdoptApp
  BY <1>1 DEF ReconcileNothing, Reconcile, LookupTunnel, AdoptApp, clusterVars
<1>2. CASE PatchGone \/ LookupTunnelFails \/ RefuseApp \/ CreateAppExists \/ UpdateAppRejected \/ CallFails
  BY <1>2, RetrySteps DEF Retries, clusterVars
<1>3. CASE \E t \in TunnelId \cup {Nil, "pending"} : TunnelChanges(t)
  BY <1>3 DEF TunnelChanges, clusterVars
<1>4. CASE UNCHANGED vars
  BY <1>4 DEF vars
<1>5. QED
  BY <1>1, <1>2, <1>3, <1>4

\* The copies lag behind with news of it, and a copy that enqueues is not lost.
LEMMA CacheStep ==
  ASSUME TypeInv, CacheInv, OwnInv, [Next]_vars
  PROVE  CacheInv' /\ OwnInv'
<1> USE DEF TypeInv
<1>1. CASE \/ ReconcileNothing \/ Reconcile \/ LookupTunnel \/ AdoptApp
           \/ PatchGone \/ LookupTunnelFails \/ RefuseApp \/ CreateAppExists \/ UpdateAppRejected \/ CallFails
           \/ \E t \in TunnelId \cup {Nil, "pending"} : TunnelChanges(t)
           \/ UNCHANGED vars
  BY <1>1, StillSteps DEF CacheInv, OwnInv, Owned
<1>2. CASE StartReconciliation \/ RecordKind \/ ClearKind \/ ObjWritten
  <2>1. PICK o \in Object \cup {Nil} : Write(o) /\ UNCHANGED <<cache, appCache>>
    BY <1>2, WorkerWrites DEF ObjWritten
  <2>2. QED
    BY <2>1, WriteEffect DEF CacheInv, OwnInv, Owned
<1>3. ASSUME NEW k \in Kind, NEW a \in App \cup {Nil}, WriteApp(k, a), UNCHANGED <<cache, appCache>>,
             Owned(a) => appCache[k] = Nil \/ Owned(appCache[k])
      PROVE  CacheInv' /\ OwnInv'
  <2>1. /\ app'[k] = a /\ \A j \in Kind : j # k => app'[j] = app[j]
        /\ news \subseteq news' /\ (a # app[k] => k \in news') /\ obj' = obj
    BY <1>3, WriteAppEffect
  <2>2. CacheInv'
    BY <1>3, <2>1 DEF CacheInv
  <2>3. OwnInv'
    BY <1>3, <2>1 DEF OwnInv, Owned
  <2>4. QED
    BY <2>2, <2>3
<1>4. CASE CreateApp
  BY <1>3, <1>4, WorkerWrites
<1>5. CASE DeleteApp
  BY <1>3, <1>5, WorkerWrites DEF Owned
<1>6. CASE UpdateApp
  <2>1. /\ rec.spec.kind \in Kind /\ Updated \in App /\ WriteApp(rec.spec.kind, Updated)
        /\ UNCHANGED <<cache, appCache>>
        /\ Owned(Updated) => Owned(app[rec.spec.kind])
    BY <1>6, WorkerWrites DEF Owned
  <2>2. QED
    BY <1>3, <2>1 DEF OwnInv
<1>7. CASE \E k \in Kind : AppWritten(k)
  BY <1>3, <1>7 DEF AppWritten, Owned
<1>8. CASE Restart
  BY <1>8 DEF Restart, CacheInv, OwnInv, Owned
<1>9. CASE Sync
  BY <1>9, KindNotObj DEF Sync, CacheInv, OwnInv, Owned
<1>10. CASE \E k \in Kind : SyncApp(k)
  <2>1. PICK k \in Kind : SyncApp(k)
    BY <1>10
  <2>2. /\ appCache'[k] = app[k] /\ \A j \in Kind : j # k => appCache'[j] = appCache[j]
        /\ news' = news \ {k} /\ obj' = obj /\ cache' = cache /\ app' = app
    BY <2>1 DEF SyncApp, TypeOK
  <2>3. QED
    BY <2>2, KindNotObj DEF CacheInv, OwnInv, Owned
<1>11. QED
  BY <1>1, <1>2, <1>4, <1>5, <1>6, <1>7, <1>8, <1>9, <1>10, ObjSteps, AppSteps
  DEF Next, ReconcileStep, Environment, Collect

\* The numbers of replicas that the server has.
LEMMA SizeStep == ASSUME TypeInv, SizeInv, [Next]_vars PROVE SizeInv'
<1> USE DEF TypeInv
<1>1. ASSUME NEW k \in Kind, NEW a \in App \cup {Nil}, WriteApp(k, a), Sized(k, a)
      PROVE  SizeInv'
  BY <1>1, WriteAppEffect DEF SizeInv
<1>2. CASE CreateApp
  <2>1. rec.spec \in CloudflaredSpec /\ rec.spec.kind \in Kind /\ rec.uid \in Uid
    BY <1>2, ObjectFields DEF CreateApp, LocalsInv
  <2>2. NewApp(rec.spec, rec.uid) \in App
    BY <2>1, NewAppType
  <2>3. Sized(rec.spec.kind, NewApp(rec.spec, rec.uid))
    BY <2>1, Constants DEF Sized, NewApp, Replicas, CloudflaredSpec
  <2>4. QED
    BY <1>1, <1>2, <2>1, <2>2, <2>3 DEF CreateApp
<1>3. CASE UpdateApp
  <2>1. /\ rec \in Object /\ rec.spec.kind \in Kind /\ app[rec.spec.kind] # Nil
        /\ Updated \in App /\ WriteApp(rec.spec.kind, Updated)
    BY <1>3, WorkerWrites
  <2>2. Sized(rec.spec.kind, app[rec.spec.kind])
    BY <2>1 DEF SizeInv
  <2>3. Sized(rec.spec.kind, Updated)
    BY <2>1, <2>2, UpdatedAppType, ObjectFields, Constants DEF Sized, Replicas
  <2>4. QED
    BY <1>1, <2>1, <2>3
<1>4. CASE DeleteApp \/ \E k \in Kind : CollectApp(k)
  BY <1>1, <1>4, WorkerWrites DEF CollectApp, Sized
<1>5. CASE \E k \in Kind : AppMeddled(k)
  <2>1. PICK k \in Kind : AppMeddled(k)
    BY <1>5
  <2>2. CASE WriteApp(k, Nil)
    BY <1>1, <2>2 DEF Sized
  <2>3. ASSUME NEW v \in Version,
               WriteApp(k, [owner |-> Foreign, selector |-> v, pod |-> [version |-> v, id |-> Nil],
                            replicas |-> IF k = "DaemonSet" THEN Nil ELSE One])
        PROVE  SizeInv'
    <3> DEFINE a == [owner |-> Foreign, selector |-> v, pod |-> [version |-> v, id |-> Nil],
                     replicas |-> IF k = "DaemonSet" THEN Nil ELSE One]
    <3>1. a \in App /\ Sized(k, a)
      BY Constants DEF App, Pod, Sized
    <3>2. WriteApp(k, a)
      BY <2>3
    <3> HIDE DEF a
    <3>3. QED
      BY <1>1, <3>1, <3>2
  <2>4. QED
    BY <2>1, <2>2, <2>3 DEF AppMeddled
<1>6. CASE app' = app
  BY <1>6 DEF SizeInv
<1>7. QED
  BY <1>2, <1>3, <1>4, <1>5, <1>6
  DEF Next, ReconcileStep, Environment, Collect, vars, clusterVars, Write,
      ReconcileNothing, Reconcile, StartReconciliation, PatchGone, LookupTunnel, LookupTunnelFails,
      AdoptApp, RefuseApp, CreateAppExists, RecordKind, ClearKind, UpdateAppRejected, Sync, SyncApp,
      CollectObject, CallFails, Restart, UserDeletes, UserCreates, UserEdits, TunnelChanges

WorkInv == FreshInv /\ TunnelInv /\ SeenInv /\ UpdatingInv /\ RunningInv

\* While something is due for the worker nothing is claimed.
LEMMA DueSuffices == ASSUME ObjDue' PROVE WorkInv'
BY DEF ObjDue, WorkInv, FreshInv, TunnelInv, SeenInv, UpdatingInv, RunningInv

\* The steps after which something is due.
LEMMA DueSteps ==
  ASSUME IInv,
         \/ PatchGone \/ LookupTunnelFails \/ RefuseApp \/ CreateAppExists \/ UpdateAppRejected \/ CallFails
         \/ ClearKind \/ DeleteApp \/ Sync \/ StartReconciliation \/ RecordKind
  PROVE  ObjDue'
<1> USE DEF IInv, ObjDue
<1>1. CASE PatchGone \/ LookupTunnelFails \/ RefuseApp \/ CreateAppExists \/ UpdateAppRejected \/ CallFails
  BY <1>1, RetrySteps DEF Retries, Return
<1>2. CASE ClearKind \/ DeleteApp \/ Sync
  BY <1>2 DEF ClearKind, DeleteApp, Sync, Return
<1>3. CASE StartReconciliation \/ RecordKind
  <2>1. pc # "idle" /\ queued' = queued
    BY <1>3 DEF StartReconciliation, RecordKind, Return
  <2>2. obj' \in Object /\ Write(obj') /\ (rec = obj => obj' # obj)
    BY <1>3, StartEffect, RecordEffect DEF Write
  <2>3. news \subseteq news' /\ (obj' # obj => "obj" \in news')
    BY <2>2, WriteEffect
  <2>4. QED
    BY <2>1, <2>2, <2>3 DEF FreshInv
<1>4. QED
  BY <1>1, <1>2, <1>3

\* The tunnel that is looked up depends on the tunnel only through the reference.
LEMMA LookedStays ==
  ASSUME TypeInv, NEW c \in Config, tunnel' = tunnel \/ ~c.ref
  PROVE  Looked(c)' = Looked(c)
<1>1. CASE tunnel' = tunnel
  BY <1>1 DEF Looked
<1>2. CASE ~c.ref
  BY <1>2, Constants DEF Looked, Config
<1>3. QED
  BY <1>1, <1>2

\* What the worker does between two writes.
LEMMA WorkerWork ==
  ASSUME IInv, CacheInv', ~ObjDue', ReconcileNothing \/ Reconcile \/ LookupTunnel \/ AdoptApp \/ CreateApp
  PROVE  WorkInv'
<1> USE DEF IInv, ObjDue, TypeInv
<1>1. CASE ReconcileNothing
  <2>1. pc' = "idle" /\ UNCHANGED <<obj, cache, news>>
    BY <1>1 DEF ReconcileNothing, workerVars, clusterVars
  <2>2. obj = Nil \/ obj.deleting
    BY <1>1, <2>1 DEF ReconcileNothing, CacheInv
  <2>3. QED
    BY <2>1, <2>2 DEF WorkInv, FreshInv, TunnelInv, SeenInv, UpdatingInv, RunningInv
<1>2. CASE Reconcile
  <2>1. cache \in Object /\ rec' = cache /\ UNCHANGED <<obj, app, appCache, news>>
    BY <1>2 DEF Reconcile, clusterVars, TypeOK
  <2>2. rec' = obj'
    BY <2>1 DEF CacheInv
  <2>3. pc' \in {"unknown", "lookupCreate", "clearKind", "deleteApp", "lookupUpdate"}
    BY <1>2, <2>1, DispatchCases DEF Reconcile, Goto
  <2>4. pc' = "lookupUpdate" => /\ appCache'[rec'.spec.kind] # Nil
                               /\ seen' = appCache'[rec'.spec.kind]
    BY <1>2, <2>1, DispatchCases, Constants, ObjectFields DEF Reconcile, Goto, SeenBy
  <2>5. QED
    BY <2>2, <2>3, <2>4 DEF WorkInv, FreshInv, TunnelInv, SeenInv, UpdatingInv, RunningInv
<1>3. CASE LookupTunnel
  <2>1. /\ pc' \in {"create", "patchApp"} /\ (pc' = "patchApp" => pc = "lookupUpdate") /\ pc # "idle"
        /\ UNCHANGED <<obj, app, appCache, news, queued, rec, seen, tunnel>>
        /\ id' = Looked(rec.spec.config)
    BY <1>3 DEF LookupTunnel, Goto, clusterVars
  <2>2. id' = Looked(rec.spec.config)'
    BY <2>1 DEF Looked
  <2>3. QED
    BY <2>1, <2>2 DEF WorkInv, FreshInv, TunnelInv, SeenInv, UpdatingInv, RunningInv, Owned
<1>4. CASE AdoptApp \/ CreateApp
  <2>1. /\ pc' = "recordKind" /\ pc = "create"
        /\ UNCHANGED <<obj, queued, rec, id, tunnel>>
    BY <1>4 DEF AdoptApp, CreateApp, WriteApp, Goto, clusterVars
  <2>2. "obj" \notin news
    <3>1. CASE AdoptApp
      BY <3>1 DEF AdoptApp, clusterVars
    <3>2. CASE CreateApp
      BY <3>2, WorkerWrites, WriteAppEffect
    <3>3. QED
      BY <1>4, <3>1, <3>2
  <2>3. id' = Looked(rec.spec.config)'
    BY <2>1, <2>2 DEF TunnelInv, Looked
  <2>4. QED
    BY <2>1, <2>2, <2>3 DEF WorkInv, FreshInv, TunnelInv, SeenInv, UpdatingInv, RunningInv
<1>5. QED
  BY <1>1, <1>2, <1>3, <1>4

\* The update of the app: after it the app runs what the object and the tunnel say.
LEMMA UpdateWork ==
  ASSUME IInv, ~ObjDue', UpdateApp
  PROVE  WorkInv'
<1> USE DEF IInv, ObjDue, TypeInv
<1> DEFINE k == rec.spec.kind
<1>1. /\ rec \in Object /\ k \in Kind /\ app[k] # Nil
      /\ Updated \in App /\ Updated.owner = app[k].owner
      /\ WriteApp(k, Updated) /\ UNCHANGED <<cache, appCache>>
  BY WorkerWrites
<1>2. /\ app'[k] = Updated /\ obj' = obj /\ news \subseteq news'
  BY <1>1, WriteAppEffect
<1>3. /\ pc' = "idle" /\ pc = "patchApp" /\ UNCHANGED <<queued, tunnel>>
  BY DEF UpdateApp, Return
<1>4. ~ObjDue /\ rec = obj /\ rec.status.kind = k /\ id = Looked(rec.spec.config)
  BY <1>2, <1>3 DEF FreshInv, TunnelInv, LocalsInv
<1>5. Updated.pod = [version |-> rec.spec.version, id |-> id] /\ Updated # Nil
  BY <1>1, UpdatedAppType, AppFields
<1>6. Owned(Updated) => Owned(appCache[k])
  <2>1. Owned(Updated) => Owned(app[k])
    BY <1>1 DEF Owned
  <2>2. appCache[k] # Nil \/ ~Owned(app[k])
    BY <1>3, <1>4 DEF UpdatingInv
  <2>3. QED
    BY <1>1, <2>1, <2>2 DEF OwnInv
<1>7. Looked(obj.spec.config)' = id
  BY <1>2, <1>3, <1>4 DEF Looked
\* Either the number is right, or the server's is not the one compared with: then
\* there is news of the app.
<1>8. Owned(Updated) => k \in news' \/ Updated.replicas = Replicas(rec.spec)
  <2> SUFFICES ASSUME Owned(Updated), k \notin news', rec.spec.replicas = seen.replicas
               PROVE  app[k].replicas = Replicas(rec.spec)
    BY <1>1, UpdatedAppType
  <2>1. seen = app[k]
    BY <1>1, <1>2, <1>3, <1>4, <1>6 DEF SeenInv, CacheInv
  <2>2. app[k].replicas = Nil <=> k = "DaemonSet"
    BY <1>1 DEF SizeInv, Sized
  <2>3. QED
    BY <2>1, <2>2 DEF Replicas
<1>9. Owned(app'[k]) => Owned(appCache'[k])
  BY <1>1, <1>2, <1>6
<1> HIDE DEF k
<1>10. (Owned(Updated) => Updated.replicas = Replicas(rec.spec)) => Runs(obj)'
  BY <1>2, <1>4, <1>5, <1>7 DEF Runs, Replicas, Owned, k
<1>11. obj'.spec.kind = k /\ obj'.status.kind = k
  BY <1>2, <1>4 DEF k
<1>12. \/ k \in news' /\ Owned(appCache'[k])
       \/ Runs(obj)' /\ (Owned(app'[k]) => Owned(appCache'[k]))
  BY <1>1, <1>2, <1>6, <1>8, <1>9, <1>10
<1>13. RunningInv'
  BY <1>11, <1>12 DEF RunningInv, Owned
<1>14. QED
  BY <1>3, <1>13 DEF WorkInv, FreshInv, TunnelInv, SeenInv, UpdatingInv

\* The steps of the informers and of the others.
LEMMA OthersWork ==
  ASSUME IInv, CacheInv', ~ObjDue',
         \/ ObjWritten \/ Restart \/ UNCHANGED vars
         \/ \E t \in TunnelId \cup {Nil, "pending"} : TunnelChanges(t)
  PROVE  WorkInv'
<1> USE DEF IInv, ObjDue, TypeInv
<1>1. CASE UNCHANGED vars
  BY <1>1 DEF vars, WorkInv, FreshInv, TunnelInv, SeenInv, UpdatingInv, RunningInv, Owned, Runs, Looked, Replicas
<1>2. CASE Restart
  BY <1>2 DEF Restart, Return, WorkInv, FreshInv, TunnelInv, SeenInv, UpdatingInv, RunningInv
<1>3. CASE ObjWritten
  <2>1. PICK o \in Object \cup {Nil} : Write(o)
    BY <1>3 DEF ObjWritten
  <2>2. /\ obj' = obj /\ "obj" \notin news /\ app' = app
        /\ \A k \in Kind : k \in news' <=> k \in news
    BY <2>1, WriteEffect
  <2>3. UNCHANGED <<cache, appCache, queued, tunnel, pc, rec, seen, id>>
    BY <1>3 DEF ObjWritten, workerVars
  <2>4. FreshInv' /\ TunnelInv' /\ SeenInv' /\ UpdatingInv'
    BY <2>2, <2>3 DEF FreshInv, TunnelInv, SeenInv, UpdatingInv, Owned, Looked
  <2>5. RunningInv'
    <3>1. Runs(obj)' = Runs(obj)
      BY <2>2, <2>3 DEF Runs, Looked, Replicas
    <3>2. obj # Nil => obj.spec.kind \in Kind
      BY ObjectFields DEF TypeOK
    <3>3. QED
      BY <2>2, <2>3, <3>1, <3>2 DEF RunningInv, Owned
  <2>6. QED
    BY <2>4, <2>5 DEF WorkInv
<1>4. CASE \E t \in TunnelId \cup {Nil, "pending"} : TunnelChanges(t)
  <2>1. UNCHANGED <<obj, cache, app, appCache, news, pc, rec, seen, id>>
    BY <1>4 DEF TunnelChanges, clusterVars, workerVars
  <2>2. ~queued /\ ~CloudflaredsForTunnel /\ cache = obj /\ ~ObjDue
    BY <1>4, <2>1 DEF TunnelChanges, CacheInv
  <2>3. obj # Nil => obj \in Object /\ obj.spec.config \in Config /\ ~obj.spec.config.ref
    BY <2>2, ObjectFields DEF CloudflaredsForTunnel, TypeOK
  <2>4. obj # Nil => Looked(obj.spec.config)' = Looked(obj.spec.config)
    BY <2>1, <2>3, LookedStays DEF Looked
  <2>5. FreshInv' /\ SeenInv' /\ UpdatingInv'
    BY <2>1, <2>2 DEF FreshInv, SeenInv, UpdatingInv, Owned
  <2>6. TunnelInv'
    <3>1. pc # "idle" => rec = obj /\ rec # Nil
      BY <2>2, Constants DEF FreshInv, LocalsInv
    <3>2. QED
      BY <2>1, <2>2, <2>4, <3>1 DEF TunnelInv, Looked
  <2>7. RunningInv'
    <3>1. obj # Nil => Runs(obj)' = Runs(obj)
      BY <2>1, <2>4 DEF Runs, Replicas
    <3>2. QED
      BY <2>1, <2>2, <3>1 DEF RunningInv, Owned
  <2>8. QED
    BY <2>5, <2>6, <2>7 DEF WorkInv
<1>5. QED
  BY <1>1, <1>2, <1>3, <1>4

\* An app comes or goes, or its informer delivers.
LEMMA AppWork ==
  ASSUME IInv, ~ObjDue', NEW k \in Kind,
         SyncApp(k) \/ (AppWritten(k) /\ (app[k] # Nil => Owned(app[k])))
  PROVE  WorkInv'
<1> USE DEF IInv, ObjDue, TypeInv
<1>1. /\ UNCHANGED <<obj, tunnel, pc, rec, seen, id>> /\ ~ObjDue
  <2>1. CASE SyncApp(k)
    BY <2>1, KindNotObj DEF SyncApp, workerVars
  <2>2. CASE AppWritten(k)
    BY <2>2, WriteAppEffect DEF AppWritten, workerVars
  <2>3. QED
    BY <2>1, <2>2
<1>2. FreshInv' /\ TunnelInv'
  BY <1>1 DEF FreshInv, TunnelInv, Looked
<1>3. CASE SyncApp(k)
  <2>1. /\ appCache'[k] = app[k] /\ \A j \in Kind : j # k => appCache'[j] = appCache[j]
        /\ news' = news \ {k} /\ app' = app
        /\ ~Owned(app[k]) /\ ~Owned(appCache[k])
    BY <1>3 DEF SyncApp, TypeOK, Owned
  <2>2. SeenInv' /\ UpdatingInv'
    BY <1>1, <2>1, ObjectFields DEF SeenInv, UpdatingInv, LocalsInv, Owned
  <2>3. RunningInv'
    <3> SUFFICES ASSUME pc = "idle", obj # Nil, ~obj.deleting
                 PROVE  /\ obj.status.kind = obj.spec.kind
                        /\ \/ obj.spec.kind \in news' /\ Owned(appCache'[obj.spec.kind])
                           \/ Runs(obj)' /\ (Owned(app'[obj.spec.kind]) => Owned(appCache'[obj.spec.kind]))
      BY <1>1 DEF RunningInv, Owned
    <3>1. obj.spec.kind \in Kind
      BY ObjectFields DEF TypeOK
    <3>2. Runs(obj)' = Runs(obj)
      BY <1>1, <2>1 DEF Runs, Looked, Replicas
    <3>3. QED
      BY <1>1, <2>1, <3>1, <3>2 DEF RunningInv
  <2>4. QED
    BY <1>2, <2>2, <2>3 DEF WorkInv
<1>4. CASE AppWritten(k) /\ (app[k] # Nil => Owned(app[k]))
  <2>1. PICK a \in App \cup {Nil} : WriteApp(k, a) /\ a # app[k] /\ ~Owned(a) /\ (app[k] # Nil => a = Nil)
    BY <1>4, AppFields DEF AppWritten, Owned
  <2>2. /\ app'[k] = a /\ \A j \in Kind : j # k => app'[j] = app[j]
        /\ news \subseteq news' /\ k \in news' /\ appCache' = appCache
    BY <1>4, <2>1, WriteAppEffect DEF AppWritten
  <2>3. SeenInv' /\ UpdatingInv'
    BY <1>1, <2>1, <2>2, ObjectFields DEF SeenInv, UpdatingInv, LocalsInv, Owned
  <2>4. RunningInv'
    <3> SUFFICES ASSUME pc = "idle", obj # Nil, ~obj.deleting
                 PROVE  /\ obj.status.kind = obj.spec.kind
                        /\ \/ obj.spec.kind \in news' /\ Owned(appCache'[obj.spec.kind])
                           \/ Runs(obj)' /\ (Owned(app'[obj.spec.kind]) => Owned(appCache'[obj.spec.kind]))
      BY <1>1 DEF RunningInv, Owned
    <3>1. obj.spec.kind \in Kind
      BY ObjectFields DEF TypeOK
    <3>2. CASE obj.spec.kind = k
      <4>1. Owned(app[k]) \/ app[k] = Nil
        BY <1>4
      <4>2. Owned(appCache[k])
        BY <1>1, <3>2, <4>1 DEF RunningInv, Runs
      <4>3. QED
        BY <1>1, <2>2, <3>2, <4>2 DEF RunningInv
    <3>3. CASE obj.spec.kind # k
      <4>1. Runs(obj)' = Runs(obj)
        BY <1>1, <2>2, <3>1, <3>3 DEF Runs, Looked, Replicas
      <4>2. QED
        BY <1>1, <2>2, <3>1, <3>3, <4>1 DEF RunningInv
    <3>4. QED
      BY <3>2, <3>3
  <2>5. QED
    BY <1>2, <2>3, <2>4 DEF WorkInv
<1>5. QED
  BY <1>3, <1>4

LEMMA Step ==
  ASSUME IInv, [Next]_vars, ForeignAppsStay
  PROVE  IInv'
<1>1. TypeInv' /\ CacheInv' /\ OwnInv'
  BY TypeStep, CacheStep DEF IInv
<1>2. SizeInv'
  BY SizeStep DEF IInv
<1>3. WorkInv'
  <2>1. CASE ObjDue'
    BY <2>1, DueSuffices
  <2>2. CASE ~ObjDue'
    <3>1. CASE \/ PatchGone \/ LookupTunnelFails \/ RefuseApp \/ CreateAppExists \/ UpdateAppRejected
               \/ CallFails \/ ClearKind \/ DeleteApp \/ Sync \/ StartReconciliation \/ RecordKind
      BY <2>2, <3>1, DueSteps
    <3>2. CASE ReconcileNothing \/ Reconcile \/ LookupTunnel \/ AdoptApp \/ CreateApp
      BY <1>1, <2>2, <3>2, WorkerWork
    <3>3. CASE UpdateApp
      BY <2>2, <3>3, UpdateWork
    <3>4. CASE \/ UserDeletes \/ CollectObject \/ (\E s \in SpecsOf : UserCreates(s) \/ UserEdits(s))
               \/ Restart \/ UNCHANGED vars
               \/ \E t \in TunnelId \cup {Nil, "pending"} : TunnelChanges(t)
      BY <1>1, <2>2, <3>4, OthersWork, ObjSteps DEF IInv
    <3>5. CASE \E k \in Kind : SyncApp(k) \/ AppMeddled(k) \/ CollectApp(k)
      <4>1. PICK k \in Kind : SyncApp(k) \/ AppMeddled(k) \/ CollectApp(k)
        BY <3>5
      <4>2. CASE SyncApp(k)
        BY <2>2, <4>2, AppWork
      <4>3. CASE AppMeddled(k) \/ CollectApp(k)
        <5>1. AppWritten(k)
          BY <4>3, AppSteps DEF IInv
        <5>2. app[k] # Nil => Owned(app[k])
          BY <4>3 DEF ForeignAppsStay, CollectApp, Orphaned, Owned
        <5>3. QED
          BY <2>2, <5>1, <5>2, AppWork
      <4>4. QED
        BY <4>1, <4>2, <4>3
    <3>6. QED
      BY <3>1, <3>2, <3>3, <3>4, <3>5 DEF Next, ReconcileStep, Environment, Collect
  <2>3. QED
    BY <2>1, <2>2
<1>4. QED
  BY <1>1, <1>2, <1>3 DEF IInv, WorkInv

LEMMA Stutter == ASSUME IInv, UNCHANGED vars PROVE IInv'
<1>1. TypeInv' /\ CacheInv' /\ OwnInv'
  BY TypeStep, CacheStep DEF IInv
<1>2. SizeInv'
  BY SizeStep DEF IInv
<1>3. ~ObjDue' => WorkInv'
  BY <1>1, OthersWork
<1>4. QED
  BY <1>1, <1>2, <1>3, DueSuffices DEF IInv, WorkInv

(***************************************************************************)
(* The property of the run, for any number of objects, edits, failures and *)
(* tunnel changes, and of interventions as long as nobody deletes an app   *)
(* that somebody else put in the place of the Cloudflared's own: Reconcile *)
(* updates such an app as if it were the operator's, but its events name   *)
(* no Cloudflared, so its removal goes unnoticed.  The replicas of such an *)
(* app are not claimed, those of the operator's are: a patch that leaves   *)
(* them out, because it is computed against an old copy, is followed by    *)
(* the event of the app.                                                   *)
(***************************************************************************)
THEOREM QuietRuns == Spec /\ [][ForeignAppsStay]_vars => []QuietMeansRunning
<1>1. Init => IInv
  <2> SUFFICES ASSUME Init PROVE IInv
    OBVIOUS
  <2>1. TypeInv
    BY InitTypes
  <2>2. CacheInv /\ OwnInv /\ SizeInv /\ FreshInv /\ TunnelInv /\ SeenInv /\ UpdatingInv /\ RunningInv
    BY DEF Init, CacheInv, OwnInv, SizeInv, Sized, FreshInv, TunnelInv, SeenInv, UpdatingInv, RunningInv, Owned
  <2>3. QED
    BY <2>1, <2>2 DEF IInv
<1>2. IInv /\ [Next]_vars /\ [ForeignAppsStay]_vars => IInv'
  <2>1. CASE UNCHANGED vars
    BY <2>1, Stutter
  <2>2. CASE ForeignAppsStay
    BY <2>2, Step
  <2>3. QED
    BY <2>1, <2>2
<1>3. IInv => QuietMeansRunning
  BY DEF IInv, CacheInv, RunningInv, ObjDue, QuietMeansRunning, Quiet
<1>4. QED
  BY <1>1, <1>2, <1>3, PTL DEF Spec
=============================================================================
