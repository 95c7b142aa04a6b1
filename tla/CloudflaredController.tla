------------------------ MODULE CloudflaredController ------------------------
(***************************************************************************)
(* The Cloudflared controller: one worker that runs a Cloudflared object   *)
(* as a Deployment or a DaemonSet of the same name                         *)
(* (src/internal/controller/cloudflared_controller.go).                    *)
(*                                                                         *)
(* Cloudflareds do not touch each other, so there is one name.  Under it   *)
(* objects come and go, each with a uid of its own.  The object and the    *)
(* apps of either kind are read from informer caches that lag on their     *)
(* own; writes are addressed by name, never by uid.                        *)
(*                                                                         *)
(* A pod is what the code varies in a pod template: the version of the     *)
(* image (spec.version, or the tag of a custom image, which is also the    *)
(* version label) and the tunnel that cloudflared runs with its token.     *)
(***************************************************************************)
EXTENDS Naturals

CONSTANTS
  Version, TunnelId,
  Size,      \* numbers of replicas; One is what the API server defaults to
  One,
  Foreign,   \* the owner of an app somebody else made
  SpecsOf,   \* the specs a user may write
  MaxUid,    \* how many objects of the name are created
  Budget,    \* how often the environment may act, by kind: the allowed combinations
  Nil

Kind == {"DaemonSet", "Deployment"}
Other(k) == CHOOSE j \in Kind : j # k
Budgets == {"create", "edit", "fault", "outside", "tunnel"}
Uid == 1..MaxUid

\* account and ref say whether spec.config has an accountId and a tunnelRef.
Config == [id : TunnelId \cup {Nil}, account : BOOLEAN, ref : BOOLEAN]
CloudflaredSpec == [kind : Kind, version : Version, config : Config, replicas : Size \cup {Nil}]

ASSUME ConstantsAssumption ==
  /\ Nil \notin Version \cup TunnelId /\ Nil \notin Size /\ Nil \notin Kind
  /\ "pending" \notin TunnelId /\ Nil # "pending"
  /\ Foreign \notin Uid
  /\ One \in Size
  /\ SpecsOf \subseteq CloudflaredSpec
  /\ MaxUid \in Nat
  /\ Budget \subseteq [Budgets -> Nat]

VARIABLES
  obj,       \* the Cloudflared at the API server
  cache,     \* the informer's copy of it
  app,       \* the apps of that name at the API server, by kind
  appCache,  \* the informers' copies of them
  news,      \* which of the three an informer has not delivered yet
  queued,    \* whether the name waits to be reconciled
  tunnel,    \* the id of the referenced CloudflareTunnel, "pending" while it has
             \* none, Nil while there is no such object
  uids,      \* how many objects have been created
  pc,        \* the call that Reconcile is about to make
  rec,       \* Reconcile's copy of the object
  seen,      \* the app that getApp returned
  id,        \* the tunnel that lookupTunnel returned
  spent      \* how much of each budget is used up

clusterVars == <<obj, cache, app, appCache, news, uids>>
workerVars  == <<pc, rec, seen, id>>
vars == <<obj, cache, app, appCache, news, queued, tunnel, uids, pc, rec, seen, id, spent>>

-----------------------------------------------------------------------------
(* Types *)

CloudflaredStatus == [cond : {"none", "Unknown", "True", "False"}, kind : Kind \cup {Nil}, id : TunnelId \cup {Nil}]
NoStatus == [cond |-> "none", kind |-> Nil, id |-> Nil]

Object == [uid : Uid, deleting : BOOLEAN, spec : CloudflaredSpec, status : CloudflaredStatus]
Pod == [version : Version, id : TunnelId \cup {Nil}]

\* A DaemonSet has no replicas.
App == [owner : Uid \cup {Foreign}, selector : Version, pod : Pod, replicas : Size \cup {Nil}]

\* Nil stands for an object or an app that does not exist.
ASSUME NilAssumption == Nil \notin Object /\ Nil \notin App

Calls == {"unknown", "lookupCreate", "create", "recordKind", "clearKind", "deleteApp", "lookupUpdate", "patchApp"}

\* Every variable has its type; the selector of an app never leaves its version.
TypeOK ==
  /\ obj \in Object \cup {Nil} /\ cache \in Object \cup {Nil} /\ rec \in Object \cup {Nil}
  /\ app \in [Kind -> App \cup {Nil}] /\ appCache \in [Kind -> App \cup {Nil}]
  /\ seen \in App \cup {Nil}
  /\ news \subseteq Kind \cup {"obj"}
  /\ queued \in BOOLEAN
  /\ tunnel \in TunnelId \cup {Nil, "pending"}
  /\ uids \in 0..MaxUid
  /\ pc \in Calls \cup {"idle"}
  /\ id \in TunnelId \cup {Nil}
  /\ spent \in [Budgets -> Nat]

Init ==
  /\ obj = Nil /\ cache = Nil /\ rec = Nil /\ seen = Nil /\ id = Nil
  /\ app = [k \in Kind |-> Nil] /\ appCache = [k \in Kind |-> Nil]
  /\ news = {} /\ queued = FALSE /\ uids = 0
  /\ tunnel \in {Nil, "pending"}
  /\ pc = "idle"
  /\ spent = [k \in Budgets |-> 0]

-----------------------------------------------------------------------------
(* The parts Reconcile is made of *)

\* Variant: the kind of the spec is not compared with the recorded one.
DispatchAnyKind(o) ==
  CASE o.status.kind = Nil                                      -> "lookupCreate"
    [] o.status.kind # Nil /\ appCache[o.status.kind] = Nil    -> "clearKind"
    [] o.status.kind # Nil /\ appCache[o.status.kind] # Nil    -> "lookupUpdate"

\* What Reconcile does about the app: create it where no kind is recorded; where one
\* is, the cached app of that kind, whoever controls it, decides.
Dispatch(o) ==
  LET k == o.status.kind
  IN  CASE k = Nil                                              -> "lookupCreate"
        [] k # Nil /\ appCache[k] = Nil                        -> "clearKind"
        [] k # Nil /\ appCache[k] # Nil /\ k # o.spec.kind     -> "deleteApp"
        [] k # Nil /\ appCache[k] # Nil /\ k = o.spec.kind     -> "lookupUpdate"

\* The app that getApp returned, Nil where Reconcile does not go on with one.
SeenBy(o) == IF o.status.kind = Nil THEN Nil ELSE appCache[o.status.kind]

\* Inline configuration is preferred to the reference.
LookupFails(c) == IF c.id # Nil THEN ~c.account ELSE c.ref /\ tunnel = Nil

\* Variant: the status of the tunnel is used although it holds no id.
LookedUnready(c) == IF c.id # Nil THEN c.id ELSE IF c.ref THEN tunnel ELSE Nil

Looked(c) == CASE c.id # Nil -> c.id
               [] c.id = Nil /\ c.ref /\ tunnel # "pending" -> tunnel
               [] c.id = Nil /\ ~(c.ref /\ tunnel # "pending") -> Nil

PodTemplateSpec(s) == [version |-> s.version, id |-> id]

\* The API server defaults the replicas of a Deployment.
Replicas(s) == IF s.kind = "DaemonSet" THEN Nil ELSE IF s.replicas = Nil THEN One ELSE s.replicas

\* The selector of a new app is made of the labels of its pods.
NewApp(s, u) == [owner |-> u, selector |-> s.version, pod |-> PodTemplateSpec(s), replicas |-> Replicas(s)]

\* Variant: tunnels are not watched.
CloudflaredsForTunnelNone == FALSE

CloudflaredsForTunnel == cache # Nil /\ cache.spec.config.ref

\* An answer of the API server is decoded over the copy: what it leaves out stays.
Refreshed(o) ==
  LET Field(n, b) == IF n = Nil THEN b ELSE n
      c == o.spec.config  r == rec.spec.config
  IN  [o EXCEPT !.status.kind = Field(@, rec.status.kind), !.status.id = Field(@, rec.status.id),
                !.spec.config = [id |-> Field(c.id, r.id), account |-> c.account \/ r.account, ref |-> c.ref \/ r.ref],
                !.spec.replicas = Field(@, rec.spec.replicas)]

\* A merge patch of the status writes the fields that differ from Reconcile's copy.
Patched(new) ==
  LET Field(n, b, w) == IF w # b THEN w ELSE n
      n == obj.status  b == rec.status
  IN  [obj EXCEPT !.status = [cond |-> Field(n.cond, b.cond, new.cond),
                              kind |-> Field(n.kind, b.kind, new.kind),
                              id   |-> Field(n.id, b.id, new.id)]]

Write(o) ==
  /\ obj' = o
  /\ news' = IF o = obj THEN news ELSE news \cup {"obj"}
  /\ UNCHANGED app

WriteApp(k, a) ==
  /\ app' = [app EXCEPT ![k] = a]
  /\ news' = IF a = app[k] THEN news ELSE news \cup {k}
  /\ UNCHANGED obj

Goto(p) == pc' = p

\* Reconcile returns; q says whether the name is on the queue afterwards.
Return(q) ==
  /\ pc' = "idle" /\ rec' = Nil /\ seen' = Nil /\ id' = Nil
  /\ queued' = q

-----------------------------------------------------------------------------
(* Reconcile, call by call *)

\* The object is gone, or it is being deleted: the garbage collector sees to its apps.
ReconcileNothing ==
  /\ pc = "idle" /\ queued
  /\ cache # Nil => cache.deleting
  /\ queued' = FALSE
  /\ UNCHANGED <<clusterVars, tunnel, workerVars, spent>>

Reconcile ==
  /\ pc = "idle" /\ queued
  /\ cache # Nil /\ ~cache.deleting
  /\ queued' = FALSE
  /\ rec' = cache
  /\ Goto(IF cache.status.cond = "none" THEN "unknown" ELSE Dispatch(cache))
  /\ seen' = SeenBy(cache)
  /\ UNCHANGED <<clusterVars, tunnel, id, spent>>

\* The first status patch: Available is Unknown.
StartReconciliation ==
  /\ pc = "unknown" /\ obj # Nil
  /\ Write(Patched([rec.status EXCEPT !.cond = "Unknown"]))
  /\ rec' = Refreshed(obj')
  /\ Goto(Dispatch(rec'))
  /\ seen' = SeenBy(rec')
  /\ UNCHANGED <<cache, appCache, uids, queued, tunnel, id, spent>>

\* The status of an object that is gone cannot be patched.
PatchGone ==
  /\ pc \in {"unknown", "recordKind", "clearKind"} /\ obj = Nil
  /\ Return(TRUE)
  /\ UNCHANGED <<clusterVars, tunnel, spent>>

LookupTunnel ==
  /\ pc \in {"lookupCreate", "lookupUpdate"} /\ ~LookupFails(rec.spec.config)
  /\ id' = Looked(rec.spec.config)
  /\ Goto(IF pc = "lookupCreate" THEN "create" ELSE "patchApp")
  /\ UNCHANGED <<clusterVars, queued, tunnel, rec, seen, spent>>

\* No accountId beside the tunnelId, or no CloudflareTunnel of that name.
LookupTunnelFails ==
  /\ pc \in {"lookupCreate", "lookupUpdate"} /\ LookupFails(rec.spec.config)
  /\ Return(TRUE)
  /\ UNCHANGED <<clusterVars, tunnel, spent>>

(***************************************************************************)
(* An app of the wanted kind that the cache has is adopted if the object   *)
(* controls it and refused if not.  The cache is read where its answer is  *)
(* used: an earlier read is one before the informer catches up.            *)
(***************************************************************************)
AdoptApp ==
  /\ pc = "create"
  /\ LET a == appCache[rec.spec.kind]
     IN  a # Nil /\ a.owner = rec.uid
  /\ Goto("recordKind")
  /\ UNCHANGED <<clusterVars, queued, tunnel, rec, seen, id, spent>>

RefuseApp ==
  /\ pc = "create"
  /\ LET a == appCache[rec.spec.kind]
     IN  a # Nil /\ a.owner # rec.uid
  /\ Return(TRUE)
  /\ UNCHANGED <<clusterVars, tunnel, spent>>

CreateApp ==
  /\ pc = "create" /\ appCache[rec.spec.kind] = Nil /\ app[rec.spec.kind] = Nil
  /\ WriteApp(rec.spec.kind, NewApp(rec.spec, rec.uid))
  /\ Goto("recordKind")
  /\ UNCHANGED <<cache, appCache, uids, queued, tunnel, rec, seen, id, spent>>

\* The cache had not seen it yet: an error, retried.
CreateAppExists ==
  /\ pc = "create" /\ appCache[rec.spec.kind] = Nil /\ app[rec.spec.kind] # Nil
  /\ Return(TRUE)
  /\ UNCHANGED <<clusterVars, tunnel, spent>>

\* No requeue: the patch and the new app are events of their own.
RecordKind ==
  /\ pc = "recordKind" /\ obj # Nil
  /\ Write(Patched([cond |-> "True", kind |-> rec.spec.kind, id |-> id]))
  /\ Return(queued)
  /\ UNCHANGED <<cache, appCache, uids, tunnel, spent>>

\* Variant: the recorded kind stays although its app is gone.
KeepKind ==
  /\ pc = "clearKind" /\ obj # Nil
  /\ Write(Patched([rec.status EXCEPT !.cond = "False"]))
  /\ Return(TRUE)
  /\ UNCHANGED <<cache, appCache, uids, tunnel, spent>>

ClearKind ==
  /\ pc = "clearKind" /\ obj # Nil
  /\ Write(Patched([rec.status EXCEPT !.cond = "False", !.kind = Nil]))
  /\ Return(TRUE)
  /\ UNCHANGED <<cache, appCache, uids, tunnel, spent>>

\* By name and kind; an app that is gone counts as deleted.
DeleteApp ==
  /\ pc = "deleteApp"
  /\ WriteApp(rec.status.kind, Nil)
  /\ Return(TRUE)
  /\ UNCHANGED <<cache, appCache, uids, tunnel, spent>>

(***************************************************************************)
(* The API server defaults fields of a template, so the patch always holds *)
(* the containers.  It holds the labels only where they differ from the    *)
(* copy, and the server refuses labels the immutable selector rejects.     *)
(***************************************************************************)
PatchRejected ==
  LET a == app[rec.spec.kind]
  IN  a # Nil => rec.spec.version # seen.selector /\ rec.spec.version # a.selector

\* It holds the replicas too only where they differ from the copy: otherwise the
\* number at the API server stays, whatever it is.
UpdatedApp(a) ==
  [a EXCEPT !.pod = PodTemplateSpec(rec.spec),
            !.replicas = IF rec.spec.replicas = seen.replicas THEN @ ELSE Replicas(rec.spec)]

UpdateApp ==
  /\ pc = "patchApp" /\ ~PatchRejected
  /\ LET k == rec.spec.kind
     IN  WriteApp(k, UpdatedApp(app[k]))
  /\ Return(queued)
  /\ UNCHANGED <<cache, appCache, uids, tunnel, spent>>

UpdateAppRejected ==
  /\ pc = "patchApp" /\ PatchRejected
  /\ Return(TRUE)
  /\ UNCHANGED <<clusterVars, tunnel, spent>>

ReconcileStep ==
  \/ StartReconciliation \/ PatchGone \/ LookupTunnel \/ LookupTunnelFails
  \/ AdoptApp \/ RefuseApp \/ CreateApp \/ CreateAppExists \/ RecordKind
  \/ ClearKind \/ DeleteApp \/ UpdateApp \/ UpdateAppRejected

-----------------------------------------------------------------------------
(* Failures and the environment *)

Spend(k) ==
  /\ spent' = [spent EXCEPT ![k] = @ + 1]
  /\ spent' \in Budget

\* Any call may fail, the one for the tunnel's token among them.
CallFails ==
  /\ pc \in Calls /\ Spend("fault")
  /\ Return(TRUE)
  /\ UNCHANGED <<clusterVars, tunnel>>

\* The process restarts: the caches are listed anew and every object is enqueued.
Restart ==
  /\ Spend("fault")
  /\ cache' = obj /\ appCache' = app /\ news' = {}
  /\ Return(obj # Nil)
  /\ UNCHANGED <<obj, app, uids, tunnel>>

Sync ==
  /\ "obj" \in news
  /\ cache' = obj
  /\ news' = news \ {"obj"}
  /\ queued' = TRUE
  /\ UNCHANGED <<obj, app, appCache, uids, tunnel, workerVars, spent>>

\* An app enqueues the Cloudflared that its owner reference names.
SyncApp(k) ==
  /\ k \in news
  /\ appCache' = [appCache EXCEPT ![k] = app[k]]
  /\ news' = news \ {k}
  /\ queued' = (queued \/ \E a \in {app[k], appCache[k]} : a # Nil /\ a.owner # Foreign)
  /\ UNCHANGED <<obj, cache, app, uids, tunnel, workerVars, spent>>

\* A new object, or a forced replacement: the old object goes and a new one comes.
UserCreates(s) ==
  /\ uids < MaxUid /\ Spend("create")
  /\ Write([uid |-> uids + 1, deleting |-> FALSE, spec |-> s, status |-> NoStatus])
  /\ uids' = uids + 1
  /\ UNCHANGED <<cache, appCache, queued, tunnel, workerVars>>

UserEdits(s) ==
  /\ obj # Nil /\ obj.spec # s /\ Spend("edit")
  /\ Write([obj EXCEPT !.spec = s])
  /\ UNCHANGED <<cache, appCache, uids, queued, tunnel, workerVars>>

\* Background deletion removes the object at once, foreground deletion after its apps.
UserDeletes ==
  /\ obj # Nil /\ ~obj.deleting /\ Spend("edit")
  /\ Write(Nil) \/ Write([obj EXCEPT !.deleting = TRUE])
  /\ UNCHANGED <<cache, appCache, uids, queued, tunnel, workerVars>>

\* The owner of app k is gone or being deleted in the foreground.
Orphaned(k) == /\ app[k] # Nil /\ app[k].owner # Foreign
               /\ obj # Nil => app[k].owner # obj.uid \/ obj.deleting

CollectApp(k) ==
  /\ Orphaned(k)
  /\ WriteApp(k, Nil)
  /\ UNCHANGED <<cache, appCache, uids, queued, tunnel, workerVars, spent>>

CollectObject ==
  /\ obj # Nil /\ obj.deleting /\ \A k \in Kind : ~Orphaned(k)
  /\ Write(Nil)
  /\ UNCHANGED <<cache, appCache, uids, queued, tunnel, workerVars, spent>>

\* Somebody deletes an app, or makes one of that name.
AppMeddled(k) ==
  /\ Spend("outside")
  /\ \/ app[k] # Nil /\ WriteApp(k, Nil)
     \/ /\ app[k] = Nil
        /\ \E v \in Version : WriteApp(k, [owner |-> Foreign, selector |-> v, pod |-> [version |-> v, id |-> Nil],
                                           replicas |-> IF k = "DaemonSet" THEN Nil ELSE One])
  /\ UNCHANGED <<cache, appCache, uids, queued, tunnel, workerVars>>

\* The cache of tunnels gets a new version, which enqueues the Cloudflareds that name it.
TunnelChanges(t) ==
  /\ t # tunnel /\ Spend("tunnel")
  /\ tunnel' = t
  /\ queued' = (queued \/ CloudflaredsForTunnel)
  /\ UNCHANGED <<clusterVars, workerVars>>

Environment ==
  \/ UserDeletes \/ \E s \in SpecsOf : UserCreates(s) \/ UserEdits(s)
  \/ \E k \in Kind : AppMeddled(k)
  \/ \E t \in TunnelId \cup {Nil, "pending"} : TunnelChanges(t)

Collect == CollectObject \/ \E k \in Kind : CollectApp(k)

Next ==
  \/ ReconcileNothing \/ Reconcile \/ ReconcileStep
  \/ Sync \/ \E k \in Kind : SyncApp(k)
  \/ Collect \/ CallFails \/ Restart \/ Environment

Spec == Init /\ [][Next]_vars

(***************************************************************************)
(* The worker, the informers and the garbage collector never stall; users, *)
(* tunnels and failures owe nothing.                                       *)
(***************************************************************************)
Fairness ==
  /\ WF_vars(ReconcileNothing) /\ WF_vars(Reconcile) /\ WF_vars(ReconcileStep)
  /\ WF_vars(Sync) /\ \A k \in Kind : WF_vars(SyncApp(k))
  /\ WF_vars(Collect)

FairSpec == Spec /\ Fairness

-----------------------------------------------------------------------------
(* Properties *)

Quiet == pc = "idle" /\ ~queued /\ news = {}

\* The app that runs the object as its spec and the tunnel say, with as many
\* replicas unless it is somebody else's.
Runs(o) ==
  LET a == app[o.spec.kind]  c == o.spec.config
  IN  /\ a # Nil
      /\ a.pod = [version |-> o.spec.version, id |-> Looked(c)]
      /\ a.owner # Foreign => a.replicas = Replicas(o.spec)

(***************************************************************************)
(* A Cloudflared whose creation succeeded is reconciled again by events    *)
(* only (Reconcile returns no RequeueAfter there).  Once none are left the *)
(* recorded kind is the one of the spec and its app runs the tunnel and    *)
(* the version of the spec, although the object, either app and the tunnel *)
(* are read from caches that lag, status patches overwrite newer ones, and *)
(* the app may belong to an earlier object of the name.                    *)
(* Where somebody puts an app of his own in the place of it, Reconcile     *)
(* updates that one, whose events do not enqueue the Cloudflared.  So its  *)
(* replicas are excepted: if spec.replicas is changed and changed back     *)
(* before the informer delivers the first update, the second one leaves    *)
(* them out of its patch, and the other number stays.  And if that app is  *)
(* deleted nobody notices, which takes three interventions.                *)
(***************************************************************************)
QuietMeansRunning ==
  Quiet /\ obj # Nil /\ ~obj.deleting /\ (\A k \in Kind : ~Orphaned(k))
    => obj.status.kind = obj.spec.kind /\ Runs(obj)

\* The object and the caches agree that its app is of kind k, and the spec does not.
Outmoded(k) ==
  /\ obj # Nil /\ ~obj.deleting /\ obj.status.kind = k /\ obj.spec.kind # k
  /\ cache # Nil /\ cache.status.kind = k /\ cache.uid = obj.uid
  /\ app[k] # Nil /\ appCache[k] = app[k] /\ app[k].owner = obj.uid
  /\ pc = "idle"

(***************************************************************************)
(* A change of spec.kind (Reconcile, the comparison with status.kind): if  *)
(* the status and the caches record the app, it is deleted, unless the     *)
(* user changes the kind back or deletes the object first.  A kind whose   *)
(* record has not reached the cache is not covered: then the code creates  *)
(* the other app and keeps both.                                           *)
(***************************************************************************)
KindChangeDeletesApp ==
  \A k \in Kind : Outmoded(k) ~> (app[k] = Nil \/ obj = Nil \/ obj.deleting \/ obj.spec.kind = k)

(***************************************************************************)
(* The controller comes to rest when its environment does, although each   *)
(* status patch and each new app enqueues it again.  The code retries for  *)
(* ever only where the tunnel cannot be looked up, somebody else's app is  *)
(* in the way, or the labels of a new version are refused.                 *)
(***************************************************************************)
ComesToRest ==
  \/ <>[]Quiet
  \/ []<>(pc \in {"lookupCreate", "lookupUpdate"} /\ LookupFails(rec.spec.config))
  \/ []<>(pc = "create" /\ appCache[rec.spec.kind] # Nil /\ appCache[rec.spec.kind].owner # rec.uid)
  \/ []<>(pc = "patchApp" /\ PatchRejected)
=============================================================================
