------------------------- MODULE DnsRecordController -------------------------
(***************************************************************************)
(* The DnsRecord controller: one worker that brings the records of the     *)
(* Cloudflare zones in line with the DnsRecord objects of the cluster      *)
(* (src/internal/controller/dnsrecord_controller.go).                      *)
(*                                                                         *)
(* Every call that Reconcile makes is a step of its own.  Between two      *)
(* steps a user may edit or delete objects, the informer cache may catch   *)
(* up, a tunnel may get or lose its id, a record may be removed at         *)
(* Cloudflare, the call may fail, or the process may restart.              *)
(*                                                                         *)
(* An object holds what the code tells apart: deletionTimestamp, the       *)
(* finalizer, the spec and the status.  key stands for name and type,      *)
(* content for content and comment (the fields that diff compares) and     *)
(* opts for proxied, ttl, tags and settings (which diff does not compare). *)
(***************************************************************************)
EXTENDS Naturals, FiniteSets

CONSTANTS
  CR,         \* names of DnsRecord objects
  Id,         \* ids Cloudflare may issue; each is issued once
  Zone, Key, Opts,
  Content,    \* record contents, the hostnames of tunnels among them
  Target,     \* the hostnames of tunnels, <id>.cfargotunnel.com
  TunnelRef,  \* the content of a spec that names a tunnel instead
  SpecsOf,    \* SpecsOf[c]: the specs a user may give to object c
  Before,     \* what the zones may hold before the operator's first run
  Budget,     \* bounds of what the environment does, by kind
  Nil

Kinds == {"user", "fault", "outside", "tunnel"}

RecordSpec == [zone : Zone, key : Key, content : Content \cup {TunnelRef}, opts : Opts]

\* A record at Cloudflare.
Remote == [zone : Zone, key : Key, content : Content, opts : Opts]

ASSUME ConstantsAssumption ==
  /\ Nil \notin CR \cup Id \cup Zone \cup Key \cup Opts \cup Content
  /\ TunnelRef \notin Content \cup {Nil}
  /\ Target \subseteq Content
  /\ SpecsOf \in [CR -> SUBSET RecordSpec]
  /\ Before \subseteq [Id -> Remote \cup {Nil}]
  /\ Budget \in [Kinds -> Nat]

VARIABLES
  obj,     \* the DnsRecord objects at the API server
  cache,   \* the informer's copy of them, which may lag
  news,    \* objects with a version the informer has not delivered yet
  queue,   \* objects waiting to be reconciled
  remote,  \* the records at Cloudflare, by id
  issued,  \* the ids Cloudflare has given out
  tunnel,  \* the hostname of the referenced tunnel, Nil while it has no id
  pc,      \* the call that Reconcile is about to make
  cur,     \* the object under reconciliation
  rec,     \* Reconcile's own copy of it
  want,    \* the record as resolve returned it
  res,     \* the last record that Cloudflare answered with
  spent    \* how much of each budget is used up

clusterVars == <<obj, cache, news, queue>>
remoteVars  == <<remote, issued>>
workerVars  == <<pc, cur, rec, want, res>>
vars == <<obj, cache, news, queue, remote, issued, tunnel, pc, cur, rec, want, res, spent>>

-----------------------------------------------------------------------------
(* Types *)

Status == [id : Id \cup {Nil}, key : Key \cup {Nil}, content : Content \cup {Nil}]

NoStatus == [id |-> Nil, key |-> Nil, content |-> Nil]

Object == [deleting : BOOLEAN, fin : BOOLEAN, spec : RecordSpec, status : Status]

\* Nil stands for an object, or a record, that does not exist.
ASSUME NilAssumption == Nil \notin Object \cup Remote

\* What a create or an update sends: the spec with the tunnel's hostname filled in.
Wanted == [key : Key, content : Content, opts : Opts]

Calls == {"delete", "release", "addFinalizer", "list", "create", "recordId",
          "refresh", "forget", "observe", "update", "observeUpdate"}

TypeOK ==
  /\ obj \in [CR -> Object \cup {Nil}]
  /\ cache \in [CR -> Object \cup {Nil}]
  /\ news \subseteq CR
  /\ queue \subseteq CR
  /\ remote \in [Id -> Remote \cup {Nil}]
  /\ issued \subseteq Id
  /\ tunnel \in Target \cup {Nil}
  /\ pc \in Calls \cup {"idle", "adopter", "resolve"}
  /\ cur \in CR \cup {Nil}
  /\ rec \in Object \cup {Nil}
  /\ want \in Wanted \cup {Nil}
  /\ res \in Status \cup {Nil}
  /\ spent \in [Kinds -> Nat]

Init ==
  /\ obj = [c \in CR |-> Nil]
  /\ cache = [c \in CR |-> Nil]
  /\ news = {}
  /\ queue = {}
  /\ remote \in Before
  /\ issued = {i \in Id : remote[i] # Nil}
  /\ tunnel = Nil
  /\ pc = "idle" /\ cur = Nil /\ rec = Nil /\ want = Nil /\ res = Nil
  /\ spent = [k \in Kinds |-> 0]

-----------------------------------------------------------------------------
(* The parts Reconcile is made of *)

\* A Cloudflare record is addressed by its id and its zone.
Found(i, z) == remote[i] # Nil /\ remote[i].zone = z

\* Variant: the answer's content is recorded in another form than it was written.
AnswerRewritten(i) == [id |-> i, key |-> remote[i].key, content |-> CHOOSE c \in Content : c # remote[i].content]

\* The status fields that Cloudflare's answer about record i fills in.
Answer(i) == [id |-> i, key |-> remote[i].key, content |-> remote[i].content]

\* Variant: the create branch is tried before the deletion branch.
DispatchCreateFirst(o) ==
  CASE ~o.fin                             -> "addFinalizer"
    [] o.fin /\ o.status.id = Nil         -> "resolve"
    [] o.fin /\ o.status.id # Nil /\ o.deleting  -> "adopter"
    [] o.fin /\ o.status.id # Nil /\ ~o.deleting -> "resolve"

\* Variant: the finalizer is not added first.
DispatchUnguarded(o) ==
  CASE o.deleting /\ o.status.id = Nil  -> "release"
    [] o.deleting /\ o.status.id # Nil  -> "adopter"
    [] ~o.deleting                      -> "resolve"

\* The first thing Reconcile does with the copy it read.
Dispatch(o) ==
  CASE o.deleting /\ o.status.id = Nil  -> "release"
    [] o.deleting /\ o.status.id # Nil  -> "adopter"
    [] ~o.deleting /\ ~o.fin            -> "addFinalizer"
    [] ~o.deleting /\ o.fin             -> "resolve"

\* Variant: nobody is asked before the record is deleted.
NoAdopters(c, o) == {}

\* Other objects, not being deleted, that track the same record in the same zone.
Adopters(c, o) ==
  {d \in CR \ {c} : /\ cache[d] # Nil
                    /\ ~cache[d].deleting
                    /\ cache[d].spec.zone = o.spec.zone
                    /\ cache[d].status.id = o.status.id}

\* The content to write, Nil while the referenced tunnel has no id.
Resolved(s) == IF s.content = TunnelRef THEN tunnel ELSE s.content

\* Variant: tunnels are not watched.
NoRecordsForTunnel == {}

\* The objects whose tunnelRef names the tunnel, as the cache has them.
RecordsForTunnel == {c \in CR : cache[c] # Nil /\ cache[c].spec.content = TunnelRef}

\* Variants: no list before the create; a list of the zone without a name.
ListedNothing(o) == {}
ListedByZone(o) == {i \in Id : Found(i, o.spec.zone)}

\* The records of a zone with the name and type of the object.
Listed(o) == {i \in Id : Found(i, o.spec.zone) /\ remote[i].key = o.spec.key}

\* diff compares content, comment, name and type, and nothing else.
Diff(w, s) == w.content # s.content \/ w.key # s.key

(***************************************************************************)
(* patchSubResource sends a merge patch computed from Reconcile's copy, so *)
(* a field is written only where the new value differs from that copy.     *)
(* The answer is decoded over the copy: what the server leaves out stays.  *)
(***************************************************************************)
Merged(now, base, new) ==
  LET Field(n, b, w) == IF w # b THEN w ELSE n
  IN  [id      |-> Field(now.id, base.id, new.id),
       key     |-> Field(now.key, base.key, new.key),
       content |-> Field(now.content, base.content, new.content)]

Decoded(now, base) ==
  LET Field(n, b) == IF n = Nil THEN b ELSE n
  IN  [id      |-> Field(now.id, base.id),
       key     |-> Field(now.key, base.key),
       content |-> Field(now.content, base.content)]

\* Reconcile's copy after an answer of the API server that holds object o.  A
\* tunnelRef in the copy stays, too, and has precedence over a content.
Refreshed(o) == [o EXCEPT !.status = Decoded(o.status, rec.status),
                          !.spec.content = IF rec.spec.content = TunnelRef THEN TunnelRef ELSE @]

\* The object's status at the API server after the patch.
Patched(new) == [obj[cur] EXCEPT !.status = Merged(obj[cur].status, rec.status, new)]

\* The API server stores o as object c; a new version is news to the informer.
Write(c, o) ==
  /\ obj' = [obj EXCEPT ![c] = o]
  /\ news' = IF o = obj[c] THEN news ELSE news \cup {c}

Goto(p) == pc' = p /\ UNCHANGED cur

\* Reconcile returns; the queue afterwards is q.
Return(q) ==
  /\ pc' = "idle" /\ cur' = Nil /\ rec' = Nil /\ want' = Nil /\ res' = Nil
  /\ queue' = q

\* Returning an error or a RequeueAfter puts the object back on the queue.
Requeued == queue \cup {cur}

-----------------------------------------------------------------------------
(* Reconcile, call by call *)

\* The object is gone from the cache: nothing to do.
ReconcileGone(c) ==
  /\ pc = "idle" /\ c \in queue /\ cache[c] = Nil
  /\ queue' = queue \ {c}
  /\ UNCHANGED <<obj, cache, news, remoteVars, tunnel, workerVars, spent>>

Reconcile(c) ==
  /\ pc = "idle" /\ c \in queue /\ cache[c] # Nil
  /\ queue' = queue \ {c}
  /\ cur' = c
  /\ rec' = cache[c]
  /\ pc' = Dispatch(cache[c])
  /\ UNCHANGED <<obj, cache, news, remoteVars, tunnel, want, res, spent>>

\* Does another object track the record?  Answered from the cache.
LookForAdopter ==
  /\ pc = "adopter"
  /\ Goto(IF Adopters(cur, rec) = {} THEN "delete" ELSE "release")
  /\ UNCHANGED <<clusterVars, remoteVars, tunnel, rec, want, res, spent>>

\* Variant: any error of the delete is ignored, not only a 404.
DeleteIgnoringErrors ==
  /\ pc = "delete"
  /\ \/ remote' = [remote EXCEPT ![rec.status.id] = IF Found(rec.status.id, rec.spec.zone) THEN Nil ELSE @]
     \/ UNCHANGED remote
  /\ Goto("release")
  /\ UNCHANGED <<clusterVars, issued, tunnel, rec, want, res, spent>>

\* A record that is not there any more counts as deleted.
DeleteDnsRecord ==
  /\ pc = "delete"
  /\ remote' = [remote EXCEPT ![rec.status.id] = IF Found(rec.status.id, rec.spec.zone) THEN Nil ELSE @]
  /\ Goto("release")
  /\ UNCHANGED <<clusterVars, issued, tunnel, rec, want, res, spent>>

\* Without its finalizer an object under deletion is gone.
ReleaseDnsRecord ==
  /\ pc = "release"
  /\ LET o == obj[cur]
     IN  Write(cur, CASE o = Nil \/ ~rec.fin                -> o
                      [] o # Nil /\ rec.fin /\ o.deleting  -> Nil
                      [] o # Nil /\ rec.fin /\ ~o.deleting -> [o EXCEPT !.fin = FALSE])
  /\ Return(queue)
  /\ UNCHANGED <<cache, remoteVars, tunnel, spent>>

AddFinalizer ==
  /\ pc = "addFinalizer" /\ obj[cur] # Nil
  /\ Write(cur, [obj[cur] EXCEPT !.fin = TRUE])
  /\ rec' = Refreshed(obj'[cur])
  /\ Goto("resolve")
  /\ UNCHANGED <<cache, queue, remoteVars, tunnel, want, res, spent>>

\* The object vanished since it was read: the patch answers 404, which is ignored.
AddFinalizerGone ==
  /\ pc = "addFinalizer" /\ obj[cur] = Nil
  /\ Return(queue)
  /\ UNCHANGED <<obj, cache, news, remoteVars, tunnel, spent>>

\* No requeue while the tunnel has no id: its status update enqueues the object.
ResolveWaits ==
  /\ pc = "resolve" /\ Resolved(rec.spec) = Nil
  /\ Return(queue)
  /\ UNCHANGED <<obj, cache, news, remoteVars, tunnel, spent>>

\* Variant: the record is written although the tunnel has no id.
ResolveUnready ==
  /\ pc = "resolve"
  /\ want' = [key |-> rec.spec.key, content |-> Resolved(rec.spec), opts |-> rec.spec.opts]
  /\ Goto(IF rec.status.id = Nil THEN "list" ELSE "refresh")
  /\ UNCHANGED <<clusterVars, remoteVars, tunnel, rec, res, spent>>

Resolve ==
  /\ pc = "resolve" /\ Resolved(rec.spec) # Nil
  /\ want' = [key |-> rec.spec.key, content |-> Resolved(rec.spec), opts |-> rec.spec.opts]
  /\ Goto(IF rec.status.id = Nil THEN "list" ELSE "refresh")
  /\ UNCHANGED <<clusterVars, remoteVars, tunnel, rec, res, spent>>

\* Cloudflare does not deduplicate creates, so Reconcile looks before it creates.
ListDnsRecords ==
  /\ pc = "list" /\ Listed(rec) = {}
  /\ Goto("create")
  /\ UNCHANGED <<clusterVars, remoteVars, tunnel, rec, want, res, spent>>

AdoptDnsRecord ==
  /\ pc = "list"
  /\ \E i \in Id : Listed(rec) = {i} /\ res' = Answer(i)
  /\ Goto("recordId")
  /\ UNCHANGED <<clusterVars, remoteVars, tunnel, rec, want, spent>>

\* Several records of that name and type: an error, retried.
ListAmbiguous ==
  /\ pc = "list"
  /\ \E i, j \in Listed(rec) : i # j
  /\ Return(Requeued)
  /\ UNCHANGED <<obj, cache, news, remoteVars, tunnel, spent>>

\* Cloudflare answers a create with an id it has not used before.
FreshId == CHOOSE i \in Id : i \notin issued

CreateDnsRecord ==
  /\ pc = "create" /\ issued # Id
  /\ issued' = issued \cup {FreshId}
  /\ remote' = [remote EXCEPT ![FreshId] = [zone |-> rec.spec.zone, key |-> want.key,
                                            content |-> want.content, opts |-> want.opts]]
  /\ res' = [id |-> FreshId, key |-> want.key, content |-> want.content]
  /\ Goto("recordId")
  /\ UNCHANGED <<clusterVars, tunnel, rec, want, spent>>

RecordId ==
  /\ pc = "recordId" /\ obj[cur] # Nil
  /\ Write(cur, Patched(res))
  /\ Return(Requeued)
  /\ UNCHANGED <<cache, remoteVars, tunnel, spent>>

GetDnsRecord ==
  /\ pc = "refresh" /\ Found(rec.status.id, rec.spec.zone)
  /\ res' = Answer(rec.status.id)
  /\ Goto("observe")
  /\ UNCHANGED <<clusterVars, remoteVars, tunnel, rec, want, spent>>

GetDnsRecordGone ==
  /\ pc = "refresh" /\ ~Found(rec.status.id, rec.spec.zone)
  /\ Goto("forget")
  /\ UNCHANGED <<clusterVars, remoteVars, tunnel, rec, want, res, spent>>

\* Only the id is forgotten, and the 404 is returned as the error.
ForgetId ==
  /\ pc = "forget" /\ obj[cur] # Nil
  /\ Write(cur, Patched([rec.status EXCEPT !.id = Nil]))
  /\ Return(Requeued)
  /\ UNCHANGED <<cache, remoteVars, tunnel, spent>>

\* The refreshed status is written; diff decides whether an update follows.
Observe ==
  /\ pc = "observe" /\ obj[cur] # Nil
  /\ Write(cur, Patched(res))
  /\ LET r == Refreshed(obj'[cur])
     IN  \/ /\ Diff(want, r.status)
            /\ rec' = r
            /\ Goto("update")
            /\ UNCHANGED <<queue, want, res>>
         \/ /\ ~Diff(want, r.status)
            /\ Return(queue)
  /\ UNCHANGED <<cache, remoteVars, tunnel, spent>>

UpdateDnsRecord ==
  /\ pc = "update" /\ Found(rec.status.id, rec.spec.zone)
  /\ remote' = [remote EXCEPT ![rec.status.id] =
                  [zone |-> rec.spec.zone, key |-> want.key,
                   content |-> want.content, opts |-> want.opts]]
  /\ res' = [id |-> rec.status.id, key |-> want.key, content |-> want.content]
  /\ Goto("observeUpdate")
  /\ UNCHANGED <<clusterVars, issued, tunnel, rec, want, spent>>

UpdateDnsRecordGone ==
  /\ pc = "update" /\ ~Found(rec.status.id, rec.spec.zone)
  /\ Return(Requeued)
  /\ UNCHANGED <<obj, cache, news, remoteVars, tunnel, spent>>

ObserveUpdate ==
  /\ pc = "observeUpdate" /\ obj[cur] # Nil
  /\ Write(cur, Patched(res))
  /\ Return(queue)
  /\ UNCHANGED <<cache, remoteVars, tunnel, spent>>

ReconcileStep ==
  \/ LookForAdopter \/ DeleteDnsRecord \/ ReleaseDnsRecord
  \/ AddFinalizer \/ AddFinalizerGone \/ ResolveWaits \/ Resolve
  \/ ListDnsRecords \/ AdoptDnsRecord \/ ListAmbiguous \/ CreateDnsRecord \/ RecordId
  \/ GetDnsRecord \/ GetDnsRecordGone \/ ForgetId \/ Observe
  \/ UpdateDnsRecord \/ UpdateDnsRecordGone \/ ObserveUpdate

-----------------------------------------------------------------------------
(* Failures *)

Spend(k) ==
  /\ spent[k] < Budget[k]
  /\ spent' = [spent EXCEPT ![k] = @ + 1]

(***************************************************************************)
(* A call to the API server or to Cloudflare fails, so Reconcile returns   *)
(* the error.  A call that took effect although its answer was lost is the *)
(* call followed by the failure of the next one.                           *)
(***************************************************************************)
CallFails ==
  /\ pc \in Calls
  /\ Spend("fault")
  /\ Return(Requeued)
  /\ UNCHANGED <<obj, cache, news, remoteVars, tunnel>>

\* The process restarts: the caches are listed anew and every object is enqueued.
Restart ==
  /\ Spend("fault")
  /\ cache' = obj /\ news' = {}
  /\ Return({c \in CR : obj[c] # Nil})
  /\ UNCHANGED <<obj, remoteVars, tunnel>>

-----------------------------------------------------------------------------
(* The environment *)

\* The informer delivers the newest version of an object and enqueues it.
Sync(c) ==
  /\ c \in news
  /\ cache' = [cache EXCEPT ![c] = obj[c]]
  /\ news' = news \ {c}
  /\ queue' = queue \cup {c}
  /\ UNCHANGED <<obj, remoteVars, tunnel, workerVars, spent>>

UserCreates(c, s) ==
  /\ obj[c] = Nil /\ Spend("user")
  /\ Write(c, [deleting |-> FALSE, fin |-> FALSE, spec |-> s, status |-> NoStatus])
  /\ UNCHANGED <<cache, queue, remoteVars, tunnel, workerVars>>

UserEdits(c, s) ==
  /\ obj[c] # Nil /\ obj[c].spec # s /\ Spend("user")
  /\ Write(c, [obj[c] EXCEPT !.spec = s])
  /\ UNCHANGED <<cache, queue, remoteVars, tunnel, workerVars>>

\* An object without a finalizer goes at once.
UserDeletes(c) ==
  /\ obj[c] # Nil /\ ~obj[c].deleting /\ Spend("user")
  /\ Write(c, IF obj[c].fin THEN [obj[c] EXCEPT !.deleting = TRUE] ELSE Nil)
  /\ UNCHANGED <<cache, queue, remoteVars, tunnel, workerVars>>

\* Any update of the tunnel enqueues, whether or not it changes the tunnel's id.
TunnelChanges(t) ==
  /\ Spend("tunnel")
  /\ tunnel' = t
  /\ queue' = queue \cup RecordsForTunnel
  /\ UNCHANGED <<obj, cache, news, remoteVars, workerVars>>

\* Somebody removes a record in the Cloudflare dashboard.
RemovedUpstream(i) ==
  /\ remote[i] # Nil /\ Spend("outside")
  /\ remote' = [remote EXCEPT ![i] = Nil]
  /\ UNCHANGED <<clusterVars, issued, tunnel, workerVars>>

-----------------------------------------------------------------------------
Environment ==
  \/ \E c \in CR : UserDeletes(c) \/ \E s \in SpecsOf[c] : UserCreates(c, s) \/ UserEdits(c, s)
  \/ \E t \in Target \cup {Nil} : TunnelChanges(t)
  \/ \E i \in Id : RemovedUpstream(i)

Next ==
  \/ \E c \in CR : ReconcileGone(c) \/ Reconcile(c) \/ Sync(c)
  \/ ReconcileStep
  \/ CallFails \/ Restart
  \/ Environment

Spec == Init /\ [][Next]_vars

(***************************************************************************)
(* Informers deliver, the worker never stalls within a reconcile, and the  *)
(* work queue is first-in first-out, so an object that keeps being         *)
(* enqueued is reconciled.  Users, tunnels and failures owe nothing.       *)
(***************************************************************************)
Fairness ==
  /\ WF_vars(ReconcileStep)
  /\ \A c \in CR : WF_vars(Sync(c)) /\ SF_vars(Reconcile(c))
  /\ \A c \in CR : WF_vars(ReconcileGone(c))

FairSpec == Spec /\ Fairness

-----------------------------------------------------------------------------
(* Properties *)

SameRecord(s, t) == s.zone = t.zone /\ s.key = t.key

(***************************************************************************)
(* Listing before creating (Reconcile, the branch without an id) is enough *)
(* to never hold two records of one name and type in a zone, although the  *)
(* copy Reconcile works from may be arbitrarily old, the id of an earlier  *)
(* create may never have reached the status, and several objects may ask   *)
(* for the same record.                                                    *)
(***************************************************************************)
NoDuplicateRecords ==
  \A i, j \in Id : i # j /\ remote[i] # Nil /\ remote[j] # Nil => ~SameRecord(remote[i], remote[j])

\* Record i, if it still exists, has the zone, name and type of spec s.
OwnRecord(i, s) == i \in issued /\ (remote[i] # Nil => SameRecord(remote[i], s))

Owns(o) == o # Nil => (o.status.id # Nil => OwnRecord(o.status.id, o.spec))

(***************************************************************************)
(* Updates and deletes address a record by the id of a status that may be  *)
(* old or half written (the branch with an id, the deletion branch).  As   *)
(* long as names, types and zones of specs stay as they are, no copy of a  *)
(* status ever names a record with another name, type or zone, so neither  *)
(* can hit a record the object did not ask for.                            *)
(***************************************************************************)
TracksOwnRecord ==
  /\ \A c \in CR : Owns(obj[c]) /\ Owns(cache[c])
  /\ Owns(rec)

(***************************************************************************)
(* The finalizer is added before anything is created (Reconcile, after the *)
(* deletion branch).  So while Reconcile looks for, creates, updates or    *)
(* records a record the object is there and has the finalizer, although    *)
(* the copy it works from may be old and users delete objects at any time. *)
(* The status patches of Reconcile never meet an object that is gone.      *)
(***************************************************************************)
HeldWhileServed ==
  pc \in {"list", "create", "recordId", "refresh", "forget", "observe", "update", "observeUpdate"}
    => obj[cur] # Nil /\ obj[cur].fin

(***************************************************************************)
(* Dropping the finalizer (releaseDnsRecord): an object goes while the     *)
(* record in its status still exists only if another object asks for that  *)
(* record, or if Reconcile worked from an outdated copy of the status.     *)
(***************************************************************************)
CleanRelease ==
  [][\A c \in CR :
       (/\ pc = "release" /\ cur = c /\ obj[c] # Nil /\ obj'[c] = Nil
        /\ rec.status.id = obj[c].status.id /\ rec.spec.zone = obj[c].spec.zone
        /\ obj[c].status.id # Nil /\ Found(obj[c].status.id, obj[c].spec.zone))
       => \E d \in CR \ {c} : obj[d] # Nil /\ SameRecord(obj[d].spec, obj[c].spec)]_vars

\* Nothing is running, queued or on its way to the cache.
Quiet == pc = "idle" /\ queue = {} /\ news = {}

\* Whoever else may ask for the record of object c asks for the same content.
Undisputed(c) ==
  \A d \in CR \ {c} : \A s \in SpecsOf[d] :
    SameRecord(s, obj[c].spec) => s.content = obj[c].spec.content

\* The record of object c is at Cloudflare as diff compares it, and tracked.
Holds(c) ==
  LET o == obj[c]
  IN  /\ o.status.id # Nil
      /\ Found(o.status.id, o.spec.zone)
      /\ remote[o.status.id].key = o.spec.key
      /\ remote[o.status.id].content = Resolved(o.spec)

(***************************************************************************)
(* Whatever failed, restarted or was read late, once the controller has    *)
(* nothing left to do every object that is not being deleted, whose tunnel *)
(* has an id and whose record no other object wants to be different,       *)
(* tracks a record with the name, type and content of its spec, even if    *)
(* the record was deleted on behalf of another object that tracked it.     *)
(* Records removed in the dashboard are noticed only by the next reconcile.*)
(***************************************************************************)
QuietMeansConverged ==
  Quiet /\ spent["outside"] = 0 =>
    \A c \in CR : obj[c] # Nil /\ ~obj[c].deleting /\ Resolved(obj[c].spec) # Nil /\ Undisputed(c) => Holds(c)

\* An object under deletion goes, even when its tunnel never gets an id.
DeletionCompletes == \A c \in CR : (obj[c] # Nil /\ obj[c].deleting) ~> (obj[c] = Nil \/ ~obj[c].deleting)

(***************************************************************************)
(* The controller comes to rest whenever the environment does: a status    *)
(* patch enqueues its own object again, but not for ever.  Only an object  *)
(* whose name and type belong to several records is retried without end.   *)
(***************************************************************************)
ComesToRest ==
  \/ <>[](queue = {} /\ pc = "idle")
  \/ []<>(pc = "list" /\ Cardinality(Listed(rec)) > 1)

(***************************************************************************)
(* The README: a hostname can drop out of the proxy.  Then, once nothing   *)
(* is left to do, the record has the proxied flag (and the ttl, tags and   *)
(* settings) of the spec.                                                  *)
(***************************************************************************)
SettingsFollowSpec ==
  Quiet =>
    \A c \in CR : obj[c] # Nil /\ ~obj[c].deleting /\ Holds(c)
                  => remote[obj[c].status.id].opts = obj[c].spec.opts
=============================================================================
