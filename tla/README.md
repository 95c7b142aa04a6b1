# Verification of cloudflare-operator

TLA+ models of the controllers of this repository, TLC runs that check them on
small instances, and TLAPS proofs of what matters most for every instance.
Paths below are relative to the repository.

## 1. The system

The operator is one process with several controllers, each with one worker and
a work queue. A worker takes the name of an object from the queue, reads the
object from the informer cache, calls the Kubernetes API and the Cloudflare API,
patches the object's status and returns. Every new version of an object that
reaches the cache enqueues it again.

| Component | State | Operations | Talks to |
| --- | --- | --- | --- |
| DnsRecord controller (`internal/controller/dnsrecord_controller.go`) | `spec`, `status` (id, name, type, content, comment), finalizer; records at Cloudflare | list, create, adopt, get, update, delete, forget the id, release | Cloudflare DNS; watches CloudflareTunnels for `tunnelRef` |
| CloudflareTunnel controller (`cloudflaretunnel_controller.go`, `cloudflaretunnel_routes.go`) | `spec`, `status` (id, account, conditions, routesReady), finalizer; tunnels and routes at Cloudflare | create, adopt, rename, push the configuration, converge routes, hand the id to Cloudflareds, create one from a template, finalize | Cloudflare tunnels and routes; Cloudflareds; owned DnsRecords |
| Tunnel DNS (`cloudflaretunnel_dns.go`, `dns.go`) | the DnsRecords a tunnel owns | resolve settings per hostname, check the zone, create or update, delete | Cloudflare zones; DnsRecords |
| Cloudflared controller (`cloudflared_controller.go`) | `status.kind`, the Deployment or DaemonSet | create, adopt, update, replace after a change of kind | CloudflareTunnels, apps |
| TLS Secret access (`internal/secrets/access.go`, `gateway_secrets_controller.go`) | one cache per namespace under a mutex, RoleBindings | set the namespaces, start and stop caches, get, notify | Secrets, Gateways |
| GatewayClass, Gateway, route status and xDS controllers (`gateway*_controller.go`, `route_controller.go`, `gateway_watch.go`) | conditions, finalizer of the class, Envoy's Deployment and Service, the tunnel of a Gateway, parents of routes, xDS snapshots | accept, provision, merge statuses, replace a snapshot | each other through the objects; watch a dozen kinds |
| Gateway model and xDS translation (`internal/gateway`, `internal/xds`) | none: functions | validate listeners, attach routes, resolve references, write ingress rules, translate | called by the four controllers |
| Ingress controller (`ingress_controller.go`) | none | create a CloudflareTunnel once | CloudflareTunnels |
| Cloudflare client (`internal/client`) | none | calls, conversions, classes of errors | Cloudflare |
| Manager (`cmd/main.go`) | none | registration of the controllers | everything |

What is hard here, and what the correctness of a controller consists of:

* *Stale reads.* The cache lags behind the API server, so a worker may act on an
  id, a spec or a deletion mark that is out of date. Ids must still only ever
  address the object's own resource.
* *Several calls, one of which fails.* A create at Cloudflare may succeed while
  the status patch that records its id fails. Retrying must not create twice.
* *Merge patches without a lock* (`clientutil.go`). A patch writes the fields that
  differ from the worker's copy, over whatever is there; the answer is decoded
  over the copy, where fields that the answer leaves out survive.
* *Shared remote resources.* Adoption goes by name, so two objects may track one
  record or one tunnel, and one may be deleted while the other adopts.
* *Ownership read from a cache.* Whether a DnsRecord, an app, a Service or a tunnel
  is one's own is decided by a cached copy; another object may have taken its name.
* *Events as the only memory.* Reconciles end without a requeue and rely on the
  watches to bring them back. Four controllers compute one Gateway's world from a
  dozen kinds of objects; one missing watch leaves something out of date for good.
* *Threads and a mutex.* `secrets.Access` is called by two controllers and by
  informer callbacks, and reads a cache after releasing the lock.
* *Order and precedence.* Envoy and cloudflared take a first match. Nested
  wildcards, several listeners on a port and moved ports must not hide each other.
* *Self-induced work.* Every status patch enqueues its own object. A controller
  must come to rest, and must not stop too early either.
* *Deletion.* Finalizers must go last, and must go.

`PROJECT.json` lists the hazards line by line with the properties aimed at them.

## 2. Modules

| Module | Models | Used by |
| --- | --- | --- |
| `DnsRecordController` | the DnsRecord controller | `DnsRecordLedger`, `DnsRecordProofs` |
| `ZoneLedger` | what that controller promises of a zone, abstractly | `DnsRecordLedger` |
| `DnsRecordLedger` | the refinement mapping between the two | `MCDnsRecord`, `DnsRecordLedgerProofs` |
| `TunnelController` | the CloudflareTunnel controller without `reconcileDns` | `MCTunnel`, `TunnelProofs` |
| `TunnelDns` | `reconcileDns`: the DnsRecords of a tunnel | `MCTunnelDns`, `TunnelDnsProofs` |
| `CloudflaredController` | the Cloudflared controller | `MCCloudflared`, `CloudflaredProofs` |
| `SecretAccess` | `secrets.Access` and the two controllers around it | `MCSecretAccess`, `SecretAccessProofs` |
| `GatewayModel` | the functions of `internal/gateway` and `internal/xds` | `GatewayControllers` |
| `GatewayControllers` | the GatewayClass, Gateway, route status and xDS controllers together | `MCGateway`, `GatewayProofs`, `GatewayQuietProofs` |
| `MC*` | instances for TLC | `*.cfg` |
| `*Proofs` | the theorems about a module, with the invariants and lemmas they rest on | `DnsRecordLedgerProofs` builds on `DnsRecordProofs`, `GatewayQuietProofs` on `GatewayProofs` |

### How the models of controllers correspond to the code

*Calls are steps.* `pc` names the call `Reconcile` is about to make; each call is
one action, so anything may happen between two calls and nothing within one.
Local computation belongs to the action of the call before it. `rec` is the
worker's copy of the object (`record`, `tunnel` in the code), `cur` its name,
`res` the last answer of Cloudflare, `want` (DNS) the resolved spec, `tid`
(tunnel) the variable `tunnelId`, `plan` the routes still to delete and to
create, `list` the remaining items of a loop over Cloudflareds. Returning clears
them (`Return`); an error and a `RequeueAfter` put the object back on the queue.
Backoff and delays are not modelled: a requeued object may be reconciled at once
or much later.

*The cluster.* `obj` is what the API server holds, `cache` what the informer has
delivered, `news` the objects with an undelivered version, `queue` the work
queue. `Sync` delivers the newest version and enqueues. As in Kubernetes an
object under deletion goes when its finalizer does, and a user's delete of an
object without finalizers removes it at once.

*Patches.* `Merged` is the merge patch against the API server's object, `Decoded`
and `Refreshed` what the worker's copy looks like afterwards. Conditions are one
field, because a merge patch replaces a list as a whole.

*Cloudflare.* Records are addressed by zone and id, tunnels by account and id;
ids are never reused. Cloudflare accepts several records of one name and type
but no second tunnel of one name. A network can be routed to one tunnel per
virtual network. A token may lack access to routes (`access`).

*Failures.* `CallFails` fails any call that is due; a call that took effect but
whose answer was lost is the call followed by the failure of the next one.
`Restart` forgets the worker's state, lists the caches anew and enqueues every
object. In the later modules `Budget` is the set of allowed combinations rather
than one bound per kind. `RemovedUpstream` is somebody using the Cloudflare dashboard.

*Abstraction of data.* A DNS record is its zone, `key` (name and type), `content`
(content and comment, what `diff` compares besides the key) and `opts` (proxied,
ttl, tags, settings, which `diff` ignores). A tunnel's configuration is its list
of ingress rules, each told apart only by whether it matches everything; a
selector is the set of labels it matches; a CIDR is a spelling that denotes a
network or none. `spec.name` stands for `effectiveName`. The Progressing and
Degraded conditions are told apart by the reasons the code gives them. Fields
that are only displayed (`status.instances`, timestamps, health) are left out.

*Not in the models.* The informers' ten-hour resync, which would enqueue every
object again: what the runs show holds without its help, and it would hide
objects that wait for nothing. More than one worker: the manager configures
none. Validation by the API server, and the Cloudflare account's own limits.

### DnsRecordController

`Dispatch` is the order of the branches of `Reconcile` (deletion, finalizer,
resolve). Deletion: `LookForAdopter`, `DeleteDnsRecord`, `ReleaseDnsRecord`.
Without an id: `ListDnsRecords`/`AdoptDnsRecord`/`ListAmbiguous`,
`CreateDnsRecord`, `RecordId`. With an id: `GetDnsRecord` or
`GetDnsRecordGone` and `ForgetId`, then `Observe`, `UpdateDnsRecord`,
`ObserveUpdate`. The tunnel that a `tunnelRef` names is the variable `tunnel`, its
hostname or `Nil`; `TunnelChanges` is the watch of `SetupWithManager`.

### TunnelController

`Proceed` is the order of conditions, finalizer, create and update. Creation:
`CreateTunnel`, `CreateConflicts` and the three outcomes of `adoptTunnel`,
`RecordTunnel`. Update: `GetTunnel`, `EditTunnel`, `UpdateConfiguration`,
`ListRoutes`, `DropRoute`, `AddRoute`, `UpdateStatus`. Cloudflareds:
`SelectCloudflareds`, `ApplyConfig` or `ApplyConflicts`, `CreateCloudflared`.
Deletion: `Finalize`, `MarkCloudflareds`, `DeleteCloudflared`,
`ListRoutesToDelete`, `PurgeRoute`, `MarkTunnel`, `DeleteTunnel`, `Release`.
`RecordComplaint` is `degrade`. `Cloudflared`s are objects of their own, in a
cache without handlers because the controller does not watch them; `Collect` is
the garbage collector. The status of an owned DnsRecord enqueues the tunnel
(`DnsRecordChanges`).

### ZoneLedger and DnsRecordLedger

`ZoneLedger` has no ids, caches, queues, finalizers or calls. A zone is a book with
one entry per name and type; objects claim entries. `Publish` writes an entry on
behalf of an object that claims it, with a content that object may ask for;
`Withdraw` strikes one out that a deleted object had claimed; nobody else's entry
ever changes. `DnsRecordLedger` maps the detailed state to it: `Book` reads the
zones, `Claims` the objects, `Leaving` the entries of objects under deletion *as
anybody still has them*: at the API server, in the cache or in the worker. The last
part is needed. The first version, in which an entry could go only while the
object that claimed it was still there, is refuted by TLC: a worker with an old copy may
delete the record after the object has gone. Keys are fixed in this run, since an edited name renames
a record, which the abstract specification does not describe.

### TunnelDns

`DesiredDnsRecords` and `SettingsFor` are `desiredDnsRecords` with `resolveDns`;
`Applied` and `Kept` are what the zone check leaves of them. `ReconcileDns` reads
zones and the list of owned records, then each hostname is one of `CreateRecord`,
`UpdateRecord`, `ApplyConflicts`, `SkipRecord`, each surplus record `DeleteRecord`,
and `ApplyStatus` writes the counts. Hostnames come in any order. A DnsRecord is
its owner, settings and the tunnel Cloudflare answers with; the DnsRecord
controller is the environment (`RecordChanges`, `RecordReleased`), and so are
tunnels that are deleted and created anew under the name (`uids`).

### CloudflaredController

`Dispatch` is the order of the branches of `Reconcile` by `status.kind` and the
cached app: create (`LookupTunnel`, `AdoptApp`, `RefuseApp`, `CreateApp`,
`RecordKind`), forget (`ClearKind`), delete (`DeleteApp`) or update (`UpdateApp`).
An app is its owner, its selector (the version label, which the API server lets
nobody change: `UpdateAppRejected`), its pod (version and tunnel id) and replicas.
`UpdatedApp` is what the merge patch of `updateApp` leaves: the pod is always written,
the replicas only where they differ from the cached copy.
The cache of apps lags on its own for each kind.

### SecretAccess

Three workers share `namespaces`, the map that `Access.mu` guards: the watch
reconciler (`ReadWatched`, `SetNamespaces`), the access reconciler (`ReadAccess`,
`Revoke`, `Bind`, ...) and the Gateway worker, for which `Get` is two steps, `Pick` under the
mutex and `ReadSecret` after it. Informer callbacks are `ListSecrets`,
`CacheSynced`, `SecretEvent`. A list succeeds only where a RoleBinding grants it.
`policy` says whether the chart's admission policy is installed, which refuses to
delete RoleBindings to other roles. `lapsed` is history for `WantedAccessStays`.
`Init` is an operator at work; `Restart` covers its beginning.

### GatewayModel and GatewayControllers

`GatewayModel` keeps the names of the Go functions. Hostnames are sequences of labels from the
top level down, paths sequences of segments. Left out: matches by method, header
and query, the filters other than redirects and unknown ones, the protocols of
Service ports, and everything in Envoy's messages that does not decide where a
request goes.

`GatewayControllers` has one class, one Gateway of it and two routes. `api` and
`cache` hold an object of each kind, which lag separately; ReferenceGrants and namespace
labels, backends with their EndpointSlices, and Secrets are one object each.
`Enqueued` and `EnqueuedRoutes` are the event handlers of all four controllers. A
Gateway's reconcile is `GatewayReconcile`, `ProvisionDeployment`,
`ProvisionService`, `ProvisionTunnel`, `PatchGateway`; the class's, two steps; a
route's, a read and a patch under a lock; the xDS controller's, one step, because it
writes to memory only. `Worlds` says what the operator may be started with, which
controllers run (`active`) and which events from outside may come (`outside`, each once).

## 3. Runs

Numbers of distinct states are those of TLC. `Budget` bounds what the
environment does by kind (edits by users, failures, changes from outside, changes
of the tunnel); `Mishaps`, where there is one, bounds failures and interventions from outside together.
The controllers themselves are not bounded. Deadlock is not checked, because a
controller without work rests.

| Run | Specification | Checks | States |
| --- | --- | --- | --- |
| `dns_shared` | `Spec` | `NoDuplicateRecords`, `TracksOwnRecord`, `HeldWhileServed`, `QuietMeansConverged`, `CleanRelease`, `ImplementsLedger` | 644 216 |
| `dns_edits` | `FairSpec` | `TypeOK`, `QuietMeansConverged`, `DeletionCompletes`, `ComesToRest` | 335 315 |
| `tunnel_shared` | `Spec` | `TracksOwnTunnel`, `NoRouteOutlivesTunnel`, `CleanRelease` | 756 955 |
| `tunnel_life` | `FairSpec` | `TypeOK`, `QuietMeansComplete`, `DeletionCompletes`, `ComesToRest`, `SelectedAreConfigured` | 263 162 |
| `cloudflared` | `FairSpec` | `TypeOK`, `QuietMeansRunning`, `KindChangeDeletesApp`, `ComesToRest` | 388 282 |
| `tunnel_dns` | `Spec` | `TypeOK`, `RecordsFollowConfig`, `CountsAreRight`, `WantedRecordsStay`, `ForeignNotOverwritten` | 960 968 |
| `secrets` | `FairSpec` | `TypeOK`, `QuietMeansReported`, `QuietMeansOnlyThose`, `WantedAccessStays`, `ComesToRest` | 192 523 |
| `gateway` | `Spec` | `TypeOK`, `QuietMeansCurrent`, `PortsDoNotClash`, `ForeignStatusKept`, `ForeignObjectsUntouched`, `EnvoyServesRequest`, `TunnelReachesListener` | 442 318 |
| `dns_settings` | `Spec` | `SettingsFollowSpec`: violated | |
| `tunnel_rest` | `FairSpec` | `SpecProblemLeftAlone`: violated | |
| `tunnel_stuck` | `FairSpec` | `FinalizerReleased`: violated | |
| `tunnel_orphan` | `Spec` | `NoOrphan`: violated | |

`dns_shared`: two objects want the same record, which may exist (under that name
or another) before they do. Four user actions let both be created and deleted
once in any order, with one failure or restart at any point and one removal in
the dashboard. This is enough for a create whose id is lost, an adoption of the
other's record and a deletion under the adopter.

`dns_edits`: one object with three specs (two names, a fixed content and a
`tunnelRef`), three user actions, two changes of the tunnel and a failure; one of
the names may belong to two records, so that the ambiguous list occurs.

`tunnel_shared`: two objects of one name, one of which has a route and may move to
another account, beside a tunnel of another name; three user actions and one
mishap. Creating both and deleting one, and creating, moving and deleting one, are
the shortest histories in which an id could be paired with the wrong account or a
route could be added behind the purge.

`tunnel_life`: one object that either has a configuration and routes (two
spellings of one network and one that is no network) or a selector with a
template; the account may hold no tunnel of its name, one that Cloudflare
configures, or two; the token may lack access to routes. One Cloudflared of the
user comes or goes.

`cloudflared`: a DaemonSet that may become a Deployment of one or two replicas, or one
of another version with an inline tunnel. One object with an edit or its deletion and a change
of the tunnel, a failure, a restart or a meddling with an app; or with two edits; or
an object that replaces another, with a failure. `QuietMeansRunning` needs both watches: without the one of
tunnels a Cloudflared that waits for an id is never looked at again. Without the one of
apps two edits of the replicas (1, 2, 1 or the reverse) while the informer of apps lags leave the first
number: the second patch is computed against the old copy and leaves the replicas out.
For an app that somebody else put in the place of the operator's, whose events enqueue nobody,
that is how it ends, so its replicas are excepted. The exception is needed: without it, TLC finds
the counterexample with one object, edited three times, and one intervention, which is
beyond the run's bounds. With it that instance holds too (1 176 417 states).
`KindChangeDeletesApp` starts from a kind that is recorded and cached: if `spec.kind`
is edited between the create and the patch of `status.kind`, the code creates the
other app and keeps both. `ComesToRest` names where the code retries for ever: no tunnel,
somebody else's app, or the labels of a new version, which an existing selector refuses.

`tunnel_dns`: two hostnames (one with two spellings) and two zones, one below the
other; three configurations with a move between zones, a hostname outside its zone,
a disagreement and a missing zone. Two user actions with one fault, foreign record
or zone answer, or one with two status changes. `RecordsFollowConfig` excepts a
hostname whose record's name somebody else had: it is skipped and nothing brings
the tunnel back when that record goes.

`secrets`: two Gateways in one namespace, one with a certificate elsewhere under a
grant. Any two changes of which at most one is no user's, or a grant that goes and
comes back while a Secret changes. `QuietMeansReported` holds although
`SetNamespaces` may return before its notifications: whatever made the namespace
unwanted has enqueued the Gateways concerned. `ComesToRest` rests on Go's order of a map,
which differs between loops: with a fixed order (the mutant) one protected
RoleBinding starves every namespace behind it.

`gateway`: `Busy` starts from a Gateway that is served and lets two or three kinds
of events happen in any order; the controllers that write the class and the
Gateway's objects and those that write routes and snapshots are also run separately, since
they meet at the API server only, and there more events fit. `Matched`, `Odd`,
`Settings` and `Routed` start from some 600 combinations of listeners, hostnames,
routes, references, configs and ingress rules, each of which is reconciled once.
`QuietMeansCurrent` compares everything the controllers wrote with the same
functions applied to the current objects: what it checks is the watches, the
locks and the retries. The functions themselves are checked by
`EnvoyServesRequest`, `TunnelReachesListener` and `PortsDoNotClash` against
definitions that do not use the code's algorithm: the most specific listener that
covers a host, the first match by precedence among its routes, the most specific
public hostname. `EnvoyServesRequest` has one exception, in which the code differs from its
comment: when the most specific listener has no route for a host, a wildcard route
of a less specific listener on that port answers, although "a request for a host is
routed by the routes of that listener alone" (`internal/xds/translate.go:301`).
`QuietMeansCurrent` has one, too: a foreign object in the way of a Deployment,
Service or tunnel enqueues nobody when it goes (`Relieved`).

Every property of a passing run has a mutant in `PROJECT.json`: a variant of one
definition, as a plausible bug would change it (the `Variant` definitions of the
modules), under which TLC finds the property violated.

### What the violations show

* `tunnel_rest`. A malformed selector is said to be "recorded and left alone until
  the user edits the resource". Each reconcile sets Degraded to False in
  `updateTunnel` and to True in `degrade`; both are new versions and enqueue the
  tunnel, which is reconciled for ever. Every tunnel with `spec.cloudflared` does
  the same with the message of its Progressing condition, which is why
  `ComesToRest` excepts them.
* `tunnel_stuck`. `finalize` requeues as long as the selector matches anything, and
  `deleteCloudflareds` returns without an error at the first Cloudflared that the
  tunnel does not own, so a selected Cloudflared of the user holds the finalizer.
* `tunnel_orphan`. A missing status id is taken for a tunnel that was never
  created. The cached copy may predate the patch of the id, and the tunnel stays
  at Cloudflare after its object.
* `dns_settings`. `diff` compares comment, content, name and type, so an edit of
  `proxied` (or ttl, tags, settings) never reaches the record.

### Fairness

`FairSpec` assumes that the worker makes its next call (weak fairness of
`ReconcileStep`), that informers deliver and the garbage collector collects (weak
fairness of `Sync`, `SyncApp`, `SyncCloudflared`, `Collect`), and that an object that is
enqueued again and again is reconciled (strong fairness of `Reconcile(c)`: other
objects may take the worker in between, but the queue is first-in first-out and
holds each object at most once). Users, failures, tunnels (in the DNS model) and
outside interventions owe nothing. In `SecretAccess` all that ends of itself has one
condition, `OtherStep`, the access worker another, and strong fairness of `Bind(n)`
is Go's changing order of a map. `TunnelDns` and `GatewayControllers` are checked
without fairness: for the latter TLC would have to evaluate `ENABLED` of actions that
build whole Gateways, in every state, which is out of its reach; that such a
controller rests is therefore not shown, only that what it has written is right whenever it
does.

## 4. Proofs

Every theorem holds for all values of the constants: any number of objects, ids,
zones, hostnames and specs, and any budget of failures, edits and interventions
where a run has one or two. What a theorem assumes beyond the `ASSUME`s of its
module stands in its statement. A module is proved from the types up: first
`TypeInv`, the types sharpened by what each `pc` knows of the local variables, then
an invariant per idea on top of it, with one step per action.

### DnsRecord controller (`DnsRecordProofs`, `DnsRecordLedgerProofs`)

* `TypeCorrect`: `Spec => []TypeOK`. Not just bookkeeping: `want` has a content
  whenever a create or an update is due, so no record is written before the tunnel
  has its id.
* `NoDuplicates`: `Spec => []NoDuplicateRecords`.
* `TracksOwn`: `Spec => []TracksOwnRecord`.
* `Held`: `Spec => []HeldWhileServed`.
* `ReleasedClean`: `Spec => CleanRelease`.
* `Converged`: `Spec => []QuietMeansConverged`.
* `RefinesLedger`: `Spec => ImplementsLedger`, the whole controller implements
  `ZoneLedger`.

All but `TypeCorrect` and `Held` assume `FixedKeys` (all specs a user may give to
one object have the same zone, name and type) and `UniqueBefore` (no duplicates
before the operator starts). Both are needed: after an edit of the name the id
points at a record of the old name until the update, and that update may give the
new name to a second record. Content, settings and the tunnel may be edited, and several
objects may ask for one record.

The inductive invariant `IInv` has these parts.

* `TypeInv`: the types, sharpened by what each `pc` knows (`rec` and `cur` are not
  `Nil` within a reconcile, `want` not `Nil` between resolve and return, `res` not
  `Nil` when a patch of it is due, an id in `rec` where one is used).
* `ObjectsInv`: every object and every cached copy asks for the record of its specs,
  and its id, if any, has been issued and names no other record.
* `WorkerInv`: the same for the worker's copy and for `res`, and at `create`: no
  record of the zone, name and type exists. That last part is what makes a list followed by a
  create safe: with one worker nobody else creates in between.
* `IssuedOnce`: what exists has been issued, so a fresh id is nobody's.
* `NoDuplicateRecords` itself.

`NoDuplicateRecords` alone is not inductive: the create needs the list's result, and
an update needs to know that the id it addresses is of its own key. Each action
has a step of its own; the lemmas about merge patches (`Merged`, `Decoded` keep an
id that both sides know to be right) carry the argument through the status.

`Held` has an invariant of its own, `HeldInv`. What is to be shown is about the
object at the API server, while the worker decides by a copy from the cache; the
invariant says what an old copy still tells about the object: one that has the
finalizer and is not under deletion is of an object that has it (only the worker
drops it, and never from such a copy), and one under deletion was not followed by
another object of that name with a finalizer. `NilAssumption` (`Nil` is neither an
object nor a record) is all it needs besides the types.

`ReleasedClean` adds `CopiesInv` (every copy has one of the object's specs, and got
its id only after its finalizer) and `ReleaseInv` (only an object under deletion
reaches the delete; when its finalizer goes, the record is gone or another object
with a finalizer asks for it). Together they are `KInv`.

`Converged` is about a state at rest, so its invariant `QInv` says for every state
what is still to come. An object is *pending* when it is queued or has an undelivered
version.

* `FreshInv`: an object that is not pending is in the cache, and in the worker's
  hands, as the API server has it, and `want` is what it asks for.
* `AskInv`: what the worker writes is asked for by some spec of its object; if the
  tunnel has changed since, every object that names the tunnel is pending.
* `DeleteInv`: nobody loses a record to another object's deletion without being
  pending.
* `ConvInv`, while nothing was removed outside the operator: the answer of the get is
  still true, and every object that is due is pending, has its record, or is in the
  worker's hands.

`RefinesLedger` maps the steps of the controller to those of the ledger: create and
update to `Publish`, the delete to `Withdraw`, the release of a finalizer to `Drop`,
a user's create to `Claim` and delete to `Leave` or `Drop`, a removal at Cloudflare to
`Lose`, all others to a step that leaves the book alone. Lemmas say what one write or
removal at Cloudflare does to the book (`BookWritten`, `BookStruck`: with unique keys
it changes one entry), and that objects on their way out only become fewer. It uses `QInv`:
a withdrawal needs `ReleaseInv`, a publication `AskInv`.

### CloudflareTunnel controller (`TunnelProofs`)

* `TypeCorrect`: `Spec => []TypeOK`.
* `ReleasedClean`: `Spec => CleanRelease`. No assumption: whatever is edited, shared or fails.
* `RoutesGoFirst`: `Spec => []NoRouteOutlivesTunnel`, assuming `RoutedBefore` (before
  the first run, where the token may manage routes, each leads to a tunnel of its account).
* `TracksOwn`: `Spec => []TracksOwnTunnel`, assuming `FixedNames` (no user changes
  `spec.name`); with an edited name the status names the old tunnel until the edit call.
* `RestIsComplete`: `Spec => []QuietMeansComplete`, assuming `OwnTunnels` (no two objects ask
  for a tunnel of one name in one account). Names and everything else may be edited.
  Without the assumption it is false: deleting one of two objects that share a tunnel removes it
  under the other, and nothing tells that one.

`BookInv`: the id and the account of a status belong together in every copy, so an
old copy never addresses an id in the wrong account. `GoneInv`: where a deletion has
got to; at the release the tunnel is gone, or the object has been given another id
meanwhile. `RouteInv`: a route leads to a tunnel of its account, and once the routes
were listed those to the tunnel are all in `plan.drop`, which is empty when the tunnel
is deleted. `NameInv`: every copy with an id has the name of that tunnel. `spec.routes` is
finite (`FiniteInv`), which the loops over it need.

`RestIsComplete` is about a state at rest, while the work is done over many calls on a copy that may
be out of date. An object is *settled* when no version of it is undelivered and it is not queued.

* `OwnInv`: no copy and no step of `Reconcile` for an object leads to the tunnel of another one,
  so what is done for one leaves the others complete.
* `WorkInv`: how far `updateTunnel` has got, as long as nobody intervenes at Cloudflare: the
  tunnel is there, has its name after the edit call, and its configuration after the push.
* `PlanInv`: what `updateRoutes` still has to do. The routes that stay are wanted and counted, and
  a missing one is in `plan.add` or has been noticed as a problem. Its lemmas (`RoutesPlanned`,
  `DropPlanned`, `AddPlanned`) are about cardinalities, for two spellings of a CIDR are one route.
* `SyncInv`: while its object is settled, `Reconcile` has the object itself before it. The
  patch that ends `updateTunnel` is news to every watcher unless it changes nothing (`NoNews`), so
  only a reconcile that found all in place leaves its object settled.
* `RestInv`: a settled object that is not at work is complete. `QuietMeansComplete` is this
  with an idle worker.

### Tunnel DNS (`TunnelDnsProofs`)

* `TypeCorrect`: `Spec => []TypeOK`.
* `FollowsConfig`: `Spec => []RecordsFollowConfig`.
* `CountsRight`: `Spec => []CountsAreRight`.
* `WantedStay`: `Spec => WantedRecordsStay`.
* `ForeignStays`: `Spec => ForeignNotOverwritten`.

`CacheInv` and `FreshInv` say that a copy is old only where an event is under way that
enqueues the tunnel. `SpentInv` ties the budgets to what cannot have happened yet.
`WorkInv`, `WantedInv` and `UnwantedInv` say for each hostname, while no event is due,
that its record is as wanted, still in `todo`, or about to be deleted. `PassedOver` is what
`WantedStay` needs: a record listed at the start and passed over since was not the
tunnel's any more. `CountInv` counts the same: the tunnel's records in the cache are in `keep`, or
are still in `todo` or `owned`, or an event that will enqueue the tunnel is due. `Host` is
assumed finite, which cardinalities need.

### Cloudflared controller (`CloudflaredProofs`)

* `TypeCorrect`: `Spec => []TypeOK`.
* `QuietRuns`: `Spec /\ [][ForeignAppsStay]_vars => []QuietMeansRunning`.

`RunningInv`: between two reconciles the recorded kind is the wanted one and the app
runs what it should, with a copy in the cache whose removal enqueues; or such a removal
is under way. `OwnInv` and `UpdatingInv` carry it: an app that enqueues is not hidden by
a copy that does not. `SeenInv` and `SizeInv` are for the replicas: the copy that the patch is
computed against is the cached one, so where it is out of date there is news of the app, which
enqueues unless the app is somebody else's. `ForeignAppsStay` (nobody deletes an app of the Cloudflared's
name that is not the operator's) cannot be dropped. The attempt without it
failed, and TLC found the reason with three interventions: the app is deleted, somebody else creates one of
that name before the informer tells, the controller patches that one, and its deletion then enqueues
nothing, because it has no owner reference. The Cloudflared rests with a recorded
kind and no app. The run allows a single intervention and does not meet this.

### TLS Secret access (`SecretAccessProofs`)

* `TypeCorrect`: `Spec => []TypeOK`.
* `Reported`: `Spec => []QuietMeansReported`.
* `OnlyThose`: `Spec => []QuietMeansOnlyThose`.
* `AccessStays`: `Spec => WantedAccessStays`.

`ListedInv`: the cache of RoleBindings is behind only where an event is under way.
`WatchInv`: Access watches what Gateways want, or the watch controller is due.
`RevokeInv`: what is revoked and bound comes from one reading of the Gateways.
`AccessInv`: every RoleBinding is right, about to be written, or has an event to come.
`ViewInv`: a Gateway that is not queued is being reconciled from what is true now, or
reports what the cache of its namespace holds, if that has synced. The last condition is the point: a
`Get` may read a cache after it was stopped, and is harmless only because the namespace's next cache
notifies once it has synced.

### Gateway controllers (`GatewayProofs`, `GatewayQuietProofs`)

* `TypeCorrect`: `Spec => []TypeOK`, which includes that no route status has two
  entries of one controller for one parentRef.
* `PortsApart`: `Spec => []PortsDoNotClash`.
* `OthersKept`: `Spec => ForeignStatusKept`, assuming `NilIsNoRoute` (`Nil` is not a
  record with the fields of a route).
* `OthersUntouched`: `Spec => ForeignObjectsUntouched`.
* `GatewaysCurrent`: `Spec /\ [][KnownFirst]_vars => []QuietMeansCurrent`, assuming
  `NilIsNoRecord` (`Nil` is not a record with the fields of an object or a job).

`TypeInv` is enough for the first four; it holds what each of the four jobs read and has still
to write. `PortsApart` rests on lemmas about the ports that `GatewayModel` hands
out: moved and kept ones never meet, nor meet Envoy's own. The worlds a run enumerates
are a constant here (`WorldsAssumption`): any Gateways with numbers for ports, any routes, and only
objects that a Gateway provisions may be lost while the operator is down.

`GatewaysCurrent` is the theorem about the watches: when nothing waits, the conditions, the
provisioned objects, the routes' entries and the snapshot are what the objects call for. Its invariant
has one part for each controller, and each says the same: the controller waits for its turn, or
what it wrote, or is about to write, is what the caches call for, or the cache has yet to hear of
its own last write.

* `BaseInv`: what is known of copies. The uid of a Gateway is not given again; a class with the
  operator's name is its own; an object of somebody else stands only where the informers knew one.
* `ClassInv`, `RouteInv`, `XdsInv`: the class's condition, a route's entries, the snapshot.
* `GwInv`, in two parts. Between two reconciles (`RestInv`) every object that the Gateway calls for
  has been visited, and the status is right. Within one (`JobInv`) the job's Gateway, class and
  model are those of the caches, and what it has passed is visited. Should an object
  that it looked at change, the Gateway is queued again and nothing is claimed.

`KnownFirst`: somebody deletes or replaces a provisioned object only after the informers have
delivered it as the Gateway's. It cannot be dropped; the attempts without it failed, and TLC
found why, in worlds that the run's budget of interventions does not reach.

* A lost Deployment of a Gateway with no replicas is created again, which does not change the
  status. It is deleted before the informer delivers it. No handler hears of it, and the Gateway rests
  without a Deployment.
* A Gateway is deleted and made again. The old one's Deployment is still in the way and its Service has
  been collected when somebody else puts a Service in that place. No Gateway is told, and
  its tunnel's content stays out of date until the collector removes the old Deployment.

Both take somebody with write access to the objects that the operator manages, within
the lag of an informer.

### Left to TLC

* Liveness, which is out of the prover's reach: `DeletionCompletes`, `ComesToRest`,
  `KindChangeDeletesApp`, `SelectedAreConfigured`.
* `EnvoyServesRequest` and `TunnelReachesListener`: what sorting and first match compute
  for a world, an induction over data.
* The runs that expect a violation.

## 5. Plan

1. Done: `DnsRecordController`, `TunnelController`, `TunnelDns`,
   `CloudflaredController`, `SecretAccess`, `GatewayModel` with `GatewayControllers`,
   checked.
2. Done: `ZoneLedger`, and its refinement by `DnsRecordController`, checked and proved.
3. Done: the theorems of section 4.
4. Proofs: lemmas about hostnames (`HostCovers`, `intersect`) of `GatewayModel`.
5. Composition of `TunnelDns` with `DnsRecordController`, in place of the
   environment actions that stand for it.

No module of the project uses recursive operators.

## 6. Not modelled

* The Ingress controller: one create of a CloudflareTunnel, ignored when it exists;
  nothing is read back, changed or deleted afterwards.
* The conversions of `internal/client/map.go` and the calls around them: the classes
  of errors are guards of the models, the fields are not kept.
* Pod templates beyond version and tunnel id, Envoy's bootstrap, filters, rewrites
  and TLS contexts, the gRPC server of xDS: data without control.
* Flags, certificates and registration in `cmd/main.go`; the location of the Gateway
  API CRDs, for tests only; generated code and manifests.
* Several classes or Gateways at once. The controllers treat each by itself; what they
  share, the parents of a route, has a foreign writer in the model.
