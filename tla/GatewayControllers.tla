------------------------- MODULE GatewayControllers -------------------------
(***************************************************************************)
(* The controllers that serve Gateways: GatewayClass, Gateway, the routes' *)
(* status and xDS (src/internal/controller/gateway*.go and                 *)
(* route_controller.go), over the pure operators of GatewayModel.          *)
(*                                                                         *)
(* There is one class, one Gateway of it and a few routes.  Each object is *)
(* kept at the API server and, lagging on its own, in an informer cache.   *)
(* The controllers read the caches; their updates fail when the object has *)
(* changed since, their merge patches write the fields that differ from    *)
(* the cached copy and only a route's fails.  ReferenceGrants and the      *)
(* labels of namespaces, the backends' Services with their EndpointSlices, *)
(* and the TLS Secrets are one object each.                                *)
(***************************************************************************)
EXTENDS GatewayModel

CONSTANTS
  RouteName,   \* numbers, in the order of namespace and name
  Namespace,
  Worlds,      \* what the operator may be started with
  Configs,     \* what the user may change a CloudflareGatewayConfig to
  RouteSpecs,  \* a route
  GatewaySpecs,  \* and the Gateway
  Grants, Services, Secrets,
  Requests,    \* ports, hosts and paths that a client may ask for
  MaxUid       \* how many Gateways of the name are created

Owned == {"deploy", "svc", "tunnel"}
Object == {"class", "config", "gw", "grants", "services", "secrets"} \cup Owned
Controller == {"class", "gw", "route", "xds"}
EventKind == {"create", "gateway", "class", "deleteClass", "config", "grants", "services", "secrets", "route",
              "other", "object", "xds", "fail", "restart"}
Foreign == 0   \* the owner of an object that no Gateway of the name controls

ASSUME ConstantsAssumption ==
  /\ RouteName \subseteq Nat /\ IsFiniteSet(RouteName)
  /\ Home \in Namespace
  /\ MaxUid \in Nat \ {0}
  /\ Nil \notin Object

\* A port is a number.
PortsOK(spec) == \A i \in DOMAIN spec.listeners : spec.listeners[i].port \in Nat

ASSUME WorldsAssumption ==
  /\ \A w \in Worlds : /\ w.active \subseteq Controller /\ w.outside \subseteq EventKind
                       /\ w.lost \subseteq Owned /\ PortsOK(w.gw)
  /\ \A s \in GatewaySpecs : PortsOK(s)

VARIABLES
  api,         \* the objects at the API server, Nil when there is none
  cache,       \* the informers' copies
  route,       \* the same for the routes
  routeCache,
  xdsUp,       \* whether the Service of the xDS server can be found
  queue,       \* the controllers whose request waits: "class", "gw", "xds"
  routeQueue,  \* the routes waiting
  classJob,    \* the class whose status is to be patched
  gwJob,       \* the Gateway being reconciled, the next call and the status collected
  routeJob,    \* the route whose status is to be patched, as it was read
  snapshot,    \* what Envoy is given
  uids,        \* how many Gateways have been created
  active,      \* the controllers that run in this world
  outside      \* the kinds of events that may still come from outside, once each

worldVars == <<api, cache, route, routeCache, xdsUp, uids>>
jobVars == <<classJob, gwJob, routeJob>>
vars == <<worldVars, queue, routeQueue, jobVars, snapshot, active, outside>>

-----------------------------------------------------------------------------
(* What the caches say *)

Ours(objects) == objects["class"] # Nil /\ objects["class"].ours

\* Load: what Build needs, read from the caches.
refsOf(objects) ==
  [grants |-> objects["grants"].grants, selected |-> objects["grants"].selected,
   services |-> objects["services"], secrets |-> objects["secrets"],
   warp |-> WarpRouting(objects["class"], objects["config"])]

liveRoutes(routes) == [n \in {m \in RouteName : routes[m] # Nil /\ ~routes[m].deleting} |-> routes[n].spec]

buildGateway(objects, routes) == Build(objects["gw"].spec, liveRoutes(routes), refsOf(objects))

NoStatus == [conditions |-> Nil, addresses |-> FALSE, listeners |-> <<>>]
NewGateway(uid, spec) == [uid |-> uid, spec |-> spec, deleting |-> FALSE, status |-> NoStatus]
NewRoute(spec) == [spec |-> spec, deleting |-> FALSE, parents |-> {}]

-----------------------------------------------------------------------------
(* The status of a Gateway *)

Condition(ok, reason) == [ok |-> ok, reason |-> reason]

\* accept: the Accepted condition.
accept(m, class, config, gw) ==
  LET valid == Cardinality(ValidOnes(m.listeners))
  IN IF class.accepted # "Accepted" THEN Condition(FALSE, "Pending")
     ELSE IF Resolve(class, config) # "Resolved" THEN Condition(FALSE, "InvalidParameters")
     ELSE IF gw.spec.addresses THEN Condition(FALSE, "UnsupportedAddress")
     ELSE IF valid = 0 THEN Condition(FALSE, "ListenersNotValid")
     ELSE IF valid < Len(m.listeners) THEN Condition(TRUE, "ListenersNotValid")
     ELSE Condition(TRUE, "Accepted")

\* Programmed, once Envoy's Deployment and Service are there.
envoyProgrammed(config, available, addressed) ==
  IF config.replicas = 0 THEN Condition(FALSE, "NoResources")
  ELSE IF ~available THEN Condition(FALSE, "Pending")
  ELSE IF ~addressed THEN Condition(FALSE, "AddressNotAssigned")
  ELSE Condition(TRUE, "Programmed")

tunnelCondition(tunnel) == IF tunnel.ready THEN Condition(TRUE, "Programmed") ELSE Condition(FALSE, "Pending")

\* gatewayStatus.apply: the listeners' part of the status.
listenerStatuses(m, programmed) ==
  [i \in DOMAIN m.listeners |->
     LET l == m.listeners[i]
     IN [name |-> l.spec.name, kinds |-> l.kinds, accepted |-> l.accepted, resolved |-> l.resolved,
         conflicted |-> l.conflicted, attachedRoutes |-> m.attachedRoutes[i],
         programmed |-> IF ~l.valid THEN "Invalid" ELSE IF programmed THEN "Programmed" ELSE "Pending"]]

statusOf(m, accepted, programmed, tunnel, addressed) ==
  [conditions |-> [accepted |-> accepted, programmed |-> programmed, tunnel |-> tunnel],
   addresses |-> addressed,
   listeners |-> listenerStatuses(m, programmed.ok)]

\* The desired state of the objects provisioned for a Gateway.
mutateEnvoyDeployment(config) == config.replicas
mutateEnvoyService(m) == envoyServicePorts(m.listeners)
tunnelSpec(m, gw, config, svc) ==
  [ingress |-> TunnelIngress(config.template.ingress, m.listeners, TunnelHostnames(gw.spec)),
   routes |-> config.template.warp /\ svc # Nil]   \* the addresses of Envoy's Service

\* The parents that a route should report.
parentStatuses(n, objects, routes) ==
  IF objects["gw"] = Nil \/ ~Ours(objects) THEN {}
  ELSE LET mine == {a \in buildGateway(objects, routes).routes : a.name = n}
       IN UNION {{[controller |-> "ours", ref |-> p.ref, accepted |-> p.accepted, resolved |-> a.resolved]
                  : p \in a.parents} : a \in mine}

\* Variant: our own entries stay as well.
mergeParentsKeeps(existing, desired) == existing \cup desired

\* Other controllers' entries stay.
mergeParents(existing, desired) == {p \in existing : p.controller # "ours"} \cup desired

\* The snapshot that Envoy should have.
desiredSnapshot(objects, routes) ==
  IF objects["gw"] = Nil \/ ~Ours(objects) THEN Nil
  ELSE IF objects["gw"].deleting THEN Nil
  ELSE Snapshot(buildGateway(objects, routes), refsOf(objects))

-----------------------------------------------------------------------------
(* Writes *)

Write(o, v) == api' = [api EXCEPT ![o] = v]

\* Variant: the update carries no resourceVersion.
EnsuredUnlocked(o, uid, content) ==
  LET c == cache[o]
      new == [c EXCEPT !.content = content]
      result(outcome, object) == [outcome |-> outcome, object |-> object]
  IN IF c = Nil /\ api[o] = Nil THEN result("written", [owner |-> uid, content |-> content, ready |-> FALSE])
     ELSE IF c = Nil THEN result("error", Nil)
     ELSE IF c.owner # uid THEN result("notControlled", Nil)
     ELSE IF c = new THEN result("same", c)
     ELSE result("written", new)

\* ensureControlled: the object is created, left alone, or updated as it was read.
Ensured(o, uid, content) ==
  LET c == cache[o]
      new == [c EXCEPT !.content = content]
      result(outcome, object) == [outcome |-> outcome, object |-> object]
  IN IF c = Nil /\ api[o] = Nil THEN result("written", [owner |-> uid, content |-> content, ready |-> FALSE])
     ELSE IF c = Nil THEN result("error", Nil)
     ELSE IF c.owner # uid THEN result("notControlled", Nil)
     ELSE IF c = new THEN result("same", c)
     ELSE IF c # api[o] THEN result("error", Nil)
     ELSE result("written", new)

\* A merge patch of the status: the fields that differ from the copy it was made from.
Patched(now, base, new) == [f \in DOMAIN new |-> IF new[f] = base[f] THEN now[f] ELSE new[f]]

-----------------------------------------------------------------------------
(* GatewayClassReconciler *)

\* Reconcile ends with an error, or is asked for again.
Requeue(c) == queue' = queue \cup {c}

ClassReconcile ==
  LET class == cache["class"] IN
  /\ "class" \in queue /\ classJob = Nil
  /\ \/ /\ ~Ours(cache)
        /\ queue' = queue \ {"class"}
        /\ UNCHANGED <<api, classJob>>
     \/ \* the finalizer is there, or is added to the class as it was read
        /\ Ours(cache) /\ ~class.deleting
        /\ class.fin \/ api["class"] = class
        /\ queue' = queue \ {"class"}
        /\ classJob' = [class EXCEPT !.fin = TRUE]
        /\ IF class.fin THEN UNCHANGED api ELSE Write("class", [class EXCEPT !.fin = TRUE])
     \/ \* the update is refused, and so is the finalizer's release
        /\ Ours(cache)
        /\ class.fin = class.deleting /\ api["class"] # class
        /\ class.deleting => cache["gw"] = Nil
        /\ UNCHANGED <<queue, api, classJob>>
     \/ \* finalize: a Gateway holds the class, and it is looked at again later
        /\ Ours(cache) /\ class.deleting /\ cache["gw"] # Nil
        /\ UNCHANGED <<queue, api, classJob>>
     \/ /\ Ours(cache) /\ class.deleting /\ cache["gw"] = Nil /\ api["class"] = class
        /\ queue' = queue \ {"class"}
        /\ Write("class", Nil)
        /\ UNCHANGED classJob
  /\ UNCHANGED <<cache, route, routeCache, xdsUp, uids, routeQueue, gwJob, routeJob, snapshot, active, outside>>

\* The Accepted condition is patched onto the class, whatever became of it.
ClassStatus ==
  /\ classJob # Nil
  /\ LET accepted == IF Resolve(classJob, cache["config"]) = "Resolved" THEN "Accepted" ELSE "InvalidParameters"
     IN IF api["class"] = Nil THEN Requeue("class") /\ UNCHANGED api
        ELSE /\ IF classJob.accepted = accepted THEN UNCHANGED api
                ELSE Write("class", [api["class"] EXCEPT !.accepted = accepted])
             /\ UNCHANGED queue
  /\ classJob' = Nil
  /\ UNCHANGED <<cache, route, routeCache, xdsUp, uids, routeQueue, gwJob, routeJob, snapshot, active, outside>>

-----------------------------------------------------------------------------
(* GatewayReconciler *)

Goes(pc, programmed, addressed, tunnel) ==
  gwJob' = [gwJob EXCEPT !.pc = pc, !.programmed = programmed, !.addressed = addressed, !.tunnel = tunnel]

gwFrame == UNCHANGED <<cache, route, routeCache, xdsUp, uids, routeQueue, classJob, routeJob, snapshot, active, outside>>

GatewayReconcile ==
  LET gw == cache["gw"] IN
  /\ "gw" \in queue /\ gwJob = Nil
  /\ queue' = queue \ {"gw"}
  /\ IF gw = Nil \/ ~Ours(cache) THEN UNCHANGED gwJob
     ELSE IF gw.deleting THEN UNCHANGED gwJob
     ELSE LET m == buildGateway(cache, routeCache)
              accepted == accept(m, cache["class"], cache["config"], gw)
          IN gwJob' = [pc |-> IF accepted.ok THEN "deploy" ELSE "status", gw |-> gw, model |-> m,
                       config |-> cache["config"], accepted |-> accepted,
                       programmed |-> Condition(FALSE, "Invalid"), addressed |-> FALSE,
                       tunnel |-> Nil, available |-> FALSE]
  /\ UNCHANGED api
  /\ gwFrame

\* One call of ensureControlled for object o.
Ensure(o, content, refused, done(_)) ==
  LET e == Ensured(o, gwJob.gw.uid, content)
  IN /\ CASE e.outcome = "error"         -> gwJob' = Nil /\ Requeue("gw")
          [] e.outcome = "notControlled" -> refused /\ UNCHANGED queue
          [] OTHER                       -> done(e.object) /\ UNCHANGED queue
     /\ IF e.outcome = "written" THEN Write(o, e.object) ELSE UNCHANGED api

\* provisionEnvoy, the Deployment.  Without the address of the xDS server there is
\* none, and the Gateway is looked at again later.
ProvisionDeployment ==
  /\ gwJob # Nil /\ gwJob.pc = "deploy"
  /\ \/ /\ ~xdsUp
        /\ Goes("tunnel", Condition(FALSE, "Pending"), FALSE, Nil)
        /\ Requeue("gw")
        /\ UNCHANGED api
     \/ /\ xdsUp
        /\ Ensure("deploy", mutateEnvoyDeployment(gwJob.config),
                  Goes("tunnel", Condition(FALSE, "Invalid"), FALSE, Nil),
                  LAMBDA d : gwJob' = [gwJob EXCEPT !.pc = "svc", !.available = d.ready])
  /\ gwFrame

\* provisionEnvoy, the Service.
ProvisionService ==
  /\ gwJob # Nil /\ gwJob.pc = "svc"
  /\ Ensure("svc", mutateEnvoyService(gwJob.model),
            Goes("tunnel", Condition(FALSE, "Invalid"), FALSE, Nil),
            LAMBDA s : Goes("tunnel", envoyProgrammed(gwJob.config, gwJob.available, s.ready), s.ready, Nil))
  /\ gwFrame

ProvisionTunnel ==
  /\ gwJob # Nil /\ gwJob.pc = "tunnel"
  /\ LET with(tunnel) == Goes("status", gwJob.programmed, gwJob.addressed, tunnel)
     IN \/ /\ gwJob.config.template = Nil
           /\ with(Condition(FALSE, "NotImplemented"))
           /\ UNCHANGED <<queue, api>>
        \/ /\ gwJob.config.template # Nil
           /\ Ensure("tunnel", tunnelSpec(gwJob.model, gwJob.gw, gwJob.config, cache["svc"]),
                     with(Condition(FALSE, "Conflict")), LAMBDA t : with(tunnelCondition(t)))
  /\ gwFrame

\* The status is patched onto the Gateway of the name, if there is one.
PatchGateway ==
  /\ gwJob # Nil /\ gwJob.pc = "status"
  /\ LET new == statusOf(gwJob.model, gwJob.accepted, gwJob.programmed, gwJob.tunnel, gwJob.addressed)
         gw == api["gw"]
     IN IF gw = Nil THEN Requeue("gw") /\ UNCHANGED api
        ELSE /\ Write("gw", [gw EXCEPT !.status = Patched(gw.status, gwJob.gw.status, new)])
             /\ UNCHANGED queue
  /\ gwJob' = Nil
  /\ gwFrame

-----------------------------------------------------------------------------
(* RouteReconciler and GatewayXDSReconciler *)

RouteReconcile(n) ==
  /\ n \in routeQueue /\ routeJob = Nil
  /\ routeQueue' = routeQueue \ {n}
  /\ LET r == routeCache[n]
         gone == r = Nil
     IN IF gone THEN UNCHANGED routeJob
        ELSE IF r.deleting THEN UNCHANGED routeJob
        ELSE LET merged == mergeParents(r.parents, parentStatuses(n, cache, routeCache))
             IN IF merged = r.parents THEN UNCHANGED routeJob
                ELSE routeJob' = [name |-> n, read |-> r, parents |-> merged]
  /\ UNCHANGED <<worldVars, queue, classJob, gwJob, snapshot, active, outside>>

\* Variant: the patch carries no resourceVersion.
PatchRouteUnlocked ==
  /\ routeJob # Nil
  /\ IF route[routeJob.name] # Nil
     THEN /\ route' = [route EXCEPT ![routeJob.name].parents = routeJob.parents]
          /\ UNCHANGED routeQueue
     ELSE /\ routeQueue' = routeQueue \cup {routeJob.name}
          /\ UNCHANGED route
  /\ routeJob' = Nil
  /\ UNCHANGED <<api, cache, routeCache, xdsUp, uids, queue, classJob, gwJob, snapshot, active, outside>>

\* "a patch built from a stale read must fail rather than drop an entry written since"
PatchRoute ==
  /\ routeJob # Nil
  /\ IF route[routeJob.name] = routeJob.read
     THEN /\ route' = [route EXCEPT ![routeJob.name].parents = routeJob.parents]
          /\ UNCHANGED routeQueue
     ELSE /\ routeQueue' = routeQueue \cup {routeJob.name}
          /\ UNCHANGED route
  /\ routeJob' = Nil
  /\ UNCHANGED <<api, cache, routeCache, xdsUp, uids, queue, classJob, gwJob, snapshot, active, outside>>

XDSReconcile ==
  /\ "xds" \in queue
  /\ queue' = queue \ {"xds"}
  /\ snapshot' = desiredSnapshot(cache, routeCache)
  /\ UNCHANGED <<worldVars, routeQueue, jobVars, active, outside>>

-----------------------------------------------------------------------------
(* Informers *)

\* The handlers of every controller, called after o has reached the cache c.
Enqueued(o, c) ==
  LET gateways == IF c["gw"] = Nil THEN {} ELSE {"gw", "xds"}
      ourGateways == IF Ours(c) THEN gateways ELSE {}
      named == c["class"] # Nil /\ c["class"].params = "config"   \* gatewayClassesForConfig
      owner == IF \E v \in {c[o], cache[o]} : v # Nil /\ v.owner # Foreign THEN {"gw"} ELSE {}
  IN CASE o = "class"               -> {"class"} \cup gateways
       [] o = "config"              -> IF named THEN {"class"} \cup gateways ELSE {}
       [] o = "gw"                  -> {"class", "gw", "xds"}
       [] o \in {"grants", "secrets"} -> ourGateways
       [] o = "services"            -> ourGateways \cap {"xds"}
       [] o = "svc"                 -> owner \cup (ourGateways \cap {"xds"})
       [] OTHER                     -> owner

\* Variant: the routes' controller watches no config.
EnqueuedRoutesNoConfig(o) ==
  CASE o = "gw" -> {n \in RouteName : routeCache[n] # Nil /\ RefersTo(routeCache[n].spec)}
    [] o \in {"class", "grants", "services", "svc"} -> {n \in RouteName : routeCache[n] # Nil}
    [] OTHER -> {}

allRoutes == {n \in RouteName : routeCache[n] # Nil}
EnqueuedRoutes(o) ==
  CASE o = "gw" -> {n \in allRoutes : RefersTo(routeCache[n].spec)}
    [] o \in {"class", "config", "grants", "services", "svc"} -> allRoutes
    [] OTHER -> {}

Sync(o) ==
  /\ cache[o] # api[o]
  /\ cache' = [cache EXCEPT ![o] = api[o]]
  /\ queue' = queue \cup (Enqueued(o, cache') \cap active)
  /\ routeQueue' = routeQueue \cup {n \in EnqueuedRoutes(o) : "route" \in active}
  /\ UNCHANGED <<api, route, routeCache, xdsUp, uids, jobVars, snapshot, active, outside>>

\* routeParentsHandler: the Gateways that the route named before and names now.
SyncRoute(n) ==
  /\ routeCache[n] # route[n]
  /\ routeCache' = [routeCache EXCEPT ![n] = route[n]]
  /\ routeQueue' = routeQueue \cup {m \in {n} : "route" \in active}
  /\ queue' = IF \E r \in {route[n], routeCache[n]} : r # Nil /\ RefersTo(r.spec)
              THEN queue \cup ({"gw", "xds"} \cap active) ELSE queue
  /\ UNCHANGED <<api, cache, route, xdsUp, uids, jobVars, snapshot, active, outside>>

-----------------------------------------------------------------------------
(* The cluster and its users *)

outsideFrame == UNCHANGED <<cache, routeCache, queue, routeQueue, jobVars, snapshot, active>>
Happens(kind) == kind \in outside /\ outside' = outside \ {kind}
Event(kind) == Happens(kind) /\ outsideFrame

\* The garbage collector removes what belongs to a Gateway that is gone or going.
Collect(o) ==
  /\ o \in Owned /\ api[o] # Nil /\ api[o].owner # Foreign
  /\ api["gw"] # Nil /\ api["gw"].uid = api[o].owner => api["gw"].deleting
  /\ Write(o, Nil)
  /\ outsideFrame /\ UNCHANGED <<route, xdsUp, uids, outside>>

CollectGateway ==
  /\ api["gw"] # Nil /\ api["gw"].deleting
  /\ \A o \in Owned : api[o] # Nil => api[o].owner # api["gw"].uid
  /\ Write("gw", Nil)
  /\ outsideFrame /\ UNCHANGED <<route, xdsUp, uids, outside>>

\* A Deployment becomes available, a Service gets an address, a tunnel its id.
BecomesReady(o) ==
  /\ o \in Owned /\ api[o] # Nil /\ api[o].owner # Foreign /\ ~api[o].ready
  /\ Write(o, [api[o] EXCEPT !.ready = TRUE])
  /\ outsideFrame /\ UNCHANGED <<route, xdsUp, uids, outside>>

CreateGateway(spec) ==
  /\ api["gw"] = Nil /\ uids < MaxUid /\ Event("create")
  /\ uids' = uids + 1
  /\ Write("gw", NewGateway(uids + 1, spec))
  /\ UNCHANGED <<route, xdsUp>>

\* Foreground deletion waits for the objects, background deletion does not.
DeleteGateway(foreground) ==
  /\ api["gw"] # Nil /\ ~api["gw"].deleting /\ Event("gateway")
  /\ Write("gw", IF foreground THEN [api["gw"] EXCEPT !.deleting = TRUE] ELSE Nil)
  /\ UNCHANGED <<route, xdsUp, uids>>

EditGateway(spec) ==
  /\ api["gw"] # Nil /\ api["gw"].spec # spec /\ Event("gateway")
  /\ Write("gw", [api["gw"] EXCEPT !.spec = spec])
  /\ UNCHANGED <<route, xdsUp, uids>>

NewClass(params) == [ours |-> TRUE, params |-> params, fin |-> FALSE, deleting |-> FALSE, accepted |-> Nil]

EditClass(params) ==
  /\ Event("class")
  /\ IF api["class"] = Nil THEN Write("class", NewClass(params))
     ELSE api["class"].params # params /\ Write("class", [api["class"] EXCEPT !.params = params])
  /\ UNCHANGED <<route, xdsUp, uids>>

DeleteClass ==
  /\ api["class"] # Nil /\ ~api["class"].deleting /\ Event("deleteClass")
  /\ Write("class", IF api["class"].fin THEN [api["class"] EXCEPT !.deleting = TRUE] ELSE Nil)
  /\ UNCHANGED <<route, xdsUp, uids>>

\* A config, the grants, the backends or the Secrets change.
Change(o, v) ==
  /\ api[o] # v /\ Event(o)
  /\ Write(o, v)
  /\ UNCHANGED <<route, xdsUp, uids>>

EditRoute(n, spec) ==
  /\ IF route[n] = Nil THEN spec # Nil ELSE route[n].spec # spec
  /\ Event("route")
  /\ route' = [route EXCEPT ![n] = IF spec = Nil THEN Nil ELSE IF @ = Nil THEN NewRoute(spec) ELSE [@ EXCEPT !.spec = spec]]
  /\ UNCHANGED <<api, xdsUp, uids>>

\* A finalizer of somebody else's keeps the route for a while.
DeleteRoute(n) ==
  /\ route[n] # Nil /\ ~route[n].deleting /\ Event("route")
  /\ route' = [route EXCEPT ![n].deleting = TRUE]
  /\ UNCHANGED <<api, xdsUp, uids>>

\* The controller of another Gateway writes its entry into the route's status.
OtherStatus(n) ==
  /\ route[n] # Nil /\ Event("other")
  /\ LET others == {p \in route[n].parents : p.controller # "ours"}
         entry(ref) == [controller |-> "other", ref |-> ref, accepted |-> "Accepted", resolved |-> "ResolvedRefs"]
         want == {entry(ref) : ref \in {p \in route[n].spec.parentRefs : ~targets(p)}}
     IN /\ others # want
        /\ route' = [route EXCEPT ![n].parents = (@ \ others) \cup want]
  /\ UNCHANGED <<api, xdsUp, uids>>

\* Somebody deletes an object, or puts another one in its place.
Meddle(o, v) ==
  /\ o \in Owned /\ api[o] # v /\ Event("object")
  /\ Write(o, v)
  /\ UNCHANGED <<route, xdsUp, uids>>

BecomesUnready(o) ==
  /\ o \in Owned /\ api[o] # Nil /\ api[o].ready /\ Event("object")
  /\ Write(o, [api[o] EXCEPT !.ready = FALSE])
  /\ UNCHANGED <<route, xdsUp, uids>>

XdsChanges ==
  /\ Event("xds")
  /\ xdsUp' = ~xdsUp
  /\ UNCHANGED <<api, route, uids>>

\* A call of the API server fails, and the request is retried.
CallFails(c) ==
  /\ Happens("fail")
  /\ \/ c = "class" /\ classJob # Nil /\ classJob' = Nil /\ Requeue("class") /\ UNCHANGED <<gwJob, routeJob, routeQueue>>
     \/ c = "gw" /\ gwJob # Nil /\ gwJob' = Nil /\ Requeue("gw") /\ UNCHANGED <<classJob, routeJob, routeQueue>>
     \/ /\ c = "route" /\ routeJob # Nil /\ routeJob' = Nil /\ routeQueue' = routeQueue \cup {routeJob.name}
        /\ UNCHANGED <<classJob, gwJob, queue>>
  /\ UNCHANGED <<worldVars, snapshot, active>>

\* The manager starts anew: what was in memory is gone, every object is delivered.
Restart ==
  /\ Happens("restart")
  /\ cache' = api /\ routeCache' = route
  /\ queue' = active \cap ({c \in {"class"} : api["class"] # Nil} \cup {c \in {"gw", "xds"} : api["gw"] # Nil})
  /\ routeQueue' = {n \in RouteName : "route" \in active /\ route[n] # Nil}
  /\ classJob' = Nil /\ gwJob' = Nil /\ routeJob' = Nil /\ snapshot' = Nil
  /\ UNCHANGED <<api, route, xdsUp, uids, active>>

-----------------------------------------------------------------------------
(* What a controller with nothing to do has achieved *)

Intruder == [owner |-> Foreign, content |-> Nil, ready |-> FALSE]

\* The status of the Gateway that the objects call for.
desiredStatus(objects, routes) ==
  LET gw == objects["gw"]
      config == objects["config"]
      m == buildGateway(objects, routes)
      accepted == accept(m, objects["class"], config, gw)
      mine(o) == objects[o] # Nil /\ objects[o].owner = gw.uid
      envoy == mine("deploy") /\ mine("svc")
      programmed == IF envoy THEN envoyProgrammed(config, objects["deploy"].ready, objects["svc"].ready)
                    ELSE Condition(FALSE, "Invalid")
      tunnel == IF config.template = Nil THEN Condition(FALSE, "NotImplemented")
                ELSE IF mine("tunnel") THEN tunnelCondition(objects["tunnel"])
                ELSE Condition(FALSE, "Conflict")
  IN IF ~accepted.ok THEN statusOf(m, accepted, Condition(FALSE, "Invalid"), Nil, FALSE)
     ELSE statusOf(m, accepted, programmed, tunnel, envoy /\ objects["svc"].ready)

\* What the objects provisioned for the Gateway should hold.
desiredContent(o, objects, routes) ==
  LET m == buildGateway(objects, routes)
  IN CASE o = "deploy" -> mutateEnvoyDeployment(objects["config"])
       [] o = "svc"    -> mutateEnvoyService(m)
       [] o = "tunnel" -> tunnelSpec(m, objects["gw"], objects["config"], objects["svc"])

Fresh(w) == [o \in Object |->
  CASE o = "class" -> [NewClass("config") EXCEPT !.fin = TRUE,
                         !.accepted = IF Resolve(NewClass("config"), w.config) = "Resolved" THEN "Accepted" ELSE "InvalidParameters"]
    [] o = "gw"    -> NewGateway(1, w.gw)
    [] o \in {"config", "grants", "services", "secrets"} -> w[o]
    [] OTHER       -> Nil]

FreshRoutes(w) == [n \in RouteName |-> IF w.routes[n] = Nil THEN Nil ELSE NewRoute(w.routes[n])]

\* Everything that w calls for has been done.
ServedRoutes(w) == [n \in RouteName |->
  IF w.routes[n] = Nil THEN Nil
  ELSE [NewRoute(w.routes[n]) EXCEPT !.parents = parentStatuses(n, Fresh(w), FreshRoutes(w))]]

Served(w) ==
  LET r == FreshRoutes(w)
      object(o, objects) == [owner |-> 1, content |-> desiredContent(o, objects, r), ready |-> TRUE]
      envoy == [o \in Object |-> IF o \in {"deploy", "svc"} THEN object(o, Fresh(w)) ELSE Fresh(w)[o]]
      all == [envoy EXCEPT !["tunnel"] = IF w.config.template = Nil THEN Nil ELSE object("tunnel", envoy)]
  IN [all EXCEPT !["gw"].status = desiredStatus(all, r)]

\* The operator has served a world and just heard of the loss of some objects, or it has
\* yet to hear of its Gateway.
Init ==
  \E w \in Worlds :
    /\ api = IF w.served THEN [o \in Object |-> IF o \in w.lost THEN Nil ELSE Served(w)[o]] ELSE Fresh(w)
    /\ cache = IF w.served THEN api ELSE [api EXCEPT !["gw"] = Nil]
    /\ route = IF w.served THEN ServedRoutes(w) ELSE FreshRoutes(w)
    /\ routeCache = route
    /\ snapshot = desiredSnapshot(cache, routeCache)
    /\ xdsUp = TRUE /\ uids = 1 /\ active = w.active /\ outside = w.outside
    /\ queue = {c \in {"gw"} : w.lost # {}} /\ routeQueue = {}
    /\ classJob = Nil /\ gwJob = Nil /\ routeJob = Nil

Operator ==
  \/ ClassReconcile \/ ClassStatus
  \/ GatewayReconcile \/ ProvisionDeployment \/ ProvisionService \/ ProvisionTunnel \/ PatchGateway
  \/ \E n \in RouteName : RouteReconcile(n) \/ SyncRoute(n)
  \/ PatchRoute \/ XDSReconcile
  \/ \E o \in Object : Sync(o)

Cluster == CollectGateway \/ \E o \in Owned : Collect(o) \/ BecomesReady(o)

Outside ==
  \/ \E s \in GatewaySpecs : CreateGateway(s) \/ EditGateway(s)
  \/ \E f \in BOOLEAN : DeleteGateway(f)
  \/ \E p \in {"config", "absent"} : EditClass(p)
  \/ DeleteClass
  \/ \E c \in Configs : Change("config", c)
  \/ \E g \in Grants : Change("grants", g)
  \/ \E s \in Services : Change("services", s)
  \/ \E s \in Secrets : Change("secrets", s)
  \/ \E n \in RouteName : DeleteRoute(n) \/ OtherStatus(n) \/ \E s \in RouteSpecs : EditRoute(n, s)
  \/ \E o \in Owned : BecomesUnready(o) \/ \E v \in {Nil, Intruder} : Meddle(o, v)
  \/ XdsChanges \/ Restart
  \/ \E c \in {"class", "gw", "route"} : CallFails(c)

Next == Operator \/ Cluster \/ Outside

Spec == Init /\ [][Next]_vars

-----------------------------------------------------------------------------
(* Types *)

GatewayOK(g) ==
  g # Nil => /\ g.uid \in 1..MaxUid /\ g.deleting \in BOOLEAN
             /\ DOMAIN g.status = DOMAIN NoStatus /\ g.status.addresses \in BOOLEAN

OwnedOK(v) == v # Nil => v.owner \in 0..MaxUid /\ v.ready \in BOOLEAN

RouteOK(r) ==
  r # Nil => /\ r.deleting \in BOOLEAN
             /\ \A p, q \in r.parents : p.controller = q.controller /\ p.ref = q.ref => p = q

\* The variables hold what their comments say, and a route's status has at most one
\* entry per controller and parentRef, as the API has it.
TypeOK ==
  /\ DOMAIN api = Object /\ DOMAIN cache = Object
  /\ \A objects \in {api, cache} :
       /\ GatewayOK(objects["gw"]) /\ \A o \in Owned : OwnedOK(objects[o])
       /\ objects["class"] # Nil => objects["class"].accepted \in {Nil, "Accepted", "InvalidParameters"}
  /\ \A n \in RouteName : RouteOK(route[n]) /\ RouteOK(routeCache[n])
  /\ queue \subseteq {"class", "gw", "xds"} /\ routeQueue \subseteq RouteName
  /\ gwJob # Nil => gwJob.pc \in Owned \cup {"status"}
  /\ xdsUp \in BOOLEAN /\ uids \in 0..MaxUid
  /\ active \subseteq Controller /\ outside \subseteq EventKind

-----------------------------------------------------------------------------
(* Envoy and cloudflared, as far as they choose among what they are given *)

pathMatches(match, path) ==
  CASE match.type = "Exact"  -> path = match.path
    [] match.type = "Prefix" -> IsPrefix(match.path, path)
    [] match.type = "Regex"  -> /\ Len(path) = Len(match.path)
                                /\ \A i \in DOMAIN path : match.path[i] \in {"+", path[i]}

\* The most specific of a set of hostnames that covers host, as a set.
mostSpecific(hosts, host) ==
  LET covering == {h \in hosts : HostCovers(h, host)}
  IN {h \in covering : \A k \in covering \ {h} : moreSpecific(h, k)}

envoyChains(snap, q) ==
  LET all == UNION {l.chains : l \in {x \in snap.listeners : x.port = q.port /\ x.transport = "TCP"}}
  IN {c \in all : c.sni \in mostSpecific({d.sni : d \in all}, q.host)}

firstOf(entries) == {[name |-> e.name, rule |-> e.rule, index |-> e.index, action |-> e.action]
                     : e \in {f \in entries : ~\E d \in entries : before(d, f)}}

cloudflared(ingress, host, onPath) ==
  ingress[Min({i \in DOMAIN ingress : /\ ingress[i].hostname # Nil => HostCovers(ingress[i].hostname, host)
                                      /\ ingress[i].path => onPath})].service

-----------------------------------------------------------------------------
(* Properties *)

Idle == queue = {} /\ routeQueue = {} /\ classJob = Nil /\ gwJob = Nil /\ routeJob = Nil
Quiet == Idle /\ cache = api /\ routeCache = route

\* The Gateway reports an object in its way that has gone since: nothing tells it, as
\* the object had no owner.
Relieved(o) ==
  /\ api[o] = Nil
  /\ LET c == api["gw"].status.conditions
     IN c # Nil /\ (IF o = "tunnel" THEN c.tunnel = Condition(FALSE, "Conflict")
                    ELSE c.programmed = Condition(FALSE, "Invalid"))

GatewayCurrent ==
  LET gw == api["gw"]
      mine(o) == api[o] # Nil /\ api[o].owner = gw.uid
      accepted == gw.status.conditions.accepted.ok
  IN \/ \E o \in Owned : Relieved(o)
     \/ /\ gw.status = desiredStatus(api, route)
        /\ accepted => \A o \in Owned :
             (mine(o) /\ (o = "svc" => mine("deploy")) /\ (o = "tunnel" => api["config"].template # Nil))
             => api[o].content = desiredContent(o, api, route)

\* When no request waits and every cache has caught up, all that the controllers write
\* is what the objects call for now: the class's and the Gateway's conditions, the
\* objects provisioned, each route's entries and Envoy's configuration, whatever was
\* edited, deleted, lost or interrupted on the way.  The watches of four controllers
\* (gateway_watch.go, gatewayclass_handler.go) have to add up to it.
QuietMeansCurrent ==
  Quiet =>
    /\ "class" \in active /\ Ours(api) /\ ~api["class"].deleting =>
         api["class"].accepted = IF Resolve(api["class"], api["config"]) = "Resolved" THEN "Accepted" ELSE "InvalidParameters"
    /\ "gw" \in active /\ Ours(api) /\ api["gw"] # Nil /\ ~api["gw"].deleting => GatewayCurrent
    /\ \A n \in RouteName : "route" \in active /\ route[n] # Nil /\ ~route[n].deleting =>
         {p \in route[n].parents : p.controller = "ours"} = parentStatuses(n, api, route)
    /\ "xds" \in active => snapshot = desiredSnapshot(api, route)

Others(r) == IF r = Nil THEN {} ELSE {p \in r.parents : p.controller # "ours"}

\* Patching a route's status neither drops nor revives the entries of other
\* controllers, although the list is replaced whole (RouteReconciler.Reconcile).
ForeignStatusKept ==
  [][routeJob' # routeJob => \A n \in RouteName : Others(route'[n]) = Others(route[n])]_vars

\* No reconcile of a Gateway changes an object that this very Gateway does not control,
\* be it that the cache still shows the one it did control (ensureControlled).
ForeignObjectsUntouched ==
  [][gwJob # Nil /\ gwJob' # gwJob =>
       \A o \in Owned : api[o] # Nil /\ api[o].owner # gwJob.gw.uid => api'[o] = api[o]]_vars

\* Envoy is never told to bind one address for two ports of the Gateway, nor one of its
\* own, although privileged ports are moved (ContainerPort, markUnavailablePorts).
PortsDoNotClash ==
  snapshot # Nil =>
    \A l \in snapshot.listeners :
      /\ l.bound \notin {EnvoyAdminPort, EnvoyReadinessPort}
      /\ \A k \in snapshot.listeners \ {l} : <<k.bound, k.transport>> # <<l.bound, l.transport>>

\* The valid listener that a request belongs to: the most specific on its port.
OwnerOf(m, ids, host) ==
  CHOOSE i \in ids :
    /\ HostCovers(OrAny(m.listeners[i].spec.hostname), host)
    /\ \A j \in ids : HostCovers(OrAny(m.listeners[j].spec.hostname), host)
                      => ~moreSpecific(OrAny(m.listeners[j].spec.hostname), OrAny(m.listeners[i].spec.hostname))

\* What the routes of listener i say of a request: the first match by precedence, or the
\* backends of the oldest route with the most specific hostname.
MatchOf(m, i, q) ==
  firstOf({e \in entriesOf(m, {i}) : HostCovers(e.host, q.host) /\ pathMatches(e.match, q.path)})
ProxyOf(m, i, q) ==
  LET hosts == mostSpecific(UNION {hostsOn(a, i) : a \in m.routes}, q.host)
  IN {proxyTo(oldest({a \in m.routes : h \in hostsOn(a, i)})) : h \in hosts}

AnswersRight(m, snap, q) ==
  LET ids == {i \in ValidOnes(m.listeners) :
                m.listeners[i].spec.port = q.port /\ transport(m.listeners[i].spec.protocol) = "TCP"}
      covered == \E i \in ids : HostCovers(OrAny(m.listeners[i].spec.hostname), q.host)
      owner == OwnerOf(m, ids, q.host)
      http == m.listeners[owner].spec.protocol \in {"HTTP", "HTTPS"}
      chains == envoyChains(snap, q)
      domains == UNION {{<<c, h>> : h \in mostSpecific(DOMAIN c.vhosts, q.host)} : c \in chains}
  IN IF ~covered THEN \A d \in domains : d[1].vhosts[d[2]] = {}
     ELSE IF http
     THEN IF domains = {} THEN MatchOf(m, owner, q) = {}
          ELSE \A d \in domains :
                 OwnerOf(m, ids, d[2]) = owner
                 => firstOf({e \in d[1].vhosts[d[2]] : pathMatches(e.match, q.path)}) = MatchOf(m, owner, q)
     ELSE IF chains = {} THEN ProxyOf(m, owner, q) = {}
          ELSE \A c \in chains : OwnerOf(m, ids, c.sni) = owner => {c.clusters} = ProxyOf(m, owner, q)

\* With every snapshot it is given, Envoy answers a request with the first match, by
\* precedence, among the routes of the most specific listener that covers the host,
\* falling through to less specific hostnames (routeConfiguration, tlsListener).  One
\* case is left out, where the code does otherwise than the comment on
\* routeConfiguration: that listener has no route for the host, and a route of a less
\* specific listener with a wildcard hostname answers.
EnvoyServesRequest ==
  [][snapshot' \notin {snapshot, Nil} =>
       \A q \in Requests : AnswersRight(buildGateway(cache, routeCache), snapshot', q)]_vars

\* Where the tunnel should send a host: a hand-written rule, the valid listener with the
\* most specific public hostname (HTTP first, then the lower port), the catch-all.
TunnelTarget(m, gw, config, host, onPath) ==
  LET hand == config.template.ingress
      hits == {i \in DOMAIN hand : /\ hand[i].hostname # Nil \/ hand[i].path
                                   /\ hand[i].hostname # Nil => HostCovers(hand[i].hostname, host)
                                   /\ hand[i].path => onPath}
      ls == m.listeners
      public(i) == publicHost(ls[i], TunnelHostnames(gw.spec))
      best == mostSpecific({public(i) : i \in ValidOnes(ls)} \ {Nil}, host)
      claim == {i \in ValidOnes(ls) : public(i) \in best}
      open == {i \in ValidOnes(ls) : ls[i].spec.protocol = "HTTP" /\ ls[i].spec.hostname = Nil}
      first(S) == LET h == {i \in S : ls[i].spec.protocol = "HTTP"}
                      T == IF h # {} THEN h ELSE S
                      p == Min({ls[i].spec.port : i \in T})
                  IN [scheme |-> IF h # {} THEN "http" ELSE "tcp", port |-> p]
  IN IF hits # {} THEN hand[Min(hits)].service
     ELSE IF claim # {} THEN first(claim)
     ELSE IF open # {} THEN first(open) ELSE NotFound

\* With every configuration the tunnel is given, cloudflared, which takes the first
\* rule that matches, sends a host where TunnelTarget says (TunnelIngress).
TunnelReachesListener ==
  [][gwJob # Nil /\ gwJob' # gwJob /\ api'["tunnel"] \notin {api["tunnel"], Nil} =>
       \A q \in Requests, onPath \in BOOLEAN :
         cloudflared(api'["tunnel"].content.ingress, q.host, onPath)
         = TunnelTarget(gwJob.model, gwJob.gw, gwJob.config, q.host, onPath)]_vars
=============================================================================
