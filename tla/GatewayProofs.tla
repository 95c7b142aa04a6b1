---------------------------- MODULE GatewayProofs ----------------------------
(***************************************************************************)
(* Proofs about GatewayControllers and GatewayModel, for every set of      *)
(* worlds, specs, routes and Gateways.                                     *)
(***************************************************************************)
EXTENDS GatewayControllers, TLAPS

-----------------------------------------------------------------------------
(* The inductive invariant *)

GatewayFields == {"uid", "spec", "deleting", "status"}
StatusFields == {"conditions", "addresses", "listeners"}
ClassFields == {"ours", "params", "fin", "deleting", "accepted"}
OwnedFields == {"owner", "content", "ready"}
RouteFields == {"spec", "deleting", "parents"}
GwJobFields == {"pc", "gw", "model", "config", "accepted", "programmed", "addressed", "tunnel", "available"}

GwOK(g) ==
  g # Nil => /\ DOMAIN g = GatewayFields /\ PortsOK(g.spec)
             /\ g.uid \in 1..MaxUid /\ g.deleting \in BOOLEAN
             /\ DOMAIN g.status = StatusFields /\ g.status.addresses \in BOOLEAN

ClassOK(c) == c # Nil => DOMAIN c = ClassFields /\ c.accepted \in {Nil, "Accepted", "InvalidParameters"}

ThingOK(v) == v # Nil => DOMAIN v = OwnedFields /\ v.owner \in 0..MaxUid /\ v.ready \in BOOLEAN

\* At most one entry per controller and parentRef.
Single(ps) == \A p, q \in ps : p.controller = q.controller /\ p.ref = q.ref => p = q

RtOK(r) == r # Nil => DOMAIN r = RouteFields /\ r.deleting \in BOOLEAN /\ Single(r.parents)

ObjectsOK(objects) ==
  /\ DOMAIN objects = Object
  /\ GwOK(objects["gw"]) /\ ClassOK(objects["class"]) /\ \A o \in Owned : ThingOK(objects[o])

RoutesOK(routes) == DOMAIN routes = RouteName /\ \A n \in RouteName : RtOK(routes[n])

Theirs(ps) == {p \in ps : p.controller # "ours"}

\* The status that is about to be patched has the entries of others that were read.
RouteJobOK ==
  routeJob # Nil => /\ routeJob.name \in RouteName
                    /\ Single(routeJob.parents)
                    /\ routeJob.read # Nil
                    /\ Theirs(routeJob.parents) = Theirs(routeJob.read.parents)

GwJobOK ==
  gwJob # Nil => /\ DOMAIN gwJob = GwJobFields
                 /\ gwJob.pc \in Owned \cup {"status"}
                 /\ gwJob.gw # Nil /\ GwOK(gwJob.gw)
                 /\ gwJob.addressed \in BOOLEAN

TypeInv ==
  /\ ObjectsOK(api) /\ ObjectsOK(cache)
  /\ RoutesOK(route) /\ RoutesOK(routeCache)
  /\ ClassOK(classJob) /\ GwJobOK /\ RouteJobOK
  /\ queue \subseteq {"class", "gw", "xds"} /\ routeQueue \subseteq RouteName
  /\ xdsUp \in BOOLEAN /\ uids \in 0..MaxUid
  /\ active \subseteq Controller /\ outside \subseteq EventKind

-----------------------------------------------------------------------------
(* The ports of Envoy *)

\* An Envoy listener stands for a port and a transport of the valid listeners.
LEMMA SnapshotListeners ==
  ASSUME NEW m, NEW refs
  PROVE  LET ls == Snapshot(m, refs).listeners
         IN /\ \A l \in ls : \E i \in ValidOnes(m.listeners) :
                 /\ l.port = m.listeners[i].spec.port
                 /\ l.bound = ContainerPort(m.listeners[i].spec.port)
            /\ \A l, k \in ls : l.port = k.port /\ l.transport = k.transport => l = k
<1> DEFINE keyOf(i) == [port |-> m.listeners[i].spec.port, transport |-> transport(m.listeners[i].spec.protocol)]
           chains(k) == chainsOf(m, {i \in ValidOnes(m.listeners) : keyOf(i) = k})
           keys == {keyOf(i) : i \in ValidOnes(m.listeners)}
           made(k) == [port |-> k.port, transport |-> k.transport, bound |-> ContainerPort(k.port), chains |-> chains(k)]
           ls == {made(k) : k \in {j \in keys : chains(j) # {}}}
<1>1. Snapshot(m, refs).listeners = ls
  BY DEF Snapshot
<1>2. ASSUME NEW k \in keys
      PROVE  /\ k = [port |-> k.port, transport |-> k.transport]
             /\ \E i \in ValidOnes(m.listeners) : k.port = m.listeners[i].spec.port
  OBVIOUS
<1>3. ASSUME NEW j \in keys, NEW k \in keys, j.port = k.port, j.transport = k.transport
      PROVE  j = k
  BY <1>2, <1>3
<1>4. \A k \in keys : /\ made(k).port = k.port /\ made(k).transport = k.transport
                      /\ made(k).bound = ContainerPort(k.port)
  OBVIOUS
<1> HIDE DEF keys, made, chains
<1>5. QED
  BY <1>1, <1>2, <1>3, <1>4

\* A valid listener is bound to a port of its own.
LEMMA ValidPorts ==
  ASSUME NEW specs, NEW refs, \A j \in DOMAIN specs : specs[j].port \in Nat,
         NEW i \in ValidOnes(Listeners(specs, refs))
  PROVE  /\ i \in DOMAIN specs
         /\ Listeners(specs, refs)[i].spec = specs[i]
         /\ ContainerPort(specs[i].port) \notin {EnvoyAdminPort, EnvoyReadinessPort}
         /\ \A j \in DOMAIN specs :
              ContainerPort(specs[i].port) = specs[j].port => specs[j].port = specs[i].port
<1>1. i \in DOMAIN specs
  BY DEF ValidOnes, Listeners
<1>2. /\ Listeners(specs, refs)[i].spec = specs[i]
      /\ Listeners(specs, refs)[i].valid =>
           (IF portUnavailable(specs, i) THEN "PortUnavailable" ELSE acceptedReason(specs[i], refs)) = "Accepted"
  BY <1>1 DEF Listeners
<1>3. ~portUnavailable(specs, i)
  BY <1>2 DEF ValidOnes
<1>4. QED
  BY <1>1, <1>2, <1>3 DEF portUnavailable, ContainerPort

\* No snapshot of any Gateway binds an address twice.
LEMMA SnapshotPorts ==
  ASSUME NEW spec, PortsOK(spec), NEW routes, NEW refs, NEW refs2
  PROVE  \A l \in Snapshot(Build(spec, routes, refs), refs2).listeners :
           /\ l.bound \notin {EnvoyAdminPort, EnvoyReadinessPort}
           /\ \A k \in Snapshot(Build(spec, routes, refs), refs2).listeners \ {l} :
                <<k.bound, k.transport>> # <<l.bound, l.transport>>
<1> DEFINE m == Build(spec, routes, refs)
           specs == spec.listeners
<1>1. m.listeners = Listeners(specs, refs)
  BY DEF Build
<1>2. \A j \in DOMAIN specs : specs[j].port \in Nat
  BY DEF PortsOK
<1> HIDE DEF m
<1> SUFFICES ASSUME NEW l \in Snapshot(m, refs2).listeners
             PROVE  /\ l.bound \notin {EnvoyAdminPort, EnvoyReadinessPort}
                    /\ \A k \in Snapshot(m, refs2).listeners \ {l} :
                         <<k.bound, k.transport>> # <<l.bound, l.transport>>
  BY DEF m
<1> HIDE DEF specs
<1>3. ASSUME NEW x \in Snapshot(m, refs2).listeners
      PROVE  \E i \in ValidOnes(Listeners(specs, refs)) :
               /\ i \in DOMAIN specs /\ specs[i].port \in Nat
               /\ x.port = specs[i].port /\ x.bound = ContainerPort(specs[i].port)
               /\ ContainerPort(specs[i].port) \notin {EnvoyAdminPort, EnvoyReadinessPort}
               /\ \A j \in DOMAIN specs :
                    ContainerPort(specs[i].port) = specs[j].port => specs[j].port = specs[i].port
  <2>1. PICK i \in ValidOnes(m.listeners) : /\ x.port = m.listeners[i].spec.port
                                            /\ x.bound = ContainerPort(m.listeners[i].spec.port)
    BY SnapshotListeners
  <2>2. QED
    BY <1>1, <1>2, <2>1, ValidPorts
<1>4. l.bound \notin {EnvoyAdminPort, EnvoyReadinessPort}
  BY <1>3
<1>5. ASSUME NEW k \in Snapshot(m, refs2).listeners \ {l}, k.bound = l.bound, k.transport = l.transport
      PROVE  FALSE
  <2>1. PICK i \in DOMAIN specs : /\ l.port = specs[i].port /\ l.bound = ContainerPort(specs[i].port)
                                  /\ specs[i].port \in Nat
                                  /\ \A j \in DOMAIN specs :
                                       ContainerPort(specs[i].port) = specs[j].port => specs[j].port = specs[i].port
    BY <1>3
  <2>2. PICK j \in DOMAIN specs : /\ k.port = specs[j].port /\ k.bound = ContainerPort(specs[j].port)
                                  /\ specs[j].port \in Nat
                                  /\ \A h \in DOMAIN specs :
                                       ContainerPort(specs[j].port) = specs[h].port => specs[h].port = specs[j].port
    BY <1>3
  <2>3. ContainerPort(specs[i].port) = ContainerPort(specs[j].port)
    BY <1>5, <2>1, <2>2
  <2>4. specs[i].port = specs[j].port
    BY <2>1, <2>2, <2>3 DEF ContainerPort
  <2>5. QED
    BY <1>5, <2>1, <2>2, <2>4, SnapshotListeners
<1>6. QED
  BY <1>4, <1>5

-----------------------------------------------------------------------------
(* The status of a route *)

\* attach reports on the parentRef it is given.
LEMMA AttachRef ==
  ASSUME NEW r, NEW ref, NEW ls, NEW refs
  PROVE  attach(r, ref, ls, refs).ref = ref
BY DEF attach

\* The entries a route should report are the operator's, one per parentRef.
LEMMA OwnEntries ==
  ASSUME NEW n, NEW objects, NEW routes
  PROVE  /\ \A p \in parentStatuses(n, objects, routes) : p.controller = "ours"
         /\ Single(parentStatuses(n, objects, routes))
<1> DEFINE spec == objects["gw"].spec
           live == liveRoutes(routes)
           refs == refsOf(objects)
           ls == Listeners(spec.listeners, refs)
           made(k) == LET r == routeOf(live[k])
                      IN [name |-> k, route |-> r,
                          parents |-> {attach(r, ref, ls, refs) : ref \in {p \in r.parentRefs : targets(p)}},
                          backends |-> resolveBackends(r, refs), resolved |-> resolvedRefs(r, refs)]
           named == {k \in DOMAIN live : RefersTo(live[k])}
           mine == {a \in {made(k) : k \in named} : a.name = n}
           entry(a, p) == [controller |-> "ours", ref |-> p.ref, accepted |-> p.accepted, resolved |-> a.resolved]
           P == parentStatuses(n, objects, routes)
<1>1. CASE objects["gw"] = Nil \/ ~Ours(objects)
  BY <1>1 DEF parentStatuses, Single
<1>2. CASE ~(objects["gw"] = Nil \/ ~Ours(objects))
  <2>1. buildGateway(objects, routes).routes = {made(k) : k \in named}
    BY DEF buildGateway, Build
  <2>2. P = UNION {{entry(a, p) : p \in a.parents} : a \in mine}
    BY <1>2, <2>1 DEF parentStatuses
  <2>3. \A a \in mine : a = made(n)
    OBVIOUS
  <2>4. \A p, q \in made(n).parents : p.ref = q.ref => p = q
    BY AttachRef
  <2> HIDE DEF mine, made, P
  <2>5. \A x \in P : \E p \in made(n).parents : x = entry(made(n), p)
    BY <2>2, <2>3
  <2>6. QED
    BY <2>4, <2>5 DEF Single, P
<1>3. QED
  BY <1>1, <1>2

\* So the merged list has at most one entry per controller and parentRef and leaves
\* the others' entries as they were.
LEMMA Merged ==
  ASSUME NEW ps, Single(ps), NEW n, NEW objects, NEW routes
  PROVE  LET merged == mergeParents(ps, parentStatuses(n, objects, routes))
         IN Single(merged) /\ Theirs(merged) = Theirs(ps)
<1> DEFINE own == parentStatuses(n, objects, routes)
<1>1. (\A p \in own : p.controller = "ours") /\ Single(own)
  BY OwnEntries
<1> HIDE DEF own
<1>2. Single(mergeParents(ps, own))
  BY <1>1 DEF Single, mergeParents
<1>3. Theirs(mergeParents(ps, own)) = Theirs(ps)
  BY <1>1 DEF Theirs, mergeParents
<1>4. QED
  BY <1>2, <1>3 DEF own

-----------------------------------------------------------------------------
(* Types: the initial states *)

LEMMA ObjectNames ==
  /\ "gw" \in Object /\ "class" \in Object /\ Owned \subseteq Object /\ "config" \in Object
  /\ "gw" \notin Owned /\ "class" \notin Owned /\ "config" \notin Owned
  /\ 1 \in 1..MaxUid /\ Foreign \in 0..MaxUid /\ MaxUid \in Nat
BY ConstantsAssumption DEF Object, Owned, Foreign

\* Putting a good object in its place keeps the objects good.
LEMMA PutObject ==
  ASSUME NEW objects, ObjectsOK(objects), NEW o \in Object, NEW v,
         o = "gw" => GwOK(v), o = "class" => ClassOK(v), o \in Owned => ThingOK(v)
  PROVE  ObjectsOK([objects EXCEPT ![o] = v])
<1>1. /\ DOMAIN [objects EXCEPT ![o] = v] = Object
      /\ [objects EXCEPT ![o] = v][o] = v
      /\ \A p \in Object : p # o => [objects EXCEPT ![o] = v][p] = objects[p]
  BY DEF ObjectsOK
<1>2. QED
  BY <1>1, ObjectNames DEF ObjectsOK

LEMMA PutRoute ==
  ASSUME NEW routes, RoutesOK(routes), NEW n \in RouteName, NEW r, RtOK(r)
  PROVE  RoutesOK([routes EXCEPT ![n] = r])
BY DEF RoutesOK

\* A status made by the code has its fields.
LEMMA StatusFieldsOK ==
  ASSUME NEW m, NEW a, NEW p, NEW tn, NEW b
  PROVE  /\ DOMAIN statusOf(m, a, p, tn, b) = StatusFields
         /\ statusOf(m, a, p, tn, b).addresses = b
BY DEF statusOf, StatusFields

LEMMA NewGatewayOK ==
  ASSUME NEW u \in 1..MaxUid, NEW spec, PortsOK(spec)
  PROVE  GwOK(NewGateway(u, spec))
BY DEF GwOK, NewGateway, GatewayFields, NoStatus, StatusFields

LEMMA NewClassOK ==
  ASSUME NEW params
  PROVE  ClassOK(NewClass(params)) /\ NewClass(params).accepted = Nil
         /\ DOMAIN NewClass(params) = ClassFields
BY DEF ClassOK, NewClass, ClassFields

LEMMA NewRouteOK ==
  ASSUME NEW spec
  PROVE  /\ RtOK(NewRoute(spec)) /\ DOMAIN NewRoute(spec) = RouteFields
         /\ NewRoute(spec).parents = {} /\ NewRoute(spec).deleting = FALSE
BY DEF RtOK, NewRoute, RouteFields, Single

LEMMA FreshOK ==
  ASSUME NEW w \in Worlds
  PROVE  ObjectsOK(Fresh(w)) /\ Fresh(w)["gw"] = NewGateway(1, w.gw)
<1>1. /\ DOMAIN Fresh(w) = Object
      /\ Fresh(w)["gw"] = NewGateway(1, w.gw)
      /\ \A o \in Owned : Fresh(w)[o] = Nil
  BY ObjectNames DEF Fresh, Owned
<1> DEFINE acc == IF Resolve(NewClass("config"), w.config) = "Resolved" THEN "Accepted" ELSE "InvalidParameters"
<1>2. Fresh(w)["class"] = [NewClass("config") EXCEPT !.fin = TRUE, !.accepted = acc]
  BY ObjectNames DEF Fresh
<1>3. acc \in {"Accepted", "InvalidParameters"}
  OBVIOUS
<1> HIDE DEF acc
<1>4. ClassOK(Fresh(w)["class"])
  BY <1>2, <1>3, NewClassOK DEF ClassOK, ClassFields
<1>5. GwOK(NewGateway(1, w.gw))
  BY NewGatewayOK, ObjectNames, WorldsAssumption
<1>6. QED
  BY <1>1, <1>4, <1>5 DEF ObjectsOK, ThingOK

LEMMA FreshRoutesOK ==
  ASSUME NEW w \in Worlds
  PROVE  RoutesOK(FreshRoutes(w)) /\ RoutesOK(ServedRoutes(w))
<1>1. RoutesOK(FreshRoutes(w))
  BY NewRouteOK DEF RoutesOK, FreshRoutes, RtOK
<1>2. ASSUME NEW n \in RouteName PROVE RtOK(ServedRoutes(w)[n])
  <2> DEFINE ps == parentStatuses(n, Fresh(w), FreshRoutes(w))
  <2>1. Single(ps)
    BY OwnEntries
  <2> HIDE DEF ps
  <2>2. ServedRoutes(w)[n] = IF w.routes[n] = Nil THEN Nil ELSE [NewRoute(w.routes[n]) EXCEPT !.parents = ps]
    BY DEF ServedRoutes, ps
  <2>3. QED
    BY <2>1, <2>2, NewRouteOK DEF RtOK, RouteFields
<1>3. DOMAIN ServedRoutes(w) = RouteName
  BY DEF ServedRoutes
<1>4. QED
  BY <1>1, <1>2, <1>3 DEF RoutesOK

LEMMA ServedOK ==
  ASSUME NEW w \in Worlds
  PROVE  ObjectsOK(Served(w))
<1> DEFINE r == FreshRoutes(w)
           thing(o, objects) == [owner |-> 1, content |-> desiredContent(o, objects, r), ready |-> TRUE]
           envoy == [o \in Object |-> IF o \in {"deploy", "svc"} THEN thing(o, Fresh(w)) ELSE Fresh(w)[o]]
           tn == IF w.config.template = Nil THEN Nil ELSE thing("tunnel", envoy)
           all == [envoy EXCEPT !["tunnel"] = tn]
<1>1. \A o, objects : ThingOK(thing(o, objects))
  BY ObjectNames DEF ThingOK, OwnedFields
<1> HIDE DEF thing
<1>2. DOMAIN envoy = Object /\ \A o \in Object : envoy[o] = IF o \in {"deploy", "svc"} THEN thing(o, Fresh(w)) ELSE Fresh(w)[o]
  OBVIOUS
<1>3. ObjectsOK(envoy) /\ envoy["gw"] = NewGateway(1, w.gw)
  BY <1>1, <1>2, FreshOK, ObjectNames DEF ObjectsOK
<1> HIDE DEF envoy
<1>4. ThingOK(tn)
  BY <1>1 DEF ThingOK
<1> HIDE DEF tn
<1>5. ObjectsOK(all) /\ all["gw"] = NewGateway(1, w.gw) /\ all["svc"] = envoy["svc"]
  <2>1. "tunnel" \in Object /\ "tunnel" \in Owned /\ "svc" \in Object
    BY DEF Object, Owned
  <2>2. QED
    BY <1>3, <1>4, <2>1, PutObject, ObjectNames DEF ObjectsOK
<1>6. all["svc"].ready = TRUE
  BY <1>2, <1>5, ObjectNames DEF thing, Owned
<1> HIDE DEF all
<1>7. DOMAIN desiredStatus(all, r) = StatusFields /\ desiredStatus(all, r).addresses \in BOOLEAN
  <2> DEFINE gw == all["gw"]
             m == buildGateway(all, r)
             acc == accept(m, all["class"], all["config"], gw)
             mine(o) == all[o] # Nil /\ all[o].owner = gw.uid
             ey == mine("deploy") /\ mine("svc")
             programmed == IF ey THEN envoyProgrammed(all["config"], all["deploy"].ready, all["svc"].ready)
                           ELSE Condition(FALSE, "Invalid")
             tunnel == IF all["config"].template = Nil THEN Condition(FALSE, "NotImplemented")
                       ELSE IF mine("tunnel") THEN tunnelCondition(all["tunnel"])
                       ELSE Condition(FALSE, "Conflict")
             addr == ey /\ all["svc"].ready
  <2>1. desiredStatus(all, r) = IF ~acc.ok THEN statusOf(m, acc, Condition(FALSE, "Invalid"), Nil, FALSE)
                                ELSE statusOf(m, acc, programmed, tunnel, addr)
    BY Zenon DEF desiredStatus
  <2>2. addr \in BOOLEAN
    BY <1>6
  <2> HIDE DEF acc, programmed, tunnel, addr, m
  <2>3. CASE acc.ok
    <3>1. desiredStatus(all, r) = statusOf(m, acc, programmed, tunnel, addr)
      BY <2>1, <2>3
    <3>2. QED
      BY <2>2, <3>1, StatusFieldsOK
  <2>4. CASE ~acc.ok
    <3>1. desiredStatus(all, r) = statusOf(m, acc, Condition(FALSE, "Invalid"), Nil, FALSE)
      BY <2>1, <2>4
    <3>2. QED
      BY <3>1 DEF statusOf, StatusFields
  <2>5. QED
    BY <2>3, <2>4
<1> DEFINE st == desiredStatus(all, r)
           g == [NewGateway(1, w.gw) EXCEPT !.status = st]
<1>8. Served(w) = [all EXCEPT !["gw"].status = st]
  BY Zenon DEF Served, all, envoy, tn, thing
<1> HIDE DEF st
<1>9. Served(w) = [all EXCEPT !["gw"] = g]
  BY <1>5, <1>8, ObjectNames DEF ObjectsOK
<1>10. DOMAIN g = GatewayFields /\ g.uid = 1 /\ g.spec = w.gw /\ g.deleting = FALSE /\ g.status = st
  BY DEF NewGateway, GatewayFields
<1> HIDE DEF g
<1>11. GwOK(g)
  BY <1>7, <1>10, ObjectNames, WorldsAssumption DEF GwOK, st
<1>12. ObjectsOK([all EXCEPT !["gw"] = g])
  BY <1>5, <1>11, PutObject, ObjectNames
<1>13. QED
  BY <1>9, <1>12

LEMMA InitTypes == ASSUME Init PROVE TypeInv
<1>1. PICK w \in Worlds :
        /\ api = IF w.served THEN [o \in Object |-> IF o \in w.lost THEN Nil ELSE Served(w)[o]] ELSE Fresh(w)
        /\ cache = IF w.served THEN api ELSE [api EXCEPT !["gw"] = Nil]
        /\ route = IF w.served THEN ServedRoutes(w) ELSE FreshRoutes(w)
        /\ routeCache = route
        /\ snapshot = desiredSnapshot(cache, routeCache)
        /\ xdsUp = TRUE /\ uids = 1 /\ active = w.active /\ outside = w.outside
        /\ queue = {c \in {"gw"} : w.lost # {}} /\ routeQueue = {}
        /\ classJob = Nil /\ gwJob = Nil /\ routeJob = Nil
  BY DEF Init
<1>2. ObjectsOK(api)
  <2> DEFINE kept == [o \in Object |-> IF o \in w.lost THEN Nil ELSE Served(w)[o]]
  <2>1. ObjectsOK(kept)
    BY ServedOK, ObjectNames DEF ObjectsOK, GwOK, ClassOK, ThingOK
  <2>2. QED
    BY <1>1, <2>1, FreshOK
<1>3. ObjectsOK(cache)
  BY <1>1, <1>2, PutObject, ObjectNames DEF GwOK
<1>4. RoutesOK(route)
  BY <1>1, FreshRoutesOK
<1>5. QED
  BY <1>1, <1>2, <1>3, <1>4, WorldsAssumption, ObjectNames DEF TypeInv, ClassOK, GwJobOK, RouteJobOK

-----------------------------------------------------------------------------
(* Types: the steps *)

\* What ensureControlled comes to: a write only where there is nothing or the object is
\* controlled by the Gateway, and unchanged since it was read.
LEMMA EnsuredCases ==
  ASSUME TypeInv, NEW o \in Owned, NEW u \in 1..MaxUid, NEW content
  PROVE  LET e == Ensured(o, u, content)
         IN /\ e.outcome \in {"written", "same"} => ThingOK(e.object) /\ e.object.ready \in BOOLEAN
            /\ e.outcome = "written" => api[o] = Nil \/ api[o].owner = u
<1> DEFINE c == cache[o]
           new == [c EXCEPT !.content = content]
           made == [owner |-> u, content |-> content, ready |-> FALSE]
           result(outcome, object) == [outcome |-> outcome, object |-> object]
<1>1. ThingOK(c)
  BY DEF TypeInv, ObjectsOK
<1>2. c # Nil => ThingOK(new) /\ new.ready \in BOOLEAN
  BY <1>1 DEF ThingOK, OwnedFields
<1>3. u \in 0..MaxUid
  BY ObjectNames
<1>4. ThingOK(made) /\ made.ready \in BOOLEAN
  BY <1>3 DEF ThingOK, OwnedFields
<1>5. c # Nil => c.ready \in BOOLEAN
  BY <1>1 DEF ThingOK
<1>6. CASE c = Nil /\ api[o] = Nil
  <2>1. Ensured(o, u, content) = result("written", made)
    BY <1>6 DEF Ensured
  <2> HIDE DEF made
  <2>2. QED
    BY <1>4, <1>6, <2>1
<1>7. CASE c = Nil /\ api[o] # Nil
  <2>1. Ensured(o, u, content) = result("error", Nil)
    BY <1>7 DEF Ensured
  <2>2. QED
    BY <2>1
<1>8. CASE c # Nil /\ c.owner # u
  <2>1. Ensured(o, u, content) = result("notControlled", Nil)
    BY <1>8 DEF Ensured
  <2>2. QED
    BY <2>1
<1>9. CASE c # Nil /\ c.owner = u /\ c = new
  <2>1. Ensured(o, u, content) = result("same", c)
    BY <1>9 DEF Ensured
  <2>2. QED
    BY <1>1, <1>5, <1>9, <2>1
<1>10. CASE c # Nil /\ c.owner = u /\ c # new /\ c # api[o]
  <2>1. Ensured(o, u, content) = result("error", Nil)
    BY <1>10 DEF Ensured
  <2>2. QED
    BY <2>1
<1>11. CASE c # Nil /\ c.owner = u /\ c # new /\ c = api[o]
  <2>1. Ensured(o, u, content) = result("written", new)
    BY <1>11 DEF Ensured
  <2> HIDE DEF new
  <2>2. QED
    BY <1>2, <1>11, <2>1
<1>12. QED
  BY <1>6, <1>7, <1>8, <1>9, <1>10, <1>11

LEMMA EnsuredOutcomes ==
  ASSUME NEW o, NEW u, NEW content
  PROVE  Ensured(o, u, content).outcome \in {"written", "same", "error", "notControlled"}
BY DEF Ensured

\* The job that Goes leaves, and the one with the Deployment done.
LEMMA JobGoes ==
  ASSUME TypeInv, gwJob # Nil, NEW pc \in Owned \cup {"status"}, NEW p, NEW b \in BOOLEAN, NEW tn,
         Goes(pc, p, b, tn)
  PROVE  GwJobOK' /\ gwJob'.gw = gwJob.gw
<1>1. DOMAIN gwJob = GwJobFields /\ gwJob.gw # Nil /\ GwOK(gwJob.gw)
  BY DEF TypeInv, GwJobOK
<1>2. DOMAIN gwJob' = GwJobFields /\ gwJob'.pc = pc /\ gwJob'.addressed = b /\ gwJob'.gw = gwJob.gw
  BY <1>1 DEF Goes, GwJobFields
<1>3. QED
  BY <1>1, <1>2 DEF GwJobOK

\* The calls of ensureControlled in a row: what each writes and what it leaves.
Provisioned(o) ==
  /\ \/ api' = api
     \/ \E v : /\ ThingOK(v) /\ (api[o] = Nil \/ api[o].owner = gwJob.gw.uid)
               /\ api' = [api EXCEPT ![o] = v]
  /\ gwJob' = Nil \/ (GwJobOK' /\ gwJob'.gw = gwJob.gw)
  /\ queue' \in {queue, queue \cup {"gw"}}

LEMMA DeploymentEffect == ASSUME TypeInv, ProvisionDeployment PROVE Provisioned("deploy")
<1> DEFINE e == Ensured("deploy", gwJob.gw.uid, mutateEnvoyDeployment(gwJob.config))
<1>0. gwJob # Nil /\ gwJob.gw.uid \in 1..MaxUid /\ "deploy" \in Owned /\ {"svc", "tunnel"} \subseteq Owned
  BY DEF ProvisionDeployment, TypeInv, GwJobOK, GwOK, Owned
<1>1. /\ e.outcome \in {"written", "same"} => ThingOK(e.object) /\ e.object.ready \in BOOLEAN
      /\ e.outcome = "written" => api["deploy"] = Nil \/ api["deploy"].owner = gwJob.gw.uid
  BY <1>0, EnsuredCases
<1>2. CASE ~xdsUp
  <2>1. Goes("tunnel", Condition(FALSE, "Pending"), FALSE, Nil) /\ Requeue("gw") /\ api' = api
    BY <1>2 DEF ProvisionDeployment
  <2>2. GwJobOK' /\ gwJob'.gw = gwJob.gw
    BY <1>0, <2>1, JobGoes
  <2>3. QED
    BY <2>1, <2>2 DEF Provisioned, Requeue
<1>3. CASE xdsUp
  <2>1. /\ CASE e.outcome = "error" -> gwJob' = Nil /\ Requeue("gw")
             [] e.outcome = "notControlled" -> Goes("tunnel", Condition(FALSE, "Invalid"), FALSE, Nil) /\ UNCHANGED queue
             [] OTHER -> gwJob' = [gwJob EXCEPT !.pc = "svc", !.available = e.object.ready] /\ UNCHANGED queue
        /\ IF e.outcome = "written" THEN Write("deploy", e.object) ELSE UNCHANGED api
    BY <1>3 DEF ProvisionDeployment, Ensure
  <2> HIDE DEF e
  <2>2. api' = api \/ \E v : /\ ThingOK(v) /\ (api["deploy"] = Nil \/ api["deploy"].owner = gwJob.gw.uid)
                             /\ api' = [api EXCEPT !["deploy"] = v]
    BY <1>1, <2>1 DEF Write
  <2>3. CASE e.outcome = "error"
    BY <2>1, <2>2, <2>3 DEF Provisioned, Requeue
  <2>4. CASE e.outcome = "notControlled"
    <3>1. GwJobOK' /\ gwJob'.gw = gwJob.gw
      BY <1>0, <2>1, <2>4, JobGoes
    <3>2. QED
      BY <2>1, <2>2, <2>4, <3>1 DEF Provisioned
  <2>5. CASE e.outcome \notin {"error", "notControlled"}
    <3>1. gwJob' = [gwJob EXCEPT !.pc = "svc", !.available = e.object.ready] /\ UNCHANGED queue
      BY <2>1, <2>5
    <3>2. DOMAIN gwJob = GwJobFields /\ gwJob.gw # Nil /\ GwOK(gwJob.gw) /\ gwJob.addressed \in BOOLEAN
      BY <1>0 DEF TypeInv, GwJobOK
    <3>3. /\ DOMAIN gwJob' = GwJobFields /\ gwJob'.pc = "svc" /\ gwJob'.gw = gwJob.gw
          /\ gwJob'.addressed = gwJob.addressed
      BY <3>1, <3>2 DEF GwJobFields
    <3>4. QED
      BY <1>0, <2>2, <3>1, <3>2, <3>3 DEF Provisioned, GwJobOK
  <2>6. QED
    BY <2>3, <2>4, <2>5
<1>4. QED
  BY <1>2, <1>3

LEMMA ServiceEffect == ASSUME TypeInv, ProvisionService PROVE Provisioned("svc")
<1> DEFINE e == Ensured("svc", gwJob.gw.uid, mutateEnvoyService(gwJob.model))
           prog == envoyProgrammed(gwJob.config, gwJob.available, e.object.ready)
<1>0. gwJob # Nil /\ gwJob.gw.uid \in 1..MaxUid /\ "svc" \in Owned /\ "tunnel" \in Owned
  BY DEF ProvisionService, TypeInv, GwJobOK, GwOK, Owned
<1>1. /\ e.outcome \in {"written", "same", "error", "notControlled"}
      /\ e.outcome \in {"written", "same"} => ThingOK(e.object) /\ e.object.ready \in BOOLEAN
      /\ e.outcome = "written" => api["svc"] = Nil \/ api["svc"].owner = gwJob.gw.uid
  BY <1>0, EnsuredCases, EnsuredOutcomes
<1>2. /\ CASE e.outcome = "error" -> gwJob' = Nil /\ Requeue("gw")
           [] e.outcome = "notControlled" -> Goes("tunnel", Condition(FALSE, "Invalid"), FALSE, Nil) /\ UNCHANGED queue
           [] OTHER -> Goes("tunnel", prog, e.object.ready, Nil) /\ UNCHANGED queue
      /\ IF e.outcome = "written" THEN Write("svc", e.object) ELSE UNCHANGED api
  BY DEF ProvisionService, Ensure
<1> HIDE DEF e, prog
<1>3. api' = api \/ \E v : /\ ThingOK(v) /\ (api["svc"] = Nil \/ api["svc"].owner = gwJob.gw.uid)
                           /\ api' = [api EXCEPT !["svc"] = v]
  BY <1>1, <1>2 DEF Write
<1>4. CASE e.outcome = "error"
  BY <1>2, <1>3, <1>4 DEF Provisioned, Requeue
<1>5. CASE e.outcome = "notControlled"
  <2>1. GwJobOK' /\ gwJob'.gw = gwJob.gw
    BY <1>0, <1>2, <1>5, JobGoes
  <2>2. QED
    BY <1>2, <1>3, <1>5, <2>1 DEF Provisioned
<1>6. CASE e.outcome \notin {"error", "notControlled"}
  <2>1. Goes("tunnel", prog, e.object.ready, Nil) /\ UNCHANGED queue
    BY <1>2, <1>6
  <2>2. e.object.ready \in BOOLEAN
    BY <1>1, <1>6
  <2>3. GwJobOK' /\ gwJob'.gw = gwJob.gw
    BY <1>0, <2>1, <2>2, JobGoes
  <2>4. QED
    BY <1>3, <2>1, <2>3 DEF Provisioned
<1>7. QED
  BY <1>4, <1>5, <1>6

LEMMA TunnelEffect == ASSUME TypeInv, ProvisionTunnel PROVE Provisioned("tunnel")
<1> DEFINE e == Ensured("tunnel", gwJob.gw.uid, tunnelSpec(gwJob.model, gwJob.gw, gwJob.config, cache["svc"]))
<1>0. /\ gwJob # Nil /\ gwJob.gw.uid \in 1..MaxUid /\ "tunnel" \in Owned
      /\ gwJob.addressed \in BOOLEAN
  BY DEF ProvisionTunnel, TypeInv, GwJobOK, GwOK, Owned
<1>1. /\ e.outcome \in {"written", "same"} => ThingOK(e.object)
      /\ e.outcome = "written" => api["tunnel"] = Nil \/ api["tunnel"].owner = gwJob.gw.uid
  BY <1>0, EnsuredCases
<1>2. CASE gwJob.config.template = Nil
  <2>1. /\ Goes("status", gwJob.programmed, gwJob.addressed, Condition(FALSE, "NotImplemented"))
        /\ UNCHANGED <<queue, api>>
    BY <1>2 DEF ProvisionTunnel
  <2>2. GwJobOK' /\ gwJob'.gw = gwJob.gw
    BY <1>0, <2>1, JobGoes
  <2>3. QED
    BY <2>1, <2>2 DEF Provisioned
<1>3. CASE gwJob.config.template # Nil
  <2> DEFINE with(tunnel) == Goes("status", gwJob.programmed, gwJob.addressed, tunnel)
  <2>1. /\ CASE e.outcome = "error" -> gwJob' = Nil /\ Requeue("gw")
             [] e.outcome = "notControlled" -> with(Condition(FALSE, "Conflict")) /\ UNCHANGED queue
             [] OTHER -> with(tunnelCondition(e.object)) /\ UNCHANGED queue
        /\ IF e.outcome = "written" THEN Write("tunnel", e.object) ELSE UNCHANGED api
    BY <1>3 DEF ProvisionTunnel, Ensure
  <2> HIDE DEF e
  <2>2. api' = api \/ \E v : /\ ThingOK(v) /\ (api["tunnel"] = Nil \/ api["tunnel"].owner = gwJob.gw.uid)
                             /\ api' = [api EXCEPT !["tunnel"] = v]
    BY <1>1, <2>1 DEF Write
  <2>3. CASE e.outcome = "error"
    BY <2>1, <2>2, <2>3 DEF Provisioned, Requeue
  <2>4. CASE e.outcome # "error"
    <3>1. UNCHANGED queue /\ (with(Condition(FALSE, "Conflict")) \/ with(tunnelCondition(e.object)))
      BY <2>1, <2>4
    <3>2. GwJobOK' /\ gwJob'.gw = gwJob.gw
      BY <1>0, <3>1, JobGoes
    <3>3. QED
      BY <2>2, <3>1, <3>2 DEF Provisioned
  <2>5. QED
    BY <2>3, <2>4
<1>4. QED
  BY <1>2, <1>3

LEMMA ClassType == ASSUME TypeInv, ClassReconcile \/ ClassStatus PROVE TypeInv'
<1>1. /\ ClassOK(cache["class"]) /\ ClassOK(api["class"]) /\ ClassOK(classJob) /\ "class" \in Object
      /\ "class" # "gw" /\ "class" \notin Owned
  BY ObjectNames DEF TypeInv, ObjectsOK
<1>2. ASSUME NEW c, c # Nil, ClassOK(c) PROVE ClassOK([c EXCEPT !.fin = TRUE])
  BY <1>2 DEF ClassOK, ClassFields
<1>3. ASSUME NEW c, c # Nil, ClassOK(c), NEW a \in {"Accepted", "InvalidParameters"}
      PROVE  ClassOK([c EXCEPT !.accepted = a])
  BY <1>3 DEF ClassOK, ClassFields
<1>4. ASSUME NEW v, ClassOK(v), Write("class", v) PROVE ObjectsOK(api')
  <2>1. ObjectsOK([api EXCEPT !["class"] = v])
    BY <1>1, <1>4, PutObject DEF TypeInv
  <2>2. QED
    BY <1>4, <2>1 DEF Write
<1>5. CASE ClassReconcile
  <2> DEFINE class == cache["class"]
  <2>1. /\ UNCHANGED <<cache, route, routeCache, xdsUp, uids, routeQueue, gwJob, routeJob, snapshot, active, outside>>
        /\ queue' \in {queue, queue \ {"class"}}
    BY <1>5 DEF ClassReconcile
  <2>2. \/ api' = api
        \/ class # Nil /\ Write("class", [class EXCEPT !.fin = TRUE])
        \/ Write("class", Nil)
    BY <1>5 DEF ClassReconcile, Ours
  <2>3. classJob' = classJob \/ (class # Nil /\ classJob' = [class EXCEPT !.fin = TRUE])
    BY <1>5 DEF ClassReconcile, Ours
  <2> HIDE DEF class
  <2>4. ObjectsOK(api')
    BY <1>1, <1>2, <1>4, <2>2 DEF TypeInv, ClassOK, class
  <2>5. ClassOK(classJob)'
    BY <1>1, <1>2, <2>3 DEF class, ClassOK
  <2>6. QED
    BY <2>1, <2>4, <2>5 DEF TypeInv, GwJobOK, RouteJobOK
<1>6. CASE ClassStatus
  <2> DEFINE a == IF Resolve(classJob, cache["config"]) = "Resolved" THEN "Accepted" ELSE "InvalidParameters"
  <2>1. /\ UNCHANGED <<cache, route, routeCache, xdsUp, uids, routeQueue, gwJob, routeJob, snapshot, active, outside>>
        /\ queue' \in {queue, queue \cup {"class"}} /\ classJob' = Nil
    BY <1>6 DEF ClassStatus, Requeue
  <2>2. api' = api \/ (api["class"] # Nil /\ Write("class", [api["class"] EXCEPT !.accepted = a]))
    BY <1>6 DEF ClassStatus
  <2>3. a \in {"Accepted", "InvalidParameters"}
    OBVIOUS
  <2> HIDE DEF a
  <2>4. ObjectsOK(api')
    BY <1>1, <1>3, <1>4, <2>2, <2>3 DEF TypeInv
  <2>5. QED
    BY <2>1, <2>4 DEF TypeInv, GwJobOK, RouteJobOK, ClassOK
<1>7. QED
  BY <1>5, <1>6

LEMMA GatewayType ==
  ASSUME TypeInv, GatewayReconcile \/ ProvisionDeployment \/ ProvisionService \/ ProvisionTunnel \/ PatchGateway
  PROVE  TypeInv'
<1>1. UNCHANGED <<cache, route, routeCache, xdsUp, uids, routeQueue, classJob, routeJob, snapshot, active, outside>>
  BY DEF GatewayReconcile, ProvisionDeployment, ProvisionService, ProvisionTunnel, PatchGateway, gwFrame
<1>2. ASSUME ObjectsOK(api'), GwJobOK', queue' \subseteq {"class", "gw", "xds"} PROVE TypeInv'
  BY <1>1, <1>2 DEF TypeInv, RouteJobOK
<1>3. CASE GatewayReconcile
  <2>1. queue' = queue \ {"gw"} /\ api' = api
    BY <1>3 DEF GatewayReconcile
  <2> DEFINE gw == cache["gw"]
             m == buildGateway(cache, routeCache)
             acc == accept(m, cache["class"], cache["config"], gw)
             job == [pc |-> IF acc.ok THEN "deploy" ELSE "status", gw |-> gw, model |-> m,
                     config |-> cache["config"], accepted |-> acc,
                     programmed |-> Condition(FALSE, "Invalid"), addressed |-> FALSE,
                     tunnel |-> Nil, available |-> FALSE]
  <2>2. gwJob' = gwJob \/ (gw # Nil /\ gwJob' = job)
    BY <1>3 DEF GatewayReconcile
  <2>3. GwOK(gw)
    BY DEF TypeInv, ObjectsOK
  <2> HIDE DEF gw, m, acc
  <2>4. GwJobOK'
    <3>1. CASE gwJob' = gwJob
      BY <3>1 DEF TypeInv, GwJobOK
    <3>2. CASE gwJob' # gwJob
      <4>1. job.pc \in {"deploy", "status"} /\ job.gw = gw /\ job.addressed \in BOOLEAN
        OBVIOUS
      <4>2. DOMAIN job = GwJobFields
        BY DEF GwJobFields
      <4> HIDE DEF job
      <4>3. gw # Nil /\ gwJob' = job
        BY <2>2, <3>2
      <4>4. QED
        BY <2>3, <4>1, <4>2, <4>3 DEF GwJobOK, Owned
    <3>3. QED
      BY <3>1, <3>2
  <2>5. QED
    BY <1>2, <2>1, <2>4 DEF TypeInv
<1>4. CASE ProvisionDeployment \/ ProvisionService \/ ProvisionTunnel
  <2>1. PICK o \in Owned : Provisioned(o)
    BY <1>4, DeploymentEffect, ServiceEffect, TunnelEffect DEF Owned
  <2>2. ObjectsOK(api')
    BY <2>1, PutObject, ObjectNames DEF Provisioned, TypeInv
  <2>3. GwJobOK'
    BY <2>1 DEF Provisioned, GwJobOK
  <2>4. QED
    BY <1>2, <2>1, <2>2, <2>3 DEF Provisioned, TypeInv
<1>5. CASE PatchGateway
  <2> DEFINE new == statusOf(gwJob.model, gwJob.accepted, gwJob.programmed, gwJob.tunnel, gwJob.addressed)
             gw == api["gw"]
             st == Patched(gw.status, gwJob.gw.status, new)
  <2>1. gwJob' = Nil /\ queue' \in {queue, queue \cup {"gw"}}
    BY <1>5 DEF PatchGateway, Requeue
  <2>2. api' = api \/ (gw # Nil /\ Write("gw", [gw EXCEPT !.status = st]))
    BY <1>5 DEF PatchGateway
  <2>3. gwJob # Nil /\ gwJob.addressed \in BOOLEAN /\ GwOK(gw)
    BY <1>5 DEF PatchGateway, TypeInv, GwJobOK, ObjectsOK
  <2>4. DOMAIN new = StatusFields /\ new.addresses \in BOOLEAN
    BY <2>3, StatusFieldsOK
  <2> HIDE DEF new
  <2>5. gw # Nil => DOMAIN st = StatusFields /\ st.addresses \in BOOLEAN
    BY <2>3, <2>4 DEF Patched, GwOK, StatusFields
  <2> HIDE DEF st
  <2>6. gw # Nil => GwOK([gw EXCEPT !.status = st])
    BY <2>3, <2>5 DEF GwOK, GatewayFields
  <2>7. ObjectsOK(api')
    BY <2>2, <2>6, PutObject, ObjectNames DEF Write, TypeInv
  <2>8. QED
    BY <1>2, <2>1, <2>7 DEF TypeInv, GwJobOK
<1>6. QED
  BY <1>3, <1>4, <1>5

LEMMA RouteType ==
  ASSUME TypeInv, (\E n \in RouteName : RouteReconcile(n) \/ SyncRoute(n)) \/ PatchRoute \/ XDSReconcile
  PROVE  TypeInv'
<1>1. CASE \E n \in RouteName : RouteReconcile(n)
  <2>1. PICK n \in RouteName : RouteReconcile(n)
    BY <1>1
  <2> DEFINE r == routeCache[n]
             merged == mergeParents(r.parents, parentStatuses(n, cache, routeCache))
  <2>2. RtOK(r)
    BY DEF TypeInv, RoutesOK
  <2>3. routeJob' = routeJob \/ (r # Nil /\ routeJob' = [name |-> n, read |-> r, parents |-> merged])
    BY <2>1 DEF RouteReconcile
  <2>4. r # Nil => Single(merged) /\ Theirs(merged) = Theirs(r.parents)
    BY <2>2, Merged DEF RtOK
  <2> HIDE DEF r, merged
  <2>5. RouteJobOK'
    BY <2>3, <2>4 DEF RouteJobOK, TypeInv
  <2>6. /\ UNCHANGED <<api, cache, route, routeCache, xdsUp, uids, queue, classJob, gwJob, active, outside>>
        /\ routeQueue' \subseteq routeQueue
    BY <2>1 DEF RouteReconcile, worldVars
  <2>7. QED
    BY <2>5, <2>6 DEF TypeInv, GwJobOK
<1>2. CASE \E n \in RouteName : SyncRoute(n)
  <2>1. PICK n \in RouteName : SyncRoute(n)
    BY <1>2
  <2>2. RoutesOK(routeCache')
    BY <2>1, PutRoute DEF SyncRoute, TypeInv, RoutesOK
  <2>3. /\ queue' \subseteq {"class", "gw", "xds"} /\ routeQueue' \subseteq RouteName
        /\ UNCHANGED <<api, cache, route, xdsUp, uids, jobVars, active, outside>>
    BY <2>1 DEF SyncRoute, TypeInv
  <2>4. QED
    BY <2>2, <2>3 DEF TypeInv, GwJobOK, RouteJobOK, jobVars
<1>3. CASE PatchRoute
  <2> DEFINE n == routeJob.name
             r == [route[n] EXCEPT !.parents = routeJob.parents]
  <2>1. n \in RouteName /\ Single(routeJob.parents) /\ routeJob.read # Nil /\ RtOK(route[n])
    BY <1>3 DEF PatchRoute, TypeInv, RouteJobOK, RoutesOK
  <2>2. route' = route \/ (route[n] # Nil /\ route' = [route EXCEPT ![n] = r])
    BY <1>3, <2>1 DEF PatchRoute
  <2>3. route[n] # Nil => RtOK(r)
    BY <2>1 DEF RtOK, RouteFields
  <2> HIDE DEF r
  <2>4. RoutesOK(route')
    BY <2>1, <2>2, <2>3, PutRoute DEF TypeInv
  <2>5. /\ routeQueue' \subseteq RouteName /\ routeJob' = Nil
        /\ UNCHANGED <<api, cache, routeCache, xdsUp, uids, queue, classJob, gwJob, active, outside>>
    BY <1>3, <2>1 DEF PatchRoute, TypeInv
  <2>6. QED
    BY <2>4, <2>5 DEF TypeInv, GwJobOK, RouteJobOK
<1>4. CASE XDSReconcile
  BY <1>4 DEF XDSReconcile, worldVars, jobVars, TypeInv, GwJobOK, RouteJobOK
<1>5. QED
  BY <1>1, <1>2, <1>3, <1>4

\* What others do to an object, and to a route.
ApiWritten ==
  /\ \E o \in Object : \E v :
       /\ o = "gw" => GwOK(v)
       /\ o = "class" => ClassOK(v)
       /\ o \in Owned => ThingOK(v)
       /\ Write(o, v)
  /\ outsideFrame /\ UNCHANGED <<route, xdsUp>>
  /\ uids' \in 0..MaxUid /\ outside' \subseteq EventKind

RouteWritten ==
  /\ \E n \in RouteName : \E r : RtOK(r) /\ route' = [route EXCEPT ![n] = r]
  /\ outsideFrame /\ UNCHANGED <<api, xdsUp, uids>>
  /\ outside' \subseteq EventKind

\* The steps that write an object.
ApiSteps ==
  \/ CollectGateway
  \/ \E o \in Owned : Collect(o) \/ BecomesReady(o)
  \/ \E s \in GatewaySpecs : CreateGateway(s) \/ EditGateway(s)
  \/ \E f \in BOOLEAN : DeleteGateway(f)
  \/ \E p \in {"config", "absent"} : EditClass(p)
  \/ DeleteClass
  \/ \E c \in Configs : Change("config", c)
  \/ \E g \in Grants : Change("grants", g)
  \/ \E s \in Services : Change("services", s)
  \/ \E s \in Secrets : Change("secrets", s)
  \/ \E o \in Owned : BecomesUnready(o) \/ \E v \in {Nil, Intruder} : Meddle(o, v)

LEMMA ApiStepsWrite == ASSUME TypeInv, ApiSteps PROVE ApiWritten
<1>1. /\ GwOK(api["gw"]) /\ ClassOK(api["class"]) /\ \A o \in Owned : ThingOK(api[o])
  BY DEF TypeInv, ObjectsOK
<1>2. uids \in 0..MaxUid /\ outside \subseteq EventKind /\ GwOK(Nil) /\ ClassOK(Nil) /\ ThingOK(Nil)
  BY DEF TypeInv, GwOK, ClassOK, ThingOK
<1>3. \A k : Event(k) => outsideFrame /\ outside' \subseteq EventKind
  BY <1>2 DEF Event, Happens
<1>4. CASE CollectGateway
  BY <1>2, <1>4, ObjectNames DEF CollectGateway, ApiWritten
<1>5. CASE \E o \in Owned : Collect(o)
  BY <1>2, <1>5, ObjectNames DEF Collect, ApiWritten
<1>6. ASSUME NEW o \in Owned, api[o] # Nil, NEW b \in BOOLEAN PROVE ThingOK([api[o] EXCEPT !.ready = b])
  BY <1>1, <1>6 DEF ThingOK, OwnedFields
<1>7. CASE \E o \in Owned : BecomesReady(o)
  <2>1. PICK o \in Owned : BecomesReady(o)
    BY <1>7
  <2> DEFINE v == [api[o] EXCEPT !.ready = TRUE]
  <2>2. ThingOK(v) /\ Write(o, v)
    BY <1>6, <2>1 DEF BecomesReady
  <2> HIDE DEF v
  <2>3. QED
    BY <1>2, <2>1, <2>2, ObjectNames DEF BecomesReady, ApiWritten
<1>8. CASE \E o \in Owned : BecomesUnready(o)
  <2>1. PICK o \in Owned : BecomesUnready(o)
    BY <1>8
  <2> DEFINE v == [api[o] EXCEPT !.ready = FALSE]
  <2>2. ThingOK(v) /\ Write(o, v)
    BY <1>6, <2>1 DEF BecomesUnready
  <2> HIDE DEF v
  <2>3. QED
    BY <1>2, <1>3, <2>1, <2>2, ObjectNames DEF BecomesUnready, ApiWritten
<1>9. CASE \E o \in Owned : \E v \in {Nil, Intruder} : Meddle(o, v)
  <2>1. PICK o \in Owned : \E v \in {Nil, Intruder} : Meddle(o, v)
    BY <1>9
  <2>2. PICK v \in {Nil, Intruder} : Meddle(o, v)
    BY <2>1
  <2>3. ThingOK(Intruder)
    BY ObjectNames DEF ThingOK, Intruder, OwnedFields
  <2>4. QED
    BY <1>2, <1>3, <2>2, <2>3, ObjectNames DEF Meddle, ApiWritten
<1>10. CASE \E s \in GatewaySpecs : CreateGateway(s)
  <2>1. PICK s \in GatewaySpecs : CreateGateway(s)
    BY <1>10
  <2>2. uids + 1 \in 1..MaxUid /\ PortsOK(s)
    BY <1>2, <2>1, ObjectNames, WorldsAssumption DEF CreateGateway
  <2> DEFINE v == NewGateway(uids + 1, s)
  <2>3. GwOK(v) /\ v.uid \in 1..MaxUid /\ Write("gw", v)
    BY <2>1, <2>2, NewGatewayOK DEF CreateGateway, NewGateway
  <2> HIDE DEF v
  <2>4. uids' \in 0..MaxUid
    BY <2>1, <2>2, ObjectNames DEF CreateGateway
  <2>5. QED
    BY <1>3, <2>1, <2>3, <2>4, ObjectNames DEF CreateGateway, ApiWritten
<1>11. CASE \E s \in GatewaySpecs : EditGateway(s)
  <2>1. PICK s \in GatewaySpecs : EditGateway(s)
    BY <1>11
  <2> DEFINE v == [api["gw"] EXCEPT !.spec = s]
  <2>2. GwOK(v) /\ v.uid \in 1..MaxUid /\ Write("gw", v)
    BY <1>1, <2>1, WorldsAssumption DEF EditGateway, GwOK, GatewayFields
  <2> HIDE DEF v
  <2>3. QED
    BY <1>2, <1>3, <2>1, <2>2, ObjectNames DEF EditGateway, ApiWritten
<1>12. CASE \E f \in BOOLEAN : DeleteGateway(f)
  <2>1. PICK f \in BOOLEAN : DeleteGateway(f)
    BY <1>12
  <2> DEFINE v == [api["gw"] EXCEPT !.deleting = TRUE]
  <2>2. GwOK(v) /\ v.uid \in 1..MaxUid /\ (Write("gw", v) \/ Write("gw", Nil))
    BY <1>1, <2>1 DEF DeleteGateway, GwOK, GatewayFields
  <2> HIDE DEF v
  <2>3. QED
    BY <1>2, <1>3, <2>1, <2>2, ObjectNames DEF DeleteGateway, ApiWritten
<1>13. CASE \E p \in {"config", "absent"} : EditClass(p)
  <2>1. PICK p \in {"config", "absent"} : EditClass(p)
    BY <1>13
  <2> DEFINE v == [api["class"] EXCEPT !.params = p]
  <2>2. api["class"] # Nil => ClassOK(v)
    BY <1>1 DEF ClassOK, ClassFields
  <2>3. (api["class"] # Nil /\ Write("class", v)) \/ Write("class", NewClass(p))
    BY <2>1 DEF EditClass
  <2> HIDE DEF v
  <2>4. QED
    BY <1>2, <1>3, <2>1, <2>2, <2>3, NewClassOK, ObjectNames DEF EditClass, ApiWritten
<1>14. CASE DeleteClass
  <2> DEFINE v == [api["class"] EXCEPT !.deleting = TRUE]
  <2>1. api["class"] # Nil => ClassOK(v)
    BY <1>1 DEF ClassOK, ClassFields
  <2>2. (api["class"] # Nil /\ Write("class", v)) \/ Write("class", Nil)
    BY <1>14 DEF DeleteClass
  <2> HIDE DEF v
  <2>3. QED
    BY <1>2, <1>3, <1>14, <2>1, <2>2, ObjectNames DEF DeleteClass, ApiWritten
<1>15. ASSUME NEW o \in {"config", "grants", "services", "secrets"}, NEW v, Change(o, v) PROVE ApiWritten
  <2>1. o \in Object /\ o # "gw" /\ o # "class" /\ o \notin Owned
    BY DEF Object, Owned
  <2>2. QED
    BY <1>2, <1>3, <1>15, <2>1 DEF Change, ApiWritten
<1>16. QED
  BY <1>4, <1>5, <1>7, <1>8, <1>9, <1>10, <1>11, <1>12, <1>13, <1>14, <1>15 DEF ApiSteps

\* The steps that write a route.
RouteSteps ==
  \E n \in RouteName : DeleteRoute(n) \/ OtherStatus(n) \/ \E s \in RouteSpecs : EditRoute(n, s)

LEMMA RouteStepsWrite == ASSUME TypeInv, RouteSteps PROVE RouteWritten
<1>1. PICK n \in RouteName : DeleteRoute(n) \/ OtherStatus(n) \/ \E s \in RouteSpecs : EditRoute(n, s)
  BY DEF RouteSteps
<1>2. RtOK(route[n]) /\ RtOK(Nil) /\ DOMAIN route = RouteName /\ outside \subseteq EventKind
  BY DEF TypeInv, RoutesOK, RtOK
<1>3. \A k : Event(k) => outsideFrame /\ outside' \subseteq EventKind
  BY <1>2 DEF Event, Happens
<1>4. CASE DeleteRoute(n)
  <2> DEFINE r == [route[n] EXCEPT !.deleting = TRUE]
  <2>1. RtOK(r) /\ route' = [route EXCEPT ![n] = r]
    BY <1>2, <1>4 DEF DeleteRoute, RtOK, RouteFields
  <2> HIDE DEF r
  <2>2. QED
    BY <1>3, <1>4, <2>1 DEF DeleteRoute, RouteWritten
<1>5. CASE OtherStatus(n)
  <2> DEFINE others == {p \in route[n].parents : p.controller # "ours"}
             entry(ref) == [controller |-> "other", ref |-> ref, accepted |-> "Accepted", resolved |-> "ResolvedRefs"]
             want == {entry(ref) : ref \in {p \in route[n].spec.parentRefs : ~targets(p)}}
             ps == (route[n].parents \ others) \cup want
             r == [route[n] EXCEPT !.parents = ps]
  <2>1. route[n] # Nil /\ route' = [route EXCEPT ![n].parents = ps]
    BY <1>5 DEF OtherStatus
  <2>2. Single(want) /\ \A p \in want : p.controller = "other"
    BY DEF Single
  <2>3. \A p \in route[n].parents \ others : p.controller = "ours"
    OBVIOUS
  <2> HIDE DEF want, others
  <2>4. Single(ps)
    BY <1>2, <2>1, <2>2, <2>3 DEF Single, RtOK
  <2> HIDE DEF ps
  <2>5. RtOK(r) /\ route' = [route EXCEPT ![n] = r]
    BY <1>2, <2>1, <2>4 DEF RtOK, RouteFields
  <2> HIDE DEF r
  <2>6. QED
    BY <1>3, <1>5, <2>5 DEF OtherStatus, RouteWritten
<1>6. CASE \E s \in RouteSpecs : EditRoute(n, s)
  <2>1. PICK s \in RouteSpecs : EditRoute(n, s)
    BY <1>6
  <2> DEFINE r == [route[n] EXCEPT !.spec = s]
  <2>2. route[n] # Nil => RtOK(r)
    BY <1>2 DEF RtOK, RouteFields
  <2>3. RtOK(NewRoute(s))
    BY NewRouteOK
  <2>4. \/ route' = [route EXCEPT ![n] = Nil]
        \/ route' = [route EXCEPT ![n] = NewRoute(s)]
        \/ route[n] # Nil /\ route' = [route EXCEPT ![n] = r]
    BY <2>1 DEF EditRoute
  <2> HIDE DEF r
  <2>5. QED
    BY <1>2, <1>3, <2>1, <2>2, <2>3, <2>4 DEF EditRoute, RouteWritten
<1>7. QED
  BY <1>1, <1>4, <1>5, <1>6

\* The informers, the failures and the restart.
LEMMA CommonType ==
  ASSUME TypeInv,
         \/ \E o \in Object : Sync(o)
         \/ \E c \in {"class", "gw", "route"} : CallFails(c)
         \/ Restart \/ XdsChanges \/ UNCHANGED vars
  PROVE  TypeInv'
<1>1. CASE \E o \in Object : Sync(o)
  <2>1. PICK o \in Object : Sync(o)
    BY <1>1
  <2>2. ObjectsOK(cache')
    BY <2>1, PutObject DEF Sync, TypeInv, ObjectsOK
  <2>3. /\ queue' \subseteq {"class", "gw", "xds"} /\ routeQueue' \subseteq RouteName
        /\ UNCHANGED <<api, route, routeCache, xdsUp, uids, classJob, gwJob, routeJob, active, outside>>
    <3>1. queue' = queue \cup (Enqueued(o, cache') \cap active) /\ active \subseteq Controller
      BY <2>1 DEF Sync, TypeInv
    <3>2. Enqueued(o, cache') \subseteq {"class", "gw", "xds"}
      BY DEF Enqueued
    <3>3. routeQueue' \subseteq RouteName
      BY <2>1 DEF Sync, EnqueuedRoutes, allRoutes, TypeInv
    <3>4. QED
      BY <2>1, <3>1, <3>2, <3>3 DEF Sync, jobVars, TypeInv
  <2>4. QED
    BY <2>2, <2>3 DEF TypeInv, GwJobOK, RouteJobOK
<1>2. CASE \E c \in {"class", "gw", "route"} : CallFails(c)
  <2>1. /\ UNCHANGED <<api, cache, route, routeCache, xdsUp, uids, active>>
        /\ outside' \subseteq EventKind /\ queue' \subseteq {"class", "gw", "xds"}
        /\ classJob' \in {classJob, Nil} /\ gwJob' \in {gwJob, Nil} /\ routeJob' \in {routeJob, Nil}
    BY <1>2 DEF CallFails, Happens, Requeue, worldVars, TypeInv
  <2>2. routeQueue' \subseteq RouteName
    BY <1>2 DEF CallFails, TypeInv, RouteJobOK
  <2>3. QED
    BY <2>1, <2>2 DEF TypeInv, ClassOK, GwJobOK, RouteJobOK
<1>3. CASE Restart
  <2>1. queue' \subseteq {"class", "gw", "xds"} /\ routeQueue' \subseteq RouteName /\ outside' \subseteq EventKind
    BY <1>3 DEF Restart, Happens, TypeInv
  <2>2. QED
    BY <1>3, <2>1 DEF Restart, TypeInv, ClassOK, GwJobOK, RouteJobOK
<1>4. CASE XdsChanges
  <2>1. /\ xdsUp' \in BOOLEAN /\ outside' \subseteq EventKind /\ UNCHANGED <<api, route, uids>>
        /\ UNCHANGED <<cache, routeCache, queue, routeQueue, classJob, gwJob, routeJob, active>>
    BY <1>4 DEF XdsChanges, Event, Happens, outsideFrame, jobVars, TypeInv
  <2>2. QED
    BY <2>1 DEF TypeInv, GwJobOK, RouteJobOK
<1>5. CASE UNCHANGED vars
  BY <1>5 DEF vars, worldVars, jobVars, TypeInv, GwJobOK, RouteJobOK
<1>6. QED
  BY <1>1, <1>2, <1>3, <1>4, <1>5

LEMMA TypeStep == ASSUME TypeInv, [Next]_vars PROVE TypeInv'
<1>1. CASE ApiSteps
  <2>1. ApiWritten
    BY <1>1, ApiStepsWrite
  <2>2. PICK o \in Object : \E v : /\ o = "gw" => GwOK(v)
                                   /\ o = "class" => ClassOK(v)
                                   /\ o \in Owned => ThingOK(v)
                                   /\ api' = [api EXCEPT ![o] = v]
    BY <2>1 DEF ApiWritten, Write
  <2>. PICK v : /\ o = "gw" => GwOK(v)
                /\ o = "class" => ClassOK(v)
                /\ o \in Owned => ThingOK(v)
                /\ api' = [api EXCEPT ![o] = v]
    BY <2>2
  <2>3. ObjectsOK([api EXCEPT ![o] = v])
    BY <2>2, PutObject DEF TypeInv
  <2>4. QED
    BY <2>1, <2>2, <2>3 DEF ApiWritten, outsideFrame, jobVars, TypeInv, GwJobOK, RouteJobOK
<1>2. CASE RouteSteps
  <2>1. RouteWritten
    BY <1>2, RouteStepsWrite
  <2>2. PICK n \in RouteName : \E r : RtOK(r) /\ route' = [route EXCEPT ![n] = r]
    BY <2>1 DEF RouteWritten
  <2>. PICK r : RtOK(r) /\ route' = [route EXCEPT ![n] = r]
    BY <2>2
  <2>3. RoutesOK([route EXCEPT ![n] = r])
    BY <2>2, PutRoute DEF TypeInv
  <2>4. QED
    BY <2>1, <2>2, <2>3 DEF RouteWritten, outsideFrame, jobVars, TypeInv, GwJobOK, RouteJobOK
<1>3. QED
  BY <1>1, <1>2, ClassType, GatewayType, RouteType, CommonType
  DEF Next, Operator, Cluster, Outside, ApiSteps, RouteSteps

\* The inductive invariant is one.
LEMMA TypesHold == Spec => []TypeInv
<1>1. Init => TypeInv
  BY InitTypes
<1>2. TypeInv /\ [Next]_vars => TypeInv'
  BY TypeStep
<1>3. QED
  BY <1>1, <1>2, PTL DEF Spec

-----------------------------------------------------------------------------
(* The theorems *)

\* Every variable keeps its type, and a route's status never has two entries of one
\* controller for one parentRef, however the routes' list is merged, patched and
\* rewritten by others (RouteReconciler.Reconcile, mergeParents).
THEOREM TypeCorrect == Spec => []TypeOK
<1>1. TypeInv => TypeOK
  <2> SUFFICES ASSUME TypeInv PROVE TypeOK
    OBVIOUS
  <2>1. ASSUME NEW g, GwOK(g) PROVE GatewayOK(g)
    BY <2>1 DEF GwOK, GatewayOK, NoStatus, StatusFields
  <2>2. ASSUME NEW r, RtOK(r) PROVE RouteOK(r)
    BY <2>2 DEF RtOK, RouteOK, Single
  <2>3. ASSUME NEW objects, ObjectsOK(objects)
        PROVE  /\ GatewayOK(objects["gw"]) /\ \A o \in Owned : OwnedOK(objects[o])
               /\ objects["class"] # Nil => objects["class"].accepted \in {Nil, "Accepted", "InvalidParameters"}
    BY <2>1, <2>3 DEF ObjectsOK, ThingOK, OwnedOK, ClassOK
  <2>4. \A n \in RouteName : RouteOK(route[n]) /\ RouteOK(routeCache[n])
    BY <2>2 DEF TypeInv, RoutesOK
  <2>5. DOMAIN api = Object /\ DOMAIN cache = Object /\ ObjectsOK(api) /\ ObjectsOK(cache)
    BY DEF TypeInv, ObjectsOK
  <2>6. QED
    BY <2>3, <2>4, <2>5 DEF TypeOK, TypeInv, GwJobOK
<1>2. QED
  BY <1>1, TypesHold, PTL

\* Whatever the listeners of the Gateway, Envoy is never told to bind one address for
\* two of its ports, nor one of Envoy's own (ContainerPort, markUnavailablePorts).
THEOREM PortsApart == Spec => []PortsDoNotClash
<1>1. ASSUME TypeInv, NEW s, s = desiredSnapshot(cache, routeCache), s # Nil
      PROVE  \A l \in s.listeners :
               /\ l.bound \notin {EnvoyAdminPort, EnvoyReadinessPort}
               /\ \A k \in s.listeners \ {l} : <<k.bound, k.transport>> # <<l.bound, l.transport>>
  <2> DEFINE spec == cache["gw"].spec
             live == liveRoutes(routeCache)
             refs == refsOf(cache)
  <2>1. s = Snapshot(Build(spec, live, refs), refs) /\ cache["gw"] # Nil
    BY <1>1 DEF desiredSnapshot, buildGateway
  <2>2. PortsOK(spec)
    BY <1>1, <2>1 DEF TypeInv, ObjectsOK, GwOK
  <2> HIDE DEF spec, live, refs
  <2>3. QED
    BY <2>1, <2>2, SnapshotPorts
<1>2. Init => PortsDoNotClash
  <2>1. Init => snapshot = desiredSnapshot(cache, routeCache)
    BY DEF Init
  <2>2. QED
    BY <1>1, <2>1, InitTypes DEF PortsDoNotClash
<1>3. TypeInv /\ PortsDoNotClash /\ [Next]_vars => PortsDoNotClash'
  <2> SUFFICES ASSUME TypeInv, PortsDoNotClash, [Next]_vars PROVE PortsDoNotClash'
    OBVIOUS
  <2>1. CASE XDSReconcile
    <3>1. snapshot' = desiredSnapshot(cache, routeCache)
      BY <2>1 DEF XDSReconcile
    <3>2. QED
      BY <1>1, <3>1 DEF PortsDoNotClash
  <2>2. CASE Restart
    BY <2>2 DEF Restart, PortsDoNotClash
  <2>3. CASE ~XDSReconcile /\ ~Restart
    <3>1. snapshot' = snapshot
      BY <2>3 DEF Next, Operator, Cluster, Outside, vars, ClassReconcile, ClassStatus, GatewayReconcile,
         ProvisionDeployment, ProvisionService, ProvisionTunnel, PatchGateway, gwFrame, RouteReconcile, SyncRoute,
         PatchRoute, Sync, CollectGateway, Collect, BecomesReady, outsideFrame, CreateGateway, EditGateway,
         DeleteGateway, EditClass, DeleteClass, Change, DeleteRoute, OtherStatus, EditRoute, BecomesUnready,
         Meddle, XdsChanges, CallFails, Event
    <3>2. QED
      BY <3>1 DEF PortsDoNotClash
  <2>4. QED
    BY <2>1, <2>2, <2>3
<1>4. QED
  BY <1>2, <1>3, TypesHold, PTL DEF Spec

\* Nil, which stands for no route, is not a record with the fields of one.
NilIsNoRoute == \A r : DOMAIN r = RouteFields => r # Nil

\* A patch of a route's status, built from a copy that may be out of date, neither drops
\* nor revives an entry of another controller (RouteReconciler.Reconcile).
THEOREM OthersKept ==
  ASSUME NilIsNoRoute
  PROVE  Spec => ForeignStatusKept
<1>1. ASSUME TypeInv, [Next]_vars, routeJob' # routeJob, NEW n \in RouteName
      PROVE  Others(route'[n]) = Others(route[n])
  <2>1. CASE PatchRoute
    <3> DEFINE m == routeJob.name
               r == [route[m] EXCEPT !.parents = routeJob.parents]
    <3>1. /\ m \in RouteName /\ routeJob.read # Nil /\ RtOK(route[m]) /\ DOMAIN route = RouteName
          /\ Theirs(routeJob.parents) = Theirs(routeJob.read.parents)
      BY <1>1, <2>1 DEF PatchRoute, TypeInv, RouteJobOK, RoutesOK
    <3>2. route' = route \/ (route[m] = routeJob.read /\ route' = [route EXCEPT ![m] = r])
      <4>1. \/ route' = route
            \/ route[m] = routeJob.read /\ route' = [route EXCEPT ![m].parents = routeJob.parents]
        BY <2>1 DEF PatchRoute
      <4>2. QED
        BY <3>1, <4>1
    <3>3. route[m] # Nil => r # Nil /\ r.parents = routeJob.parents
      <4>1. route[m] # Nil => r.parents = routeJob.parents /\ r.deleting \in BOOLEAN /\ DOMAIN r = RouteFields
        BY <3>1 DEF RtOK, RouteFields
      <4>2. QED
        BY <4>1 DEF NilIsNoRoute
    <3> HIDE DEF r
    <3>4. QED
      BY <3>1, <3>2, <3>3 DEF Others, Theirs
  <2>2. CASE ~PatchRoute
    <3>1. \/ \E k \in RouteName : RouteReconcile(k)
          \/ \E c \in {"class", "gw", "route"} : CallFails(c)
          \/ Restart
      BY <1>1, <2>2 DEF Next, Operator, Cluster, Outside, vars, jobVars, ClassReconcile, ClassStatus, GatewayReconcile,
         ProvisionDeployment, ProvisionService, ProvisionTunnel, PatchGateway, gwFrame, SyncRoute,
         XDSReconcile, Sync, CollectGateway, Collect, BecomesReady, outsideFrame, CreateGateway, EditGateway,
         DeleteGateway, EditClass, DeleteClass, Change, DeleteRoute, OtherStatus, EditRoute, BecomesUnready,
         Meddle, XdsChanges, Event
    <3>2. route' = route
      BY <3>1 DEF RouteReconcile, CallFails, Restart, worldVars
    <3>3. QED
      BY <3>2
  <2>3. QED
    BY <2>1, <2>2
<1>2. TypeInv /\ [Next]_vars => [routeJob' # routeJob => \A n \in RouteName : Others(route'[n]) = Others(route[n])]_vars
  BY <1>1
<1>3. QED
  BY <1>2, TypesHold, PTL DEF Spec, ForeignStatusKept

\* Reconciling a Gateway changes no object that this very Gateway does not control, be it
\* that the cache still shows one that it did (ensureControlled).
THEOREM OthersUntouched == Spec => ForeignObjectsUntouched
<1>1. ASSUME TypeInv, [Next]_vars, gwJob # Nil, gwJob' # gwJob, NEW o \in Owned, api[o] # Nil,
             api[o].owner # gwJob.gw.uid
      PROVE  api'[o] = api[o]
  <2>0. o \in Object /\ DOMAIN api = Object /\ o # "gw"
    BY <1>1, ObjectNames DEF TypeInv, ObjectsOK
  <2>1. CASE ProvisionDeployment \/ ProvisionService \/ ProvisionTunnel
    <3>1. PICK p \in Owned : Provisioned(p)
      BY <1>1, <2>1, DeploymentEffect, ServiceEffect, TunnelEffect DEF Owned
    <3>2. QED
      BY <1>1, <2>0, <3>1, ObjectNames DEF Provisioned
  <2>2. CASE PatchGateway
    <3> DEFINE v == [api["gw"] EXCEPT !.status = Patched(api["gw"].status, gwJob.gw.status,
                       statusOf(gwJob.model, gwJob.accepted, gwJob.programmed, gwJob.tunnel, gwJob.addressed))]
    <3>1. api' = api \/ api' = [api EXCEPT !["gw"] = v]
      BY <2>2 DEF PatchGateway, Write
    <3> HIDE DEF v
    <3>2. QED
      BY <2>0, <3>1
  <2>3. CASE ~(ProvisionDeployment \/ ProvisionService \/ ProvisionTunnel \/ PatchGateway)
    <3>1. \/ \E c \in {"class", "gw", "route"} : CallFails(c)
          \/ Restart
      BY <1>1, <2>3 DEF Next, Operator, Cluster, Outside, vars, jobVars, ClassReconcile, ClassStatus, GatewayReconcile,
         gwFrame, SyncRoute, RouteReconcile, PatchRoute,
         XDSReconcile, Sync, CollectGateway, Collect, BecomesReady, outsideFrame, CreateGateway, EditGateway,
         DeleteGateway, EditClass, DeleteClass, Change, DeleteRoute, OtherStatus, EditRoute, BecomesUnready,
         Meddle, XdsChanges, Event
    <3>2. QED
      BY <3>1 DEF CallFails, Restart, worldVars
  <2>4. QED
    BY <2>1, <2>2, <2>3
<1>2. TypeInv /\ [Next]_vars => [gwJob # Nil /\ gwJob' # gwJob =>
        \A o \in Owned : api[o] # Nil /\ api[o].owner # gwJob.gw.uid => api'[o] = api[o]]_vars
  BY <1>1
<1>3. QED
  BY <1>2, TypesHold, PTL DEF Spec, ForeignObjectsUntouched
=============================================================================
