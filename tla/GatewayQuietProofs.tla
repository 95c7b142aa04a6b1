------------------------- MODULE GatewayQuietProofs -------------------------
(***************************************************************************)
(* Proof that the controllers of GatewayControllers come to rest only when *)
(* all that they write is up to date, for every set of worlds, specs,      *)
(* routes and Gateways.                                                    *)
(***************************************************************************)
EXTENDS GatewayProofs, FiniteSetTheorems

-----------------------------------------------------------------------------
(* What the model of a Gateway depends on *)

\* The listeners do not depend on the backends.
LEMMA ListenersDepend ==
  ASSUME NEW ls, NEW r, NEW s, r.warp = s.warp, r.grants = s.grants, r.secrets = s.secrets
  PROVE  Listeners(ls, r) = Listeners(ls, s)
<1>1. \A l : kindsOf(l, r) = kindsOf(l, s)
  BY DEF kindsOf
<1>2. \A l : acceptedReason(l, r) = acceptedReason(l, s) /\ SupportedKinds(l, r) = SupportedKinds(l, s)
  BY <1>1 DEF acceptedReason, SupportedKinds
<1>3. \A ref : certificateReason(ref, r) = certificateReason(ref, s)
  BY DEF certificateReason, Permitted
<1>4. \A l : resolveCertificates(l, r) = resolveCertificates(l, s)
  BY <1>3 DEF resolveCertificates
<1>5. \A l : resolvedReason(l, r) = resolvedReason(l, s)
  BY <1>1, <1>4 DEF resolvedReason
<1>6. QED
  BY <1>2, <1>5 DEF Listeners

\* Nor do their specs and kinds depend on the grants and the Secrets.
LEMMA KindsDepend ==
  ASSUME NEW ls, NEW r, NEW s, r.warp = s.warp
  PROVE  /\ DOMAIN Listeners(ls, r) = DOMAIN ls
         /\ DOMAIN Listeners(ls, s) = DOMAIN ls
         /\ \A i \in DOMAIN ls : /\ Listeners(ls, r)[i].spec = Listeners(ls, s)[i].spec
                                 /\ Listeners(ls, r)[i].kinds = Listeners(ls, s)[i].kinds
<1>1. \A l : SupportedKinds(l, r) = SupportedKinds(l, s)
  BY DEF kindsOf, SupportedKinds
<1>2. QED
  BY <1>1 DEF Listeners

\* Where a route attaches depends on the listeners' specs and kinds only.
LEMMA AttachDepends ==
  ASSUME NEW rt, NEW ref, NEW ls, NEW ks, NEW r, NEW s, r.selected = s.selected,
         DOMAIN ls = DOMAIN ks, \A i \in DOMAIN ls : ls[i].spec = ks[i].spec /\ ls[i].kinds = ks[i].kinds
  PROVE  attach(rt, ref, ls, r) = attach(rt, ref, ks, s)
<1> DEFINE cand(x) == {i \in DOMAIN x : /\ ref.section # Nil => ref.section = x[i].spec.name
                                        /\ ref.port # Nil => ref.port = x[i].spec.port}
           allowed(x, q) == {i \in cand(x) : allowsNamespace(x[i].spec, rt.ns, q) /\ rt.kind \in x[i].kinds}
           served(x, i) == intersect(IF hasHostnames(x[i].spec.protocol) THEN x[i].spec.hostname ELSE Nil, rt.hostnames)
           att(x, q) == {i \in allowed(x, q) : served(x, i) # {}}
           hosts(x, q) == [i \in att(x, q) |-> served(x, i)]
           rejected(reason) == [ref |-> ref, accepted |-> reason, hostnames |-> NoHosts]
<1>1. cand(ls) = cand(ks) /\ cand(ls) \subseteq DOMAIN ls
  OBVIOUS
<1>2. \A l, ns : allowsNamespace(l, ns, r) = allowsNamespace(l, ns, s)
  BY DEF allowsNamespace
<1>3. allowed(ls, r) = allowed(ks, s) /\ allowed(ls, r) \subseteq DOMAIN ls
  BY <1>1, <1>2
<1>4. \A i \in DOMAIN ls : served(ls, i) = served(ks, i)
  OBVIOUS
<1> HIDE DEF allowed, served
<1>5. att(ls, r) = att(ks, s) /\ att(ls, r) \subseteq DOMAIN ls
  BY <1>3, <1>4
<1>6. hosts(ls, r) = hosts(ks, s)
  BY <1>4, <1>5
<1>7. \A x, q : attach(rt, ref, x, q) =
               IF cand(x) = {} THEN rejected("NoMatchingParent")
               ELSE IF allowed(x, q) = {} THEN rejected("NotAllowedByListeners")
               ELSE IF att(x, q) = {} THEN rejected("NoMatchingListenerHostname")
               ELSE [ref |-> ref, accepted |-> "Accepted", hostnames |-> hosts(x, q)]
  BY Zenon DEF attach, allowed, served
<1> HIDE DEF cand, att, hosts, rejected
<1>8. QED
  BY <1>1, <1>3, <1>5, <1>6, <1>7

\* A route with where it attaches and its backends resolved, as Build has it.
Attached(n, spec, ls, refs) ==
  LET r == routeOf(spec)
  IN [name |-> n, route |-> r,
      parents |-> {attach(r, ref, ls, refs) : ref \in {p \in r.parentRefs : targets(p)}},
      backends |-> resolveBackends(r, refs), resolved |-> resolvedRefs(r, refs)]

Referring(routes) == {n \in DOMAIN routes : RefersTo(routes[n])}

AllAttached(routes, ls, refs) == {Attached(n, routes[n], ls, refs) : n \in Referring(routes)}

\* How many of the routes attach to each listener.
Counts(as, ls) == [i \in DOMAIN ls |-> Cardinality({a \in as : i \in attachedTo(a)})]

LEMMA BuildParts ==
  ASSUME NEW gw, NEW routes, NEW refs
  PROVE  /\ Build(gw, routes, refs).listeners = Listeners(gw.listeners, refs)
         /\ Build(gw, routes, refs).routes = AllAttached(routes, Listeners(gw.listeners, refs), refs)
         /\ Build(gw, routes, refs).attachedRoutes =
              Counts(AllAttached(routes, Listeners(gw.listeners, refs), refs), Listeners(gw.listeners, refs))
<1> DEFINE ls == Listeners(gw.listeners, refs)
           att(n) == LET r == routeOf(routes[n])
                     IN [name |-> n, route |-> r,
                         parents |-> {attach(r, ref, ls, refs) : ref \in {p \in r.parentRefs : targets(p)}},
                         backends |-> resolveBackends(r, refs), resolved |-> resolvedRefs(r, refs)]
           all == {att(n) : n \in {m \in DOMAIN routes : RefersTo(routes[m])}}
           count == [i \in DOMAIN ls |-> Cardinality({a \in all : i \in attachedTo(a)})]
<1>1. Build(gw, routes, refs) = [listeners |-> ls, routes |-> all, attachedRoutes |-> count]
  BY Zenon DEF Build
<1>2. \A n : att(n) = Attached(n, routes[n], ls, refs)
  BY Zenon DEF Attached
<1>3. all = AllAttached(routes, ls, refs)
  <2> HIDE DEF att
  <2>1. QED
    BY <1>2 DEF Referring, AllAttached
<1>4. count = Counts(all, ls)
  BY DEF Counts
<1> HIDE DEF all, ls, count
<1>5. QED
  BY <1>1, <1>3, <1>4 DEF ls

\* Only the routes that name the Gateway count.
LEMMA BuildRoutes ==
  ASSUME NEW gw, NEW rs, NEW ss, NEW refs, Referring(rs) = Referring(ss), \A n \in Referring(rs) : rs[n] = ss[n]
  PROVE  Build(gw, rs, refs) = Build(gw, ss, refs)
<1> DEFINE ls == Listeners(gw.listeners, refs)
           att(x, n) == LET r == routeOf(x[n])
                     IN [name |-> n, route |-> r,
                         parents |-> {attach(r, ref, ls, refs) : ref \in {p \in r.parentRefs : targets(p)}},
                         backends |-> resolveBackends(r, refs), resolved |-> resolvedRefs(r, refs)]
           all(x) == {att(x, n) : n \in {m \in DOMAIN x : RefersTo(x[m])}}
           count(as) == [i \in DOMAIN ls |-> Cardinality({a \in as : i \in attachedTo(a)})]
<1>1. \A x : Build(gw, x, refs) = [listeners |-> ls, routes |-> all(x), attachedRoutes |-> count(all(x))]
  BY Zenon DEF Build
<1>2. \A n \in Referring(rs) : att(rs, n) = att(ss, n)
  OBVIOUS
<1>3. all(rs) = all(ss)
  <2> HIDE DEF att
  <2>1. QED
    BY <1>2 DEF Referring
<1> HIDE DEF all, ls, count
<1>4. QED
  BY <1>1, <1>3

\* The same names make sets of the same size.
LEMMA SameSize ==
  ASSUME NEW N, IsFiniteSet(N), NEW f, NEW g,
         \A x, y \in N : f[x] = f[y] => x = y,
         \A x, y \in N : g[x] = g[y] => x = y
  PROVE  Cardinality({f[x] : x \in N}) = Cardinality({g[x] : x \in N})
<1>1. ASSUME NEW h, \A x, y \in N : h[x] = h[y] => x = y
      PROVE  Cardinality({h[x] : x \in N}) = Cardinality(N)
  <2> DEFINE k == [x \in N |-> h[x]]
             T == {h[x] : x \in N}
  <2>1. k \in Bijection(N, T)
    BY <1>1 DEF Bijection, Injection, Surjection, IsInjective
  <2>2. ExistsBijection(N, T)
    BY <2>1 DEF ExistsBijection
  <2>3. QED
    BY <2>2, FS_Bijection
<1>2. QED
  BY <1>1

\* Which routes attach to a listener does not depend on the backends.
LEMMA CountDepends ==
  ASSUME NEW gw, NEW routes, IsFiniteSet(DOMAIN routes), NEW r, NEW s, r.warp = s.warp, r.grants = s.grants,
         r.secrets = s.secrets, r.selected = s.selected
  PROVE  /\ Build(gw, routes, r).listeners = Build(gw, routes, s).listeners
         /\ Build(gw, routes, r).attachedRoutes = Build(gw, routes, s).attachedRoutes
<1> DEFINE ls == Listeners(gw.listeners, r)
           N == Referring(routes)
           f == [n \in N |-> Attached(n, routes[n], ls, r)]
           g == [n \in N |-> Attached(n, routes[n], ls, s)]
           at(as, i) == {a \in as : i \in attachedTo(a)}
           names(i) == {n \in N : i \in attachedTo(f[n])}
<1>1. ls = Listeners(gw.listeners, s)
  BY ListenersDepend
<1>2. \A rt, ref : attach(rt, ref, ls, r) = attach(rt, ref, ls, s)
  BY AttachDepends
<1>3. \A n, spec : Attached(n, spec, ls, r).parents = Attached(n, spec, ls, s).parents
  BY <1>2 DEF Attached
<1>4. \A n, spec, q : Attached(n, spec, ls, q).name = n
  BY DEF Attached
<1>5. \A n \in N : attachedTo(f[n]) = attachedTo(g[n])
  BY <1>3 DEF attachedTo
<1>6. AllAttached(routes, ls, r) = {f[n] : n \in N} /\ AllAttached(routes, ls, s) = {g[n] : n \in N}
  BY DEF AllAttached
<1>7. (\A x, y \in N : f[x] = f[y] => x = y) /\ (\A x, y \in N : g[x] = g[y] => x = y)
  BY <1>4
<1>8. IsFiniteSet(N)
  BY FS_Subset DEF Referring
<1> HIDE DEF f, g, N, ls
<1>9. ASSUME NEW i
      PROVE  Cardinality(at(AllAttached(routes, ls, r), i)) = Cardinality(at(AllAttached(routes, ls, s), i))
  <2> DEFINE M == names(i)
  <2>1. M \subseteq N
    OBVIOUS
  <2>2. IsFiniteSet(M)
    BY <1>8, <2>1, FS_Subset
  <2>3. at(AllAttached(routes, ls, r), i) = {f[n] : n \in M} /\ at(AllAttached(routes, ls, s), i) = {g[n] : n \in M}
    BY <1>5, <1>6
  <2> HIDE DEF M
  <2>4. Cardinality({f[n] : n \in M}) = Cardinality({g[n] : n \in M})
    BY <1>7, <2>1, <2>2, SameSize
  <2>5. QED
    BY <2>3, <2>4
<1>10. Counts(AllAttached(routes, ls, r), ls) = Counts(AllAttached(routes, ls, s), ls)
  BY <1>9 DEF Counts
<1>11. QED
  BY <1>1, <1>10, BuildParts DEF ls

\* The parents of a route come from the route itself, the listeners and the references.
Entries(spec, ls, refs) ==
  LET r == routeOf(spec)
  IN {[controller |-> "ours", ref |-> p.ref, accepted |-> p.accepted, resolved |-> resolvedRefs(r, refs)]
      : p \in {attach(r, ref, ls, refs) : ref \in {q \in r.parentRefs : targets(q)}}}

LEMMA ParentsOf ==
  ASSUME NEW n \in RouteName, NEW objects, NEW routes
  PROVE  parentStatuses(n, objects, routes) =
           IF objects["gw"] # Nil /\ Ours(objects) /\ routes[n] # Nil /\ ~routes[n].deleting /\ RefersTo(routes[n].spec)
           THEN Entries(routes[n].spec, Listeners(objects["gw"].spec.listeners, refsOf(objects)), refsOf(objects))
           ELSE {}
<1> DEFINE live == liveRoutes(routes)
           refs == refsOf(objects)
           ls == Listeners(objects["gw"].spec.listeners, refs)
           mine == {a \in buildGateway(objects, routes).routes : a.name = n}
           entry(a, p) == [controller |-> "ours", ref |-> p.ref, accepted |-> p.accepted, resolved |-> a.resolved]
           P == UNION {{entry(a, p) : p \in a.parents} : a \in mine}
           isLive == routes[n] # Nil /\ ~routes[n].deleting /\ RefersTo(routes[n].spec)
           an == Attached(n, routes[n].spec, ls, refs)
<1>1. parentStatuses(n, objects, routes) = IF objects["gw"] = Nil \/ ~Ours(objects) THEN {} ELSE P
  BY Zenon DEF parentStatuses
<1>2. buildGateway(objects, routes).routes = {Attached(k, live[k], ls, refs) : k \in Referring(live)}
  <2>1. buildGateway(objects, routes).routes = AllAttached(live, ls, refs)
    BY BuildParts DEF buildGateway
  <2>2. QED
    BY <2>1 DEF AllAttached
<1>3. \A k, spec : Attached(k, spec, ls, refs).name = k
  BY DEF Attached
<1>4. DOMAIN live = {m \in RouteName : routes[m] # Nil /\ ~routes[m].deleting} /\ \A k \in DOMAIN live : live[k] = routes[k].spec
  BY DEF liveRoutes
<1> HIDE DEF live, refs, ls
<1>5. n \in Referring(live) <=> isLive
  BY <1>4 DEF Referring
<1>6. isLive => mine = {an}
  BY <1>2, <1>3, <1>4, <1>5 DEF Referring
<1>7. ~isLive => mine = {}
  BY <1>2, <1>3, <1>5
<1>8. {entry(an, p) : p \in an.parents} = Entries(routes[n].spec, ls, refs)
  BY DEF Attached, Entries
<1> HIDE DEF mine, an, isLive
<1>9. isLive => P = {entry(an, p) : p \in an.parents}
  BY <1>6
<1>10. ~isLive => P = {}
  BY <1>7
<1> HIDE DEF P
<1>11. QED
  BY <1>1, <1>8, <1>9, <1>10 DEF isLive, ls, refs

-----------------------------------------------------------------------------
(* The inductive invariant *)

\* Nil, which stands for nothing, is not a record with the fields of an object or a job.
NilIsNoRecord ==
  \A r : DOMAIN r \in {GatewayFields, ClassFields, OwnedFields, RouteFields, GwJobFields, {"name", "read", "parents"}} => r # Nil

\* Somebody deletes or replaces an object only after the informers have delivered it as
\* one that a Gateway controls.
KnownFirst ==
  \A o \in Owned, v \in {Nil, Intruder} : Meddle(o, v) => cache[o] # Nil /\ cache[o].owner # Foreign

\* The uid of a Gateway is not given again, and its status is a record.
GatewaysInv ==
  \A g \in {api["gw"], cache["gw"]} : g # Nil => g.uid <= uids /\ g.status = [f \in StatusFields |-> g.status[f]]

\* A class is ours; one that has yet to get its finalizer was made by the last edit.
ClassesInv ==
  \A c \in {api["class"], cache["class"], classJob} :
    c # Nil => /\ c.ours = TRUE /\ c.params \in {"config", "absent"}
               /\ c.fin \in BOOLEAN /\ c.deleting \in BOOLEAN
               /\ c.fin \/ "class" \notin outside

\* An object of no Gateway has come in the place of a known one and stays.
IntruderInv ==
  \A o \in Owned :
    /\ api[o] # Nil /\ api[o].owner = Foreign => cache[o] # Nil /\ api[o].ready = FALSE
    /\ cache[o] # Nil /\ cache[o].owner = Foreign => api[o] = cache[o]

BaseInv == GatewaysInv /\ ClassesInv /\ IntruderInv

-----------------------------------------------------------------------------
(* What the steps do to the API server *)

\* What ensureControlled comes to, in full.
LEMMA EnsuredWrites ==
  ASSUME NilIsNoRecord, TypeInv, NEW o \in Owned, NEW u \in 1..MaxUid, NEW content
  PROVE  LET e == Ensured(o, u, content)
         IN /\ e.outcome \in {"written", "same", "error", "notControlled"}
            /\ e.outcome = "written" =>
                 /\ e.object # Nil /\ e.object.owner = u /\ e.object.content = content
                 /\ IF cache[o] = Nil THEN e.object.ready = FALSE
                    ELSE cache[o].owner = u /\ e.object.ready = cache[o].ready
            /\ e.outcome = "same" =>
                 /\ e.object = cache[o] /\ cache[o] # Nil
                 /\ cache[o].owner = u /\ cache[o].content = content
            /\ e.outcome = "notControlled" => cache[o] # Nil /\ cache[o].owner # u
<1> DEFINE c == cache[o]
           new == [c EXCEPT !.content = content]
           made == [owner |-> u, content |-> content, ready |-> FALSE]
           result(outcome, object) == [outcome |-> outcome, object |-> object]
<1>1. ThingOK(c)
  BY DEF TypeInv, ObjectsOK
<1>2. c # Nil => new # Nil /\ new.owner = c.owner /\ new.content = content /\ new.ready = c.ready
  <2>1. c # Nil => DOMAIN new = OwnedFields /\ new.owner = c.owner /\ new.content = content /\ new.ready = c.ready
    BY <1>1 DEF ThingOK, OwnedFields
  <2> HIDE DEF new
  <2>2. QED
    BY <2>1 DEF NilIsNoRecord
<1>3. made # Nil
  BY DEF NilIsNoRecord, OwnedFields
<1>4. CASE c = Nil /\ api[o] = Nil
  <2>1. Ensured(o, u, content) = result("written", made)
    BY <1>4 DEF Ensured
  <2>2. QED
    BY <1>3, <1>4, <2>1
<1>5. CASE c = Nil /\ api[o] # Nil
  <2>1. Ensured(o, u, content) = result("error", Nil)
    BY <1>5 DEF Ensured
  <2>2. QED
    BY <2>1
<1>6. CASE c # Nil /\ c.owner # u
  <2>1. Ensured(o, u, content) = result("notControlled", Nil)
    BY <1>6 DEF Ensured
  <2>2. QED
    BY <1>6, <2>1
<1>7. CASE c # Nil /\ c.owner = u /\ c = new
  <2>1. Ensured(o, u, content) = result("same", c)
    BY <1>7 DEF Ensured
  <2> HIDE DEF new
  <2>2. QED
    BY <1>2, <1>7, <2>1
<1>8. CASE c # Nil /\ c.owner = u /\ c # new /\ c # api[o]
  <2>1. Ensured(o, u, content) = result("error", Nil)
    BY <1>8 DEF Ensured
  <2>2. QED
    BY <2>1
<1>9. CASE c # Nil /\ c.owner = u /\ c # new /\ c = api[o]
  <2>1. Ensured(o, u, content) = result("written", new)
    BY <1>9 DEF Ensured
  <2> HIDE DEF new
  <2>2. QED
    BY <1>2, <1>9, <2>1
<1>10. QED
  BY <1>4, <1>5, <1>6, <1>7, <1>8, <1>9

\* ensureControlled leaves object v as o, which it has just written or found right.
Leaves(o, content, v) ==
  /\ v # Nil /\ v.owner = gwJob.gw.uid /\ v.content = content
  /\ IF cache[o] = Nil THEN v.ready = FALSE ELSE cache[o].owner = gwJob.gw.uid /\ v.ready = cache[o].ready
  /\ \/ api' = api /\ v = cache[o] /\ cache[o] # Nil
     \/ api' = [api EXCEPT ![o] = v]

\* It gives up and the Gateway waits again, or it leaves the object of somebody else.
GivesUp == api' = api /\ "gw" \in queue'
Refused(o) == api' = api /\ queue' = queue /\ cache[o] # Nil /\ cache[o].owner # gwJob.gw.uid

LEMMA DeploymentDone ==
  ASSUME NilIsNoRecord, TypeInv, ProvisionDeployment
  PROVE  \/ GivesUp
         \/ Refused("deploy") /\ Goes("tunnel", Condition(FALSE, "Invalid"), FALSE, Nil)
         \/ /\ queue' = queue
            /\ \E v : /\ Leaves("deploy", mutateEnvoyDeployment(gwJob.config), v)
                      /\ gwJob' = [gwJob EXCEPT !.pc = "svc", !.available = v.ready]
<1> DEFINE content == mutateEnvoyDeployment(gwJob.config)
           e == Ensured("deploy", gwJob.gw.uid, content)
           o == "deploy"
<1>0. gwJob # Nil /\ gwJob.gw.uid \in 1..MaxUid /\ "deploy" \in Owned
  BY DEF ProvisionDeployment, TypeInv, GwJobOK, GwOK, Owned
<1>1. CASE ~xdsUp
  BY <1>1 DEF ProvisionDeployment, Requeue, GivesUp
<1>2. CASE xdsUp
  <2> HIDE DEF content
  <2>1. /\ CASE e.outcome = "error" -> gwJob' = Nil /\ Requeue("gw")
             [] e.outcome = "notControlled" -> Goes("tunnel", Condition(FALSE, "Invalid"), FALSE, Nil) /\ UNCHANGED queue
             [] OTHER -> gwJob' = [gwJob EXCEPT !.pc = "svc", !.available = e.object.ready] /\ UNCHANGED queue
        /\ IF e.outcome = "written" THEN Write("deploy", e.object) ELSE UNCHANGED api
    BY <1>2 DEF ProvisionDeployment, Ensure, content
  <2>2. /\ e.outcome \in {"written", "same", "error", "notControlled"}
        /\ e.outcome = "written" =>
             /\ e.object # Nil /\ e.object.owner = gwJob.gw.uid /\ e.object.content = content
             /\ IF cache[o] = Nil THEN e.object.ready = FALSE
                ELSE cache[o].owner = gwJob.gw.uid /\ e.object.ready = cache[o].ready
        /\ e.outcome = "same" =>
             /\ e.object = cache[o] /\ cache[o] # Nil
             /\ cache[o].owner = gwJob.gw.uid /\ cache[o].content = content
        /\ e.outcome = "notControlled" => cache[o] # Nil /\ cache[o].owner # gwJob.gw.uid
    BY <1>0, EnsuredWrites
  <2> HIDE DEF e
  <2>3. CASE e.outcome = "error"
    BY <2>1, <2>3 DEF GivesUp, Requeue
  <2>4. CASE e.outcome = "notControlled"
    BY <2>1, <2>2, <2>4 DEF Refused
  <2>5. CASE e.outcome \in {"written", "same"}
    <3>1. Leaves("deploy", content, e.object)
      BY <2>1, <2>2, <2>5 DEF Leaves, Write
    <3>2. gwJob' = [gwJob EXCEPT !.pc = "svc", !.available = e.object.ready] /\ queue' = queue
      BY <2>1, <2>5
    <3>3. QED
      BY <3>1, <3>2 DEF content
  <2>6. QED
    BY <2>2, <2>3, <2>4, <2>5
<1>3. QED
  BY <1>1, <1>2

LEMMA ServiceDone ==
  ASSUME NilIsNoRecord, TypeInv, ProvisionService
  PROVE  \/ GivesUp
         \/ Refused("svc") /\ Goes("tunnel", Condition(FALSE, "Invalid"), FALSE, Nil)
         \/ /\ queue' = queue
            /\ \E v : /\ Leaves("svc", mutateEnvoyService(gwJob.model), v)
                      /\ Goes("tunnel", envoyProgrammed(gwJob.config, gwJob.available, v.ready), v.ready, Nil)
<1> DEFINE content == mutateEnvoyService(gwJob.model)
           e == Ensured("svc", gwJob.gw.uid, content)
           o == "svc"
<1>0. gwJob # Nil /\ gwJob.gw.uid \in 1..MaxUid /\ "svc" \in Owned
  BY DEF ProvisionService, TypeInv, GwJobOK, GwOK, Owned
<1> HIDE DEF content
<1>1. /\ CASE e.outcome = "error" -> gwJob' = Nil /\ Requeue("gw")
           [] e.outcome = "notControlled" -> Goes("tunnel", Condition(FALSE, "Invalid"), FALSE, Nil) /\ UNCHANGED queue
           [] OTHER -> /\ Goes("tunnel", envoyProgrammed(gwJob.config, gwJob.available, e.object.ready), e.object.ready, Nil)
                       /\ UNCHANGED queue
      /\ IF e.outcome = "written" THEN Write("svc", e.object) ELSE UNCHANGED api
  BY DEF ProvisionService, Ensure, content
<1>2. /\ e.outcome \in {"written", "same", "error", "notControlled"}
      /\ e.outcome = "written" =>
           /\ e.object # Nil /\ e.object.owner = gwJob.gw.uid /\ e.object.content = content
           /\ IF cache[o] = Nil THEN e.object.ready = FALSE
              ELSE cache[o].owner = gwJob.gw.uid /\ e.object.ready = cache[o].ready
      /\ e.outcome = "same" =>
           /\ e.object = cache[o] /\ cache[o] # Nil
           /\ cache[o].owner = gwJob.gw.uid /\ cache[o].content = content
      /\ e.outcome = "notControlled" => cache[o] # Nil /\ cache[o].owner # gwJob.gw.uid
  BY <1>0, EnsuredWrites
<1> HIDE DEF e
<1>3. CASE e.outcome = "error"
  BY <1>1, <1>3 DEF GivesUp, Requeue
<1>4. CASE e.outcome = "notControlled"
  BY <1>1, <1>2, <1>4 DEF Refused
<1>5. CASE e.outcome \in {"written", "same"}
  <2>1. Leaves("svc", content, e.object)
    BY <1>1, <1>2, <1>5 DEF Leaves, Write
  <2>2. /\ Goes("tunnel", envoyProgrammed(gwJob.config, gwJob.available, e.object.ready), e.object.ready, Nil)
        /\ queue' = queue
    BY <1>1, <1>5
  <2>3. QED
    BY <2>1, <2>2 DEF content
<1>6. QED
  BY <1>2, <1>3, <1>4, <1>5

LEMMA TunnelDone ==
  ASSUME NilIsNoRecord, TypeInv, ProvisionTunnel
  PROVE  LET with(tunnel) == Goes("status", gwJob.programmed, gwJob.addressed, tunnel)
         IN \/ GivesUp
            \/ /\ gwJob.config.template = Nil /\ api' = api /\ queue' = queue
               /\ with(Condition(FALSE, "NotImplemented"))
            \/ /\ gwJob.config.template # Nil
               /\ \/ Refused("tunnel") /\ with(Condition(FALSE, "Conflict"))
                  \/ /\ queue' = queue
                     /\ \E v : /\ Leaves("tunnel", tunnelSpec(gwJob.model, gwJob.gw, gwJob.config, cache["svc"]), v)
                               /\ with(tunnelCondition(v))
<1> DEFINE content == tunnelSpec(gwJob.model, gwJob.gw, gwJob.config, cache["svc"])
           e == Ensured("tunnel", gwJob.gw.uid, content)
           o == "tunnel"
           with(tunnel) == Goes("status", gwJob.programmed, gwJob.addressed, tunnel)
<1>0. gwJob # Nil /\ gwJob.gw.uid \in 1..MaxUid /\ "tunnel" \in Owned
  BY DEF ProvisionTunnel, TypeInv, GwJobOK, GwOK, Owned
<1>1. CASE gwJob.config.template = Nil
  BY <1>1 DEF ProvisionTunnel
<1>2. CASE gwJob.config.template # Nil
  <2> HIDE DEF content
  <2>1. /\ CASE e.outcome = "error" -> gwJob' = Nil /\ Requeue("gw")
             [] e.outcome = "notControlled" -> with(Condition(FALSE, "Conflict")) /\ UNCHANGED queue
             [] OTHER -> with(tunnelCondition(e.object)) /\ UNCHANGED queue
        /\ IF e.outcome = "written" THEN Write("tunnel", e.object) ELSE UNCHANGED api
    BY <1>2 DEF ProvisionTunnel, Ensure, content
  <2>2. /\ e.outcome \in {"written", "same", "error", "notControlled"}
        /\ e.outcome = "written" =>
             /\ e.object # Nil /\ e.object.owner = gwJob.gw.uid /\ e.object.content = content
             /\ IF cache[o] = Nil THEN e.object.ready = FALSE
                ELSE cache[o].owner = gwJob.gw.uid /\ e.object.ready = cache[o].ready
        /\ e.outcome = "same" =>
             /\ e.object = cache[o] /\ cache[o] # Nil
             /\ cache[o].owner = gwJob.gw.uid /\ cache[o].content = content
        /\ e.outcome = "notControlled" => cache[o] # Nil /\ cache[o].owner # gwJob.gw.uid
    BY <1>0, EnsuredWrites
  <2> HIDE DEF e, with
  <2>3. CASE e.outcome = "error"
    BY <2>1, <2>3 DEF GivesUp, Requeue
  <2>4. CASE e.outcome = "notControlled"
    BY <1>2, <2>1, <2>2, <2>4 DEF Refused, with
  <2>5. CASE e.outcome \in {"written", "same"}
    <3>1. Leaves("tunnel", content, e.object)
      BY <2>1, <2>2, <2>5 DEF Leaves, Write
    <3>2. with(tunnelCondition(e.object)) /\ queue' = queue
      BY <2>1, <2>5
    <3>3. QED
      BY <1>2, <3>1, <3>2 DEF content, with
  <2>6. QED
    BY <2>2, <2>3, <2>4, <2>5
<1>3. QED
  BY <1>1, <1>2

\* What the cluster and its users do to the Gateway, the class and a provisioned object.
GatewayMoves ==
  \/ api'["gw"] = api["gw"]
  \/ api'["gw"] = Nil
  \/ /\ api["gw"] # Nil /\ api'["gw"] # Nil
     /\ api'["gw"].uid = api["gw"].uid /\ api'["gw"].status = api["gw"].status
     /\ api'["gw"].deleting = FALSE => api["gw"].deleting = FALSE
  \/ /\ api["gw"] = Nil /\ api'["gw"] # Nil
     /\ api'["gw"].uid = uids + 1 /\ uids' = uids + 1
     /\ api'["gw"].status = NoStatus

ClassMoves ==
  \/ api'["class"] = api["class"]
  \/ api'["class"] = Nil
  \/ /\ api["class"] # Nil /\ api'["class"] # Nil
     /\ api'["class"].ours = api["class"].ours /\ api'["class"].fin = api["class"].fin
     /\ api'["class"].accepted = api["class"].accepted
     /\ api'["class"].params \in {api["class"].params, "config", "absent"}
     /\ api'["class"].deleting \in {api["class"].deleting, TRUE}
  \/ /\ api["class"] = Nil /\ api'["class"] # Nil
     /\ "class" \in outside /\ "class" \notin outside'
     /\ api'["class"].ours = TRUE /\ api'["class"].fin = FALSE /\ api'["class"].deleting = FALSE
     /\ api'["class"].params \in {"config", "absent"}

OwnedMoves(o) ==
  \/ api'[o] = api[o]
  \/ /\ api[o] # Nil /\ api[o].owner # Foreign /\ api'[o] = Nil
     /\ api["gw"] # Nil /\ api["gw"].uid = api[o].owner => api["gw"].deleting
     /\ api'["gw"] = api["gw"]
  \/ /\ cache[o] # Nil /\ cache[o].owner # Foreign
     /\ api'[o] = Nil \/ (api'[o] # Nil /\ api'[o].owner = Foreign /\ api'[o].ready = FALSE)
  \/ /\ api[o] # Nil /\ (api[o].owner # Foreign \/ api[o].ready = TRUE)
     /\ api'[o] # Nil /\ api'[o].owner = api[o].owner /\ api'[o].content = api[o].content

\* What somebody else's step leaves alone.
Elsewhere ==
  /\ UNCHANGED <<cache, routeCache, queue, routeQueue, classJob, gwJob, routeJob, snapshot, active>>
  /\ outside' \subseteq outside

LEMMA OutsideOnly == ASSUME outsideFrame, outside' = outside \/ \E k : Happens(k) PROVE Elsewhere
BY DEF outsideFrame, jobVars, Elsewhere, Happens

LEMMA ApiEffects ==
  ASSUME NilIsNoRecord, TypeInv, ApiSteps, [KnownFirst]_vars
  PROVE  /\ Elsewhere /\ UNCHANGED <<route, xdsUp>> /\ uids' \in {uids, uids + 1}
         /\ GatewayMoves /\ ClassMoves /\ \A o \in Owned : OwnedMoves(o)
<1>1. /\ GwOK(api["gw"]) /\ ClassOK(api["class"]) /\ \A o \in Owned : ThingOK(api[o])
      /\ DOMAIN api = Object
  BY DEF TypeInv, ObjectsOK
<1>2. ASSUME NEW x \in Object, NEW v, Write(x, v)
      PROVE  api'[x] = v /\ \A y \in Object \ {x} : api'[y] = api[y]
  BY <1>1, <1>2 DEF Write
<1>3. \A k : Event(k) => Elsewhere /\ k \in outside /\ k \notin outside'
  BY OutsideOnly DEF Event, Happens
<1>4. CASE CollectGateway
  <2>1. Elsewhere /\ UNCHANGED <<route, xdsUp, uids>> /\ Write("gw", Nil)
    BY <1>4, OutsideOnly DEF CollectGateway
  <2>2. QED
    BY <1>2, <2>1, ObjectNames DEF GatewayMoves, ClassMoves, OwnedMoves
<1>5. CASE \E o \in Owned : Collect(o)
  <2>1. PICK o \in Owned : Collect(o)
    BY <1>5
  <2>2. Elsewhere /\ UNCHANGED <<route, xdsUp, uids>> /\ Write(o, Nil)
    BY <2>1, OutsideOnly DEF Collect
  <2>3. api'[o] = Nil /\ \A y \in Object \ {o} : api'[y] = api[y]
    BY <1>2, <2>2, ObjectNames
  <2>4. OwnedMoves(o)
    BY <2>1, <2>3, ObjectNames DEF Collect, OwnedMoves
  <2>5. QED
    BY <2>2, <2>3, <2>4, ObjectNames DEF GatewayMoves, ClassMoves, OwnedMoves
<1>6. CASE \E o \in Owned : BecomesReady(o) \/ BecomesUnready(o)
  <2>1. PICK o \in Owned : BecomesReady(o) \/ BecomesUnready(o)
    BY <1>6
  <2>2. Elsewhere /\ UNCHANGED <<route, xdsUp, uids>>
    BY <1>3, <2>1, OutsideOnly DEF BecomesReady, BecomesUnready
  <2>3. PICK b \in BOOLEAN : Write(o, [api[o] EXCEPT !.ready = b])
    BY <2>1 DEF BecomesReady, BecomesUnready
  <2> DEFINE v == [api[o] EXCEPT !.ready = b]
  <2>4. api[o] # Nil /\ (api[o].owner # Foreign \/ api[o].ready = TRUE)
    BY <1>1, <2>1 DEF BecomesReady, BecomesUnready, ThingOK
  <2>5. v # Nil /\ v.owner = api[o].owner /\ v.content = api[o].content
    <3>1. DOMAIN v = OwnedFields /\ v.owner = api[o].owner /\ v.content = api[o].content
      BY <1>1, <2>4 DEF ThingOK, OwnedFields
    <3> HIDE DEF v
    <3>2. QED
      BY <3>1 DEF NilIsNoRecord
  <2> HIDE DEF v
  <2>6. api'[o] = v /\ \A y \in Object \ {o} : api'[y] = api[y]
    BY <1>2, <2>3, ObjectNames DEF v
  <2>7. QED
    BY <2>2, <2>4, <2>5, <2>6, ObjectNames DEF GatewayMoves, ClassMoves, OwnedMoves
<1>7. CASE \E o \in Owned : \E v \in {Nil, Intruder} : Meddle(o, v)
  <2>1. PICK o \in Owned : \E v \in {Nil, Intruder} : Meddle(o, v)
    BY <1>7
  <2>2. PICK v \in {Nil, Intruder} : Meddle(o, v)
    BY <2>1
  <2>3. Elsewhere /\ UNCHANGED <<route, xdsUp, uids>> /\ Write(o, v) /\ outside' # outside
    BY <1>3, <2>2 DEF Meddle
  <2>4. cache[o] # Nil /\ cache[o].owner # Foreign
    BY <2>2, <2>3 DEF KnownFirst, vars
  <2>5. Intruder # Nil /\ Intruder.owner = Foreign /\ Intruder.ready = FALSE
    BY DEF NilIsNoRecord, Intruder, OwnedFields
  <2>6. api'[o] = v /\ \A y \in Object \ {o} : api'[y] = api[y]
    BY <1>2, <2>3, ObjectNames
  <2>7. QED
    BY <2>3, <2>4, <2>5, <2>6, ObjectNames DEF GatewayMoves, ClassMoves, OwnedMoves
<1>8. CASE \E s \in GatewaySpecs : CreateGateway(s)
  <2>1. PICK s \in GatewaySpecs : CreateGateway(s)
    BY <1>8
  <2> DEFINE v == NewGateway(uids + 1, s)
  <2>2. Elsewhere /\ UNCHANGED <<route, xdsUp>> /\ api["gw"] = Nil /\ uids' = uids + 1 /\ Write("gw", v)
    BY <1>3, <2>1 DEF CreateGateway
  <2>3. v # Nil /\ v.uid = uids + 1 /\ v.status = NoStatus
    <3>1. DOMAIN v = GatewayFields /\ v.uid = uids + 1 /\ v.status = NoStatus
      BY DEF NewGateway, GatewayFields
    <3> HIDE DEF v
    <3>2. QED
      BY <3>1 DEF NilIsNoRecord
  <2> HIDE DEF v
  <2>4. api'["gw"] = v /\ \A y \in Object \ {"gw"} : api'[y] = api[y]
    BY <1>2, <2>2, ObjectNames
  <2>5. QED
    BY <2>2, <2>3, <2>4, ObjectNames DEF GatewayMoves, ClassMoves, OwnedMoves
<1>9. CASE (\E s \in GatewaySpecs : EditGateway(s)) \/ (\E f \in BOOLEAN : DeleteGateway(f))
  <2>1. Elsewhere /\ UNCHANGED <<route, xdsUp, uids>> /\ api["gw"] # Nil
    BY <1>3, <1>9 DEF EditGateway, DeleteGateway
  <2>2. PICK v : /\ Write("gw", v)
                 /\ \/ v = Nil
                    \/ v = [api["gw"] EXCEPT !.deleting = TRUE]
                    \/ \E s \in GatewaySpecs : v = [api["gw"] EXCEPT !.spec = s]
    BY <1>9 DEF EditGateway, DeleteGateway
  <2>3. \/ v = Nil
        \/ /\ v # Nil /\ v.uid = api["gw"].uid /\ v.status = api["gw"].status
           /\ v.deleting = FALSE => api["gw"].deleting = FALSE
    <3>1. \/ v = Nil
          \/ /\ DOMAIN v = GatewayFields /\ v.uid = api["gw"].uid /\ v.status = api["gw"].status
             /\ v.deleting = FALSE => api["gw"].deleting = FALSE
      BY <1>1, <2>1, <2>2 DEF GwOK, GatewayFields
    <3>2. QED
      BY <3>1 DEF NilIsNoRecord
  <2>4. api'["gw"] = v /\ \A y \in Object \ {"gw"} : api'[y] = api[y]
    BY <1>2, <2>2, ObjectNames
  <2>5. QED
    BY <2>1, <2>3, <2>4, ObjectNames DEF GatewayMoves, ClassMoves, OwnedMoves
<1>10. CASE \E p \in {"config", "absent"} : EditClass(p)
  <2>1. PICK p \in {"config", "absent"} : EditClass(p)
    BY <1>10
  <2>2. Elsewhere /\ UNCHANGED <<route, xdsUp, uids>> /\ "class" \in outside /\ "class" \notin outside'
    BY <1>3, <2>1 DEF EditClass
  <2>3. PICK v : /\ Write("class", v)
                 /\ v = IF api["class"] = Nil THEN NewClass(p) ELSE [api["class"] EXCEPT !.params = p]
    BY <2>1 DEF EditClass
  <2>4. /\ v # Nil /\ v.params = p
        /\ IF api["class"] = Nil THEN v.ours = TRUE /\ v.fin = FALSE /\ v.deleting = FALSE
           ELSE /\ v.ours = api["class"].ours /\ v.fin = api["class"].fin
                /\ v.accepted = api["class"].accepted /\ v.deleting = api["class"].deleting
    <3>1. /\ DOMAIN v = ClassFields /\ v.params = p
          /\ IF api["class"] = Nil THEN v.ours = TRUE /\ v.fin = FALSE /\ v.deleting = FALSE
             ELSE /\ v.ours = api["class"].ours /\ v.fin = api["class"].fin
                  /\ v.accepted = api["class"].accepted /\ v.deleting = api["class"].deleting
      BY <1>1, <2>3 DEF ClassOK, ClassFields, NewClass
    <3>2. QED
      BY <3>1 DEF NilIsNoRecord
  <2>5. api'["class"] = v /\ \A y \in Object \ {"class"} : api'[y] = api[y]
    BY <1>2, <2>3, ObjectNames
  <2>6. QED
    BY <2>2, <2>4, <2>5, ObjectNames DEF GatewayMoves, ClassMoves, OwnedMoves
<1>11. CASE DeleteClass
  <2>1. Elsewhere /\ UNCHANGED <<route, xdsUp, uids>> /\ api["class"] # Nil
    BY <1>3, <1>11 DEF DeleteClass
  <2>2. PICK v : Write("class", v) /\ (v = Nil \/ v = [api["class"] EXCEPT !.deleting = TRUE])
    BY <1>11 DEF DeleteClass
  <2>3. \/ v = Nil
        \/ /\ v # Nil /\ v.ours = api["class"].ours /\ v.fin = api["class"].fin
           /\ v.accepted = api["class"].accepted /\ v.deleting = TRUE /\ v.params = api["class"].params
    <3>1. \/ v = Nil
          \/ /\ DOMAIN v = ClassFields /\ v.ours = api["class"].ours /\ v.fin = api["class"].fin
             /\ v.accepted = api["class"].accepted /\ v.deleting = TRUE /\ v.params = api["class"].params
      BY <1>1, <2>1, <2>2 DEF ClassOK, ClassFields
    <3>2. QED
      BY <3>1 DEF NilIsNoRecord
  <2>4. api'["class"] = v /\ \A y \in Object \ {"class"} : api'[y] = api[y]
    BY <1>2, <2>2, ObjectNames
  <2>5. QED
    BY <2>1, <2>3, <2>4, ObjectNames DEF GatewayMoves, ClassMoves, OwnedMoves
<1>12. ASSUME NEW x \in {"config", "grants", "services", "secrets"}, NEW v, Change(x, v)
       PROVE  /\ Elsewhere /\ UNCHANGED <<route, xdsUp>> /\ uids' \in {uids, uids + 1}
              /\ GatewayMoves /\ ClassMoves /\ \A o \in Owned : OwnedMoves(o)
  <2>1. x \in Object /\ x # "gw" /\ x # "class" /\ x \notin Owned
    BY DEF Object, Owned
  <2>2. Elsewhere /\ UNCHANGED <<route, xdsUp, uids>> /\ Write(x, v)
    BY <1>3, <1>12 DEF Change
  <2>3. QED
    BY <1>2, <2>1, <2>2, ObjectNames DEF GatewayMoves, ClassMoves, OwnedMoves
<1>13. QED
  BY <1>4, <1>5, <1>6, <1>7, <1>8, <1>9, <1>10, <1>11, <1>12 DEF ApiSteps

\* The steps of the class's controller.
LEMMA ClassEffects ==
  ASSUME NilIsNoRecord, TypeInv, ClassesInv, ClassReconcile \/ ClassStatus
  PROVE  /\ UNCHANGED <<cache, route, routeCache, xdsUp, uids, routeQueue, gwJob, routeJob, snapshot, active, outside>>
         /\ \A o \in Object : o # "class" => api'[o] = api[o]
         /\ queue' \cup {"class"} = queue \cup {"class"}
         /\ \/ api'["class"] = api["class"]
            \/ api'["class"] = Nil /\ ClassReconcile
            \/ /\ api["class"] # Nil /\ api'["class"] # Nil
               /\ api'["class"].ours = TRUE /\ api'["class"].deleting \in BOOLEAN
               /\ api'["class"].params = api["class"].params
               /\ \/ ClassReconcile /\ api'["class"].fin = TRUE
                  \/ ClassStatus /\ api'["class"].fin = api["class"].fin
         /\ \/ classJob' \in {classJob, Nil}
            \/ /\ ClassReconcile /\ cache["class"] # Nil /\ classJob' # Nil
               /\ classJob'.ours = TRUE /\ classJob'.deleting \in BOOLEAN /\ classJob'.fin = TRUE
               /\ classJob'.params = cache["class"].params /\ classJob'.accepted = cache["class"].accepted
<1>1. /\ ClassOK(api["class"]) /\ ClassOK(cache["class"]) /\ DOMAIN api = Object /\ "class" \in Object
  BY ObjectNames DEF TypeInv, ObjectsOK
<1>2. \A c \in {api["class"], cache["class"]} :
        c # Nil => c.ours = TRUE /\ c.params \in {"config", "absent"} /\ c.fin \in BOOLEAN /\ c.deleting \in BOOLEAN
  BY DEF ClassesInv
<1>3. UNCHANGED <<cache, route, routeCache, xdsUp, uids, routeQueue, gwJob, routeJob, snapshot, active, outside>>
  BY DEF ClassReconcile, ClassStatus
<1>4. queue' \cup {"class"} = queue \cup {"class"}
  BY DEF ClassReconcile, ClassStatus, Requeue
<1>5. CASE ClassReconcile
  <2> DEFINE c == cache["class"]
             v == [c EXCEPT !.fin = TRUE]
  <2>1. c # Nil => /\ v # Nil /\ v.ours = TRUE /\ v.deleting \in BOOLEAN /\ v.fin = TRUE
                   /\ v.params = c.params /\ v.accepted = c.accepted
    <3>1. c # Nil => /\ DOMAIN v = ClassFields /\ v.ours = c.ours /\ v.deleting = c.deleting /\ v.fin = TRUE
                     /\ v.params = c.params /\ v.accepted = c.accepted
      BY <1>1 DEF ClassOK, ClassFields
    <3> HIDE DEF v
    <3>2. QED
      BY <1>2, <3>1 DEF NilIsNoRecord
  <2>2. \/ api' = api /\ classJob' = classJob
        \/ Ours(cache) /\ classJob' = v /\ (api' = api \/ (api["class"] = c /\ Write("class", v)))
        \/ Write("class", Nil) /\ classJob' = classJob
    BY <1>5 DEF ClassReconcile
  <2> HIDE DEF v
  <2>3. CASE api' = api /\ classJob' = classJob
    BY <1>3, <1>4, <2>3
  <2>4. CASE Ours(cache) /\ classJob' = v /\ (api' = api \/ (api["class"] = c /\ Write("class", v)))
    <3>1. c # Nil
      BY <2>4 DEF Ours
    <3>2. QED
      BY <1>1, <1>3, <1>4, <1>5, <2>1, <2>4, <3>1 DEF Write
  <2>5. CASE Write("class", Nil) /\ classJob' = classJob
    BY <1>1, <1>3, <1>4, <1>5, <2>5 DEF Write
  <2>6. QED
    BY <2>2, <2>3, <2>4, <2>5
<1>6. CASE ClassStatus
  <2>1. classJob' = Nil
    BY <1>6 DEF ClassStatus
  <2>2. \/ api' = api
        \/ api["class"] # Nil /\ \E a : Write("class", [api["class"] EXCEPT !.accepted = a])
    BY <1>6 DEF ClassStatus
  <2>3. CASE api' = api
    BY <1>3, <1>4, <2>1, <2>3
  <2>4. CASE api["class"] # Nil /\ \E a : Write("class", [api["class"] EXCEPT !.accepted = a])
    <3>1. PICK a : Write("class", [api["class"] EXCEPT !.accepted = a])
      BY <2>4
    <3> DEFINE v == [api["class"] EXCEPT !.accepted = a]
    <3>2. /\ v # Nil /\ v.ours = TRUE /\ v.deleting \in BOOLEAN /\ v.fin = api["class"].fin
          /\ v.params = api["class"].params
      <4>1. /\ DOMAIN v = ClassFields /\ v.ours = api["class"].ours /\ v.deleting = api["class"].deleting
            /\ v.fin = api["class"].fin /\ v.params = api["class"].params
        BY <1>1, <2>4 DEF ClassOK, ClassFields
      <4> HIDE DEF v
      <4>2. QED
        BY <1>2, <2>4, <4>1 DEF NilIsNoRecord
    <3>3. Write("class", v)
      BY <3>1
    <3> HIDE DEF v
    <3>4. api'["class"] = v /\ \A o \in Object : o # "class" => api'[o] = api[o]
      BY <1>1, <3>3 DEF Write
    <3>5. QED
      BY <1>3, <1>4, <1>6, <2>1, <2>4, <3>2, <3>4
  <2>5. QED
    BY <2>2, <2>3, <2>4
<1>7. QED
  BY <1>5, <1>6

\* The steps of the Gateway's controller: what they write.
GatewaySteps ==
  GatewayReconcile \/ ProvisionDeployment \/ ProvisionService \/ ProvisionTunnel \/ PatchGateway

LEMMA GatewayEffects ==
  ASSUME NilIsNoRecord, TypeInv, GatewaySteps
  PROVE  /\ UNCHANGED <<cache, route, routeCache, xdsUp, uids, routeQueue, classJob, routeJob, snapshot, active, outside>>
         /\ queue' \cup {"gw"} = queue \cup {"gw"}
         /\ \A o \in Object \ (Owned \cup {"gw"}) : api'[o] = api[o]
         /\ \A o \in Owned : \/ api'[o] = api[o]
                             \/ /\ api'[o] # Nil /\ api'[o].owner # Foreign
                                /\ cache[o] # Nil => cache[o].owner # Foreign
         /\ \/ api'["gw"] = api["gw"]
            \/ /\ PatchGateway
               /\ api["gw"] # Nil /\ api'["gw"] # Nil
               /\ api'["gw"].uid = api["gw"].uid /\ api'["gw"].deleting = api["gw"].deleting
               /\ api'["gw"].status = [f \in StatusFields |-> api'["gw"].status[f]]
<1>0. UNCHANGED <<cache, route, routeCache, xdsUp, uids, routeQueue, classJob, routeJob, snapshot, active, outside>>
  BY DEF GatewaySteps, GatewayReconcile, ProvisionDeployment, ProvisionService, ProvisionTunnel, PatchGateway, gwFrame
<1>1. DOMAIN api = Object /\ GwOK(api["gw"])
  BY DEF TypeInv, ObjectsOK
<1>2. CASE GatewayReconcile
  <2>1. queue' \cup {"gw"} = queue \cup {"gw"} /\ api' = api
    BY <1>2 DEF GatewayReconcile
  <2>2. QED
    BY <1>0, <2>1, ObjectNames
<1>3. ASSUME NEW x \in Owned, gwJob # Nil,
             \/ GivesUp /\ queue' = queue \cup {"gw"}
             \/ Refused(x)
             \/ queue' = queue /\ (api' = api \/ \E v, content : Leaves(x, content, v))
      PROVE  /\ queue' \cup {"gw"} = queue \cup {"gw"}
             /\ \A o \in Object \ (Owned \cup {"gw"}) : api'[o] = api[o]
             /\ \A o \in Owned : \/ api'[o] = api[o]
                                 \/ /\ api'[o] # Nil /\ api'[o].owner # Foreign
                                    /\ cache[o] # Nil => cache[o].owner # Foreign
             /\ api'["gw"] = api["gw"]
  <2>1. queue' \cup {"gw"} = queue \cup {"gw"}
    BY <1>3 DEF Refused
  <2>2. gwJob.gw.uid # Foreign
    BY <1>3 DEF TypeInv, GwJobOK, GwOK, Foreign
  <2>3. CASE api' = api
    BY <2>1, <2>3, ObjectNames
  <2>4. CASE \E v, content : Leaves(x, content, v)
    <3>1. PICK v, content : Leaves(x, content, v)
      BY <2>4
    <3>2. CASE api' = [api EXCEPT ![x] = v]
      <4>1. /\ v # Nil /\ v.owner # Foreign
            /\ cache[x] # Nil => cache[x].owner # Foreign
        BY <2>2, <3>1 DEF Leaves
      <4>2. api'[x] = v /\ \A y \in Object : y # x => api'[y] = api[y]
        BY <1>1, <3>2, ObjectNames
      <4>3. QED
        BY <2>1, <4>1, <4>2, ObjectNames
    <3>3. QED
      BY <2>3, <3>1, <3>2 DEF Leaves
  <2>5. QED
    BY <1>3, <2>3, <2>4 DEF GivesUp, Refused
<1>4. CASE ProvisionDeployment \/ ProvisionService \/ ProvisionTunnel
  <2>1. gwJob # Nil /\ {"deploy", "svc", "tunnel"} \subseteq Owned
    BY <1>4 DEF ProvisionDeployment, ProvisionService, ProvisionTunnel, Owned
  <2>2. queue' \in {queue, queue \cup {"gw"}}
    BY <1>4, DeploymentEffect, ServiceEffect, TunnelEffect DEF Provisioned
  <2>3. \E x \in Owned : \/ GivesUp /\ queue' = queue \cup {"gw"}
                         \/ Refused(x)
                         \/ queue' = queue /\ (api' = api \/ \E v, content : Leaves(x, content, v))
    <3>1. CASE ProvisionDeployment
      BY <2>1, <2>2, <3>1, DeploymentDone DEF GivesUp
    <3>2. CASE ProvisionService
      BY <2>1, <2>2, <3>2, ServiceDone DEF GivesUp
    <3>3. CASE ProvisionTunnel
      BY <2>1, <2>2, <3>3, TunnelDone DEF GivesUp
    <3>4. QED
      BY <1>4, <3>1, <3>2, <3>3
  <2>4. QED
    BY <1>0, <1>3, <2>1, <2>3
<1>5. CASE PatchGateway
  <2>1. CASE api["gw"] = Nil
    <3>1. queue' = queue \cup {"gw"} /\ api' = api
      BY <1>5, <2>1 DEF PatchGateway, Requeue
    <3>2. QED
      BY <1>0, <3>1, ObjectNames
  <2>2. CASE api["gw"] # Nil
    <3> DEFINE new == statusOf(gwJob.model, gwJob.accepted, gwJob.programmed, gwJob.tunnel, gwJob.addressed)
               st == Patched(api["gw"].status, gwJob.gw.status, new)
               v == [api["gw"] EXCEPT !.status = st]
    <3>1. queue' = queue /\ Write("gw", v)
      BY <1>5, <2>2 DEF PatchGateway
    <3>2. DOMAIN new = StatusFields
      BY StatusFieldsOK
    <3> HIDE DEF new
    <3>3. st = [f \in StatusFields |-> st[f]]
      BY <3>2 DEF Patched
    <3> HIDE DEF st
    <3>4. DOMAIN v = GatewayFields /\ v.uid = api["gw"].uid /\ v.deleting = api["gw"].deleting /\ v.status = st
      BY <1>1, <2>2 DEF GwOK, GatewayFields
    <3> HIDE DEF v
    <3>5. v # Nil
      BY <3>4 DEF NilIsNoRecord
    <3>6. api'["gw"] = v /\ \A o \in Object : o # "gw" => api'[o] = api[o]
      BY <1>1, <3>1, ObjectNames DEF Write
    <3>7. QED
      BY <1>0, <1>5, <2>2, <3>1, <3>3, <3>4, <3>5, <3>6, ObjectNames
  <2>3. QED
    BY <2>1, <2>2
<1>6. QED
  BY <1>2, <1>4, <1>5 DEF GatewaySteps

-----------------------------------------------------------------------------
(* The objects are as the controllers expect *)

LEMMA NoStatusIsRecord == NoStatus = [f \in StatusFields |-> NoStatus[f]]
BY DEF NoStatus, StatusFields

LEMMA BaseStep ==
  ASSUME NilIsNoRecord, TypeInv, BaseInv, [Next]_vars, [KnownFirst]_vars
  PROVE  BaseInv'
<1>0. uids \in Nat /\ GwOK(api["gw"]) /\ GwOK(cache["gw"]) /\ DOMAIN api = Object /\ DOMAIN cache = Object
  BY ObjectNames DEF TypeInv, ObjectsOK
<1>1. CASE ApiSteps
  <2>1. /\ Elsewhere /\ uids' \in {uids, uids + 1}
        /\ GatewayMoves /\ ClassMoves /\ \A o \in Owned : OwnedMoves(o)
    BY <1>1, ApiEffects
  <2>2. GatewaysInv'
    BY <1>0, <2>1, NoStatusIsRecord DEF BaseInv, GatewaysInv, GwOK, Elsewhere, GatewayMoves
  <2>3. ClassesInv'
    BY <2>1 DEF BaseInv, ClassesInv, Elsewhere, ClassMoves
  <2>4. ASSUME NEW o \in Owned
        PROVE  /\ api'[o] # Nil /\ api'[o].owner = Foreign => cache'[o] # Nil /\ api'[o].ready = FALSE
               /\ cache'[o] # Nil /\ cache'[o].owner = Foreign => api'[o] = cache'[o]
    <3>1. OwnedMoves(o) /\ cache' = cache
      BY <2>1 DEF Elsewhere
    <3>2. /\ api[o] # Nil /\ api[o].owner = Foreign => cache[o] # Nil /\ api[o].ready = FALSE
          /\ cache[o] # Nil /\ cache[o].owner = Foreign => api[o] = cache[o]
      BY DEF BaseInv, IntruderInv
    <3>3. QED
      BY <3>1, <3>2 DEF OwnedMoves
  <2>5. QED
    BY <2>2, <2>3, <2>4 DEF BaseInv, IntruderInv
<1>2. CASE ClassReconcile \/ ClassStatus
  <2>1. /\ UNCHANGED <<cache, uids, outside>>
        /\ \A o \in Object : o # "class" => api'[o] = api[o]
        /\ \/ api'["class"] = api["class"]
           \/ api'["class"] = Nil
           \/ /\ api["class"] # Nil /\ api'["class"] # Nil
              /\ api'["class"].ours = TRUE /\ api'["class"].deleting \in BOOLEAN
              /\ api'["class"].params = api["class"].params
              /\ api'["class"].fin \in {TRUE, api["class"].fin}
        /\ \/ classJob' \in {classJob, Nil}
           \/ /\ cache["class"] # Nil /\ classJob' # Nil
              /\ classJob'.ours = TRUE /\ classJob'.deleting \in BOOLEAN /\ classJob'.fin = TRUE
              /\ classJob'.params = cache["class"].params
    BY <1>2, ClassEffects DEF BaseInv
  <2>2. GatewaysInv' /\ IntruderInv'
    BY <2>1, ObjectNames DEF BaseInv, GatewaysInv, IntruderInv
  <2>3. ClassesInv'
    BY <2>1 DEF BaseInv, ClassesInv
  <2>4. QED
    BY <2>2, <2>3 DEF BaseInv
<1>3. CASE GatewaySteps
  <2>1. /\ UNCHANGED <<cache, uids, classJob, outside>>
        /\ \A o \in Object \ (Owned \cup {"gw"}) : api'[o] = api[o]
        /\ \A o \in Owned : \/ api'[o] = api[o]
                            \/ /\ api'[o] # Nil /\ api'[o].owner # Foreign
                               /\ cache[o] # Nil => cache[o].owner # Foreign
        /\ \/ api'["gw"] = api["gw"]
           \/ /\ api["gw"] # Nil /\ api'["gw"] # Nil
              /\ api'["gw"].uid = api["gw"].uid
              /\ api'["gw"].status = [f \in StatusFields |-> api'["gw"].status[f]]
    BY <1>3, GatewayEffects
  <2>2. ClassesInv'
    BY <2>1, ObjectNames DEF BaseInv, ClassesInv
  <2>3. GatewaysInv'
    BY <2>1 DEF BaseInv, GatewaysInv
  <2>4. IntruderInv'
    BY <2>1 DEF BaseInv, IntruderInv
  <2>5. QED
    BY <2>2, <2>3, <2>4 DEF BaseInv
<1>4. CASE (\E n \in RouteName : RouteReconcile(n) \/ SyncRoute(n)) \/ PatchRoute \/ XDSReconcile
           \/ (\E c \in {"class", "gw", "route"} : CallFails(c)) \/ XdsChanges \/ UNCHANGED vars
  <2>1. UNCHANGED <<api, cache, uids>> /\ outside' \subseteq outside /\ classJob' \in {classJob, Nil}
    BY <1>4 DEF RouteReconcile, SyncRoute, PatchRoute, XDSReconcile, CallFails, XdsChanges, Event, Happens, outsideFrame,
       vars, worldVars, jobVars
  <2>2. QED
    BY <2>1 DEF BaseInv, GatewaysInv, ClassesInv, IntruderInv
<1>5. CASE \E n \in RouteName : DeleteRoute(n) \/ OtherStatus(n) \/ \E s \in RouteSpecs : EditRoute(n, s)
  <2>1. UNCHANGED <<api, cache, uids>> /\ outside' \subseteq outside /\ classJob' = classJob
    BY <1>5 DEF DeleteRoute, OtherStatus, EditRoute, Event, Happens, outsideFrame, jobVars
  <2>2. QED
    BY <2>1 DEF BaseInv, GatewaysInv, ClassesInv, IntruderInv
<1>6. CASE Restart
  <2>1. api' = api /\ cache' = api /\ uids' = uids /\ outside' \subseteq outside /\ classJob' = Nil
    BY <1>6 DEF Restart, Happens
  <2>2. QED
    BY <2>1 DEF BaseInv, GatewaysInv, ClassesInv, IntruderInv
<1>7. CASE \E o \in Object : Sync(o)
  <2>1. PICK o \in Object : Sync(o)
    BY <1>7
  <2>2. UNCHANGED <<api, uids, classJob, outside>> /\ cache' = [cache EXCEPT ![o] = api[o]]
    BY <2>1 DEF Sync, jobVars
  <2>3. \A x \in Object : cache'[x] \in {cache[x], api[x]}
    BY <1>0, <2>2
  <2>4. QED
    BY <2>2, <2>3, ObjectNames DEF BaseInv, GatewaysInv, ClassesInv, IntruderInv
<1>8. QED
  BY <1>1, <1>2, <1>3, <1>4, <1>5, <1>6, <1>7 DEF Next, Operator, Cluster, Outside, ApiSteps, GatewaySteps

-----------------------------------------------------------------------------
(* The class's condition *)

LEMMA StepKinds ==
  ASSUME [Next]_vars
  PROVE  \/ ApiSteps \/ RouteSteps \/ ClassReconcile \/ ClassStatus \/ GatewaySteps
         \/ (\E n \in RouteName : RouteReconcile(n) \/ SyncRoute(n)) \/ PatchRoute \/ XDSReconcile
         \/ (\E o \in Object : Sync(o))
         \/ (\E c \in {"class", "gw", "route"} : CallFails(c)) \/ Restart \/ XdsChanges \/ UNCHANGED vars
BY DEF Next, Operator, Cluster, Outside, ApiSteps, RouteSteps, GatewaySteps

LEMMA RouteStepsElsewhere == ASSUME RouteSteps PROVE Elsewhere /\ UNCHANGED <<api, xdsUp, uids>>
BY OutsideOnly DEF RouteSteps, DeleteRoute, OtherStatus, EditRoute, Event, Happens

\* The condition that a class should have.
Right(class, config) == IF Resolve(class, config) = "Resolved" THEN "Accepted" ELSE "InvalidParameters"

LEMMA RightDepends ==
  ASSUME NEW c, NEW d, c.params = d.params, NEW x, NEW y, c.params = "absent" \/ x = y
  PROVE  Right(c, x) = Right(d, y)
BY DEF Right, Resolve

\* The class's controller, when it does not wait, has the condition right, is about to
\* write it from what the cache has, or the cache has yet to hear of the class's change.
ClassInv ==
  "class" \in active /\ "class" \notin queue /\ cache["class"] # Nil /\ ~cache["class"].deleting =>
    IF classJob # Nil
    THEN classJob.params = cache["class"].params /\ classJob.accepted = cache["class"].accepted
    ELSE \/ cache["class"].accepted = Right(cache["class"], cache["config"])
         \/ api["class"] = Nil
         \/ api["class"].accepted # cache["class"].accepted
         \/ api["class"].fin # cache["class"].fin

LEMMA ClassStep ==
  ASSUME NilIsNoRecord, TypeInv, BaseInv, ClassInv, [Next]_vars, [KnownFirst]_vars
  PROVE  ClassInv'
<1>0. ClassesInv /\ DOMAIN api = Object /\ DOMAIN cache = Object /\ ClassOK(api["class"])
  BY DEF BaseInv, TypeInv, ObjectsOK
<1>1. CASE ApiSteps
  <2>1. Elsewhere /\ ClassMoves
    BY <1>1, ApiEffects
  <2>2. cache["class"] # Nil => cache["class"].fin \/ "class" \notin outside
    BY <1>0 DEF ClassesInv
  <2>3. QED
    BY <2>1, <2>2 DEF Elsewhere, ClassMoves, ClassInv
<1>2. CASE ClassReconcile
  <2>1. /\ UNCHANGED <<cache, active>>
        /\ \/ classJob' \in {classJob, Nil}
           \/ /\ classJob' # Nil
              /\ classJob'.params = cache["class"].params /\ classJob'.accepted = cache["class"].accepted
    BY <1>0, <1>2, ClassEffects
  <2>2. \/ cache["class"] = Nil
        \/ cache["class"].deleting
        \/ "class" \in queue'
        \/ classJob' = [cache["class"] EXCEPT !.fin = TRUE] /\ cache["class"] # Nil
    <3>1. cache["class"] # Nil => Ours(cache)
      BY <1>0 DEF ClassesInv, Ours
    <3>2. QED
      BY <1>2, <3>1 DEF ClassReconcile
  <2>3. classJob = Nil
    BY <1>2 DEF ClassReconcile
  <2>4. cache["class"] # Nil => [cache["class"] EXCEPT !.fin = TRUE] # Nil
    <3> DEFINE v == [cache["class"] EXCEPT !.fin = TRUE]
    <3>1. cache["class"] # Nil => DOMAIN v = ClassFields
      BY DEF TypeInv, ObjectsOK, ClassOK
    <3> HIDE DEF v
    <3>2. cache["class"] # Nil => v # Nil
      BY <3>1 DEF NilIsNoRecord
    <3>3. QED
      BY <3>2 DEF v
  <2>5. QED
    BY <2>1, <2>2, <2>3, <2>4 DEF ClassInv
<1>3. CASE ClassStatus
  <2> DEFINE a == Right(classJob, cache["config"])
  <2>1. /\ UNCHANGED <<cache, active>> /\ classJob # Nil /\ classJob' = Nil
        /\ IF api["class"] = Nil THEN "class" \in queue'
           ELSE /\ queue' = queue
                /\ IF classJob.accepted = a THEN api' = api
                   ELSE Write("class", [api["class"] EXCEPT !.accepted = a])
    BY <1>3 DEF ClassStatus, Requeue, Right
  <2>2. api["class"] # Nil /\ classJob.accepted # a => api'["class"].accepted = a
    BY <1>0, <2>1, ObjectNames DEF Write, ClassOK, ClassFields
  <2>3. classJob.params = cache["class"].params => a = Right(cache["class"], cache["config"])
    BY RightDepends
  <2> HIDE DEF a
  <2>4. QED
    BY <2>1, <2>2, <2>3 DEF ClassInv
<1>4. CASE GatewaySteps
  <2>1. /\ UNCHANGED <<cache, classJob, active>> /\ queue' \cup {"gw"} = queue \cup {"gw"}
        /\ api'["class"] = api["class"]
    BY <1>4, GatewayEffects, ObjectNames
  <2>2. "class" \in queue => "class" \in queue'
    BY <2>1
  <2>3. QED
    BY <2>1, <2>2 DEF ClassInv
<1>5. CASE RouteSteps \/ (\E n \in RouteName : RouteReconcile(n) \/ SyncRoute(n)) \/ PatchRoute \/ XDSReconcile
           \/ XdsChanges \/ UNCHANGED vars
  <2>1. UNCHANGED <<api, cache, classJob, active>> /\ ("class" \in queue => "class" \in queue')
    <3>1. CASE RouteSteps
      BY <3>1, RouteStepsElsewhere DEF Elsewhere
    <3>2. CASE ~RouteSteps
      BY <1>5, <3>2 DEF RouteReconcile, SyncRoute, PatchRoute, XDSReconcile, XdsChanges, Event, outsideFrame,
         vars, worldVars, jobVars
    <3>3. QED
      BY <3>1, <3>2
  <2>2. QED
    BY <2>1 DEF ClassInv
<1>6. CASE \E c \in {"class", "gw", "route"} : CallFails(c)
  <2>1. UNCHANGED <<api, cache, active>> /\ (classJob' = classJob \/ "class" \in queue')
        /\ ("class" \in queue => "class" \in queue')
    BY <1>6 DEF CallFails, Requeue, worldVars
  <2>2. QED
    BY <2>1 DEF ClassInv
<1>7. CASE Restart
  <2>1. cache' = api /\ active' = active /\ ("class" \in active /\ api["class"] # Nil => "class" \in queue')
    BY <1>7 DEF Restart
  <2>2. QED
    BY <2>1 DEF ClassInv
<1>8. CASE \E o \in Object : Sync(o)
  <2>1. PICK o \in Object : Sync(o)
    BY <1>8
  <2>2. /\ UNCHANGED <<api, classJob, active>> /\ cache' = [cache EXCEPT ![o] = api[o]]
        /\ queue' = queue \cup (Enqueued(o, cache') \cap active)
    BY <2>1 DEF Sync, jobVars
  <2>3. \A x \in Object : x # o => cache'[x] = cache[x]
    BY <1>0, <2>2
  <2>4. CASE o \in {"class", "gw"}
    <3>1. "class" \in Enqueued(o, cache')
      BY <2>4 DEF Enqueued
    <3>2. QED
      BY <2>2, <3>1 DEF ClassInv
  <2>5. CASE o \notin {"class", "config", "gw"}
    <3>1. cache'["class"] = cache["class"] /\ cache'["config"] = cache["config"]
      BY <2>3, <2>5, ObjectNames
    <3>2. QED
      BY <2>2, <3>1 DEF ClassInv
  <2>6. CASE o = "config"
    <3>1. cache'["class"] = cache["class"]
      BY <2>3, <2>6, ObjectNames
    <3>2. CASE cache["class"] # Nil /\ cache["class"].params = "config"
      <4>1. "class" \in Enqueued(o, cache')
        BY <2>6, <3>1, <3>2 DEF Enqueued
      <4>2. QED
        BY <2>2, <4>1 DEF ClassInv
    <3>3. CASE cache["class"] # Nil /\ cache["class"].params = "absent"
      <4>1. Right(cache'["class"], cache'["config"]) = Right(cache["class"], cache["config"])
        BY <3>1, <3>3, RightDepends
      <4>2. QED
        BY <2>2, <3>1, <4>1 DEF ClassInv
    <3>4. QED
      BY <1>0, <3>1, <3>2, <3>3 DEF ClassesInv, ClassInv
  <2>7. QED
    BY <2>4, <2>5, <2>6
<1>9. QED
  BY <1>1, <1>2, <1>3, <1>4, <1>5, <1>6, <1>7, <1>8, StepKinds

-----------------------------------------------------------------------------
(* Envoy's configuration *)

\* A config that the class does not name changes nothing.
LEMMA WarpDepends ==
  ASSUME NEW c, NEW x, NEW y, c = Nil \/ c.params = "absent" \/ x = y
  PROVE  WarpRouting(c, x) = WarpRouting(c, y)
BY DEF WarpRouting, Resolve

\* What Load reads.
LEMMA RefsDepend ==
  ASSUME NEW o, NEW p, o["grants"] = p["grants"], o["services"] = p["services"], o["secrets"] = p["secrets"],
         o["class"] = p["class"],
         o["class"] = Nil \/ o["class"].params = "absent" \/ o["config"] = p["config"]
  PROVE  refsOf(o) = refsOf(p)
<1>1. WarpRouting(o["class"], o["config"]) = WarpRouting(p["class"], p["config"])
  BY WarpDepends
<1>2. QED
  BY <1>1, Zenon DEF refsOf

\* What the snapshot is made from.
LEMMA SnapshotDepends ==
  ASSUME NEW o, NEW p, NEW r, NEW s, o["gw"] = p["gw"], o["class"] = p["class"], refsOf(o) = refsOf(p),
         Referring(liveRoutes(r)) = Referring(liveRoutes(s)),
         \A n \in Referring(liveRoutes(r)) : liveRoutes(r)[n] = liveRoutes(s)[n]
  PROVE  /\ buildGateway(o, r) = buildGateway(p, s)
         /\ desiredSnapshot(o, r) = desiredSnapshot(p, s)
<1>1. buildGateway(o, r) = buildGateway(p, s)
  BY BuildRoutes DEF buildGateway
<1>2. QED
  BY <1>1 DEF desiredSnapshot, Ours

\* A route that does not name the Gateway, before and after, does not count.
LEMMA OtherRoute ==
  ASSUME NEW r, NEW s, NEW n, \A k \in RouteName : k # n => s[k] = r[k],
         ~\E x \in {s[n], r[n]} : x # Nil /\ RefersTo(x.spec)
  PROVE  /\ Referring(liveRoutes(r)) = Referring(liveRoutes(s))
         /\ \A k \in Referring(liveRoutes(r)) : liveRoutes(r)[k] = liveRoutes(s)[k]
<1> DEFINE lr == liveRoutes(r)
           ls == liveRoutes(s)
<1>1. /\ DOMAIN lr = {m \in RouteName : r[m] # Nil /\ ~r[m].deleting} /\ \A k \in DOMAIN lr : lr[k] = r[k].spec
      /\ DOMAIN ls = {m \in RouteName : s[m] # Nil /\ ~s[m].deleting} /\ \A k \in DOMAIN ls : ls[k] = s[k].spec
  BY DEF liveRoutes
<1> HIDE DEF lr, ls
<1>2. \A k \in Referring(lr) : k \in DOMAIN lr /\ RefersTo(lr[k]) /\ k # n
  BY <1>1 DEF Referring
<1>3. \A k \in Referring(ls) : k \in DOMAIN ls /\ RefersTo(ls[k]) /\ k # n
  BY <1>1 DEF Referring
<1>4. \A k \in Referring(lr) : k \in Referring(ls) /\ lr[k] = ls[k]
  BY <1>1, <1>2 DEF Referring
<1>5. \A k \in Referring(ls) : k \in Referring(lr)
  BY <1>1, <1>3 DEF Referring
<1>6. QED
  BY <1>4, <1>5 DEF lr, ls

\* Envoy has what the caches call for, or the xDS controller waits.
XdsInv == "xds" \in active => "xds" \in queue \/ snapshot = desiredSnapshot(cache, routeCache)

LEMMA XdsStep ==
  ASSUME NilIsNoRecord, TypeInv, BaseInv, XdsInv, [Next]_vars, [KnownFirst]_vars
  PROVE  XdsInv'
<1>0. ClassesInv /\ DOMAIN cache = Object /\ DOMAIN routeCache = RouteName
  BY DEF BaseInv, TypeInv, ObjectsOK, RoutesOK
<1>1. CASE \/ ApiSteps \/ RouteSteps \/ ClassReconcile \/ ClassStatus \/ GatewaySteps
           \/ (\E n \in RouteName : RouteReconcile(n)) \/ PatchRoute
           \/ (\E c \in {"class", "gw", "route"} : CallFails(c)) \/ XdsChanges \/ UNCHANGED vars
  <2>1. UNCHANGED <<cache, routeCache, snapshot, active>> /\ ("xds" \in queue => "xds" \in queue')
    <3>1. CASE ApiSteps \/ RouteSteps
      BY <3>1, ApiEffects, RouteStepsElsewhere DEF Elsewhere
    <3>2. CASE ClassReconcile \/ ClassStatus
      <4>1. /\ UNCHANGED <<cache, routeCache, snapshot, active>>
            /\ queue' \cup {"class"} = queue \cup {"class"}
        BY <1>0, <3>2, ClassEffects
      <4>2. QED
        BY <4>1
    <3>3. CASE GatewaySteps
      <4>1. UNCHANGED <<cache, routeCache, snapshot, active>> /\ queue' \cup {"gw"} = queue \cup {"gw"}
        BY <3>3, GatewayEffects
      <4>2. QED
        BY <4>1
    <3>4. CASE (\E n \in RouteName : RouteReconcile(n)) \/ PatchRoute
               \/ (\E c \in {"class", "gw", "route"} : CallFails(c)) \/ XdsChanges \/ UNCHANGED vars
      BY <3>4 DEF RouteReconcile, PatchRoute, CallFails, Requeue, XdsChanges, Event, outsideFrame, vars, worldVars
    <3>5. QED
      BY <1>1, <3>1, <3>2, <3>3, <3>4
  <2>2. QED
    BY <2>1 DEF XdsInv
<1>2. CASE XDSReconcile
  BY <1>2 DEF XDSReconcile, worldVars, XdsInv
<1>3. CASE Restart
  <2>1. /\ cache' = api /\ routeCache' = route /\ active' = active /\ snapshot' = Nil
        /\ "xds" \in active /\ api["gw"] # Nil => "xds" \in queue'
    BY <1>3 DEF Restart
  <2>2. api["gw"] = Nil => desiredSnapshot(api, route) = Nil
    BY DEF desiredSnapshot
  <2>3. QED
    BY <2>1, <2>2 DEF XdsInv
<1>4. CASE \E n \in RouteName : SyncRoute(n)
  <2>1. PICK n \in RouteName : SyncRoute(n)
    BY <1>4
  <2>2. UNCHANGED <<cache, snapshot, active>> /\ routeCache' = [routeCache EXCEPT ![n] = route[n]]
    BY <2>1 DEF SyncRoute
  <2>3. CASE \E r \in {route[n], routeCache[n]} : r # Nil /\ RefersTo(r.spec)
    BY <2>1, <2>2, <2>3 DEF SyncRoute, XdsInv
  <2>4. CASE ~\E r \in {route[n], routeCache[n]} : r # Nil /\ RefersTo(r.spec)
    <3>1. queue' = queue
      BY <2>1, <2>4 DEF SyncRoute
    <3>2. desiredSnapshot(cache, routeCache') = desiredSnapshot(cache, routeCache)
      <4>1. /\ Referring(liveRoutes(routeCache)) = Referring(liveRoutes(routeCache'))
            /\ \A k \in Referring(liveRoutes(routeCache)) : liveRoutes(routeCache)[k] = liveRoutes(routeCache')[k]
        <5>1. routeCache'[n] = route[n] /\ \A k \in RouteName : k # n => routeCache'[k] = routeCache[k]
          BY <1>0, <2>2
        <5>2. QED
          BY <2>4, <5>1, OtherRoute
      <4>2. QED
        BY <4>1, SnapshotDepends
    <3>3. QED
      BY <2>2, <3>1, <3>2 DEF XdsInv
  <2>5. QED
    BY <2>3, <2>4
<1>5. CASE \E o \in Object : Sync(o)
  <2>1. PICK o \in Object : Sync(o)
    BY <1>5
  <2>2. /\ UNCHANGED <<routeCache, snapshot, active>> /\ cache' = [cache EXCEPT ![o] = api[o]]
        /\ queue' = queue \cup (Enqueued(o, cache') \cap active)
    BY <2>1 DEF Sync, jobVars
  <2>3. \A x \in Object : x # o => cache'[x] = cache[x]
    BY <1>0, <2>2
  <2>4. {"gw", "class", "config", "grants", "services", "secrets"} \subseteq Object \ Owned
    BY DEF Object, Owned
  <2>5. SUFFICES ASSUME "xds" \in active, "xds" \notin Enqueued(o, cache')
                 PROVE  desiredSnapshot(cache', routeCache) = desiredSnapshot(cache, routeCache)
    BY <2>2 DEF XdsInv
  <2>6. CASE o = "gw"
    BY <2>5, <2>6 DEF Enqueued
  <2>7. CASE cache["gw"] = Nil /\ o # "gw"
    BY <2>3, <2>4, <2>7 DEF desiredSnapshot
  <2>8. CASE cache["gw"] # Nil /\ o = "class"
    BY <2>3, <2>4, <2>5, <2>8 DEF Enqueued
  <2>9. CASE cache["gw"] # Nil /\ o \notin {"gw", "class"}
    <3>1. cache'["gw"] = cache["gw"] /\ cache'["class"] = cache["class"]
      BY <2>3, <2>4, <2>9
    <3>2. CASE ~Ours(cache)
      BY <3>1, <3>2 DEF desiredSnapshot, Ours
    <3>3. CASE Ours(cache) /\ o \in {"grants", "services", "secrets"}
      BY <2>5, <2>9, <3>1, <3>3 DEF Enqueued, Ours
    <3>4. CASE Ours(cache) /\ (o \in Owned \/ o = "config")
      <4>1. /\ cache'["grants"] = cache["grants"] /\ cache'["services"] = cache["services"]
            /\ cache'["secrets"] = cache["secrets"]
        BY <2>3, <2>4, <3>4
      <4>2. cache["class"].params = "absent" \/ cache'["config"] = cache["config"]
        <5>1. CASE o \in Owned
          BY <2>3, <2>4, <5>1
        <5>2. CASE o = "config"
          <6>1. cache["class"] # Nil /\ cache["class"].params # "config"
            BY <2>5, <2>9, <3>1, <3>4, <5>2 DEF Enqueued, Ours
          <6>2. QED
            BY <1>0, <6>1 DEF ClassesInv
        <5>3. QED
          BY <3>4, <5>1, <5>2
      <4>3. refsOf(cache') = refsOf(cache)
        BY <3>1, <4>1, <4>2, RefsDepend
      <4>4. QED
        BY <3>1, <4>3, SnapshotDepends
    <3>5. QED
      BY <2>1, <2>9, <3>2, <3>3, <3>4 DEF Object
  <2>10. QED
    BY <2>6, <2>7, <2>8, <2>9
<1>6. QED
  BY <1>1, <1>2, <1>3, <1>4, <1>5, StepKinds

-----------------------------------------------------------------------------
(* The routes' status *)

\* The entries of a route do not depend on the Secrets.
LEMMA EntriesDepend ==
  ASSUME NEW spec, NEW ls, NEW r, NEW s, r.warp = s.warp, r.selected = s.selected, r.grants = s.grants,
         r.services = s.services
  PROVE  Entries(spec, Listeners(ls, r), r) = Entries(spec, Listeners(ls, s), s)
<1> DEFINE rt == routeOf(spec)
           lr == Listeners(ls, r)
           l2 == Listeners(ls, s)
           refs == {q \in rt.parentRefs : targets(q)}
           entry(p, res) == [controller |-> "ours", ref |-> p.ref, accepted |-> p.accepted, resolved |-> res]
<1>1. DOMAIN lr = DOMAIN l2 /\ \A i \in DOMAIN lr : lr[i].spec = l2[i].spec /\ lr[i].kinds = l2[i].kinds
  BY KindsDepend
<1> HIDE DEF lr, l2
<1>2. \A ref : attach(rt, ref, lr, r) = attach(rt, ref, l2, s)
  BY <1>1, AttachDepends
<1>3. \A ref : backendReason(rt, ref, r) = backendReason(rt, ref, s)
  BY DEF backendReason, Permitted
<1>4. resolvedRefs(rt, r) = resolvedRefs(rt, s)
  BY <1>3 DEF resolvedRefs
<1>5. Entries(spec, lr, r) = {entry(p, resolvedRefs(rt, r)) : p \in {attach(rt, ref, lr, r) : ref \in refs}}
  BY Zenon DEF Entries
<1>6. Entries(spec, l2, s) = {entry(p, resolvedRefs(rt, s)) : p \in {attach(rt, ref, l2, s) : ref \in refs}}
  BY Zenon DEF Entries
<1> HIDE DEF refs, rt
<1>7. {attach(rt, ref, lr, r) : ref \in refs} = {attach(rt, ref, l2, s) : ref \in refs}
  BY <1>2
<1> HIDE DEF entry
<1>8. QED
  BY <1>4, <1>5, <1>6, <1>7 DEF lr, l2

LEMMA ParentsDepend ==
  ASSUME NEW n \in RouteName, NEW o, NEW p, NEW r, NEW s, r[n] = s[n],
         o["gw"] = p["gw"], o["class"] = p["class"], o["config"] = p["config"],
         o["grants"] = p["grants"], o["services"] = p["services"]
  PROVE  parentStatuses(n, o, r) = parentStatuses(n, p, s)
<1> DEFINE ro == refsOf(o)
           rp == refsOf(p)
           ls == o["gw"].spec.listeners
<1>1. ro.warp = rp.warp /\ ro.selected = rp.selected /\ ro.grants = rp.grants /\ ro.services = rp.services
  BY DEF refsOf
<1> HIDE DEF ro, rp
<1>2. Entries(r[n].spec, Listeners(ls, ro), ro) = Entries(r[n].spec, Listeners(ls, rp), rp)
  BY <1>1, EntriesDepend
<1>3. parentStatuses(n, o, r) =
        IF o["gw"] # Nil /\ Ours(o) /\ r[n] # Nil /\ ~r[n].deleting /\ RefersTo(r[n].spec)
        THEN Entries(r[n].spec, Listeners(ls, ro), ro) ELSE {}
  BY ParentsOf DEF ro
<1>4. parentStatuses(n, p, s) =
        IF o["gw"] # Nil /\ Ours(o) /\ r[n] # Nil /\ ~r[n].deleting /\ RefersTo(r[n].spec)
        THEN Entries(r[n].spec, Listeners(ls, rp), rp) ELSE {}
  <2>1. Ours(o) = Ours(p)
    BY DEF Ours
  <2>2. QED
    BY <2>1, ParentsOf DEF rp
<1>5. QED
  BY <1>2, <1>3, <1>4

OursIn(ps) == {p \in ps : p.controller = "ours"}

\* A route that does not wait has its entries right, in the cache or since; or they are
\* about to be written to the route as the cache has it.
RouteSettled(n) ==
  LET want == parentStatuses(n, cache, routeCache)
  IN IF routeJob # Nil /\ routeJob.name = n
     THEN routeJob.read = routeCache[n] /\ OursIn(routeJob.parents) = want
     ELSE \/ OursIn(routeCache[n].parents) = want
          \/ route[n] = Nil
          \/ OursIn(route[n].parents) = want

RouteInv ==
  \A n \in RouteName :
    /\ routeCache[n] # Nil /\ route[n] = Nil => "route" \notin outside
    /\ "route" \in active /\ n \notin routeQueue /\ routeCache[n] # Nil /\ ~routeCache[n].deleting => RouteSettled(n)

\* What users and other controllers do to a route.
RouteMoves(n) ==
  \/ route'[n] = route[n]
  \/ route'[n] = Nil /\ "route" \notin outside'
  \/ route[n] # Nil /\ OursIn(route'[n].parents) = OursIn(route[n].parents)
  \/ route[n] = Nil /\ "route" \in outside /\ "route" \notin outside'

LEMMA RouteEffects ==
  ASSUME NilIsNoRecord, TypeInv, RouteSteps
  PROVE  \A n \in RouteName : RouteMoves(n) /\ (route'[n] = Nil => route[n] = Nil \/ "route" \notin outside')
<1>1. PICK n \in RouteName : DeleteRoute(n) \/ OtherStatus(n) \/ \E s \in RouteSpecs : EditRoute(n, s)
  BY DEF RouteSteps
<1>2. RtOK(route[n]) /\ DOMAIN route = RouteName
  BY DEF TypeInv, RoutesOK
<1>3. \A k : Event(k) => k \in outside /\ k \notin outside'
  BY DEF Event, Happens
<1>4. ASSUME NEW r, route' = [route EXCEPT ![n] = r]
      PROVE  route'[n] = r /\ \A k \in RouteName : k # n => route'[k] = route[k]
  BY <1>2, <1>4
<1>5. CASE DeleteRoute(n)
  <2> DEFINE r == [route[n] EXCEPT !.deleting = TRUE]
  <2>1. route[n] # Nil /\ route' = [route EXCEPT ![n] = r]
    BY <1>2, <1>5 DEF DeleteRoute
  <2>2. DOMAIN r = RouteFields /\ r.parents = route[n].parents
    BY <1>2, <2>1 DEF RtOK, RouteFields
  <2> HIDE DEF r
  <2>3. r # Nil
    BY <2>2 DEF NilIsNoRecord
  <2>4. QED
    BY <1>4, <2>1, <2>2, <2>3 DEF RouteMoves
<1>6. CASE OtherStatus(n)
  <2> DEFINE others == {p \in route[n].parents : p.controller # "ours"}
             entry(ref) == [controller |-> "other", ref |-> ref, accepted |-> "Accepted", resolved |-> "ResolvedRefs"]
             want == {entry(ref) : ref \in {p \in route[n].spec.parentRefs : ~targets(p)}}
             ps == (route[n].parents \ others) \cup want
             r == [route[n] EXCEPT !.parents = ps]
  <2>1. route[n] # Nil /\ route' = [route EXCEPT ![n].parents = ps]
    BY <1>6 DEF OtherStatus
  <2>2. \A p \in want : p.controller = "other"
    OBVIOUS
  <2>3. OursIn(ps) = OursIn(route[n].parents)
    BY <2>2 DEF OursIn
  <2> HIDE DEF ps
  <2>4. route' = [route EXCEPT ![n] = r] /\ DOMAIN r = RouteFields /\ r.parents = ps
    BY <1>2, <2>1 DEF RtOK, RouteFields
  <2> HIDE DEF r
  <2>5. r # Nil
    BY <2>4 DEF NilIsNoRecord
  <2>6. QED
    BY <1>4, <2>1, <2>3, <2>4, <2>5 DEF RouteMoves
<1>7. CASE \E s \in RouteSpecs : EditRoute(n, s)
  <2>1. PICK s \in RouteSpecs : EditRoute(n, s)
    BY <1>7
  <2> DEFINE r == [route[n] EXCEPT !.spec = s]
  <2>2. "route" \in outside /\ "route" \notin outside'
    BY <1>3, <2>1 DEF EditRoute
  <2>3. \/ route' = [route EXCEPT ![n] = Nil]
        \/ route[n] = Nil /\ route' = [route EXCEPT ![n] = NewRoute(s)]
        \/ route[n] # Nil /\ route' = [route EXCEPT ![n] = r]
    BY <2>1 DEF EditRoute
  <2>4. route[n] # Nil => r.parents = route[n].parents
    BY <1>2 DEF RtOK, RouteFields
  <2> HIDE DEF r
  <2>5. QED
    BY <1>4, <2>2, <2>3, <2>4 DEF RouteMoves
<1>8. QED
  BY <1>1, <1>5, <1>6, <1>7

LEMMA RouteStep ==
  ASSUME NilIsNoRecord, TypeInv, BaseInv, RouteInv, [Next]_vars, [KnownFirst]_vars
  PROVE  RouteInv'
<1>0. /\ ClassesInv /\ DOMAIN cache = Object /\ DOMAIN routeCache = RouteName /\ DOMAIN route = RouteName
      /\ \A n \in RouteName : RtOK(route[n]) /\ RtOK(routeCache[n])
      /\ RouteJobOK
  BY DEF BaseInv, TypeInv, ObjectsOK, RoutesOK
<1>1. CASE \/ ApiSteps \/ ClassReconcile \/ ClassStatus \/ GatewaySteps \/ XDSReconcile \/ XdsChanges \/ UNCHANGED vars
  <2>1. UNCHANGED <<cache, routeCache, route, routeQueue, routeJob, active>> /\ outside' \subseteq outside
    <3>1. CASE ApiSteps
      BY <3>1, ApiEffects DEF Elsewhere
    <3>2. CASE ClassReconcile \/ ClassStatus \/ GatewaySteps
      BY <1>0, <3>2, ClassEffects, GatewayEffects
    <3>3. CASE XDSReconcile \/ XdsChanges \/ UNCHANGED vars
      BY <3>3 DEF XDSReconcile, XdsChanges, Event, Happens, outsideFrame, vars, worldVars, jobVars
    <3>4. QED
      BY <1>1, <3>1, <3>2, <3>3
  <2>2. QED
    BY <2>1 DEF RouteInv, RouteSettled
<1>2. CASE RouteSteps
  <2>1. UNCHANGED <<cache, routeCache, routeQueue, routeJob, active>> /\ outside' \subseteq outside
    BY <1>2, RouteStepsElsewhere DEF Elsewhere
  <2>2. \A n \in RouteName : RouteMoves(n) /\ (route'[n] = Nil => route[n] = Nil \/ "route" \notin outside')
    BY <1>2, RouteEffects
  <2>3. QED
    BY <2>1, <2>2 DEF RouteInv, RouteSettled, RouteMoves
<1>3. CASE \E n \in RouteName : RouteReconcile(n)
  <2>1. PICK n \in RouteName : RouteReconcile(n)
    BY <1>3
  <2> DEFINE want == parentStatuses(n, cache, routeCache)
             r == routeCache[n]
             merged == mergeParents(r.parents, want)
             job == [name |-> n, read |-> r, parents |-> merged]
  <2>2. /\ UNCHANGED <<cache, routeCache, route, active, outside>>
        /\ routeJob = Nil /\ routeQueue' = routeQueue \ {n}
        /\ IF r = Nil THEN routeJob' = routeJob
           ELSE IF r.deleting THEN routeJob' = routeJob
           ELSE IF merged = r.parents THEN routeJob' = routeJob ELSE routeJob' = job
    BY <2>1 DEF RouteReconcile, worldVars
  <2>3. OursIn(merged) = want
    <3>1. \A p \in want : p.controller = "ours"
      BY OwnEntries
    <3> HIDE DEF want
    <3>2. QED
      BY <3>1 DEF OursIn, mergeParents
  <2>4. job # Nil /\ job.name = n /\ job.read = r /\ job.parents = merged
    BY DEF NilIsNoRecord
  <2> HIDE DEF job, merged
  <2>5. ASSUME NEW k \in RouteName, "route" \in active', k \notin routeQueue', routeCache'[k] # Nil, ~routeCache'[k].deleting
        PROVE  RouteSettled(k)'
    <3>1. CASE k = n
      BY <2>2, <2>3, <2>4, <2>5, <3>1 DEF RouteSettled
    <3>2. CASE k # n
      <4>1. RouteSettled(k)
        BY <2>2, <2>5, <3>2 DEF RouteInv
      <4>2. QED
        BY <2>2, <2>4, <3>2, <4>1 DEF RouteSettled
    <3>3. QED
      BY <3>1, <3>2
  <2>6. QED
    BY <2>2, <2>5 DEF RouteInv
<1>4. CASE PatchRoute
  <2> DEFINE n == routeJob.name
             r == [route[n] EXCEPT !.parents = routeJob.parents]
  <2>1. /\ UNCHANGED <<cache, routeCache, active, outside>> /\ routeJob # Nil /\ routeJob' = Nil
        /\ n \in RouteName /\ routeJob.read # Nil
    BY <1>0, <1>4 DEF PatchRoute, RouteJobOK
  <2>2. CASE route[n] = routeJob.read
    <3>1. routeQueue' = routeQueue /\ route' = [route EXCEPT ![n] = r]
      BY <1>0, <1>4, <2>1, <2>2 DEF PatchRoute
    <3>2. DOMAIN r = RouteFields /\ r.parents = routeJob.parents
      BY <1>0, <2>1, <2>2 DEF RtOK, RouteFields
    <3> HIDE DEF r
    <3>3. r # Nil
      BY <3>2 DEF NilIsNoRecord
    <3>4. route'[n] = r /\ \A k \in RouteName : k # n => route'[k] = route[k]
      BY <1>0, <2>1, <3>1
    <3>5. \A k \in RouteName : RouteSettled(k) => RouteSettled(k)'
      BY <2>1, <2>2, <3>2, <3>4 DEF RouteSettled
    <3>6. QED
      BY <2>1, <3>1, <3>3, <3>4, <3>5 DEF RouteInv
  <2>3. CASE route[n] # routeJob.read
    <3>1. routeQueue' = routeQueue \cup {n} /\ route' = route
      BY <1>4, <2>3 DEF PatchRoute
    <3>2. \A k \in RouteName : k # n /\ RouteSettled(k) => RouteSettled(k)'
      BY <2>1, <3>1 DEF RouteSettled
    <3>3. QED
      BY <2>1, <3>1, <3>2 DEF RouteInv
  <2>4. QED
    BY <2>2, <2>3
<1>5. CASE \E c \in {"class", "gw", "route"} : CallFails(c)
  <2>1. /\ UNCHANGED <<cache, routeCache, route, active>> /\ outside' \subseteq outside
        /\ \/ routeJob' = routeJob /\ routeQueue' = routeQueue
           \/ routeJob # Nil /\ routeJob' = Nil /\ routeQueue' = routeQueue \cup {routeJob.name}
    BY <1>5 DEF CallFails, Happens, worldVars
  <2>2. \A k \in RouteName : k \notin routeQueue' /\ RouteSettled(k) => RouteSettled(k)'
    BY <2>1 DEF RouteSettled
  <2>3. QED
    BY <2>1, <2>2 DEF RouteInv
<1>6. CASE Restart
  <2>1. /\ routeCache' = route /\ route' = route /\ active' = active
        /\ routeQueue' = {n \in RouteName : "route" \in active /\ route[n] # Nil}
    BY <1>6 DEF Restart
  <2>2. QED
    BY <2>1 DEF RouteInv
<1>7. CASE \E n \in RouteName : SyncRoute(n)
  <2>1. PICK n \in RouteName : SyncRoute(n)
    BY <1>7
  <2>2. /\ UNCHANGED <<cache, route, routeJob, active, outside>> /\ routeCache' = [routeCache EXCEPT ![n] = route[n]]
        /\ routeQueue' = routeQueue \cup {m \in {n} : "route" \in active}
    BY <2>1 DEF SyncRoute, jobVars
  <2>3. routeCache'[n] = route[n] /\ \A k \in RouteName : k # n => routeCache'[k] = routeCache[k]
    BY <1>0, <2>2
  <2>4. ASSUME NEW k \in RouteName, k # n, RouteSettled(k) PROVE RouteSettled(k)'
    <3>1. parentStatuses(k, cache, routeCache') = parentStatuses(k, cache, routeCache)
      BY <2>3, <2>4, ParentsDepend
    <3>2. QED
      BY <2>2, <2>3, <2>4, <3>1 DEF RouteSettled
  <2>5. QED
    BY <2>2, <2>3, <2>4 DEF RouteInv
<1>8. CASE \E o \in Object : Sync(o)
  <2>1. PICK o \in Object : Sync(o)
    BY <1>8
  <2>2. /\ UNCHANGED <<route, routeCache, routeJob, active, outside>> /\ cache' = [cache EXCEPT ![o] = api[o]]
        /\ routeQueue' = routeQueue \cup {n \in EnqueuedRoutes(o) : "route" \in active}
    BY <2>1 DEF Sync, jobVars
  <2>3. \A x \in Object : x # o => cache'[x] = cache[x]
    BY <1>0, <2>2
  <2>4. SUFFICES ASSUME NEW n \in RouteName, "route" \in active, n \notin EnqueuedRoutes(o), routeCache[n] # Nil,
                        ~routeCache[n].deleting
                 PROVE  parentStatuses(n, cache', routeCache) = parentStatuses(n, cache, routeCache)
    BY <2>2 DEF RouteInv, RouteSettled
  <2>5. CASE o = "gw"
    <3>1. ~RefersTo(routeCache[n].spec)
      BY <2>4, <2>5 DEF EnqueuedRoutes, allRoutes
    <3>2. QED
      BY <3>1, ParentsOf
  <2>6. CASE o \in {"class", "config", "grants", "services", "svc"}
    BY <2>4, <2>6 DEF EnqueuedRoutes, allRoutes
  <2>7. CASE o \in {"deploy", "tunnel", "secrets"}
    <3>1. {"gw", "class", "config", "grants", "services"} \subseteq Object \ {o}
      BY <2>7 DEF Object
    <3>2. /\ cache'["gw"] = cache["gw"] /\ cache'["class"] = cache["class"] /\ cache'["config"] = cache["config"]
          /\ cache'["grants"] = cache["grants"] /\ cache'["services"] = cache["services"]
      BY <2>3, <3>1
    <3>3. QED
      BY <3>2, ParentsDepend
  <2>8. QED
    BY <2>1, <2>5, <2>6, <2>7 DEF Object, Owned
<1>9. QED
  BY <1>1, <1>2, <1>3, <1>4, <1>5, <1>6, <1>7, <1>8, StepKinds

-----------------------------------------------------------------------------
(* The status that a Gateway should have *)

MineIn(objects, o) == objects[o] # Nil /\ objects[o].owner = objects["gw"].uid
EnvoyIn(objects) == MineIn(objects, "deploy") /\ MineIn(objects, "svc")
ProgrammedIn(objects) ==
  IF EnvoyIn(objects) THEN envoyProgrammed(objects["config"], objects["deploy"].ready, objects["svc"].ready)
  ELSE Condition(FALSE, "Invalid")
AddressedIn(objects) == EnvoyIn(objects) /\ objects["svc"].ready
TunnelIn(objects) ==
  IF objects["config"].template = Nil THEN Condition(FALSE, "NotImplemented")
  ELSE IF MineIn(objects, "tunnel") THEN tunnelCondition(objects["tunnel"])
  ELSE Condition(FALSE, "Conflict")
AcceptedIn(objects, routes) ==
  accept(buildGateway(objects, routes), objects["class"], objects["config"], objects["gw"])

LEMMA StatusIs ==
  ASSUME NEW objects, NEW routes
  PROVE  desiredStatus(objects, routes) =
           IF ~AcceptedIn(objects, routes).ok
           THEN statusOf(buildGateway(objects, routes), AcceptedIn(objects, routes), Condition(FALSE, "Invalid"), Nil, FALSE)
           ELSE statusOf(buildGateway(objects, routes), AcceptedIn(objects, routes), ProgrammedIn(objects),
                         TunnelIn(objects), AddressedIn(objects))
BY Zenon DEF desiredStatus, AcceptedIn, ProgrammedIn, TunnelIn, AddressedIn, EnvoyIn, MineIn

\* A status tells of the listeners and how many routes they have.
LEMMA StatusOfDepends ==
  ASSUME NEW m, NEW k, m.listeners = k.listeners, m.attachedRoutes = k.attachedRoutes, NEW a, NEW p, NEW tn, NEW b
  PROVE  statusOf(m, a, p, tn, b) = statusOf(k, a, p, tn, b)
<1>1. listenerStatuses(m, p.ok) = listenerStatuses(k, p.ok)
  BY DEF listenerStatuses
<1>2. QED
  BY <1>1 DEF statusOf

\* A class that names no config has no Gateway accepted.
LEMMA AcceptDepends ==
  ASSUME NEW m, NEW k, m.listeners = k.listeners, NEW c, NEW x, NEW y, c.params = "absent" \/ x = y,
         NEW g, NEW h, g.spec = h.spec
  PROVE  /\ accept(m, c, x, g) = accept(k, c, y, h)
         /\ c.params = "absent" => ~accept(m, c, x, g).ok
<1>1. Resolve(c, x) = Resolve(c, y) /\ (c.params = "absent" => Resolve(c, x) # "Resolved")
  BY DEF Resolve
<1>2. QED
  BY <1>1 DEF accept, Condition

\* What a provisioned object should hold depends on the listeners only, too.
LEMMA ContentDepends ==
  ASSUME NEW o, NEW p, NEW r, NEW s, NEW x \in Owned,
         buildGateway(o, r).listeners = buildGateway(p, s).listeners,
         o["config"] = p["config"], o["gw"].spec = p["gw"].spec, (o["svc"] = Nil) <=> (p["svc"] = Nil)
  PROVE  desiredContent(x, o, r) = desiredContent(x, p, s)
<1>1. CASE x = "deploy"
  BY <1>1 DEF desiredContent
<1>2. CASE x = "svc"
  BY <1>2 DEF desiredContent, mutateEnvoyService
<1>3. CASE x = "tunnel"
  BY <1>3 DEF desiredContent, tunnelSpec
<1>4. QED
  BY <1>1, <1>2, <1>3 DEF Owned

\* The same for the status.
LEMMA StatusDepends ==
  ASSUME NEW o, NEW p, NEW r, NEW s,
         buildGateway(o, r).listeners = buildGateway(p, s).listeners,
         buildGateway(o, r).attachedRoutes = buildGateway(p, s).attachedRoutes,
         o["class"] = p["class"], o["class"].params = "absent" \/ o["config"] = p["config"],
         o["gw"].spec = p["gw"].spec, o["gw"].uid = p["gw"].uid, \A x \in Owned : o[x] = p[x]
  PROVE  /\ AcceptedIn(o, r) = AcceptedIn(p, s)
         /\ AcceptedIn(o, r).ok => o["config"] = p["config"]
         /\ desiredStatus(o, r) = desiredStatus(p, s)
<1> DEFINE m == buildGateway(o, r)
           k == buildGateway(p, s)
<1>0. o["deploy"] = p["deploy"] /\ o["svc"] = p["svc"] /\ o["tunnel"] = p["tunnel"]
  BY DEF Owned
<1>1. AcceptedIn(o, r) = AcceptedIn(p, s) /\ (o["class"].params = "absent" => ~AcceptedIn(o, r).ok)
  BY AcceptDepends DEF AcceptedIn
<1>2. o["config"] = p["config"] =>
        ProgrammedIn(o) = ProgrammedIn(p) /\ TunnelIn(o) = TunnelIn(p) /\ AddressedIn(o) = AddressedIn(p)
  BY <1>0 DEF ProgrammedIn, TunnelIn, AddressedIn, EnvoyIn, MineIn
<1>3. \A a, q, tn, b : statusOf(m, a, q, tn, b) = statusOf(k, a, q, tn, b)
  BY StatusOfDepends
<1>4. CASE ~AcceptedIn(o, r).ok
  <2>1. desiredStatus(o, r) = statusOf(m, AcceptedIn(o, r), Condition(FALSE, "Invalid"), Nil, FALSE)
    BY <1>4, StatusIs
  <2>2. desiredStatus(p, s) = statusOf(k, AcceptedIn(o, r), Condition(FALSE, "Invalid"), Nil, FALSE)
    BY <1>1, <1>4, StatusIs
  <2>3. QED
    BY <1>1, <1>3, <1>4, <2>1, <2>2
<1>5. CASE AcceptedIn(o, r).ok
  <2>1. o["config"] = p["config"]
    BY <1>1, <1>5
  <2>2. desiredStatus(o, r) = statusOf(m, AcceptedIn(o, r), ProgrammedIn(o), TunnelIn(o), AddressedIn(o))
    BY <1>5, StatusIs
  <2>3. desiredStatus(p, s) = statusOf(k, AcceptedIn(o, r), ProgrammedIn(o), TunnelIn(o), AddressedIn(o))
    BY <1>1, <1>2, <1>5, <2>1, StatusIs
  <2>4. QED
    BY <1>1, <1>3, <2>1, <2>2, <2>3
<1>6. QED
  BY <1>4, <1>5

-----------------------------------------------------------------------------
(* The Gateway's status and its objects *)

\* The Gateway in the cache is on its way out.
Gone == api["gw"] = Nil \/ api["gw"].uid # cache["gw"].uid \/ api["gw"].deleting

\* The Gateway does not wait, and it is one to be served.
Settling ==
  /\ "gw" \in active /\ "gw" \notin queue
  /\ cache["gw"] # Nil /\ Ours(cache) /\ ~cache["gw"].deleting /\ ~Gone

Now == buildGateway(cache, routeCache)
Acc == AcceptedIn(cache, routeCache)
Want(o) == desiredContent(o, cache, routeCache)

\* The controller has been to o: it made the object, or it was not to touch it, or if the
\* object is still the Gateway's it holds what the caches call for.
Visited(o) ==
  IF cache[o] = Nil THEN api[o] # Nil /\ api[o].owner = cache["gw"].uid
  ELSE cache[o].owner = cache["gw"].uid /\ cache[o].content # Want(o)
       => (api[o] # Nil /\ api[o].owner = cache["gw"].uid => api[o].content = Want(o))

\* Envoy's Service is not looked at while the Deployment is somebody else's.
DeployOurs == cache["deploy"] = Nil \/ MineIn(cache, "deploy")
EnvoyVisited == Visited("deploy") /\ (DeployOurs => Visited("svc"))
TunnelVisited == cache["config"].template # Nil => Visited("tunnel")

\* An object was made that the cache has yet to hear of.
EnvoyNew == cache["deploy"] = Nil \/ (MineIn(cache, "deploy") /\ cache["svc"] = Nil)
TunnelNew == cache["config"].template # Nil /\ cache["tunnel"] = Nil

\* Between two reconciles: the objects are done, and so is the status, unless the cache
\* has yet to hear of an object made or of a status written.
RestInv ==
  /\ Acc.ok => EnvoyVisited /\ TunnelVisited
  /\ \/ Acc.ok /\ (EnvoyNew \/ TunnelNew)
     \/ cache["gw"].status = desiredStatus(cache, routeCache)
     \/ api["gw"].status # cache["gw"].status

\* In a reconcile: it works on what the caches have, and has done the objects so far.
AcceptedJob ==
  /\ gwJob.config = cache["config"]
  /\ gwJob.pc = "svc" => /\ Visited("deploy") /\ DeployOurs
                         /\ cache["deploy"] # Nil => gwJob.available = cache["deploy"].ready
  /\ gwJob.pc \in {"tunnel", "status"} =>
       /\ EnvoyVisited
       /\ EnvoyNew \/ (gwJob.programmed = ProgrammedIn(cache) /\ gwJob.addressed = AddressedIn(cache))
  /\ gwJob.pc = "status" => TunnelVisited /\ (TunnelNew \/ gwJob.tunnel = TunnelIn(cache))

RejectedJob ==
  /\ gwJob.pc = "status" /\ gwJob.programmed = Condition(FALSE, "Invalid")
  /\ gwJob.addressed = FALSE /\ gwJob.tunnel = Nil

JobInv ==
  /\ gwJob.gw = cache["gw"] /\ gwJob.accepted = Acc
  /\ gwJob.model.listeners = Now.listeners /\ gwJob.model.attachedRoutes = Now.attachedRoutes
  /\ IF Acc.ok THEN AcceptedJob ELSE RejectedJob

GwInv == Settling => IF gwJob = Nil THEN RestInv ELSE JobInv

\* A step of others leaves a served Gateway's work done.
LEMMA GwFrame ==
  ASSUME GwInv, UNCHANGED <<cache, routeCache, gwJob, active>>, "gw" \in queue => "gw" \in queue',
         cache["gw"] # Nil /\ ~Gone' => ~Gone /\ api'["gw"].status = api["gw"].status,
         \A o \in Owned : Settling /\ Visited(o) => Visited(o)'
  PROVE  GwInv'
<1> SUFFICES ASSUME Settling' PROVE (IF gwJob = Nil THEN RestInv ELSE JobInv)'
  BY DEF GwInv
<1>1. cache' = cache /\ routeCache' = routeCache /\ gwJob' = gwJob
  OBVIOUS
<1>2. Settling /\ api'["gw"].status = api["gw"].status
  BY <1>1 DEF Settling
<1>3. Acc' = Acc /\ Now' = Now /\ DeployOurs' = DeployOurs /\ EnvoyNew' = EnvoyNew /\ TunnelNew' = TunnelNew
  BY <1>1 DEF Acc, Now, DeployOurs, EnvoyNew, TunnelNew
<1>4. (EnvoyVisited => EnvoyVisited') /\ (TunnelVisited => TunnelVisited')
  BY <1>1, <1>2, <1>3 DEF EnvoyVisited, TunnelVisited, Owned
<1>5. Visited("deploy") => Visited("deploy")'
  BY <1>2 DEF Owned
<1>6. CASE gwJob = Nil
  <2>1. RestInv
    BY <1>2, <1>6 DEF GwInv
  <2>2. RestInv'
    BY <1>1, <1>2, <1>3, <1>4, <2>1 DEF RestInv
  <2>3. QED
    BY <1>1, <1>6, <2>2
<1>7. CASE gwJob # Nil
  <2>1. JobInv
    BY <1>2, <1>7 DEF GwInv
  <2>2. AcceptedJob => AcceptedJob'
    BY <1>1, <1>3, <1>4, <1>5 DEF AcceptedJob
  <2>3. RejectedJob => RejectedJob'
    BY <1>1 DEF RejectedJob
  <2>4. JobInv'
    BY <1>1, <1>3, <2>1, <2>2, <2>3 DEF JobInv
  <2>5. QED
    BY <1>1, <1>7, <2>4
<1>8. QED
  BY <1>6, <1>7

\* So does a cache that hears of something the Gateway does not depend on.
LEMMA GwView ==
  ASSUME GwInv, UNCHANGED <<api, gwJob, active>>, "gw" \in queue => "gw" \in queue',
         cache'["gw"] = cache["gw"], cache'["class"] = cache["class"],
         cache["class"].params = "absent" \/ cache'["config"] = cache["config"],
         \A o \in Owned : cache'[o] = cache[o],
         Now'.listeners = Now.listeners, Now'.attachedRoutes = Now.attachedRoutes
  PROVE  GwInv'
<1> SUFFICES ASSUME Settling' PROVE (IF gwJob = Nil THEN RestInv ELSE JobInv)'
  BY DEF GwInv
<1>1. Settling
  BY DEF Settling, Ours, Gone
<1>2. /\ Acc' = Acc
      /\ Acc.ok => cache'["config"] = cache["config"]
      /\ desiredStatus(cache, routeCache)' = desiredStatus(cache, routeCache)
  <2>1. /\ AcceptedIn(cache, routeCache) = AcceptedIn(cache', routeCache')
        /\ AcceptedIn(cache, routeCache).ok => cache["config"] = cache'["config"]
        /\ desiredStatus(cache, routeCache) = desiredStatus(cache', routeCache')
    BY StatusDepends DEF Now
  <2>2. QED
    BY <2>1 DEF Acc
<1>3. /\ cache'["deploy"] = cache["deploy"] /\ cache'["svc"] = cache["svc"] /\ cache'["tunnel"] = cache["tunnel"]
  BY DEF Owned
<1>4. DeployOurs' = DeployOurs /\ EnvoyNew' = EnvoyNew /\ (Acc.ok => TunnelNew' = TunnelNew)
  BY <1>2, <1>3 DEF DeployOurs, EnvoyNew, TunnelNew, MineIn
<1>5. ASSUME Acc.ok, NEW o \in Owned PROVE Visited(o) => Visited(o)'
  <2>1. desiredContent(o, cache', routeCache') = desiredContent(o, cache, routeCache)
    BY <1>2, <1>3, <1>5, ContentDepends DEF Now
  <2>2. QED
    BY <2>1 DEF Visited, Want
<1>6. Acc.ok => /\ Visited("deploy") => Visited("deploy")'
                /\ EnvoyVisited => EnvoyVisited'
                /\ TunnelVisited => TunnelVisited'
  BY <1>2, <1>4, <1>5 DEF EnvoyVisited, TunnelVisited, Owned
<1>7. Acc.ok => /\ ProgrammedIn(cache)' = ProgrammedIn(cache) /\ AddressedIn(cache)' = AddressedIn(cache)
                /\ TunnelIn(cache)' = TunnelIn(cache)
  BY <1>2, <1>3 DEF ProgrammedIn, AddressedIn, TunnelIn, EnvoyIn, MineIn
<1>8. CASE gwJob = Nil
  <2>1. RestInv
    BY <1>1, <1>8 DEF GwInv
  <2>2. RestInv'
    BY <1>2, <1>4, <1>6, <2>1 DEF RestInv
  <2>3. QED
    BY <1>8, <2>2
<1>9. CASE gwJob # Nil
  <2>1. JobInv
    BY <1>1, <1>9 DEF GwInv
  <2>2. Acc.ok /\ AcceptedJob => AcceptedJob'
    BY <1>2, <1>3, <1>4, <1>6, <1>7 DEF AcceptedJob
  <2>3. RejectedJob => RejectedJob'
    BY DEF RejectedJob
  <2>4. JobInv'
    BY <1>2, <2>1, <2>2, <2>3 DEF JobInv
  <2>5. QED
    BY <1>9, <2>4
<1>10. QED
  BY <1>8, <1>9

\* Where ensureControlled has been, and where not.
LEMMA EnsureVisits ==
  ASSUME TypeInv, UNCHANGED <<cache, routeCache>>, gwJob.gw = cache["gw"], NEW o \in Owned,
         Refused(o) \/ \E v : Leaves(o, Want(o), v)
  PROVE  /\ Visited(o)'
         /\ \A x \in Owned : x # o /\ Visited(x) => Visited(x)'
         /\ api'["gw"] = api["gw"]
<1>0. DOMAIN api = Object /\ o \in Object /\ o # "gw"
  BY ObjectNames DEF TypeInv, ObjectsOK
<1>1. Want(o)' = Want(o)
  BY DEF Want
<1>2. \A x \in Object : x # o => api'[x] = api[x]
  BY <1>0 DEF Refused, Leaves
<1>3. \A x \in Owned : x # o /\ Visited(x) => Visited(x)'
  BY <1>2, ObjectNames DEF Visited, Want
<1>4. Visited(o)'
  <2>1. CASE Refused(o)
    BY <2>1 DEF Refused, Visited
  <2>2. ASSUME NEW v, Leaves(o, Want(o), v) PROVE Visited(o)'
    <3>1. CASE api' = api /\ v = cache[o] /\ cache[o] # Nil
      BY <1>1, <2>2, <3>1 DEF Leaves, Visited
    <3>2. CASE api' = [api EXCEPT ![o] = v]
      <4>1. api'[o] = v
        BY <1>0, <3>2
      <4>2. QED
        BY <1>1, <2>2, <4>1 DEF Leaves, Visited
    <3>3. QED
      BY <2>2, <3>1, <3>2 DEF Leaves
  <2>3. QED
    BY <2>1, <2>2
<1>5. QED
  BY <1>0, <1>2, <1>3, <1>4, ObjectNames

LEMMA ReconcileGw ==
  ASSUME NilIsNoRecord, TypeInv, GatewayReconcile
  PROVE  GwInv'
<1> SUFFICES ASSUME Settling' PROVE gwJob' # Nil /\ JobInv'
  BY DEF GwInv
<1>1. UNCHANGED <<cache, routeCache, active>>
  BY DEF GatewayReconcile, gwFrame
<1> DEFINE m == buildGateway(cache, routeCache)
           acc == accept(m, cache["class"], cache["config"], cache["gw"])
           job == [pc |-> IF acc.ok THEN "deploy" ELSE "status", gw |-> cache["gw"], model |-> m,
                   config |-> cache["config"], accepted |-> acc,
                   programmed |-> Condition(FALSE, "Invalid"), addressed |-> FALSE,
                   tunnel |-> Nil, available |-> FALSE]
<1>2. gwJob' = job
  <2>1. ~(cache["gw"] = Nil \/ ~Ours(cache)) /\ ~cache["gw"].deleting
    BY <1>1 DEF Settling, Ours
  <2>2. QED
    BY <2>1, Zenon DEF GatewayReconcile
<1>3. m = Now' /\ acc = Acc'
  BY <1>1 DEF Now, Acc, AcceptedIn
<1> HIDE DEF m, acc
<1>4. /\ DOMAIN job = GwJobFields /\ job.pc = (IF acc.ok THEN "deploy" ELSE "status") /\ job.gw = cache["gw"]
      /\ job.model = m /\ job.config = cache["config"] /\ job.accepted = acc
      /\ job.programmed = Condition(FALSE, "Invalid") /\ job.addressed = FALSE /\ job.tunnel = Nil
  BY DEF GwJobFields
<1> HIDE DEF job
<1>5. job # Nil
  BY <1>4 DEF NilIsNoRecord
<1>6. QED
  BY <1>1, <1>2, <1>3, <1>4, <1>5 DEF JobInv, AcceptedJob, RejectedJob

\* The reconcile of a served Gateway that goes on after a call.
LEMMA GoesOn ==
  ASSUME NilIsNoRecord, TypeInv, GwInv, gwJob # Nil, UNCHANGED <<cache, routeCache, active, queue>>,
         api'["gw"] = api["gw"], Settling'
  PROVE  /\ Settling /\ JobInv
         /\ Acc' = Acc /\ Now' = Now
         /\ DeployOurs' = DeployOurs /\ EnvoyNew' = EnvoyNew /\ TunnelNew' = TunnelNew
         /\ ProgrammedIn(cache)' = ProgrammedIn(cache) /\ AddressedIn(cache)' = AddressedIn(cache)
         /\ TunnelIn(cache)' = TunnelIn(cache)
<1>1. cache' = cache /\ routeCache' = routeCache /\ active' = active /\ queue' = queue
  OBVIOUS
<1>2. Settling
  BY <1>1 DEF Settling, Gone
<1>3. JobInv
  BY <1>2 DEF GwInv
<1>4. QED
  BY <1>1, <1>2, <1>3 DEF Acc, Now, DeployOurs, EnvoyNew, TunnelNew

\* What Goes leaves in the job.
LEMMA GoesTo ==
  ASSUME NilIsNoRecord, TypeInv, gwJob # Nil, NEW pc, NEW p, NEW b, NEW tn, Goes(pc, p, b, tn)
  PROVE  /\ gwJob' # Nil /\ gwJob'.pc = pc /\ gwJob'.programmed = p /\ gwJob'.addressed = b /\ gwJob'.tunnel = tn
         /\ gwJob'.gw = gwJob.gw /\ gwJob'.model = gwJob.model /\ gwJob'.config = gwJob.config
         /\ gwJob'.accepted = gwJob.accepted /\ gwJob'.available = gwJob.available
<1>1. DOMAIN gwJob = GwJobFields
  BY DEF TypeInv, GwJobOK
<1>2. /\ DOMAIN gwJob' = GwJobFields
      /\ gwJob'.pc = pc /\ gwJob'.programmed = p /\ gwJob'.addressed = b /\ gwJob'.tunnel = tn
      /\ gwJob'.gw = gwJob.gw /\ gwJob'.model = gwJob.model /\ gwJob'.config = gwJob.config
      /\ gwJob'.accepted = gwJob.accepted /\ gwJob'.available = gwJob.available
  BY <1>1 DEF Goes, GwJobFields
<1>3. QED
  BY <1>2 DEF NilIsNoRecord

LEMMA DeploymentGw ==
  ASSUME NilIsNoRecord, TypeInv, GwInv, ProvisionDeployment
  PROVE  GwInv'
<1> SUFFICES ASSUME Settling' PROVE gwJob' # Nil /\ JobInv'
  BY DEF GwInv
<1>1. UNCHANGED <<cache, routeCache, active>> /\ gwJob # Nil /\ gwJob.pc = "deploy"
  BY DEF ProvisionDeployment, gwFrame
<1> DEFINE content == mutateEnvoyDeployment(gwJob.config)
<1>2. \/ Refused("deploy") /\ Goes("tunnel", Condition(FALSE, "Invalid"), FALSE, Nil)
      \/ /\ queue' = queue
         /\ \E v : /\ Leaves("deploy", content, v)
                   /\ gwJob' = [gwJob EXCEPT !.pc = "svc", !.available = v.ready]
  BY DeploymentDone DEF Settling, GivesUp
<1>3. queue' = queue /\ api'["gw"] = api["gw"] /\ "deploy" \in Owned
  <2>1. DOMAIN api = Object
    BY DEF TypeInv, ObjectsOK
  <2>2. QED
    BY <1>2, <2>1, ObjectNames DEF Refused, Leaves, Owned
<1>4. /\ JobInv
      /\ Acc' = Acc /\ Now' = Now
      /\ DeployOurs' = DeployOurs /\ EnvoyNew' = EnvoyNew /\ TunnelNew' = TunnelNew
      /\ ProgrammedIn(cache)' = ProgrammedIn(cache) /\ AddressedIn(cache)' = AddressedIn(cache)
  BY <1>1, <1>3, GoesOn
<1>5. Acc.ok /\ AcceptedJob /\ gwJob.gw = cache["gw"] /\ gwJob.config = cache["config"]
  BY <1>1, <1>4 DEF JobInv, RejectedJob, AcceptedJob
<1>6. content = Want("deploy")
  BY <1>5 DEF Want, desiredContent
<1> HIDE DEF content
<1>7. Visited("deploy")'
  BY <1>1, <1>2, <1>3, <1>5, <1>6, EnsureVisits
<1>8. CASE Refused("deploy") /\ Goes("tunnel", Condition(FALSE, "Invalid"), FALSE, Nil)
  <2>1. /\ gwJob' # Nil /\ gwJob'.pc = "tunnel" /\ gwJob'.programmed = Condition(FALSE, "Invalid") /\ gwJob'.addressed = FALSE
        /\ gwJob'.gw = gwJob.gw /\ gwJob'.model = gwJob.model /\ gwJob'.config = gwJob.config
        /\ gwJob'.accepted = gwJob.accepted
    BY <1>1, <1>8, GoesTo
  <2>2. ~MineIn(cache, "deploy") /\ cache["deploy"] # Nil
    BY <1>5, <1>8 DEF Refused, MineIn
  <2>3. ~DeployOurs /\ ProgrammedIn(cache) = Condition(FALSE, "Invalid") /\ AddressedIn(cache) = FALSE
    BY <2>2 DEF DeployOurs, ProgrammedIn, AddressedIn, EnvoyIn
  <2>4. EnvoyVisited'
    BY <1>4, <1>7, <2>3 DEF EnvoyVisited
  <2>5. AcceptedJob'
    BY <1>1, <1>4, <1>5, <2>1, <2>3, <2>4 DEF AcceptedJob
  <2>6. QED
    BY <1>1, <1>4, <1>5, <2>1, <2>5 DEF JobInv
<1>9. CASE \E v : /\ Leaves("deploy", content, v)
                  /\ gwJob' = [gwJob EXCEPT !.pc = "svc", !.available = v.ready]
  <2>1. PICK v : Leaves("deploy", content, v) /\ gwJob' = [gwJob EXCEPT !.pc = "svc", !.available = v.ready]
    BY <1>9
  <2>2. /\ gwJob' # Nil /\ gwJob'.pc = "svc" /\ gwJob'.available = v.ready
        /\ gwJob'.gw = gwJob.gw /\ gwJob'.model = gwJob.model /\ gwJob'.config = gwJob.config
        /\ gwJob'.accepted = gwJob.accepted
    <3>1. DOMAIN gwJob = GwJobFields
      BY <1>1 DEF TypeInv, GwJobOK
    <3>2. /\ DOMAIN gwJob' = GwJobFields /\ gwJob'.pc = "svc" /\ gwJob'.available = v.ready
          /\ gwJob'.gw = gwJob.gw /\ gwJob'.model = gwJob.model /\ gwJob'.config = gwJob.config
          /\ gwJob'.accepted = gwJob.accepted
      BY <2>1, <3>1 DEF GwJobFields
    <3>3. QED
      BY <3>2 DEF NilIsNoRecord
  <2>3. DeployOurs /\ (cache["deploy"] # Nil => v.ready = cache["deploy"].ready)
    BY <1>5, <2>1 DEF Leaves, DeployOurs, MineIn
  <2>4. AcceptedJob'
    BY <1>1, <1>4, <1>5, <1>7, <2>2, <2>3 DEF AcceptedJob
  <2>5. QED
    BY <1>1, <1>4, <1>5, <2>2, <2>4 DEF JobInv
<1>10. QED
  BY <1>2, <1>8, <1>9

LEMMA ServiceGw ==
  ASSUME NilIsNoRecord, TypeInv, GwInv, ProvisionService
  PROVE  GwInv'
<1> SUFFICES ASSUME Settling' PROVE gwJob' # Nil /\ JobInv'
  BY DEF GwInv
<1>1. UNCHANGED <<cache, routeCache, active>> /\ gwJob # Nil /\ gwJob.pc = "svc"
  BY DEF ProvisionService, gwFrame
<1> DEFINE content == mutateEnvoyService(gwJob.model)
           prog(v) == envoyProgrammed(gwJob.config, gwJob.available, v.ready)
<1>2. \/ Refused("svc") /\ Goes("tunnel", Condition(FALSE, "Invalid"), FALSE, Nil)
      \/ queue' = queue /\ \E v : Leaves("svc", content, v) /\ Goes("tunnel", prog(v), v.ready, Nil)
  BY ServiceDone DEF Settling, GivesUp
<1>3. queue' = queue /\ api'["gw"] = api["gw"] /\ "svc" \in Owned /\ "deploy" \in Owned
  <2>1. DOMAIN api = Object
    BY DEF TypeInv, ObjectsOK
  <2>2. QED
    BY <1>2, <2>1, ObjectNames DEF Refused, Leaves, Owned
<1>4. /\ JobInv
      /\ Acc' = Acc /\ Now' = Now
      /\ DeployOurs' = DeployOurs /\ EnvoyNew' = EnvoyNew /\ TunnelNew' = TunnelNew
      /\ ProgrammedIn(cache)' = ProgrammedIn(cache) /\ AddressedIn(cache)' = AddressedIn(cache)
  BY <1>1, <1>3, GoesOn
<1>5. /\ Acc.ok /\ AcceptedJob /\ gwJob.gw = cache["gw"] /\ gwJob.config = cache["config"]
      /\ gwJob.model.listeners = Now.listeners
  BY <1>1, <1>4 DEF JobInv, RejectedJob, AcceptedJob
<1>6. content = Want("svc")
  BY <1>5 DEF Want, desiredContent, mutateEnvoyService, Now
<1>7. /\ Visited("deploy") /\ DeployOurs
      /\ cache["deploy"] # Nil => gwJob.available = cache["deploy"].ready
  BY <1>1, <1>5 DEF AcceptedJob
<1>8. cache["svc"] # Nil => cache["svc"].ready \in BOOLEAN
  BY <1>3 DEF TypeInv, ObjectsOK, ThingOK
<1> HIDE DEF content
<1>9. Visited("svc")' /\ Visited("deploy")'
  BY <1>1, <1>2, <1>3, <1>5, <1>6, <1>7, EnsureVisits
<1>10. EnvoyVisited'
  BY <1>9 DEF EnvoyVisited
<1>11. ASSUME NEW p, NEW b, Goes("tunnel", p, b, Nil), EnvoyNew \/ (p = ProgrammedIn(cache) /\ b = AddressedIn(cache))
       PROVE  gwJob' # Nil /\ JobInv'
  <2>1. /\ gwJob' # Nil /\ gwJob'.pc = "tunnel" /\ gwJob'.programmed = p /\ gwJob'.addressed = b
        /\ gwJob'.gw = gwJob.gw /\ gwJob'.model = gwJob.model /\ gwJob'.config = gwJob.config
        /\ gwJob'.accepted = gwJob.accepted
    BY <1>1, <1>11, GoesTo
  <2>2. AcceptedJob'
    BY <1>1, <1>4, <1>5, <1>10, <1>11, <2>1 DEF AcceptedJob
  <2>3. QED
    BY <1>1, <1>4, <1>5, <2>1, <2>2 DEF JobInv
<1>12. CASE Refused("svc") /\ Goes("tunnel", Condition(FALSE, "Invalid"), FALSE, Nil)
  <2>1. ~MineIn(cache, "svc")
    BY <1>5, <1>12 DEF Refused, MineIn
  <2>2. ProgrammedIn(cache) = Condition(FALSE, "Invalid") /\ AddressedIn(cache) = FALSE
    BY <2>1 DEF ProgrammedIn, AddressedIn, EnvoyIn
  <2>3. QED
    BY <1>11, <1>12, <2>2
<1>13. CASE \E v : Leaves("svc", content, v) /\ Goes("tunnel", prog(v), v.ready, Nil)
  <2>1. PICK v : Leaves("svc", content, v) /\ Goes("tunnel", prog(v), v.ready, Nil)
    BY <1>13
  <2>2. EnvoyNew \/ (MineIn(cache, "deploy") /\ MineIn(cache, "svc") /\ v.ready = cache["svc"].ready)
    BY <1>5, <1>7, <2>1 DEF EnvoyNew, DeployOurs, Leaves, MineIn
  <2>3. EnvoyNew \/ (prog(v) = ProgrammedIn(cache) /\ v.ready = AddressedIn(cache))
    <3>1. CASE EnvoyNew
      BY <3>1
    <3>2. CASE MineIn(cache, "deploy") /\ MineIn(cache, "svc") /\ v.ready = cache["svc"].ready
      <4>1. gwJob.available = cache["deploy"].ready /\ cache["svc"].ready \in BOOLEAN
        BY <1>7, <1>8, <3>2 DEF MineIn
      <4>2. prog(v) = ProgrammedIn(cache)
        BY <1>5, <3>2, <4>1 DEF ProgrammedIn, EnvoyIn
      <4>3. v.ready = AddressedIn(cache)
        BY <3>2, <4>1 DEF AddressedIn, EnvoyIn
      <4>4. QED
        BY <4>2, <4>3
    <3>3. QED
      BY <2>2, <3>1, <3>2
  <2> HIDE DEF prog
  <2>4. QED
    BY <1>11, <2>1, <2>3
<1>14. QED
  BY <1>2, <1>12, <1>13

LEMMA TunnelGw ==
  ASSUME NilIsNoRecord, TypeInv, GwInv, ProvisionTunnel
  PROVE  GwInv'
<1> SUFFICES ASSUME Settling' PROVE gwJob' # Nil /\ JobInv'
  BY DEF GwInv
<1>1. UNCHANGED <<cache, routeCache, active>> /\ gwJob # Nil /\ gwJob.pc = "tunnel"
  BY DEF ProvisionTunnel, gwFrame
<1> DEFINE content == tunnelSpec(gwJob.model, gwJob.gw, gwJob.config, cache["svc"])
           with(tunnel) == Goes("status", gwJob.programmed, gwJob.addressed, tunnel)
<1>2. \/ /\ gwJob.config.template = Nil /\ api' = api /\ queue' = queue
         /\ with(Condition(FALSE, "NotImplemented"))
      \/ /\ gwJob.config.template # Nil
         /\ \/ Refused("tunnel") /\ with(Condition(FALSE, "Conflict"))
            \/ queue' = queue /\ \E v : Leaves("tunnel", content, v) /\ with(tunnelCondition(v))
  BY TunnelDone DEF Settling, GivesUp
<1>3. queue' = queue /\ api'["gw"] = api["gw"] /\ Owned = {"deploy", "svc", "tunnel"}
  <2>1. DOMAIN api = Object
    BY DEF TypeInv, ObjectsOK
  <2>2. QED
    BY <1>2, <2>1, ObjectNames DEF Refused, Leaves, Owned
<1>4. /\ JobInv
      /\ Acc' = Acc /\ Now' = Now
      /\ DeployOurs' = DeployOurs /\ EnvoyNew' = EnvoyNew /\ TunnelNew' = TunnelNew
      /\ ProgrammedIn(cache)' = ProgrammedIn(cache) /\ AddressedIn(cache)' = AddressedIn(cache)
      /\ TunnelIn(cache)' = TunnelIn(cache)
  BY <1>1, <1>3, GoesOn
<1>5. /\ Acc.ok /\ AcceptedJob /\ gwJob.gw = cache["gw"] /\ gwJob.config = cache["config"]
      /\ gwJob.model.listeners = Now.listeners
  BY <1>1, <1>4 DEF JobInv, RejectedJob, AcceptedJob
<1>6. content = Want("tunnel")
  BY <1>5 DEF Want, desiredContent, tunnelSpec, Now
<1>7. /\ EnvoyVisited
      /\ EnvoyNew \/ (gwJob.programmed = ProgrammedIn(cache) /\ gwJob.addressed = AddressedIn(cache))
  BY <1>1, <1>5 DEF AcceptedJob
<1> HIDE DEF content
<1>8. /\ Visited("deploy") => Visited("deploy")'
      /\ Visited("svc") => Visited("svc")'
      /\ gwJob.config.template # Nil => Visited("tunnel")'
  <2>1. CASE gwJob.config.template = Nil
    <3>1. api' = api
      BY <1>2, <2>1
    <3>2. QED
      BY <1>1, <2>1, <3>1 DEF Visited, Want
  <2>2. CASE gwJob.config.template # Nil
    <3>1. Refused("tunnel") \/ \E v : Leaves("tunnel", Want("tunnel"), v)
      BY <1>2, <1>6, <2>2
    <3>2. QED
      BY <1>1, <1>3, <1>5, <3>1, EnsureVisits
  <2>3. QED
    BY <2>1, <2>2
<1>9. EnvoyVisited' /\ TunnelVisited'
  BY <1>1, <1>4, <1>5, <1>7, <1>8 DEF EnvoyVisited, TunnelVisited
<1>10. ASSUME NEW tn, with(tn), TunnelNew \/ tn = TunnelIn(cache)
       PROVE  gwJob' # Nil /\ JobInv'
  <2>1. /\ gwJob' # Nil /\ gwJob'.pc = "status" /\ gwJob'.tunnel = tn
        /\ gwJob'.programmed = gwJob.programmed /\ gwJob'.addressed = gwJob.addressed
        /\ gwJob'.gw = gwJob.gw /\ gwJob'.model = gwJob.model /\ gwJob'.config = gwJob.config
        /\ gwJob'.accepted = gwJob.accepted
    BY <1>1, <1>10, GoesTo
  <2>2. AcceptedJob'
    BY <1>1, <1>4, <1>5, <1>7, <1>9, <1>10, <2>1 DEF AcceptedJob
  <2>3. QED
    BY <1>1, <1>4, <1>5, <2>1, <2>2 DEF JobInv
<1>11. CASE gwJob.config.template = Nil
  <2>1. TunnelIn(cache) = Condition(FALSE, "NotImplemented")
    BY <1>5, <1>11 DEF TunnelIn
  <2>2. QED
    BY <1>2, <1>10, <1>11, <2>1
<1>12. CASE gwJob.config.template # Nil /\ Refused("tunnel") /\ with(Condition(FALSE, "Conflict"))
  <2>1. TunnelIn(cache) = Condition(FALSE, "Conflict")
    BY <1>5, <1>12 DEF TunnelIn, MineIn, Refused
  <2> HIDE DEF with
  <2>2. QED
    BY <1>10, <1>12, <2>1
<1>13. CASE gwJob.config.template # Nil /\ \E v : Leaves("tunnel", content, v) /\ with(tunnelCondition(v))
  <2> HIDE DEF with
  <2>1. PICK v : Leaves("tunnel", content, v) /\ with(tunnelCondition(v))
    BY <1>13
  <2>2. TunnelNew \/ tunnelCondition(v) = TunnelIn(cache)
    BY <1>5, <1>13, <2>1 DEF TunnelNew, TunnelIn, MineIn, Leaves, tunnelCondition
  <2>3. QED
    BY <1>10, <2>1, <2>2
<1>14. QED
  BY <1>2, <1>11, <1>12, <1>13

\* The merge patch: it changes nothing if the status was right, and else the status
\* differs from the one in the cache.
LEMMA PatchTells ==
  ASSUME NEW now, NEW base, NEW new, DOMAIN new = StatusFields, new = [f \in StatusFields |-> new[f]],
         base = [f \in StatusFields |-> base[f]], new # base
  PROVE  Patched(now, base, new) # base
<1>1. PICK f \in StatusFields : new[f] # base[f]
  OBVIOUS
<1>2. Patched(now, base, new)[f] = new[f]
  BY <1>1 DEF Patched
<1>3. QED
  BY <1>1, <1>2

LEMMA PatchGw ==
  ASSUME NilIsNoRecord, TypeInv, BaseInv, GwInv, PatchGateway
  PROVE  GwInv'
<1> SUFFICES ASSUME Settling' PROVE gwJob' = Nil /\ RestInv'
  BY DEF GwInv
<1>1. UNCHANGED <<cache, routeCache, active>> /\ gwJob # Nil /\ gwJob.pc = "status" /\ gwJob' = Nil
  BY DEF PatchGateway, gwFrame
<1> DEFINE new == statusOf(gwJob.model, gwJob.accepted, gwJob.programmed, gwJob.tunnel, gwJob.addressed)
           st == Patched(api["gw"].status, gwJob.gw.status, new)
<1>2. api["gw"] # Nil /\ queue' = queue /\ Write("gw", [api["gw"] EXCEPT !.status = st])
  BY DEF PatchGateway, Requeue, Settling
<1>3. /\ DOMAIN api = Object /\ GwOK(api["gw"]) /\ GwOK(cache["gw"])
  BY DEF TypeInv, ObjectsOK
<1> HIDE DEF st
<1>4. /\ \A o \in Owned : api'[o] = api[o]
      /\ api'["gw"].uid = api["gw"].uid /\ api'["gw"].deleting = api["gw"].deleting /\ api'["gw"].status = st
  BY <1>2, <1>3, ObjectNames DEF Write, GwOK, GatewayFields
<1>5. Settling
  BY <1>1, <1>2, <1>4 DEF Settling, Gone
<1>6. JobInv
  BY <1>1, <1>5 DEF GwInv
<1>7. \A o \in Owned : Visited(o) => Visited(o)'
  BY <1>1, <1>4 DEF Visited, Want
<1>8. EnvoyVisited /\ TunnelVisited => EnvoyVisited' /\ TunnelVisited'
  BY <1>1, <1>7 DEF EnvoyVisited, TunnelVisited, DeployOurs, Owned
<1>9. Acc' = Acc /\ EnvoyNew' = EnvoyNew /\ TunnelNew' = TunnelNew
  BY <1>1 DEF Acc, EnvoyNew, TunnelNew
<1>10. Acc.ok => EnvoyVisited' /\ TunnelVisited'
  BY <1>1, <1>6, <1>8 DEF JobInv, AcceptedJob
<1>11. CASE Acc.ok /\ (EnvoyNew \/ TunnelNew)
  BY <1>1, <1>9, <1>10, <1>11 DEF RestInv
<1>12. CASE ~(Acc.ok /\ (EnvoyNew \/ TunnelNew))
  <2>1. \A a, p, tn, b : statusOf(gwJob.model, a, p, tn, b) = statusOf(Now, a, p, tn, b)
    BY <1>6, StatusOfDepends DEF JobInv
  <2>2. new = desiredStatus(cache, routeCache)
    <3>1. CASE Acc.ok
      <4>1. /\ gwJob.accepted = Acc /\ gwJob.programmed = ProgrammedIn(cache) /\ gwJob.addressed = AddressedIn(cache)
            /\ gwJob.tunnel = TunnelIn(cache)
        BY <1>1, <1>6, <1>12, <3>1 DEF JobInv, AcceptedJob
      <4>2. new = statusOf(Now, Acc, ProgrammedIn(cache), TunnelIn(cache), AddressedIn(cache))
        BY <2>1, <4>1
      <4>3. desiredStatus(cache, routeCache)
            = statusOf(Now, Acc, ProgrammedIn(cache), TunnelIn(cache), AddressedIn(cache))
        BY <3>1, StatusIs DEF Acc, Now
      <4>4. QED
        BY <4>2, <4>3
    <3>2. CASE ~Acc.ok
      <4>1. /\ gwJob.accepted = Acc /\ gwJob.programmed = Condition(FALSE, "Invalid") /\ gwJob.addressed = FALSE
            /\ gwJob.tunnel = Nil
        BY <1>6, <3>2 DEF JobInv, RejectedJob
      <4>2. new = statusOf(Now, Acc, Condition(FALSE, "Invalid"), Nil, FALSE)
        <5>1. new = statusOf(Now, gwJob.accepted, gwJob.programmed, gwJob.tunnel, gwJob.addressed)
          BY <2>1
        <5> HIDE DEF new
        <5>2. QED
          BY <4>1, <5>1 DEF statusOf
      <4>3. desiredStatus(cache, routeCache) = statusOf(Now, Acc, Condition(FALSE, "Invalid"), Nil, FALSE)
        BY <3>2, StatusIs DEF Acc, Now
      <4>4. QED
        BY <4>2, <4>3
    <3>3. QED
      BY <3>1, <3>2
  <2>3. DOMAIN new = StatusFields /\ new = [f \in StatusFields |-> new[f]]
    BY DEF statusOf, StatusFields
  <2>4. gwJob.gw.status = cache["gw"].status /\ cache["gw"].status = [f \in StatusFields |-> cache["gw"].status[f]]
    BY <1>5, <1>6 DEF JobInv, BaseInv, GatewaysInv, Settling
  <2> HIDE DEF new
  <2>5. CASE new = cache["gw"].status
    BY <1>1, <1>9, <1>10, <2>2, <2>5 DEF RestInv
  <2>6. CASE new # cache["gw"].status
    <3>1. st # cache["gw"].status
      BY <2>3, <2>4, <2>6, PatchTells DEF st
    <3>2. QED
      BY <1>1, <1>4, <1>9, <1>10, <3>1 DEF RestInv
  <2>7. QED
    BY <2>5, <2>6
<1>13. QED
  BY <1>11, <1>12

\* What the cluster and its users do leaves the work done.
LEMMA ApiGw ==
  ASSUME NilIsNoRecord, TypeInv, BaseInv, GwInv, ApiSteps, [Next]_vars, [KnownFirst]_vars
  PROVE  GwInv'
<1>1. Elsewhere /\ GatewayMoves /\ \A o \in Owned : OwnedMoves(o)
  BY ApiEffects
<1>2. UNCHANGED <<cache, routeCache, gwJob, active, queue>>
  BY <1>1 DEF Elsewhere
<1>3. /\ cache["gw"] # Nil => cache["gw"].uid \in 1..MaxUid /\ cache["gw"].uid <= uids
      /\ api["gw"] # Nil => api["gw"].deleting \in BOOLEAN
      /\ uids \in Nat
  BY DEF TypeInv, ObjectsOK, GwOK, BaseInv, GatewaysInv
<1>4. api'["gw"] # Nil => api'["gw"].deleting \in BOOLEAN
  BY TypeStep DEF TypeInv, ObjectsOK, GwOK
<1>5. ASSUME cache["gw"] # Nil, ~Gone' PROVE ~Gone /\ api'["gw"].status = api["gw"].status
  <2>1. api'["gw"] # Nil /\ api'["gw"].uid = cache["gw"].uid /\ api'["gw"].deleting = FALSE
    BY <1>2, <1>4, <1>5 DEF Gone
  <2>2. cache["gw"].uid # uids + 1
    BY <1>3, <1>5
  <2>3. QED
    BY <1>1, <2>1, <2>2 DEF GatewayMoves, Gone
<1>6. ASSUME NEW o \in Owned, Settling, Visited(o) PROVE Visited(o)'
  <2>1. Want(o)' = Want(o) /\ cache' = cache
    BY <1>2 DEF Want
  <2>2. /\ api["gw"] # Nil /\ api["gw"].uid = cache["gw"].uid /\ ~api["gw"].deleting
        /\ cache["gw"].uid # Foreign
    BY <1>3, <1>6 DEF Settling, Gone, Foreign
  <2>3. OwnedMoves(o)
    BY <1>1
  <2>4. QED
    BY <1>6, <2>1, <2>2, <2>3 DEF OwnedMoves, Visited
<1>7. QED
  BY <1>2, <1>5, <1>6, GwFrame

\* A route delivered either names the Gateway, which is then enqueued, or does not count.
LEMMA SyncRouteGw ==
  ASSUME NilIsNoRecord, TypeInv, GwInv, NEW n \in RouteName, SyncRoute(n)
  PROVE  GwInv'
<1>1. UNCHANGED <<api, cache, gwJob, active>> /\ routeCache' = [routeCache EXCEPT ![n] = route[n]]
  BY DEF SyncRoute, jobVars
<1>2. CASE \E r \in {route[n], routeCache[n]} : r # Nil /\ RefersTo(r.spec)
  <2>1. "gw" \in active => "gw" \in queue'
    BY <1>2 DEF SyncRoute
  <2>2. QED
    BY <1>1, <2>1 DEF GwInv, Settling
<1>3. CASE ~\E r \in {route[n], routeCache[n]} : r # Nil /\ RefersTo(r.spec)
  <2>1. queue' = queue
    BY <1>3 DEF SyncRoute
  <2>2. DOMAIN routeCache = RouteName
    BY DEF TypeInv, RoutesOK
  <2>3. routeCache'[n] = route[n] /\ \A k \in RouteName : k # n => routeCache'[k] = routeCache[k]
    BY <1>1, <2>2
  <2>4. /\ Referring(liveRoutes(routeCache)) = Referring(liveRoutes(routeCache'))
        /\ \A k \in Referring(liveRoutes(routeCache)) : liveRoutes(routeCache)[k] = liveRoutes(routeCache')[k]
    <3>1. ~\E x \in {routeCache'[n], routeCache[n]} : x # Nil /\ RefersTo(x.spec)
      BY <1>3, <2>3
    <3>2. QED
      BY <2>3, <3>1, OtherRoute
  <2>5. buildGateway(cache, routeCache) = buildGateway(cache, routeCache')
    BY <2>4, SnapshotDepends
  <2>6. Now' = Now
    BY <1>1, <2>5 DEF Now
  <2>7. QED
    BY <1>1, <2>1, <2>6, GwView
<1>4. QED
  BY <1>2, <1>3

\* So it is with every other object.
LEMMA SyncGw ==
  ASSUME NilIsNoRecord, TypeInv, BaseInv, GwInv, NEW o \in Object, Sync(o)
  PROVE  GwInv'
<1>1. /\ UNCHANGED <<api, routeCache, gwJob, active>> /\ cache' = [cache EXCEPT ![o] = api[o]]
      /\ queue' = queue \cup (Enqueued(o, cache') \cap active) /\ cache[o] # api[o]
  BY DEF Sync, jobVars
<1>2. DOMAIN cache = Object /\ {"gw", "class", "config", "grants", "services", "secrets"} \subseteq Object \ Owned
      /\ Owned \subseteq Object
  BY DEF TypeInv, ObjectsOK, Object, Owned
<1>3. cache'[o] = api[o] /\ \A x \in Object : x # o => cache'[x] = cache[x]
  BY <1>1, <1>2
<1>4. SUFFICES ASSUME Settling', "gw" \notin Enqueued(o, cache') PROVE GwInv'
  BY <1>1 DEF GwInv, Settling
<1>5. cache'["gw"] # Nil /\ Ours(cache') /\ cache'["class"] # Nil
  BY <1>4 DEF Settling, Ours
<1>6. ~(o \in {"gw", "class", "grants", "secrets"})
  BY <1>4, <1>5 DEF Enqueued
<1>7. o \notin Owned
  <2> SUFFICES ASSUME o \in Owned PROVE FALSE
    OBVIOUS
  <2>1. "gw" \in (IF \E v \in {cache'[o], cache[o]} : v # Nil /\ v.owner # Foreign THEN {"gw"} ELSE {})
    <3>1. /\ api[o] # Nil /\ api[o].owner = Foreign => cache[o] # Nil
          /\ cache[o] # Nil /\ cache[o].owner = Foreign => api[o] = cache[o]
      BY DEF BaseInv, IntruderInv
    <3>2. \E v \in {cache'[o], cache[o]} : v # Nil /\ v.owner # Foreign
      BY <1>1, <1>3, <3>1
    <3>3. QED
      BY <3>2
  <2>2. QED
    BY <1>4, <2>1 DEF Enqueued, Owned
<1>8. /\ cache'["gw"] = cache["gw"] /\ cache'["class"] = cache["class"] /\ \A x \in Owned : cache'[x] = cache[x]
      /\ cache'["grants"] = cache["grants"] /\ cache'["secrets"] = cache["secrets"]
  BY <1>2, <1>3, <1>6, <1>7
<1>9. CASE o = "config"
  <2>1. cache'["services"] = cache["services"]
    BY <1>2, <1>3, <1>9
  <2>2. cache["class"].params = "absent"
    <3>1. cache["class"] # Nil /\ cache["class"].params # "config"
      BY <1>4, <1>5, <1>8, <1>9 DEF Enqueued
    <3>2. QED
      BY <3>1 DEF BaseInv, ClassesInv
  <2>3. refsOf(cache') = refsOf(cache)
    BY <1>8, <2>1, <2>2, RefsDepend
  <2>4. buildGateway(cache, routeCache) = buildGateway(cache', routeCache)
    BY <1>8, <2>3, SnapshotDepends
  <2>5. Now' = Now
    BY <1>1, <2>4 DEF Now
  <2>6. QED
    BY <1>1, <1>8, <2>2, <2>5, GwView
<1>10. CASE o = "services"
  <2>1. cache'["config"] = cache["config"]
    BY <1>2, <1>3, <1>10
  <2> DEFINE p == refsOf(cache)
             q == refsOf(cache')
  <2>2. p.warp = q.warp /\ p.grants = q.grants /\ p.secrets = q.secrets /\ p.selected = q.selected
    BY <1>8, <2>1 DEF refsOf
  <2> HIDE DEF p, q
  <2>3. IsFiniteSet(DOMAIN liveRoutes(routeCache))
    <3>1. DOMAIN liveRoutes(routeCache) \subseteq RouteName
      BY DEF liveRoutes
    <3>2. QED
      BY <3>1, ConstantsAssumption, FS_Subset
  <2>4. Now'.listeners = Now.listeners /\ Now'.attachedRoutes = Now.attachedRoutes
    <3>1. \A gw : /\ Build(gw, liveRoutes(routeCache), p).listeners = Build(gw, liveRoutes(routeCache), q).listeners
                  /\ Build(gw, liveRoutes(routeCache), p).attachedRoutes = Build(gw, liveRoutes(routeCache), q).attachedRoutes
      BY <2>2, <2>3, CountDepends
    <3>2. Now = Build(cache["gw"].spec, liveRoutes(routeCache), p)
      BY DEF Now, buildGateway, p
    <3>3. Now' = Build(cache["gw"].spec, liveRoutes(routeCache), q)
      BY <1>1, <1>8 DEF Now, buildGateway, q
    <3>4. QED
      BY <3>1, <3>2, <3>3
  <2>5. QED
    BY <1>1, <1>8, <2>1, <2>4, GwView
<1>11. QED
  BY <1>6, <1>7, <1>9, <1>10 DEF Object

LEMMA GwStep ==
  ASSUME NilIsNoRecord, TypeInv, BaseInv, GwInv, [Next]_vars, [KnownFirst]_vars
  PROVE  GwInv'
<1>1. CASE ApiSteps
  BY <1>1, ApiGw
<1>2. CASE GatewaySteps
  BY <1>2, ReconcileGw, DeploymentGw, ServiceGw, TunnelGw, PatchGw DEF GatewaySteps
<1>3. CASE \/ RouteSteps \/ ClassReconcile \/ ClassStatus
           \/ (\E n \in RouteName : RouteReconcile(n)) \/ PatchRoute \/ XDSReconcile \/ XdsChanges \/ UNCHANGED vars
  <2>1. /\ UNCHANGED <<cache, routeCache, gwJob, active>> /\ ("gw" \in queue => "gw" \in queue')
        /\ api'["gw"] = api["gw"] /\ \A o \in Owned : api'[o] = api[o]
    <3>1. CASE RouteSteps
      BY <3>1, RouteStepsElsewhere DEF Elsewhere
    <3>2. CASE ClassReconcile \/ ClassStatus
      <4>1. /\ UNCHANGED <<cache, routeCache, gwJob, active>>
            /\ \A o \in Object : o # "class" => api'[o] = api[o]
            /\ queue' \cup {"class"} = queue \cup {"class"}
        BY <3>2, ClassEffects DEF BaseInv
      <4>2. "gw" \in queue => "gw" \in queue'
        BY <4>1
      <4>3. QED
        BY <4>1, <4>2, ObjectNames
    <3>3. CASE (\E n \in RouteName : RouteReconcile(n)) \/ PatchRoute \/ XDSReconcile \/ XdsChanges \/ UNCHANGED vars
      BY <3>3 DEF RouteReconcile, PatchRoute, XDSReconcile, XdsChanges, Event, outsideFrame, vars, worldVars, jobVars
    <3>4. QED
      BY <1>3, <3>1, <3>2, <3>3
  <2>2. \A o \in Owned : Visited(o) => Visited(o)'
    BY <2>1 DEF Visited, Want
  <2>3. Gone' = Gone
    BY <2>1 DEF Gone
  <2>4. QED
    BY <2>1, <2>2, <2>3, GwFrame
<1>4. CASE \E c \in {"class", "gw", "route"} : CallFails(c)
  <2>1. UNCHANGED <<api, cache, routeCache, active>> /\ ("gw" \in queue => "gw" \in queue')
        /\ (gwJob' = gwJob \/ "gw" \in queue')
    BY <1>4 DEF CallFails, Requeue, worldVars
  <2>2. CASE "gw" \in queue'
    BY <2>2 DEF GwInv, Settling
  <2>3. CASE gwJob' = gwJob
    <3>1. \A o \in Owned : Visited(o) => Visited(o)'
      BY <2>1 DEF Visited, Want
    <3>2. Gone' = Gone
      BY <2>1 DEF Gone
    <3>3. QED
      BY <2>1, <2>3, <3>1, <3>2, GwFrame
  <2>4. QED
    BY <2>1, <2>2, <2>3
<1>5. CASE Restart
  <2>1. cache' = api /\ active' = active /\ ("gw" \in active /\ api["gw"] # Nil => "gw" \in queue')
    BY <1>5 DEF Restart
  <2>2. QED
    BY <2>1 DEF GwInv, Settling
<1>6. QED
  BY <1>1, <1>2, <1>3, <1>4, <1>5, SyncRouteGw, SyncGw, StepKinds

-----------------------------------------------------------------------------
(* Where the operator starts *)

LEMMA StatusRecord ==
  ASSUME NEW objects, NEW routes
  PROVE  desiredStatus(objects, routes) = [f \in StatusFields |-> desiredStatus(objects, routes)[f]]
<1>1. \A m, a, p, tn, b : statusOf(m, a, p, tn, b) = [f \in StatusFields |-> statusOf(m, a, p, tn, b)[f]]
  BY DEF statusOf, StatusFields
<1>2. \E m, a, p, tn, b : desiredStatus(objects, routes) = statusOf(m, a, p, tn, b)
  BY StatusIs
<1>3. QED
  BY <1>1, <1>2

\* What the operator reads is there from the start.
LEMMA FreshHas ==
  ASSUME NilIsNoRecord, NEW w \in Worlds
  PROVE  /\ Fresh(w)["gw"] # Nil /\ Fresh(w)["gw"].uid = 1 /\ Fresh(w)["gw"].spec = w.gw
         /\ Fresh(w)["gw"].deleting = FALSE /\ Fresh(w)["gw"].status = NoStatus
         /\ Fresh(w)["class"] # Nil /\ Fresh(w)["class"].ours = TRUE /\ Fresh(w)["class"].params = "config"
         /\ Fresh(w)["class"].fin = TRUE /\ Fresh(w)["class"].deleting = FALSE
         /\ Fresh(w)["class"].accepted = Right(Fresh(w)["class"], Fresh(w)["config"])
         /\ \A o \in Owned : Fresh(w)[o] = Nil
<1>1. /\ DOMAIN Fresh(w) = Object
      /\ Fresh(w)["gw"] = NewGateway(1, w.gw) /\ Fresh(w)["config"] = w["config"]
      /\ \A o \in Owned : Fresh(w)[o] = Nil
  BY ObjectNames DEF Fresh, Owned, Object
<1> DEFINE acc == Right(NewClass("config"), w.config)
           g == NewGateway(1, w.gw)
           c == [NewClass("config") EXCEPT !.fin = TRUE, !.accepted = acc]
<1>2. Fresh(w)["class"] = c
  BY ObjectNames DEF Fresh, Right
<1> HIDE DEF acc
<1>3. /\ DOMAIN c = ClassFields /\ c.ours = TRUE /\ c.params = "config" /\ c.fin = TRUE /\ c.deleting = FALSE
      /\ c.accepted = acc
  BY DEF NewClass, ClassFields
<1>4. DOMAIN g = GatewayFields /\ g.uid = 1 /\ g.spec = w.gw /\ g.deleting = FALSE /\ g.status = NoStatus
  BY DEF NewGateway, GatewayFields
<1> HIDE DEF c, g
<1>5. c # Nil /\ g # Nil
  BY <1>3, <1>4 DEF NilIsNoRecord
<1>6. Right(c, w["config"]) = acc
  <2>1. NewClass("config").params = "config"
    BY DEF NewClass
  <2>2. QED
    BY <1>3, <2>1, RightDepends DEF acc
<1>7. QED
  BY <1>1, <1>2, <1>3, <1>4, <1>5, <1>6 DEF g

\* A world that has been served has everything that it calls for.
LEMMA ServedHas ==
  ASSUME NilIsNoRecord, NEW w \in Worlds
  PROVE  /\ \A o \in {"class", "config", "grants", "services", "secrets"} : Served(w)[o] = Fresh(w)[o]
         /\ Served(w)["gw"] # Nil /\ Served(w)["gw"].uid = 1 /\ Served(w)["gw"].spec = w.gw
         /\ Served(w)["gw"].deleting = FALSE
         /\ Served(w)["gw"].status = desiredStatus(Served(w), FreshRoutes(w))
         /\ Served(w)["deploy"] # Nil /\ Served(w)["svc"] # Nil
         /\ Served(w)["config"].template # Nil => Served(w)["tunnel"] # Nil
         /\ \A o \in Owned : Served(w)[o] # Nil =>
              /\ Served(w)[o].owner = 1
              /\ Served(w)[o].content = desiredContent(o, Served(w), FreshRoutes(w))
<1> DEFINE r == FreshRoutes(w)
           thing(o, objects) == [owner |-> 1, content |-> desiredContent(o, objects, r), ready |-> TRUE]
           envoy == [o \in Object |-> IF o \in {"deploy", "svc"} THEN thing(o, Fresh(w)) ELSE Fresh(w)[o]]
           tn == IF w.config.template = Nil THEN Nil ELSE thing("tunnel", envoy)
           all == [envoy EXCEPT !["tunnel"] = tn]
           st == desiredStatus(all, r)
           g == [NewGateway(1, w.gw) EXCEPT !.status = st]
           s == Served(w)
<1>1. Served(w) = [all EXCEPT !["gw"].status = st]
  BY Zenon DEF Served
<1>2. \A o, objects : /\ thing(o, objects) # Nil /\ thing(o, objects).owner = 1
                      /\ thing(o, objects).content = desiredContent(o, objects, r)
  <2>1. \A o, objects : /\ DOMAIN thing(o, objects) = OwnedFields /\ thing(o, objects).owner = 1
                        /\ thing(o, objects).content = desiredContent(o, objects, r)
    BY DEF OwnedFields
  <2> HIDE DEF thing
  <2>2. QED
    BY <2>1 DEF NilIsNoRecord
<1> HIDE DEF thing
<1>3. /\ DOMAIN envoy = Object
      /\ \A o \in Object : envoy[o] = IF o \in {"deploy", "svc"} THEN thing(o, Fresh(w)) ELSE Fresh(w)[o]
  OBVIOUS
<1> HIDE DEF envoy, tn
<1>4. {"gw", "class", "config", "grants", "services", "secrets", "deploy", "svc", "tunnel"} = Object
  BY DEF Object, Owned
<1>5. DOMAIN all = Object /\ all["tunnel"] = tn /\ \A o \in Object \ {"tunnel"} : all[o] = envoy[o]
  BY <1>3, <1>4
<1> HIDE DEF all, st
<1>6. all["gw"] = NewGateway(1, w.gw)
  BY <1>3, <1>4, <1>5, FreshOK
<1>7. s["gw"] = g /\ \A o \in Object \ {"gw"} : s[o] = all[o]
  BY <1>1, <1>4, <1>5, <1>6
<1>8. DOMAIN g = GatewayFields /\ g.uid = 1 /\ g.spec = w.gw /\ g.deleting = FALSE /\ g.status = st
  BY DEF NewGateway, GatewayFields
<1> HIDE DEF g, s
<1>9. g # Nil
  BY <1>8 DEF NilIsNoRecord
<1>10. /\ s["gw"].spec = w.gw /\ Fresh(w)["gw"].spec = w.gw /\ all["gw"].spec = w.gw /\ envoy["gw"].spec = w.gw
       /\ all["gw"].uid = 1 /\ s["gw"].uid = 1
  <2>1. Fresh(w)["gw"].spec = w.gw /\ NewGateway(1, w.gw).spec = w.gw /\ NewGateway(1, w.gw).uid = 1
    BY FreshHas DEF NewGateway
  <2>2. envoy["gw"] = Fresh(w)["gw"]
    BY <1>3, <1>4
  <2>3. QED
    BY <1>6, <1>7, <1>8, <2>1, <2>2
<1>11. /\ \A o \in {"class", "config", "grants", "services", "secrets"} :
            s[o] = Fresh(w)[o] /\ all[o] = Fresh(w)[o] /\ envoy[o] = Fresh(w)[o]
       /\ s["deploy"] = thing("deploy", Fresh(w)) /\ s["svc"] = thing("svc", Fresh(w)) /\ envoy["svc"] = thing("svc", Fresh(w))
       /\ s["tunnel"] = tn
  BY <1>3, <1>4, <1>5, <1>7
<1>12. \A x \in {all, envoy, Fresh(w)} : buildGateway(x, r) = buildGateway(s, r)
  <2>1. \A x \in {all, envoy, Fresh(w)} : refsOf(x) = refsOf(s)
    BY <1>11, RefsDepend
  <2>2. QED
    BY <1>10, <2>1 DEF buildGateway
<1>13. w.config = s["config"]
  BY <1>11 DEF Fresh, Object
<1>14. st = desiredStatus(s, r)
  <2>1. \A x \in Owned : s[x] = all[x]
    BY <1>4, <1>7 DEF Owned
  <2>2. QED
    BY <1>10, <1>11, <1>12, <2>1, StatusDepends DEF st
<1>15. /\ s["deploy"].content = desiredContent("deploy", s, r)
       /\ s["svc"].content = desiredContent("svc", s, r)
  <2>1. desiredContent("deploy", Fresh(w), r) = desiredContent("deploy", s, r)
    BY <1>11 DEF desiredContent
  <2>2. desiredContent("svc", Fresh(w), r) = desiredContent("svc", s, r)
    BY <1>12 DEF desiredContent
  <2>3. QED
    BY <1>2, <1>11, <2>1, <2>2
<1>16. s["tunnel"] # Nil => s["tunnel"].owner = 1 /\ s["tunnel"].content = desiredContent("tunnel", s, r)
  <2>1. desiredContent("tunnel", envoy, r) = desiredContent("tunnel", s, r)
    BY <1>2, <1>10, <1>11, <1>12, ContentDepends DEF Owned
  <2>2. QED
    BY <1>2, <1>11, <2>1 DEF tn
<1>17. s["config"].template # Nil => s["tunnel"] # Nil
  BY <1>2, <1>11, <1>13 DEF tn
<1>18. QED
  BY <1>2, <1>7, <1>8, <1>9, <1>11, <1>14, <1>15, <1>16, <1>17 DEF s, Owned

\* The routes' entries are all that a served world's routes have on top.
LEMMA ServedLive ==
  ASSUME NilIsNoRecord, NEW w \in Worlds
  PROVE  /\ liveRoutes(ServedRoutes(w)) = liveRoutes(FreshRoutes(w))
         /\ \A n \in RouteName : ServedRoutes(w)[n] # Nil =>
              /\ FreshRoutes(w)[n] # Nil
              /\ ServedRoutes(w)[n].deleting = FALSE /\ FreshRoutes(w)[n].deleting = FALSE
              /\ ServedRoutes(w)[n].spec = FreshRoutes(w)[n].spec
              /\ ServedRoutes(w)[n].parents = parentStatuses(n, Fresh(w), FreshRoutes(w))
<1> DEFINE f == FreshRoutes(w)
           s == ServedRoutes(w)
           ps(n) == parentStatuses(n, Fresh(w), f)
<1>1. ASSUME NEW n \in RouteName
      PROVE  /\ s[n] = Nil <=> f[n] = Nil
             /\ s[n] # Nil => /\ s[n].deleting = FALSE /\ f[n].deleting = FALSE /\ s[n].spec = f[n].spec
                              /\ s[n].parents = ps(n)
  <2> DEFINE a == NewRoute(w.routes[n])
             b == [a EXCEPT !.parents = ps(n)]
  <2>1. f[n] = (IF w.routes[n] = Nil THEN Nil ELSE a) /\ s[n] = (IF w.routes[n] = Nil THEN Nil ELSE b)
    BY DEF FreshRoutes, ServedRoutes
  <2> HIDE DEF ps, f, s
  <2>2. /\ DOMAIN a = RouteFields /\ DOMAIN b = RouteFields /\ a.deleting = FALSE /\ b.deleting = FALSE
        /\ a.spec = b.spec /\ b.parents = ps(n)
    BY DEF NewRoute, RouteFields
  <2> HIDE DEF a, b
  <2>3. a # Nil /\ b # Nil
    BY <2>2 DEF NilIsNoRecord
  <2>4. QED
    BY <2>1, <2>2, <2>3
<1> HIDE DEF f, s
<1>2. liveRoutes(s) = liveRoutes(f)
  BY <1>1 DEF liveRoutes
<1> HIDE DEF ps
<1>3. QED
  BY <1>1, <1>2 DEF f, s, ps

\* A world not yet served: the operator does not know of the Gateway.
LEMMA FreshInvs ==
  ASSUME NilIsNoRecord, NEW w \in Worlds,
         api = Fresh(w), cache = [api EXCEPT !["gw"] = Nil], route = FreshRoutes(w), routeCache = route,
         uids = 1, classJob = Nil, routeJob = Nil, snapshot = desiredSnapshot(cache, routeCache)
  PROVE  BaseInv /\ ClassInv /\ XdsInv /\ RouteInv /\ GwInv
<1>1. /\ DOMAIN api = Object /\ cache["gw"] = Nil
      /\ \A o \in Object : o # "gw" => cache[o] = api[o]
  BY FreshOK, ObjectNames DEF ObjectsOK
<1>2. cache["class"] = api["class"] /\ cache["config"] = api["config"] /\ \A o \in Owned : cache[o] = api[o]
  BY <1>1, ObjectNames DEF Object
<1>3. /\ api["gw"].uid = 1 /\ api["gw"].status = NoStatus /\ \A o \in Owned : api[o] = Nil
      /\ api["class"].ours = TRUE /\ api["class"].params = "config" /\ api["class"].fin = TRUE
      /\ api["class"].deleting = FALSE /\ api["class"].accepted = Right(api["class"], api["config"])
  BY FreshHas
<1>4. BaseInv /\ ClassInv
  <2>1. GatewaysInv
    BY <1>1, <1>3, NoStatusIsRecord DEF GatewaysInv
  <2>2. ClassesInv
    BY <1>2, <1>3 DEF ClassesInv
  <2>3. IntruderInv
    BY <1>2, <1>3 DEF IntruderInv
  <2>4. ClassInv
    BY <1>2, <1>3 DEF ClassInv
  <2>5. QED
    BY <2>1, <2>2, <2>3, <2>4 DEF BaseInv
<1>5. XdsInv /\ GwInv
  BY <1>1 DEF XdsInv, GwInv, Settling
<1>6. ASSUME NEW n \in RouteName, routeCache[n] # Nil PROVE OursIn(routeCache[n].parents) = parentStatuses(n, cache, routeCache)
  <2>1. parentStatuses(n, cache, routeCache) = {}
    BY <1>1, ParentsOf
  <2>2. routeCache[n].parents = {}
    BY <1>6 DEF FreshRoutes, NewRoute
  <2>3. QED
    BY <2>1, <2>2 DEF OursIn
<1>7. RouteInv
  BY <1>6 DEF RouteInv, RouteSettled
<1>8. QED
  BY <1>4, <1>5, <1>7

\* A served world, some of whose objects were lost.
LEMMA ServedInvs ==
  ASSUME NilIsNoRecord, NEW w \in Worlds,
         api = [o \in Object |-> IF o \in w.lost THEN Nil ELSE Served(w)[o]], cache = api,
         route = ServedRoutes(w), routeCache = route, queue = {c \in {"gw"} : w.lost # {}},
         uids = 1, classJob = Nil, gwJob = Nil, routeJob = Nil, snapshot = desiredSnapshot(cache, routeCache)
  PROVE  BaseInv /\ ClassInv /\ XdsInv /\ RouteInv /\ GwInv
<1> DEFINE s == Served(w)
           f == FreshRoutes(w)
<1>1. /\ w.lost \subseteq Owned /\ Owned = {"deploy", "svc", "tunnel"}
      /\ {"gw", "class", "config", "grants", "services", "secrets"} \subseteq Object \ Owned
      /\ Owned \subseteq Object
  BY WorldsAssumption DEF Owned, Object
<1>2. /\ \A o \in {"gw", "class", "config", "grants", "services", "secrets"} : api[o] = s[o] /\ cache[o] = s[o]
      /\ \A o \in Owned : api[o] = (IF o \in w.lost THEN Nil ELSE s[o]) /\ cache[o] = api[o]
  BY <1>1
<1>3. /\ \A o \in {"class", "config", "grants", "services", "secrets"} : s[o] = Fresh(w)[o]
      /\ s["gw"] # Nil /\ s["gw"].uid = 1 /\ s["gw"].spec = w.gw /\ s["gw"].deleting = FALSE
      /\ s["gw"].status = desiredStatus(s, f)
      /\ s["deploy"] # Nil /\ s["svc"] # Nil
      /\ s["config"].template # Nil => s["tunnel"] # Nil
      /\ \A o \in Owned : s[o] # Nil => s[o].owner = 1 /\ s[o].content = desiredContent(o, s, f)
  BY ServedHas
<1> HIDE DEF s
<1>4. GatewaysInv
  BY <1>2, <1>3, StatusRecord DEF GatewaysInv
<1>5. ClassesInv /\ ClassInv
  <2>1. /\ api["class"].ours = TRUE /\ api["class"].params = "config" /\ api["class"].fin = TRUE
        /\ api["class"].deleting = FALSE /\ api["class"].accepted = Right(api["class"], api["config"])
    <3>1. api["class"] = Fresh(w)["class"] /\ api["config"] = Fresh(w)["config"]
      BY <1>2, <1>3
    <3>2. QED
      BY <3>1, FreshHas
  <2>2. ClassesInv
    BY <1>2, <2>1 DEF ClassesInv
  <2>3. ClassInv
    BY <1>2, <2>1 DEF ClassInv
  <2>4. QED
    BY <2>2, <2>3
<1>6. IntruderInv
  BY <1>2, <1>3 DEF IntruderInv, Foreign
<1>7. XdsInv
  BY DEF XdsInv
<1>8. ASSUME NEW n \in RouteName, routeCache[n] # Nil PROVE OursIn(routeCache[n].parents) = parentStatuses(n, cache, routeCache)
  <2>1. /\ f[n] # Nil /\ routeCache[n].deleting = FALSE /\ f[n].deleting = FALSE /\ routeCache[n].spec = f[n].spec
        /\ routeCache[n].parents = parentStatuses(n, Fresh(w), f)
    BY <1>8, ServedLive
  <2>2. refsOf(Fresh(w)) = refsOf(cache)
    BY <1>2, <1>3, RefsDepend
  <2>3. Ours(cache) /\ Ours(Fresh(w)) /\ cache["gw"] # Nil /\ Fresh(w)["gw"] # Nil
        /\ cache["gw"].spec = w.gw /\ Fresh(w)["gw"].spec = w.gw
    BY <1>2, <1>3, FreshHas DEF Ours
  <2> DEFINE es == Entries(f[n].spec, Listeners(w.gw.listeners, refsOf(cache)), refsOf(cache))
             refers == RefersTo(f[n].spec)
  <2>4. parentStatuses(n, Fresh(w), f) = IF refers THEN es ELSE {}
    BY <2>1, <2>2, <2>3, ParentsOf
  <2>5. parentStatuses(n, cache, routeCache) = IF refers THEN es ELSE {}
    BY <1>8, <2>1, <2>3, ParentsOf
  <2> HIDE DEF es, refers
  <2>6. \A p \in parentStatuses(n, Fresh(w), f) : p.controller = "ours"
    BY OwnEntries
  <2>7. QED
    BY <2>1, <2>4, <2>5, <2>6 DEF OursIn
<1>9. RouteInv
  BY <1>8 DEF RouteInv, RouteSettled
<1>10. GwInv
  <2> SUFFICES ASSUME Settling PROVE RestInv
    BY DEF GwInv
  <2>1. \A o \in Owned : cache[o] = s[o] /\ api[o] = s[o]
    BY <1>2 DEF Settling
  <2>2. buildGateway(cache, routeCache) = buildGateway(s, f)
    <3>1. refsOf(cache) = refsOf(s)
      BY <1>2, RefsDepend
    <3>2. QED
      BY <1>2, <3>1, ServedLive DEF buildGateway
  <2>3. desiredStatus(cache, routeCache) = desiredStatus(s, f)
    BY <1>2, <2>1, <2>2, StatusDepends
  <2>4. \A o \in Owned : Want(o) = desiredContent(o, s, f)
    BY <1>1, <1>2, <2>1, <2>2, ContentDepends DEF Want
  <2>5. \A o \in Owned : cache[o] # Nil => Visited(o)
    BY <1>3, <2>1, <2>4 DEF Visited
  <2>6. EnvoyVisited /\ TunnelVisited
    BY <1>1, <1>2, <1>3, <2>1, <2>5 DEF EnvoyVisited, TunnelVisited
  <2>7. QED
    BY <1>2, <1>3, <2>3, <2>6 DEF RestInv
<1>11. QED
  BY <1>4, <1>5, <1>6, <1>7, <1>9, <1>10 DEF BaseInv

LEMMA InitInvs ==
  ASSUME NilIsNoRecord, Init
  PROVE  BaseInv /\ ClassInv /\ XdsInv /\ RouteInv /\ GwInv
<1>1. PICK w \in Worlds :
        /\ api = IF w.served THEN [o \in Object |-> IF o \in w.lost THEN Nil ELSE Served(w)[o]] ELSE Fresh(w)
        /\ cache = IF w.served THEN api ELSE [api EXCEPT !["gw"] = Nil]
        /\ route = IF w.served THEN ServedRoutes(w) ELSE FreshRoutes(w)
        /\ routeCache = route
        /\ snapshot = desiredSnapshot(cache, routeCache)
        /\ uids = 1
        /\ queue = {c \in {"gw"} : w.lost # {}}
        /\ classJob = Nil /\ gwJob = Nil /\ routeJob = Nil
  BY DEF Init
<1>2. CASE w.served
  <2>1. /\ api = [o \in Object |-> IF o \in w.lost THEN Nil ELSE Served(w)[o]] /\ cache = api
        /\ route = ServedRoutes(w)
    BY <1>1, <1>2
  <2>2. QED
    BY <1>1, <2>1, ServedInvs
<1>3. CASE ~w.served
  <2>1. api = Fresh(w) /\ cache = [api EXCEPT !["gw"] = Nil] /\ route = FreshRoutes(w)
    BY <1>1, <1>3
  <2>2. QED
    BY <1>1, <2>1, FreshInvs
<1>4. QED
  BY <1>2, <1>3

-----------------------------------------------------------------------------
(* The theorem *)

\* At rest the cached Gateway is the current one, and no object is new to the cache.
LEMMA QuietGateway ==
  ASSUME GwInv, Quiet, "gw" \in active, Ours(api), api["gw"] # Nil, ~api["gw"].deleting
  PROVE  GatewayCurrent
<1>1. cache = api /\ routeCache = route /\ gwJob = Nil /\ queue = {}
  BY DEF Quiet, Idle
<1>2. RestInv
  BY <1>1 DEF GwInv, Settling, Gone
<1>3. Acc.ok => ~EnvoyNew /\ ~TunnelNew
  BY <1>1, <1>2 DEF RestInv, EnvoyNew, TunnelNew, EnvoyVisited, TunnelVisited, DeployOurs, Visited
<1>4. api["gw"].status = desiredStatus(api, route)
  BY <1>1, <1>2, <1>3 DEF RestInv
<1>5. api["gw"].status.conditions.accepted = Acc
  <2>1. \E m, p, tn, b : desiredStatus(api, route) = statusOf(m, Acc, p, tn, b)
    BY <1>1, StatusIs DEF Acc
  <2>2. \A m, p, tn, b : statusOf(m, Acc, p, tn, b).conditions.accepted = Acc
    BY DEF statusOf
  <2>3. QED
    BY <1>4, <2>1, <2>2
<1>6. ASSUME Acc.ok, NEW o \in Owned, api[o] # Nil, api[o].owner = api["gw"].uid,
             o = "svc" => api["deploy"] # Nil /\ api["deploy"].owner = api["gw"].uid,
             o = "tunnel" => api["config"].template # Nil
      PROVE  api[o].content = desiredContent(o, api, route)
  <2>1. Visited(o)
    BY <1>1, <1>2, <1>6 DEF RestInv, EnvoyVisited, TunnelVisited, DeployOurs, MineIn, Owned
  <2>2. QED
    BY <1>1, <1>6, <2>1 DEF Visited, Want
<1>7. QED
  BY <1>4, <1>5, <1>6 DEF GatewayCurrent

LEMMA QuietCurrent ==
  ASSUME ClassInv, XdsInv, RouteInv, GwInv
  PROVE  QuietMeansCurrent
<1> SUFFICES ASSUME Quiet PROVE QuietMeansCurrent
  BY DEF QuietMeansCurrent
<1>1. /\ cache = api /\ routeCache = route /\ queue = {} /\ routeQueue = {}
      /\ classJob = Nil /\ gwJob = Nil /\ routeJob = Nil
  BY DEF Quiet, Idle
<1>2. "class" \in active /\ Ours(api) /\ ~api["class"].deleting => api["class"].accepted = Right(api["class"], api["config"])
  BY <1>1 DEF ClassInv, Ours
<1>3. ASSUME NEW n \in RouteName, "route" \in active, route[n] # Nil, ~route[n].deleting
      PROVE  OursIn(route[n].parents) = parentStatuses(n, api, route)
  BY <1>1, <1>3 DEF RouteInv, RouteSettled
<1>4. "xds" \in active => snapshot = desiredSnapshot(api, route)
  BY <1>1 DEF XdsInv
<1>5. QED
  BY <1>2, <1>3, <1>4, QuietGateway DEF QuietMeansCurrent, Right, OursIn

\* When nothing waits and the caches have caught up, the class's and the Gateway's
\* conditions, the objects provisioned, the routes' entries and Envoy's configuration are
\* what the objects call for: the watches of the four controllers miss nothing, however
\* edits, deletions, failed calls and restarts interleave with the reconciles.  It takes
\* two hypotheses.  Nil is no record.  And an object is deleted or replaced by somebody
\* else only after the informers have delivered it as the Gateway's (KnownFirst): of one
\* that comes and goes unseen no handler is told, and the status stays behind.
THEOREM GatewaysCurrent ==
  ASSUME NilIsNoRecord
  PROVE  Spec /\ [][KnownFirst]_vars => []QuietMeansCurrent
<1> DEFINE Inv == BaseInv /\ ClassInv /\ XdsInv /\ RouteInv /\ GwInv
<1>1. Init => Inv
  BY InitInvs
<1>2. TypeInv /\ Inv /\ [Next]_vars /\ [KnownFirst]_vars => Inv'
  BY BaseStep, ClassStep, XdsStep, RouteStep, GwStep
<1>3. Inv => QuietMeansCurrent
  BY QuietCurrent
<1>4. Spec => []TypeInv
  BY TypesHold
<1> HIDE DEF Inv
<1>5. QED
  BY <1>1, <1>2, <1>3, <1>4, PTL DEF Spec
=============================================================================
