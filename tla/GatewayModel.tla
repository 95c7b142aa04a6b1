---------------------------- MODULE GatewayModel ----------------------------
(***************************************************************************)
(* The Gateway model: which listeners of a Gateway are valid, which routes *)
(* attach to them and where, the ingress rules of the Gateway's tunnel,    *)
(* the ports of Envoy's Service, and the configuration Envoy is given      *)
(* (src/internal/gateway and src/internal/xds).  All of it is computed     *)
(* from one Gateway, the routes, and what they refer to, so everything     *)
(* here is an operator; GatewayControllers says when they are evaluated.   *)
(*                                                                         *)
(* A hostname is the sequence of its labels from the top level down, so    *)
(* that *.example is <<"example", "*">> and a suffix of a name is a prefix *)
(* of the sequence.  Of two hostnames that cover a third the longer string *)
(* is the one with more labels, so label counts stand for lengths.         *)
(* A path is the sequence of its segments.                                 *)
(***************************************************************************)
EXTENDS Integers, Sequences, FiniteSets, SequencesExt, FiniteSetsExt

CONSTANTS
  Nil,
  Home   \* the namespace of the Gateway

Protocol == {"HTTP", "HTTPS", "TLS", "TCP", "UDP"}

-----------------------------------------------------------------------------
(* Hostnames *)

AnyHost == <<"*">>
IsWildcard(h) == Len(h) > 1 /\ Last(h) = "*"

matchesHost(pattern, host) ==
  \/ pattern = host
  \/ IsWildcard(pattern) /\ Len(host) >= Len(pattern) /\ IsPrefix(Front(pattern), host)

HostCovers(pattern, host) == pattern = AnyHost \/ matchesHost(pattern, host)

exactChars(h) == Cardinality({i \in DOMAIN h : h[i] # "*"})
moreSpecific(a, b) ==
  \/ exactChars(a) > exactChars(b)
  \/ exactChars(a) = exactChars(b) /\ Len(a) > Len(b)

OrAny(h) == IF h = Nil THEN AnyHost ELSE h

\* The hostnames that a route serves on a listener.
intersect(listener, route) ==
  LET lh == OrAny(listener)
      over(h) == lh = AnyHost \/ matchesHost(lh, h)
  IN IF route = {} THEN {lh}
     ELSE {IF over(h) THEN h ELSE lh : h \in {k \in route : over(k) \/ matchesHost(k, lh)}}

-----------------------------------------------------------------------------
(* What a Gateway and its routes refer to *)

\* A reference within one namespace needs no ReferenceGrant.
Permitted(from, fromNs, to, toNs, refs) ==
  fromNs = toNs \/ [from |-> from, fromNs |-> fromNs, to |-> to, ns |-> toNs] \in refs.grants

\* The CloudflareGatewayConfig that a class names, or why there is none.
Resolve(class, config) ==
  IF class.params = "absent" THEN "NoParameters"
  ELSE IF class.params = "wrongKind" THEN "WrongKind"
  ELSE IF class.params = "noNamespace" THEN "NoNamespace"
  ELSE IF config = Nil THEN "NotFound"
  ELSE IF config.template = Nil /\ ~config.tunnelRef THEN "NoTunnel"
  ELSE "Resolved"

WarpRouting(class, config) ==
  class # Nil /\ Resolve(class, config) = "Resolved" /\ config.template # Nil /\ config.template.warp

-----------------------------------------------------------------------------
(* Listeners *)

EnvoyAdminPort == 19000
EnvoyReadinessPort == 19001

\* Envoy binds no privileged port.
ContainerPort(port) == IF port < 1024 THEN port + 10000 ELSE port

tunnelKinds == [p \in Protocol |->
  CASE p = "HTTP" -> {"HTTPRoute"} [] p = "TLS" -> {"TLSRoute"} [] p = "TCP" -> {"TCPRoute"} [] OTHER -> {}]

warpKinds == [p \in Protocol |->
  CASE p \in {"HTTP", "HTTPS"} -> {"HTTPRoute", "GRPCRoute"}
    [] p = "TLS" -> {"TLSRoute"} [] p = "TCP" -> {"TCPRoute"} [] p = "UDP" -> {"UDPRoute"}]

kindsOf(l, refs) == IF refs.warp THEN warpKinds[l.protocol] ELSE tunnelKinds[l.protocol]

\* tls is the mode, Nil without a tls section; an unset mode is Terminate.
Terminates(l) == l.protocol \in {"HTTPS", "TLS"} /\ l.tls = "Terminate"

acceptedReason(l, refs) ==
  IF kindsOf(l, refs) = {} THEN "UnsupportedProtocol"
  ELSE IF l.protocol = "HTTPS" /\ l.tls # "Terminate" THEN "UnsupportedValue"
  ELSE IF l.protocol = "TLS" /\ l.tls = Nil THEN "UnsupportedValue"
  ELSE "Accepted"

certificateReason(ref, refs) ==
  IF ref.kind # "Secret" THEN "InvalidCertificateRef"
  ELSE IF ~Permitted("Gateway", Home, "Secret", ref.ns, refs) THEN "RefNotPermitted"
  ELSE IF refs.secrets[ref.ns] # "tls" THEN "InvalidCertificateRef"
  ELSE "ResolvedRefs"

\* The first of a sequence of reasons that is not ResolvedRefs.
FirstFailure(reasons) ==
  LET failed == {i \in DOMAIN reasons : reasons[i] # "ResolvedRefs"}
  IN IF failed = {} THEN "ResolvedRefs" ELSE reasons[Min(failed)]

resolveCertificates(l, refs) ==
  IF l.certificateRefs = <<>> THEN "InvalidCertificateRef"
  ELSE FirstFailure([i \in DOMAIN l.certificateRefs |-> certificateReason(l.certificateRefs[i], refs)])

resolvedReason(l, refs) ==
  IF ~(l.kinds \subseteq kindsOf(l, refs)) THEN "InvalidRouteKinds"
  ELSE IF Terminates(l) THEN resolveCertificates(l, refs)
  ELSE "ResolvedRefs"

SupportedKinds(l, refs) ==
  IF l.kinds = {} THEN kindsOf(l, refs) ELSE l.kinds \cap kindsOf(l, refs)

transport(p) == IF p = "UDP" THEN "UDP" ELSE "TCP"
hasHostnames(p) == p \notin {"TCP", "UDP"}

\* markConflicts for listener i: a rival of another protocol outdoes one of the same.
conflictReason(ls, i) ==
  LET rivals == {ls[j] : j \in {k \in DOMAIN ls : /\ k # i /\ ls[k].port = ls[i].port
                                                  /\ transport(ls[k].protocol) = transport(ls[i].protocol)}}
  IN IF \E r \in rivals : r.protocol # ls[i].protocol THEN "ProtocolConflict"
     ELSE IF \E r \in rivals : hasHostnames(r.protocol) => r.hostname = ls[i].hostname THEN "HostnameConflict"
     ELSE "NoConflicts"

\* Variant: nobody looks whether the port a privileged one is moved to is taken.
portUnavailableReservedOnly(ls, i) == ContainerPort(ls[i].port) \in {EnvoyAdminPort, EnvoyReadinessPort}

\* markUnavailablePorts for listener i.
portUnavailable(ls, i) ==
  LET bound == ContainerPort(ls[i].port)
  IN \/ bound \in {EnvoyAdminPort, EnvoyReadinessPort}
     \/ bound # ls[i].port /\ \E j \in DOMAIN ls : ls[j].port = bound

\* Every listener after validation, in spec order.
Listeners(ls, refs) ==
  [i \in DOMAIN ls |->
     LET accepted == IF portUnavailable(ls, i) THEN "PortUnavailable" ELSE acceptedReason(ls[i], refs)
         resolved == resolvedReason(ls[i], refs)
         conflicted == conflictReason(ls, i)
     IN [spec |-> ls[i], kinds |-> SupportedKinds(ls[i], refs),
         accepted |-> accepted, resolved |-> resolved, conflicted |-> conflicted,
         valid |-> accepted = "Accepted" /\ resolved = "ResolvedRefs" /\ conflicted = "NoConflicts"]]

ValidOnes(ls) == {i \in DOMAIN ls : ls[i].valid}

-----------------------------------------------------------------------------
(* Routes *)

\* The path that a gRPC method travels on; "+" stands for any one segment.
grpcPath(m) ==
  IF m.service # Nil /\ m.method # Nil THEN [type |-> "Exact", path |-> <<m.service, m.method>>]
  ELSE IF m.service # Nil THEN [type |-> "Prefix", path |-> <<m.service>>]
  ELSE IF m.method # Nil THEN [type |-> "Regex", path |-> <<"+", m.method>>]
  ELSE [type |-> "Prefix", path |-> <<>>]

\* A rule without a match matches everything.
matchesOf(kind, rule) ==
  IF rule.matches = <<>> THEN <<[type |-> "Prefix", path |-> <<>>]>>
  ELSE IF kind = "GRPCRoute" THEN [i \in DOMAIN rule.matches |-> grpcPath(rule.matches[i])]
  ELSE rule.matches

\* The kinds of routes reduced to one: only HTTP, gRPC and TLS routes have hostnames.
routeOf(r) ==
  [r EXCEPT !.hostnames = IF r.kind \in {"TCPRoute", "UDPRoute"} THEN {} ELSE @,
            !.rules = [i \in DOMAIN @ |-> [@[i] EXCEPT !.matches = matchesOf(r.kind, r.rules[i])]]]

targets(ref) == ref.to = "gw"
RefersTo(r) == \E ref \in r.parentRefs : targets(ref)

allowsNamespace(l, ns, refs) ==
  CASE l.from = "All" -> TRUE
    [] l.from = "Selector" -> ns \in refs.selected
    [] OTHER -> ns = Home

NoHosts == [i \in {} |-> {}]

\* Where one parentRef attaches a route to: the hostnames served, by listener.
attach(r, ref, ls, refs) ==
  LET candidates == {i \in DOMAIN ls : /\ ref.section # Nil => ref.section = ls[i].spec.name
                                       /\ ref.port # Nil => ref.port = ls[i].spec.port}
      allowed == {i \in candidates : allowsNamespace(ls[i].spec, r.ns, refs) /\ r.kind \in ls[i].kinds}
      served(i) == intersect(IF hasHostnames(ls[i].spec.protocol) THEN ls[i].spec.hostname ELSE Nil, r.hostnames)
      attached == {i \in allowed : served(i) # {}}
      rejected(reason) == [ref |-> ref, accepted |-> reason, hostnames |-> NoHosts]
  IN IF candidates = {} THEN rejected("NoMatchingParent")
     ELSE IF allowed = {} THEN rejected("NotAllowedByListeners")
     ELSE IF attached = {} THEN rejected("NoMatchingListenerHostname")
     ELSE [ref |-> ref, accepted |-> "Accepted", hostnames |-> [i \in attached |-> served(i)]]

backendReason(r, ref, refs) ==
  IF ref.kind # "Service" THEN "InvalidKind"
  ELSE IF ~Permitted(r.kind, r.ns, "Service", ref.ns, refs) THEN "RefNotPermitted"
  ELSE IF refs.services[ref.ns] = "external" THEN "UnsupportedProtocol"
  ELSE IF refs.services[ref.ns] \in {"missing", "noPort"} THEN "BackendNotFound"
  ELSE "ResolvedRefs"

\* A backend that does not resolve has no cluster.
resolveBackend(r, ref, refs) ==
  [weight |-> ref.weight,
   cluster |-> IF backendReason(r, ref, refs) = "ResolvedRefs"
               THEN [ns |-> ref.ns, h2 |-> r.kind = "GRPCRoute"] ELSE Nil]

resolveBackends(r, refs) ==
  [i \in DOMAIN r.rules |->
     [j \in DOMAIN r.rules[i].backends |-> resolveBackend(r, r.rules[i].backends[j], refs)]]

resolvedRefs(r, refs) ==
  LET all == FlattenSeq([i \in DOMAIN r.rules |-> r.rules[i].backends])
  IN FirstFailure([i \in DOMAIN all |-> backendReason(r, all[i], refs)])

\* The listeners that an attached route serves, and its hostnames on one of them.
attachedTo(a) == UNION {DOMAIN p.hostnames : p \in a.parents}
hostsOn(a, i) == UNION {p.hostnames[i] : p \in {q \in a.parents : i \in DOMAIN q.hostnames}}

\* The Gateway with its listeners validated and its routes attached and resolved.
\* routes maps the names of the routes that are not being deleted to the routes.
Build(gw, routes, refs) ==
  LET ls == Listeners(gw.listeners, refs)
      attached(n) ==
        LET r == routeOf(routes[n])
        IN [name |-> n, route |-> r,
            parents |-> {attach(r, ref, ls, refs) : ref \in {p \in r.parentRefs : targets(p)}},
            backends |-> resolveBackends(r, refs), resolved |-> resolvedRefs(r, refs)]
      all == {attached(n) : n \in {m \in DOMAIN routes : RefersTo(routes[m])}}
  IN [listeners |-> ls, routes |-> all,
      attachedRoutes |-> [i \in DOMAIN ls |-> Cardinality({a \in all : i \in attachedTo(a)})]]

-----------------------------------------------------------------------------
(* The tunnel and Envoy's Service *)

\* The hostnames that annotations give TCP listeners; <<>> stands for a malformed value.
TunnelHostnames(gw) ==
  LET good == {n \in DOMAIN gw.annotations : gw.annotations[n] \notin {<<>>, AnyHost}}
  IN [n \in good |-> gw.annotations[n]]

NotFound == [scheme |-> "404", port |-> 0]
To(scheme, l) == [scheme |-> scheme, port |-> l.spec.port]

publicHost(l, tcpHostnames) ==
  CASE l.spec.protocol \in {"HTTP", "TLS"} -> l.spec.hostname
    [] l.spec.protocol = "TCP" /\ l.spec.name \in DOMAIN tcpHostnames -> tcpHostnames[l.spec.name]
    [] OTHER -> Nil

\* Listener i is taken before j: the HTTP listeners first, each in port order.
takenBefore(ls, i, j) ==
  LET late(k) == IF ls[k].spec.protocol = "HTTP" THEN 0 ELSE 1
      p == ls[i].spec.port
      q == ls[j].spec.port
  IN \/ late(i) < late(j)
     \/ late(i) = late(j) /\ (p < q \/ (p = q /\ i < j))

firstTaken(ls, S) == CHOOSE i \in S : \A j \in S \ {i} : takenBefore(ls, i, j)

\* Variant: the wildcard rules are sorted the other way.
wildcardRulesUnsorted(rules) == SetToSortSeq(rules, LAMBDA a, b : Len(a.hostname) < Len(b.hostname))

\* "a wildcard covering another has to come after it"
wildcardRules(rules) == SetToSortSeq(rules, LAMBDA a, b : Len(a.hostname) > Len(b.hostname))

\* The hand-written rules but a catch-all, then the listeners' and the catch-all.
TunnelIngress(handwritten, ls, tcpHostnames) ==
  LET host(i) == publicHost(ls[i], tcpHostnames)
      claimed == {host(i) : i \in ValidOnes(ls)} \ {Nil}
      rule(h) == LET i == firstTaken(ls, {j \in ValidOnes(ls) : host(j) = h})
                 IN [hostname |-> h, path |-> FALSE,
                     service |-> To(IF ls[i].spec.protocol = "HTTP" THEN "http" ELSE "tcp", ls[i])]
      open == {i \in ValidOnes(ls) : ls[i].spec.protocol = "HTTP" /\ ls[i].spec.hostname = Nil}
  IN SelectSeq(handwritten, LAMBDA r : r.hostname # Nil \/ r.path)
     \o SetToSeq({rule(h) : h \in {k \in claimed : ~IsWildcard(k)}})
     \o wildcardRules({rule(h) : h \in {k \in claimed : IsWildcard(k)}})
     \o <<[hostname |-> Nil, path |-> FALSE,
           service |-> IF open = {} THEN NotFound ELSE To("http", ls[firstTaken(ls, open)])]>>

\* One port of the Service per port and transport among the valid listeners.
envoyServicePorts(ls) ==
  {[port |-> ls[i].spec.port, transport |-> transport(ls[i].spec.protocol),
    target |-> ContainerPort(ls[i].spec.port)] : i \in ValidOnes(ls)}

-----------------------------------------------------------------------------
(* The configuration of Envoy *)

LexLess(s, t) == \E i \in DOMAIN s : s[i] < t[i] /\ \A j \in 1..(i - 1) : s[j] = t[j]

pathRank(m) == CASE m.type = "Exact" -> 0 [] m.type = "Regex" -> 1 [] OTHER -> 2

\* compareEntries: the hostname, the path, the age and the name of the route, the order
\* in it.  Methods, headers and query parameters, between path and age, are left out.
before(e, f) ==
  LET rank(x) == <<-exactChars(x.host), -Len(x.host), pathRank(x.match), -Len(x.match.path),
                   x.created, x.name, x.rule, x.index>>
  IN LexLess(rank(e), rank(f))

\* Backends of weight 0 get nothing; Nil stands for the cluster that never exists.
clustersOf(backends) == [i \in DOMAIN SelectSeq(backends, LAMBDA b : b.weight > 0) |->
                           SelectSeq(backends, LAMBDA b : b.weight > 0)[i].cluster]

routeAction(rule, backends) ==
  LET cs == clustersOf(backends)
  IN IF rule.filter = "unknown" THEN [kind |-> "500", clusters |-> <<>>]
     ELSE IF rule.filter = "redirect" THEN [kind |-> "redirect", clusters |-> <<>>]
     ELSE IF cs \in {<<>>, <<Nil>>} THEN [kind |-> "500", clusters |-> <<>>]
     ELSE [kind |-> "route", clusters |-> cs]

\* The entries of the routes attached to the listeners ids.
entriesOf(m, ids) ==
  UNION {UNION {UNION {{[name |-> a.name, created |-> a.route.created, listener |-> i, host |-> h,
                         rule |-> r, index |-> k, match |-> a.route.rules[r].matches[k],
                         action |-> routeAction(a.route.rules[r], a.backends[r])]
                        : k \in DOMAIN a.route.rules[r].matches}
                       : r \in DOMAIN a.route.rules}
                : h \in hostsOn(a, i)} : a \in m.routes, i \in ids}

\* Variant: the first listener that covers the host owns it.
owningListenerFirst(ls, ids, host) ==
  LET covering == {i \in ids : HostCovers(OrAny(ls[i].spec.hostname), host)}
  IN Min(covering)

\* The most specific of the listeners whose hostname covers host, 0 for none.
owningListener(ls, ids, host) ==
  LET covering == {i \in ids : HostCovers(OrAny(ls[i].spec.hostname), host)}
      better(i, j) == moreSpecific(OrAny(ls[i].spec.hostname), OrAny(ls[j].spec.hostname))
  IN IF covering = {} THEN 0 ELSE Min({i \in covering : ~\E j \in covering : better(j, i)})

\* A virtual host for each hostname that is served: the entries of every hostname that
\* covers its own, from the one listener that owns it, each match of a route once.
routeConfiguration(m, ids) ==
  LET all == entriesOf(m, ids)
      own(h) == {e \in all : HostCovers(e.host, h) /\ e.listener = owningListener(m.listeners, ids, h)}
      same(e, f) == e.name = f.name /\ e.rule = f.rule /\ e.index = f.index
  IN [h \in {e.host : e \in all} |-> {e \in own(h) : ~\E f \in own(h) : same(e, f) /\ before(f, e)}]

oldest(as) == CHOOSE a \in as : \A b \in as \ {a} : LexLess(<<a.route.created, a.name>>, <<b.route.created, b.name>>)

\* A TCP or UDP proxy, or a filter chain of a TLS listener, sends to one route's backends.
proxyTo(a) == LET cs == IF a.backends = <<>> THEN <<>> ELSE clustersOf(a.backends[1])
              IN IF cs = <<>> THEN <<Nil>> ELSE cs

\* A filter chain: the server name, whether TLS ends in it, and where it leads.
Chain(sni, terminates, vhosts, clusters) ==
  [sni |-> sni, terminates |-> terminates, vhosts |-> vhosts, clusters |-> clusters]
NoVhosts == [h \in {} |-> {}]

httpsFilterChain(m, i) ==
  Chain(OrAny(m.listeners[i].spec.hostname), TRUE, routeConfiguration(m, {i}), <<>>)

tlsListener(m, ids) ==
  LET hosts == UNION {hostsOn(a, i) : a \in m.routes, i \in ids}
      owner(h) == owningListener(m.listeners, ids, h)
      routes(h) == {a \in m.routes : h \in hostsOn(a, owner(h))}
  IN {Chain(h, Terminates(m.listeners[owner(h)].spec), NoVhosts, proxyTo(oldest(routes(h))))
      : h \in {k \in hosts : routes(k) # {}}}

\* The TCP or UDP listener i; without a route there is no listener.
l4Listener(m, i) ==
  LET routes == {a \in m.routes : i \in attachedTo(a)}
  IN IF routes = {} THEN {} ELSE {Chain(AnyHost, FALSE, NoVhosts, proxyTo(oldest(routes)))}

chainsOf(m, ids) ==
  LET p == m.listeners[Min(ids)].spec.protocol
  IN CASE p = "HTTP"  -> {Chain(AnyHost, FALSE, routeConfiguration(m, ids), <<>>)}
       [] p = "HTTPS" -> {httpsFilterChain(m, i) : i \in ids}
       [] p = "TLS"   -> tlsListener(m, ids)
       [] OTHER       -> l4Listener(m, Min(ids))

clustersIn(chain) ==
  UNION {ToSet(cs) : cs \in {chain.clusters} \cup
          {e.action.clusters : e \in UNION {chain.vhosts[h] : h \in DOMAIN chain.vhosts}}} \ {Nil}

\* The valid listeners by port and transport become Envoy listeners, and what they lead
\* to becomes clusters with the ready endpoints of a Service.
Snapshot(m, refs) ==
  LET keyOf(i) == [port |-> m.listeners[i].spec.port, transport |-> transport(m.listeners[i].spec.protocol)]
      chains(k) == chainsOf(m, {i \in ValidOnes(m.listeners) : keyOf(i) = k})
      keys == {keyOf(i) : i \in ValidOnes(m.listeners)}
      listeners == {[port |-> k.port, transport |-> k.transport, bound |-> ContainerPort(k.port), chains |-> chains(k)]
                    : k \in {j \in keys : chains(j) # {}}}
  IN [listeners |-> listeners,
      clusters |-> {[cluster |-> c, ready |-> refs.services[c.ns] = "ready"]
                    : c \in UNION {clustersIn(ch) : ch \in UNION {l.chains : l \in listeners}}}]
=============================================================================
