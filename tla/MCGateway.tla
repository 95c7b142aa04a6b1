------------------------------ MODULE MCGateway ------------------------------
(* GatewayControllers for TLC.                                              *)
EXTENDS GatewayControllers, TLC

a == <<"e", "a">>
b == <<"e", "b">>
wild == <<"e", "*">>
wildA == <<"e", "a", "*">>
deep == <<"e", "a", "x">>

\* A listener, and its variants.
L(name, port, protocol, hostname) ==
  [name |-> name, port |-> port, protocol |-> protocol, hostname |-> hostname, tls |-> Nil,
   certificateRefs |-> <<>>, kinds |-> {}, from |-> "Same"]
Tls(l, mode, refs) == [l EXCEPT !.tls = mode, !.certificateRefs = refs]
Gw(ls) == [listeners |-> ls, annotations |-> [n \in {} |-> <<>>], addresses |-> FALSE]

Ref(section, port) == [to |-> "gw", section |-> section, port |-> port]
ElseRef == [to |-> "other", section |-> Nil, port |-> Nil]
Secret(kind, ns) == [kind |-> kind, ns |-> ns]
Backend(kind, ns, weight) == [kind |-> kind, ns |-> ns, weight |-> weight]
Exact(path) == [type |-> "Exact", path |-> path]
Prefix(path) == [type |-> "Prefix", path |-> path]
Rule(matches, backends) == [matches |-> matches, backends |-> backends, filter |-> Nil]
R(kind, ns, created, refs, hostnames, rules) ==
  [kind |-> kind, ns |-> ns, created |-> created, parentRefs |-> refs, hostnames |-> hostnames, rules |-> rules]

local == Backend("Service", "n1", 1)
remote == Backend("Service", "n2", 1)

Template(warp, ingress) == [template |-> [warp |-> warp, ingress |-> ingress], tunnelRef |-> FALSE, replicas |-> 1]
Shared == [template |-> Nil, tunnelRef |-> TRUE, replicas |-> 1]

NoGrants == [grants |-> {}, selected |-> {}]
AllGrants ==
  [grants |-> {[from |-> "Gateway", fromNs |-> "n1", to |-> "Secret", ns |-> "n2"],
               [from |-> "HTTPRoute", fromNs |-> "n1", to |-> "Service", ns |-> "n2"]}, selected |-> {"n2"}]
AllReady == [n \in {"n1", "n2"} |-> "ready"]
AllTls == [n \in {"n1", "n2"} |-> "tls"]

MCConfigs == {Nil, Template(TRUE, <<>>), Template(FALSE, <<>>), Shared,
              [Template(TRUE, <<>>) EXCEPT !.replicas = 0]}
MCGrants == {NoGrants, AllGrants}
MCServices == {AllReady, [AllReady EXCEPT !["n2"] = "missing"]}
MCSecrets == {AllTls, [AllTls EXCEPT !["n2"] = "unreadable"]}

everyday == R("HTTPRoute", "n1", 1, {Ref(Nil, Nil), Ref("sec", Nil), ElseRef}, {a}, <<Rule(<<Prefix(<<>>)>>, <<remote>>)>>)
MCRouteSpecs == {Nil, everyday, [everyday EXCEPT !.parentRefs = {ElseRef}]}

World(gw, routes) ==
  [served |-> FALSE, lost |-> {}, active |-> Controller, outside |-> {}, gw |-> gw, routes |-> routes,
   config |-> Template(TRUE, <<>>), grants |-> AllGrants, services |-> AllReady, secrets |-> AllTls]

\* A Gateway that is served, for some controllers and the events of some kinds.
web == L("web", 80, "HTTP", wild)
sec == Tls(L("sec", 443, "HTTPS", Nil), "Terminate", <<Secret("Secret", "n2")>>)
MCGatewaySpecs == {Gw(<<web, sec>>), Gw(<<[web EXCEPT !.hostname = b]>>)}
Lively(running, events) ==
  [World(Gw(<<web, sec>>), <<IF running \cap {"route", "xds"} # {} THEN everyday ELSE Nil, Nil>>)
   EXCEPT !.served = TRUE, !.active = running, !.outside = events]

\* What happens to it: at most one event of each kind, in every order and interleaving.
\* The controllers meet at the API server only, so those that write the class and the
\* Gateway's objects and those that write the routes and the snapshot are also set to
\* work by themselves, where more can happen; {"xds"} is a replica that does not lead.
writers == {"class", "gw"}
readers == {"route", "xds"}
Busy ==
  {Lively(writers, e) : e \in {{"config", "object"}, {"class", "config"}, {"xds", "config"}, {"fail", "object"},
                               {"restart", "config"}, {"secrets", "grants"}}}
  \cup {[Lively(writers, e) EXCEPT !.config = Shared] : e \in {{"gateway", "create"}, {"deleteClass", "gateway"}}}
  \cup {Lively(readers, e) : e \in {{"route", "other", "fail"}, {"route", "gateway"}, {"class", "route"},
                                    {"services", "grants", "config"}, {"restart", "route", "other"}}}
  \cup {Lively({"xds"}, {"secrets", "restart"}), Lively(Controller, {"route"}), Lively(Controller, {"class"}),
        Lively({"class"}, {"class", "deleteClass", "config", "gateway"})}

\* Hostnames of listeners and routes against each other, on one port.
Hosts(protocol, tls) ==
  {Gw([i \in DOMAIN hs |-> Tls(L(<<"l1", "l2", "l3">>[i], 80, protocol, hs[i]), tls, <<Secret("Secret", "n1")>>)])
   : hs \in {<<Nil, wild>>, <<wild, a>>, <<wild, wildA>>, <<wildA, wild, Nil>>, <<wild, wildA, a>>}}
web1(kind, refs, hs, rules) == R(kind, "n1", 2, refs, hs, rules)
web2(kind, hs) == R(kind, "n1", 1, {Ref(Nil, Nil)}, hs, <<Rule(<<Exact(<<"s">>)>>, <<local>>), Rule(<<>>, <<remote>>)>>)
Pairs(kind) ==
  {<<web1(kind, {ref}, hs, <<Rule(<<Prefix(<<"s">>)>>, <<local, remote>>)>>), second>> :
     ref \in {Ref(Nil, Nil), Ref("l2", Nil)}, hs \in {{}, {a}, {wild, deep}, {wildA}},
     second \in {Nil, web2(kind, {}), web2(kind, {wildA, b}), web2(kind, {wild})}}
Matched ==
  {[World(gw, rs) EXCEPT !.active = {"xds"}] : gw \in Hosts("HTTP", Nil) \cup Hosts("HTTPS", "Terminate"), rs \in Pairs("HTTPRoute")}
  \cup {[World(gw, rs) EXCEPT !.active = {"xds"}] : gw \in Hosts("TLS", "Passthrough"), rs \in Pairs("TLSRoute")}

\* Ports, protocols and references that do not go together, and routes of every kind.
udp == L("udp", 53, "UDP", Nil)
tcp == L("tcp", 53, "TCP", Nil)
Odd ==
  LET every(kind) == R(kind, "n2", 1, {Ref(Nil, Nil), Ref("none", Nil), Ref(Nil, 443)}, {},
                       <<Rule(<<>>, <<Backend("Service", "n1", 0), Backend("Service", "n2", 1)>>)>>)
      rpc == R("GRPCRoute", "n1", 1, {Ref(Nil, Nil)}, {wild},
               <<Rule(<<[service |-> "s", method |-> "m"], [service |-> "s", method |-> Nil],
                        [service |-> Nil, method |-> "m"]>>, <<local>>)>>)
      bad(filter, backends) == [everyday EXCEPT !.rules = <<[Rule(<<>>, backends) EXCEPT !.filter = filter]>>]
      open(l) == [l EXCEPT !.from = "All"]
  IN {World(Gw(ls), rs) : ls \in {<<web, L("x", 10080, "HTTP", Nil)>>, <<web, L("x", 80, "TCP", Nil)>>,
                                 <<web, [web EXCEPT !.name = "x"]>>, <<L("x", 19000, "HTTP", a), sec>>},
                          rs \in {<<everyday, rpc>>}}
     \cup {World(Gw(<<open(udp), open(tcp), [L("sel", 8080, "HTTP", Nil) EXCEPT !.from = "Selector"]>>), <<every(k), rpc>>) :
              k \in {"TCPRoute", "UDPRoute", "HTTPRoute"}}
     \cup {[World(Gw(<<web, Tls([sec EXCEPT !.protocol = p], mode, refs)>>), <<every("TLSRoute"), everyday>>)
             EXCEPT !.grants = NoGrants] :
              p \in {"HTTPS", "TLS"}, mode \in {Nil, "Terminate", "Passthrough"},
              refs \in {<<>>, <<Secret("ConfigMap", "n1")>>, <<Secret("Secret", "n2")>>}}
     \cup {World(Gw(<<web, [sec EXCEPT !.kinds = {k}]>>), <<everyday, bad(f, bs)>>) :
              k \in {"GRPCRoute", "TCPRoute"}, f \in {"redirect", "unknown"},
              bs \in {<<>>, <<Backend("Bucket", "n1", 1)>>}}
     \cup {[World(Gw(<<web, sec>>), <<everyday, Nil>>) EXCEPT !.services = [AllReady EXCEPT !["n2"] = s]] :
              s \in {"external", "noPort"}}

\* What the class's config and the Gateway ask for.
Settings ==
  {[World([Gw(<<web, sec>>) EXCEPT !.addresses = p], <<everyday, Nil>>) EXCEPT !.config = c] :
     p \in BOOLEAN, c \in MCConfigs}

\* The ingress rules of tunnels.
Served80 == [hostname |-> b, path |-> TRUE, service |-> [scheme |-> "http", port |-> 1]]
Routed ==
  {[World([Gw(<<L("l1", 8081, "HTTP", h1), L("l2", 8080, "HTTP", h2), L("l3", 9000, "HTTP", wildA), L("tcp", 22, "TCP", Nil),
                Tls(L("tls", 443, "TLS", wild), "Passthrough", <<>>)>>)
           EXCEPT !.annotations = [n \in {"tcp"} |-> h3]], <<Nil, Nil>>)
    EXCEPT !.active = {"gw"}, !.config = Template(FALSE, rules), !.served = TRUE, !.lost = {"tunnel"}] :
     h1 \in {Nil, a, wild}, h2 \in {Nil, a, wild}, h3 \in {<<>>, AnyHost, a, deep},
     rules \in {<<>>, <<[Served80 EXCEPT !.hostname = Nil, !.path = FALSE], Served80>>}}

MCWorlds ==
  Busy \cup Matched \cup Routed
  \cup {[w EXCEPT !.active = readers] : w \in Odd \cup Settings}
  \cup {[w EXCEPT !.active = {"gw"}, !.served = TRUE, !.lost = {"svc"}] : w \in Odd}
  \cup {[w EXCEPT !.active = writers] : w \in Settings}
MCRequests == {[port |-> p, host |-> h, path |-> path] :
               p \in {80, 443}, h \in {a, b, deep, <<"f">>}, path \in {<<>>, <<"s">>, <<"s", "m">>}}
=============================================================================
