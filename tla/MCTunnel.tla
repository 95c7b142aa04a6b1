------------------------------ MODULE MCTunnel ------------------------------
(* Small instances of TunnelController for TLC. *)
EXTENDS TunnelController, TLC

CONSTANTS c1, c2, f1, a1, a2, n1, n2, l1, l2, d1, d2, bad, m1, v1

\* d1 and d2 denote the same network, bad denotes none.
Masks == (d1 :> m1) @@ (d2 :> m1) @@ (bad :> Nil)

SpecOf(a, n, src, config, rs, sel) ==
  [account |-> a, name |-> n, src |-> src, config |-> config, routes |-> rs, cloudflared |-> sel]
Entry(d, v) == [cidr |-> d, vnet |-> v]
RemoteOf(a, n, src) == [account |-> a, name |-> n, src |-> src, config |-> Nil]
At(a) == [account |-> a, net |-> m1, vnet |-> v1]

NoTunnels == [i \in Id |-> Nil]
NoRoutes == [s \in Slot |-> Nil]
Holding(rs, slots) == [remote |-> rs, routes |-> slots, access |-> TRUE]
NothingBefore == {Holding(NoTunnels, NoRoutes)}
WithoutAccess == {[Holding(NoTunnels, NoRoutes) EXCEPT !.access = FALSE]}

\* Two objects of one name, one of which may move to another account, where there
\* is a tunnel of another name.
SharedSpecs == (c1 :> {SpecOf(a, n1, "local", Nil, {Entry(d1, Nil)}, Nil) : a \in {a1, a2}})
               @@ (c2 :> {SpecOf(a1, n1, "local", Nil, {}, Nil)})
SharedBefore == {Holding([NoTunnels EXCEPT ![1] = RemoteOf(a1, n2, "local")], NoRoutes)}
SharedBudget == [user |-> 3, cloudflared |-> 0, fault |-> 1, outside |-> 1]

\* One object with a configuration and routes, or with Cloudflareds; its name may
\* belong to no tunnel, to one that Cloudflare configures, or to several.
Catchall == <<FALSE, TRUE>>
LifeSpecs == c1 :> {SpecOf(a1, n1, "local", Catchall, {Entry(d1, Nil), Entry(d2, v1), Entry(bad, Nil)}, Nil),
                    SpecOf(a1, n2, "cloudflare", Catchall, {}, [selector |-> {l1}, template |-> l1])}
LifeBefore == WithoutAccess
  \cup {Holding([NoTunnels EXCEPT ![1] = RemoteOf(a1, n1, "cloudflare")], [NoRoutes EXCEPT ![At(a1)] = 1]),
        Holding([NoTunnels EXCEPT ![1] = RemoteOf(a1, n1, "local"), ![2] = RemoteOf(a1, n1, "local")], NoRoutes)}
LifeBudget == [user |-> 2, cloudflared |-> 1, fault |-> 1, outside |-> 0]

RestSpecs == c1 :> {SpecOf(a1, n1, "local", Nil, {}, [selector |-> Nil, template |-> l1])}
RestBudget == [user |-> 1, cloudflared |-> 0, fault |-> 0, outside |-> 0]

StuckSpecs == c1 :> {SpecOf(a1, n1, "local", Nil, {}, [selector |-> {l1}, template |-> Nil])}
StuckBudget == [user |-> 2, cloudflared |-> 1, fault |-> 0, outside |-> 0]

OrphanSpecs == c1 :> {SpecOf(a1, n1, "local", Nil, {}, Nil)}
OrphanBudget == [user |-> 2, cloudflared |-> 0, fault |-> 0, outside |-> 0]
=============================================================================
