----------------------------- MODULE MCTunnelDns -----------------------------
(* A small instance of TunnelDns for TLC. *)
EXTENDS TunnelDns, TLC

CONSTANTS h1, h2, z1, z2

\* h1 has two spellings; h1 lies in both zones (one below the other), h2 in z1.
LowerOf == ("h1" :> h1) @@ ("H1" :> h1) @@ ("h2" :> h2) @@ ("" :> Nil)
ZonesOf == (h1 :> {z1, z2}) @@ (h2 :> {z1})

Unset == [zone |-> Nil, proxied |-> Nil]
InZ(z) == [zone |-> z, proxied |-> Nil]
At(s, d) == [host |-> s, dns |-> d]

\* Both hostnames; one that moves to z2 and one outside of it; a hostname whose
\* entries disagree and one without a zone.
Configs == {[dns |-> InZ(z1), ingress |-> {At("h1", Unset), At("h2", Unset), At("", Unset)}],
            [dns |-> InZ(z2), ingress |-> {At("H1", Unset), At("h2", Unset)}],
            [dns |-> Unset, ingress |-> {At("h1", InZ(z1)), At("H1", InZ(z2)), At("h2", Unset)}]}

\* Users act twice while one thing goes wrong or one status changes, or once while two
\* statuses change.
Bounds == {b \in [Kinds -> 0..2] :
             /\ b["user"] + b["record"] <= 3
             /\ IF b["record"] > 0 THEN b["fault"] + b["outside"] + b["zone"] = 0
                                  ELSE b["fault"] + b["outside"] + b["zone"] <= 1}
=============================================================================
