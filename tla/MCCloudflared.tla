---------------------------- MODULE MCCloudflared ----------------------------
(* A small instance of CloudflaredController for TLC. *)
EXTENDS CloudflaredController

CONSTANTS v1, v2, t1, t2

SpecOf(k, v, c, r) == [kind |-> k, version |-> v, config |-> c, replicas |-> r]
ByRef == [id |-> Nil, account |-> FALSE, ref |-> TRUE]
Inline == [id |-> t2, account |-> TRUE, ref |-> FALSE]

\* A DaemonSet that may become a Deployment of one replica or of two, or one with
\* another version and an inline tunnel.
Specs == {SpecOf("DaemonSet", v1, ByRef, Nil), SpecOf("Deployment", v1, ByRef, Nil),
          SpecOf("Deployment", v1, ByRef, 2), SpecOf("Deployment", v2, Inline, 2)}

\* One object with an edit or its deletion and one mishap, or with two edits; or two
\* objects of the name, with one failure.
Bounds == {b \in [Budgets -> 0..2] :
             \/ b["create"] <= 1 /\ b["fault"] + b["outside"] + b["tunnel"] <= IF b["edit"] = 2 THEN 0 ELSE 1
             \/ b["edit"] = 0 /\ b["fault"] <= 1 /\ b["outside"] = 0 /\ b["tunnel"] = 0}
=============================================================================
