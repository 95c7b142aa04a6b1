--------------------------- MODULE MCSecretAccess ---------------------------
(* A small instance of SecretAccess for TLC. *)
EXTENDS SecretAccess, TLC

CONSTANTS g1, g2, n1, n2

\* Both live in n2.  g1 takes its certificate from n1, as a grant lets it, and may move
\* to the one of n2; g2 is being deleted, and may come again.
HomeOf == (g1 :> n2) @@ (g2 :> n2)
Ref(n) == [ours |-> TRUE, deleting |-> FALSE, ref |-> n]
Specs == [g \in Gateway |-> {Ref(n2)}]
StartOf == (g1 :> Ref(n1)) @@ (g2 :> [Ref(n2) EXCEPT !.deleting = TRUE])
Grants == {<<n2, n1>>}

\* A RoleBinding is deleted, one to another role is in the way, one to another role has
\* the label, and one to the operator's role has another subject.
Others == {<<<<n1, Role>>, Nil>>,
           <<<<n1, Role>>, [role |-> FALSE, label |-> FALSE, subject |-> FALSE]>>,
           <<<<n1, "stray">>, [role |-> FALSE, label |-> TRUE, subject |-> TRUE]>>,
           <<<<n2, Role>>, [role |-> TRUE, label |-> FALSE, subject |-> FALSE]>>}

\* Any two changes, of which one is not the users'; or a grant that goes and comes back
\* while a Secret changes.
Bounds == {b \in [Kinds -> 0..2] :
             \/ /\ b["gateway"] + b["grant"] + b["secret"] + b["binding"] + b["fault"] <= 2
                /\ b["secret"] + b["binding"] + b["fault"] <= 1
             \/ b["gateway"] + b["binding"] + b["fault"] = 0 /\ b["secret"] <= 1}
=============================================================================
