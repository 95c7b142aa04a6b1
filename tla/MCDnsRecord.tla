----------------------------- MODULE MCDnsRecord -----------------------------
(* Small instances of DnsRecordLedger for TLC. *)
EXTENDS DnsRecordLedger, TLC

CONSTANTS c1, c2, z1, k1, k2, p1, p2, x, t1, t2, ref

\* A spec, or a record, of zone z.
SpecOf(z, k, c, o) == [zone |-> z, key |-> k, content |-> c, opts |-> o]

\* Zones without any record.
Empty == [i \in Id |-> Nil]
NothingBefore == {Empty}

\* Two objects that ask for the same record, which may be there already.
SharedSpecs == (c1 :> {SpecOf(z1, k1, x, p1)}) @@ (c2 :> {SpecOf(z1, k1, x, p1)})
SharedBefore == {Empty} \cup {[Empty EXCEPT ![1] = SpecOf(z1, k, t1, p1)] : k \in {k1, k2}}
SharedBudget == [user |-> 4, fault |-> 1, outside |-> 1, tunnel |-> 0]

\* One object whose name, content and tunnelRef change; k2 may be ambiguous.
EditSpecs == c1 :> {SpecOf(z1, k1, x, p1), SpecOf(z1, k2, x, p1), SpecOf(z1, k1, ref, p1)}
EditBefore == {Empty, [Empty EXCEPT ![1] = SpecOf(z1, k2, x, p1), ![2] = SpecOf(z1, k2, t1, p1)]}
EditBudget == [user |-> 3, fault |-> 1, outside |-> 0, tunnel |-> 2]

\* One object whose proxied flag changes; nothing fails.
SettingsSpecs == c1 :> {SpecOf(z1, k1, x, p1), SpecOf(z1, k1, x, p2)}
SettingsBudget == [user |-> 2, fault |-> 0, outside |-> 0, tunnel |-> 0]
=============================================================================
