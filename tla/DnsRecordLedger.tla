-------------------------- MODULE DnsRecordLedger --------------------------
(***************************************************************************)
(* The DnsRecord controller implements ZoneLedger, as long as no user      *)
(* moves an object to another zone, name or type: the ids, the stale       *)
(* copies, the retries and the restarts cannot be told from the zones.     *)
(***************************************************************************)
EXTENDS DnsRecordController

LedgerEntry == [zone : Zone, key : Key]

\* Nil stands for no entry.
ASSUME EntryAssumption == Nil \notin LedgerEntry

EntryOf(s) == [zone |-> s.zone, key |-> s.key]

RecordsAt(e) == {i \in Id : remote[i] # Nil /\ EntryOf(remote[i]) = e}

Book == [e \in LedgerEntry |-> IF RecordsAt(e) = {} THEN Nil ELSE remote[CHOOSE i \in RecordsAt(e) : TRUE].content]

Claims == [c \in CR |-> IF obj[c] = Nil THEN Nil ELSE EntryOf(obj[c].spec)]

\* The entries of objects under deletion, as anybody still has them.
Leaving == {EntryOf(o.spec) : o \in {p \in {obj[c] : c \in CR} \cup {cache[c] : c \in CR} \cup {rec} :
                                      IF p = Nil THEN FALSE ELSE p.deleting}}

\* An object asks for the content of a spec it may have, or for a tunnel's hostname.
AskedBy == [c \in CR |-> UNION {IF s.content = TunnelRef THEN Target ELSE {s.content} : s \in SpecsOf[c]}]

Ledger == INSTANCE ZoneLedger WITH
  Claimant <- CR, Entry <- LedgerEntry, Asks <- AskedBy,
  book <- Book, claims <- Claims, leaving <- Leaving, lost <- spent["outside"]

(***************************************************************************)
(* Reconcile writes and deletes records by ids that may be old, on behalf  *)
(* of objects that may be gone by then, and several objects may share one. *)
(* Still every write is one that an object claiming the entry asks for,    *)
(* and every removal follows the deletion of an object that claimed it.    *)
(***************************************************************************)
ImplementsLedger == Ledger!Spec
=============================================================================
