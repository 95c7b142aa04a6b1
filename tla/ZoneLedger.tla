----------------------------- MODULE ZoneLedger -----------------------------
(***************************************************************************)
(* What the DnsRecord controller promises of a Cloudflare account, without *)
(* ids, caches, queues, finalizers or calls: each zone is a book with one  *)
(* entry per name and type.  Objects claim entries.  An entry is written   *)
(* only on behalf of an object that claims it, with a content that object  *)
(* asks for; it is struck out only after an object that claimed it was     *)
(* deleted and before that is settled, or by somebody outside.  Every      *)
(* other entry stays as it is, be it another object's or nobody's.         *)
(***************************************************************************)
EXTENDS Naturals

CONSTANTS
  Claimant,  \* names of DnsRecord objects
  Entry,     \* zones with names and types
  Content,
  Asks,      \* Asks[c]: the contents that the object c may ask for
  Nil

VARIABLES
  book,      \* the content of each entry, Nil for none
  claims,    \* the entry each object claims, Nil for none
  leaving,   \* the entries that a deleted object claimed, until that is settled
  lost       \* how many entries somebody outside has removed

ledgerVars == <<book, claims, leaving, lost>>

Claimed(c) == claims[c] # Nil

Init ==
  /\ book \in [Entry -> Content \cup {Nil}]
  /\ claims = [c \in Claimant |-> Nil]
  /\ leaving = {}
  /\ lost = 0

Claim(c, e) ==
  /\ ~Claimed(c)
  /\ claims' = [claims EXCEPT ![c] = e]
  /\ UNCHANGED <<book, leaving, lost>>

Leave(c) ==
  /\ Claimed(c)
  /\ leaving' = leaving \cup {claims[c]}
  /\ UNCHANGED <<book, claims, lost>>

Drop(c) ==
  /\ Claimed(c)
  /\ claims' = [claims EXCEPT ![c] = Nil]
  /\ leaving' \in SUBSET leaving
  /\ UNCHANGED <<book, lost>>

Settle ==
  /\ leaving' \in SUBSET leaving
  /\ UNCHANGED <<book, claims, lost>>

Publish(c, x) ==
  /\ Claimed(c) /\ x \in Asks[c]
  /\ book' = [book EXCEPT ![claims[c]] = x]
  /\ UNCHANGED <<claims, leaving, lost>>

Withdraw(e) ==
  /\ e \in leaving
  /\ book' = [book EXCEPT ![e] = Nil]
  /\ UNCHANGED <<claims, leaving, lost>>

\* Somebody removes a record in the Cloudflare dashboard.
Lose(e) ==
  /\ book' = [book EXCEPT ![e] = Nil]
  /\ lost' = lost + 1
  /\ UNCHANGED <<claims, leaving>>

Next ==
  \/ \E c \in Claimant : Leave(c) \/ Drop(c) \/ \E x \in Asks[c] : Publish(c, x)
  \/ \E c \in Claimant, e \in Entry : Claim(c, e)
  \/ \E e \in Entry : Withdraw(e) \/ Lose(e)
  \/ Settle

Spec == Init /\ [][Next]_ledgerVars
=============================================================================
