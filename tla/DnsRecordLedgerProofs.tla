----------------------- MODULE DnsRecordLedgerProofs -----------------------
(***************************************************************************)
(* The proof that DnsRecordController implements ZoneLedger: initial       *)
(* states map to initial states, and every step maps to a step of the      *)
(* ledger or to none.                                                      *)
(***************************************************************************)
EXTENDS DnsRecordLedger, DnsRecordProofs

-----------------------------------------------------------------------------
(* The book of the records r *)

Unique(r) == \A i, j \in Id : i # j /\ r[i] # Nil /\ r[j] # Nil => ~SameRecord(r[i], r[j])

AtEntry(r, e) == {i \in Id : r[i] # Nil /\ EntryOf(r[i]) = e}

BookOf(r) == [e \in LedgerEntry |-> IF AtEntry(r, e) = {} THEN Nil ELSE r[CHOOSE i \in AtEntry(r, e) : TRUE].content]

LEMMA BookIs == Book = BookOf(remote) /\ Book' = BookOf(remote')
BY DEF Book, BookOf, RecordsAt, AtEntry

Records == [Id -> Remote \cup {Nil}]

LEMMA EntryType == ASSUME NEW r \in Remote PROVE EntryOf(r) \in LedgerEntry
BY DEF Remote, EntryOf, LedgerEntry

LEMMA EntryEqual == ASSUME NEW s, NEW t PROVE SameRecord(s, t) <=> EntryOf(s) = EntryOf(t)
BY DEF SameRecord, EntryOf

LEMMA OnlyElement == ASSUME NEW i, NEW S, S = {i} PROVE (CHOOSE j \in S : TRUE) = i
OBVIOUS

\* Where no two records share an entry, the entry has the record's content.
LEMMA BookAt ==
  ASSUME NEW r \in Records, Unique(r), NEW i \in Id, r[i] # Nil
  PROVE  EntryOf(r[i]) \in LedgerEntry /\ BookOf(r)[EntryOf(r[i])] = r[i].content
<1>. DEFINE e == EntryOf(r[i])
<1>1. e \in LedgerEntry
  BY EntryType DEF Records
<1>2. AtEntry(r, e) = {i}
  <2>1. ASSUME NEW j \in Id, r[j] # Nil, EntryOf(r[j]) = e PROVE j = i
    BY <2>1, EntryEqual DEF Unique
  <2>. QED BY <2>1 DEF AtEntry
<1>3. (CHOOSE j \in AtEntry(r, e) : TRUE) = i
  BY <1>2, OnlyElement
<1>. HIDE DEF e
<1>4. BookOf(r)[e] = IF AtEntry(r, e) = {} THEN Nil ELSE r[CHOOSE j \in AtEntry(r, e) : TRUE].content
  BY <1>1 DEF BookOf
<1>5. BookOf(r)[e] = r[i].content
  BY <1>2, <1>3, <1>4
<1>. QED BY <1>1, <1>5 DEF e

LEMMA BookNone ==
  ASSUME NEW r, NEW e \in LedgerEntry, \A i \in Id : r[i] # Nil => EntryOf(r[i]) # e
  PROVE  BookOf(r)[e] = Nil
<1>1. AtEntry(r, e) = {}
  BY DEF AtEntry
<1>. QED BY <1>1 DEF BookOf

\* Records that differ at one entry have books that differ there at most.
LEMMA BookElsewhere ==
  ASSUME NEW r \in Records, NEW q \in Records, Unique(r), Unique(q), NEW e \in LedgerEntry,
         NEW i \in Id, \A j \in Id \ {i} : q[j] = r[j],
         r[i] # Nil => EntryOf(r[i]) # e, q[i] # Nil => EntryOf(q[i]) # e
  PROVE  BookOf(q)[e] = BookOf(r)[e]
<1>1. CASE \E j \in Id : r[j] # Nil /\ EntryOf(r[j]) = e
  <2>1. PICK j \in Id : r[j] # Nil /\ EntryOf(r[j]) = e
    BY <1>1
  <2>2. j # i /\ q[j] = r[j]
    BY <2>1
  <2>3. BookOf(r)[EntryOf(r[j])] = r[j].content
    BY <2>1, BookAt
  <2>4. BookOf(q)[EntryOf(q[j])] = q[j].content
    BY <2>1, <2>2, BookAt
  <2>. QED BY <2>1, <2>2, <2>3, <2>4
<1>2. CASE ~\E j \in Id : r[j] # Nil /\ EntryOf(r[j]) = e
  <2>1. BookOf(r)[e] = Nil
    BY <1>2, BookNone
  <2>2. \A j \in Id : q[j] # Nil => EntryOf(q[j]) # e
    BY <1>2
  <2>3. BookOf(q)[e] = Nil
    BY <2>2, BookNone
  <2>. QED BY <2>1, <2>3
<1>. QED BY <1>1, <1>2

\* A record written where there was none, or that record, is an entry written.
LEMMA BookWritten ==
  ASSUME NEW r \in Records, Unique(r), NEW i \in Id, NEW n \in Remote, Unique([r EXCEPT ![i] = n]),
         r[i] # Nil => SameRecord(r[i], n)
  PROVE  BookOf([r EXCEPT ![i] = n]) = [BookOf(r) EXCEPT ![EntryOf(n)] = n.content]
<1>. DEFINE q == [r EXCEPT ![i] = n]
<1>1. q \in Records /\ Unique(q) /\ q[i] = n /\ n # Nil /\ \A j \in Id \ {i} : q[j] = r[j]
  BY NilAssumption DEF Records
<1>. HIDE DEF q
<1>2. EntryOf(n) \in LedgerEntry
  BY EntryType
<1>3. BookOf(q)[EntryOf(n)] = n.content
  BY <1>1, BookAt
<1>4. ASSUME NEW e \in LedgerEntry, e # EntryOf(n) PROVE BookOf(q)[e] = BookOf(r)[e]
  <2>1. r[i] # Nil => EntryOf(r[i]) # e
    BY <1>4, EntryEqual
  <2>. QED BY <1>1, <1>4, <2>1, BookElsewhere
<1>5. BookOf(q) = [e \in LedgerEntry |-> BookOf(q)[e]] /\ BookOf(r) = [e \in LedgerEntry |-> BookOf(r)[e]]
  BY DEF BookOf
<1>6. BookOf(q) = [BookOf(r) EXCEPT ![EntryOf(n)] = n.content]
  BY <1>2, <1>3, <1>4, <1>5
<1>. QED BY <1>6 DEF q

\* A record struck out is an entry struck out.
LEMMA BookStruck ==
  ASSUME NEW r \in Records, Unique(r), NEW i \in Id, r[i] # Nil
  PROVE  BookOf([r EXCEPT ![i] = Nil]) = [BookOf(r) EXCEPT ![EntryOf(r[i])] = Nil]
<1>. DEFINE q == [r EXCEPT ![i] = Nil]
<1>1. q \in Records /\ q[i] = Nil /\ \A j \in Id \ {i} : q[j] = r[j]
  BY DEF Records
<1>. HIDE DEF q
<1>2. EntryOf(r[i]) \in LedgerEntry
  BY BookAt
<1>3. Unique(q)
  BY <1>1 DEF Unique
<1>4. \A j \in Id : q[j] # Nil => EntryOf(q[j]) # EntryOf(r[i])
  BY <1>1, EntryEqual DEF Unique
<1>5. BookOf(q)[EntryOf(r[i])] = Nil
  BY <1>2, <1>4, BookNone
<1>6. ASSUME NEW e \in LedgerEntry, e # EntryOf(r[i]) PROVE BookOf(q)[e] = BookOf(r)[e]
  BY <1>1, <1>3, <1>6, BookElsewhere
<1>7. BookOf(q) = [e \in LedgerEntry |-> BookOf(q)[e]] /\ BookOf(r) = [e \in LedgerEntry |-> BookOf(r)[e]]
  BY DEF BookOf
<1>8. BookOf(q) = [BookOf(r) EXCEPT ![EntryOf(r[i])] = Nil]
  BY <1>2, <1>5, <1>6, <1>7
<1>. QED BY <1>8 DEF q

LEMMA BookType == ASSUME NEW r \in Records, Unique(r) PROVE BookOf(r) \in [LedgerEntry -> Content \cup {Nil}]
<1>1. ASSUME NEW e \in LedgerEntry PROVE BookOf(r)[e] \in Content \cup {Nil}
  <2>1. CASE \E j \in Id : r[j] # Nil /\ EntryOf(r[j]) = e
    <3>1. PICK j \in Id : r[j] # Nil /\ EntryOf(r[j]) = e
      BY <2>1
    <3>2. BookOf(r)[EntryOf(r[j])] = r[j].content
      BY <3>1, BookAt
    <3>3. r[j].content \in Content
      BY <3>1 DEF Records, Remote
    <3>. QED BY <3>1, <3>2, <3>3
  <2>2. CASE ~\E j \in Id : r[j] # Nil /\ EntryOf(r[j]) = e
    BY <2>2, BookNone
  <2>. QED BY <2>1, <2>2
<1>2. BookOf(r) = [e \in LedgerEntry |-> BookOf(r)[e]]
  BY DEF BookOf
<1>. QED BY <1>1, <1>2

-----------------------------------------------------------------------------
(* Claims and leaving *)

\* Copy p is of an object under deletion that asks for entry e.
Away(p, e) == p # Nil /\ p.deleting /\ e = EntryOf(p.spec)

LEMMA LeavingIs ==
  /\ \A e : e \in Leaving <=> \/ \E c \in CR : Away(obj[c], e)
                              \/ \E c \in CR : Away(cache[c], e)
                              \/ Away(rec, e)
  /\ \A e : e \in Leaving' <=> \/ \E c \in CR : Away(obj'[c], e)
                               \/ \E c \in CR : Away(cache'[c], e)
                               \/ Away(rec', e)
BY DEF Leaving, Away

\* Copy q of an object has the entry and the deletion mark of copy p.
Kept(p, q) == q = p \/ (p # Nil /\ q # Nil /\ q.deleting = p.deleting /\ SameRecord(q.spec, p.spec))

LEMMA LeavingShrinks ==
  ASSUME \A c \in CR : Kept(obj[c], obj'[c]) \/ obj'[c] = Nil,
         \A c \in CR : cache'[c] \in {cache[c], obj[c]},
         rec' \in {Nil, rec} \/ \E c \in CR : rec' = cache[c] \/ Kept(obj[c], rec')
  PROVE  Leaving' \subseteq Leaving
<1>. SUFFICES ASSUME NEW e, e \in Leaving' PROVE e \in Leaving
  OBVIOUS
<1>1. ASSUME NEW p, NEW q, Kept(p, q), Away(q, e) PROVE Away(p, e)
  BY <1>1, EntryEqual DEF Kept, Away
<1>2. ASSUME NEW c \in CR, Away(obj'[c], e) PROVE \E d \in CR : Away(obj[d], e)
  BY <1>1, <1>2 DEF Away
<1>3. ASSUME NEW c \in CR, Away(cache'[c], e) PROVE Away(cache[c], e) \/ Away(obj[c], e)
  BY <1>3
<1>4. ASSUME Away(rec', e)
      PROVE  Away(rec, e) \/ (\E c \in CR : Away(cache[c], e)) \/ (\E c \in CR : Away(obj[c], e))
  BY <1>1, <1>4 DEF Away
<1>. QED BY <1>2, <1>3, <1>4, LeavingIs

LEMMA ClaimsKept == ASSUME \A c \in CR : Kept(obj[c], obj'[c]) PROVE Claims' = Claims
<1>1. ASSUME NEW c \in CR
      PROVE  (IF obj'[c] = Nil THEN Nil ELSE EntryOf(obj'[c].spec)) = (IF obj[c] = Nil THEN Nil ELSE EntryOf(obj[c].spec))
  BY EntryEqual DEF Kept
<1>. QED BY <1>1 DEF Claims

LEMMA ClaimsWritten ==
  ASSUME NEW c \in CR, \A d \in CR \ {c} : obj'[d] = obj[d]
  PROVE  Claims' = [Claims EXCEPT ![c] = IF obj'[c] = Nil THEN Nil ELSE EntryOf(obj'[c].spec)]
<1>. DEFINE n == IF obj'[c] = Nil THEN Nil ELSE EntryOf(obj'[c].spec)
<1>1. ASSUME NEW d \in CR
      PROVE  (IF obj'[d] = Nil THEN Nil ELSE EntryOf(obj'[d].spec)) = IF d = c THEN n ELSE Claims[d]
  BY DEF Claims
<1>. HIDE DEF n
<1>2. Claims = [d \in CR |-> Claims[d]] /\ Claims' = [d \in CR |-> IF d = c THEN n ELSE Claims[d]]
  BY <1>1 DEF Claims
<1>3. Claims' = [Claims EXCEPT ![c] = n]
  BY <1>2
<1>. QED BY <1>3 DEF n

\* An object's claim is an entry.
LEMMA ClaimType ==
  ASSUME TypeInv, NEW c \in CR, obj[c] # Nil
  PROVE  /\ Claims[c] = EntryOf(obj[c].spec) /\ Claims[c] \in LedgerEntry /\ Claims[c] # Nil
<1>1. obj[c].spec \in RecordSpec
  BY DEF TypeInv, TypeOK, Object
<1>2. EntryOf(obj[c].spec) \in LedgerEntry
  BY <1>1 DEF RecordSpec, EntryOf, LedgerEntry
<1>. QED BY <1>2, EntryAssumption DEF Claims

\* Steps that the ledger sees nothing of, except that less may be left to settle.
LEMMA Settles ==
  ASSUME remote' = remote, spent'["outside"] = spent["outside"],
         \A c \in CR : Kept(obj[c], obj'[c]),
         \A c \in CR : cache'[c] \in {cache[c], obj[c]},
         rec' \in {Nil, rec} \/ \E c \in CR : rec' = cache[c] \/ Kept(obj[c], rec')
  PROVE  Ledger!Next
<1>1. Book' = Book
  BY BookIs
<1>2. Claims' = Claims
  BY ClaimsKept
<1>3. Leaving' \subseteq Leaving
  BY LeavingShrinks
<1>4. Ledger!Settle
  BY <1>1, <1>2, <1>3 DEF Ledger!Settle
<1>. QED BY <1>4 DEF Ledger!Next

-----------------------------------------------------------------------------
(* The steps *)

\* A record is written at Cloudflare on behalf of the object under reconciliation.
LEMMA Publishes ==
  ASSUME QInv, FixedKeys, NoDuplicateRecords', pc \in AfterResolve, NEW i \in Id,
         remote' = [remote EXCEPT ![i] = [zone |-> rec.spec.zone, key |-> want.key,
                                          content |-> want.content, opts |-> want.opts]],
         remote[i] # Nil => OwnRecord(i, rec.spec),
         UNCHANGED <<obj, cache, rec, spent>>
  PROVE  Ledger!Next
<1>. DEFINE n == [zone |-> rec.spec.zone, key |-> want.key, content |-> want.content, opts |-> want.opts]
<1>1. /\ TypeInv /\ cur \in CR /\ rec \in Object /\ want \in Wanted /\ want.key = rec.spec.key
      /\ remote \in Records /\ Unique(remote) /\ Unique(remote')
  BY DEF QInv, KInv, IInv, TypeInv, TypeOK, LocalsOK, WorkerInv, AfterResolve, Records, Unique, NoDuplicateRecords
<1>2. n \in Remote /\ n.content = want.content /\ SameRecord(n, rec.spec)
  <2>1. rec.spec \in RecordSpec
    BY <1>1 DEF Object
  <2>. QED BY <1>1, <2>1 DEF RecordSpec, Wanted, Remote, SameRecord
<1>. HIDE DEF n
<1>3. remote[i] # Nil => SameRecord(remote[i], n)
  BY <1>2 DEF OwnRecord, SameRecord
<1>4. remote' = [remote EXCEPT ![i] = n]
  BY DEF n
<1>5. Book' = [Book EXCEPT ![EntryOf(n)] = want.content]
  <2>0. Unique([remote EXCEPT ![i] = n])
    BY <1>1, <1>4
  <2>1. BookOf([remote EXCEPT ![i] = n]) = [BookOf(remote) EXCEPT ![EntryOf(n)] = n.content]
    BY <1>1, <1>2, <1>3, <2>0, BookWritten
  <2>. QED BY <1>2, <1>4, <2>1, BookIs
<1>6. obj[cur] # Nil /\ SameRecord(obj[cur].spec, rec.spec)
  <2>1. obj[cur] # Nil /\ pc # "idle"
    BY DEF QInv, KInv, HeldInv, Secured, Served, AfterResolve
  <2>. QED BY <1>1, <2>1, OneRecord DEF QInv, KInv, IInv, ObjectsInv, WorkerInv, CopyOK, Keeps
<1>7. Claims[cur] = EntryOf(n) /\ Claims[cur] # Nil
  <2>1. EntryOf(obj[cur].spec) = EntryOf(n)
    BY <1>2, <1>6 DEF EntryOf, SameRecord
  <2>. QED BY <1>1, <1>6, <2>1, ClaimType
<1>8. want.content \in AskedBy[cur]
  <2>1. PICK s \in SpecsOf[cur] : Asked(s, want.content)
    BY DEF QInv, AskInv
  <2>. QED BY <1>1, <2>1 DEF AskedBy, Asked
<1>9. Claims' = Claims /\ Leaving' = Leaving
  BY DEF Claims, Leaving
<1>10. Ledger!Publish(cur, want.content)
  BY <1>5, <1>7, <1>8, <1>9 DEF Ledger!Publish, Ledger!Claimed
<1>. QED BY <1>1, <1>8, <1>10 DEF Ledger!Next

LEMMA DeleteLedger ==
  ASSUME QInv, DeleteDnsRecord
  PROVE  Ledger!Next
<1>. DEFINE i == rec.status.id
<1>1. /\ pc = "delete" /\ obj' = obj /\ cache' = cache /\ rec' = rec /\ spent' = spent
      /\ remote' = [remote EXCEPT ![i] = IF Found(i, rec.spec.zone) THEN Nil ELSE @]
  BY DEF DeleteDnsRecord, clusterVars
<1>2. /\ i \in Id /\ rec \in Object /\ rec.deleting /\ OwnRecord(i, rec.spec)
      /\ remote \in Records /\ Unique(remote)
  <2>1. i \in Id /\ rec \in Object /\ rec.deleting /\ Keeps(cur, rec)
    BY <1>1 DEF QInv, KInv, ReleaseInv, IInv, TypeInv, LocalsOK, ById, WorkerInv
  <2>2. remote \in Records /\ Unique(remote)
    BY DEF QInv, KInv, IInv, TypeInv, TypeOK, Records, Unique, NoDuplicateRecords
  <2>. QED BY <2>1, <2>2, ConstantsAssumption DEF Keeps
<1>3. Claims' = Claims /\ Leaving' = Leaving
  BY <1>1 DEF Claims, Leaving
<1>4. CASE Found(i, rec.spec.zone)
  <2>1. remote[i] # Nil /\ remote' = [remote EXCEPT ![i] = Nil]
    BY <1>1, <1>4 DEF Found
  <2>2. EntryOf(remote[i]) = EntryOf(rec.spec) /\ EntryOf(remote[i]) \in LedgerEntry
    BY <1>2, <2>1, EntryEqual, BookAt DEF OwnRecord
  <2>3. EntryOf(rec.spec) \in Leaving
    BY <1>2, NilAssumption, LeavingIs DEF Away
  <2>4. Book' = [Book EXCEPT ![EntryOf(remote[i])] = Nil]
    <3>1. BookOf([remote EXCEPT ![i] = Nil]) = [BookOf(remote) EXCEPT ![EntryOf(remote[i])] = Nil]
      BY <1>2, <2>1, BookStruck
    <3>. QED BY <2>1, <3>1, BookIs
  <2>5. Ledger!Withdraw(EntryOf(remote[i]))
    BY <1>1, <1>3, <2>2, <2>3, <2>4 DEF Ledger!Withdraw
  <2>. QED BY <2>2, <2>5 DEF Ledger!Next
<1>5. CASE ~Found(i, rec.spec.zone)
  <2>1. remote' = remote
    BY <1>1, <1>2, <1>5 DEF Records
  <2>. QED BY <1>1, <2>1, Settles DEF Kept
<1>. QED BY <1>4, <1>5

LEMMA ReleaseLedger ==
  ASSUME QInv, ReleaseDnsRecord
  PROVE  Ledger!Next
<1>1. TypeInv /\ HeldInv /\ obj \in [CR -> Object \cup {Nil}]
  BY DEF QInv, KInv, IInv, TypeInv, TypeOK
<1>2. remote' = remote /\ spent' = spent /\ cache' = cache /\ rec' = Nil
  BY DEF ReleaseDnsRecord, Return, remoteVars
<1>3. CASE obj' = obj
  BY <1>2, <1>3, Settles DEF Kept
<1>4. CASE cur \in CR /\ obj[cur] # Nil /\ obj' = [obj EXCEPT ![cur] = Nil]
  <2>1. obj'[cur] = Nil /\ \A c \in CR \ {cur} : obj'[c] = obj[c]
    BY <1>1, <1>4
  <2>2. Claims[cur] # Nil
    BY <1>1, <1>4, ClaimType
  <2>3. Claims' = [Claims EXCEPT ![cur] = Nil]
    BY <1>4, <2>1, ClaimsWritten
  <2>4. Leaving' \subseteq Leaving
    BY <1>2, <2>1, LeavingShrinks DEF Kept
  <2>5. Book' = Book
    BY <1>2, BookIs
  <2>6. Ledger!Drop(cur)
    BY <1>2, <2>2, <2>3, <2>4, <2>5 DEF Ledger!Drop, Ledger!Claimed
  <2>. QED BY <1>4, <2>6 DEF Ledger!Next
<1>. QED BY <1>1, <1>3, <1>4, Released

LEMMA RefreshedKept ==
  ASSUME NEW o \in Object, rec \in Object
  PROVE  Kept(o, Refreshed(o))
<1>1. Refreshed(o) \in Object
  BY RefreshedType
<1>2. Refreshed(o).deleting = o.deleting /\ SameRecord(Refreshed(o).spec, o.spec)
  BY DEF Refreshed, Object, RecordSpec, SameRecord
<1>. QED BY <1>1, <1>2, NilAssumption DEF Kept

\* A patch that keeps the deletion mark and the spec of the object.
LEMMA PatchSettles ==
  ASSUME TypeInv, cur \in CR, NEW o \in Object, Write(cur, o), Kept(obj[cur], o), rec \in Object,
         rec' \in {Nil, Refreshed(obj'[cur])}, remote' = remote, spent' = spent, cache' = cache
  PROVE  Ledger!Next
<1>1. obj'[cur] = o /\ \A c \in CR \ {cur} : obj'[c] = obj[c]
  BY DEF Write, TypeInv, TypeOK
<1>2. \A c \in CR : Kept(obj[c], obj'[c])
  BY <1>1 DEF Kept
<1>3. Kept(obj[cur], Refreshed(o))
  <2>1. Kept(o, Refreshed(o))
    BY RefreshedKept
  <2>. QED BY <2>1 DEF Kept, SameRecord
<1>. QED BY <1>1, <1>2, <1>3, Settles

LEMMA ReconcileStepLedger == ASSUME FixedKeys, QInv, QInv', ReconcileStep PROVE Ledger!Next
<1>1. TypeInv /\ NoDuplicateRecords'
  BY DEF QInv, KInv, IInv
<1>2. CASE LookForAdopter \/ Resolve \/ ListDnsRecords \/ AdoptDnsRecord \/ GetDnsRecord \/ GetDnsRecordGone
  <2>1. UNCHANGED <<obj, cache, rec, remote, spent>>
    BY <1>2 DEF LookForAdopter, Resolve, ListDnsRecords, AdoptDnsRecord, GetDnsRecord, GetDnsRecordGone,
                clusterVars, remoteVars
  <2>. QED BY <2>1, Settles DEF Kept
<1>3. CASE GiveUp
  <2>1. UNCHANGED <<obj, cache, remote, spent>> /\ rec' = Nil
    BY <1>3 DEF GiveUp, AddFinalizerGone, ResolveWaits, ListAmbiguous, UpdateDnsRecordGone, Return, remoteVars
  <2>. QED BY <2>1, Settles DEF Kept
<1>4. CASE StatusPatch
  <2>1. cur \in CR /\ rec \in Object /\ obj[cur] \in Object /\ remote' = remote /\ spent' = spent /\ cache' = cache
    BY <1>1, <1>4, StatusPatched
  <2>2. PICK s \in Status : /\ Write(cur, Patched(s)) /\ Patched(s) \in Object
                            /\ Patched(s).spec = obj[cur].spec /\ Patched(s).deleting = obj[cur].deleting
    BY <1>1, <1>4, StatusPatched
  <2>3. Kept(obj[cur], Patched(s))
    BY <2>1, <2>2, NilAssumption DEF Kept, SameRecord
  <2>4. rec' \in {Nil, Refreshed(obj'[cur])}
    BY <1>4 DEF StatusPatch, RecordId, ForgetId, Observe, ObserveUpdate, Return
  <2>. QED BY <1>1, <2>1, <2>2, <2>3, <2>4, PatchSettles
<1>5. CASE AddFinalizer
  <2>. DEFINE n == [obj[cur] EXCEPT !.fin = TRUE]
  <2>1. /\ cur \in CR /\ rec \in Object /\ obj[cur] \in Object /\ Write(cur, n)
        /\ rec' = Refreshed(obj'[cur]) /\ remote' = remote /\ spent' = spent /\ cache' = cache
    BY <1>1, <1>5 DEF AddFinalizer, TypeInv, TypeOK, LocalsOK, remoteVars
  <2>2. n \in Object /\ n.spec = obj[cur].spec /\ n.deleting = obj[cur].deleting
    BY <2>1 DEF Object
  <2>. HIDE DEF n
  <2>3. Kept(obj[cur], n)
    BY <2>1, <2>2, NilAssumption DEF Kept, SameRecord
  <2>. QED BY <1>1, <2>1, <2>2, <2>3, PatchSettles
<1>6. CASE CreateDnsRecord
  <2>1. FreshId \in Id /\ FreshId \notin issued
    BY <1>1, <1>6 DEF CreateDnsRecord, FreshId, TypeInv, TypeOK
  <2>2. remote[FreshId] = Nil
    BY <2>1 DEF QInv, KInv, IInv, IssuedOnce
  <2>. QED BY <1>1, <1>6, <2>1, <2>2, Publishes DEF CreateDnsRecord, clusterVars, AfterResolve
<1>7. CASE UpdateDnsRecord
  <2>1. rec.status.id \in Id /\ pc = "update"
    BY <1>1, <1>7 DEF UpdateDnsRecord, TypeInv, LocalsOK, ById
  <2>2. OwnRecord(rec.status.id, rec.spec)
    BY <2>1, ConstantsAssumption DEF QInv, KInv, IInv, WorkerInv, Keeps
  <2>. QED BY <1>1, <1>7, <2>1, <2>2, Publishes DEF UpdateDnsRecord, clusterVars, AfterResolve
<1>. QED BY <1>2, <1>3, <1>4, <1>5, <1>6, <1>7, DeleteLedger, ReleaseLedger, StepKinds DEF CallOnly

LEMMA UserDeletesLedger == ASSUME TypeInv, NEW c \in CR, UserDeletes(c) PROVE Ledger!Next
<1>1. /\ obj[c] \in Object /\ obj[c] # Nil /\ ~obj[c].deleting
      /\ UNCHANGED <<cache, rec, remote>> /\ obj \in [CR -> Object \cup {Nil}]
      /\ obj' = [obj EXCEPT ![c] = IF obj[c].fin THEN [obj[c] EXCEPT !.deleting = TRUE] ELSE Nil]
  BY DEF UserDeletes, Write, TypeInv, TypeOK, workerVars, remoteVars
<1>2. spent'["outside"] = spent["outside"]
  BY DEF UserDeletes, Spend, TypeInv, TypeOK, Kinds
<1>3. Book' = Book
  BY <1>1, BookIs
<1>4. Claims[c] = EntryOf(obj[c].spec) /\ Claims[c] # Nil
  BY <1>1, ClaimType
<1>5. \A d \in CR \ {c} : obj'[d] = obj[d]
  BY <1>1
<1>6. CASE obj[c].fin
  <2>1. [obj[c] EXCEPT !.deleting = TRUE] \in Object /\ obj'[c] = [obj[c] EXCEPT !.deleting = TRUE]
    BY <1>1, <1>6 DEF Object
  <2>2. obj'[c] # Nil /\ obj'[c].deleting /\ obj'[c].spec = obj[c].spec
    BY <1>1, <2>1, NilAssumption DEF Object
  <2>3. Claims' = Claims
    BY <1>1, <1>4, <1>5, <2>2, ClaimsWritten DEF Claims
  <2>4. ASSUME NEW e PROVE e \in Leaving' <=> e \in Leaving \cup {EntryOf(obj[c].spec)}
    <3>1. Away(obj'[c], e) <=> e = EntryOf(obj[c].spec)
      BY <2>2 DEF Away
    <3>2. ~Away(obj[c], e)
      BY <1>1 DEF Away
    <3>. QED BY <1>1, <1>5, <3>1, <3>2, LeavingIs
  <2>5. Ledger!Leave(c)
    BY <1>2, <1>3, <1>4, <2>3, <2>4 DEF Ledger!Leave, Ledger!Claimed
  <2>. QED BY <2>5 DEF Ledger!Next
<1>7. CASE ~obj[c].fin
  <2>1. obj'[c] = Nil
    BY <1>1, <1>7
  <2>2. Claims' = [Claims EXCEPT ![c] = Nil]
    BY <1>5, <2>1, ClaimsWritten
  <2>3. Leaving' \subseteq Leaving
    BY <1>1, <1>5, <2>1, LeavingShrinks DEF Kept
  <2>4. Ledger!Drop(c)
    BY <1>2, <1>3, <1>4, <2>2, <2>3 DEF Ledger!Drop, Ledger!Claimed
  <2>. QED BY <2>4 DEF Ledger!Next
<1>. QED BY <1>6, <1>7

LEMMA UserCreatesLedger == ASSUME TypeInv, NEW c \in CR, NEW s \in SpecsOf[c], UserCreates(c, s) PROVE Ledger!Next
<1>. DEFINE n == [deleting |-> FALSE, fin |-> FALSE, spec |-> s, status |-> NoStatus]
<1>1. /\ obj[c] = Nil /\ UNCHANGED <<cache, rec, remote>>
      /\ obj'[c] = n /\ \A d \in CR \ {c} : obj'[d] = obj[d]
  BY DEF UserCreates, Write, TypeInv, TypeOK, workerVars, remoteVars
<1>2. n \in Object /\ ~n.deleting /\ n.spec = s /\ EntryOf(s) \in LedgerEntry
  <2>1. s \in RecordSpec
    BY ConstantsAssumption
  <2>. QED BY <2>1 DEF Object, NoStatus, Status, RecordSpec, EntryOf, LedgerEntry
<1>. HIDE DEF n
<1>3. n # Nil
  BY <1>2, NilAssumption
<1>4. spent'["outside"] = spent["outside"]
  BY DEF UserCreates, Spend, TypeInv, TypeOK, Kinds
<1>5. Book' = Book
  BY <1>1, BookIs
<1>6. Claims' = [Claims EXCEPT ![c] = EntryOf(s)] /\ Claims[c] = Nil
  BY <1>1, <1>2, <1>3, ClaimsWritten DEF Claims
<1>7. ASSUME NEW e PROVE e \in Leaving' <=> e \in Leaving
  <2>1. ~Away(obj'[c], e) /\ ~Away(obj[c], e)
    BY <1>1, <1>2 DEF Away
  <2>. QED BY <1>1, <2>1, LeavingIs
<1>8. Leaving' = Leaving
  BY <1>7 DEF Leaving
<1>9. Ledger!Claim(c, EntryOf(s))
  BY <1>4, <1>5, <1>6, <1>8 DEF Ledger!Claim, Ledger!Claimed
<1>. QED BY <1>2, <1>9 DEF Ledger!Next

LEMMA RemovedLedger == ASSUME QInv, NEW i \in Id, RemovedUpstream(i) PROVE Ledger!Next
<1>1. /\ remote[i] # Nil /\ remote' = [remote EXCEPT ![i] = Nil] /\ UNCHANGED <<obj, cache, rec>>
      /\ remote \in Records /\ Unique(remote)
  BY DEF RemovedUpstream, clusterVars, workerVars, QInv, KInv, IInv, TypeInv, TypeOK, Records, Unique, NoDuplicateRecords
<1>2. spent'["outside"] = spent["outside"] + 1
  BY DEF RemovedUpstream, Spend, QInv, KInv, IInv, TypeInv, TypeOK, Kinds
<1>3. EntryOf(remote[i]) \in LedgerEntry
  BY <1>1, BookAt
<1>4. Book' = [Book EXCEPT ![EntryOf(remote[i])] = Nil]
  <2>1. BookOf([remote EXCEPT ![i] = Nil]) = [BookOf(remote) EXCEPT ![EntryOf(remote[i])] = Nil]
    BY <1>1, BookStruck
  <2>. QED BY <1>1, <2>1, BookIs
<1>5. Claims' = Claims /\ Leaving' = Leaving
  BY <1>1 DEF Claims, Leaving
<1>6. Ledger!Lose(EntryOf(remote[i]))
  BY <1>2, <1>4, <1>5 DEF Ledger!Lose
<1>. QED BY <1>3, <1>6 DEF Ledger!Next

LEMMA OtherStepLedger == ASSUME FixedKeys, QInv, [OtherStep]_vars PROVE Ledger!Next
<1>1. TypeInv /\ CopiesInv /\ spent \in [Kinds -> Nat]
  BY DEF QInv, KInv, IInv, TypeInv, TypeOK
<1>2. ASSUME NEW c \in CR, ReconcileGone(c) PROVE Ledger!Next
  BY <1>2, Settles DEF ReconcileGone, workerVars, remoteVars, Kept
<1>3. ASSUME NEW c \in CR, Reconcile(c) PROVE Ledger!Next
  BY <1>3, Settles DEF Reconcile, remoteVars, Kept
<1>4. ASSUME NEW c \in CR, Sync(c) PROVE Ledger!Next
  <2>1. obj' = obj /\ rec' = rec /\ remote' = remote /\ spent' = spent /\ \A d \in CR : cache'[d] \in {cache[d], obj[d]}
    BY <1>1, <1>4 DEF Sync, workerVars, remoteVars, TypeInv, TypeOK
  <2>. QED BY <2>1, Settles DEF Kept
<1>5. ASSUME NEW k \in Kinds \ {"outside"}, Spend(k) PROVE spent'["outside"] = spent["outside"]
  BY <1>1, <1>5 DEF Spend, Kinds
<1>6. CASE CallFails \/ Restart
  <2>1. obj' = obj /\ rec' = Nil /\ remote' = remote /\ Spend("fault") /\ (cache' = cache \/ cache' = obj)
    BY <1>6 DEF CallFails, Restart, Return, remoteVars
  <2>2. spent'["outside"] = spent["outside"]
    BY <1>5, <2>1 DEF Kinds
  <2>. QED BY <2>1, <2>2, Settles DEF Kept
<1>7. ASSUME NEW c \in CR, NEW s \in SpecsOf[c], UserEdits(c, s) PROVE Ledger!Next
  <2>. DEFINE n == [obj[c] EXCEPT !.spec = s]
  <2>1. /\ obj[c] \in Object /\ obj[c] # Nil /\ UNCHANGED <<cache, rec, remote>> /\ Spend("user")
        /\ obj'[c] = n /\ \A d \in CR \ {c} : obj'[d] = obj[d]
    BY <1>1, <1>7 DEF UserEdits, Write, TypeInv, TypeOK, workerVars, remoteVars
  <2>2. s \in RecordSpec
    BY ConstantsAssumption
  <2>3. n \in Object /\ n.spec = s /\ n.deleting = obj[c].deleting
    BY <2>1, <2>2 DEF Object
  <2>4. SameRecord(s, obj[c].spec)
    BY <1>1, <2>1 DEF FixedKeys, CopiesInv, Says
  <2>. HIDE DEF n
  <2>5. Kept(obj[c], n)
    BY <2>1, <2>3, <2>4, NilAssumption DEF Kept
  <2>6. spent'["outside"] = spent["outside"]
    BY <1>5, <2>1 DEF Kinds
  <2>7. \A d \in CR : Kept(obj[d], obj'[d])
    BY <2>1, <2>5 DEF Kept
  <2>. QED BY <2>1, <2>6, <2>7, Settles
<1>8. ASSUME NEW t, TunnelChanges(t) PROVE Ledger!Next
  <2>1. UNCHANGED <<obj, cache, rec, remote>> /\ Spend("tunnel")
    BY <1>8 DEF TunnelChanges, workerVars, remoteVars
  <2>2. spent'["outside"] = spent["outside"]
    BY <1>5, <2>1 DEF Kinds
  <2>. QED BY <2>1, <2>2, Settles DEF Kept
<1>9. CASE UNCHANGED vars
  BY <1>9, Settles DEF vars, Kept
<1>10. ASSUME NEW c \in CR, NEW s \in SpecsOf[c], UserCreates(c, s) PROVE Ledger!Next
  BY <1>1, <1>10, UserCreatesLedger
<1>11. ASSUME NEW c \in CR, UserDeletes(c) PROVE Ledger!Next
  BY <1>1, <1>11, UserDeletesLedger
<1>12. ASSUME NEW i \in Id, RemovedUpstream(i) PROVE Ledger!Next
  BY <1>12, RemovedLedger
<1>. QED BY <1>2, <1>3, <1>4, <1>6, <1>7, <1>8, <1>9, <1>10, <1>11, <1>12 DEF OtherStep, Environment

LEMMA InitLedger == ASSUME UniqueBefore PROVE Init => Ledger!Init
<1>. SUFFICES ASSUME Init PROVE Ledger!Init
  OBVIOUS
<1>1. remote \in Records /\ Unique(remote)
  BY InitIInv DEF IInv, TypeInv, TypeOK, Records, Unique, NoDuplicateRecords
<1>2. Book \in [LedgerEntry -> Content \cup {Nil}]
  BY <1>1, BookIs, BookType
<1>3. Claims = [c \in CR |-> Nil]
  BY DEF Init, Claims
<1>4. ASSUME NEW e PROVE e \notin Leaving
  BY LeavingIs DEF Init, Away
<1>5. Leaving = {}
  BY <1>4
<1>6. spent["outside"] = 0
  BY DEF Init, Kinds
<1>. QED BY <1>2, <1>3, <1>5, <1>6 DEF Ledger!Init

(***************************************************************************)
(* For any number of objects, records and failures, as long as zone, name  *)
(* and type of each object's record stay the same and the zones held no    *)
(* duplicates before: every behaviour of the controller, seen from the     *)
(* zones, is one of the ledger.  Reconcile writes a record only on behalf  *)
(* of an object that exists and asks for it, with a content that object    *)
(* may have asked for, and deletes one only after a deletion.              *)
(***************************************************************************)
THEOREM RefinesLedger == ASSUME FixedKeys, UniqueBefore PROVE Spec => ImplementsLedger
<1>1. Init => QInv /\ Ledger!Init
  BY InitQInv, InitLedger
<1>2. QInv /\ [Next]_vars => QInv'
  BY InductiveQInv
<1>3. QInv /\ QInv' /\ [Next]_vars => Ledger!Next
  BY ReconcileStepLedger, OtherStepLedger DEF Next, OtherStep
<1>. QED BY <1>1, <1>2, <1>3, PTL DEF Spec, ImplementsLedger, Ledger!Spec
=============================================================================
