--------------------------- MODULE TunnelDnsProofs ---------------------------
(* Proofs about TunnelDns, for every set of hostnames, zones and configurations. *)
EXTENDS TunnelDns, FiniteSetTheorems, TLAPS

USE ConstantsAssumption, NilAssumption

-----------------------------------------------------------------------------
(* The inductive invariant, part by part *)

\* What the worker's variables hold between two calls.
LocalsOK ==
  /\ pc = "apply" => rec \in Tunnel /\ todo \subseteq DesiredDnsRecords(rec.config)
  /\ pc = "idle" => owned = {} /\ todo = {} /\ keep = {} /\ ready = {}

TypeInv == TypeOK /\ LocalsOK

\* The hostname is wanted, in a zone it lies in, by configuration c.
Wants(c, h) == h \in DesiredDnsRecords(c) /\ ZoneFor(c, h) \in InZone[h]

\* r is a record of the tunnel object t.
IsOf(r, t) == r # Nil /\ r.owner = t.uid

(***************************************************************************)
(* A listed record that the worker has still to apply has left the cache   *)
(* only if it has left the API server; one that the worker passed over     *)
(* was not the tunnel's any more.                                          *)
(***************************************************************************)
PassedOver ==
  pc = "apply" => \A h \in owned : Wants(rec.config, h) /\ h \notin keep /\ IsOf(record[h], rec) =>
                                     h \in todo /\ IsOf(cache[h], rec)

\* A cache is behind only where an event is under way.
CacheInv == /\ Nil \notin news => tunCache = tun
            /\ \A h \in Host \ news : cache[h] = record[h]

\* What an event would enqueue the tunnel for has not happened since the worker started.
FreshInv == pc = "apply" /\ ~queued => rec = tunCache /\ \A h \in owned : IsOf(cache[h], rec)

\* The budgets say what has not happened yet.
SpentInv == /\ spent["zone"] = 0 => \A z \in Zone : zone[z] = "found"
            /\ spent["outside"] = 0 =>
                 \A h \in Host : /\ record[h] # Nil => record[h].owner # Foreign
                                 /\ cache[h] # Nil => cache[h].owner # Foreign

\* The tunnel is neither queued nor about to be, and no zone ever failed.
Stable == ~queued /\ Nil \notin news /\ tun # Nil /\ spent["zone"] = 0

\* The worker applies what is wanted, nothing else.
WorkInv == Stable => \A h \in todo \cup keep : Wants(tun.config, h)

\* Hostname h has its record, or has an event to come that enqueues the tunnel.
Served(h) ==
  IF cache[h] = Nil
  THEN Has(h, SettingsFor(tun.config, h)) /\ ~record[h].deleting
  ELSE record[h] # Nil /\ h \notin news =>
         record[h].deleting \/ record[h].owner # tun.uid \/ Has(h, SettingsFor(tun.config, h))

WantedInv == Stable /\ spent["outside"] = 0 =>
               \A h \in Host \ todo : Wants(tun.config, h) => Served(h)

UnwantedInv == Stable => \A h \in Host \ (owned \cup news) :
                 ~Wants(tun.config, h) /\ IsOf(record[h], tun) => record[h].deleting

Mine == {h \in Host : IsOf(cache[h], tun)}

\* An event about h is to come that enqueues the tunnel.
Due(h) == \/ cache[h] # Nil /\ cache[h].owner # Foreign /\ (h \in news \/ cache[h].deleting)
          \/ h \in news /\ IsOf(record[h], tun) /\ ~record[h].deleting

Tally == IF pc = "idle"
           THEN tun.status = [desired |-> Cardinality(Mine),
                              ready |-> Cardinality({h \in Mine : cache[h].target = tun.uid})]
           ELSE /\ keep \subseteq Mine /\ Mine \subseteq keep \cup todo \cup owned
                /\ ready = {h \in keep : cache[h].target = tun.uid}

CountInv == Stable => (\E h \in Host : Due(h)) \/ Tally

-----------------------------------------------------------------------------
(* The operators *)

\* ResolveDns fills every setting; a hostname is desired only with a zone.
LEMMA SettingsType ==
  ASSUME NEW c \in Config, NEW h \in DesiredDnsRecords(c)
  PROVE  h \in Host /\ SettingsFor(c, h) \in Settings /\ ZoneFor(c, h) \in Zone /\ SettingsFor(c, h).zone # Nil
<1>1. PICK s \in SettingsOf(c, h) : SettingsOf(c, h) = {s} /\ s.zone # Nil
  BY DEF DesiredDnsRecords
<1>2. SettingsFor(c, h) = s
  BY <1>1 DEF SettingsFor
<1>3. PICK e \in c.ingress : s = ResolveDns(c.dns, e.dns)
  BY <1>1 DEF SettingsOf
<1>4. e.dns \in Level /\ c.dns \in Level
  BY <1>3 DEF Config, Entry
<1>5. s \in Settings
  BY <1>3, <1>4 DEF ResolveDns, Settings, Level
<1>. QED BY <1>1, <1>2, <1>5 DEF DesiredDnsRecords, Settings, ZoneFor

\* A wanted hostname is applied unless its zone reads as missing, and then it is kept.
LEMMA AppliedOrKept ==
  ASSUME TypeOK, NEW c \in Config
  PROVE  /\ Applied(c) \subseteq DesiredDnsRecords(c)
         /\ \A h \in Host : Wants(c, h) => h \in Applied(c) \cup Kept(c)
         /\ (\A z \in Zone : zone[z] = "found") =>
              /\ Kept(c) = {}
              /\ \A h \in Host : Wants(c, h) <=> h \in Applied(c)
<1>1. ASSUME NEW h \in DesiredDnsRecords(c)
      PROVE  zone[ZoneFor(c, h)] \in Answers
  BY SettingsType DEF TypeOK
<1>2. Applied(c) \subseteq DesiredDnsRecords(c)
  BY DEF Applied
<1>3. \A h \in Host : Wants(c, h) => h \in Applied(c) \cup Kept(c)
  BY <1>1 DEF Applied, Kept, Wants, Answers
<1>4. ASSUME \A z \in Zone : zone[z] = "found"
      PROVE  /\ Kept(c) = {}
             /\ \A h \in Host : Wants(c, h) <=> h \in Applied(c)
  BY <1>4, SettingsType DEF Applied, Kept, Wants
<1>. QED BY <1>2, <1>3, <1>4

\* What is written back is a DnsRecord.
LEMMA BuiltType ==
  ASSUME NEW t \in Tunnel, NEW h \in DesiredDnsRecords(t.config)
  PROVE  /\ [owner |-> t.uid, deleting |-> FALSE, settings |-> SettingsFor(t.config, h), target |-> Nil] \in DnsRecord
         /\ \A r \in DnsRecord : [r EXCEPT !.settings = SettingsFor(t.config, h)] \in DnsRecord
<1>1. t.config \in Config /\ t.uid \in Uid
  BY DEF Tunnel
<1>. QED BY <1>1, SettingsType DEF DnsRecord

LEMMA RecordFields ==
  ASSUME NEW r \in DnsRecord
  PROVE  /\ r.owner \in Uid \cup {Foreign} /\ r.deleting \in BOOLEAN
         /\ r.settings \in Settings /\ r.target \in Uid \cup {Nil} /\ r # Nil
         /\ \A s \in Settings : /\ [r EXCEPT !.settings = s] \in DnsRecord
                                /\ [r EXCEPT !.settings = s].settings = s
                                /\ [r EXCEPT !.settings = s].owner = r.owner
                                /\ [r EXCEPT !.settings = s].deleting = r.deleting
                                /\ [r EXCEPT !.settings = s].target = r.target
         /\ \A d \in BOOLEAN : /\ [r EXCEPT !.deleting = d] \in DnsRecord
                               /\ [r EXCEPT !.deleting = d].settings = r.settings
                               /\ [r EXCEPT !.deleting = d].owner = r.owner
                               /\ [r EXCEPT !.deleting = d].deleting = d
         /\ \A u \in Uid \cup {Nil} : /\ [r EXCEPT !.target = u] \in DnsRecord
                               /\ [r EXCEPT !.target = u].settings = r.settings
                               /\ [r EXCEPT !.target = u].owner = r.owner
                               /\ [r EXCEPT !.target = u].deleting = r.deleting
BY DEF DnsRecord

LEMMA TunnelFields ==
  ASSUME NEW t \in Tunnel
  PROVE  /\ t.uid \in Uid /\ t.config \in Config /\ t.status \in Counts /\ t # Nil /\ t.uid # Foreign
         /\ \A c \in Config : [t EXCEPT !.config = c] \in Tunnel
         /\ \A s \in Counts : [t EXCEPT !.status = s] \in Tunnel
BY DEF Tunnel

LEMMA CountType ==
  ASSUME NEW S \in SUBSET Host
  PROVE  Cardinality(S) \in 0..Cardinality(Host)
BY FS_Subset, FS_CardinalityType

\* The object h alone may have changed, and that is an event.
RecordAt(h) ==
  /\ record' \in [Host -> DnsRecord \cup {Nil}]
  /\ \A g \in Host \ {h} : record'[g] = record[g]
  /\ news \subseteq news' /\ news' \subseteq news \cup {h}
  /\ h \in news' \/ record'[h] = record[h]
  /\ tun' = tun

LEMMA WriteEffect ==
  ASSUME TypeOK, NEW h \in Host, NEW r \in DnsRecord \cup {Nil}, Write(h, r)
  PROVE  RecordAt(h) /\ record'[h] = r /\ news' \subseteq Host \cup {Nil}
BY DEF Write, TypeOK, RecordAt

\* Every record of a tunnel has a zone.
ZonesSet == \A h \in Host : record[h] # Nil /\ record[h].owner # Foreign => record[h].settings.zone # Nil

LEMMA WriteKeepsZones ==
  ASSUME TypeOK, NEW h \in Host, NEW r \in DnsRecord \cup {Nil}, Write(h, r),
         r # Nil /\ r.owner # Foreign => r.settings.zone # Nil
  PROVE  ZonesSet'
<1>. SUFFICES ASSUME NEW g \in Host, record'[g] # Nil, record'[g].owner # Foreign
              PROVE  record'[g].settings.zone # Nil
  BY DEF ZonesSet
<1>1. CASE g = h
  BY <1>1, WriteEffect
<1>2. CASE g # h
  <2>1. record'[g] = record[g]
    BY <1>2, WriteEffect DEF RecordAt
  <2>. QED BY <2>1 DEF TypeOK
<1>. QED BY <1>1, <1>2

\* What the write of a copy of record[h] does that differs in deleting, or in target.
Touched(h, mark) ==
  /\ RecordAt(h) /\ news' \subseteq Host \cup {Nil} /\ ZonesSet'
  /\ record'[h] \in DnsRecord
  /\ record'[h].owner = record[h].owner /\ record'[h].settings = record[h].settings
  /\ record'[h].deleting = (mark \/ record[h].deleting)

LEMMA MarkEffect ==
  ASSUME TypeOK, NEW h \in Host, record[h] # Nil, Write(h, [record[h] EXCEPT !.deleting = TRUE])
  PROVE  Touched(h, TRUE)
<1>. DEFINE r == [record[h] EXCEPT !.deleting = TRUE]
<1>1. record[h] \in DnsRecord /\ (record[h].owner # Foreign => record[h].settings.zone # Nil)
  BY DEF TypeOK
<1>2. r \in DnsRecord /\ r.owner = record[h].owner /\ r.settings = record[h].settings /\ r.deleting = TRUE
  BY <1>1, RecordFields
<1>3. Write(h, r)
  OBVIOUS
<1>. HIDE DEF r
<1>. QED BY <1>1, <1>2, <1>3, WriteEffect, WriteKeepsZones DEF Touched

LEMMA TargetEffect ==
  ASSUME TypeOK, NEW h \in Host, record[h] # Nil, NEW u \in Uid \cup {Nil}, Write(h, [record[h] EXCEPT !.target = u])
  PROVE  Touched(h, FALSE)
<1>. DEFINE r == [record[h] EXCEPT !.target = u]
<1>1. record[h] \in DnsRecord /\ (record[h].owner # Foreign => record[h].settings.zone # Nil)
  BY DEF TypeOK
<1>2. r \in DnsRecord /\ r.owner = record[h].owner /\ r.settings = record[h].settings /\ r.deleting = record[h].deleting
  BY <1>1, RecordFields
<1>3. Write(h, r) /\ record[h].deleting \in BOOLEAN
  BY <1>1, RecordFields
<1>. HIDE DEF r
<1>. QED BY <1>1, <1>2, <1>3, WriteEffect, WriteKeepsZones DEF Touched

LEMMA WriteTunnelEffect ==
  ASSUME TypeOK, NEW t \in Tunnel \cup {Nil}, WriteTunnel(t)
  PROVE  /\ tun' = t /\ tun' \in Tunnel \cup {Nil} /\ record' = record
         /\ news' \subseteq Host \cup {Nil} /\ news \subseteq news' /\ news' \subseteq news \cup {Nil}
         /\ Nil \in news' \/ tun' = tun
BY DEF WriteTunnel, TypeOK

LEMMA SpendType ==
  ASSUME TypeOK, NEW k \in Kinds, Spend(k)
  PROVE  /\ spent' \in [Kinds -> Nat] /\ spent'[k] # 0
         /\ \A j \in Kinds : spent'[j] = 0 => spent[j] = 0
<1>1. spent \in [Kinds -> Nat]
  BY DEF TypeOK
<1>2. spent' = [spent EXCEPT ![k] = spent[k] + 1]
  BY DEF Spend
<1>. QED BY <1>1, <1>2

-----------------------------------------------------------------------------
(* Types *)

LEMMA InitType == Init => TypeInv
<1>. SUFFICES ASSUME Init PROVE TypeInv
  OBVIOUS
<1>1. uids \in 0..MaxUid /\ spent \in [Kinds -> Nat] /\ zone \in [Zone -> Answers]
  BY DEF Init, Answers
<1>. QED BY <1>1 DEF Init, TypeInv, TypeOK, LocalsOK

LEMMA WorkerType ==
  ASSUME TypeInv, ReconcileGone \/ ReconcileDns \/ ReconcileStep
  PROVE  TypeInv'
<1>. USE DEF TypeInv, LocalsOK
<1>1. CASE ReconcileGone
  BY <1>1 DEF ReconcileGone, clusterVars, workerVars, TypeOK
<1>2. CASE ReconcileDns
  <2>1. tunCache \in Tunnel /\ tunCache.config \in Config
    BY <1>2, TunnelFields DEF ReconcileDns, TypeOK
  <2>2. Applied(tunCache.config) \subseteq DesiredDnsRecords(tunCache.config)
    BY <2>1, AppliedOrKept
  <2>3. todo' \subseteq Host /\ owned' \subseteq Host
    BY <1>2, <2>2 DEF ReconcileDns, DesiredDnsRecords, OwnedDnsRecords
  <2>. QED BY <1>2, <2>1, <2>2, <2>3 DEF ReconcileDns, Goto, clusterVars, TypeOK
<1>3. ASSUME NEW h \in Host, CreateRecord(h) PROVE TypeInv'
  <2>1. rec \in Tunnel /\ rec.config \in Config /\ h \in DesiredDnsRecords(rec.config)
    BY <1>3, TunnelFields DEF CreateRecord
  <2>2. Built(h) \in DnsRecord /\ Built(h).settings.zone # Nil
    BY <2>1, BuiltType, SettingsType DEF Built
  <2>3. Write(h, Built(h)) /\ Counted(h, Built(h))
    BY <1>3 DEF CreateRecord
  <2>4. ZonesSet'
    BY <2>2, <2>3, WriteKeepsZones
  <2>5. keep' \subseteq Host /\ ready' \subseteq keep'
    BY <1>3, <2>3 DEF Counted, TypeOK
  <2>. QED BY <1>3, <2>2, <2>3, <2>4, <2>5, WriteEffect DEF RecordAt, CreateRecord, Counted, TypeOK, ZonesSet
<1>4. ASSUME NEW h \in Host, UpdateRecord(h) PROVE TypeInv'
  <2>. DEFINE s == SettingsFor(rec.config, h)
              r == IF cache[h].settings = s THEN record[h] ELSE [record[h] EXCEPT !.settings = s]
  <2>1. rec \in Tunnel /\ rec.config \in Config /\ h \in DesiredDnsRecords(rec.config)
    BY <1>4, TunnelFields DEF UpdateRecord
  <2>2. s \in Settings /\ s.zone # Nil
    BY <2>1, SettingsType
  <2>3. Write(h, r) /\ Counted(h, cache[h])
    BY <1>4 DEF UpdateRecord
  <2>4. record[h] \in DnsRecord \cup {Nil} /\ (cache[h].settings = s \/ record[h] # Nil)
    BY <1>4 DEF UpdateRecord, TypeOK
  <2>5. r \in DnsRecord \cup {Nil} /\ (r # Nil /\ r.owner # Foreign => r.settings.zone # Nil)
    BY <2>2, <2>4, RecordFields DEF TypeOK
  <2>. HIDE DEF r, s
  <2>6. ZonesSet'
    BY <2>3, <2>5, WriteKeepsZones
  <2>7. keep' \subseteq Host /\ ready' \subseteq keep' /\ pc = "apply"
    BY <1>4, <2>3 DEF UpdateRecord, Counted, TypeOK
  <2>. QED BY <2>1, <2>3, <2>5, <2>6, <2>7, WriteEffect DEF RecordAt, Counted, TypeOK, ZonesSet
<1>5. ASSUME NEW h \in Host, ApplyConflicts(h) PROVE TypeInv'
  BY <1>5 DEF ApplyConflicts, Return, clusterVars, TypeOK
<1>6. ASSUME NEW h \in Host, SkipRecord(h) PROVE TypeInv'
  BY <1>6 DEF SkipRecord, clusterVars, TypeOK
<1>7. ASSUME NEW h \in Host, DeleteRecord(h) PROVE TypeInv'
  <2>1. CASE record[h] = Nil
    BY <1>7, <2>1 DEF DeleteRecord, TypeOK
  <2>2. CASE record[h] # Nil
    <3>1. Touched(h, TRUE)
      BY <1>7, <2>2, MarkEffect DEF DeleteRecord
    <3>. QED BY <1>7, <3>1 DEF DeleteRecord, Touched, RecordAt, TypeOK, ZonesSet
  <2>. QED BY <2>1, <2>2
<1>8. CASE ApplyStatus
  <2>. DEFINE Field(f, new) == IF new # rec.status[f] THEN new ELSE tun.status[f]
              s == [desired |-> Field("desired", Cardinality(keep)), ready |-> Field("ready", Cardinality(ready))]
  <2>1. tun \in Tunnel /\ WriteTunnel([tun EXCEPT !.status = s])
    BY <1>8 DEF ApplyStatus, TypeOK
  <2>2. Cardinality(keep) \in 0..Cardinality(Host) /\ Cardinality(ready) \in 0..Cardinality(Host)
    BY CountType DEF TypeOK
  <2>3. s \in Counts
    BY <2>1, <2>2, TunnelFields DEF Counts
  <2>. HIDE DEF s
  <2>4. [tun EXCEPT !.status = s] \in Tunnel
    BY <2>1, <2>3, TunnelFields
  <2>. QED BY <1>8, <2>1, <2>4, WriteTunnelEffect DEF ApplyStatus, Return, TypeOK
<1>9. CASE ApplyStatusGone
  BY <1>9 DEF ApplyStatusGone, Return, clusterVars, TypeOK
<1>. QED BY <1>1, <1>2, <1>3, <1>4, <1>5, <1>6, <1>7, <1>8, <1>9 DEF ReconcileStep

LEMMA OthersType ==
  ASSUME TypeInv, \/ SyncTunnel \/ \E h \in Host : SyncRecord(h) \/ CollectRecord(h) \/ RecordReleased(h)
                  \/ CallFails \/ Restart \/ Environment
  PROVE  TypeInv'
<1>. USE DEF TypeInv, LocalsOK
<1>1. CASE SyncTunnel
  BY <1>1 DEF SyncTunnel, workerVars, TypeOK
<1>2. ASSUME NEW h \in Host, SyncRecord(h) PROVE TypeInv'
  BY <1>2 DEF SyncRecord, workerVars, TypeOK
<1>3. ASSUME NEW h \in Host, CollectRecord(h) PROVE TypeInv'
  <2>1. Touched(h, TRUE)
    BY <1>3, MarkEffect DEF CollectRecord, Orphaned
  <2>. QED BY <1>3, <2>1 DEF CollectRecord, workerVars, Touched, RecordAt, TypeOK, ZonesSet
<1>4. ASSUME NEW h \in Host, RecordReleased(h) PROVE TypeInv'
  BY <1>4, WriteEffect DEF RecordAt, RecordReleased, workerVars, TypeOK
<1>5. CASE CallFails
  BY <1>5, SpendType DEF CallFails, Return, clusterVars, TypeOK, Kinds
<1>6. CASE Restart
  BY <1>6, SpendType DEF Restart, Return, TypeOK, Kinds
<1>7. CASE TunnelGoes
  BY <1>7, SpendType, WriteTunnelEffect DEF TunnelGoes, workerVars, TypeOK, Kinds
<1>8. ASSUME NEW c \in ConfigsOf, UserCreates(c) PROVE TypeInv'
  <2>. DEFINE t == [uid |-> uids + 1, config |-> c, status |-> [desired |-> 0, ready |-> 0]]
  <2>1. uids + 1 \in Uid /\ c \in Config /\ 0 \in 0..Cardinality(Host)
    BY <1>8, FS_CardinalityType DEF UserCreates, TypeOK, Uid
  <2>2. t \in Tunnel
    BY <2>1 DEF Tunnel, Counts
  <2>3. WriteTunnel(t) /\ Spend("user") /\ uids' = uids + 1
    BY <1>8 DEF UserCreates
  <2>. HIDE DEF t
  <2>. QED BY <1>8, <2>1, <2>2, <2>3, SpendType, WriteTunnelEffect DEF UserCreates, workerVars, TypeOK, Kinds, Uid
<1>9. ASSUME NEW c \in ConfigsOf, UserEdits(c) PROVE TypeInv'
  <2>1. tun \in Tunnel /\ c \in Config /\ WriteTunnel([tun EXCEPT !.config = c])
    BY <1>9 DEF UserEdits, TypeOK
  <2>. QED BY <1>9, <2>1, TunnelFields, SpendType, WriteTunnelEffect DEF UserEdits, workerVars, TypeOK, Kinds
<1>10. ASSUME NEW h \in Host, ForeignRecord(h) PROVE TypeInv'
  <2>. DEFINE r == [owner |-> Foreign, deleting |-> FALSE, settings |-> [zone |-> Nil, proxied |-> TRUE], target |-> Nil]
  <2>1. r \in DnsRecord /\ r.owner = Foreign
    BY DEF DnsRecord, Settings
  <2>2. Write(h, r) /\ Spend("outside")
    BY <1>10 DEF ForeignRecord
  <2>. HIDE DEF r
  <2>. QED BY <1>10, <2>1, <2>2, SpendType, WriteEffect DEF RecordAt, ForeignRecord, workerVars, TypeOK, Kinds
<1>11. ASSUME NEW h \in Host, RecordChanges(h) PROVE TypeInv'
  <2>1. record[h] # Nil /\ Spend("record") /\ (tun # Nil => tun.uid \in Uid)
    BY <1>11, TunnelFields DEF RecordChanges, TypeOK
  <2>2. Touched(h, FALSE)
    BY <1>11, <2>1, TargetEffect DEF RecordChanges
  <2>. QED BY <1>11, <2>1, <2>2, SpendType DEF RecordChanges, workerVars, Touched, RecordAt, TypeOK, ZonesSet, Kinds
<1>12. ASSUME NEW z \in Zone, NEW a \in Answers, ZoneChanges(z, a) PROVE TypeInv'
  BY <1>12, SpendType DEF ZoneChanges, clusterVars, workerVars, TypeOK, Kinds
<1>. QED BY <1>1, <1>2, <1>3, <1>4, <1>5, <1>6, <1>7, <1>8, <1>9, <1>10, <1>11, <1>12 DEF Environment

LEMMA NextType == TypeInv /\ [Next]_vars => TypeInv'
<1>1. TypeInv /\ UNCHANGED vars => TypeInv'
  BY DEF TypeInv, TypeOK, LocalsOK, vars
<1>. QED BY <1>1, WorkerType, OthersType DEF Next

(***************************************************************************)
(* Every variable keeps its type, and a record that a tunnel owns always   *)
(* has a zone: reconcileDns applies only hostnames that resolve to one.    *)
(***************************************************************************)
THEOREM TypeCorrect == Spec => []TypeOK
<1>1. TypeInv => TypeOK
  BY DEF TypeInv
<1>. QED BY <1>1, InitType, NextType, PTL DEF Spec

-----------------------------------------------------------------------------
(* What the steps do, field by field *)

SpentGrows == \A k \in Kinds : spent'[k] = 0 => spent[k] = 0

Creates(h) ==
  /\ pc = "apply" /\ h \in todo /\ cache[h] = Nil /\ record[h] = Nil
  /\ RecordAt(h) /\ h \in news' /\ record'[h] # Nil
  /\ record'[h].owner = rec.uid /\ ~record'[h].deleting /\ record'[h].settings = SettingsFor(rec.config, h)
  /\ Counted(h, Built(h))

Updates(h) ==
  /\ pc = "apply" /\ h \in todo /\ IsOf(cache[h], rec)
  /\ RecordAt(h)
  /\ \/ record'[h] = record[h] /\ cache[h].settings = SettingsFor(rec.config, h)
     \/ /\ record[h] = cache[h] /\ record'[h] # Nil
        /\ record'[h].owner = record[h].owner /\ record'[h].deleting = record[h].deleting
        /\ record'[h].settings = SettingsFor(rec.config, h)
  /\ Counted(h, cache[h])

Deletes(h) ==
  /\ pc = "apply" /\ todo = {} /\ h \in owned \ keep
  /\ owned' = owned \ {h}
  /\ RecordAt(h)
  /\ \/ record[h] = Nil /\ record'[h] = Nil
     \/ /\ record[h] # Nil /\ record'[h] # Nil /\ record'[h].deleting
        /\ record'[h].owner = record[h].owner /\ record'[h].settings = record[h].settings
  /\ UNCHANGED <<tunCache, cache, uids, queued, zone, pc, rec, todo, keep, ready, spent>>

StatusWritten ==
  /\ pc = "apply" /\ todo = {} /\ owned \subseteq keep
  /\ tun \in Tunnel /\ tun' \in Tunnel /\ tun'.uid = tun.uid /\ tun'.config = tun.config
  /\ rec = tun => tun'.status = [desired |-> Cardinality(keep), ready |-> Cardinality(ready)]
  /\ news \subseteq news' /\ news' \subseteq news \cup {Nil}
  /\ Nil \in news' \/ tun' = tun
  /\ Return(queued)
  /\ UNCHANGED <<record, tunCache, cache, uids, zone, spent>>

\* The worker gives up and the tunnel is queued again.
GivesUp == Return(TRUE) /\ SpentGrows /\ UNCHANGED <<clusterVars, zone>>

\* A user or a fault, outside of the worker.
TunnelWritten ==
  /\ news \subseteq news' /\ news' \subseteq news \cup {Nil}
  /\ Nil \in news' \/ tun' = tun
  /\ SpentGrows
  /\ UNCHANGED <<record, tunCache, cache, queued, zone, workerVars>>

RecordWritten(h) ==
  /\ RecordAt(h) /\ SpentGrows
  /\ \/ /\ record[h] # Nil /\ record'[h] # Nil
        /\ record'[h].owner = record[h].owner /\ record'[h].settings = record[h].settings
        /\ record[h].deleting => record'[h].deleting
        /\ record'[h].deleting => record[h].deleting \/ tun = Nil \/ record[h].owner # tun.uid
     \/ record[h] # Nil /\ record[h].deleting /\ record'[h] = Nil
     \/ record[h] = Nil /\ record'[h] # Nil /\ record'[h].owner = Foreign /\ spent'["outside"] # 0
  /\ UNCHANGED <<tunCache, cache, queued, zone, workerVars>>

ZoneChanged == spent'["zone"] # 0 /\ SpentGrows /\ UNCHANGED <<clusterVars, queued, workerVars>>

Restarted ==
  /\ tunCache' = tun /\ cache' = record /\ news' = {}
  /\ Return(tun # Nil) /\ SpentGrows
  /\ UNCHANGED <<tun, record, zone>>

LEMMA SpendEffect == ASSUME TypeOK, NEW k \in Kinds, Spend(k) PROVE SpentGrows /\ spent'[k] # 0
BY SpendType DEF SpentGrows

LEMMA NothingSpent == spent' = spent => SpentGrows
BY DEF SpentGrows

\* Every step is one of these forms.
LEMMA WorkerForms ==
  ASSUME TypeInv, ReconcileStep
  PROVE  \/ StatusWritten \/ GivesUp
         \/ \E h \in Host : Creates(h) \/ Updates(h) \/ SkipRecord(h) \/ Deletes(h)
<1>1. CASE ApplyStatus
  <2>. DEFINE Field(f, new) == IF new # rec.status[f] THEN new ELSE tun.status[f]
              s == [desired |-> Field("desired", Cardinality(keep)), ready |-> Field("ready", Cardinality(ready))]
              t == [tun EXCEPT !.status = s]
  <2>1. tun \in Tunnel /\ WriteTunnel(t)
    BY <1>1 DEF ApplyStatus, TypeInv, TypeOK
  <2>2. Cardinality(keep) \in 0..Cardinality(Host) /\ Cardinality(ready) \in 0..Cardinality(Host)
    BY CountType DEF TypeInv, TypeOK
  <2>3. s \in Counts
    BY <2>1, <2>2, TunnelFields DEF Counts
  <2>4. rec = tun => s = [desired |-> Cardinality(keep), ready |-> Cardinality(ready)]
    BY <2>1, TunnelFields DEF Counts
  <2>. HIDE DEF s
  <2>5. t \in Tunnel /\ t.uid = tun.uid /\ t.config = tun.config /\ t.status = s
    BY <2>1, <2>3, TunnelFields DEF Tunnel
  <2>. HIDE DEF t
  <2>. QED BY <1>1, <2>1, <2>4, <2>5, WriteTunnelEffect DEF ApplyStatus, StatusWritten, TypeInv
<1>2. CASE ApplyStatusGone
  BY <1>2, NothingSpent DEF ApplyStatusGone, GivesUp
<1>3. ASSUME NEW h \in Host, CreateRecord(h) PROVE Creates(h)
  <2>1. rec \in Tunnel /\ h \in DesiredDnsRecords(rec.config)
    BY <1>3 DEF CreateRecord, TypeInv, LocalsOK
  <2>2. /\ Built(h) \in DnsRecord /\ Built(h).owner = rec.uid /\ Built(h).deleting = FALSE
        /\ Built(h).settings = SettingsFor(rec.config, h)
    BY <2>1, BuiltType DEF Built
  <2>3. Write(h, Built(h))
    BY <1>3 DEF CreateRecord
  <2>. QED BY <1>3, <2>2, <2>3, WriteEffect, RecordFields DEF CreateRecord, Creates, TypeInv, RecordAt
<1>4. ASSUME NEW h \in Host, UpdateRecord(h) PROVE Updates(h)
  <2>. DEFINE s == SettingsFor(rec.config, h)
              r == [record[h] EXCEPT !.settings = s]
  <2>1. s \in Settings /\ IsOf(cache[h], rec) /\ pc = "apply" /\ h \in todo /\ Counted(h, cache[h])
    BY <1>4, SettingsType, TunnelFields DEF UpdateRecord, TypeInv, LocalsOK, IsOf
  <2>2. CASE cache[h].settings = s
    <3>1. Write(h, record[h]) /\ record[h] \in DnsRecord \cup {Nil}
      BY <1>4, <2>2 DEF UpdateRecord, TypeInv, TypeOK
    <3>. QED BY <2>1, <2>2, <3>1, WriteEffect DEF Updates, TypeInv
  <2>3. CASE cache[h].settings # s
    <3>1. Write(h, r) /\ record[h] = cache[h] /\ record[h] \in DnsRecord
      BY <1>4, <2>3 DEF UpdateRecord, TypeInv, TypeOK
    <3>2. r \in DnsRecord /\ r # Nil /\ r.owner = record[h].owner /\ r.deleting = record[h].deleting /\ r.settings = s
      BY <2>1, <3>1, RecordFields
    <3>. HIDE DEF r
    <3>. QED BY <2>1, <3>1, <3>2, WriteEffect DEF Updates, TypeInv
  <2>. QED BY <2>2, <2>3
<1>5. ASSUME NEW h \in Host, ApplyConflicts(h) PROVE GivesUp
  BY <1>5, NothingSpent DEF ApplyConflicts, GivesUp
<1>6. ASSUME NEW h \in Host, DeleteRecord(h) PROVE Deletes(h)
  <2>1. CASE record[h] = Nil
    BY <1>6, <2>1 DEF DeleteRecord, Deletes, RecordAt, TypeInv, TypeOK
  <2>2. CASE record[h] # Nil
    <3>1. Touched(h, TRUE)
      BY <1>6, <2>2, MarkEffect DEF DeleteRecord, TypeInv
    <3>. QED BY <1>6, <2>2, <3>1, RecordFields DEF DeleteRecord, Deletes, Touched
  <2>. QED BY <2>1, <2>2
<1>. QED BY <1>1, <1>2, <1>3, <1>4, <1>5, <1>6 DEF ReconcileStep

LEMMA OtherForms ==
  ASSUME TypeInv, (\E h \in Host : CollectRecord(h) \/ RecordReleased(h)) \/ CallFails \/ Restart \/ Environment
  PROVE  GivesUp \/ TunnelWritten \/ ZoneChanged \/ Restarted \/ \E h \in Host : RecordWritten(h)
<1>. USE DEF TypeInv, Kinds
<1>1. ASSUME NEW h \in Host, CollectRecord(h) PROVE RecordWritten(h)
  <2>1. Touched(h, TRUE) /\ record[h] # Nil /\ (tun = Nil \/ record[h].owner # tun.uid)
    BY <1>1, MarkEffect DEF CollectRecord, Orphaned
  <2>. QED BY <1>1, <2>1, NothingSpent, RecordFields DEF CollectRecord, Touched, RecordWritten
<1>2. ASSUME NEW h \in Host, RecordReleased(h) PROVE RecordWritten(h)
  BY <1>2, NothingSpent, WriteEffect DEF RecordReleased, RecordWritten
<1>3. CASE CallFails
  BY <1>3, SpendEffect DEF CallFails, GivesUp
<1>4. CASE Restart
  BY <1>4, SpendEffect DEF Restart, Restarted
<1>5. CASE TunnelGoes
  BY <1>5, SpendEffect, WriteTunnelEffect DEF TunnelGoes, TunnelWritten
<1>6. ASSUME NEW c \in ConfigsOf, UserCreates(c) PROVE TunnelWritten
  <2>. DEFINE t == [uid |-> uids + 1, config |-> c, status |-> [desired |-> 0, ready |-> 0]]
  <2>1. WriteTunnel(t) /\ Spend("user")
    BY <1>6 DEF UserCreates
  <2>. QED BY <1>6, <2>1, SpendEffect DEF UserCreates, TunnelWritten, WriteTunnel
<1>7. ASSUME NEW c \in ConfigsOf, UserEdits(c) PROVE TunnelWritten
  BY <1>7, SpendEffect DEF UserEdits, TunnelWritten, WriteTunnel
<1>8. ASSUME NEW h \in Host, ForeignRecord(h) PROVE RecordWritten(h)
  <2>. DEFINE r == [owner |-> Foreign, deleting |-> FALSE, settings |-> [zone |-> Nil, proxied |-> TRUE], target |-> Nil]
  <2>1. r \in DnsRecord /\ r.owner = Foreign
    BY DEF DnsRecord, Settings
  <2>2. Write(h, r) /\ Spend("outside")
    BY <1>8 DEF ForeignRecord
  <2>. HIDE DEF r
  <2>. QED BY <1>8, <2>1, <2>2, SpendEffect, WriteEffect DEF ForeignRecord, RecordWritten
<1>9. ASSUME NEW h \in Host, RecordChanges(h) PROVE RecordWritten(h)
  <2>1. record[h] # Nil /\ Spend("record") /\ (tun # Nil => tun.uid \in Uid)
    BY <1>9, TunnelFields DEF RecordChanges, TypeOK
  <2>2. Touched(h, FALSE)
    BY <1>9, <2>1, TargetEffect DEF RecordChanges
  <2>. QED BY <1>9, <2>1, <2>2, SpendEffect DEF RecordChanges, Touched, RecordWritten
<1>10. ASSUME NEW z \in Zone, NEW a \in Answers, ZoneChanges(z, a) PROVE ZoneChanged
  BY <1>10, SpendEffect DEF ZoneChanges, ZoneChanged
<1>. QED BY <1>1, <1>2, <1>3, <1>4, <1>5, <1>6, <1>7, <1>8, <1>9, <1>10 DEF Environment

\* What one step does, in these terms.
StepForm ==
  \/ ReconcileGone \/ ReconcileDns \/ StatusWritten \/ GivesUp
  \/ SyncTunnel \/ TunnelWritten \/ ZoneChanged \/ Restarted
  \/ \E h \in Host : Creates(h) \/ Updates(h) \/ SkipRecord(h) \/ Deletes(h) \/ SyncRecord(h) \/ RecordWritten(h)

LEMMA Forms == ASSUME TypeInv, Next PROVE StepForm
BY WorkerForms, OtherForms DEF Next, StepForm

-----------------------------------------------------------------------------
(* Caches, budgets and the records passed over *)

LEMMA CacheStep == ASSUME TypeInv, CacheInv, StepForm PROVE CacheInv'
<1>. USE DEF CacheInv, TypeInv, TypeOK
<1>1. CASE ReconcileGone \/ ReconcileDns \/ GivesUp \/ ZoneChanged \/ \E h \in Host : SkipRecord(h)
  BY <1>1 DEF ReconcileGone, ReconcileDns, GivesUp, ZoneChanged, SkipRecord, clusterVars
<1>2. CASE StatusWritten \/ TunnelWritten
  BY <1>2 DEF StatusWritten, TunnelWritten
<1>3. CASE SyncTunnel
  BY <1>3 DEF SyncTunnel
<1>4. CASE Restarted
  BY <1>4 DEF Restarted
<1>5. ASSUME NEW h \in Host, SyncRecord(h) PROVE CacheInv'
  BY <1>5 DEF SyncRecord
<1>6. ASSUME NEW h \in Host, RecordAt(h), UNCHANGED <<cache, tunCache>> PROVE CacheInv'
  BY <1>6 DEF RecordAt
<1>. QED BY <1>1, <1>2, <1>3, <1>4, <1>5, <1>6 DEF StepForm, Creates, Updates, Deletes, RecordWritten, Counted

LEMMA FreshStep == ASSUME TypeInv, FreshInv, StepForm PROVE FreshInv'
<1>. USE DEF FreshInv, TypeInv, TypeOK, IsOf
<1>1. CASE ReconcileGone \/ ZoneChanged \/ TunnelWritten \/ \E h \in Host : SkipRecord(h) \/ RecordWritten(h)
  BY <1>1 DEF ReconcileGone, ZoneChanged, TunnelWritten, SkipRecord, RecordWritten, clusterVars, workerVars
<1>2. CASE ReconcileDns
  BY <1>2 DEF ReconcileDns, OwnedDnsRecords, clusterVars
<1>3. CASE StatusWritten \/ GivesUp \/ Restarted
  BY <1>3 DEF StatusWritten, GivesUp, Restarted, Return
<1>4. CASE SyncTunnel
  BY <1>4 DEF SyncTunnel, workerVars
<1>5. CASE \E h \in Host : Creates(h) \/ Updates(h) \/ Deletes(h)
  BY <1>5 DEF Creates, Updates, Deletes, Counted
<1>6. ASSUME NEW h \in Host, SyncRecord(h) PROVE FreshInv'
  <2>1. CASE pc = "apply" /\ h \in owned /\ ~queued'
    <3>1. cache[h] # Nil /\ cache[h].owner = rec.uid /\ rec \in Tunnel
      BY <1>6, <2>1 DEF SyncRecord, LocalsOK
    <3>. QED BY <1>6, <2>1, <3>1, TunnelFields DEF SyncRecord
  <2>2. CASE ~(pc = "apply" /\ h \in owned /\ ~queued')
    BY <1>6, <2>2 DEF SyncRecord, workerVars
  <2>. QED BY <2>1, <2>2
<1>. QED BY <1>1, <1>2, <1>3, <1>4, <1>5, <1>6 DEF StepForm

LEMMA SpentStep == ASSUME TypeInv, SpentInv, StepForm PROVE SpentInv'
<1>. USE DEF SpentInv, TypeInv, TypeOK, SpentGrows, Kinds
<1>1. CASE ReconcileGone \/ ReconcileDns \/ ZoneChanged \/ TunnelWritten \/ \E h \in Host : SkipRecord(h)
  BY <1>1 DEF ReconcileGone, ReconcileDns, ZoneChanged, TunnelWritten, SkipRecord, clusterVars
<1>2. CASE StatusWritten \/ GivesUp \/ Restarted \/ SyncTunnel
  BY <1>2 DEF StatusWritten, GivesUp, Restarted, SyncTunnel, clusterVars
<1>3. ASSUME NEW h \in Host, SyncRecord(h) PROVE SpentInv'
  BY <1>3 DEF SyncRecord
<1>4. ASSUME NEW h \in Host, Creates(h) \/ Updates(h) \/ Deletes(h) PROVE SpentInv'
  <2>1. rec \in Tunnel /\ rec.uid # Foreign
    BY <1>4, TunnelFields DEF Creates, Updates, Deletes, LocalsOK
  <2>2. UNCHANGED <<spent, zone, cache>> /\ RecordAt(h)
    BY <1>4 DEF Creates, Updates, Deletes, Counted
  <2>3. record'[h] = Nil \/ record'[h].owner = rec.uid \/ (record[h] # Nil /\ record'[h].owner = record[h].owner)
    <3>1. CASE Creates(h)
      BY <3>1 DEF Creates
    <3>2. CASE Updates(h)
      BY <3>2 DEF Updates, IsOf
    <3>3. CASE Deletes(h)
      BY <3>3 DEF Deletes
    <3>. QED BY <1>4, <3>1, <3>2, <3>3
  <2>. QED BY <2>1, <2>2, <2>3 DEF RecordAt
<1>5. ASSUME NEW h \in Host, RecordWritten(h) PROVE SpentInv'
  BY <1>5 DEF RecordWritten, RecordAt
<1>. QED BY <1>1, <1>2, <1>3, <1>4, <1>5 DEF StepForm

LEMMA PassedOverStep == ASSUME TypeInv, PassedOver, StepForm PROVE PassedOver'
<1>. USE DEF PassedOver, TypeInv, TypeOK, IsOf
<1>1. CASE ReconcileGone \/ ZoneChanged \/ TunnelWritten \/ SyncTunnel
  BY <1>1 DEF ReconcileGone, ZoneChanged, TunnelWritten, SyncTunnel, clusterVars, workerVars
<1>2. CASE ReconcileDns
  <2>1. tunCache \in Tunnel /\ tunCache.config \in Config
    BY <1>2, TunnelFields DEF ReconcileDns
  <2>2. ASSUME NEW h \in owned', Wants(tunCache.config, h) PROVE h \in todo' /\ IsOf(cache[h], tunCache)
    BY <1>2, <2>1, <2>2, AppliedOrKept DEF ReconcileDns, OwnedDnsRecords
  <2>. QED BY <1>2, <2>2 DEF ReconcileDns, clusterVars, Wants
<1>3. CASE StatusWritten \/ GivesUp \/ Restarted
  BY <1>3 DEF StatusWritten, GivesUp, Restarted, Return
<1>4. ASSUME NEW h \in Host, Creates(h) \/ Updates(h) PROVE PassedOver'
  BY <1>4 DEF Creates, Updates, Counted, RecordAt
<1>5. ASSUME NEW h \in Host, SkipRecord(h) PROVE PassedOver'
  BY <1>5 DEF SkipRecord, clusterVars
<1>6. ASSUME NEW h \in Host, Deletes(h) PROVE PassedOver'
  BY <1>6 DEF Deletes, RecordAt
<1>7. ASSUME NEW h \in Host, SyncRecord(h) PROVE PassedOver'
  BY <1>7 DEF SyncRecord, workerVars
<1>8. ASSUME NEW h \in Host, RecordWritten(h) PROVE PassedOver'
  <2>1. ASSUME pc = "apply", record'[h] # Nil, record'[h].owner = rec.uid
        PROVE  record[h] # Nil /\ record[h].owner = rec.uid
    BY <1>8, <2>1, TunnelFields DEF RecordWritten, LocalsOK
  <2>. QED BY <1>8, <2>1 DEF RecordWritten, RecordAt, workerVars
<1>. QED BY <1>1, <1>2, <1>3, <1>4, <1>5, <1>6, <1>7, <1>8 DEF StepForm

-----------------------------------------------------------------------------
(* What is settled while no event is due *)

BaseInv == TypeInv /\ CacheInv /\ FreshInv /\ SpentInv

\* Only the start of a reconcile makes the tunnel stable; other steps find it so.
LEMMA StableStep ==
  ASSUME BaseInv, StepForm, Stable'
  PROVE  \/ /\ ReconcileDns /\ tunCache = tun /\ tun \in Tunnel /\ UNCHANGED <<tun, news, record, cache>>
            /\ \A z \in Zone : zone[z] = "found"
         \/ /\ Stable /\ tun' = tun /\ tun \in Tunnel
            /\ \/ StatusWritten \/ TunnelWritten
               \/ \E h \in Host : Creates(h) \/ Updates(h) \/ SkipRecord(h) \/ Deletes(h) \/ SyncRecord(h) \/ RecordWritten(h)
<1>. USE DEF Stable, BaseInv, TypeInv, TypeOK, Kinds
<1>1. CASE ReconcileGone
  BY <1>1 DEF ReconcileGone, clusterVars, CacheInv
<1>2. CASE ReconcileDns
  BY <1>2 DEF ReconcileDns, clusterVars, CacheInv, SpentInv
<1>3. CASE GivesUp \/ SyncTunnel \/ ZoneChanged \/ Restarted
  BY <1>3 DEF GivesUp, SyncTunnel, ZoneChanged, Restarted, Return
<1>4. CASE StatusWritten \/ TunnelWritten
  BY <1>4 DEF StatusWritten, TunnelWritten, Return, SpentGrows
<1>5. ASSUME NEW h \in Host, SyncRecord(h) PROVE Stable /\ tun' = tun
  BY <1>5 DEF SyncRecord
<1>6. ASSUME NEW h \in Host, SkipRecord(h) PROVE Stable /\ tun' = tun
  BY <1>6 DEF SkipRecord, clusterVars
<1>7. ASSUME NEW h \in Host, Creates(h) \/ Updates(h) \/ Deletes(h) \/ RecordWritten(h) PROVE Stable /\ tun' = tun
  BY <1>7 DEF Creates, Updates, Deletes, RecordWritten, RecordAt, Counted, SpentGrows
<1>. QED BY <1>1, <1>2, <1>3, <1>4, <1>5, <1>6, <1>7 DEF StepForm

LEMMA WorkStep == ASSUME BaseInv, WorkInv, StepForm PROVE WorkInv'
<1>. SUFFICES ASSUME Stable' PROVE \A h \in todo' \cup keep' : Wants(tun'.config, h)
  BY DEF WorkInv, Wants
<1>. USE DEF WorkInv
<1>1. CASE ReconcileDns /\ tunCache = tun /\ tun \in Tunnel /\ UNCHANGED tun /\ \A z \in Zone : zone[z] = "found"
  <2>1. todo' = Applied(tun.config) /\ keep' = {} /\ tun.config \in Config
    BY <1>1, TunnelFields DEF ReconcileDns, BaseInv, TypeInv, LocalsOK
  <2>2. \A h \in Host : Wants(tun.config, h) <=> h \in Applied(tun.config)
    BY <1>1, <2>1, AppliedOrKept DEF BaseInv, TypeInv
  <2>3. Applied(tun.config) \subseteq Host
    BY DEF Applied, DesiredDnsRecords
  <2>. QED BY <1>1, <2>1, <2>2, <2>3
<1>2. CASE Stable /\ tun' = tun /\ (StatusWritten \/ TunnelWritten)
  BY <1>2 DEF StatusWritten, TunnelWritten, Return, workerVars
<1>3. ASSUME Stable, tun' = tun, NEW h \in Host,
             Creates(h) \/ Updates(h) \/ SkipRecord(h) \/ Deletes(h) \/ SyncRecord(h) \/ RecordWritten(h)
      PROVE  \A g \in todo' \cup keep' : Wants(tun'.config, g)
  <2>1. todo' \cup keep' \subseteq todo \cup keep
    BY <1>3 DEF Creates, Updates, SkipRecord, Deletes, SyncRecord, RecordWritten, Counted, workerVars
  <2>. QED BY <1>3, <2>1
<1>. QED BY <1>1, <1>2, <1>3, StableStep

LEMMA WantedStep == ASSUME BaseInv, WantedInv, StepForm PROVE WantedInv'
<1>. SUFFICES ASSUME Stable', spent'["outside"] = 0, NEW g \in Host \ todo', Wants(tun'.config, g)
              PROVE  Served(g)'
  BY DEF WantedInv, Wants
<1>. USE DEF Served, Has
<1>1. CASE ReconcileDns /\ tunCache = tun /\ tun \in Tunnel /\ UNCHANGED tun /\ \A z \in Zone : zone[z] = "found"
  <2>1. todo' = Applied(tun.config) /\ tun.config \in Config
    BY <1>1, TunnelFields DEF ReconcileDns
  <2>. QED BY <1>1, <2>1, AppliedOrKept DEF BaseInv, TypeInv, TypeOK
<1>2. ASSUME Stable, tun' = tun, StatusWritten \/ TunnelWritten PROVE Served(g)'
  <2>1. spent["outside"] = 0 /\ todo' = todo /\ UNCHANGED <<record, cache, news>>
    BY <1>2 DEF StatusWritten, TunnelWritten, Return, workerVars, SpentGrows, Kinds, Stable
  <2>. QED BY <1>2, <2>1 DEF WantedInv
<1>3. ASSUME Stable, tun' = tun, NEW h \in Host,
             Creates(h) \/ Updates(h) \/ SkipRecord(h) \/ Deletes(h) \/ SyncRecord(h) \/ RecordWritten(h)
      PROVE  Served(g)'
  <2>1. spent["outside"] = 0
    BY <1>3 DEF Creates, Updates, SkipRecord, Deletes, SyncRecord, RecordWritten, Counted, SpentGrows, Kinds
  <2>2. CASE g # h
    <3>1. g \notin todo /\ record'[g] = record[g] /\ cache'[g] = cache[g] /\ (g \in news' <=> g \in news)
      BY <1>3, <2>2 DEF Creates, Updates, SkipRecord, Deletes, SyncRecord, RecordWritten, RecordAt, Counted,
                        workerVars, clusterVars, BaseInv, TypeInv, TypeOK
    <3>. QED BY <1>3, <2>1, <3>1 DEF WantedInv
  <2>3. CASE g = h /\ (Creates(h) \/ Updates(h) \/ SkipRecord(h) \/ Deletes(h))
    <3>1. pc = "apply" /\ rec = tun
      BY <1>3, <2>3 DEF Creates, Updates, SkipRecord, Deletes, BaseInv, FreshInv, CacheInv, Stable
    <3>2. h \notin news => cache[h] = record[h]
      BY DEF BaseInv, CacheInv
    <3>3. CASE Creates(h)
      BY <1>3, <2>3, <3>1, <3>3 DEF Creates, Counted
    <3>4. CASE Updates(h)
      BY <1>3, <2>3, <3>1, <3>2, <3>4 DEF Updates, Counted, IsOf, RecordAt
    <3>5. CASE SkipRecord(h)
      BY <1>3, <2>3, <3>1, <3>2, <3>5 DEF SkipRecord, clusterVars
    <3>6. CASE Deletes(h)
      <4>1. cache[h] # Nil
        BY <1>3, <3>1, <3>6 DEF Deletes, BaseInv, FreshInv, IsOf, Stable
      <4>. QED BY <1>3, <2>3, <3>6, <4>1 DEF Deletes
    <3>. QED BY <2>3, <3>3, <3>4, <3>5, <3>6
  <2>4. CASE g = h /\ SyncRecord(h)
    <3>1. record[h] = Nil /\ cache[h] = Nil
      BY <1>3, <2>1, <2>4 DEF SyncRecord, BaseInv, SpentInv, Stable
    <3>2. g \notin todo
      BY <2>4 DEF SyncRecord, workerVars
    <3>. QED BY <1>3, <2>1, <2>4, <3>1, <3>2 DEF WantedInv
  <2>5. CASE g = h /\ RecordWritten(h)
    <3>1. g \notin todo /\ cache' = cache
      BY <2>5 DEF RecordWritten, workerVars
    <3>2. Served(g)
      BY <1>3, <2>1, <3>1 DEF WantedInv
    <3>. QED BY <1>3, <2>5, <3>1, <3>2 DEF RecordWritten, RecordAt, Stable
  <2>. QED BY <1>3, <2>2, <2>3, <2>4, <2>5
<1>. QED BY <1>1, <1>2, <1>3, StableStep

LEMMA UnwantedStep == ASSUME BaseInv, WorkInv, UnwantedInv, StepForm PROVE UnwantedInv'
<1>. SUFFICES ASSUME Stable', NEW g \in Host \ (owned' \cup news'), ~Wants(tun'.config, g), IsOf(record'[g], tun')
              PROVE  record'[g].deleting
  BY DEF UnwantedInv, Wants, IsOf
<1>. USE DEF IsOf
<1>1. CASE /\ ReconcileDns /\ tunCache = tun /\ tun \in Tunnel /\ UNCHANGED <<tun, news, record, cache>>
           /\ \A z \in Zone : zone[z] = "found"
  <2>1. Kept(tun.config) = {}
    BY <1>1, TunnelFields, AppliedOrKept DEF BaseInv, TypeInv
  <2>2. cache[g] = record[g]
    BY <1>1 DEF BaseInv, CacheInv
  <2>. QED BY <1>1, <2>1, <2>2 DEF ReconcileDns, OwnedDnsRecords
<1>2. ASSUME Stable, tun' = tun, StatusWritten PROVE record'[g].deleting
  <2>1. g \notin owned
    BY <1>2 DEF StatusWritten, WorkInv
  <2>. QED BY <1>2, <2>1 DEF UnwantedInv, StatusWritten
<1>3. ASSUME Stable, tun' = tun, TunnelWritten PROVE record'[g].deleting
  BY <1>3 DEF UnwantedInv, TunnelWritten, workerVars
<1>4. ASSUME Stable, tun' = tun, NEW h \in Host,
             Creates(h) \/ Updates(h) \/ SkipRecord(h) \/ Deletes(h) \/ SyncRecord(h) \/ RecordWritten(h)
      PROVE  record'[g].deleting
  <2>1. CASE record'[g] = record[g] /\ g \notin owned /\ g \notin news
    BY <1>4, <2>1 DEF UnwantedInv
  <2>2. CASE g # h
    BY <1>4, <2>1, <2>2 DEF Creates, Updates, SkipRecord, Deletes, SyncRecord, RecordWritten, RecordAt, Counted,
                            workerVars, clusterVars
  <2>3. CASE g = h /\ Creates(h)
    BY <2>3 DEF Creates
  <2>4. CASE g = h /\ Updates(h)
    BY <1>4, <2>4 DEF Updates, WorkInv
  <2>5. CASE g = h /\ SkipRecord(h)
    BY <2>1, <2>5 DEF SkipRecord, clusterVars
  <2>6. CASE g = h /\ Deletes(h)
    BY <2>6 DEF Deletes
  <2>7. CASE g = h /\ SyncRecord(h)
    BY <1>4, <2>7, TunnelFields DEF SyncRecord, BaseInv, TypeInv, TypeOK, Stable
  <2>8. CASE g = h /\ RecordWritten(h)
    BY <2>1, <2>8 DEF RecordWritten, RecordAt, workerVars
  <2>. QED BY <1>4, <2>2, <2>3, <2>4, <2>5, <2>6, <2>7, <2>8
<1>. QED BY <1>1, <1>2, <1>3, <1>4, StableStep

LEMMA CountStep == ASSUME BaseInv, WorkInv, CountInv, StepForm PROVE CountInv'
<1>. SUFFICES ASSUME Stable' PROVE (\E h \in Host : Due(h)') \/ Tally'
  BY DEF CountInv
<1>1. CASE /\ ReconcileDns /\ tunCache = tun /\ tun \in Tunnel /\ UNCHANGED <<tun, news, record, cache>>
           /\ \A z \in Zone : zone[z] = "found"
  <2>1. Kept(tun.config) = {}
    BY <1>1, TunnelFields, AppliedOrKept DEF BaseInv, TypeInv
  <2>2. owned' = Mine'
    BY <1>1, <2>1 DEF ReconcileDns, OwnedDnsRecords, Mine, IsOf
  <2>3. pc' = "apply" /\ keep' = {} /\ ready' = {}
    BY <1>1 DEF ReconcileDns, Goto, BaseInv, TypeInv, LocalsOK
  <2>. QED BY <2>2, <2>3 DEF Tally
<1>2. ASSUME Stable, tun' = tun, tun \in Tunnel, StatusWritten PROVE (\E h \in Host : Due(h)') \/ Tally'
  <2>1. news' = news /\ record' = record /\ cache' = cache /\ pc' = "idle" /\ pc = "apply"
    BY <1>2 DEF StatusWritten, Return, Stable
  <2>2. ASSUME NEW h \in Host, Due(h) PROVE Due(h)'
    BY <1>2, <2>1, <2>2 DEF Due, IsOf
  <2>3. CASE Tally
    <3>1. Mine' = Mine /\ {h \in Mine' : cache'[h].target = tun'.uid} = {h \in Mine : cache[h].target = tun.uid}
      BY <1>2, <2>1 DEF Mine, IsOf
    <3>2. keep = Mine /\ ready = {h \in Mine : cache[h].target = tun.uid}
      BY <1>2, <2>1, <2>3 DEF Tally, StatusWritten
    <3>3. rec = tun
      BY <1>2, <2>1 DEF BaseInv, FreshInv, CacheInv, Stable
    <3>4. tun'.status = [desired |-> Cardinality(keep), ready |-> Cardinality(ready)]
      BY <1>2, <3>3 DEF StatusWritten
    <3>. QED BY <2>1, <3>1, <3>2, <3>4 DEF Tally
  <2>. QED BY <1>2, <2>2, <2>3 DEF CountInv
<1>3. ASSUME Stable, tun' = tun, TunnelWritten PROVE (\E h \in Host : Due(h)') \/ Tally'
  BY <1>3 DEF TunnelWritten, workerVars, CountInv, Stable, Due, Tally, Mine, IsOf
<1>4. ASSUME Stable, tun' = tun, tun \in Tunnel, NEW h \in Host,
             Creates(h) \/ Updates(h) \/ SkipRecord(h) \/ Deletes(h) \/ SyncRecord(h) \/ RecordWritten(h)
      PROVE  (\E g \in Host : Due(g)') \/ Tally'
  <2>1. ASSUME NEW g \in Host \ {h}, Due(g) PROVE Due(g)'
    BY <1>4, <2>1 DEF Creates, Updates, SkipRecord, Deletes, SyncRecord, RecordWritten, RecordAt, Counted,
                      workerVars, clusterVars, BaseInv, TypeInv, TypeOK, Due, IsOf
  <2>2. h \notin news => cache[h] = record[h]
    BY DEF BaseInv, CacheInv
  <2>3. pc = "apply" => rec = tun /\ \A g \in owned : IsOf(cache[g], tun)
    BY <1>4 DEF BaseInv, FreshInv, CacheInv, Stable
  <2>4. tun.uid # Foreign
    BY <1>4, TunnelFields
  <2>5. CASE Creates(h)
    <3>1. Due(h)'
      BY <1>4, <2>3, <2>5 DEF Creates, Due, IsOf
    <3>. QED BY <3>1
  <2>6. CASE Updates(h)
    <3>1. IsOf(cache[h], tun) /\ cache' = cache /\ pc = "apply" /\ pc' = pc
      BY <2>3, <2>6 DEF Updates, Counted
    <3>2. CASE h \in news'
      BY <2>4, <3>1, <3>2 DEF Due, IsOf
    <3>3. CASE h \notin news'
      <4>1. news' = news /\ record' = record
        <5>1. news' = news /\ \A g \in Host : record'[g] = record[g]
          BY <2>6, <3>3 DEF Updates, RecordAt
        <5>2. record \in [Host -> DnsRecord \cup {Nil}] /\ record' \in [Host -> DnsRecord \cup {Nil}]
          BY <2>6 DEF Updates, RecordAt, BaseInv, TypeInv, TypeOK
        <5>. QED BY <5>1, <5>2
      <4>2. ASSUME NEW g \in Host, Due(g) PROVE Due(g)'
        BY <1>4, <3>1, <4>1, <4>2 DEF Due, IsOf
      <4>3. ASSUME Tally PROVE Tally'
        <5>1. Mine' = Mine
          BY <1>4, <3>1 DEF Mine, IsOf
        <5>2. keep' = keep \cup {h} /\ todo' = todo \ {h} /\ owned' = owned /\ h \in todo
          BY <2>6 DEF Updates, Counted
        <5>3. h \in Mine
          BY <3>1 DEF Mine
        <5>4. ready' = {g \in keep' : cache[g].target = tun.uid}
          BY <2>3, <2>6, <3>1, <4>3, <5>2 DEF Updates, Counted, DnsRecordReady, Tally
        <5>. QED BY <1>4, <3>1, <4>3, <5>1, <5>2, <5>3, <5>4 DEF Tally
      <4>. QED BY <1>4, <4>2, <4>3 DEF CountInv
    <3>. QED BY <3>2, <3>3
  <2>7. CASE SkipRecord(h)
    <3>1. UNCHANGED <<news, record, cache>> /\ pc = "apply" /\ pc' = pc
      BY <2>7 DEF SkipRecord, clusterVars
    <3>2. ASSUME NEW g \in Host, Due(g) PROVE Due(g)'
      BY <1>4, <3>1, <3>2 DEF Due, IsOf
    <3>3. ASSUME Tally PROVE Tally'
      <4>1. Mine' = Mine /\ h \notin Mine
        BY <1>4, <2>3, <2>7, <3>1 DEF Mine, IsOf, SkipRecord
      <4>. QED BY <1>4, <2>7, <3>1, <3>3, <4>1 DEF Tally, SkipRecord
    <3>. QED BY <1>4, <3>2, <3>3 DEF CountInv
  <2>8. CASE Deletes(h)
    <3>1. IsOf(cache[h], tun) /\ cache' = cache
      BY <2>3, <2>8 DEF Deletes
    <3>2. Due(h)'
      BY <1>4, <2>2, <2>4, <2>8, <3>1 DEF Deletes, RecordAt, Due, IsOf
    <3>. QED BY <3>2
  <2>9. CASE SyncRecord(h)
    <3>1. \A r \in {record[h], cache[h]} : r = Nil \/ r.owner = Foreign
      BY <1>4, <2>9 DEF SyncRecord, Stable
    <3>2. ~Due(h) /\ ~IsOf(cache[h], tun) /\ ~IsOf(cache'[h], tun)
      BY <2>4, <2>9, <3>1 DEF Due, IsOf, SyncRecord, BaseInv, TypeInv, TypeOK
    <3>3. \A g \in Host \ {h} : cache'[g] = cache[g]
      BY <2>9 DEF SyncRecord, BaseInv, TypeInv, TypeOK
    <3>4. ASSUME Tally PROVE Tally'
      <4>1. Mine' = Mine
        BY <1>4, <3>2, <3>3 DEF Mine
      <4>2. \A g \in Mine : cache'[g] = cache[g]
        BY <3>2, <3>3 DEF Mine
      <4>3. {g \in Mine' : cache'[g].target = tun'.uid} = {g \in Mine : cache[g].target = tun.uid}
        BY <1>4, <4>1, <4>2
      <4>4. UNCHANGED workerVars
        BY <2>9 DEF SyncRecord
      <4>. QED BY <1>4, <3>4, <4>1, <4>2, <4>3, <4>4 DEF Tally, workerVars
    <3>. QED BY <1>4, <2>1, <3>2, <3>4 DEF CountInv
  <2>10. CASE RecordWritten(h)
    <3>1. ASSUME Due(h) PROVE Due(h)'
      BY <1>4, <2>10, <3>1 DEF RecordWritten, RecordAt, Due, IsOf, Stable
    <3>2. ASSUME Tally PROVE Tally'
      BY <1>4, <2>10, <3>2 DEF RecordWritten, workerVars, Tally, Mine, IsOf
    <3>. QED BY <1>4, <2>1, <3>1, <3>2 DEF CountInv
  <2>. QED BY <1>4, <2>5, <2>6, <2>7, <2>8, <2>9, <2>10
<1>. QED BY <1>1, <1>2, <1>3, <1>4, StableStep

-----------------------------------------------------------------------------
(* The theorems *)

IInv == BaseInv /\ PassedOver /\ WorkInv /\ WantedInv /\ UnwantedInv /\ CountInv

LEMMA InitIInv == Init => IInv
<1>. SUFFICES ASSUME Init PROVE IInv
  OBVIOUS
<1>1. TypeInv
  BY InitType
<1>2. ~Stable /\ CacheInv /\ FreshInv /\ SpentInv /\ PassedOver
  BY DEF Init, Stable, CacheInv, FreshInv, SpentInv, PassedOver, Kinds
<1>. QED BY <1>1, <1>2 DEF IInv, BaseInv, WorkInv, WantedInv, UnwantedInv, CountInv

LEMMA NextIInv == IInv /\ [Next]_vars => IInv'
<1>1. ASSUME IInv, Next PROVE IInv'
  <2>1. StepForm /\ TypeInv'
    BY <1>1, Forms, NextType DEF IInv, BaseInv
  <2>. QED BY <1>1, <2>1, CacheStep, FreshStep, SpentStep, PassedOverStep, WorkStep, WantedStep, UnwantedStep, CountStep
           DEF IInv, BaseInv
<1>2. ASSUME IInv, UNCHANGED vars PROVE IInv'
  <2>1. TypeInv'
    BY <1>2, NextType DEF IInv, BaseInv
  <2>2. CacheInv' /\ FreshInv' /\ SpentInv' /\ PassedOver'
    BY <1>2 DEF IInv, BaseInv, CacheInv, FreshInv, SpentInv, PassedOver, vars, IsOf, Wants
  <2>3. WorkInv' /\ UnwantedInv' /\ WantedInv'
    BY <1>2 DEF IInv, WorkInv, UnwantedInv, WantedInv, Stable, Served, Has, vars, IsOf, Wants
  <2>4. CountInv'
    BY <1>2 DEF IInv, CountInv, Stable, Due, Tally, Mine, vars, IsOf
  <2>. QED BY <2>1, <2>2, <2>3, <2>4 DEF IInv, BaseInv
<1>. QED BY <1>1, <1>2

LEMMA Invariance == Spec => []IInv
BY InitIInv, NextIInv, PTL DEF Spec

(***************************************************************************)
(* Once nothing is left to do the tunnel owns exactly the records of the   *)
(* hostnames whose entries agree on a zone they lie in, for every set of   *)
(* hostnames, zones and configurations and however often tunnels are       *)
(* replaced: an outdated cache is always followed by an event that queues  *)
(* the tunnel again (reconcileDns, the owner watch).                       *)
(***************************************************************************)
THEOREM FollowsConfig == Spec => []RecordsFollowConfig
<1>1. ASSUME IInv PROVE RecordsFollowConfig
  <2>. SUFFICES ASSUME Quiet, tun # Nil, spent["zone"] = 0, NEW h \in Host
                PROVE  IF h \in DesiredDnsRecords(tun.config) /\ ZoneFor(tun.config, h) \in InZone[h]
                       THEN Has(h, SettingsFor(tun.config, h)) \/ spent["outside"] > 0
                       ELSE record[h] # Nil => record[h].owner = Foreign
    BY DEF RecordsFollowConfig
  <2>1. Stable /\ cache[h] = record[h] /\ owned = {} /\ todo = {} /\ news = {}
    BY <1>1 DEF Quiet, Stable, IInv, BaseInv, TypeInv, LocalsOK, CacheInv
  <2>2. record[h] # Nil => ~record[h].deleting /\ (record[h].owner = Foreign \/ record[h].owner = tun.uid)
    BY DEF Quiet, Orphaned
  <2>3. CASE Wants(tun.config, h)
    <3>1. ASSUME spent["outside"] = 0 PROVE Has(h, SettingsFor(tun.config, h))
      <4>1. Served(h)
        BY <1>1, <2>1, <2>3, <3>1 DEF IInv, WantedInv
      <4>2. record[h] # Nil => record[h].owner # Foreign
        BY <1>1, <3>1 DEF IInv, BaseInv, SpentInv
      <4>. QED BY <2>1, <2>2, <4>1, <4>2 DEF Served, Has
    <3>2. spent["outside"] \in Nat
      BY <1>1 DEF IInv, BaseInv, TypeInv, TypeOK, Kinds
    <3>. QED BY <2>3, <3>1, <3>2 DEF Wants
  <2>4. CASE ~Wants(tun.config, h)
    BY <1>1, <2>1, <2>2, <2>4 DEF IInv, UnwantedInv, IsOf, Wants
  <2>. QED BY <2>3, <2>4
<1>. QED BY <1>1, Invariance, PTL

(***************************************************************************)
(* Once nothing is left to do dnsRecords and dnsRecordsReady are the       *)
(* numbers of the tunnel's records and of those that Cloudflare holds,     *)
(* although they are counted from cached copies and merged into a status   *)
(* that may have moved on (reconcileDns, apply).                           *)
(***************************************************************************)
THEOREM CountsRight == Spec => []CountsAreRight
<1>1. ASSUME IInv PROVE CountsAreRight
  <2>. DEFINE mine == {h \in Host : record[h] # Nil /\ record[h].owner = tun.uid}
              held == {h \in mine : record[h].target = tun.uid}
  <2>. SUFFICES ASSUME Quiet, tun # Nil, spent["zone"] = 0
                PROVE  tun.status.desired = Cardinality(mine) /\ tun.status.ready = Cardinality(held)
    BY DEF CountsAreRight
  <2>1. Stable /\ pc = "idle" /\ news = {} /\ \A h \in Host : cache[h] = record[h]
    BY <1>1 DEF Quiet, Stable, IInv, BaseInv, CacheInv
  <2>2. \A h \in Host : ~Due(h)
    BY <2>1 DEF Quiet, Due
  <2>3. Tally
    BY <1>1, <2>1, <2>2 DEF IInv, CountInv
  <2>4. Mine = mine /\ {h \in Mine : cache[h].target = tun.uid} = held
    BY <2>1 DEF Mine, IsOf
  <2>5. tun.status = [desired |-> Cardinality(Mine), ready |-> Cardinality({h \in Mine : cache[h].target = tun.uid})]
    BY <2>1, <2>3 DEF Tally
  <2>6. tun.status = [desired |-> Cardinality(mine), ready |-> Cardinality(held)]
    BY <2>4, <2>5, Zenon
  <2>. HIDE DEF mine, held
  <2>. QED BY <2>6
<1>. QED BY <1>1, Invariance, PTL

\* A record leaves the API server or is marked by the worker only in DeleteRecord.
LEMMA WorkerDeletes ==
  ASSUME IInv, Next, NEW h \in Host, pc = "apply", IsOf(record[h], rec), record'[h] # record[h],
         ~record[h].deleting, record'[h].deleting, UNCHANGED queued, owned' # owned
  PROVE  Deletes(h)
<1>1. StepForm
  BY Forms DEF IInv, BaseInv
<1>2. \/ ReconcileDns \/ StatusWritten \/ GivesUp \/ Restarted \/ \E g \in Host : Deletes(g)
  BY <1>1 DEF StepForm, ReconcileGone, SyncTunnel, TunnelWritten, ZoneChanged, Creates, Updates, SkipRecord,
              SyncRecord, RecordWritten, Counted, workerVars
<1>3. ~(ReconcileDns \/ StatusWritten \/ GivesUp \/ Restarted)
  BY DEF ReconcileDns, StatusWritten, GivesUp, Restarted, clusterVars
<1>. QED BY <1>2, <1>3 DEF Deletes, RecordAt

(***************************************************************************)
(* Whatever the zones answer, however late the caches are and whoever      *)
(* else writes records of the same names: the worker never deletes the     *)
(* tunnel's record of a hostname that the configuration it read wants in a *)
(* zone the hostname lies in (reconcileDns keeps the records of a zone     *)
(* that reads as missing).                                                 *)
(***************************************************************************)
THEOREM WantedStay == Spec => WantedRecordsStay
<1>. DEFINE Stays ==
       \A h \in Host :
         /\ pc = "apply" /\ record[h] # Nil /\ ~record[h].deleting /\ record[h].owner = rec.uid
         /\ record'[h] # record[h] /\ record'[h].deleting /\ UNCHANGED queued /\ owned' # owned
         => ~(h \in DesiredDnsRecords(rec.config) /\ ZoneFor(rec.config, h) \in InZone[h])
<1>1. ASSUME IInv, [Next]_vars PROVE [Stays]_vars
  <2>. SUFFICES ASSUME Next, NEW h \in Host,
                       pc = "apply", record[h] # Nil, ~record[h].deleting, record[h].owner = rec.uid,
                       record'[h] # record[h], record'[h].deleting, UNCHANGED queued, owned' # owned,
                       Wants(rec.config, h)
                PROVE  FALSE
    BY <1>1 DEF Wants
  <2>1. Deletes(h)
    BY <1>1, WorkerDeletes DEF IsOf
  <2>. QED BY <1>1, <2>1 DEF IInv, PassedOver, Deletes, IsOf
<1>. QED BY <1>1, Invariance, PTL DEF Spec, WantedRecordsStay

(***************************************************************************)
(* A DnsRecord of another owner is never written over: the check for       *)
(* control reads a cached copy, and the resourceVersion of that copy       *)
(* protects a record that has replaced it (CreateOrUpdate).                *)
(***************************************************************************)
THEOREM ForeignStays == Spec => ForeignNotOverwritten
<1>. DEFINE Left == \A h \in Host : record[h] # Nil /\ record[h].owner = Foreign /\ record'[h] # Nil
                      => record'[h].owner = Foreign /\ record'[h].settings = record[h].settings
<1>1. ASSUME IInv, [Next]_vars PROVE [Left]_vars
  <2>. SUFFICES ASSUME Next, NEW h \in Host, record[h] # Nil, record[h].owner = Foreign, record'[h] # Nil
                PROVE  record'[h].owner = Foreign /\ record'[h].settings = record[h].settings
    BY <1>1
  <2>1. StepForm
    BY <1>1, Forms DEF IInv, BaseInv
  <2>2. CASE record' = record
    BY <2>2
  <2>3. ASSUME NEW g \in Host, Creates(g) \/ Deletes(g) \/ RecordWritten(g)
        PROVE  record'[h].owner = Foreign /\ record'[h].settings = record[h].settings
    BY <2>3 DEF Creates, Deletes, RecordWritten, RecordAt
  <2>4. ASSUME NEW g \in Host, Updates(g)
        PROVE  record'[h].owner = Foreign /\ record'[h].settings = record[h].settings
    <3>1. rec.uid # Foreign
      BY <1>1, <2>4, TunnelFields DEF Updates, IInv, BaseInv, TypeInv, LocalsOK
    <3>. QED BY <2>4, <3>1 DEF Updates, RecordAt, IsOf
  <2>. QED BY <2>1, <2>2, <2>3, <2>4
       DEF StepForm, ReconcileGone, ReconcileDns, StatusWritten, GivesUp, SyncTunnel, TunnelWritten, ZoneChanged,
           Restarted, SkipRecord, SyncRecord, clusterVars
<1>. QED BY <1>1, Invariance, PTL DEF Spec, ForeignNotOverwritten

=============================================================================
