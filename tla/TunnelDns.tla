------------------------------ MODULE TunnelDns ------------------------------
(***************************************************************************)
(* The DNS of a CloudflareTunnel: the part of the tunnel controller that   *)
(* keeps one DnsRecord object per routed hostname                          *)
(* (src/internal/controller/cloudflaretunnel_dns.go, dns.go), with the     *)
(* DnsRecord controller at the other end of those objects.                 *)
(*                                                                         *)
(* There is one name of a tunnel; objects of that name come and go, each   *)
(* with a uid and a tunnel id of its own.  Its DnsRecords are named after  *)
(* the tunnel and the hostname, so an object is identified by its          *)
(* hostname.  What the tunnel controller does besides, and what the        *)
(* DnsRecord controller does in detail, is in the modules TunnelController *)
(* and DnsRecordController.                                                *)
(***************************************************************************)
EXTENDS Naturals, FiniteSets

CONSTANTS
  Host,        \* hostnames, in lower case
  Spelling,    \* hostnames as users write them, "" among them
  Lower,       \* Lower[s]: the hostname that spelling s means, Nil for ""
  Zone,
  InZone,      \* InZone[h]: the zones that hostname h lies in
  ConfigsOf,   \* the configurations users give to the tunnel
  Foreign,     \* the owner of a DnsRecord that somebody else made
  MaxUid,      \* how many tunnel objects of the name are created
  Budget,      \* how often the environment may act, by kind: the allowed combinations
  Nil

Kinds == {"user", "fault", "outside", "zone", "record"}
Uid == 1..MaxUid

\* CloudflareTunnelDns: what one level says about DNS; ttl is treated like proxied.
Level == [zone : Zone \cup {Nil}, proxied : BOOLEAN \cup {Nil}]
Entry == [host : Spelling, dns : Level]
Config == [dns : Level, ingress : SUBSET Entry]

ASSUME ConstantsAssumption ==
  /\ IsFiniteSet(Host)
  /\ Nil \notin Host /\ Nil \notin Zone /\ Nil \notin BOOLEAN
  /\ Foreign \notin Uid /\ Nil # Foreign
  /\ Lower \in [Spelling -> Host \cup {Nil}]
  /\ InZone \in [Host -> SUBSET Zone]
  /\ ConfigsOf \subseteq Config
  /\ MaxUid \in Nat
  /\ Budget \subseteq [Kinds -> Nat]

VARIABLES
  tun,       \* the CloudflareTunnel at the API server
  tunCache,  \* the informer's copy of it
  record,    \* the DnsRecords at the API server, by hostname
  cache,     \* the informer's copies of them
  news,      \* what an informer has not delivered yet: hostnames, and Nil for the tunnel
  queued,    \* whether the tunnel waits to be reconciled
  zone,      \* how Cloudflare answers for each zone
  uids,      \* how many tunnel objects have been created
  pc,        \* the call that the worker is about to make
  rec,       \* the worker's copy of the tunnel
  owned,     \* the hostnames whose records ownedDnsRecords listed, those to keep left out
  todo,      \* the hostnames whose records remain to be applied
  keep,      \* the hostnames whose records have been applied
  ready,     \* those of them that dnsRecordReady accepts
  spent      \* how much of each budget is used up

clusterVars == <<tun, tunCache, record, cache, news, uids>>
workerVars  == <<pc, rec, owned, todo, keep, ready>>
vars == <<tun, tunCache, record, cache, news, queued, zone, uids,
          pc, rec, owned, todo, keep, ready, spent>>

-----------------------------------------------------------------------------
(* Types *)

Settings == [zone : Zone \cup {Nil}, proxied : BOOLEAN]
Counts == [desired : 0..Cardinality(Host), ready : 0..Cardinality(Host)]
Tunnel == [uid : Uid, config : Config, status : Counts]

\* target is the tunnel whose hostname Cloudflare answers with, Nil while the
\* status of the DnsRecord has no id.
DnsRecord == [owner : Uid \cup {Foreign}, deleting : BOOLEAN, settings : Settings, target : Uid \cup {Nil}]

ASSUME NilAssumption == Nil \notin DnsRecord /\ Nil \notin Tunnel

Answers == {"found", "missing", "forbidden"}

TypeOK ==
  /\ tun \in Tunnel \cup {Nil} /\ tunCache \in Tunnel \cup {Nil} /\ rec \in Tunnel \cup {Nil}
  /\ record \in [Host -> DnsRecord \cup {Nil}] /\ cache \in [Host -> DnsRecord \cup {Nil}]
  /\ news \subseteq Host \cup {Nil}
  /\ queued \in BOOLEAN
  /\ zone \in [Zone -> Answers]
  /\ uids \in 0..MaxUid
  /\ pc \in {"idle", "apply"}
  /\ owned \subseteq Host /\ todo \subseteq Host /\ keep \subseteq Host /\ ready \subseteq keep
  /\ spent \in [Kinds -> Nat]
  /\ \A h \in Host : record[h] # Nil /\ record[h].owner # Foreign => record[h].settings.zone # Nil

Init ==
  /\ tun = Nil /\ tunCache = Nil
  /\ record = [h \in Host |-> Nil] /\ cache = [h \in Host |-> Nil]
  /\ news = {} /\ queued = FALSE /\ uids = 0
  /\ zone = [z \in Zone |-> "found"]
  /\ pc = "idle" /\ rec = Nil
  /\ owned = {} /\ todo = {} /\ keep = {} /\ ready = {}
  /\ spent = [k \in Kinds |-> 0]

-----------------------------------------------------------------------------
(* Which records a tunnel wants *)

\* The entry wins where it is set, the tunnel fills the rest, then the default.
ResolveDns(tunnelDns, entryDns) ==
  LET Over(f, default) == IF entryDns[f] # Nil THEN entryDns[f] ELSE IF tunnelDns[f] # Nil THEN tunnelDns[f] ELSE default
  IN  [zone |-> Over("zone", Nil), proxied |-> Over("proxied", TRUE)]

\* Everything that the entries for hostname h resolve to.
SettingsOf(config, h) ==
  {ResolveDns(config.dns, e.dns) : e \in {d \in config.ingress : Lower[d.host] = h}}

\* The hostnames whose entries agree on settings with a zone.
DesiredDnsRecords(config) ==
  {h \in Host : \E s \in SettingsOf(config, h) : SettingsOf(config, h) = {s} /\ s.zone # Nil}

SettingsFor(config, h) == CHOOSE s \in SettingsOf(config, h) : TRUE
ZoneFor(config, h) == SettingsFor(config, h).zone

\* Variant: a hostname whose zone reads as missing loses its record.
KeptNone(config) == {}

\* A zone that reads as missing may be a passing fault: its records are kept.
Kept(config) == {h \in DesiredDnsRecords(config) : zone[ZoneFor(config, h)] = "missing"}

\* Variant: neither a missing zone nor the zone check leaves a hostname out.
AppliedUnchecked(config) == {h \in Host : Cardinality(SettingsOf(config, h)) = 1}

\* The zone check passes, or the token may not read the zone.
Applied(config) ==
  {h \in DesiredDnsRecords(config) :
     LET z == ZoneFor(config, h)
     IN  zone[z] = "forbidden" \/ (zone[z] = "found" /\ z \in InZone[h])}

\* Variant: owner references are trusted to collect the records.
OwnedNone(t) == {}

\* The DnsRecords, as the cache has them, that the tunnel controls.
OwnedDnsRecords(t) == {h \in Host : cache[h] # Nil /\ cache[h].owner = t.uid}

\* Variant: having written a record is enough.
DnsRecordReadyOnceWritten(r) == TRUE

\* Cloudflare holds the record, pointing at this tunnel.
DnsRecordReady(r) == r.target = rec.uid

-----------------------------------------------------------------------------
Write(h, r) ==
  /\ record' = [record EXCEPT ![h] = r]
  /\ news' = IF r = record[h] THEN news ELSE news \cup {h}
  /\ UNCHANGED tun

WriteTunnel(t) ==
  /\ tun' = t
  /\ news' = IF t = tun THEN news ELSE news \cup {Nil}
  /\ UNCHANGED record

Goto(p) == pc' = p

\* Reconcile returns; q says whether the tunnel is on the queue afterwards.
Return(q) ==
  /\ pc' = "idle" /\ rec' = Nil
  /\ owned' = {} /\ todo' = {} /\ keep' = {} /\ ready' = {}
  /\ queued' = q

(* reconcileDns, call by call *)

ReconcileGone ==
  /\ pc = "idle" /\ queued /\ tunCache = Nil
  /\ queued' = FALSE
  /\ UNCHANGED <<clusterVars, zone, workerVars, spent>>

(***************************************************************************)
(* updateTunnel comes to the DNS of the tunnel: the zones are read, the    *)
(* hostnames checked and the owned records listed.  The answers and the    *)
(* caches are read where they are used: an earlier read is one before the  *)
(* change.                                                                 *)
(***************************************************************************)
ReconcileDns ==
  /\ pc = "idle" /\ queued /\ tunCache # Nil
  /\ queued' = FALSE
  /\ rec' = tunCache
  /\ todo' = Applied(tunCache.config)
  /\ owned' = OwnedDnsRecords(tunCache) \ Kept(tunCache.config)
  /\ Goto("apply")
  /\ UNCHANGED <<clusterVars, zone, keep, ready, spent>>

Built(h) == [owner |-> rec.uid, deleting |-> FALSE, settings |-> SettingsFor(rec.config, h), target |-> Nil]

\* The record is applied, and counted if it is ready.
Counted(h, r) ==
  /\ todo' = todo \ {h}
  /\ keep' = keep \cup {h}
  /\ ready' = ready \cup (IF DnsRecordReady(r) THEN {h} ELSE {})
  /\ UNCHANGED <<tunCache, cache, uids, queued, zone, pc, rec, owned, spent>>

CreateRecord(h) ==
  /\ pc = "apply" /\ h \in todo /\ cache[h] = Nil /\ record[h] = Nil
  /\ Write(h, Built(h))
  /\ Counted(h, Built(h))

\* Variant: the update carries no resourceVersion.
UpdateRecordUnlocked(h) ==
  /\ pc = "apply" /\ h \in todo /\ cache[h] # Nil /\ cache[h].owner = rec.uid
  /\ record[h] # Nil
  /\ Write(h, [record[h] EXCEPT !.owner = rec.uid, !.settings = SettingsFor(rec.config, h)])
  /\ Counted(h, record[h])

\* An update carries the resourceVersion of the cached copy; without a difference
\* to that copy there is none.
UpdateRecord(h) ==
  /\ pc = "apply" /\ h \in todo /\ cache[h] # Nil /\ cache[h].owner = rec.uid
  /\ cache[h].settings = SettingsFor(rec.config, h) \/ cache[h] = record[h]
  /\ Write(h, IF cache[h].settings = SettingsFor(rec.config, h) THEN record[h]
              ELSE [record[h] EXCEPT !.settings = SettingsFor(rec.config, h)])
  /\ Counted(h, cache[h])

\* The cache was late: AlreadyExists, NotFound or Conflict, an error.
ApplyConflicts(h) ==
  /\ pc = "apply" /\ h \in todo /\ cache[h] # record[h]
  /\ cache[h] # Nil => cache[h].owner = rec.uid /\ cache[h].settings # SettingsFor(rec.config, h)
  /\ Return(TRUE)
  /\ UNCHANGED <<clusterVars, zone, spent>>

\* A record of that name which the tunnel does not control is reported and left.
SkipRecord(h) ==
  /\ pc = "apply" /\ h \in todo /\ cache[h] # Nil /\ cache[h].owner # rec.uid
  /\ todo' = todo \ {h}
  /\ UNCHANGED <<clusterVars, queued, zone, pc, rec, owned, keep, ready, spent>>

\* By name; a DnsRecord whose finalizer is held stays until its controller is done.
DeleteRecord(h) ==
  /\ pc = "apply" /\ todo = {} /\ h \in owned \ keep
  /\ owned' = owned \ {h}
  /\ IF record[h] = Nil THEN UNCHANGED <<tun, record, news>>
                        ELSE Write(h, [record[h] EXCEPT !.deleting = TRUE])
  /\ UNCHANGED <<tunCache, cache, uids, queued, zone, pc, rec, todo, keep, ready, spent>>

\* apply: the counts go into the status, by a merge patch against the copy.
ApplyStatus ==
  /\ pc = "apply" /\ todo = {} /\ owned \subseteq keep /\ tun # Nil
  /\ LET Field(f, new) == IF new # rec.status[f] THEN new ELSE tun.status[f]
     IN  WriteTunnel([tun EXCEPT !.status = [desired |-> Field("desired", Cardinality(keep)),
                                             ready   |-> Field("ready", Cardinality(ready))]])
  /\ Return(queued)
  /\ UNCHANGED <<tunCache, cache, uids, zone, spent>>

ApplyStatusGone ==
  /\ pc = "apply" /\ todo = {} /\ owned \subseteq keep /\ tun = Nil
  /\ Return(TRUE)
  /\ UNCHANGED <<clusterVars, zone, spent>>

ReconcileStep ==
  \/ ApplyStatus \/ ApplyStatusGone
  \/ \E h \in Host : CreateRecord(h) \/ UpdateRecord(h) \/ ApplyConflicts(h) \/ SkipRecord(h) \/ DeleteRecord(h)

-----------------------------------------------------------------------------
(* Failures and the environment *)

Spend(k) ==
  /\ spent' = [spent EXCEPT ![k] = @ + 1]
  /\ spent' \in Budget

\* Any call may fail; the error is returned and the tunnel retried.
CallFails ==
  /\ pc # "idle" /\ Spend("fault")
  /\ Return(TRUE)
  /\ UNCHANGED <<clusterVars, zone>>

Restart ==
  /\ Spend("fault")
  /\ tunCache' = tun /\ cache' = record /\ news' = {}
  /\ Return(tun # Nil)
  /\ UNCHANGED <<tun, record, uids, zone>>

SyncTunnel ==
  /\ Nil \in news
  /\ tunCache' = tun
  /\ news' = news \ {Nil}
  /\ queued' = TRUE
  /\ UNCHANGED <<tun, record, cache, uids, zone, workerVars, spent>>

\* A DnsRecord enqueues the tunnel that its owner reference names.
SyncRecord(h) ==
  /\ h \in news
  /\ cache' = [cache EXCEPT ![h] = record[h]]
  /\ news' = news \ {h}
  /\ queued' = (queued \/ \E r \in {record[h], cache[h]} : r # Nil /\ r.owner # Foreign)
  /\ UNCHANGED <<tun, tunCache, record, uids, zone, workerVars, spent>>

\* A new tunnel, also in the place of one that is deleted.
UserCreates(c) ==
  /\ uids < MaxUid /\ Spend("user")
  /\ WriteTunnel([uid |-> uids + 1, config |-> c, status |-> [desired |-> 0, ready |-> 0]])
  /\ uids' = uids + 1
  /\ UNCHANGED <<tunCache, cache, queued, zone, workerVars>>

UserEdits(c) ==
  /\ tun # Nil /\ tun.config # c /\ Spend("user")
  /\ WriteTunnel([tun EXCEPT !.config = c])
  /\ UNCHANGED <<tunCache, cache, uids, queued, zone, workerVars>>

\* The tunnel controller has released its finalizer.
TunnelGoes ==
  /\ tun # Nil /\ Spend("user")
  /\ WriteTunnel(Nil)
  /\ UNCHANGED <<tunCache, cache, uids, queued, zone, workerVars>>

Orphaned(h) == /\ record[h] # Nil /\ record[h].owner # Foreign /\ ~record[h].deleting
               /\ tun # Nil => record[h].owner # tun.uid

\* The garbage collector deletes the records of a tunnel that is gone.
CollectRecord(h) ==
  /\ Orphaned(h)
  /\ Write(h, [record[h] EXCEPT !.deleting = TRUE])
  /\ UNCHANGED <<tunCache, cache, uids, queued, zone, workerVars, spent>>

\* Somebody else makes a DnsRecord of that name.
ForeignRecord(h) ==
  /\ record[h] = Nil /\ Spend("outside")
  /\ Write(h, [owner |-> Foreign, deleting |-> FALSE, settings |-> [zone |-> Nil, proxied |-> TRUE], target |-> Nil])
  /\ UNCHANGED <<tunCache, cache, uids, queued, zone, workerVars>>

\* Cloudflare answers differently for a zone: a fault that passes, or a new token.
ZoneChanges(z, a) ==
  /\ zone[z] # a /\ Spend("zone")
  /\ zone' = [zone EXCEPT ![z] = a]
  /\ UNCHANGED <<clusterVars, queued, workerVars>>

\* The DnsRecord controller writes the record, pointing at the tunnel of the name, or
\* forgets the id of a record that is gone, ...
RecordChanges(h) ==
  /\ record[h] # Nil /\ record[h].owner # Foreign /\ Spend("record")
  /\ \/ /\ record[h].target = Nil /\ ~record[h].deleting /\ tun # Nil
        /\ Write(h, [record[h] EXCEPT !.target = tun.uid])
     \/ /\ record[h].target # Nil
        /\ Write(h, [record[h] EXCEPT !.target = Nil])
  /\ UNCHANGED <<tunCache, cache, uids, queued, zone, workerVars>>

\* ... and releases its finalizer.
RecordReleased(h) ==
  /\ record[h] # Nil /\ record[h].deleting
  /\ Write(h, Nil)
  /\ UNCHANGED <<tunCache, cache, uids, queued, zone, workerVars, spent>>

Environment ==
  \/ TunnelGoes \/ \E c \in ConfigsOf : UserCreates(c) \/ UserEdits(c)
  \/ \E h \in Host : ForeignRecord(h) \/ RecordChanges(h)
  \/ \E z \in Zone, a \in Answers : ZoneChanges(z, a)

Next ==
  \/ ReconcileGone \/ ReconcileDns \/ ReconcileStep
  \/ SyncTunnel \/ \E h \in Host : SyncRecord(h) \/ CollectRecord(h) \/ RecordReleased(h)
  \/ CallFails \/ Restart \/ Environment

Spec == Init /\ [][Next]_vars

-----------------------------------------------------------------------------
(* Properties *)

\* Nothing is running, queued, on its way to a cache or being deleted.
Quiet == /\ pc = "idle" /\ ~queued /\ news = {}
         /\ \A h \in Host : record[h] # Nil => ~record[h].deleting /\ ~Orphaned(h)

\* Hostname h has a record of the tunnel with these settings.
Has(h, s) == record[h] # Nil /\ record[h].owner = tun.uid /\ record[h].settings = s

(***************************************************************************)
(* README: records follow the config; a hostname removed from it, or left  *)
(* without a zone, loses its record.  Once nothing is left to do, and as   *)
(* long as every zone could be read, the tunnel owns exactly the records   *)
(* of the hostnames whose entries agree on a zone they lie in, although    *)
(* the list of owned records and the records themselves come from a cache, *)
(* and the records of an earlier tunnel of the name may have been in the   *)
(* way.  A hostname whose record's name somebody else had is skipped, and  *)
(* not tried again when that record goes.                                  *)
(***************************************************************************)
RecordsFollowConfig ==
  Quiet /\ tun # Nil /\ spent["zone"] = 0 =>
    \A h \in Host :
      IF h \in DesiredDnsRecords(tun.config) /\ ZoneFor(tun.config, h) \in InZone[h]
      THEN Has(h, SettingsFor(tun.config, h)) \/ spent["outside"] > 0
      ELSE record[h] # Nil => record[h].owner = Foreign

(***************************************************************************)
(* README: dnsRecords and dnsRecordsReady count the records the tunnel     *)
(* wants and those Cloudflare holds.  The counts are taken from cached     *)
(* records and merged into a status that may have moved on; once nothing   *)
(* is left to do they are right.                                           *)
(***************************************************************************)
CountsAreRight ==
  Quiet /\ tun # Nil /\ spent["zone"] = 0 =>
    LET mine == {h \in Host : record[h] # Nil /\ record[h].owner = tun.uid}
    IN  /\ tun.status.desired = Cardinality(mine)
        /\ tun.status.ready = Cardinality({h \in mine : record[h].target = tun.uid})

(***************************************************************************)
(* "A zone that reads as missing may be a passing API fault, so the        *)
(* records already written for it are kept" (reconcileDns): whatever the   *)
(* zones answer, the worker never deletes the record of a hostname that    *)
(* the configuration it read wants in a zone the hostname lies in, unless  *)
(* somebody else's record was in the way.                                  *)
(***************************************************************************)
WantedRecordsStay ==
  [][\A h \in Host :
       /\ pc = "apply" /\ record[h] # Nil /\ ~record[h].deleting /\ record[h].owner = rec.uid
       /\ record'[h] # record[h] /\ record'[h].deleting /\ UNCHANGED queued /\ owned' # owned
       => ~(h \in DesiredDnsRecords(rec.config) /\ ZoneFor(rec.config, h) \in InZone[h])]_vars

(***************************************************************************)
(* A DnsRecord of another owner is never written over (CreateOrUpdate with *)
(* the check for control): the check reads a cached copy, so only the      *)
(* resourceVersion in the update protects a record that replaced it.       *)
(***************************************************************************)
ForeignNotOverwritten ==
  [][\A h \in Host : record[h] # Nil /\ record[h].owner = Foreign /\ record'[h] # Nil
                     => record'[h].owner = Foreign /\ record'[h].settings = record[h].settings]_vars
=============================================================================
