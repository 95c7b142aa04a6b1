--------------------------- MODULE TunnelController ---------------------------
(***************************************************************************)
(* The CloudflareTunnel controller: one worker that creates, adopts,       *)
(* configures and deletes tunnels at Cloudflare, keeps their private       *)
(* network routes and hands their ids to Cloudflared objects               *)
(* (src/internal/controller/cloudflaretunnel_controller.go and             *)
(* cloudflaretunnel_routes.go).                                            *)
(*                                                                         *)
(* As in DnsRecordController every call of Reconcile is a step, between    *)
(* two of which users, informers, Cloudflare and failures may act.  The    *)
(* DnsRecords of the tunnel (reconcileDns) are no part of this module.     *)
(***************************************************************************)
EXTENDS Naturals, FiniteSets, Sequences

CONSTANTS
  CT,            \* names of CloudflareTunnel objects
  CF,            \* names of Cloudflared objects
  Id,            \* tunnel ids Cloudflare may issue; each is issued once
  Account, Name, Label,
  Cidr, Net,     \* networks as written, and as Cloudflare files them
  Masked,        \* Masked[d]: the network that d denotes, Nil if it is no CIDR
  Vnet, DefaultVnet,
  SpecsOf,       \* SpecsOf[c]: the specs a user may give to tunnel c
  Before,        \* what there may be at Cloudflare before the first run
  Budget,        \* bounds of what the environment does, by kind
  Mishaps,       \* bound of failures and outside interventions together
  Nil

Kinds == {"user", "cloudflared", "fault", "outside"}
Sources == {"local", "cloudflare"}

\* spec.routes has entries of this form; without vnet the default one is meant.
RouteEntry == [cidr : Cidr, vnet : Vnet \cup {Nil}]

\* A selector is the set of labels it matches, Nil when it is malformed.
Selection == [selector : (SUBSET Label) \cup {Nil}, template : Label \cup {Nil}]

\* spec.config.ingress says of every rule whether it matches all requests.
TunnelSpec == [account : Account, name : Name, src : Sources,
               config : Seq(BOOLEAN) \cup {Nil},
               routes : SUBSET RouteEntry,
               cloudflared : Selection \cup {Nil}]

\* A tunnel at Cloudflare, and a network it may route.
Remote == [account : Account, name : Name, src : Sources, config : Seq(BOOLEAN) \cup {Nil}]
Slot == [account : Account, net : Net, vnet : Vnet]

ASSUME ConstantsAssumption ==
  /\ Nil \notin CT \cup CF \cup Id \cup Account \cup Label \cup Net \cup Vnet
  /\ CT \subseteq CF
  /\ Masked \in [Cidr -> Net \cup {Nil}]
  /\ DefaultVnet \in Vnet
  /\ SpecsOf \in [CT -> SUBSET TunnelSpec]
  /\ \A c \in CT : \A s \in SpecsOf[c] : IsFiniteSet(s.routes)
  /\ Before \subseteq [remote : [Id -> Remote \cup {Nil}], routes : [Slot -> Id \cup {Nil}], access : BOOLEAN]
  /\ Budget \in [Kinds -> Nat] /\ Mishaps \in Nat

VARIABLES
  obj, cache, news, queue,   \* the CloudflareTunnel objects, as in DnsRecordController
  cfd, cfdCache, cfdNews,    \* the Cloudflared objects, which the controller does not watch
  remote, issued,            \* the tunnels at Cloudflare, by id
  routes,                    \* the tunnel that each network is routed to
  access,                    \* whether the API token may manage routes
  pc, cur, rec,              \* the next call, the object and Reconcile's copy of it
  tid,                       \* the id it works with, read before the status is patched
  res,                       \* the last tunnel that Cloudflare answered with
  plan,                      \* the routes still to delete and to create
  list,                      \* the Cloudflareds still to visit, as they were listed
  spent

cfdVars     == <<cfd, cfdCache, cfdNews>>
clusterVars == <<obj, cache, news, queue, cfd, cfdCache, cfdNews>>
remoteVars  == <<remote, issued, routes, access>>
workerVars  == <<pc, cur, rec, tid, res, plan, list>>
vars == <<obj, cache, news, queue, cfd, cfdCache, cfdNews, remote, issued, routes, access,
          pc, cur, rec, tid, res, plan, list, spent>>

-----------------------------------------------------------------------------
(* Types *)

\* The Progressing and Degraded conditions, told apart by reason and message.
Progressing == {"unknown", "recorded", "updated", "selecting"}
Degraded == {"unknown", "no", "config", "ingress", "routes", "selector", "template",
             "secret", "ambiguous", "deletingCloudflareds", "deletingTunnel"}

Conditions == [progressing : Progressing, degraded : Degraded]

Status == [id : Id \cup {Nil}, account : Account \cup {Nil},
           conditions : Conditions \cup {Nil}, routesReady : Nat]

NoStatus == [id |-> Nil, account |-> Nil, conditions |-> Nil, routesReady |-> 0]

Object == [deleting : BOOLEAN, fin : BOOLEAN, spec : TunnelSpec, status : Status]

Cloudflared == [label : Label, owner : CT \cup {Nil}, tunnelId : Id \cup {Nil}]

ASSUME NilAssumption == Nil \notin Object /\ Nil \notin Cloudflared /\ Nil \notin Remote

Plan == [drop : SUBSET Slot, add : SUBSET [net : Net, vnet : Vnet \cup {Nil}],
         ready : Nat, problem : BOOLEAN]

NoPlan == [drop |-> {}, add |-> {}, ready |-> 0, problem |-> FALSE]
NoList == [f \in CF |-> Nil]

\* The reason each of these steps gives for the Degraded condition.
Complaint == [degradeSecret |-> "secret", degradeAmbiguous |-> "ambiguous",
              degradeSelector |-> "selector", degradeTemplate |-> "template"]

Calls == {"conditions", "addFinalizer", "create", "adopt", "record", "degradeSecret", "degradeAmbiguous",
          "get", "edit", "config", "routes", "dropRoute", "addRoute", "status",
          "select", "apply", "createCloudflared", "degradeSelector", "degradeTemplate",
          "finalize", "markCloudflareds", "deleteCloudflared",
          "listRoutes", "purgeRoute", "markTunnel", "deleteTunnel", "release"}

TypeOK ==
  /\ obj \in [CT -> Object \cup {Nil}] /\ cache \in [CT -> Object \cup {Nil}]
  /\ news \subseteq CT /\ queue \subseteq CT
  /\ cfd \in [CF -> Cloudflared \cup {Nil}] /\ cfdCache \in [CF -> Cloudflared \cup {Nil}]
  /\ cfdNews \subseteq CF
  /\ remote \in [Id -> Remote \cup {Nil}] /\ issued \subseteq Id
  /\ routes \in [Slot -> Id \cup {Nil}]
  /\ access \in BOOLEAN
  /\ pc \in Calls \cup {"idle"} /\ cur \in CT \cup {Nil} /\ rec \in Object \cup {Nil}
  /\ tid \in Id \cup {Nil}
  /\ res \in [id : Id, account : Account, name : Name, src : Sources] \cup {Nil}
  /\ plan \in Plan
  /\ list \in [CF -> Cloudflared \cup {Nil}]
  /\ spent \in [Kinds -> Nat]

Init ==
  /\ obj = [c \in CT |-> Nil] /\ cache = [c \in CT |-> Nil] /\ news = {} /\ queue = {}
  /\ cfd = NoList /\ cfdCache = NoList /\ cfdNews = {}
  /\ \E b \in Before : remote = b.remote /\ routes = b.routes /\ access = b.access
  /\ issued = {i \in Id : remote[i] # Nil}
  /\ pc = "idle" /\ cur = Nil /\ rec = Nil /\ tid = Nil /\ res = Nil /\ plan = NoPlan /\ list = NoList
  /\ spent = [k \in Kinds |-> 0]

-----------------------------------------------------------------------------
(* Cloudflare *)

\* A tunnel is addressed by its id and its account.
Found(i, a) == remote[i] # Nil /\ remote[i].account = a

Answer(i) == [id |-> i, account |-> remote[i].account, name |-> remote[i].name, src |-> remote[i].src]

\* Variant: tunnels are looked up by account alone.
NamedAnything(a, n) == {i \in Id : Found(i, a)}

\* The tunnels of an account with this name: none other can be created or given it.
Named(a, n) == {i \in Id : Found(i, a) /\ remote[i].name = n}

\* The routes that point at tunnel i, in the account of the status.
ExistingRoutes(i, a) == {s \in Slot : s.account = a /\ routes[s] = i}

\* Without a virtual network Cloudflare files a route in the account's default one.
SlotOf(a, r) == [account |-> a, net |-> r.net, vnet |-> IF r.vnet = Nil THEN DefaultVnet ELSE r.vnet]

-----------------------------------------------------------------------------
(* The parts Reconcile is made of *)

\* A catch-all rule comes last and nowhere else.
ValidIngress(rules) ==
  rules # <<>> =>
    /\ rules[Len(rules)]
    /\ \A k \in 1 .. Len(rules) - 1 : ~rules[k]

\* Variant: the spec decides which side owns the configuration.
PushesBySpec(t) == rec.spec.config # Nil /\ rec.spec.src = "cloudflare" /\ ValidIngress(rec.spec.config)

\* Which side owns the configuration is Cloudflare's to say, not the spec's.
PushesConfig(t) == rec.spec.config # Nil /\ t.src = "cloudflare" /\ ValidIngress(rec.spec.config)

(***************************************************************************)
(* The routes of a spec: networks masked, entries that are no CIDR or that *)
(* say the same as another reported as a problem, the default virtual      *)
(* network filled in when there are routes to compare with.                *)
(***************************************************************************)

\* Variant: an entry that is no CIDR is not left out.
ParsedAll(s) == s.routes

Parsed(s) == {r \in s.routes : Masked[r.cidr] # Nil}

DesiredRoutes(s, existing) ==
  {[net |-> Masked[r.cidr],
    vnet |-> IF r.vnet = Nil /\ existing # {} THEN DefaultVnet ELSE r.vnet] : r \in Parsed(s)}

RoutePlan(s, a, existing) ==
  LET desired == DesiredRoutes(s, existing)
      matched == {d \in desired : \E e \in existing : e.net = d.net /\ e.vnet = d.vnet}
  IN  [drop    |-> {e \in existing : \A d \in desired : e.net # d.net \/ e.vnet # d.vnet},
       add     |-> desired \ matched,
       ready   |-> Cardinality(matched),
       problem |-> Parsed(s) # s.routes \/ Cardinality(desired) # Cardinality(Parsed(s))]

\* A token without access to routes is a problem only for a spec that asks for some.
NoAccessPlan(s) == [NoPlan EXCEPT !.problem = s.routes # {}]

AfterPlan(p) ==
  CASE p.drop # {}               -> "dropRoute"
    [] p.drop = {} /\ p.add # {} -> "addRoute"
    [] p.drop = {} /\ p.add = {} -> "status"

\* The first of the problems an update found.
DegradedBy(t, p) ==
  LET set == rec.spec.config # Nil
  IN  CASE set /\ t.src # "cloudflare"                                        -> "config"
        [] set /\ t.src = "cloudflare" /\ ~ValidIngress(rec.spec.config)      -> "ingress"
        [] (set => t.src = "cloudflare" /\ ValidIngress(rec.spec.config)) /\ p.problem  -> "routes"
        [] (set => t.src = "cloudflare" /\ ValidIngress(rec.spec.config)) /\ ~p.problem -> "no"

\* Variant: only Cloudflareds that a tunnel created are selected.
SelectedOwned(sel) ==
  [f \in CF |-> IF cfdCache[f] # Nil /\ cfdCache[f].label \in sel /\ cfdCache[f].owner # Nil
               THEN cfdCache[f] ELSE Nil]

\* The Cloudflareds in the cache that a selector matches.
Selected(sel) == [f \in CF |-> IF cfdCache[f] # Nil /\ cfdCache[f].label \in sel THEN cfdCache[f] ELSE Nil]

Left(l) == {f \in CF : l[f] # Nil}

(***************************************************************************)
(* A status patch sends the fields that differ from Reconcile's copy; the  *)
(* conditions are one field, so their whole list is sent.  The answer is   *)
(* decoded over the copy, where what the answer leaves out stays.          *)
(***************************************************************************)
Merged(now, new) ==
  LET base == rec.status
      Field(n, b, w) == IF w # b THEN w ELSE n
  IN  [id          |-> Field(now.id, base.id, new.id),
       account     |-> Field(now.account, base.account, new.account),
       conditions  |-> Field(now.conditions, base.conditions, new.conditions),
       routesReady |-> Field(now.routesReady, base.routesReady, new.routesReady)]

Decoded(now, sent) ==
  LET Field(n, s) == IF n = Nil THEN s ELSE n
  IN  [id          |-> Field(now.id, sent.id),
       account     |-> Field(now.account, sent.account),
       conditions  |-> Field(now.conditions, sent.conditions),
       routesReady |-> IF now.routesReady = 0 THEN sent.routesReady ELSE now.routesReady]

DecodedSpec(now, base) ==
  LET Over(sel) == IF base.cloudflared # Nil /\ sel.template = Nil
                   THEN [sel EXCEPT !.template = base.cloudflared.template] ELSE sel
  IN  [now EXCEPT !.config = IF @ = Nil THEN base.config ELSE @,
                  !.routes = IF @ = {} THEN base.routes ELSE @,
                  !.cloudflared = IF @ = Nil THEN base.cloudflared ELSE Over(@)]

\* The API server stores o as tunnel c; a new version is news to the informer.
Write(c, o) ==
  /\ obj' = [obj EXCEPT ![c] = o]
  /\ news' = IF o = obj[c] THEN news ELSE news \cup {c}

WriteCloudflared(f, o) ==
  /\ cfd' = [cfd EXCEPT ![f] = o]
  /\ cfdNews' = IF o = cfd[f] THEN cfdNews ELSE cfdNews \cup {f}

Goto(p) == pc' = p /\ UNCHANGED cur

Return(q) ==
  /\ pc' = "idle" /\ cur' = Nil /\ rec' = Nil /\ tid' = Nil /\ res' = Nil /\ plan' = NoPlan /\ list' = NoList
  /\ queue' = q

Requeued == queue \cup {cur}

\* patchSubResource, with the status new in Reconcile's copy.
PatchStatus(new) ==
  /\ obj[cur] # Nil
  /\ Write(cur, [obj[cur] EXCEPT !.status = Merged(@, new)])

\* Reconcile's copy after an answer of the API server that holds object o.
Refreshed(o, new) == [o EXCEPT !.status = Decoded(@, new), !.spec = DecodedSpec(@, rec.spec)]

Reread(new) == rec' = Refreshed(obj'[cur], new)

Degrade(why) == [rec.status EXCEPT !.conditions =
                   [progressing |-> IF @ = Nil THEN "unknown" ELSE @.progressing, degraded |-> why]]

-----------------------------------------------------------------------------
(* Reconcile, call by call: from the read to the id *)

\* Variant: a missing object is an error.
ReconcileGoneFails(c) ==
  /\ pc = "idle" /\ c \in queue /\ cache[c] = Nil
  /\ UNCHANGED vars

\* The object is gone from the cache: nothing to do.
ReconcileGone(c) ==
  /\ pc = "idle" /\ c \in queue /\ cache[c] = Nil
  /\ queue' = queue \ {c}
  /\ UNCHANGED <<obj, cache, news, cfdVars, remoteVars, workerVars, spent>>

\* What follows once the conditions and the finalizer are there.
Proceed(o) ==
  CASE o.status.conditions = Nil                             -> "conditions"
    [] o.status.conditions # Nil /\ ~o.fin                   -> "addFinalizer"
    [] o.status.conditions # Nil /\ o.fin /\ o.status.id = Nil -> "create"
    [] o.status.conditions # Nil /\ o.fin /\ o.status.id # Nil -> "get"

Reconcile(c) ==
  /\ pc = "idle" /\ c \in queue /\ cache[c] # Nil
  /\ queue' = queue \ {c}
  /\ cur' = c
  /\ rec' = cache[c]
  /\ pc' = IF cache[c].deleting THEN "finalize" ELSE Proceed(cache[c])
  /\ UNCHANGED <<obj, cache, news, cfdVars, remoteVars, tid, res, plan, list, spent>>

InitConditions ==
  /\ pc = "conditions"
  /\ LET new == [rec.status EXCEPT !.conditions = [progressing |-> "unknown", degraded |-> "unknown"]]
     IN  PatchStatus(new) /\ Reread(new)
  /\ Goto(Proceed(rec'))
  /\ UNCHANGED <<cache, queue, cfdVars, remoteVars, tid, res, plan, list, spent>>

AddFinalizer ==
  /\ pc = "addFinalizer" /\ obj[cur] # Nil
  /\ Write(cur, [obj[cur] EXCEPT !.fin = TRUE])
  /\ Reread(rec.status)
  /\ Goto(Proceed(rec'))
  /\ UNCHANGED <<cache, queue, cfdVars, remoteVars, tid, res, plan, list, spent>>

\* Cloudflare answers a create with an id it has not used before.
FreshId == CHOOSE i \in Id : i \notin issued

CreateTunnel ==
  /\ pc = "create" /\ issued # Id
  /\ Named(rec.spec.account, rec.spec.name) = {}
  /\ LET t == [account |-> rec.spec.account, name |-> rec.spec.name, src |-> rec.spec.src]
     IN  /\ remote' = [remote EXCEPT ![FreshId] = [account |-> t.account, name |-> t.name,
                                                   src |-> t.src, config |-> Nil]]
         /\ res' = [id |-> FreshId, account |-> t.account, name |-> t.name, src |-> t.src]
  /\ issued' = issued \cup {FreshId}
  /\ Goto("record")
  /\ UNCHANGED <<clusterVars, routes, access, rec, tid, plan, list, spent>>

\* The name is taken: a conflict, so the tunnel that has it is looked up.
CreateConflicts ==
  /\ pc = "create"
  /\ Named(rec.spec.account, rec.spec.name) # {}
  /\ Goto("adopt")
  /\ UNCHANGED <<clusterVars, remoteVars, rec, tid, res, plan, list, spent>>

AdoptTunnel ==
  /\ pc = "adopt"
  /\ \E i \in Id : Named(rec.spec.account, rec.spec.name) = {i} /\ res' = Answer(i)
  /\ Goto("record")
  /\ UNCHANGED <<clusterVars, remoteVars, rec, tid, plan, list, spent>>

\* The conflicting tunnel went between the two calls; a failed create is retried later.
AdoptNothing ==
  /\ pc = "adopt" /\ Named(rec.spec.account, rec.spec.name) = {}
  /\ Return(Requeued)
  /\ UNCHANGED <<obj, cache, news, cfdVars, remoteVars, spent>>

AdoptAmbiguous ==
  /\ pc = "adopt"
  /\ \E i, j \in Named(rec.spec.account, rec.spec.name) : i # j
  /\ Goto("degradeAmbiguous")
  /\ UNCHANGED <<clusterVars, remoteVars, rec, tid, res, plan, list, spent>>

RecordTunnel ==
  /\ pc = "record"
  /\ PatchStatus([rec.status EXCEPT !.id = res.id, !.account = res.account,
                    !.conditions = [progressing |-> "recorded", degraded |-> @.degraded]])
  /\ Return(Requeued)
  /\ UNCHANGED <<cache, cfdVars, remoteVars, spent>>

-----------------------------------------------------------------------------
(* updateTunnel *)

AfterName(t) == IF PushesConfig(t) THEN "config" ELSE "routes"

GetTunnel ==
  /\ pc = "get" /\ Found(rec.status.id, rec.spec.account)
  /\ tid' = rec.status.id
  /\ res' = Answer(rec.status.id)
  /\ Goto(IF res'.name # rec.spec.name THEN "edit" ELSE AfterName(res'))
  /\ UNCHANGED <<clusterVars, remoteVars, rec, plan, list, spent>>

EditTunnel ==
  /\ pc = "edit" /\ Found(tid, rec.spec.account)
  /\ Named(rec.spec.account, rec.spec.name) = {}
  /\ remote' = [remote EXCEPT ![tid].name = rec.spec.name]
  /\ res' = [res EXCEPT !.name = rec.spec.name]
  /\ Goto(AfterName(res))
  /\ UNCHANGED <<clusterVars, issued, routes, access, rec, tid, plan, list, spent>>

UpdateConfiguration ==
  /\ pc = "config" /\ Found(tid, rec.spec.account)
  /\ remote' = [remote EXCEPT ![tid].config = rec.spec.config]
  /\ Goto("routes")
  /\ UNCHANGED <<clusterVars, issued, routes, access, rec, tid, res, plan, list, spent>>

\* Cloudflare refuses: no such tunnel, or its new name is taken.
UpdateRefused ==
  /\ \/ pc \in {"get", "edit", "config"} /\ ~Found(rec.status.id, rec.spec.account)
     \/ pc = "edit" /\ Named(rec.spec.account, rec.spec.name) # {}
  /\ Return(Requeued)
  /\ UNCHANGED <<obj, cache, news, cfdVars, remoteVars, spent>>

\* ListRoutes and, where there is something to compare with, ListVirtualNetworks.
ListRoutes ==
  /\ pc = "routes"
  /\ plan' = IF access
             THEN RoutePlan(rec.spec, rec.status.account, ExistingRoutes(tid, rec.status.account))
             ELSE NoAccessPlan(rec.spec)
  /\ Goto(AfterPlan(plan'))
  /\ UNCHANGED <<clusterVars, remoteVars, rec, tid, res, list, spent>>

DropRoute ==
  /\ pc = "dropRoute"
  /\ \E s \in plan.drop :
       /\ routes' = [routes EXCEPT ![s] = IF @ = tid THEN Nil ELSE @]
       /\ plan' = [plan EXCEPT !.drop = @ \ {s}]
  /\ Goto(AfterPlan(plan'))
  /\ UNCHANGED <<clusterVars, remote, issued, access, rec, tid, res, list, spent>>

\* A network that is routed already is refused, which is reported and not retried.
AddRoute ==
  /\ pc = "addRoute"
  /\ \E r \in plan.add :
       LET s == SlotOf(rec.status.account, r)
           granted == routes[s] = Nil /\ Found(tid, rec.status.account)
       IN  /\ routes' = IF granted THEN [routes EXCEPT ![s] = tid] ELSE routes
           /\ plan' = [plan EXCEPT !.add = @ \ {r},
                                   !.ready = IF granted THEN @ + 1 ELSE @,
                                   !.problem = @ \/ ~granted]
  /\ Goto(AfterPlan(plan'))
  /\ UNCHANGED <<clusterVars, remote, issued, access, rec, tid, res, list, spent>>

\* One patch for all that the update found; then the Cloudflareds, if any are asked for.
UpdateStatus ==
  /\ pc = "status"
  /\ LET new == [id |-> res.id, account |-> res.account, routesReady |-> plan.ready,
                 conditions |-> [progressing |-> "updated", degraded |-> DegradedBy(res, plan)]]
     IN  /\ PatchStatus(new)
         /\ LET sel == Refreshed(obj'[cur], new).spec.cloudflared
            IN  \/ /\ sel = Nil
                   /\ Return(queue)
                \/ /\ sel # Nil
                   /\ Reread(new)
                   /\ Goto(IF sel.selector = Nil THEN "degradeSelector" ELSE "select")
                   /\ UNCHANGED <<queue, tid, res, plan, list>>
  /\ UNCHANGED <<cache, cfdVars, remoteVars, spent>>

-----------------------------------------------------------------------------
(* The Cloudflareds of a tunnel *)

\* The template is used when the selector matched nothing.
AfterSelect(l, selector, template) ==
  CASE Left(l) # {}                                -> "apply"
    [] Left(l) = {} /\ template \notin selector    -> "degradeTemplate"
    [] Left(l) = {} /\ template \in selector       -> "createCloudflared"

SelectCloudflareds ==
  /\ pc = "select"
  /\ LET selector == rec.spec.cloudflared.selector
         l == Selected(selector)
         new == [rec.status EXCEPT !.conditions.progressing = "selecting"]
     IN  /\ PatchStatus(new)
         /\ LET template == Refreshed(obj'[cur], new).spec.cloudflared.template
            IN  \/ /\ Left(l) = {} /\ template = Nil
                   /\ Return(queue)
                \/ /\ Left(l) # {} \/ template # Nil
                   /\ Reread(new)
                   /\ list' = l
                   /\ Goto(AfterSelect(l, selector, template))
                   /\ UNCHANGED <<queue, tid, res, plan>>
  /\ UNCHANGED <<cache, cfdVars, remoteVars, spent>>

\* An Update carries the version that was listed; the last one ends the reconcile.
ApplyConfig ==
  /\ pc = "apply"
  /\ \E f \in Left(list) :
       /\ cfd[f] = list[f]
       /\ WriteCloudflared(f, [list[f] EXCEPT !.tunnelId = tid])
       /\ \/ /\ Left(list) = {f}
             /\ Return(queue)
          \/ /\ Left(list) # {f}
             /\ list' = [list EXCEPT ![f] = Nil]
             /\ UNCHANGED <<pc, cur, rec, tid, res, plan, queue>>
  /\ UNCHANGED <<obj, cache, news, cfdCache, remoteVars, spent>>

ApplyConflicts ==
  /\ pc = "apply"
  /\ \E f \in Left(list) : cfd[f] # list[f]
  /\ Return(Requeued)
  /\ UNCHANGED <<obj, cache, news, cfdVars, remoteVars, spent>>

\* The Cloudflared of the template has the name of the tunnel, which may be taken.
CreateCloudflared ==
  /\ pc = "createCloudflared"
  /\ \/ /\ cfd[cur] = Nil
        /\ WriteCloudflared(cur, [label |-> rec.spec.cloudflared.template, owner |-> cur,
                                  tunnelId |-> tid])
        /\ Return(queue)
     \/ /\ cfd[cur] # Nil
        /\ Return(Requeued)
        /\ UNCHANGED <<cfd, cfdNews>>
  /\ UNCHANGED <<obj, cache, news, cfdCache, remoteVars, spent>>

\* A problem of the spec is recorded.  After a failed create the object is retried.
RecordComplaint ==
  /\ pc \in DOMAIN Complaint
  /\ PatchStatus(Degrade(Complaint[pc]))
  /\ Return(IF pc \in {"degradeSecret", "degradeAmbiguous"} THEN Requeued ELSE queue)
  /\ UNCHANGED <<cache, cfdVars, remoteVars, spent>>

-----------------------------------------------------------------------------
(* finalize *)

\* Cloudflareds first; without an id there is nothing to delete at Cloudflare.
Finalize ==
  /\ pc = "finalize"
  /\ LET sel == rec.spec.cloudflared
         l == IF sel = Nil \/ sel.selector = Nil THEN NoList ELSE Selected(sel.selector)
     IN  /\ list' = l
         /\ tid' = rec.status.id
         /\ Goto(CASE Left(l) # {}                          -> "markCloudflareds"
                   [] Left(l) = {} /\ rec.status.id = Nil   -> "release"
                   [] Left(l) = {} /\ rec.status.id # Nil   -> "listRoutes")
  /\ UNCHANGED <<clusterVars, remoteVars, rec, res, plan, spent>>

MarkCloudflareds ==
  /\ pc = "markCloudflareds"
  /\ PatchStatus(Degrade("deletingCloudflareds")) /\ Reread(Degrade("deletingCloudflareds"))
  /\ Goto("deleteCloudflared")
  /\ UNCHANGED <<cache, queue, cfdVars, remoteVars, tid, res, plan, list, spent>>

\* Variant: nothing is deleted.
DeleteCloudflaredNot ==
  /\ pc = "deleteCloudflared"
  /\ Return(Requeued)
  /\ UNCHANGED <<obj, cache, news, cfdVars, remoteVars, spent>>

\* One that is not owned ends the loop; the object comes back in any case.
DeleteCloudflared ==
  /\ pc = "deleteCloudflared"
  /\ \E f \in Left(list) :
       \/ /\ list[f].owner # cur
          /\ Return(Requeued)
          /\ UNCHANGED <<cfd, cfdNews>>
       \/ /\ list[f].owner = cur
          /\ WriteCloudflared(f, Nil)
          /\ \/ /\ Left(list) = {f} \/ cfd[f] = Nil
                /\ Return(Requeued)
             \/ /\ Left(list) # {f} /\ cfd[f] # Nil
                /\ list' = [list EXCEPT ![f] = Nil]
                /\ UNCHANGED <<pc, cur, rec, tid, res, plan, queue>>
  /\ UNCHANGED <<obj, cache, news, cfdCache, remoteVars, spent>>

\* Every route of the tunnel goes before the tunnel.
AfterPurge(p) == IF p.drop = {} THEN "markTunnel" ELSE "purgeRoute"

\* Variant: the routes are left to themselves.
ListNoRoutesToDelete ==
  /\ pc = "listRoutes"
  /\ plan' = NoPlan
  /\ Goto(AfterPurge(plan'))
  /\ UNCHANGED <<clusterVars, remoteVars, rec, tid, res, list, spent>>

ListRoutesToDelete ==
  /\ pc = "listRoutes"
  /\ plan' = [NoPlan EXCEPT !.drop = IF access THEN ExistingRoutes(tid, rec.status.account) ELSE {}]
  /\ Goto(AfterPurge(plan'))
  /\ UNCHANGED <<clusterVars, remoteVars, rec, tid, res, list, spent>>

PurgeRoute ==
  /\ pc = "purgeRoute"
  /\ \E s \in plan.drop :
       /\ routes' = [routes EXCEPT ![s] = IF @ = tid THEN Nil ELSE @]
       /\ plan' = [plan EXCEPT !.drop = @ \ {s}]
  /\ Goto(AfterPurge(plan'))
  /\ UNCHANGED <<clusterVars, remote, issued, access, rec, tid, res, list, spent>>

MarkTunnel ==
  /\ pc = "markTunnel"
  /\ PatchStatus(Degrade("deletingTunnel")) /\ Reread(Degrade("deletingTunnel"))
  /\ Goto("deleteTunnel")
  /\ UNCHANGED <<cache, queue, cfdVars, remoteVars, tid, res, plan, list, spent>>

\* Variant: in the account of the spec.
DeleteTunnelBySpec ==
  /\ pc = "deleteTunnel"
  /\ remote' = [remote EXCEPT ![tid] = IF Found(tid, rec.spec.account) THEN Nil ELSE @]
  /\ Goto("release")
  /\ UNCHANGED <<clusterVars, issued, routes, access, rec, tid, res, plan, list, spent>>

\* In the account of the status; a tunnel that is not there counts as deleted.
DeleteTunnel ==
  /\ pc = "deleteTunnel"
  /\ remote' = [remote EXCEPT ![tid] = IF Found(tid, rec.status.account) THEN Nil ELSE @]
  /\ Goto("release")
  /\ UNCHANGED <<clusterVars, issued, routes, access, rec, tid, res, plan, list, spent>>

\* Without its finalizer an object under deletion is gone.
Release ==
  /\ pc = "release" /\ obj[cur] # Nil
  /\ Write(cur, CASE ~rec.fin                       -> obj[cur]
                  [] rec.fin /\ obj[cur].deleting  -> Nil
                  [] rec.fin /\ ~obj[cur].deleting -> [obj[cur] EXCEPT !.fin = FALSE])
  /\ Return(queue)
  /\ UNCHANGED <<cache, cfdVars, remoteVars, spent>>

\* A patch of an object that is gone is an error.
PatchGone ==
  /\ pc \in {"conditions", "addFinalizer", "record", "status", "select",
             "markCloudflareds", "markTunnel", "release"} \cup DOMAIN Complaint
  /\ obj[cur] = Nil
  /\ Return(Requeued)
  /\ UNCHANGED <<obj, cache, news, cfdVars, remoteVars, spent>>

ReconcileStep ==
  \/ InitConditions \/ AddFinalizer
  \/ CreateTunnel \/ CreateConflicts \/ AdoptTunnel \/ AdoptNothing \/ AdoptAmbiguous \/ RecordTunnel
  \/ GetTunnel \/ EditTunnel \/ UpdateConfiguration \/ UpdateRefused
  \/ ListRoutes \/ DropRoute \/ AddRoute \/ UpdateStatus
  \/ SelectCloudflareds \/ ApplyConfig \/ ApplyConflicts \/ CreateCloudflared \/ RecordComplaint
  \/ Finalize \/ MarkCloudflareds \/ DeleteCloudflared
  \/ ListRoutesToDelete \/ PurgeRoute \/ MarkTunnel \/ DeleteTunnel \/ Release \/ PatchGone

-----------------------------------------------------------------------------
(* Failures and the environment *)

Spend(k) ==
  /\ spent[k] < Budget[k]
  /\ k \in {"fault", "outside"} => spent["fault"] + spent["outside"] < Mishaps
  /\ spent' = [spent EXCEPT ![k] = @ + 1]

\* A call fails, or its answer is lost; every error puts the object back on the queue.
CallFails ==
  /\ pc \in Calls
  /\ Spend("fault")
  /\ Return(Requeued)
  /\ UNCHANGED <<obj, cache, news, cfdVars, remoteVars>>

\* The tunnel secret cannot be read or is too short; nothing is created.
SecretFails ==
  /\ pc = "create"
  /\ Spend("fault")
  /\ Goto("degradeSecret")
  /\ UNCHANGED <<clusterVars, remoteVars, rec, tid, res, plan, list>>

Restart ==
  /\ Spend("fault")
  /\ cache' = obj /\ news' = {}
  /\ cfdCache' = cfd /\ cfdNews' = {}
  /\ Return({c \in CT : obj[c] # Nil})
  /\ UNCHANGED <<obj, cfd, remoteVars>>

Sync(c) ==
  /\ c \in news
  /\ cache' = [cache EXCEPT ![c] = obj[c]]
  /\ news' = news \ {c}
  /\ queue' = queue \cup {c}
  /\ UNCHANGED <<obj, cfdVars, remoteVars, workerVars, spent>>

\* Cloudflareds reach the cache but enqueue no tunnel.
SyncCloudflared(f) ==
  /\ f \in cfdNews
  /\ cfdCache' = [cfdCache EXCEPT ![f] = cfd[f]]
  /\ cfdNews' = cfdNews \ {f}
  /\ UNCHANGED <<obj, cache, news, queue, cfd, remoteVars, workerVars, spent>>

\* The status of an owned DnsRecord changes, which enqueues the tunnel.
DnsRecordChanges(c) ==
  /\ cache[c] # Nil /\ Spend("outside")
  /\ queue' = queue \cup {c}
  /\ UNCHANGED <<obj, cache, news, cfdVars, remoteVars, workerVars>>

\* The garbage collector removes Cloudflareds whose tunnel is gone.
Collect(f) ==
  /\ cfd[f] # Nil /\ cfd[f].owner # Nil /\ obj[cfd[f].owner] = Nil
  /\ WriteCloudflared(f, Nil)
  /\ UNCHANGED <<obj, cache, news, queue, cfdCache, remoteVars, workerVars, spent>>

\* The name of a deleted tunnel is used again only after the collector is done.
UserCreates(c, s) ==
  /\ obj[c] = Nil /\ Spend("user")
  /\ \A f \in CF : cfd[f] # Nil => cfd[f].owner # c
  /\ Write(c, [deleting |-> FALSE, fin |-> FALSE, spec |-> s, status |-> NoStatus])
  /\ UNCHANGED <<cache, queue, cfdVars, remoteVars, workerVars>>

UserEdits(c, s) ==
  /\ obj[c] # Nil /\ obj[c].spec # s /\ Spend("user")
  /\ Write(c, [obj[c] EXCEPT !.spec = s])
  /\ UNCHANGED <<cache, queue, cfdVars, remoteVars, workerVars>>

UserDeletes(c) ==
  /\ obj[c] # Nil /\ ~obj[c].deleting /\ Spend("user")
  /\ Write(c, IF obj[c].fin THEN [obj[c] EXCEPT !.deleting = TRUE] ELSE Nil)
  /\ UNCHANGED <<cache, queue, cfdVars, remoteVars, workerVars>>

UserCreatesCloudflared(f, l) ==
  /\ cfd[f] = Nil /\ Spend("cloudflared")
  /\ WriteCloudflared(f, [label |-> l, owner |-> Nil, tunnelId |-> Nil])
  /\ UNCHANGED <<obj, cache, news, queue, cfdCache, remoteVars, workerVars>>

UserDeletesCloudflared(f) ==
  /\ cfd[f] # Nil /\ Spend("cloudflared")
  /\ WriteCloudflared(f, Nil)
  /\ UNCHANGED <<obj, cache, news, queue, cfdCache, remoteVars, workerVars>>

\* Somebody deletes a tunnel, with its routes, in the Cloudflare dashboard.
RemovedUpstream(i) ==
  /\ remote[i] # Nil /\ Spend("outside")
  /\ remote' = [remote EXCEPT ![i] = Nil]
  /\ routes' = [s \in Slot |-> IF routes[s] = i THEN Nil ELSE routes[s]]
  /\ UNCHANGED <<clusterVars, issued, access, workerVars>>

Environment ==
  \/ \E c \in CT : \/ UserDeletes(c) \/ DnsRecordChanges(c)
                   \/ \E s \in SpecsOf[c] : UserCreates(c, s) \/ UserEdits(c, s)
  \/ \E f \in CF : UserDeletesCloudflared(f) \/ \E l \in Label : UserCreatesCloudflared(f, l)
  \/ \E i \in Id : RemovedUpstream(i)

Next ==
  \/ \E c \in CT : ReconcileGone(c) \/ Reconcile(c) \/ Sync(c)
  \/ ReconcileStep
  \/ \E f \in CF : SyncCloudflared(f) \/ Collect(f)
  \/ CallFails \/ SecretFails \/ Restart
  \/ Environment

Spec == Init /\ [][Next]_vars

\* As for DnsRecords; the garbage collector does its work, too.
Fairness ==
  /\ WF_vars(ReconcileStep)
  /\ \A c \in CT : WF_vars(Sync(c)) /\ SF_vars(Reconcile(c)) /\ WF_vars(ReconcileGone(c))
  /\ \A f \in CF : WF_vars(SyncCloudflared(f)) /\ WF_vars(Collect(f))

FairSpec == Spec /\ Fairness

-----------------------------------------------------------------------------
(* Properties *)

\* The tunnel that o tracks is in the account of its status and has its name.
Owns(o) ==
  o # Nil => (o.status.id # Nil =>
    /\ o.status.id \in issued
    /\ remote[o.status.id] # Nil => /\ remote[o.status.id].account = o.status.account
                                    /\ remote[o.status.id].name = o.spec.name)

(***************************************************************************)
(* Names identify tunnels (adoptTunnel), ids address them (updateTunnel,   *)
(* deleteTunnel).  While spec.name stays as it is no copy of a status,     *)
(* however old, names a tunnel of another name or pairs the id with        *)
(* another account, so none but the tunnel of that name is ever renamed,   *)
(* configured or deleted, although a create may have been repeated after a *)
(* failure and spec.accountId may have changed since.                      *)
(***************************************************************************)
TracksOwnTunnel ==
  /\ \A c \in CT : Owns(obj[c]) /\ Owns(cache[c])
  /\ Owns(rec)

(***************************************************************************)
(* deleteRoutes runs before deleteTunnel so that no route outlives its     *)
(* tunnel: with a token that may manage routes every route points at a     *)
(* tunnel that exists, whatever failed in between and whoever shares the   *)
(* tunnel.                                                                 *)
(***************************************************************************)
NoRouteOutlivesTunnel == access => \A s \in Slot : routes[s] # Nil => remote[routes[s]] # Nil

(***************************************************************************)
(* finalize: an object whose status names a tunnel goes only after that    *)
(* tunnel is gone from the account it was created in, unless Reconcile     *)
(* worked from an outdated copy of the status.                             *)
(***************************************************************************)
CleanRelease ==
  [][\A c \in CT :
       (/\ pc = "release" /\ cur = c /\ obj[c] # Nil /\ obj'[c] = Nil
        /\ tid = obj[c].status.id /\ tid # Nil)
       => remote[obj[c].status.id] = Nil]_vars

\* Nothing is running, queued or on its way to the cache.
Quiet == pc = "idle" /\ queue = {} /\ news = {}

\* The networks a spec asks for, as Cloudflare files them.
WantedSlots(s) == {SlotOf(s.account, [net |-> Masked[r.cidr], vnet |-> r.vnet]) : r \in Parsed(s)}

Complete(c) ==
  LET o == obj[c]
      t == remote[o.status.id]
      mine == ExistingRoutes(o.status.id, o.spec.account)
  IN  /\ o.status.id # Nil
      /\ Found(o.status.id, o.spec.account)
      /\ t.name = o.spec.name
      /\ o.spec.config # Nil /\ t.src = "cloudflare" /\ ValidIngress(o.spec.config)
           => t.config = o.spec.config
      /\ access => /\ mine \subseteq WantedSlots(o.spec)
                   /\ mine = WantedSlots(o.spec) \/ o.status.conditions.degraded # "no"
                   /\ o.status.routesReady = Cardinality(mine)

(***************************************************************************)
(* Once the controller has nothing left to do, a tunnel that is not being  *)
(* deleted exists at Cloudflare with the name, the configuration (if       *)
(* Cloudflare keeps it) and no other routes than those of its spec;        *)
(* routesReady counts them, and a route that is missing is reported.       *)
(* Tunnels deleted in the dashboard are never created again.               *)
(***************************************************************************)
QuietMeansComplete ==
  Quiet /\ spent["outside"] = 0 =>
    \A c \in CT : obj[c] # Nil /\ ~obj[c].deleting => Complete(c)

\* A Cloudflared that is not the tunnel's own but that its selector matches.
Foreign(c, f) ==
  /\ cfd[f] # Nil /\ cfd[f].owner # c
  /\ obj[c] # Nil /\ obj[c].spec.cloudflared # Nil
  /\ obj[c].spec.cloudflared.selector # Nil
  /\ cfd[f].label \in obj[c].spec.cloudflared.selector

(***************************************************************************)
(* A tunnel under deletion goes, whether or not it ever got an id, however *)
(* malformed its selector is, and although the Cloudflareds it owns have   *)
(* to go first, unless a Cloudflared of somebody else stays selected.      *)
(***************************************************************************)
DeletionCompletes ==
  \A c \in CT : (obj[c] # Nil /\ obj[c].deleting)
               ~> (obj[c] = Nil \/ ~obj[c].deleting \/ \E f \in CF : Foreign(c, f))

\* What keeps the controller from resting: a refusal that is retried, or Cloudflareds.
Retrying ==
  \/ pc = "degradeAmbiguous"
  \/ pc \in {"get", "edit", "config"} /\ ~Found(rec.status.id, rec.spec.account)
  \/ pc = "edit" /\ Named(rec.spec.account, rec.spec.name) # {}
  \/ \E c \in CT : obj[c] # Nil /\ obj[c].spec.cloudflared # Nil

(***************************************************************************)
(* A tunnel without spec.cloudflared comes to rest: its own status patches *)
(* enqueue it again, but only until they change nothing.                   *)
(***************************************************************************)
ComesToRest == <>[](queue = {} /\ pc = "idle") \/ []<>Retrying

\* Tunnel c is there to stay, and its selector matches Cloudflared f.
Selects(c, f) ==
  /\ obj[c] # Nil /\ ~obj[c].deleting /\ obj[c].spec.cloudflared # Nil
  /\ obj[c].status.id # Nil /\ Found(obj[c].status.id, obj[c].spec.account)
  /\ remote[obj[c].status.id].name = obj[c].spec.name
  /\ cfd[f] # Nil /\ obj[c].spec.cloudflared.selector # Nil
  /\ cfd[f].label \in obj[c].spec.cloudflared.selector

(***************************************************************************)
(* A Cloudflared that stays selected by a tunnel with an id is given that  *)
(* id, although Cloudflareds enqueue no tunnel, although the list comes    *)
(* from a cache that lags and although an Update of an outdated copy is a  *)
(* conflict.                                                               *)
(***************************************************************************)
SelectedAreConfigured ==
  \A c \in CT, f \in CF :
    <>[]Selects(c, f) => <>[](cfd[f] # Nil /\ obj[c] # Nil /\ cfd[f].tunnelId = obj[c].status.id)

(***************************************************************************)
(* The comment above the selector check of Reconcile: a malformed selector *)
(* is recorded and left alone until the user edits the resource.           *)
(***************************************************************************)
SpecProblemLeftAlone == <>[](queue = {} /\ pc = "idle")

(***************************************************************************)
(* The comment above finalize: it deletes what the tunnel owns, then the   *)
(* tunnel itself, before releasing the finalizer.  Then a tunnel under     *)
(* deletion goes, whatever Cloudflareds of others its selector matches.    *)
(***************************************************************************)
FinalizerReleased == \A c \in CT : (obj[c] # Nil /\ obj[c].deleting) ~> (obj[c] = Nil \/ ~obj[c].deleting)

(***************************************************************************)
(* The comment in finalize: without a status id the tunnel was never       *)
(* created at Cloudflare.  Then no tunnel outlives the object it was       *)
(* created for.                                                            *)
(***************************************************************************)
NoOrphan ==
  \A i \in Id : remote[i] # Nil =>
    \E c \in CT : obj[c] # Nil /\ obj[c].spec.account = remote[i].account /\ obj[c].spec.name = remote[i].name
=============================================================================
