---------------------------- MODULE TunnelProofs ----------------------------
(***************************************************************************)
(* Proofs about TunnelController, for every set of objects, ids, accounts, *)
(* names, networks and specs, any number of failures, restarts and         *)
(* interventions, and whatever tunnels there were before.                  *)
(***************************************************************************)
EXTENDS TunnelController, FiniteSetTheorems, TLAPS

-----------------------------------------------------------------------------
(* Assumptions of single theorems *)

\* No user changes the name of a tunnel.
FixedNames == \A c \in CT : \A s, t \in SpecsOf[c] : s.name = t.name

\* No two objects ask for a tunnel of the same name in the same account.
OwnTunnels ==
  \A c, d \in CT : c # d => \A s \in SpecsOf[c], t \in SpecsOf[d] : s.account # t.account \/ s.name # t.name

\* Before the first run every route leads to a tunnel of its account.
RoutedBefore ==
  \A b \in Before : b.access =>
    \A s \in Slot : b.routes[s] # Nil => /\ b.remote[b.routes[s]] # Nil
                                         /\ b.remote[b.routes[s]].account = s.account

-----------------------------------------------------------------------------
(* The inductive invariants *)

\* What an answer of Cloudflare is.
Answers == [id : Id, account : Account, name : Name, src : Sources]

\* The calls by what has happened before them.
Creating == {"create", "adopt", "record", "degradeSecret", "degradeAmbiguous"}
Updating == {"edit", "config", "routes", "dropRoute", "addRoute", "status"}
Serving  == {"select", "apply", "createCloudflared", "degradeSelector", "degradeTemplate"}
Deleting == {"listRoutes", "purgeRoute", "markTunnel", "deleteTunnel"}

\* What Reconcile's local variables hold at each call.
LocalsInv ==
  /\ pc # "idle" => cur \in CT /\ rec \in Object
  /\ pc \in Creating \cup Updating \cup Serving \cup {"get"} => rec.status.conditions \in Conditions
  /\ pc = "get" => rec.status.id \in Id
  /\ pc \in Updating \cup {"record"} => res \in Answers
  /\ pc \in Updating \cup Serving \cup Deleting => tid \in Id
  /\ pc \in Serving => rec.spec.cloudflared \in Selection
  /\ pc = "select" => rec.spec.cloudflared.selector \in SUBSET Label
  /\ pc = "createCloudflared" => rec.spec.cloudflared.template \in Label

\* A spec lists finitely many routes.
Listable(o) == o # Nil => IsFiniteSet(o.spec.routes)
FiniteInv == (\A c \in CT : Listable(obj[c]) /\ Listable(cache[c])) /\ Listable(rec)

TypeInv == TypeOK /\ LocalsInv /\ FiniteInv

\* A status has an id and an account or neither; the id was issued, and if the
\* tunnel is there it is in that account.
Known(i, a, tunnels, ids) == i \in ids /\ (tunnels[i] # Nil => tunnels[i].account = a)
Paired(st, tunnels, ids) ==
  /\ st.id = Nil <=> st.account = Nil
  /\ st.id # Nil => Known(st.id, st.account, tunnels, ids)
Booked(o, tunnels, ids) == o # Nil => Paired(o.status, tunnels, ids)

\* Every copy of a status, and the answer that is about to be written into one.
BookInv ==
  /\ \A i \in Id : remote[i] # Nil => i \in issued
  /\ \A c \in CT : Booked(obj[c], remote, issued) /\ Booked(cache[c], remote, issued)
  /\ Booked(rec, remote, issued)
  /\ pc \in Creating => rec.status.id = Nil
  /\ pc = "record" => Known(res.id, res.account, remote, issued)
  /\ pc \in Updating => tid = rec.status.id /\ res.id = tid /\ res.account = rec.status.account
  /\ pc = "idle" => rec = Nil

\* Where deleting a tunnel has got to.
GoneInv ==
  /\ pc \in {"listRoutes", "purgeRoute", "markTunnel"} => tid = rec.status.id
  /\ pc = "deleteTunnel" => \/ tid = rec.status.id
                            \/ obj[cur] # Nil => obj[cur].status.id # tid
  /\ pc \in {"deleteTunnel", "release"} /\ tid # Nil => tid \in issued
  /\ pc = "release" /\ tid # Nil => remote[tid] = Nil \/ (obj[cur] # Nil => obj[cur].status.id # tid)

\* A route leads to a tunnel of its account, and none to one that is about to go.
RouteInv ==
  access =>
    /\ \A s \in Slot : routes[s] # Nil => remote[routes[s]] # Nil /\ remote[routes[s]].account = s.account
    /\ pc \in {"purgeRoute", "markTunnel", "deleteTunnel"} => \A s \in Slot : routes[s] = tid => s \in plan.drop
    /\ pc \in {"markTunnel", "deleteTunnel"} => plan.drop = {}

\* The name of an object, and of the tunnel that its status names.
NameOK(c, o, tunnels) ==
  o # Nil => /\ \E s \in SpecsOf[c] : o.spec.name = s.name
             /\ o.status.id # Nil => (tunnels[o.status.id] # Nil => tunnels[o.status.id].name = o.spec.name)
NameInv ==
  /\ \A c \in CT : NameOK(c, obj[c], remote) /\ NameOK(c, cache[c], remote)
  /\ pc # "idle" => NameOK(cur, rec, remote)
  /\ pc # "edit"
  /\ pc = "record" => (remote[res.id] # Nil => remote[res.id].name = rec.spec.name)

\* Some spec of object c has this account and this name.
Asks(c, a, n) == \E s \in SpecsOf[c] : s.account = a /\ s.name = n
AsksFor(c, i, tunnels) == tunnels[i] # Nil => Asks(c, tunnels[i].account, tunnels[i].name)
OwnOK(c, o, tunnels) ==
  o # Nil => /\ Asks(c, o.spec.account, o.spec.name)
             /\ o.status.id # Nil => AsksFor(c, o.status.id, tunnels)

\* No object's copies and no step of Reconcile for it lead to the tunnel of another one.
OwnInv ==
  /\ \A c \in CT : OwnOK(c, obj[c], remote) /\ OwnOK(c, cache[c], remote)
  /\ pc # "idle" => OwnOK(cur, rec, remote)
  /\ pc = "record" => AsksFor(cur, res.id, remote)
  /\ pc \in Deleting => tid \in issued /\ AsksFor(cur, tid, remote)

SlotsOf(a, rs) == {SlotOf(a, r) : r \in rs}

\* What updateRoutes still has to do: nothing that stays is unwanted or uncounted,
\* and what is missing is on the list or has been noticed.
Planned(p, s, mine) ==
  /\ mine \ p.drop \subseteq WantedSlots(s)
  /\ IsFiniteSet(mine \ p.drop) /\ p.ready = Cardinality(mine \ p.drop)
  /\ SlotsOf(s.account, p.add) \subseteq WantedSlots(s)
  /\ p.problem \/ WantedSlots(s) \subseteq (mine \ p.drop) \cup SlotsOf(s.account, p.add)
PlanInv ==
  /\ Planned(plan, rec.spec, ExistingRoutes(tid, rec.spec.account))
  /\ pc # "dropRoute" => plan.drop = {}
  /\ pc = "status" => plan.add = {}

\* How far updateTunnel has got, unless somebody removes the tunnel meanwhile.
WorkInv ==
  spent["outside"] = 0 /\ pc \in Updating =>
    /\ Found(tid, rec.spec.account)
    /\ pc # "edit" => remote[tid].name = rec.spec.name
    /\ res.src = remote[tid].src
    /\ pc \in {"routes", "dropRoute", "addRoute", "status"} =>
         (PushesConfig(res) => remote[tid].config = rec.spec.config)
    /\ access /\ pc \in {"dropRoute", "addRoute", "status"} => PlanInv

\* The calls of finalize.
Finalizing == Deleting \cup {"finalize", "markCloudflareds", "deleteCloudflared", "release"}

\* No event of c is under way to the worker.
Settled(c) == c \notin news \cup queue

\* The cache has what is no news.
Synced == \A c \in CT \ news : cache[c] = obj[c]

\* While its object is settled Reconcile has the object itself before it, and
\* has found nothing to change in it.
SyncInv ==
  /\ Synced
  /\ pc # "idle" /\ Settled(cur) =>
       /\ rec = obj[cur]
       /\ pc \in Finalizing => rec.deleting
       /\ pc \in Serving => /\ pc \in {"select", "degradeSelector"}
                            /\ rec.status.conditions.progressing = "updated"
                            /\ rec.status.conditions.degraded \in {"config", "ingress", "routes", "no"}

\* A settled object that Reconcile is not at work on is complete.
RestInv ==
  spent["outside"] = 0 =>
    \A c \in CT : Settled(c) /\ (pc = "idle" \/ cur # c) /\ obj[c] # Nil /\ ~obj[c].deleting => Complete(c)

-----------------------------------------------------------------------------
(* Types: the operators *)

LEMMA StatusFacts ==
  ASSUME NEW st \in Status
  PROVE  /\ st.id \in Id \cup {Nil} /\ st.account \in Account \cup {Nil}
         /\ st.conditions \in Conditions \cup {Nil} /\ st.routesReady \in Nat
BY DEF Status

LEMMA ObjectFacts ==
  ASSUME NEW o \in Object
  PROVE  o.deleting \in BOOLEAN /\ o.fin \in BOOLEAN /\ o.spec \in TunnelSpec /\ o.status \in Status
BY DEF Object

LEMMA MergedType ==
  ASSUME NEW now \in Status, NEW new \in Status, rec \in Object
  PROVE  Merged(now, new) \in Status
<1>1. rec.status \in Status
  BY ObjectFacts
<1>2. QED
  BY <1>1 DEF Merged, Status

LEMMA DecodedType ==
  ASSUME NEW now \in Status, NEW sent \in Status
  PROVE  Decoded(now, sent) \in Status
BY DEF Decoded, Status

\* An object with another status.
LEMMA WithStatus ==
  ASSUME NEW o \in Object, NEW s \in Status
  PROVE  /\ [o EXCEPT !.status = s] \in Object
         /\ [o EXCEPT !.status = s].status = s
         /\ [o EXCEPT !.status = s].spec = o.spec
         /\ [o EXCEPT !.status = s].fin = o.fin
         /\ [o EXCEPT !.status = s].deleting = o.deleting
BY DEF Object

\* The spec that an answer is decoded into.
LEMMA DecodedSpecType ==
  ASSUME NEW now \in TunnelSpec, NEW base \in TunnelSpec,
         IsFiniteSet(now.routes), IsFiniteSet(base.routes)
  PROVE  LET s == DecodedSpec(now, base)
         IN /\ s \in TunnelSpec /\ IsFiniteSet(s.routes)
            /\ s.name = now.name /\ s.account = now.account
            /\ base.cloudflared \in Selection => s.cloudflared \in Selection
<1> DEFINE config == IF now.config = Nil THEN base.config ELSE now.config
           rts == IF now.routes = {} THEN base.routes ELSE now.routes
           over(sel) == IF base.cloudflared # Nil /\ sel.template = Nil
                        THEN [sel EXCEPT !.template = base.cloudflared.template] ELSE sel
           cfl == IF now.cloudflared = Nil THEN base.cloudflared ELSE over(now.cloudflared)
<1>1. DecodedSpec(now, base) = [now EXCEPT !.config = config, !.routes = rts, !.cloudflared = cfl]
  BY DEF DecodedSpec, TunnelSpec
<1>2. /\ config \in Seq(BOOLEAN) \cup {Nil}
      /\ rts \in SUBSET RouteEntry /\ IsFiniteSet(rts)
  BY DEF TunnelSpec
<1>3. \A sel \in Selection : over(sel) \in Selection
  BY DEF TunnelSpec, Selection
<1>4. cfl \in Selection \cup {Nil} /\ (base.cloudflared \in Selection => cfl \in Selection)
  BY <1>3 DEF TunnelSpec
<1> HIDE DEF config, rts, cfl
<1>5. QED
  BY <1>1, <1>2, <1>4 DEF TunnelSpec

\* Patching a status, and the copy that is read from the answer.
LEMMA PatchEffect ==
  ASSUME TypeInv, pc # "idle", NEW new \in Status, PatchStatus(new)
  PROVE  /\ obj' \in [CT -> Object \cup {Nil}] /\ news' \subseteq CT
         /\ obj[cur] \in Object /\ obj'[cur] \in Object
         /\ obj'[cur].status = Merged(obj[cur].status, new)
         /\ obj'[cur].spec = obj[cur].spec /\ obj'[cur].fin = obj[cur].fin
         /\ obj'[cur].deleting = obj[cur].deleting
         /\ \A c \in CT \ {cur} : obj'[c] = obj[c]
         /\ \A c \in CT : Listable(obj'[c])
<1>1. cur \in CT /\ rec \in Object /\ obj \in [CT -> Object \cup {Nil}] /\ obj[cur] # Nil
  BY DEF TypeInv, TypeOK, LocalsInv, PatchStatus
<1>2. obj[cur] \in Object /\ obj[cur].status \in Status
  BY <1>1, ObjectFacts
<1>3. Merged(obj[cur].status, new) \in Status
  BY <1>1, <1>2, MergedType
<1> DEFINE st == Merged(obj[cur].status, new)
           o == [obj[cur] EXCEPT !.status = st]
<1>4. Write(cur, o)
  BY DEF PatchStatus
<1>5. /\ o \in Object /\ o.status = st /\ o.spec = obj[cur].spec /\ o.fin = obj[cur].fin
      /\ o.deleting = obj[cur].deleting
  BY <1>2, <1>3, WithStatus
<1> HIDE DEF o, st
<1>6. /\ obj' \in [CT -> Object \cup {Nil}] /\ obj'[cur] = o
      /\ \A c \in CT \ {cur} : obj'[c] = obj[c]
  BY <1>1, <1>4, <1>5 DEF Write
<1>7. news' \subseteq CT
  BY <1>1, <1>4 DEF Write, TypeInv, TypeOK
<1>8. \A c \in CT : Listable(obj'[c])
  BY <1>1, <1>2, <1>5, <1>6 DEF Listable, TypeInv, FiniteInv
<1>9. QED
  BY <1>2, <1>5, <1>6, <1>7, <1>8 DEF st

LEMMA RefreshEffect ==
  ASSUME rec \in Object, Listable(rec), rec # Nil, NEW o \in Object, Listable(o), o # Nil, NEW new \in Status
  PROVE  /\ Refreshed(o, new) \in Object /\ Listable(Refreshed(o, new))
         /\ Refreshed(o, new).status = Decoded(o.status, new)
         /\ Refreshed(o, new).spec = DecodedSpec(o.spec, rec.spec)
         /\ Refreshed(o, new).spec.name = o.spec.name
         /\ Refreshed(o, new).spec.account = o.spec.account
         /\ Refreshed(o, new).fin = o.fin /\ Refreshed(o, new).deleting = o.deleting
         /\ rec.spec.cloudflared \in Selection => Refreshed(o, new).spec.cloudflared \in Selection
<1> DEFINE st == Decoded(o.status, new)
           sp == DecodedSpec(o.spec, rec.spec)
<1>1. o.status \in Status /\ o.spec \in TunnelSpec /\ rec.spec \in TunnelSpec
  BY ObjectFacts
<1>2. IsFiniteSet(o.spec.routes) /\ IsFiniteSet(rec.spec.routes)
  BY DEF Listable
<1>3. st \in Status
  BY <1>1, DecodedType
<1>4. /\ sp \in TunnelSpec /\ IsFiniteSet(sp.routes) /\ sp.name = o.spec.name /\ sp.account = o.spec.account
      /\ rec.spec.cloudflared \in Selection => sp.cloudflared \in Selection
  BY <1>1, <1>2, DecodedSpecType
<1>5. Refreshed(o, new) = [o EXCEPT !.status = st, !.spec = sp]
  BY DEF Refreshed, Object
<1> HIDE DEF st, sp
<1>6. /\ [o EXCEPT !.status = st, !.spec = sp] \in Object
      /\ [o EXCEPT !.status = st, !.spec = sp].status = st
      /\ [o EXCEPT !.status = st, !.spec = sp].spec = sp
      /\ [o EXCEPT !.status = st, !.spec = sp].fin = o.fin
      /\ [o EXCEPT !.status = st, !.spec = sp].deleting = o.deleting
  BY <1>3, <1>4 DEF Object
<1>7. QED
  BY <1>4, <1>5, <1>6 DEF Listable, st, sp

LEMMA ReturnEffect ==
  ASSUME NEW q \in SUBSET CT, Return(q)
  PROVE  /\ pc' = "idle" /\ cur' = Nil /\ rec' = Nil /\ tid' = Nil /\ res' = Nil
         /\ plan' \in Plan /\ list' = NoList /\ queue' \subseteq CT
<1>1. NoPlan \in Plan
  BY DEF NoPlan, Plan
<1>2. QED
  BY <1>1 DEF Return

-----------------------------------------------------------------------------
(* Types: the steps *)

LEMMA InitType == ASSUME Init PROVE TypeInv
<1>1. PICK b \in Before : remote = b.remote /\ routes = b.routes /\ access = b.access
  BY DEF Init
<1>2. remote \in [Id -> Remote \cup {Nil}] /\ routes \in [Slot -> Id \cup {Nil}] /\ access \in BOOLEAN
  BY <1>1, ConstantsAssumption
<1>3. NoPlan \in Plan
  BY DEF NoPlan, Plan
<1>4. TypeOK
  BY <1>2, <1>3 DEF Init, TypeOK, NoList
<1>5. QED
  BY <1>4 DEF Init, TypeInv, LocalsInv, FiniteInv, Listable, Creating, Updating, Serving, Deleting

\* What the worker's variables must satisfy after a step that changes them.
LEMMA WorkerReturns ==
  ASSUME TypeInv, NEW q \in SUBSET CT, Return(q),
         obj' \in [CT -> Object \cup {Nil}], cache' \in [CT -> Object \cup {Nil}],
         \A c \in CT : Listable(obj'[c]) /\ Listable(cache'[c]),
         news' \subseteq CT,
         cfd' \in [CF -> Cloudflared \cup {Nil}], cfdCache' \in [CF -> Cloudflared \cup {Nil}], cfdNews' \subseteq CF,
         UNCHANGED remoteVars, spent' \in [Kinds -> Nat]
  PROVE  TypeInv'
<1>1. /\ pc' = "idle" /\ cur' = Nil /\ rec' = Nil /\ tid' = Nil /\ res' = Nil
      /\ plan' \in Plan /\ list' = NoList /\ queue' \subseteq CT
  BY ReturnEffect
<1>2. list' \in [CF -> Cloudflared \cup {Nil}]
  BY <1>1 DEF NoList
<1>3. TypeOK'
  BY <1>1, <1>2 DEF TypeInv, TypeOK, remoteVars
<1>4. QED
  BY <1>1, <1>3 DEF TypeInv, LocalsInv, FiniteInv, Listable, Creating, Updating, Serving, Deleting

\* A step that ends the reconcile and leaves the cluster as it is.
LEMMA ReturnType ==
  ASSUME TypeInv, pc # "idle", Return(queue) \/ Return(Requeued), UNCHANGED <<obj, cache, news, cfdVars, remoteVars>>,
         spent' \in [Kinds -> Nat]
  PROVE  TypeInv'
<1>1. PICK q \in SUBSET CT : Return(q)
  BY DEF Requeued, TypeInv, TypeOK, LocalsInv
<1>2. QED
  BY <1>1, WorkerReturns DEF cfdVars, TypeInv, TypeOK, FiniteInv

\* The status that a complaint makes.
LEMMA DegradeType ==
  ASSUME rec \in Object, NEW why \in Degraded
  PROVE  /\ Degrade(why) \in Status
         /\ Degrade(why).id = rec.status.id /\ Degrade(why).account = rec.status.account
         /\ Degrade(why).conditions \in Conditions
<1>1. rec.status \in Status
  BY ObjectFacts
<1> DEFINE c == rec.status.conditions
           new == [progressing |-> IF c = Nil THEN "unknown" ELSE c.progressing, degraded |-> why]
<1>2. new \in Conditions
  BY <1>1 DEF Status, Conditions, Progressing
<1>3. Degrade(why) = [rec.status EXCEPT !.conditions = new]
  BY <1>1 DEF Degrade, Status
<1> HIDE DEF new
<1>4. QED
  BY <1>1, <1>2, <1>3 DEF Status

\* A spec lists finitely many networks.
LEMMA RoutePlanType ==
  ASSUME NEW s \in TunnelSpec, IsFiniteSet(s.routes), NEW a, NEW existing \in SUBSET Slot
  PROVE  RoutePlan(s, a, existing) \in Plan
<1> DEFINE one(r) == [net |-> Masked[r.cidr], vnet |-> IF r.vnet = Nil /\ existing # {} THEN DefaultVnet ELSE r.vnet]
           desired == DesiredRoutes(s, existing)
           matched == {d \in desired : \E e \in existing : e.net = d.net /\ e.vnet = d.vnet}
<1>1. desired = {one(r) : r \in Parsed(s)}
  BY DEF DesiredRoutes
<1>2. IsFiniteSet(Parsed(s))
  BY FS_Subset DEF Parsed
<1>3. \A r \in Parsed(s) : one(r) \in [net : Net, vnet : Vnet \cup {Nil}]
  BY ConstantsAssumption DEF Parsed, TunnelSpec, RouteEntry
<1> HIDE DEF one
<1>4. IsFiniteSet(desired) /\ desired \subseteq [net : Net, vnet : Vnet \cup {Nil}]
  <2> DEFINE f == [r \in Parsed(s) |-> one(r)]
  <2>1. f \in Surjection(Parsed(s), desired)
    BY <1>1 DEF Surjection
  <2> HIDE DEF f, desired
  <2>2. IsFiniteSet(desired)
    BY <1>2, <2>1, FS_Surjection
  <2>3. QED
    BY <1>1, <1>3, <2>2
<1>5. matched \subseteq desired /\ IsFiniteSet(matched)
  BY <1>4, FS_Subset
<1>6. Cardinality(matched) \in Nat
  BY <1>5, FS_CardinalityType
<1> DEFINE drop == {e \in existing : \A d \in desired : e.net # d.net \/ e.vnet # d.vnet}
           problem == Parsed(s) # s.routes \/ Cardinality(desired) # Cardinality(Parsed(s))
<1>7. RoutePlan(s, a, existing) = [drop |-> drop, add |-> desired \ matched, ready |-> Cardinality(matched), problem |-> problem]
  BY Zenon DEF RoutePlan
<1>8. drop \in SUBSET Slot /\ problem \in BOOLEAN /\ desired \ matched \in SUBSET [net : Net, vnet : Vnet \cup {Nil}]
  BY <1>4
<1> HIDE DEF drop, problem, desired, matched
<1>9. QED
  BY <1>6, <1>7, <1>8 DEF Plan

\* A step of the worker that goes on, with the cluster's objects as they are.
LEMMA GotoType ==
  ASSUME TypeInv, pc # "idle", pc' \in Calls, UNCHANGED <<cur, rec, clusterVars, spent, issued, access>>,
         remote' \in [Id -> Remote \cup {Nil}], routes' \in [Slot -> Id \cup {Nil}],
         tid' \in Id \cup {Nil}, res' \in Answers \cup {Nil}, plan' \in Plan, list' \in [CF -> Cloudflared \cup {Nil}],
         LocalsInv'
  PROVE  TypeInv'
<1>1. TypeOK'
  BY DEF TypeInv, TypeOK, clusterVars, Answers
<1>2. FiniteInv'
  BY DEF TypeInv, FiniteInv, clusterVars
<1>3. QED
  BY <1>1, <1>2 DEF TypeInv

\* What the types say about the worker at a call.
LEMMA AtCall ==
  ASSUME TypeInv, pc # "idle"
  PROVE  /\ cur \in CT /\ rec \in Object /\ rec.status \in Status /\ rec.spec \in TunnelSpec
         /\ IsFiniteSet(rec.spec.routes) /\ rec # Nil
         /\ obj[cur] # Nil => obj[cur] \in Object
<1>1. cur \in CT /\ rec \in Object /\ rec # Nil
  BY NilAssumption DEF TypeInv, LocalsInv
<1>2. QED
  BY <1>1, ObjectFacts DEF TypeInv, TypeOK, FiniteInv, Listable

\* What Proceed answers with.
LEMMA ProceedFacts ==
  ASSUME NEW o \in Object
  PROVE  /\ Proceed(o) \in {"conditions", "addFinalizer", "create", "get"}
         /\ Proceed(o) \in {"create", "get"} => o.status.conditions \in Conditions
         /\ Proceed(o) = "get" => o.status.id \in Id
         /\ Proceed(o) = "create" => o.status.id = Nil
<1>1. o.fin \in BOOLEAN /\ o.status \in Status
  BY ObjectFacts
<1>2. QED
  BY <1>1 DEF Proceed, Status

\* Patching the status, reading the answer and going on.
LEMMA PatchRereadType ==
  ASSUME TypeInv, pc # "idle", NEW new \in Status, PatchStatus(new), Reread(new),
         UNCHANGED <<cache, queue, cfdVars, remoteVars, spent, cur>>,
         pc' \in Calls, tid' \in Id \cup {Nil}, res' \in Answers \cup {Nil}, plan' \in Plan,
         list' \in [CF -> Cloudflared \cup {Nil}], rec' \in Object => LocalsInv'
  PROVE  TypeInv'
<1>1. /\ cur \in CT /\ rec \in Object /\ rec.status \in Status /\ rec.spec \in TunnelSpec
      /\ IsFiniteSet(rec.spec.routes) /\ rec # Nil
  BY AtCall
<1>2. /\ obj' \in [CT -> Object \cup {Nil}] /\ news' \subseteq CT
      /\ obj'[cur] \in Object /\ \A c \in CT : Listable(obj'[c])
  BY PatchEffect
<1>3. obj'[cur] # Nil
  BY <1>2, NilAssumption
<1>4. rec' \in Object /\ Listable(rec')
  BY <1>1, <1>2, <1>3, RefreshEffect DEF Reread, TypeInv, FiniteInv
<1>5. TypeOK'
  BY <1>2, <1>4 DEF TypeInv, TypeOK, cfdVars, remoteVars, Answers
<1>6. FiniteInv'
  BY <1>2, <1>4 DEF TypeInv, FiniteInv
<1>7. QED
  BY <1>4, <1>5, <1>6 DEF TypeInv

LEMMA FirstCallsType == ASSUME TypeInv, InitConditions \/ AddFinalizer PROVE TypeInv'
<1>1. /\ cur \in CT /\ rec \in Object /\ rec.status \in Status /\ rec.spec \in TunnelSpec
      /\ IsFiniteSet(rec.spec.routes) /\ rec # Nil /\ pc # "idle"
  BY AtCall DEF InitConditions, AddFinalizer
<1>2. ASSUME rec' \in Object, Goto(Proceed(rec')) PROVE LocalsInv' /\ pc' \in Calls /\ cur' = cur
  <2>1. /\ pc' \in {"conditions", "addFinalizer", "create", "get"} /\ cur' = cur
        /\ pc' \in {"create", "get"} => rec'.status.conditions \in Conditions
        /\ pc' = "get" => rec'.status.id \in Id
    BY <1>2, ProceedFacts DEF Goto
  <2>2. QED
    BY <1>1, <1>2, <2>1 DEF LocalsInv, Creating, Updating, Serving, Deleting, Calls
<1>3. CASE InitConditions
  <2> DEFINE c == [progressing |-> "unknown", degraded |-> "unknown"]
             new == [rec.status EXCEPT !.conditions = c]
  <2>1. c \in Conditions
    BY DEF Conditions, Progressing, Degraded
  <2> HIDE DEF c
  <2>2. new \in Status
    BY <1>1, <2>1 DEF Status
  <2>3. PatchStatus(new) /\ Reread(new) /\ Goto(Proceed(rec'))
    BY <1>3 DEF InitConditions, c
  <2> HIDE DEF new
  <2>4. obj'[cur] \in Object /\ \A d \in CT : Listable(obj'[d])
    BY <1>1, <2>2, <2>3, PatchEffect
  <2>5. rec' \in Object
    BY <1>1, <2>2, <2>3, <2>4, RefreshEffect, NilAssumption DEF Reread, TypeInv, FiniteInv
  <2>6. LocalsInv' /\ pc' \in Calls /\ cur' = cur
    BY <1>2, <2>3, <2>5
  <2>7. QED
    BY <1>1, <1>3, <2>2, <2>3, <2>6, PatchRereadType DEF InitConditions, TypeInv, TypeOK, Answers
<1>4. CASE AddFinalizer
  <2> DEFINE o == [obj[cur] EXCEPT !.fin = TRUE]
  <2>1. obj[cur] \in Object /\ obj[cur] # Nil
    BY <1>1, <1>4 DEF AddFinalizer, TypeInv, TypeOK
  <2>2. o \in Object /\ o.spec = obj[cur].spec
    BY <2>1 DEF Object
  <2>3. Write(cur, o) /\ Reread(rec.status) /\ Goto(Proceed(rec'))
    BY <1>4 DEF AddFinalizer
  <2> HIDE DEF o
  <2>4. /\ obj' \in [CT -> Object \cup {Nil}] /\ obj'[cur] = o /\ news' \subseteq CT
        /\ \A c \in CT \ {cur} : obj'[c] = obj[c]
    BY <1>1, <2>2, <2>3 DEF Write, TypeInv, TypeOK
  <2>5. \A c \in CT : Listable(obj'[c])
    BY <1>1, <2>1, <2>2, <2>4 DEF Listable, TypeInv, FiniteInv
  <2>6. rec' \in Object /\ Listable(rec')
    BY <1>1, <2>2, <2>3, <2>4, <2>5, RefreshEffect, NilAssumption DEF Reread, TypeInv, FiniteInv
  <2>7. LocalsInv' /\ pc' \in Calls /\ cur' = cur
    BY <1>2, <2>3, <2>6
  <2>8. TypeOK'
    BY <1>4, <2>4, <2>6, <2>7 DEF AddFinalizer, TypeInv, TypeOK, cfdVars, remoteVars
  <2>9. QED
    BY <1>4, <2>5, <2>6, <2>7, <2>8 DEF AddFinalizer, TypeInv, FiniteInv
<1>5. QED
  BY <1>3, <1>4

\* Patching the status and ending the reconcile.
LEMMA PatchReturnType ==
  ASSUME TypeInv, pc # "idle", NEW new \in Status, PatchStatus(new), NEW q \in SUBSET CT, Return(q),
         UNCHANGED <<cache, cfdVars, remoteVars, spent>>
  PROVE  TypeInv'
<1>1. obj' \in [CT -> Object \cup {Nil}] /\ news' \subseteq CT /\ \A c \in CT : Listable(obj'[c])
  BY PatchEffect
<1>2. QED
  BY <1>1, WorkerReturns DEF TypeInv, TypeOK, FiniteInv, cfdVars

LEMMA RequeuedType == ASSUME TypeInv, pc # "idle" PROVE Requeued \in SUBSET CT /\ queue \in SUBSET CT
BY DEF Requeued, TypeInv, TypeOK, LocalsInv

\* A tunnel that is found answers with what it is.
LEMMA AnswerType ==
  ASSUME TypeInv, NEW i \in Id, remote[i] # Nil
  PROVE  /\ remote[i] \in Remote /\ Answer(i) \in Answers /\ Answer(i).id = i
         /\ Answer(i).account = remote[i].account /\ Answer(i).name = remote[i].name
         /\ Answer(i).src = remote[i].src
BY DEF TypeInv, TypeOK, Answer, Answers, Remote

LEMMA FreshIdType == ASSUME issued # Id, issued \subseteq Id PROVE FreshId \in Id \ issued
BY DEF FreshId

LEMMA CreateType ==
  ASSUME TypeInv, CreateTunnel \/ CreateConflicts \/ AdoptTunnel \/ AdoptNothing \/ AdoptAmbiguous \/ RecordTunnel
  PROVE  TypeInv'
<1>1. /\ cur \in CT /\ rec \in Object /\ rec.status \in Status /\ rec.spec \in TunnelSpec
      /\ IsFiniteSet(rec.spec.routes) /\ rec # Nil /\ pc # "idle" /\ rec.status.conditions \in Conditions
  BY AtCall DEF CreateTunnel, CreateConflicts, AdoptTunnel, AdoptNothing, AdoptAmbiguous, RecordTunnel,
                TypeInv, LocalsInv, Creating
<1>2. rec.spec.account \in Account /\ rec.spec.name \in Name /\ rec.spec.src \in Sources
  BY <1>1 DEF TunnelSpec
<1>3. ASSUME pc' \in {"adopt", "record", "degradeAmbiguous"}, UNCHANGED <<cur, rec>>, pc' = "record" => res' \in Answers
      PROVE  LocalsInv' /\ pc' \in Calls
  BY <1>1, <1>3 DEF LocalsInv, Creating, Updating, Serving, Deleting, Calls
<1>4. CASE CreateTunnel
  <2> DEFINE t == [account |-> rec.spec.account, name |-> rec.spec.name, src |-> rec.spec.src, config |-> Nil]
  <2>1. FreshId \in Id
    BY <1>4, FreshIdType DEF CreateTunnel, TypeInv, TypeOK
  <2>2. t \in Remote
    BY <1>2 DEF Remote
  <2>3. /\ remote' = [remote EXCEPT ![FreshId] = t]
        /\ res' = [id |-> FreshId, account |-> rec.spec.account, name |-> rec.spec.name, src |-> rec.spec.src]
        /\ issued' = issued \cup {FreshId}
    BY <1>4 DEF CreateTunnel
  <2> HIDE DEF t
  <2>4. res' \in Answers
    BY <1>2, <2>1, <2>3 DEF Answers
  <2>5. remote' \in [Id -> Remote \cup {Nil}] /\ issued' \subseteq Id
    BY <2>1, <2>2, <2>3 DEF TypeInv, TypeOK
  <2>6. LocalsInv' /\ pc' \in Calls
    BY <1>3, <1>4, <2>4 DEF CreateTunnel, Goto
  <2>7. TypeOK'
    BY <1>4, <2>4, <2>5, <2>6 DEF CreateTunnel, Goto, TypeInv, TypeOK, clusterVars, Answers
  <2>8. QED
    BY <1>4, <2>6, <2>7 DEF CreateTunnel, Goto, TypeInv, FiniteInv, clusterVars
<1>5. CASE CreateConflicts \/ AdoptAmbiguous
  <2>1. LocalsInv' /\ pc' \in Calls
    BY <1>3, <1>5 DEF CreateConflicts, AdoptAmbiguous, Goto
  <2>2. QED
    BY <1>1, <1>5, <2>1, GotoType DEF CreateConflicts, AdoptAmbiguous, Goto, remoteVars, TypeInv, TypeOK, Answers
<1>6. CASE AdoptTunnel
  <2>1. PICK i \in Id : Named(rec.spec.account, rec.spec.name) = {i} /\ res' = Answer(i)
    BY <1>6 DEF AdoptTunnel
  <2>2. res' \in Answers
    BY <2>1, AnswerType DEF Named, Found
  <2>3. LocalsInv' /\ pc' \in Calls
    BY <1>3, <1>6, <2>2 DEF AdoptTunnel, Goto
  <2>4. QED
    BY <1>1, <1>6, <2>2, <2>3, GotoType DEF AdoptTunnel, Goto, remoteVars, TypeInv, TypeOK
<1>7. CASE AdoptNothing
  BY <1>1, <1>7, ReturnType DEF AdoptNothing, TypeInv, TypeOK
<1>8. CASE RecordTunnel
  <2> DEFINE c == [progressing |-> "recorded", degraded |-> rec.status.conditions.degraded]
             new == [rec.status EXCEPT !.id = res.id, !.account = res.account, !.conditions = c]
  <2>1. res \in Answers
    BY <1>8 DEF RecordTunnel, TypeInv, LocalsInv
  <2>2. c \in Conditions
    BY <1>1 DEF Conditions, Progressing
  <2>3. PatchStatus(new)
    BY <1>1, <1>8 DEF RecordTunnel, Status
  <2> HIDE DEF c
  <2>4. new \in Status
    BY <1>1, <2>1, <2>2 DEF Status, Answers
  <2> HIDE DEF new
  <2>5. QED
    BY <1>1, <1>8, <2>3, <2>4, RequeuedType, PatchReturnType DEF RecordTunnel
<1>9. QED
  BY <1>4, <1>5, <1>6, <1>7, <1>8

\* What a plan leads to.
LEMMA AfterPlanFacts ==
  ASSUME NEW p \in Plan
  PROVE  AfterPlan(p) \in {"dropRoute", "addRoute", "status"}
BY DEF AfterPlan, Plan

\* One route less, or one more.
LEMMA RouteEffect ==
  ASSUME TypeInv, plan \in Plan, tid \in Id \cup {Nil},
         \/ \E s \in plan.drop : /\ routes' = [routes EXCEPT ![s] = IF @ = tid THEN Nil ELSE @]
                                 /\ plan' = [plan EXCEPT !.drop = @ \ {s}]
         \/ AddRoute
  PROVE  routes' \in [Slot -> Id \cup {Nil}] /\ plan' \in Plan
<1>1. ASSUME NEW s \in plan.drop, routes' = [routes EXCEPT ![s] = IF @ = tid THEN Nil ELSE @],
             plan' = [plan EXCEPT !.drop = @ \ {s}]
      PROVE  routes' \in [Slot -> Id \cup {Nil}] /\ plan' \in Plan
  <2>1. s \in Slot
    BY DEF Plan
  <2>2. routes' \in [Slot -> Id \cup {Nil}]
    BY <1>1, <2>1 DEF TypeInv, TypeOK
  <2>3. plan' \in Plan
    BY <1>1 DEF Plan
  <2>4. QED
    BY <2>2, <2>3
<1>2. CASE AddRoute
  <2>1. PICK r \in plan.add :
          LET s == SlotOf(rec.status.account, r)
              granted == routes[s] = Nil /\ Found(tid, rec.status.account)
          IN  /\ routes' = IF granted THEN [routes EXCEPT ![s] = tid] ELSE routes
              /\ plan' = [plan EXCEPT !.add = @ \ {r},
                                      !.ready = IF granted THEN @ + 1 ELSE @,
                                      !.problem = @ \/ ~granted]
    BY <1>2 DEF AddRoute
  <2> DEFINE s == SlotOf(rec.status.account, r)
             granted == routes[s] = Nil /\ Found(tid, rec.status.account)
             ready == IF granted THEN plan.ready + 1 ELSE plan.ready
             problem == plan.problem \/ ~granted
  <2>2. plan' = [plan EXCEPT !.add = plan.add \ {r}, !.ready = ready, !.problem = problem]
    BY <2>1 DEF Plan
  <2>3. ready \in Nat /\ problem \in BOOLEAN
    BY DEF Plan
  <2>4. routes' \in [Slot -> Id \cup {Nil}]
    BY <2>1 DEF TypeInv, TypeOK
  <2> HIDE DEF ready, problem
  <2>5. plan' \in Plan
    BY <2>2, <2>3 DEF Plan
  <2>6. QED
    BY <2>4, <2>5
<1>3. QED
  BY <1>1, <1>2

LEMMA UpdateType ==
  ASSUME TypeInv,
         GetTunnel \/ EditTunnel \/ UpdateConfiguration \/ UpdateRefused \/ ListRoutes \/ DropRoute \/ AddRoute
  PROVE  TypeInv'
<1>1. /\ cur \in CT /\ rec \in Object /\ rec.status \in Status /\ rec.spec \in TunnelSpec
      /\ IsFiniteSet(rec.spec.routes) /\ rec # Nil /\ pc # "idle"
  BY AtCall DEF GetTunnel, EditTunnel, UpdateConfiguration, UpdateRefused, ListRoutes, DropRoute, AddRoute
<1>2. /\ rec.spec.name \in Name /\ rec.spec.account \in Account
      /\ rec.spec.config \in Seq(BOOLEAN) \cup {Nil}
  BY <1>1 DEF TunnelSpec
<1>3. plan \in Plan /\ tid \in Id \cup {Nil} /\ list \in [CF -> Cloudflared \cup {Nil}] /\ res \in Answers \cup {Nil}
  BY DEF TypeInv, TypeOK, Answers
<1>4. rec.status.conditions \in Conditions
  BY DEF GetTunnel, EditTunnel, UpdateConfiguration, UpdateRefused, ListRoutes, DropRoute, AddRoute,
         TypeInv, LocalsInv, Updating
<1>5. ASSUME pc' \in Updating, UNCHANGED <<cur, rec>>, res' \in Answers, tid' \in Id
      PROVE  LocalsInv' /\ pc' \in Calls
  BY <1>1, <1>4, <1>5 DEF LocalsInv, Creating, Updating, Serving, Deleting, Calls
<1>6. CASE GetTunnel
  <2>1. rec.status.id \in Id
    BY <1>6 DEF GetTunnel, TypeInv, LocalsInv
  <2>2. res' \in Answers /\ tid' \in Id
    BY <1>6, <2>1, AnswerType DEF GetTunnel, Found
  <2>3. pc' \in Updating /\ UNCHANGED <<cur, rec>>
    BY <1>6 DEF GetTunnel, Goto, AfterName, Updating
  <2>4. QED
    BY <1>1, <1>3, <1>5, <1>6, <2>2, <2>3, GotoType DEF GetTunnel, Goto, remoteVars, TypeInv, TypeOK
<1>7. CASE EditTunnel
  <2>1. tid \in Id /\ res \in Answers /\ remote[tid] # Nil
    BY <1>7 DEF EditTunnel, TypeInv, LocalsInv, Updating, Found
  <2>2. remote[tid] \in Remote
    BY <2>1, AnswerType
  <2>3. res' \in Answers
    BY <1>2, <1>7, <2>1 DEF EditTunnel, Answers
  <2>4. [remote[tid] EXCEPT !.name = rec.spec.name] \in Remote
    BY <1>2, <2>2 DEF Remote
  <2>5. remote' \in [Id -> Remote \cup {Nil}]
    BY <1>7, <2>1, <2>4 DEF EditTunnel, TypeInv, TypeOK
  <2>6. pc' \in Updating /\ UNCHANGED <<cur, rec, tid>>
    BY <1>7 DEF EditTunnel, Goto, AfterName, Updating
  <2>7. QED
    BY <1>1, <1>3, <1>5, <1>7, <2>1, <2>3, <2>5, <2>6, GotoType DEF EditTunnel, TypeInv, TypeOK
<1>8. CASE UpdateConfiguration
  <2>1. tid \in Id /\ res \in Answers /\ remote[tid] # Nil
    BY <1>8 DEF UpdateConfiguration, TypeInv, LocalsInv, Updating, Found
  <2>2. remote[tid] \in Remote
    BY <2>1, AnswerType
  <2>3. [remote[tid] EXCEPT !.config = rec.spec.config] \in Remote
    BY <1>2, <2>2 DEF Remote
  <2>4. remote' \in [Id -> Remote \cup {Nil}]
    BY <1>8, <2>1, <2>3 DEF UpdateConfiguration, TypeInv, TypeOK
  <2>5. pc' \in Updating /\ UNCHANGED <<cur, rec, tid, res>>
    BY <1>8 DEF UpdateConfiguration, Goto, Updating
  <2>6. QED
    BY <1>1, <1>3, <1>5, <1>8, <2>1, <2>4, <2>5, GotoType DEF UpdateConfiguration, TypeInv, TypeOK
<1>9. CASE UpdateRefused
  BY <1>1, <1>9, ReturnType DEF UpdateRefused, TypeInv, TypeOK
<1>10. CASE ListRoutes
  <2>1. tid \in Id /\ res \in Answers
    BY <1>10 DEF ListRoutes, TypeInv, LocalsInv, Updating
  <2>2. ExistingRoutes(tid, rec.status.account) \in SUBSET Slot
    BY DEF ExistingRoutes
  <2>3. RoutePlan(rec.spec, rec.status.account, ExistingRoutes(tid, rec.status.account)) \in Plan
    BY <1>1, <2>2, RoutePlanType
  <2>4. NoAccessPlan(rec.spec) \in Plan
    BY DEF NoAccessPlan, NoPlan, Plan
  <2>5. plan' \in Plan
    BY <1>10, <2>3, <2>4 DEF ListRoutes
  <2>6. pc' \in Updating /\ UNCHANGED <<cur, rec, tid, res>>
    BY <1>10, <2>5, AfterPlanFacts DEF ListRoutes, Goto, Updating
  <2>7. QED
    BY <1>1, <1>3, <1>5, <1>10, <2>1, <2>5, <2>6, GotoType DEF ListRoutes, TypeInv, TypeOK, remoteVars
<1>11. CASE DropRoute \/ AddRoute
  <2>1. tid \in Id /\ res \in Answers
    BY <1>11 DEF DropRoute, AddRoute, TypeInv, LocalsInv, Updating
  <2>2. routes' \in [Slot -> Id \cup {Nil}] /\ plan' \in Plan
    BY <1>3, <1>11, RouteEffect DEF DropRoute
  <2>3. pc' \in Updating /\ UNCHANGED <<cur, rec, tid, res>>
    BY <1>11, <2>2, AfterPlanFacts DEF DropRoute, AddRoute, Goto, Updating
  <2>4. QED
    BY <1>1, <1>3, <1>5, <1>11, <2>1, <2>2, <2>3, GotoType DEF DropRoute, AddRoute, TypeInv, TypeOK
<1>12. QED
  BY <1>6, <1>7, <1>8, <1>9, <1>10, <1>11

\* The copy of the object after a patch that sets conditions.
LEMMA RereadFacts ==
  ASSUME TypeInv, pc # "idle", NEW new \in Status, PatchStatus(new), new.conditions \in Conditions
  PROVE  LET o == Refreshed(obj'[cur], new)
         IN  /\ o \in Object /\ o.status = Decoded(Merged(obj[cur].status, new), new)
             /\ o.status.conditions \in Conditions
             /\ o.spec.name = obj[cur].spec.name
             /\ rec.spec.cloudflared \in Selection => o.spec.cloudflared \in Selection
<1>1. /\ cur \in CT /\ rec \in Object /\ rec.status \in Status /\ rec.spec \in TunnelSpec
      /\ IsFiniteSet(rec.spec.routes) /\ rec # Nil
  BY AtCall
<1>2. /\ obj'[cur] \in Object /\ obj'[cur] # Nil /\ \A c \in CT : Listable(obj'[c])
      /\ obj'[cur].status = Merged(obj[cur].status, new) /\ obj'[cur].spec = obj[cur].spec
      /\ obj[cur] \in Object
  BY PatchEffect, NilAssumption
<1> DEFINE o == Refreshed(obj'[cur], new)
<1>3. /\ o \in Object /\ o.status = Decoded(obj'[cur].status, new) /\ o.spec.name = obj[cur].spec.name
      /\ rec.spec.cloudflared \in Selection => o.spec.cloudflared \in Selection
  BY <1>1, <1>2, RefreshEffect DEF TypeInv, FiniteInv
<1> HIDE DEF o
<1>4. obj'[cur].status \in Status
  BY <1>2, ObjectFacts
<1>5. o.status.conditions \in Conditions
  BY <1>3, <1>4 DEF Decoded, Status
<1>6. QED
  BY <1>2, <1>3, <1>5 DEF o

\* The status that UpdateStatus sends.
LEMMA UpdatedStatus ==
  ASSUME TypeInv, pc = "status"
  PROVE  LET new == [id |-> res.id, account |-> res.account, routesReady |-> plan.ready,
                     conditions |-> [progressing |-> "updated", degraded |-> DegradedBy(res, plan)]]
         IN  new \in Status /\ new.conditions \in Conditions /\ new.id = res.id /\ new.account = res.account
<1>1. res \in Answers /\ plan \in Plan
  BY DEF TypeInv, TypeOK, LocalsInv, Updating
<1>2. DegradedBy(res, plan) \in Degraded
  <2>1. plan.problem \in BOOLEAN
    BY <1>1 DEF Plan
  <2>2. QED
    BY <2>1 DEF DegradedBy, Degraded
<1> DEFINE c == [progressing |-> "updated", degraded |-> DegradedBy(res, plan)]
<1>3. c \in Conditions
  BY <1>2 DEF Conditions, Progressing
<1> HIDE DEF c
<1>4. plan.ready \in Nat /\ res.id \in Id /\ res.account \in Account
  BY <1>1 DEF Plan, Answers
<1>5. [id |-> res.id, account |-> res.account, routesReady |-> plan.ready, conditions |-> c] \in Status
  BY <1>3, <1>4 DEF Status
<1>6. QED
  BY <1>3, <1>5 DEF c

LEMMA UpdateStatusType == ASSUME TypeInv, UpdateStatus PROVE TypeInv'
<1> DEFINE new == [id |-> res.id, account |-> res.account, routesReady |-> plan.ready,
                   conditions |-> [progressing |-> "updated", degraded |-> DegradedBy(res, plan)]]
           o == Refreshed(obj'[cur], new)
           sel == o.spec.cloudflared
<1>1. /\ cur \in CT /\ rec \in Object /\ rec.status \in Status /\ rec.spec \in TunnelSpec
      /\ IsFiniteSet(rec.spec.routes) /\ rec # Nil /\ pc # "idle"
  BY AtCall DEF UpdateStatus
<1>2. new \in Status /\ new.conditions \in Conditions
  BY UpdatedStatus DEF UpdateStatus
<1>3. /\ PatchStatus(new)
      /\ \/ sel = Nil /\ Return(queue)
         \/ /\ sel # Nil /\ Reread(new) /\ Goto(IF sel.selector = Nil THEN "degradeSelector" ELSE "select")
            /\ UNCHANGED <<queue, tid, res, plan, list>>
      /\ UNCHANGED <<cache, cfdVars, remoteVars, spent>>
  BY DEF UpdateStatus
<1>4. tid \in Id /\ res \in Answers
  BY DEF UpdateStatus, TypeInv, LocalsInv, Updating
<1> HIDE DEF new
<1>5. o \in Object /\ o.status.conditions \in Conditions /\ o.spec \in TunnelSpec
  BY <1>1, <1>2, <1>3, RereadFacts, ObjectFacts
<1>6. CASE sel = Nil /\ Return(queue)
  BY <1>1, <1>2, <1>3, <1>6, PatchReturnType, RequeuedType
<1>7. CASE /\ sel # Nil /\ Reread(new) /\ Goto(IF sel.selector = Nil THEN "degradeSelector" ELSE "select")
           /\ UNCHANGED <<queue, tid, res, plan, list>>
  <2>1. rec' = o
    BY <1>7 DEF Reread
  <2>2. sel \in Selection
    BY <1>5, <1>7 DEF TunnelSpec
  <2>3. /\ pc' \in {"degradeSelector", "select"} /\ cur' = cur
        /\ pc' = "select" => sel.selector \in SUBSET Label
    <3> HIDE DEF sel
    <3>1. sel.selector \in (SUBSET Label) \cup {Nil}
      BY <2>2 DEF Selection
    <3>2. QED
      BY <1>7, <3>1 DEF Goto
  <2> HIDE DEF o
  <2>4. LocalsInv' /\ pc' \in Calls
    BY <1>1, <1>4, <1>5, <1>7, <2>1, <2>2, <2>3 DEF LocalsInv, Creating, Updating, Serving, Deleting, Calls
  <2>5. QED
    BY <1>1, <1>2, <1>3, <1>4, <1>7, <2>3, <2>4, PatchRereadType DEF TypeInv, TypeOK
<1>8. QED
  BY <1>3, <1>6, <1>7

LEMMA SelectedType == ASSUME TypeInv, NEW sel PROVE Selected(sel) \in [CF -> Cloudflared \cup {Nil}]
BY DEF Selected, TypeInv, TypeOK

\* The status that a selection sends.
LEMMA SelectingStatus ==
  ASSUME rec \in Object, rec.status.conditions \in Conditions
  PROVE  LET new == [rec.status EXCEPT !.conditions.progressing = "selecting"]
         IN  /\ new \in Status /\ new.conditions \in Conditions
             /\ new.id = rec.status.id /\ new.account = rec.status.account
<1>1. rec.status \in Status
  BY ObjectFacts
<1> DEFINE c == [rec.status.conditions EXCEPT !.progressing = "selecting"]
<1>2. c \in Conditions
  BY DEF Conditions, Progressing
<1>3. [rec.status EXCEPT !.conditions.progressing = "selecting"] = [rec.status EXCEPT !.conditions = c]
  BY <1>1 DEF Status
<1> HIDE DEF c
<1>4. QED
  BY <1>1, <1>2, <1>3 DEF Status

LEMMA SelectType == ASSUME TypeInv, SelectCloudflareds PROVE TypeInv'
<1> DEFINE selector == rec.spec.cloudflared.selector
           l == Selected(selector)
           new == [rec.status EXCEPT !.conditions.progressing = "selecting"]
           o == Refreshed(obj'[cur], new)
           template == o.spec.cloudflared.template
<1>1. /\ cur \in CT /\ rec \in Object /\ rec.status \in Status /\ rec.spec \in TunnelSpec
      /\ IsFiniteSet(rec.spec.routes) /\ rec # Nil /\ pc # "idle"
  BY AtCall DEF SelectCloudflareds
<1>2. /\ rec.status.conditions \in Conditions /\ tid \in Id
      /\ rec.spec.cloudflared \in Selection /\ selector \in SUBSET Label
  BY DEF SelectCloudflareds, TypeInv, LocalsInv, Updating, Serving
<1>3. new \in Status /\ new.conditions \in Conditions
  BY <1>1, <1>2, SelectingStatus
<1>4. /\ PatchStatus(new)
      /\ \/ /\ Left(l) = {} /\ template = Nil
            /\ Return(queue)
         \/ /\ Left(l) # {} \/ template # Nil
            /\ Reread(new)
            /\ list' = l
            /\ Goto(AfterSelect(l, selector, template))
            /\ UNCHANGED <<queue, tid, res, plan>>
      /\ UNCHANGED <<cache, cfdVars, remoteVars, spent>>
  BY DEF SelectCloudflareds
<1> HIDE DEF new
<1>5. o \in Object /\ o.status.conditions \in Conditions /\ o.spec.cloudflared \in Selection
  BY <1>1, <1>2, <1>3, <1>4, RereadFacts
<1>6. l \in [CF -> Cloudflared \cup {Nil}]
  BY SelectedType
<1>7. CASE Return(queue)
  BY <1>1, <1>3, <1>4, <1>7, PatchReturnType, RequeuedType
<1>8. CASE /\ Left(l) # {} \/ template # Nil
           /\ Reread(new)
           /\ list' = l
           /\ Goto(AfterSelect(l, selector, template))
           /\ UNCHANGED <<queue, tid, res, plan>>
  <2>1. rec' = o
    BY <1>8 DEF Reread
  <2>2. /\ pc' \in {"apply", "degradeTemplate", "createCloudflared"} /\ cur' = cur
        /\ pc' = "createCloudflared" => template \in Label
    <3> HIDE DEF l, selector, template
    <3>1. Left(l) # {} \/ (Left(l) = {} /\ template \notin selector) \/ (Left(l) = {} /\ template \in selector)
      OBVIOUS
    <3>2. /\ AfterSelect(l, selector, template) \in {"apply", "degradeTemplate", "createCloudflared"}
          /\ AfterSelect(l, selector, template) = "createCloudflared" => template \in selector
      BY <3>1 DEF AfterSelect
    <3>3. QED
      BY <1>2, <1>8, <3>2 DEF Goto
  <2> HIDE DEF o
  <2>3. LocalsInv' /\ pc' \in Calls
    BY <1>1, <1>2, <1>5, <1>8, <2>1, <2>2 DEF LocalsInv, Creating, Updating, Serving, Deleting, Calls
  <2> HIDE DEF l
  <2>4. res \in Answers \cup {Nil} /\ plan \in Plan /\ tid \in Id \cup {Nil}
    BY DEF TypeInv, TypeOK, Answers
  <2>5. QED
    BY <1>1, <1>3, <1>4, <1>6, <1>8, <2>2, <2>3, <2>4, PatchRereadType
<1>9. QED
  BY <1>4, <1>7, <1>8

\* Writing a Cloudflared, or deleting it.
LEMMA CloudflaredEffect ==
  ASSUME TypeInv, NEW f \in CF, NEW o \in Cloudflared \cup {Nil}, WriteCloudflared(f, o)
  PROVE  cfd' \in [CF -> Cloudflared \cup {Nil}] /\ cfdNews' \subseteq CF
BY DEF WriteCloudflared, TypeInv, TypeOK

\* A visit of a Cloudflared ends the reconcile or takes it off the list.
LEMMA VisitType ==
  ASSUME TypeInv, pc # "idle", NEW f \in CF, cfd' \in [CF -> Cloudflared \cup {Nil}], cfdNews' \subseteq CF,
         \/ Return(queue) \/ Return(Requeued)
         \/ list' = [list EXCEPT ![f] = Nil] /\ UNCHANGED <<pc, cur, rec, tid, res, plan, queue>>,
         UNCHANGED <<obj, cache, news, cfdCache, remoteVars, spent>>
  PROVE  TypeInv'
<1>1. CASE Return(queue) \/ Return(Requeued)
  <2>1. PICK q \in SUBSET CT : Return(q)
    BY <1>1, RequeuedType
  <2>2. QED
    BY <2>1, WorkerReturns DEF TypeInv, TypeOK, FiniteInv
<1>2. CASE list' = [list EXCEPT ![f] = Nil] /\ UNCHANGED <<pc, cur, rec, tid, res, plan, queue>>
  <2>1. list' \in [CF -> Cloudflared \cup {Nil}]
    BY <1>2 DEF TypeInv, TypeOK
  <2>2. TypeOK'
    BY <1>2, <2>1 DEF TypeInv, TypeOK, remoteVars
  <2>3. LocalsInv'
    BY <1>2 DEF TypeInv, LocalsInv
  <2>4. QED
    BY <1>2, <2>2, <2>3 DEF TypeInv, FiniteInv
<1>3. QED
  BY <1>1, <1>2

LEMMA CloudflaredsType ==
  ASSUME TypeInv, ApplyConfig \/ ApplyConflicts \/ CreateCloudflared \/ DeleteCloudflared
  PROVE  TypeInv'
<1>1. /\ cur \in CT /\ rec \in Object /\ rec.spec \in TunnelSpec /\ pc # "idle" /\ cur \in CF
  BY AtCall, ConstantsAssumption DEF ApplyConfig, ApplyConflicts, CreateCloudflared, DeleteCloudflared
<1>2. CASE ApplyConfig
  <2>1. PICK f \in Left(list) :
          /\ WriteCloudflared(f, [list[f] EXCEPT !.tunnelId = tid])
          /\ \/ Return(queue)
             \/ list' = [list EXCEPT ![f] = Nil] /\ UNCHANGED <<pc, cur, rec, tid, res, plan, queue>>
    BY <1>2 DEF ApplyConfig
  <2>2. f \in CF /\ list[f] \in Cloudflared
    BY DEF Left, TypeInv, TypeOK
  <2>3. tid \in Id
    BY <1>2 DEF ApplyConfig, TypeInv, LocalsInv, Serving
  <2>4. [list[f] EXCEPT !.tunnelId = tid] \in Cloudflared
    BY <2>2, <2>3 DEF Cloudflared
  <2>5. QED
    BY <1>1, <1>2, <2>1, <2>2, <2>4, CloudflaredEffect, VisitType DEF ApplyConfig
<1>3. CASE ApplyConflicts
  BY <1>1, <1>3, ReturnType DEF ApplyConflicts, TypeInv, TypeOK
<1>4. CASE CreateCloudflared
  <2> DEFINE o == [label |-> rec.spec.cloudflared.template, owner |-> cur, tunnelId |-> tid]
  <2>1. o \in Cloudflared
    BY <1>1, <1>4 DEF CreateCloudflared, TypeInv, LocalsInv, Serving, Cloudflared
  <2>2. \/ WriteCloudflared(cur, o) /\ Return(queue)
        \/ Return(Requeued) /\ UNCHANGED <<cfd, cfdNews>>
    BY <1>4 DEF CreateCloudflared
  <2> HIDE DEF o
  <2>3. cfd' \in [CF -> Cloudflared \cup {Nil}] /\ cfdNews' \subseteq CF
    BY <1>1, <2>1, <2>2, CloudflaredEffect DEF TypeInv, TypeOK
  <2>4. QED
    BY <1>1, <1>4, <2>2, <2>3, VisitType DEF CreateCloudflared
<1>5. CASE DeleteCloudflared
  <2>1. PICK f \in Left(list) :
          \/ Return(Requeued) /\ UNCHANGED <<cfd, cfdNews>>
          \/ /\ WriteCloudflared(f, Nil)
             /\ \/ Return(Requeued)
                \/ list' = [list EXCEPT ![f] = Nil] /\ UNCHANGED <<pc, cur, rec, tid, res, plan, queue>>
    BY <1>5 DEF DeleteCloudflared
  <2>2. f \in CF
    BY DEF Left
  <2>3. cfd' \in [CF -> Cloudflared \cup {Nil}] /\ cfdNews' \subseteq CF
    BY <2>1, <2>2, CloudflaredEffect DEF TypeInv, TypeOK
  <2>4. QED
    BY <1>1, <1>5, <2>1, <2>2, <2>3, VisitType DEF DeleteCloudflared
<1>6. QED
  BY <1>2, <1>3, <1>4, <1>5

\* Each reason that a complaint gives is one.
LEMMA ComplaintType == ASSUME NEW p \in DOMAIN Complaint PROVE Complaint[p] \in Degraded /\ p # "idle"
<1>1. p \in {"degradeSecret", "degradeAmbiguous", "degradeSelector", "degradeTemplate"}
  BY DEF Complaint
<1>2. QED
  BY <1>1 DEF Complaint, Degraded

LEMMA ComplainType == ASSUME TypeInv, RecordComplaint PROVE TypeInv'
<1>1. Complaint[pc] \in Degraded /\ pc # "idle"
  BY ComplaintType DEF RecordComplaint
<1>2. rec \in Object
  BY <1>1, AtCall
<1>3. Degrade(Complaint[pc]) \in Status
  BY <1>1, <1>2, DegradeType
<1>4. PICK q \in SUBSET CT : Return(q)
  BY <1>1, RequeuedType DEF RecordComplaint
<1>5. QED
  BY <1>1, <1>3, <1>4, PatchReturnType DEF RecordComplaint

LEMMA PurgeFacts == ASSUME NEW p PROVE AfterPurge(p) \in {"markTunnel", "purgeRoute"}
BY DEF AfterPurge

LEMMA FinalizeType ==
  ASSUME TypeInv, \/ Finalize \/ MarkCloudflareds \/ ListRoutesToDelete \/ PurgeRoute \/ MarkTunnel \/ DeleteTunnel
  PROVE  TypeInv'
<1>1. /\ cur \in CT /\ rec \in Object /\ rec.status \in Status /\ rec.spec \in TunnelSpec
      /\ IsFiniteSet(rec.spec.routes) /\ rec # Nil /\ pc # "idle"
  BY AtCall DEF Finalize, MarkCloudflareds, ListRoutesToDelete, PurgeRoute, MarkTunnel, DeleteTunnel
<1>2. /\ plan \in Plan /\ tid \in Id \cup {Nil} /\ list \in [CF -> Cloudflared \cup {Nil}] /\ res \in Answers \cup {Nil}
      /\ remote \in [Id -> Remote \cup {Nil}] /\ routes \in [Slot -> Id \cup {Nil}]
  BY DEF TypeInv, TypeOK, Answers
<1>3. ASSUME pc' \in Deleting, cur' = cur, rec' \in Object, tid' \in Id PROVE LocalsInv' /\ pc' \in Calls
  BY <1>1, <1>3 DEF LocalsInv, Creating, Updating, Serving, Deleting, Calls
<1>4. ASSUME pc' \in {"markCloudflareds", "deleteCloudflared", "release"}, cur' = cur, rec' \in Object
      PROVE  LocalsInv' /\ pc' \in Calls
  BY <1>1, <1>4 DEF LocalsInv, Creating, Updating, Serving, Deleting, Calls
<1>5. CASE Finalize
  <2> DEFINE sel == rec.spec.cloudflared
             l == IF sel = Nil \/ sel.selector = Nil THEN NoList ELSE Selected(sel.selector)
             next == CASE Left(l) # {}                          -> "markCloudflareds"
                       [] Left(l) = {} /\ rec.status.id = Nil   -> "release"
                       [] Left(l) = {} /\ rec.status.id # Nil   -> "listRoutes"
  <2>1. list' = l /\ tid' = rec.status.id /\ Goto(next)
    BY <1>5 DEF Finalize
  <2>2. NoList \in [CF -> Cloudflared \cup {Nil}]
    BY DEF NoList
  <2>3. l \in [CF -> Cloudflared \cup {Nil}]
    BY <2>2, SelectedType
  <2> HIDE DEF l
  <2>4. next \in {"markCloudflareds", "release"} \/ (next = "listRoutes" /\ rec.status.id # Nil)
    OBVIOUS
  <2> HIDE DEF next
  <2>5. tid' \in Id \cup {Nil} /\ (rec.status.id # Nil => tid' \in Id)
    BY <1>1, <2>1 DEF Status
  <2>6. LocalsInv' /\ pc' \in Calls
    BY <1>1, <1>3, <1>4, <1>5, <2>1, <2>4, <2>5 DEF Goto, Finalize, Deleting
  <2>7. QED
    BY <1>1, <1>2, <1>5, <2>1, <2>3, <2>5, <2>6, GotoType DEF Finalize, Goto, remoteVars
<1>6. CASE MarkCloudflareds \/ MarkTunnel
  <2>1. PICK why \in Degraded : PatchStatus(Degrade(why)) /\ Reread(Degrade(why))
    BY <1>6 DEF MarkCloudflareds, MarkTunnel, Degraded
  <2>2. Degrade(why) \in Status
    BY <1>1, DegradeType
  <2>3. pc = "markTunnel" => tid \in Id
    BY DEF TypeInv, LocalsInv, Deleting
  <2>4. /\ cur' = cur /\ UNCHANGED <<tid, res, plan, list, cache, queue, cfdVars, remoteVars, spent>>
        /\ pc' = "deleteCloudflared" \/ (pc' = "deleteTunnel" /\ pc = "markTunnel")
    BY <1>6 DEF MarkCloudflareds, MarkTunnel, Goto
  <2>5. rec' \in Object => LocalsInv' /\ pc' \in Calls
    BY <1>3, <1>4, <2>3, <2>4 DEF Deleting
  <2>6. pc' \in Calls
    BY <2>4 DEF Calls
  <2>7. QED
    BY <1>1, <1>2, <2>1, <2>2, <2>4, <2>5, <2>6, PatchRereadType
<1>7. CASE ListRoutesToDelete \/ PurgeRoute
  <2>1. tid \in Id
    BY <1>7 DEF ListRoutesToDelete, PurgeRoute, TypeInv, LocalsInv, Deleting
  <2>2. routes' \in [Slot -> Id \cup {Nil}] /\ plan' \in Plan
    <3>1. CASE ListRoutesToDelete
      <4> DEFINE d == IF access THEN ExistingRoutes(tid, rec.status.account) ELSE {}
      <4>1. d \in SUBSET Slot
        BY DEF ExistingRoutes
      <4>2. plan' = [NoPlan EXCEPT !.drop = d] /\ routes' = routes
        BY <3>1 DEF ListRoutesToDelete, remoteVars
      <4> HIDE DEF d
      <4>3. QED
        BY <1>2, <4>1, <4>2 DEF NoPlan, Plan
    <3>2. CASE PurgeRoute
      BY <1>2, <3>2, RouteEffect DEF PurgeRoute
    <3>3. QED
      BY <1>7, <3>1, <3>2
  <2>3. pc' \in Deleting /\ UNCHANGED <<cur, rec, tid>>
    BY <1>7, PurgeFacts DEF ListRoutesToDelete, PurgeRoute, Goto, Deleting
  <2>4. QED
    BY <1>1, <1>2, <1>3, <1>7, <2>1, <2>2, <2>3, GotoType DEF ListRoutesToDelete, PurgeRoute, remoteVars
<1>8. CASE DeleteTunnel
  <2>1. remote' \in [Id -> Remote \cup {Nil}]
    BY <1>2, <1>8 DEF DeleteTunnel
  <2>2. pc' = "release" /\ UNCHANGED <<cur, rec, tid>>
    BY <1>8 DEF DeleteTunnel, Goto
  <2>3. QED
    BY <1>1, <1>2, <1>4, <1>8, <2>1, <2>2, GotoType DEF DeleteTunnel
<1>9. QED
  BY <1>5, <1>6, <1>7, <1>8

\* Storing an object as c, or removing it.
LEMMA WriteType ==
  ASSUME TypeInv, NEW c \in CT, NEW o \in Object \cup {Nil}, Listable(o), Write(c, o)
  PROVE  /\ obj' \in [CT -> Object \cup {Nil}] /\ news' \subseteq CT /\ \A d \in CT : Listable(obj'[d])
         /\ obj'[c] = o /\ \A d \in CT \ {c} : obj'[d] = obj[d]
<1>1. obj' = [obj EXCEPT ![c] = o] /\ news' \subseteq CT /\ obj \in [CT -> Object \cup {Nil}]
  BY DEF Write, TypeInv, TypeOK
<1>2. obj'[c] = o /\ (\A d \in CT \ {c} : obj'[d] = obj[d]) /\ obj' \in [CT -> Object \cup {Nil}]
  BY <1>1
<1>3. QED
  BY <1>1, <1>2 DEF TypeInv, FiniteInv

\* What Release leaves of the object.
LEMMA Released ==
  ASSUME TypeInv, Release
  PROVE  /\ obj' \in [CT -> Object \cup {Nil}] /\ news' \subseteq CT /\ \A d \in CT : Listable(obj'[d])
         /\ \A d \in CT \ {cur} : obj'[d] = obj[d]
         /\ obj'[cur] # Nil => obj'[cur].status = obj[cur].status /\ obj'[cur].spec = obj[cur].spec
<1> DEFINE o == CASE ~rec.fin                       -> obj[cur]
                  [] rec.fin /\ obj[cur].deleting  -> Nil
                  [] rec.fin /\ ~obj[cur].deleting -> [obj[cur] EXCEPT !.fin = FALSE]
<1>1. Write(cur, o) /\ obj[cur] # Nil /\ cur \in CT /\ rec.fin \in BOOLEAN
  BY AtCall, ObjectFacts DEF Release
<1>2. obj[cur] \in Object /\ obj[cur].deleting \in BOOLEAN /\ Listable(obj[cur])
  BY <1>1, ObjectFacts DEF TypeInv, TypeOK, FiniteInv
<1> DEFINE r == [obj[cur] EXCEPT !.fin = FALSE]
<1>3. r \in Object /\ r.status = obj[cur].status /\ r.spec = obj[cur].spec
  BY <1>2 DEF Object
<1> HIDE DEF r
<1>4. o \in {obj[cur], Nil, r}
  BY <1>1, <1>2 DEF r
<1> HIDE DEF o
<1>5. o \in Object \cup {Nil} /\ Listable(o)
  BY <1>1, <1>2, <1>3, <1>4 DEF Listable
<1>6. o # Nil => o.status = obj[cur].status /\ o.spec = obj[cur].spec
  BY <1>3, <1>4
<1>7. QED
  BY <1>1, <1>5, <1>6, WriteType

LEMMA LastCallsType == ASSUME TypeInv, Release \/ PatchGone PROVE TypeInv'
<1>1. CASE Release
  BY <1>1, Released, RequeuedType, WorkerReturns DEF Release, cfdVars, TypeInv, TypeOK, FiniteInv
<1>2. CASE PatchGone
  <2>1. pc # "idle"
    BY <1>2, ComplaintType DEF PatchGone
  <2>2. QED
    BY <1>2, <2>1, ReturnType DEF PatchGone, TypeInv, TypeOK
<1>3. QED
  BY <1>1, <1>2

LEMMA StepType == ASSUME TypeInv, ReconcileStep PROVE TypeInv'
BY FirstCallsType, CreateType, UpdateType, UpdateStatusType, SelectType, CloudflaredsType, ComplainType,
   FinalizeType, LastCallsType
DEF ReconcileStep

LEMMA SpendType == ASSUME TypeInv, NEW k \in Kinds, Spend(k) PROVE spent' \in [Kinds -> Nat]
BY DEF Spend, TypeInv, TypeOK

\* A step of the environment leaves the worker alone.
LEMMA OutsideType ==
  ASSUME TypeInv, UNCHANGED workerVars,
         obj' \in [CT -> Object \cup {Nil}], cache' \in [CT -> Object \cup {Nil}],
         \A c \in CT : Listable(obj'[c]) /\ Listable(cache'[c]),
         news' \subseteq CT, queue' \subseteq CT,
         cfd' \in [CF -> Cloudflared \cup {Nil}], cfdCache' \in [CF -> Cloudflared \cup {Nil}], cfdNews' \subseteq CF,
         remote' \in [Id -> Remote \cup {Nil}], issued' \subseteq Id, routes' \in [Slot -> Id \cup {Nil}],
         access' \in BOOLEAN, spent' \in [Kinds -> Nat]
  PROVE  TypeInv'
<1>1. TypeOK'
  BY DEF TypeInv, TypeOK, workerVars
<1>2. LocalsInv'
  BY DEF TypeInv, LocalsInv, workerVars
<1>3. QED
  BY <1>1, <1>2 DEF TypeInv, FiniteInv, workerVars

LEMMA TypeFacts ==
  ASSUME TypeInv
  PROVE  /\ obj \in [CT -> Object \cup {Nil}] /\ cache \in [CT -> Object \cup {Nil}]
         /\ \A c \in CT : Listable(obj[c]) /\ Listable(cache[c])
         /\ news \subseteq CT /\ queue \subseteq CT
         /\ cfd \in [CF -> Cloudflared \cup {Nil}] /\ cfdCache \in [CF -> Cloudflared \cup {Nil}] /\ cfdNews \subseteq CF
         /\ remote \in [Id -> Remote \cup {Nil}] /\ issued \subseteq Id /\ routes \in [Slot -> Id \cup {Nil}]
         /\ access \in BOOLEAN /\ spent \in [Kinds -> Nat]
BY DEF TypeInv, TypeOK, FiniteInv

\* What a user makes of an object.
LEMMA UserWrites ==
  ASSUME TypeInv, NEW c \in CT,
         UserDeletes(c) \/ \E s \in SpecsOf[c] : UserCreates(c, s) \/ UserEdits(c, s)
  PROVE  /\ obj' \in [CT -> Object \cup {Nil}] /\ news' \subseteq CT /\ \A d \in CT : Listable(obj'[d])
         /\ \A d \in CT \ {c} : obj'[d] = obj[d]
         /\ obj'[c] # Nil => /\ obj'[c].status = IF obj[c] = Nil THEN NoStatus ELSE obj[c].status
                             /\ \/ obj[c] # Nil /\ obj'[c].spec = obj[c].spec
                                \/ \E s \in SpecsOf[c] : obj'[c].spec = s
<1>1. obj[c] # Nil => obj[c] \in Object /\ Listable(obj[c])
  BY TypeFacts
<1>2. CASE UserDeletes(c)
  <2> DEFINE d == [obj[c] EXCEPT !.deleting = TRUE]
             o == IF obj[c].fin THEN d ELSE Nil
  <2>1. obj[c] # Nil /\ Write(c, o)
    BY <1>2 DEF UserDeletes
  <2>2. d \in Object /\ d.status = obj[c].status /\ d.spec = obj[c].spec
    BY <1>1, <2>1 DEF Object
  <2> HIDE DEF d
  <2>3. o \in Object \cup {Nil} /\ Listable(o) /\ (o # Nil => o.status = obj[c].status /\ o.spec = obj[c].spec)
    BY <1>1, <2>1, <2>2 DEF Listable
  <2> HIDE DEF o
  <2>4. QED
    BY <2>1, <2>3, WriteType
<1>3. ASSUME NEW s \in SpecsOf[c], UserCreates(c, s) \/ UserEdits(c, s)
      PROVE  /\ obj' \in [CT -> Object \cup {Nil}] /\ news' \subseteq CT /\ \A d \in CT : Listable(obj'[d])
             /\ \A d \in CT \ {c} : obj'[d] = obj[d]
             /\ obj'[c].status = IF obj[c] = Nil THEN NoStatus ELSE obj[c].status
             /\ obj'[c].spec = s
  <2>1. s \in TunnelSpec /\ IsFiniteSet(s.routes)
    BY ConstantsAssumption
  <2>2. CASE UserCreates(c, s)
    <3> DEFINE o == [deleting |-> FALSE, fin |-> FALSE, spec |-> s, status |-> NoStatus]
    <3>1. obj[c] = Nil /\ Write(c, o)
      BY <2>2 DEF UserCreates
    <3>2. NoStatus \in Status
      BY DEF NoStatus, Status
    <3>3. o \in Object /\ o.spec = s /\ o.status = NoStatus
      BY <2>1, <3>2 DEF Object
    <3> HIDE DEF o
    <3>4. Listable(o)
      BY <2>1, <3>3 DEF Listable
    <3>5. QED
      BY <3>1, <3>3, <3>4, WriteType
  <2>3. CASE UserEdits(c, s)
    <3> DEFINE o == [obj[c] EXCEPT !.spec = s]
    <3>1. obj[c] # Nil /\ Write(c, o)
      BY <2>3 DEF UserEdits
    <3>2. o \in Object /\ o.spec = s /\ o.status = obj[c].status
      BY <1>1, <2>1, <3>1 DEF Object
    <3> HIDE DEF o
    <3>3. Listable(o)
      BY <2>1, <3>2 DEF Listable
    <3>4. QED
      BY <3>1, <3>2, <3>3, WriteType
  <2>4. QED
    BY <1>3, <2>2, <2>3
<1>4. CASE \E s \in SpecsOf[c] : UserCreates(c, s) \/ UserEdits(c, s)
  <2>1. PICK s \in SpecsOf[c] : UserCreates(c, s) \/ UserEdits(c, s)
    BY <1>4
  <2>2. QED
    BY <1>3, <2>1
<1>5. QED
  BY <1>2, <1>4

LEMMA EnvironmentType == ASSUME TypeInv, Environment PROVE TypeInv'
<1>1. /\ "user" \in Kinds /\ "cloudflared" \in Kinds /\ "fault" \in Kinds /\ "outside" \in Kinds
  BY DEF Kinds
<1>2. ASSUME NEW c \in CT, UserDeletes(c) \/ \E s \in SpecsOf[c] : UserCreates(c, s) \/ UserEdits(c, s) PROVE TypeInv'
  <2>1. obj' \in [CT -> Object \cup {Nil}] /\ news' \subseteq CT /\ \A d \in CT : Listable(obj'[d])
    BY <1>2, UserWrites
  <2>2. Spend("user") /\ UNCHANGED <<cache, queue, cfdVars, remoteVars, workerVars>>
    BY <1>2 DEF UserDeletes, UserCreates, UserEdits
  <2>3. QED
    BY <1>1, <2>1, <2>2, SpendType, TypeFacts, OutsideType DEF cfdVars, remoteVars
<1>3. ASSUME NEW c \in CT, DnsRecordChanges(c) PROVE TypeInv'
  <2>1. /\ Spend("outside") /\ queue' = queue \cup {c}
        /\ UNCHANGED <<obj, cache, news, cfdVars, remoteVars, workerVars>>
    BY <1>3 DEF DnsRecordChanges
  <2>2. QED
    BY <1>1, <2>1, SpendType, TypeFacts, OutsideType DEF cfdVars, remoteVars
<1>4. ASSUME NEW f \in CF, UserDeletesCloudflared(f) \/ \E l \in Label : UserCreatesCloudflared(f, l) PROVE TypeInv'
  <2>1. PICK o \in Cloudflared \cup {Nil} : WriteCloudflared(f, o)
    <3>1. \A l \in Label : [label |-> l, owner |-> Nil, tunnelId |-> Nil] \in Cloudflared
      BY DEF Cloudflared
    <3>2. QED
      BY <1>4, <3>1 DEF UserDeletesCloudflared, UserCreatesCloudflared
  <2>2. Spend("cloudflared") /\ UNCHANGED <<obj, cache, news, queue, cfdCache, remoteVars, workerVars>>
    BY <1>4 DEF UserDeletesCloudflared, UserCreatesCloudflared
  <2>3. QED
    BY <1>1, <2>1, <2>2, CloudflaredEffect, SpendType, TypeFacts, OutsideType DEF remoteVars
<1>5. ASSUME NEW i \in Id, RemovedUpstream(i) PROVE TypeInv'
  <2>1. /\ Spend("outside") /\ UNCHANGED <<clusterVars, issued, access, workerVars>>
        /\ remote' = [remote EXCEPT ![i] = Nil]
        /\ routes' = [s \in Slot |-> IF routes[s] = i THEN Nil ELSE routes[s]]
    BY <1>5 DEF RemovedUpstream
  <2>2. remote' \in [Id -> Remote \cup {Nil}] /\ routes' \in [Slot -> Id \cup {Nil}]
    BY <2>1, TypeFacts
  <2>3. QED
    BY <1>1, <2>1, <2>2, SpendType, TypeFacts, OutsideType DEF clusterVars
<1>6. QED
  BY <1>2, <1>3, <1>4, <1>5 DEF Environment

LEMMA NextType == ASSUME TypeInv, [Next]_vars PROVE TypeInv'
<1>1. ASSUME NEW c \in CT, ReconcileGone(c) PROVE TypeInv'
  BY <1>1, TypeFacts, OutsideType DEF ReconcileGone, cfdVars, remoteVars
<1>2. ASSUME NEW c \in CT, Reconcile(c) PROVE TypeInv'
  <2>1. /\ rec' \in Object /\ cur' = c /\ Listable(rec') /\ rec' = cache[c]
        /\ pc' = (IF cache[c].deleting THEN "finalize" ELSE Proceed(cache[c]))
        /\ queue' \subseteq CT /\ UNCHANGED <<obj, cache, news, cfdVars, remoteVars, tid, res, plan, list, spent>>
    BY <1>2, TypeFacts DEF Reconcile
  <2>2. /\ pc' \in {"finalize", "conditions", "addFinalizer", "create", "get"}
        /\ pc' \in {"create", "get"} => rec'.status.conditions \in Conditions
        /\ pc' = "get" => rec'.status.id \in Id
    BY <2>1, ProceedFacts
  <2>3. LocalsInv'
    BY <1>2, <2>1, <2>2 DEF LocalsInv, Creating, Updating, Serving, Deleting
  <2>4. pc' \in Calls
    BY <2>2 DEF Calls
  <2>5. TypeOK'
    BY <1>2, <2>1, <2>4 DEF TypeInv, TypeOK, cfdVars, remoteVars
  <2>6. QED
    BY <2>1, <2>3, <2>5 DEF TypeInv, FiniteInv
<1>3. ASSUME NEW c \in CT, Sync(c) PROVE TypeInv'
  <2>1. /\ cache' = [cache EXCEPT ![c] = obj[c]] /\ news' \subseteq CT /\ queue' \subseteq CT
        /\ UNCHANGED <<obj, cfdVars, remoteVars, workerVars, spent>>
    BY <1>3, TypeFacts DEF Sync
  <2>2. cache' \in [CT -> Object \cup {Nil}] /\ \A d \in CT : Listable(cache'[d])
    BY <2>1, TypeFacts
  <2>3. QED
    BY <2>1, <2>2, TypeFacts, OutsideType DEF cfdVars, remoteVars
<1>4. ASSUME NEW f \in CF, SyncCloudflared(f) PROVE TypeInv'
  <2>1. cfdCache' \in [CF -> Cloudflared \cup {Nil}] /\ cfdNews' \subseteq CF
    BY <1>4, TypeFacts DEF SyncCloudflared
  <2>2. QED
    BY <1>4, <2>1, TypeFacts, OutsideType DEF SyncCloudflared, remoteVars
<1>5. ASSUME NEW f \in CF, Collect(f) PROVE TypeInv'
  <2>1. cfd' \in [CF -> Cloudflared \cup {Nil}] /\ cfdNews' \subseteq CF
    BY <1>5, CloudflaredEffect DEF Collect
  <2>2. QED
    BY <1>5, <2>1, TypeFacts, OutsideType DEF Collect, remoteVars
<1>6. CASE CallFails
  <2>1. spent' \in [Kinds -> Nat] /\ pc # "idle"
    BY <1>6, SpendType DEF CallFails, Kinds, Calls
  <2>2. QED
    BY <1>6, <2>1, ReturnType DEF CallFails
<1>7. CASE SecretFails
  <2>1. spent' \in [Kinds -> Nat]
    BY <1>7, SpendType DEF SecretFails, Kinds
  <2>2. /\ pc = "create" /\ pc' = "degradeSecret"
        /\ UNCHANGED <<cur, clusterVars, remoteVars, rec, tid, res, plan, list>>
    BY <1>7 DEF SecretFails, Goto
  <2>3. LocalsInv'
    BY <2>2 DEF TypeInv, LocalsInv, Creating, Updating, Serving, Deleting
  <2>4. pc' \in Calls
    BY <2>2 DEF Calls
  <2>5. TypeOK'
    BY <2>1, <2>2, <2>4 DEF TypeInv, TypeOK, clusterVars, remoteVars
  <2>6. QED
    BY <2>2, <2>3, <2>5 DEF TypeInv, FiniteInv, clusterVars
<1>8. CASE Restart
  <2>1. spent' \in [Kinds -> Nat]
    BY <1>8, SpendType DEF Restart, Kinds
  <2>2. {c \in CT : obj[c] # Nil} \in SUBSET CT
    OBVIOUS
  <2>3. /\ cache' = obj /\ news' = {} /\ cfdCache' = cfd /\ cfdNews' = {} /\ Return({c \in CT : obj[c] # Nil})
        /\ UNCHANGED <<obj, cfd, remoteVars>>
    BY <1>8 DEF Restart
  <2>4. QED
    BY <2>1, <2>2, <2>3, TypeFacts, WorkerReturns
<1>9. CASE UNCHANGED vars
  BY <1>9 DEF vars, TypeInv, TypeOK, LocalsInv, FiniteInv
<1>10. QED
  BY <1>1, <1>2, <1>3, <1>4, <1>5, <1>6, <1>7, <1>8, <1>9, StepType, EnvironmentType DEF Next

\* Every variable of the controller keeps its type: also Reconcile's copy, that
\* is decoded over an older one, and the plan of the routes.
THEOREM TypeCorrect == Spec => []TypeOK
<1>1. Init => TypeInv
  BY InitType
<1>2. TypeInv /\ [Next]_vars => TypeInv'
  BY NextType
<1>3. TypeInv => TypeOK
  BY DEF TypeInv
<1>4. QED
  BY <1>1, <1>2, <1>3, PTL DEF Spec

-----------------------------------------------------------------------------
(* What a step does to the objects, to Reconcile's copy and at Cloudflare *)

\* The id and the account of a status stay, and so does the spec.
Kept(o, p) == /\ o.status.id = p.status.id /\ o.status.account = p.status.account
              /\ o.spec = p.spec

\* A patch that leaves id and account of the status to the API server.
LEMMA PatchKeeps ==
  ASSUME TypeInv, pc # "idle", NEW new \in Status, PatchStatus(new),
         new.id = rec.status.id, new.account = rec.status.account
  PROVE  \A c \in CT : obj'[c] # Nil => obj[c] # Nil /\ Kept(obj'[c], obj[c])
<1>1. /\ obj[cur] \in Object /\ obj[cur] # Nil
      /\ obj'[cur].status = Merged(obj[cur].status, new)
      /\ obj'[cur].spec = obj[cur].spec
      /\ \A c \in CT \ {cur} : obj'[c] = obj[c]
  BY PatchEffect, NilAssumption
<1>2. Kept(obj'[cur], obj[cur])
  BY <1>1 DEF Kept, Merged
<1>3. QED
  BY <1>1, <1>2 DEF Kept

\* The copy that is decoded from an object: where the object's status has an id
\* that is the copy's, where it has none the copy keeps what was sent.
Reads(o, sent, p) ==
  /\ p.spec.name = o.spec.name /\ p.spec.account = o.spec.account
  /\ o.status.id # Nil => p.status.id = o.status.id /\ p.status.account = o.status.account
  /\ o.status.id = Nil => p.status.id = sent.id /\ p.status.account = sent.account

LEMMA RereadKeeps ==
  ASSUME TypeInv, rec \in Object, rec # Nil, NEW o \in Object, Listable(o), o # Nil, NEW new \in Status,
         o.status.id = Nil <=> o.status.account = Nil
  PROVE  Reads(o, new, Refreshed(o, new))
<1> DEFINE p == Refreshed(o, new)
<1>1. p.status = Decoded(o.status, new) /\ p.spec.name = o.spec.name /\ p.spec.account = o.spec.account
  BY RefreshEffect DEF TypeInv, FiniteInv
<1> HIDE DEF p
<1>2. Reads(o, new, p)
  BY <1>1 DEF Reads, Decoded
<1>3. QED
  BY <1>2 DEF p

\* The worker patches the status and reads it back.
PatchesAndReads ==
  /\ pc # "idle" /\ cur' = cur /\ rec' \in Object
  /\ obj[cur] # Nil /\ obj'[cur] # Nil /\ Reads(obj'[cur], rec.status, rec')
  /\ \A c \in CT : obj'[c] # Nil => obj[c] # Nil /\ Kept(obj'[c], obj[c])
  /\ UNCHANGED <<cache, remoteVars, tid, res>>

LEMMA PatchAndRead ==
  ASSUME TypeInv, BookInv, pc # "idle", NEW new \in Status, PatchStatus(new), Reread(new),
         new.id = rec.status.id, new.account = rec.status.account,
         UNCHANGED <<cur, cache, remoteVars, tid, res>>
  PROVE  PatchesAndReads
<1>1. cur \in CT /\ rec \in Object /\ rec # Nil
  BY AtCall
<1>2. /\ obj'[cur] \in Object /\ obj'[cur] # Nil /\ Listable(obj'[cur]) /\ obj[cur] # Nil
  BY <1>1, PatchEffect, NilAssumption
<1>3. \A c \in CT : obj'[c] # Nil => obj[c] # Nil /\ Kept(obj'[c], obj[c])
  BY PatchKeeps
<1>4. obj'[cur].status.id = Nil <=> obj'[cur].status.account = Nil
  BY <1>1, <1>2, <1>3 DEF Kept, BookInv, Booked, Paired
<1>5. rec' = Refreshed(obj'[cur], new)
  BY DEF Reread
<1>6. rec' \in Object
  BY <1>1, <1>2, <1>5, RefreshEffect DEF TypeInv, FiniteInv
<1>7. Reads(obj'[cur], new, rec')
  BY <1>1, <1>2, <1>4, <1>5, RereadKeeps
<1>8. Reads(obj'[cur], rec.status, rec')
  BY <1>7 DEF Reads
<1>9. QED
  BY <1>1, <1>2, <1>3, <1>6, <1>8 DEF PatchesAndReads

LEMMA ReadingSteps ==
  ASSUME TypeInv, BookInv,
         \/ InitConditions \/ AddFinalizer \/ MarkCloudflareds \/ MarkTunnel
         \/ UpdateStatus /\ pc' # "idle"
         \/ SelectCloudflareds /\ pc' # "idle"
  PROVE  PatchesAndReads
<1>1. /\ cur \in CT /\ rec \in Object /\ rec.status \in Status /\ rec # Nil /\ pc # "idle"
  BY AtCall DEF InitConditions, AddFinalizer, MarkCloudflareds, MarkTunnel, UpdateStatus, SelectCloudflareds
<1>2. CASE InitConditions
  <2> DEFINE c == [progressing |-> "unknown", degraded |-> "unknown"]
             new == [rec.status EXCEPT !.conditions = c]
  <2>1. c \in Conditions
    BY DEF Conditions, Progressing, Degraded
  <2>2. PatchStatus(new) /\ Reread(new) /\ UNCHANGED <<cur, cache, remoteVars, tid, res>>
    BY <1>2 DEF InitConditions, Goto
  <2> HIDE DEF c
  <2>3. new \in Status /\ new.id = rec.status.id /\ new.account = rec.status.account
    BY <1>1, <2>1 DEF Status
  <2> HIDE DEF new
  <2>4. QED
    BY <1>1, <2>2, <2>3, PatchAndRead
<1>3. CASE AddFinalizer
  <2> DEFINE o == [obj[cur] EXCEPT !.fin = TRUE]
  <2>1. obj[cur] \in Object /\ obj[cur] # Nil /\ Listable(obj[cur]) /\ Booked(obj[cur], remote, issued)
    BY <1>1, <1>3, TypeFacts DEF AddFinalizer, BookInv
  <2>2. o \in Object /\ o.spec = obj[cur].spec /\ o.status = obj[cur].status
    BY <2>1 DEF Object
  <2>3. Write(cur, o) /\ Reread(rec.status) /\ UNCHANGED <<cur, cache, remoteVars, tid, res>>
    BY <1>3 DEF AddFinalizer, Goto
  <2> HIDE DEF o
  <2>4. Listable(o) /\ o # Nil /\ Kept(o, obj[cur]) /\ (o.status.id = Nil <=> o.status.account = Nil)
    BY <2>1, <2>2, NilAssumption DEF Listable, Kept, Booked, Paired
  <2>5. obj'[cur] = o /\ \A c \in CT \ {cur} : obj'[c] = obj[c]
    BY <1>1, <2>2, <2>3, <2>4, WriteType
  <2>6. rec' = Refreshed(o, rec.status)
    BY <2>3, <2>5 DEF Reread
  <2>7. rec' \in Object
    BY <1>1, <2>2, <2>4, <2>6, RefreshEffect DEF TypeInv, FiniteInv
  <2>8. Reads(o, rec.status, rec')
    BY <1>1, <2>2, <2>4, <2>6, RereadKeeps
  <2>9. \A c \in CT : obj'[c] # Nil => obj[c] # Nil /\ Kept(obj'[c], obj[c])
    BY <2>1, <2>4, <2>5 DEF Kept
  <2>10. QED
    BY <1>1, <2>1, <2>3, <2>4, <2>5, <2>7, <2>8, <2>9 DEF PatchesAndReads
<1>4. CASE MarkCloudflareds \/ MarkTunnel
  <2>1. PICK why \in Degraded : PatchStatus(Degrade(why)) /\ Reread(Degrade(why))
    BY <1>4 DEF MarkCloudflareds, MarkTunnel, Degraded
  <2>2. UNCHANGED <<cur, cache, remoteVars, tid, res>>
    BY <1>4 DEF MarkCloudflareds, MarkTunnel, Goto
  <2>3. QED
    BY <1>1, <2>1, <2>2, DegradeType, PatchAndRead
<1>5. CASE UpdateStatus /\ pc' # "idle"
  <2> DEFINE new == [id |-> res.id, account |-> res.account, routesReady |-> plan.ready,
                     conditions |-> [progressing |-> "updated", degraded |-> DegradedBy(res, plan)]]
  <2>1. new \in Status /\ new.id = res.id /\ new.account = res.account /\ pc = "status"
    BY <1>5, UpdatedStatus DEF UpdateStatus
  <2>2. PatchStatus(new) /\ Reread(new) /\ UNCHANGED <<cur, cache, remoteVars, tid, res>>
    BY <1>5 DEF UpdateStatus, Return, Goto
  <2> HIDE DEF new
  <2>3. new.id = rec.status.id /\ new.account = rec.status.account
    BY <2>1 DEF BookInv, Updating
  <2>4. QED
    BY <1>1, <2>1, <2>2, <2>3, PatchAndRead
<1>6. CASE SelectCloudflareds /\ pc' # "idle"
  <2> DEFINE new == [rec.status EXCEPT !.conditions.progressing = "selecting"]
  <2>1. rec.status.conditions \in Conditions
    BY <1>6 DEF SelectCloudflareds, TypeInv, LocalsInv, Serving
  <2>2. new \in Status /\ new.id = rec.status.id /\ new.account = rec.status.account
    BY <1>1, <2>1, SelectingStatus
  <2>3. PatchStatus(new) /\ Reread(new) /\ UNCHANGED <<cur, cache, remoteVars, tid, res>>
    BY <1>6 DEF SelectCloudflareds, Return, Goto
  <2> HIDE DEF new
  <2>4. QED
    BY <1>1, <2>2, <2>3, PatchAndRead
<1>7. QED
  BY <1>2, <1>3, <1>4, <1>5, <1>6

\* A step that ends the reconcile and changes no id, no account and no spec.
Ends ==
  /\ pc' = "idle" /\ rec' = Nil /\ UNCHANGED remoteVars
  /\ \A c \in CT : /\ cache'[c] \in {cache[c], obj[c]}
                   /\ obj'[c] # Nil => obj[c] # Nil /\ Kept(obj'[c], obj[c])

\* A step that leaves the worker where it is, which a user's edit of an object may be.
Outside ==
  /\ UNCHANGED <<pc, cur, rec, tid, res, plan>>
  /\ UNCHANGED remoteVars \/ \E i \in Id : RemovedUpstream(i)
  /\ \A c \in CT :
       /\ cache'[c] \in {cache[c], obj[c]}
       /\ obj'[c] # Nil => \/ obj[c] # Nil /\ Kept(obj'[c], obj[c])
                           \/ /\ obj'[c].status = IF obj[c] = Nil THEN NoStatus ELSE obj[c].status
                              /\ \E s \in SpecsOf[c] : obj'[c].spec = s

Reading ==
  \/ InitConditions \/ AddFinalizer \/ MarkCloudflareds \/ MarkTunnel
  \/ UpdateStatus /\ pc' # "idle"
  \/ SelectCloudflareds /\ pc' # "idle"

\* The steps that go on with the same copy.
Going ==
  \/ CreateTunnel \/ CreateConflicts \/ AdoptTunnel \/ AdoptAmbiguous
  \/ GetTunnel \/ EditTunnel \/ UpdateConfiguration \/ ListRoutes \/ DropRoute \/ AddRoute
  \/ Finalize \/ ListRoutesToDelete \/ PurgeRoute \/ DeleteTunnel \/ SecretFails

LEMMA EndsPlainly ==
  ASSUME pc' = "idle", rec' = Nil, UNCHANGED <<obj, cache, remoteVars>>
  PROVE  Ends
BY DEF Ends, Kept

LEMMA StepClasses == ASSUME TypeInv, BookInv, ReconcileStep PROVE Ends \/ RecordTunnel \/ Reading \/ Going \/ Outside
<1>1. CASE AdoptNothing \/ UpdateRefused \/ ApplyConflicts \/ PatchGone
  BY <1>1, EndsPlainly DEF AdoptNothing, UpdateRefused, ApplyConflicts, PatchGone, Return
<1>2. CASE ApplyConfig \/ CreateCloudflared \/ DeleteCloudflared
  <2>1. UNCHANGED <<obj, cache, remoteVars>>
    BY <1>2 DEF ApplyConfig, CreateCloudflared, DeleteCloudflared
  <2>2. (pc' = "idle" /\ rec' = Nil) \/ UNCHANGED <<pc, cur, rec, tid, res, plan>>
    BY <1>2 DEF ApplyConfig, CreateCloudflared, DeleteCloudflared, Return
  <2>3. CASE UNCHANGED <<pc, cur, rec, tid, res, plan>>
    BY <2>1, <2>3 DEF Outside, Kept
  <2>4. QED
    BY <2>1, <2>2, <2>3, EndsPlainly
<1>3. CASE UpdateStatus /\ pc' = "idle"
  <2> DEFINE new == [id |-> res.id, account |-> res.account, routesReady |-> plan.ready,
                     conditions |-> [progressing |-> "updated", degraded |-> DegradedBy(res, plan)]]
  <2>1. new \in Status /\ new.id = res.id /\ new.account = res.account /\ pc = "status"
    BY <1>3, UpdatedStatus DEF UpdateStatus
  <2>2. PatchStatus(new) /\ pc' = "idle" /\ rec' = Nil /\ UNCHANGED <<cache, remoteVars>>
    BY <1>3 DEF UpdateStatus, Return, Goto
  <2> HIDE DEF new
  <2>3. new.id = rec.status.id /\ new.account = rec.status.account
    BY <2>1 DEF BookInv, Updating
  <2>4. QED
    BY <2>1, <2>2, <2>3, PatchKeeps DEF Ends
<1>4. CASE SelectCloudflareds /\ pc' = "idle"
  <2> DEFINE new == [rec.status EXCEPT !.conditions.progressing = "selecting"]
  <2>1. rec.status.conditions \in Conditions /\ rec \in Object /\ pc # "idle"
    BY <1>4 DEF SelectCloudflareds, TypeInv, LocalsInv, Serving
  <2>2. new \in Status /\ new.id = rec.status.id /\ new.account = rec.status.account
    BY <2>1, SelectingStatus
  <2>3. PatchStatus(new) /\ pc' = "idle" /\ rec' = Nil /\ UNCHANGED <<cache, remoteVars>>
    BY <1>4 DEF SelectCloudflareds, Return, Goto, AfterSelect
  <2> HIDE DEF new
  <2>4. QED
    BY <2>1, <2>2, <2>3, PatchKeeps DEF Ends
<1>5. CASE RecordComplaint
  <2>1. Complaint[pc] \in Degraded /\ pc # "idle"
    BY <1>5, ComplaintType DEF RecordComplaint
  <2>2. rec \in Object
    BY <2>1, AtCall
  <2>3. /\ PatchStatus(Degrade(Complaint[pc])) /\ pc' = "idle" /\ rec' = Nil
        /\ UNCHANGED <<cache, remoteVars>>
    BY <1>5 DEF RecordComplaint, Return
  <2>4. QED
    BY <2>1, <2>2, <2>3, DegradeType, PatchKeeps DEF Ends
<1>6. CASE Release
  <2>1. /\ \A d \in CT \ {cur} : obj'[d] = obj[d]
        /\ obj'[cur] # Nil => Kept(obj'[cur], obj[cur])
    BY <1>6, Released DEF Kept
  <2>2. QED
    BY <1>6, <2>1 DEF Release, Return, Ends, Kept
<1>7. QED
  BY <1>1, <1>2, <1>3, <1>4, <1>5, <1>6 DEF ReconcileStep, Reading, Going

LEMMA Classes ==
  ASSUME TypeInv, BookInv, [Next]_vars
  PROVE  Ends \/ RecordTunnel \/ Reading \/ Going \/ Outside \/ \E c \in CT : Reconcile(c)
<1>1. ASSUME UNCHANGED <<pc, cur, rec, tid, res, plan>>, UNCHANGED obj,
             UNCHANGED remoteVars \/ \E i \in Id : RemovedUpstream(i),
             \A c \in CT : cache'[c] \in {cache[c], obj[c]}
      PROVE  Outside
  BY <1>1 DEF Outside, Kept
<1>2. ASSUME NEW c \in CT, ReconcileGone(c) \/ Sync(c) \/ DnsRecordChanges(c) PROVE Outside
  <2>1. \A d \in CT : cache'[d] \in {cache[d], obj[d]}
    BY <1>2, TypeFacts DEF ReconcileGone, Sync, DnsRecordChanges
  <2>2. QED
    BY <1>1, <1>2, <2>1 DEF ReconcileGone, Sync, DnsRecordChanges, workerVars
<1>3. ASSUME NEW f \in CF,
             \/ SyncCloudflared(f) \/ Collect(f) \/ UserDeletesCloudflared(f)
             \/ \E l \in Label : UserCreatesCloudflared(f, l)
      PROVE  Outside
  BY <1>1, <1>3 DEF SyncCloudflared, Collect, UserDeletesCloudflared, UserCreatesCloudflared, workerVars
<1>4. ASSUME NEW i \in Id, RemovedUpstream(i) PROVE Outside
  BY <1>1, <1>4 DEF RemovedUpstream, workerVars, clusterVars
<1>5. ASSUME NEW c \in CT, UserDeletes(c) \/ \E s \in SpecsOf[c] : UserCreates(c, s) \/ UserEdits(c, s) PROVE Outside
  <2>1. /\ \A d \in CT \ {c} : obj'[d] = obj[d]
        /\ obj'[c] # Nil => /\ obj'[c].status = IF obj[c] = Nil THEN NoStatus ELSE obj[c].status
                            /\ \/ obj[c] # Nil /\ obj'[c].spec = obj[c].spec
                               \/ \E s \in SpecsOf[c] : obj'[c].spec = s
    BY <1>5, UserWrites
  <2>2. UNCHANGED <<cache, remoteVars, workerVars>>
    BY <1>5 DEF UserDeletes, UserCreates, UserEdits
  <2>3. QED
    BY <2>1, <2>2 DEF Outside, Kept, workerVars
<1>6. CASE CallFails
  BY <1>6, EndsPlainly DEF CallFails, Return
<1>7. CASE Restart
  <2>1. cache' = obj /\ UNCHANGED <<obj, remoteVars>> /\ pc' = "idle" /\ rec' = Nil
    BY <1>7 DEF Restart, Return
  <2>2. QED
    BY <2>1 DEF Ends, Kept
<1>8. CASE UNCHANGED vars
  BY <1>1, <1>8 DEF vars, remoteVars
<1>9. QED
  BY <1>2, <1>3, <1>4, <1>5, <1>6, <1>7, <1>8, StepClasses DEF Next, Environment, Going

\* Ids are never issued again, and a tunnel keeps its account; its name it keeps
\* but for EditTunnel.
CloudStep ==
  /\ issued \subseteq issued'
  /\ \A i \in Id : remote'[i] # Nil =>
       \/ i \in issued' \ issued
       \/ /\ remote[i] # Nil /\ remote'[i].account = remote[i].account
          /\ pc = "edit" \/ remote'[i].name = remote[i].name

LEMMA CloudSteps ==
  ASSUME TypeInv, \/ Ends \/ RecordTunnel \/ Reading \/ Going \/ Outside \/ \E c \in CT : Reconcile(c),
         Reading => PatchesAndReads
  PROVE  CloudStep
<1>1. CASE UNCHANGED remoteVars
  BY <1>1 DEF CloudStep, remoteVars
<1>2. CASE \E i \in Id : RemovedUpstream(i)
  BY <1>2, TypeFacts DEF RemovedUpstream, CloudStep
<1>3. CASE CreateTunnel
  <2> DEFINE t == [account |-> rec.spec.account, name |-> rec.spec.name, src |-> rec.spec.src, config |-> Nil]
  <2>1. remote' = [remote EXCEPT ![FreshId] = t] /\ issued' = issued \cup {FreshId} /\ FreshId \in Id \ issued
    BY <1>3, TypeFacts, FreshIdType DEF CreateTunnel
  <2> HIDE DEF t
  <2>2. QED
    BY <2>1, TypeFacts DEF CloudStep
<1>4. CASE EditTunnel \/ UpdateConfiguration
  <2>1. tid \in Id /\ remote[tid] \in Remote
    BY <1>4, AnswerType DEF EditTunnel, UpdateConfiguration, Found, TypeInv, LocalsInv, Updating
  <2>2. \A v : /\ [remote[tid] EXCEPT !.name = v].account = remote[tid].account
               /\ [remote[tid] EXCEPT !.config = v].account = remote[tid].account
               /\ [remote[tid] EXCEPT !.config = v].name = remote[tid].name
    BY <2>1 DEF Remote
  <2>3. /\ issued' = issued
        /\ \E r : /\ remote' = [remote EXCEPT ![tid] = r] /\ r.account = remote[tid].account
                  /\ pc = "edit" \/ r.name = remote[tid].name
    <3>1. CASE EditTunnel
      <4> DEFINE r == [remote[tid] EXCEPT !.name = rec.spec.name]
      <4>1. remote' = [remote EXCEPT ![tid] = r] /\ pc = "edit" /\ issued' = issued
        BY <3>1 DEF EditTunnel
      <4>2. r.account = remote[tid].account
        BY <2>2
      <4> HIDE DEF r
      <4>3. QED
        BY <4>1, <4>2
    <3>2. CASE UpdateConfiguration
      <4> DEFINE r == [remote[tid] EXCEPT !.config = rec.spec.config]
      <4>1. remote' = [remote EXCEPT ![tid] = r] /\ issued' = issued
        BY <3>2 DEF UpdateConfiguration
      <4>2. r.account = remote[tid].account /\ r.name = remote[tid].name
        BY <2>2
      <4> HIDE DEF r
      <4>3. QED
        BY <4>1, <4>2
    <3>3. QED
      BY <1>4, <3>1, <3>2
  <2>4. remote[tid] # Nil
    BY <1>4 DEF EditTunnel, UpdateConfiguration, Found
  <2>5. QED
    BY <2>1, <2>3, <2>4, TypeFacts DEF CloudStep
<1>5. CASE DeleteTunnel
  BY <1>5, TypeFacts DEF DeleteTunnel, CloudStep
<1>6. CASE DropRoute \/ AddRoute \/ PurgeRoute
  BY <1>6 DEF DropRoute, AddRoute, PurgeRoute, CloudStep
<1>7. QED
  BY <1>1, <1>2, <1>3, <1>4, <1>5, <1>6
  DEF Ends, RecordTunnel, PatchesAndReads, Outside, Reconcile, Going, CreateConflicts, AdoptTunnel, AdoptAmbiguous,
      GetTunnel, ListRoutes, Finalize, ListRoutesToDelete, SecretFails

-----------------------------------------------------------------------------
(* Ids and accounts belong together *)

LEMMA KnownStays ==
  ASSUME CloudStep, NEW i \in Id, NEW a, Known(i, a, remote, issued)
  PROVE  Known(i, a, remote', issued')
BY DEF CloudStep, Known

LEMMA BookedStays ==
  ASSUME CloudStep, NEW o, o # Nil => o \in Object, Booked(o, remote, issued)
  PROVE  Booked(o, remote', issued')
<1> SUFFICES ASSUME o # Nil PROVE Paired(o.status, remote', issued')
  BY DEF Booked
<1>1. o.status.id \in Id \cup {Nil} /\ Paired(o.status, remote, issued)
  BY ObjectFacts, StatusFacts DEF Booked
<1>2. QED
  BY <1>1, KnownStays DEF Paired

\* It is enough to look at the copies with the tunnels as they were.
LEMMA BookStep ==
  ASSUME TypeInv', BookInv, CloudStep,
         \A c \in CT : Booked(obj'[c], remote, issued) /\ Booked(cache'[c], remote, issued),
         Booked(rec', remote, issued),
         pc' \in Creating => rec'.status.id = Nil,
         pc' = "record" => Known(res'.id, res'.account, remote', issued'),
         pc' \in Updating => tid' = rec'.status.id /\ res'.id = tid' /\ res'.account = rec'.status.account,
         pc' = "idle" => rec' = Nil
  PROVE  BookInv'
<1>1. \A i \in Id : remote'[i] # Nil => i \in issued'
  BY DEF BookInv, CloudStep
<1>2. /\ \A c \in CT : (obj'[c] # Nil => obj'[c] \in Object) /\ (cache'[c] # Nil => cache'[c] \in Object)
      /\ rec' # Nil => rec' \in Object
  BY DEF TypeInv, TypeOK
<1>3. \A c \in CT : Booked(obj'[c], remote', issued') /\ Booked(cache'[c], remote', issued')
  BY <1>2, BookedStays
<1>4. Booked(rec', remote', issued')
  BY <1>2, BookedStays
<1>5. QED
  BY <1>1, <1>3, <1>4 DEF BookInv

LEMMA KeptBooked ==
  ASSUME NEW o, NEW p, Kept(o, p), p # Nil, Booked(p, remote, issued)
  PROVE  Booked(o, remote, issued)
BY DEF Kept, Booked, Paired

LEMMA ReadsBooked ==
  ASSUME NEW o, NEW p, Reads(o, rec.status, p), o # Nil, rec # Nil, Booked(o, remote, issued), Booked(rec, remote, issued)
  PROVE  Booked(p, remote, issued)
BY DEF Reads, Booked, Paired

\* An answer that is written into a status that had no id.
LEMMA RecordEffect ==
  ASSUME TypeInv, BookInv, RecordTunnel
  PROVE  /\ pc' = "idle" /\ rec' = Nil /\ UNCHANGED <<cache, remoteVars>> /\ cur \in CT
         /\ obj[cur] # Nil /\ obj'[cur] # Nil
         /\ obj'[cur].status.id = res.id /\ obj'[cur].status.account = res.account
         /\ obj'[cur].spec = obj[cur].spec
         /\ \A c \in CT \ {cur} : obj'[c] = obj[c]
<1> DEFINE c == [progressing |-> "recorded", degraded |-> rec.status.conditions.degraded]
           new == [rec.status EXCEPT !.id = res.id, !.account = res.account, !.conditions = c]
<1>1. /\ cur \in CT /\ rec \in Object /\ rec.status \in Status /\ rec # Nil /\ pc # "idle"
      /\ rec.status.conditions \in Conditions /\ res \in Answers
  BY AtCall DEF RecordTunnel, TypeInv, LocalsInv, Creating
<1>2. c \in Conditions
  BY <1>1 DEF Conditions, Progressing
<1>3. PatchStatus(new) /\ pc' = "idle" /\ rec' = Nil /\ UNCHANGED <<cache, remoteVars>>
  BY <1>1 DEF RecordTunnel, Status, Return
<1> HIDE DEF c
<1>4. new \in Status /\ new.id = res.id /\ new.account = res.account
  BY <1>1, <1>2 DEF Status, Answers
<1> HIDE DEF new
<1>5. rec.status.id = Nil /\ rec.status.account = Nil
  BY <1>1 DEF BookInv, Booked, Paired, RecordTunnel, Creating
<1>6. res.id # Nil /\ res.account # Nil
  BY <1>1, ConstantsAssumption DEF Answers
<1>7. /\ obj[cur] \in Object /\ obj'[cur] \in Object /\ obj'[cur].status = Merged(obj[cur].status, new)
      /\ obj'[cur].spec = obj[cur].spec /\ \A d \in CT \ {cur} : obj'[d] = obj[d]
  BY <1>1, <1>3, <1>4, PatchEffect
<1>8. obj'[cur].status.id = res.id /\ obj'[cur].status.account = res.account
  BY <1>4, <1>5, <1>6, <1>7 DEF Merged
<1>9. QED
  BY <1>1, <1>3, <1>7, <1>8, NilAssumption

LEMMA NoStatusBooked == Paired(NoStatus, remote, issued)
BY DEF Paired, NoStatus

\* What a step that reads the status back goes on with.
LEMMA ReadingTo ==
  ASSUME TypeInv, BookInv, Reading
  PROVE  /\ pc' \notin Updating \cup {"idle", "record", "listRoutes", "purgeRoute", "markTunnel", "release"}
         /\ pc' \in Creating => rec'.status.id = Nil
         /\ pc' = "deleteTunnel" => pc = "markTunnel" /\ UNCHANGED plan
<1>1. rec' \in Object
  BY ReadingSteps DEF Reading, PatchesAndReads
<1>2. CASE InitConditions \/ AddFinalizer
  <2>1. pc' = Proceed(rec')
    BY <1>2 DEF InitConditions, AddFinalizer, Goto
  <2>2. QED
    BY <1>1, <2>1, ProceedFacts DEF Creating, Updating
<1>3. CASE MarkCloudflareds \/ MarkTunnel
  BY <1>3 DEF MarkCloudflareds, MarkTunnel, Goto, Creating, Updating
<1>4. CASE UpdateStatus /\ pc' # "idle"
  BY <1>4 DEF UpdateStatus, Return, Goto, Creating, Updating
<1>5. CASE SelectCloudflareds /\ pc' # "idle"
  BY <1>5 DEF SelectCloudflareds, Return, Goto, AfterSelect, Creating, Updating
<1>6. QED
  BY <1>2, <1>3, <1>4, <1>5 DEF Reading

LEMMA GoingKeeps == ASSUME Going PROVE UNCHANGED <<obj, cache, rec, cur>> /\ pc # "idle"
BY DEF Going, CreateTunnel, CreateConflicts, AdoptTunnel, AdoptAmbiguous, GetTunnel, EditTunnel, UpdateConfiguration,
       ListRoutes, DropRoute, AddRoute, Finalize, ListRoutesToDelete, PurgeRoute, DeleteTunnel, SecretFails,
       Goto, clusterVars

LEMMA BookGoing ==
  ASSUME TypeInv, TypeInv', BookInv, CloudStep, Going
  PROVE  BookInv'
<1>1. UNCHANGED <<obj, cache, rec, cur>> /\ pc # "idle" /\ rec \in Object /\ rec # Nil
  BY GoingKeeps, AtCall
<1>2. /\ \A c \in CT : Booked(obj'[c], remote, issued) /\ Booked(cache'[c], remote, issued)
      /\ Booked(rec', remote, issued)
  BY <1>1 DEF BookInv
<1>3. /\ pc' \in Creating => rec'.status.id = Nil
      /\ pc' = "record" => Known(res'.id, res'.account, remote', issued')
      /\ pc' \in Updating => tid' = rec'.status.id /\ res'.id = tid' /\ res'.account = rec'.status.account
      /\ pc' # "idle"
  <2>1. CASE CreateTunnel
    <3> DEFINE t == [account |-> rec.spec.account, name |-> rec.spec.name, src |-> rec.spec.src, config |-> Nil]
    <3>1. /\ remote' = [remote EXCEPT ![FreshId] = t] /\ issued' = issued \cup {FreshId} /\ FreshId \in Id \ issued
          /\ res'.id = FreshId /\ res'.account = rec.spec.account /\ pc' = "record" /\ pc = "create"
      BY <2>1, TypeFacts, FreshIdType DEF CreateTunnel, Goto
    <3>2. t.account = rec.spec.account
      OBVIOUS
    <3> HIDE DEF t
    <3>3. Known(res'.id, res'.account, remote', issued')
      BY <3>1, <3>2, TypeFacts DEF Known
    <3>4. QED
      BY <1>1, <3>1, <3>3 DEF BookInv, Creating, Updating
  <2>2. CASE AdoptTunnel
    <3>1. PICK i \in Id : Named(rec.spec.account, rec.spec.name) = {i} /\ res' = Answer(i)
      BY <2>2 DEF AdoptTunnel
    <3>2. remote[i] # Nil
      BY <3>1 DEF Named, Found
    <3>3. res'.id = i /\ res'.account = remote[i].account /\ i \in issued
      BY <3>1, <3>2, AnswerType DEF BookInv
    <3>4. pc = "adopt" /\ pc' = "record" /\ UNCHANGED remoteVars
      BY <2>2 DEF AdoptTunnel, Goto
    <3>5. Known(res'.id, res'.account, remote', issued')
      BY <3>3, <3>4 DEF Known, remoteVars
    <3>6. QED
      BY <1>1, <3>4, <3>5 DEF BookInv, Creating, Updating
  <2>3. CASE CreateConflicts \/ AdoptAmbiguous \/ SecretFails
    BY <1>1, <2>3 DEF CreateConflicts, AdoptAmbiguous, SecretFails, Goto, BookInv, Creating, Updating
  <2>4. CASE GetTunnel
    <3>1. rec.status.id \in Id /\ remote[rec.status.id] # Nil /\ rec.status.id # Nil
      BY <2>4, ConstantsAssumption DEF GetTunnel, TypeInv, LocalsInv, Found
    <3>2. res'.id = rec.status.id /\ res'.account = remote[rec.status.id].account
      BY <2>4, <3>1, AnswerType DEF GetTunnel
    <3>3. remote[rec.status.id].account = rec.status.account
      BY <1>1, <3>1 DEF BookInv, Booked, Paired, Known
    <3>4. tid' = rec.status.id /\ pc' \in Updating
      BY <2>4 DEF GetTunnel, Goto, AfterName, Updating
    <3>5. QED
      BY <1>1, <3>2, <3>3, <3>4 DEF Creating, Updating
  <2>5. CASE EditTunnel
    <3>1. pc = "edit" /\ res \in Answers /\ tid' = tid /\ res' = [res EXCEPT !.name = rec.spec.name] /\ pc' \in Updating
      BY <2>5 DEF EditTunnel, TypeInv, LocalsInv, Updating, Goto, AfterName
    <3>2. res'.id = res.id /\ res'.account = res.account
      BY <3>1 DEF Answers
    <3>3. QED
      BY <1>1, <3>1, <3>2 DEF BookInv, Creating, Updating
  <2>6. CASE UpdateConfiguration \/ ListRoutes \/ DropRoute \/ AddRoute
    <3>1. pc \in Updating /\ tid' = tid /\ res' = res
      BY <2>6 DEF UpdateConfiguration, ListRoutes, DropRoute, AddRoute, Updating
    <3>2. pc' \in {"routes", "dropRoute", "addRoute", "status"}
      <4>1. plan' \in Plan
        BY DEF TypeInv, TypeOK
      <4>2. QED
        BY <2>6, <4>1, AfterPlanFacts DEF UpdateConfiguration, ListRoutes, DropRoute, AddRoute, Goto
    <3>3. QED
      BY <1>1, <3>1, <3>2 DEF BookInv, Creating, Updating
  <2>7. CASE Finalize \/ ListRoutesToDelete \/ PurgeRoute \/ DeleteTunnel
    BY <2>7, PurgeFacts DEF Finalize, ListRoutesToDelete, PurgeRoute, DeleteTunnel, Goto, Creating, Updating
  <2>8. QED
    BY <2>1, <2>2, <2>3, <2>4, <2>5, <2>6, <2>7 DEF Going
<1>4. QED
  BY <1>2, <1>3, BookStep

\* Every copy after a step tells of tunnels that were known before.
LEMMA CopiesBooked ==
  ASSUME TypeInv, BookInv, Ends \/ RecordTunnel \/ Reading \/ Going \/ Outside \/ \E c \in CT : Reconcile(c)
  PROVE  /\ \A c \in CT : Booked(obj'[c], remote, issued) /\ Booked(cache'[c], remote, issued)
         /\ Booked(rec', remote, issued)
<1> DEFINE Copies == \A c \in CT : Booked(obj'[c], remote, issued) /\ Booked(cache'[c], remote, issued)
<1>1. (\A c \in CT : Booked(obj[c], remote, issued) /\ Booked(cache[c], remote, issued)) /\ Booked(rec, remote, issued)
  BY DEF BookInv
<1>2. ASSUME \A c \in CT : /\ cache'[c] \in {cache[c], obj[c]}
                           /\ obj'[c] # Nil => \/ obj[c] # Nil /\ Kept(obj'[c], obj[c])
                                               \/ obj'[c].status = IF obj[c] = Nil THEN NoStatus ELSE obj[c].status
      PROVE  Copies
  <2> SUFFICES ASSUME NEW c \in CT PROVE Booked(obj'[c], remote, issued) /\ Booked(cache'[c], remote, issued)
    OBVIOUS
  <2>1. Booked(obj'[c], remote, issued)
    BY <1>1, <1>2, KeptBooked, NoStatusBooked DEF Booked
  <2>2. QED
    BY <1>1, <1>2, <2>1
<1>3. CASE Ends
  BY <1>2, <1>3 DEF Ends, Booked
<1>4. CASE RecordTunnel
  <2>1. Known(res.id, res.account, remote, issued) /\ res \in Answers
    BY <1>4 DEF RecordTunnel, BookInv, TypeInv, LocalsInv
  <2>2. res.id # Nil /\ res.account # Nil
    BY <2>1, ConstantsAssumption DEF Answers
  <2>3. Booked(obj'[cur], remote, issued)
    BY <1>4, <2>1, <2>2, RecordEffect DEF Booked, Paired
  <2>4. QED
    BY <1>1, <1>4, <2>3, RecordEffect DEF Booked
<1>5. CASE Reading
  <2>1. PatchesAndReads
    BY <1>5, ReadingSteps DEF Reading
  <2>2. Copies
    BY <1>2, <2>1 DEF PatchesAndReads
  <2>3. cur \in CT /\ rec # Nil
    BY <2>1, AtCall DEF PatchesAndReads
  <2>4. Booked(rec', remote, issued)
    BY <1>1, <2>1, <2>2, <2>3, ReadsBooked DEF PatchesAndReads
  <2>5. QED
    BY <2>2, <2>4
<1>6. CASE Going
  BY <1>1, <1>6, GoingKeeps
<1>7. CASE Outside
  BY <1>1, <1>2, <1>7 DEF Outside
<1>8. CASE \E c \in CT : Reconcile(c)
  BY <1>1, <1>8 DEF Reconcile
<1>9. QED
  BY <1>3, <1>4, <1>5, <1>6, <1>7, <1>8

LEMMA BookNext ==
  ASSUME TypeInv, TypeInv', BookInv, [Next]_vars
  PROVE  BookInv'
<1>1. Ends \/ RecordTunnel \/ Reading \/ Going \/ Outside \/ \E c \in CT : Reconcile(c)
  BY Classes
<1>2. CloudStep
  BY <1>1, CloudSteps, ReadingSteps DEF Reading
<1>3. /\ \A c \in CT : Booked(obj'[c], remote, issued) /\ Booked(cache'[c], remote, issued)
      /\ Booked(rec', remote, issued)
  BY <1>1, CopiesBooked
<1>4. CASE Ends \/ RecordTunnel
  BY <1>2, <1>3, <1>4, RecordEffect, BookStep DEF Ends, Creating, Updating
<1>5. CASE Reading
  BY <1>2, <1>3, <1>5, ReadingTo, BookStep
<1>6. CASE Going
  BY <1>2, <1>6, BookGoing
<1>7. CASE Outside
  <2>1. pc = "record" => res.id \in Id
    BY DEF TypeInv, LocalsInv, Answers
  <2>2. pc = "record" => Known(res.id, res.account, remote', issued')
    BY <1>2, <2>1, KnownStays DEF BookInv
  <2>3. UNCHANGED <<pc, cur, rec, tid, res, plan>>
    BY <1>7 DEF Outside
  <2>4. QED
    BY <1>2, <1>3, <2>2, <2>3, BookStep DEF BookInv
<1>8. CASE \E c \in CT : Reconcile(c)
  <2>1. PICK c \in CT : Reconcile(c)
    BY <1>8
  <2>2. /\ rec' = cache[c] /\ cache[c] \in Object
        /\ pc' = (IF cache[c].deleting THEN "finalize" ELSE Proceed(cache[c]))
    BY <2>1, TypeFacts DEF Reconcile
  <2>3. /\ pc' \in {"finalize", "conditions", "addFinalizer", "create", "get"}
        /\ pc' = "create" => rec'.status.id = Nil
    BY <2>2, ProceedFacts
  <2>4. QED
    BY <1>2, <1>3, <2>2, <2>3, BookStep DEF Creating, Updating
<1>9. QED
  BY <1>1, <1>4, <1>5, <1>6, <1>7, <1>8

LEMMA InitBook == ASSUME Init PROVE BookInv
BY DEF Init, BookInv, Booked, Creating, Updating

-----------------------------------------------------------------------------
(* A tunnel is gone before its object is *)

\* The calls that finalize makes after the Cloudflareds are gone.
LastCalls == {"listRoutes", "purgeRoute", "markTunnel", "deleteTunnel", "release"}

\* No other steps than these lead there.
LEMMA ToLastCalls ==
  ASSUME TypeInv, TypeInv', BookInv, pc' \in LastCalls,
         Ends \/ RecordTunnel \/ Reading \/ Going \/ Outside \/ \E c \in CT : Reconcile(c)
  PROVE  \/ Reading /\ pc = "markTunnel" /\ pc' = "deleteTunnel" /\ UNCHANGED plan
         \/ Finalize \/ ListRoutesToDelete \/ PurgeRoute \/ DeleteTunnel \/ Outside
<1>1. CASE Ends \/ RecordTunnel
  BY <1>1 DEF Ends, RecordTunnel, Return, LastCalls
<1>2. CASE Reading
  BY <1>2, ReadingTo DEF LastCalls
<1>3. CASE Going
  <2>1. plan' \in Plan
    BY DEF TypeInv, TypeOK
  <2>2. QED
    BY <1>3, <2>1, AfterPlanFacts
    DEF Going, LastCalls, CreateTunnel, CreateConflicts, AdoptTunnel, AdoptAmbiguous, GetTunnel, EditTunnel,
        UpdateConfiguration, ListRoutes, DropRoute, AddRoute, SecretFails, Goto, AfterName
<1>4. CASE \E c \in CT : Reconcile(c)
  <2>1. PICK c \in CT : Reconcile(c)
    BY <1>4
  <2>2. cache[c] \in Object /\ pc' = IF cache[c].deleting THEN "finalize" ELSE Proceed(cache[c])
    BY <2>1, TypeFacts DEF Reconcile
  <2>3. QED
    BY <2>2, ProceedFacts DEF LastCalls
<1>5. QED
  BY <1>1, <1>2, <1>3, <1>4

LEMMA GoneNext ==
  ASSUME TypeInv, TypeInv', BookInv, GoneInv, [Next]_vars
  PROVE  GoneInv'
<1>1. Ends \/ RecordTunnel \/ Reading \/ Going \/ Outside \/ \E c \in CT : Reconcile(c)
  BY Classes
<1>2. CloudStep
  BY <1>1, CloudSteps, ReadingSteps DEF Reading
<1>3. CASE pc' \notin LastCalls
  BY <1>3 DEF GoneInv, LastCalls
<1>4. CASE Reading /\ pc = "markTunnel" /\ pc' = "deleteTunnel"
  <2>1. PatchesAndReads
    BY <1>4, ReadingSteps DEF Reading
  <2>2. tid \in Id /\ tid = rec.status.id /\ rec # Nil /\ tid # Nil
    BY <1>4, AtCall, ConstantsAssumption DEF TypeInv, LocalsInv, Deleting, GoneInv
  <2>3. tid \in issued
    BY <2>2 DEF BookInv, Booked, Paired, Known
  <2>4. tid' = tid /\ issued' = issued /\ cur' = cur
    BY <2>1 DEF PatchesAndReads, remoteVars
  <2>5. tid = rec'.status.id \/ obj'[cur].status.id # tid
    BY <2>1, <2>2 DEF PatchesAndReads, Reads
  <2>6. QED
    BY <1>4, <2>3, <2>4, <2>5 DEF GoneInv
<1>5. CASE Finalize
  <2>1. /\ tid' = rec.status.id /\ rec' = rec
        /\ pc' \in {"markCloudflareds", "listRoutes"} \/ (pc' = "release" /\ tid' = Nil)
    BY <1>5 DEF Finalize, Goto
  <2>2. QED
    BY <2>1 DEF GoneInv
<1>6. CASE ListRoutesToDelete \/ PurgeRoute
  <2>1. /\ pc \in {"listRoutes", "purgeRoute"} /\ pc' \in {"purgeRoute", "markTunnel"}
        /\ UNCHANGED <<tid, rec>>
    BY <1>6, PurgeFacts DEF ListRoutesToDelete, PurgeRoute, Goto
  <2>2. QED
    BY <2>1 DEF GoneInv
<1>7. CASE DeleteTunnel
  <2>1. /\ pc = "deleteTunnel" /\ pc' = "release" /\ UNCHANGED <<obj, cur, tid, issued, rec>>
        /\ remote' = [remote EXCEPT ![tid] = IF Found(tid, rec.status.account) THEN Nil ELSE @]
    BY <1>7 DEF DeleteTunnel, Goto, clusterVars
  <2>2. tid \in Id /\ rec # Nil /\ tid # Nil
    BY <2>1, AtCall, ConstantsAssumption DEF TypeInv, LocalsInv, Deleting
  <2>3. tid = rec.status.id => remote'[tid] = Nil
    BY <2>1, <2>2, TypeFacts DEF BookInv, Booked, Paired, Known, Found
  <2>4. QED
    BY <2>1, <2>3 DEF GoneInv
<1>8. CASE Outside /\ pc' \in LastCalls
  <2>1. UNCHANGED <<pc, cur, rec, tid>>
    BY <1>8 DEF Outside
  <2>2. cur \in CT
    BY <1>8, <2>1, AtCall DEF LastCalls
  <2>3. obj'[cur] # Nil => \/ obj'[cur].status.id = Nil
                           \/ obj[cur] # Nil /\ obj'[cur].status.id = obj[cur].status.id
    BY <1>8, <2>2 DEF Outside, Kept, NoStatus
  <2>4. tid \in issued => tid \in issued'
    BY <1>2 DEF CloudStep
  <2>5. tid \in issued /\ remote[tid] = Nil => remote'[tid] = Nil
    BY <1>2, TypeFacts DEF CloudStep
  <2>6. pc = "deleteTunnel" => tid # Nil
    BY ConstantsAssumption DEF TypeInv, LocalsInv, Deleting
  <2>7. QED
    BY <2>1, <2>3, <2>4, <2>5, <2>6 DEF GoneInv
<1>9. QED
  BY <1>1, <1>3, <1>4, <1>5, <1>6, <1>7, <1>8, ToLastCalls

\* finalize: an object whose status names a tunnel goes only after that tunnel
\* is gone from the account that it was created in.
THEOREM ReleasedClean == Spec => CleanRelease
<1> DEFINE Inv == TypeInv /\ BookInv /\ GoneInv
           Clean == \A c \in CT :
                      (/\ pc = "release" /\ cur = c /\ obj[c] # Nil /\ obj'[c] = Nil
                       /\ tid = obj[c].status.id /\ tid # Nil)
                      => remote[obj[c].status.id] = Nil
<1>1. Init => Inv
  BY InitType, InitBook DEF Init, GoneInv
<1>2. Inv /\ [Next]_vars => Inv'
  BY NextType, BookNext, GoneNext
<1>3. Inv => Clean
  BY DEF GoneInv
<1>4. Inv /\ [Next]_vars => [Clean]_vars
  BY <1>3
<1>5. QED
  BY <1>1, <1>2, <1>4, PTL DEF Spec, CleanRelease

-----------------------------------------------------------------------------
(* No route outlives its tunnel *)

\* Every route leads to a tunnel of its account.
Routed(rts, tunnels) ==
  \A s \in Slot : rts[s] # Nil => tunnels[rts[s]] # Nil /\ tunnels[rts[s]].account = s.account

\* A tunnel that stays keeps its routes.
LEMMA RoutedStays ==
  ASSUME TypeInv, BookInv, CloudStep, Routed(routes, remote), routes' = routes,
         \A i \in Id : remote[i] # Nil /\ remote'[i] = Nil => \A s \in Slot : routes[s] # i
  PROVE  Routed(routes', remote')
<1> SUFFICES ASSUME NEW s \in Slot, routes[s] # Nil
             PROVE  remote'[routes[s]] # Nil /\ remote'[routes[s]].account = s.account
  BY DEF Routed
<1> DEFINE i == routes[s]
<1>1. i \in Id /\ remote[i] # Nil /\ remote[i].account = s.account
  BY TypeFacts DEF Routed
<1>2. i \in issued /\ remote'[i] # Nil
  BY <1>1 DEF BookInv
<1>3. QED
  BY <1>1, <1>2 DEF CloudStep

LEMMA RoutedGoing ==
  ASSUME TypeInv, TypeInv', BookInv, GoneInv, RouteInv, access, CloudStep, Going
  PROVE  Routed(routes', remote')
<1>1. Routed(routes, remote)
  BY DEF RouteInv, Routed
<1>2. CASE UNCHANGED <<routes, remote>>
  BY <1>1, <1>2
<1>3. CASE CreateTunnel
  <2>1. /\ routes' = routes /\ FreshId \in Id \ issued
        /\ \A i \in Id : i # FreshId => remote'[i] = remote[i]
    BY <1>3, TypeFacts, FreshIdType DEF CreateTunnel
  <2>2. \A i \in Id : remote[i] # Nil => remote'[i] = remote[i]
    BY <2>1 DEF BookInv
  <2>3. QED
    BY <1>1, <2>1, <2>2, RoutedStays
<1>4. CASE EditTunnel \/ UpdateConfiguration
  <2>1. tid \in Id /\ remote[tid] \in Remote /\ remote[tid] # Nil /\ routes' = routes
    BY <1>4, AnswerType DEF EditTunnel, UpdateConfiguration, Found, TypeInv, LocalsInv, Updating
  <2>2. rec.spec \in TunnelSpec
    BY <1>4, AtCall DEF EditTunnel, UpdateConfiguration
  <2>3. /\ [remote[tid] EXCEPT !.name = rec.spec.name] \in Remote
        /\ [remote[tid] EXCEPT !.config = rec.spec.config] \in Remote
    BY <2>1, <2>2 DEF Remote, TunnelSpec
  <2>4. remote'[tid] \in Remote /\ \A i \in Id : i # tid => remote'[i] = remote[i]
    <3>1. CASE EditTunnel
      BY <2>1, <2>3, <3>1, TypeFacts DEF EditTunnel
    <3>2. CASE UpdateConfiguration
      BY <2>1, <2>3, <3>2, TypeFacts DEF UpdateConfiguration
    <3>3. QED
      BY <1>4, <3>1, <3>2
  <2>5. \A i \in Id : remote[i] # Nil => remote'[i] # Nil
    BY <2>4, NilAssumption
  <2>6. QED
    BY <1>1, <2>1, <2>5, RoutedStays
<1>5. CASE DropRoute \/ PurgeRoute
  <2>1. PICK s \in plan.drop : routes' = [routes EXCEPT ![s] = IF @ = tid THEN Nil ELSE @]
    BY <1>5 DEF DropRoute, PurgeRoute
  <2>2. remote' = remote
    BY <1>5 DEF DropRoute, PurgeRoute
  <2>3. QED
    BY <1>1, <2>1, <2>2, TypeFacts DEF Routed
<1>6. CASE AddRoute
  <2>1. PICK r \in plan.add :
          LET s == SlotOf(rec.status.account, r)
              granted == routes[s] = Nil /\ Found(tid, rec.status.account)
          IN  routes' = IF granted THEN [routes EXCEPT ![s] = tid] ELSE routes
    BY <1>6 DEF AddRoute
  <2> DEFINE s == SlotOf(rec.status.account, r)
  <2>2. s.account = rec.status.account /\ remote' = remote
    BY <1>6 DEF SlotOf, AddRoute
  <2> HIDE DEF s
  <2>3. routes' = routes \/ (routes' = [routes EXCEPT ![s] = tid] /\ Found(tid, s.account))
    BY <2>1, <2>2 DEF s
  <2>4. QED
    BY <1>1, <2>2, <2>3, TypeFacts DEF Routed, Found
<1>7. CASE DeleteTunnel
  <2>1. /\ routes' = routes /\ pc = "deleteTunnel"
        /\ remote' = [remote EXCEPT ![tid] = IF Found(tid, rec.status.account) THEN Nil ELSE @]
    BY <1>7 DEF DeleteTunnel
  <2>2. \A s \in Slot : routes[s] # tid
    BY <2>1 DEF RouteInv
  <2>3. \A i \in Id : remote[i] # Nil /\ remote'[i] = Nil => i = tid
    BY <2>1, TypeFacts
  <2>4. QED
    BY <1>1, <2>1, <2>2, <2>3, RoutedStays
<1>8. QED
  BY <1>2, <1>3, <1>4, <1>5, <1>6, <1>7
  DEF Going, CreateConflicts, AdoptTunnel, AdoptAmbiguous, GetTunnel, ListRoutes, Finalize, ListRoutesToDelete,
      SecretFails, remoteVars

\* The routes of a tunnel that is about to go.
Emptied ==
  /\ pc \in {"purgeRoute", "markTunnel", "deleteTunnel"} => \A s \in Slot : routes[s] = tid => s \in plan.drop
  /\ pc \in {"markTunnel", "deleteTunnel"} => plan.drop = {}

LEMMA EmptiedNext ==
  ASSUME TypeInv, TypeInv', BookInv, GoneInv, RouteInv, access, [Next]_vars
  PROVE  Emptied'
<1>1. Ends \/ RecordTunnel \/ Reading \/ Going \/ Outside \/ \E c \in CT : Reconcile(c)
  BY Classes
<1>2. CASE pc' \notin LastCalls \/ pc' = "release"
  BY <1>2 DEF Emptied, LastCalls
<1>3. CASE Reading /\ pc = "markTunnel" /\ pc' = "deleteTunnel" /\ UNCHANGED plan
  <2>1. UNCHANGED <<tid, routes>>
    BY <1>3, ReadingSteps DEF Reading, PatchesAndReads, remoteVars
  <2>2. QED
    BY <1>3, <2>1 DEF RouteInv, Emptied
<1>4. CASE Finalize \/ DeleteTunnel
  BY <1>4 DEF Finalize, DeleteTunnel, Goto, Emptied
<1>5. CASE ListRoutesToDelete
  <2>1. /\ pc = "listRoutes" /\ tid' = tid /\ routes' = routes /\ pc' = AfterPurge(plan')
        /\ plan' = [NoPlan EXCEPT !.drop = IF access THEN ExistingRoutes(tid, rec.status.account) ELSE {}]
    BY <1>5 DEF ListRoutesToDelete, remoteVars, Goto
  <2>2. plan'.drop = ExistingRoutes(tid, rec.status.account)
    BY <2>1 DEF NoPlan
  <2>3. tid \in Id /\ tid = rec.status.id /\ rec # Nil /\ tid # Nil
    BY <2>1, AtCall, ConstantsAssumption DEF TypeInv, LocalsInv, Deleting, GoneInv
  <2>4. \A s \in Slot : routes[s] = tid => s.account = rec.status.account
    BY <2>3 DEF RouteInv, BookInv, Booked, Paired, Known
  <2>5. \A s \in Slot : routes'[s] = tid' => s \in plan'.drop
    BY <2>1, <2>2, <2>4 DEF ExistingRoutes
  <2>6. pc' = "markTunnel" => plan'.drop = {}
    BY <2>1 DEF AfterPurge
  <2>7. QED
    BY <2>1, <2>5, <2>6, PurgeFacts DEF Emptied
<1>6. CASE PurgeRoute
  <2>1. PICK s \in plan.drop : /\ routes' = [routes EXCEPT ![s] = IF @ = tid THEN Nil ELSE @]
                               /\ plan' = [plan EXCEPT !.drop = @ \ {s}]
    BY <1>6 DEF PurgeRoute
  <2>2. pc = "purgeRoute" /\ tid' = tid /\ pc' = AfterPurge(plan')
    BY <1>6 DEF PurgeRoute, Goto
  <2>3. tid \in Id /\ tid # Nil /\ plan \in Plan
    BY <2>2, ConstantsAssumption DEF TypeInv, TypeOK, LocalsInv, Deleting
  <2>4. plan'.drop = plan.drop \ {s} /\ s \in Slot
    BY <2>1, <2>3 DEF Plan
  <2>5. \A t \in Slot : routes'[t] = tid => t \in plan'.drop
    BY <2>1, <2>2, <2>3, <2>4, TypeFacts DEF RouteInv
  <2>6. pc' = "markTunnel" => plan'.drop = {}
    BY <2>2 DEF AfterPurge
  <2>7. QED
    BY <2>2, <2>5, <2>6, PurgeFacts DEF Emptied
<1>7. CASE Outside /\ pc' \in LastCalls
  <2>1. UNCHANGED <<pc, tid, plan>>
    BY <1>7 DEF Outside
  <2>2. pc \in {"purgeRoute", "markTunnel", "deleteTunnel"} => tid # Nil
    BY ConstantsAssumption DEF TypeInv, LocalsInv, Deleting
  <2>3. \A s \in Slot : routes'[s] = routes[s] \/ routes'[s] = Nil
    BY <1>7 DEF Outside, RemovedUpstream, remoteVars
  <2>4. QED
    BY <2>1, <2>2, <2>3 DEF RouteInv, Emptied
<1>8. QED
  BY <1>1, <1>2, <1>3, <1>4, <1>5, <1>6, <1>7, ToLastCalls

LEMMA RouteNext ==
  ASSUME TypeInv, TypeInv', BookInv, GoneInv, RouteInv, [Next]_vars
  PROVE  RouteInv'
<1>1. Ends \/ RecordTunnel \/ Reading \/ Going \/ Outside \/ \E c \in CT : Reconcile(c)
  BY Classes
<1>2. CloudStep
  BY <1>1, CloudSteps, ReadingSteps DEF Reading
<1>3. access' = access
  BY <1>1, ReadingSteps
  DEF Ends, RecordTunnel, Reading, PatchesAndReads, Outside, RemovedUpstream, Reconcile, Going, CreateTunnel,
      CreateConflicts, AdoptTunnel, AdoptAmbiguous, GetTunnel, EditTunnel, UpdateConfiguration, ListRoutes,
      DropRoute, AddRoute, Finalize, ListRoutesToDelete, PurgeRoute, DeleteTunnel, SecretFails, remoteVars
<1> SUFFICES ASSUME access PROVE Routed(routes', remote') /\ Emptied'
  BY <1>3 DEF RouteInv, Routed, Emptied
<1>4. Emptied'
  BY EmptiedNext
<1>5. Routed(routes, remote)
  BY DEF RouteInv, Routed
<1>6. CASE UNCHANGED remoteVars
  BY <1>4, <1>5, <1>6 DEF remoteVars
<1>7. ASSUME NEW i \in Id, RemovedUpstream(i) PROVE Routed(routes', remote')
  BY <1>5, <1>7, TypeFacts DEF RemovedUpstream, Routed
<1>8. CASE Going
  BY <1>2, <1>4, <1>8, RoutedGoing
<1>9. QED
  BY <1>1, <1>4, <1>6, <1>7, <1>8, ReadingSteps DEF Ends, RecordTunnel, Reading, PatchesAndReads, Outside, Reconcile

\* deleteRoutes before deleteTunnel: with a token that may manage routes no route
\* outlives its tunnel, if none did before the first run.
THEOREM RoutesGoFirst == ASSUME RoutedBefore PROVE Spec => []NoRouteOutlivesTunnel
<1> DEFINE Inv == TypeInv /\ BookInv /\ GoneInv /\ RouteInv
<1>1. Init => Inv
  <2> SUFFICES ASSUME Init PROVE Inv
    OBVIOUS
  <2>1. PICK b \in Before : remote = b.remote /\ routes = b.routes /\ access = b.access
    BY DEF Init
  <2>2. RouteInv
    BY <2>1, RoutedBefore DEF Init, RouteInv, RoutedBefore
  <2>3. QED
    BY <2>2, InitType, InitBook DEF Init, GoneInv
<1>2. Inv /\ [Next]_vars => Inv'
  BY NextType, BookNext, GoneNext, RouteNext
<1>3. Inv => NoRouteOutlivesTunnel
  BY DEF RouteInv, NoRouteOutlivesTunnel
<1>4. QED
  BY <1>1, <1>2, <1>3, PTL DEF Spec

-----------------------------------------------------------------------------
(* An id is that of the tunnel with the name of the object *)

LEMMA NameStays ==
  ASSUME CloudStep, pc # "edit", NEW c, NEW o, o # Nil => o \in Object,
         NameOK(c, o, remote), Booked(o, remote, issued)
  PROVE  NameOK(c, o, remote')
<1> SUFFICES ASSUME o # Nil, o.status.id # Nil, remote'[o.status.id] # Nil
             PROVE  remote'[o.status.id].name = o.spec.name
  BY DEF NameOK
<1>1. o.status.id \in Id /\ o.status.id \in issued
  BY ObjectFacts, StatusFacts DEF Booked, Paired, Known
<1>2. QED
  BY <1>1 DEF CloudStep, NameOK

\* It is enough to look at the copies with the tunnels as they were.
LEMMA NameStep ==
  ASSUME TypeInv', BookInv', NameInv, CloudStep,
         \A c \in CT : Booked(obj'[c], remote, issued) /\ Booked(cache'[c], remote, issued),
         Booked(rec', remote, issued),
         \A c \in CT : NameOK(c, obj'[c], remote) /\ NameOK(c, cache'[c], remote),
         pc' # "idle" => NameOK(cur', rec', remote),
         pc' # "edit",
         pc' = "record" => (remote'[res'.id] # Nil => remote'[res'.id].name = rec'.spec.name)
  PROVE  NameInv'
<1>1. /\ \A c \in CT : (obj'[c] # Nil => obj'[c] \in Object) /\ (cache'[c] # Nil => cache'[c] \in Object)
      /\ rec' # Nil => rec' \in Object
      /\ pc # "edit"
  BY DEF TypeInv, TypeOK, NameInv
<1>2. \A c \in CT : NameOK(c, obj'[c], remote') /\ NameOK(c, cache'[c], remote')
  BY <1>1, NameStays
<1>3. pc' # "idle" => NameOK(cur', rec', remote')
  BY <1>1, NameStays
<1>4. QED
  BY <1>2, <1>3 DEF NameInv

LEMMA KeptNamed ==
  ASSUME NEW c, NEW o, NEW p, Kept(o, p), p # Nil, NameOK(c, p, remote)
  PROVE  NameOK(c, o, remote)
BY DEF Kept, NameOK

\* The copy that is read back has the object's name, and so had the copy before.
LEMMA ReadsNamed ==
  ASSUME FixedNames, NEW c \in CT, NEW o, NEW p, Reads(o, rec.status, p), o # Nil, rec # Nil,
         NameOK(c, o, remote), NameOK(c, rec, remote)
  PROVE  NameOK(c, p, remote)
<1>1. rec.spec.name = o.spec.name
  BY DEF NameOK, FixedNames
<1>2. QED
  BY <1>1 DEF Reads, NameOK

LEMMA NameGoing ==
  ASSUME TypeInv, TypeInv', BookInv, BookInv', NameInv, CloudStep, Going
  PROVE  NameInv'
<1>1. UNCHANGED <<obj, cache, rec, cur>> /\ pc # "idle" /\ rec \in Object /\ rec # Nil
  BY GoingKeeps, AtCall
<1>2. /\ \A c \in CT : Booked(obj'[c], remote, issued) /\ Booked(cache'[c], remote, issued)
      /\ Booked(rec', remote, issued)
  BY <1>1 DEF BookInv
<1>3. /\ \A c \in CT : NameOK(c, obj'[c], remote) /\ NameOK(c, cache'[c], remote)
      /\ NameOK(cur', rec', remote)
  BY <1>1 DEF NameInv
<1>4. /\ pc' # "edit"
      /\ pc' = "record" => (remote'[res'.id] # Nil => remote'[res'.id].name = rec'.spec.name)
  <2>1. CASE CreateTunnel
    <3> DEFINE t == [account |-> rec.spec.account, name |-> rec.spec.name, src |-> rec.spec.src, config |-> Nil]
    <3>1. /\ remote' = [remote EXCEPT ![FreshId] = t] /\ FreshId \in Id
          /\ res'.id = FreshId /\ pc' = "record"
      BY <2>1, TypeFacts, FreshIdType DEF CreateTunnel, Goto
    <3>2. t.name = rec.spec.name
      OBVIOUS
    <3> HIDE DEF t
    <3>3. QED
      BY <1>1, <3>1, <3>2, TypeFacts
  <2>2. CASE AdoptTunnel
    <3>1. PICK i \in Id : Named(rec.spec.account, rec.spec.name) = {i} /\ res' = Answer(i)
      BY <2>2 DEF AdoptTunnel
    <3>2. remote[i] # Nil /\ remote[i].name = rec.spec.name
      BY <3>1 DEF Named, Found
    <3>3. res'.id = i /\ pc' = "record" /\ remote' = remote
      BY <2>2, <3>1, <3>2, AnswerType DEF AdoptTunnel, Goto, remoteVars
    <3>4. QED
      BY <1>1, <3>2, <3>3
  <2>3. CASE GetTunnel
    <3>1. rec.status.id \in Id /\ remote[rec.status.id] # Nil /\ rec.status.id # Nil
      BY <2>3, ConstantsAssumption DEF GetTunnel, TypeInv, LocalsInv, Found
    <3>2. res'.name = remote[rec.status.id].name
      BY <2>3, <3>1, AnswerType DEF GetTunnel
    <3>3. remote[rec.status.id].name = rec.spec.name
      BY <1>1, <3>1 DEF NameInv, NameOK
    <3>4. QED
      BY <2>3, <3>2, <3>3 DEF GetTunnel, Goto, AfterName
  <2>4. CASE EditTunnel
    BY <2>4 DEF EditTunnel, NameInv
  <2>5. CASE ListRoutes \/ DropRoute \/ AddRoute
    <3>1. plan' \in Plan
      BY DEF TypeInv, TypeOK
    <3>2. QED
      BY <2>5, <3>1, AfterPlanFacts DEF ListRoutes, DropRoute, AddRoute, Goto
  <2>6. QED
    BY <2>1, <2>2, <2>3, <2>4, <2>5, PurgeFacts
    DEF Going, CreateConflicts, AdoptAmbiguous, UpdateConfiguration, Finalize, ListRoutesToDelete, PurgeRoute,
        DeleteTunnel, SecretFails, Goto
<1>5. QED
  BY <1>2, <1>3, <1>4, NameStep

LEMMA NameNext ==
  ASSUME FixedNames, TypeInv, TypeInv', BookInv, BookInv', NameInv, [Next]_vars
  PROVE  NameInv'
<1>1. Ends \/ RecordTunnel \/ Reading \/ Going \/ Outside \/ \E c \in CT : Reconcile(c)
  BY Classes
<1>2. CloudStep
  BY <1>1, CloudSteps, ReadingSteps DEF Reading
<1>3. /\ \A c \in CT : Booked(obj'[c], remote, issued) /\ Booked(cache'[c], remote, issued)
      /\ Booked(rec', remote, issued)
  BY <1>1, CopiesBooked
<1>4. \A c \in CT : NameOK(c, obj[c], remote) /\ NameOK(c, cache[c], remote)
  BY DEF NameInv
<1>5. ASSUME \A c \in CT : /\ cache'[c] \in {cache[c], obj[c]}
                           /\ obj'[c] # Nil => obj[c] # Nil /\ Kept(obj'[c], obj[c])
      PROVE  \A c \in CT : NameOK(c, obj'[c], remote) /\ NameOK(c, cache'[c], remote)
  <2> SUFFICES ASSUME NEW c \in CT PROVE NameOK(c, obj'[c], remote) /\ NameOK(c, cache'[c], remote)
    OBVIOUS
  <2>1. NameOK(c, obj'[c], remote)
    <3>1. CASE obj'[c] = Nil
      BY <3>1 DEF NameOK
    <3>2. CASE obj'[c] # Nil
      BY <1>4, <1>5, <3>2, KeptNamed
    <3>3. QED
      BY <3>1, <3>2
  <2>2. QED
    BY <1>4, <1>5, <2>1
<1>6. CASE Ends
  <2>1. \A c \in CT : NameOK(c, obj'[c], remote) /\ NameOK(c, cache'[c], remote)
    BY <1>5, <1>6 DEF Ends
  <2>2. QED
    BY <1>2, <1>3, <1>6, <2>1, NameStep DEF Ends
<1>7. CASE RecordTunnel
  <2>1. /\ cur \in CT /\ rec # Nil /\ NameOK(cur, rec, remote) /\ NameOK(cur, obj[cur], remote)
        /\ remote[res.id] # Nil => remote[res.id].name = rec.spec.name
    BY <1>4, <1>7, AtCall DEF RecordTunnel, NameInv
  <2>2. rec.spec.name = obj[cur].spec.name
    BY <1>7, <2>1, RecordEffect DEF NameOK, FixedNames
  <2>3. NameOK(cur, obj'[cur], remote)
    BY <1>7, <2>1, <2>2, RecordEffect DEF NameOK
  <2>4. \A c \in CT : NameOK(c, obj'[c], remote) /\ NameOK(c, cache'[c], remote)
    BY <1>4, <1>7, <2>3, RecordEffect
  <2>5. QED
    BY <1>2, <1>3, <1>7, <2>4, RecordEffect, NameStep
<1>8. CASE Reading
  <2>1. PatchesAndReads
    BY <1>8, ReadingSteps DEF Reading
  <2>2. \A c \in CT : NameOK(c, obj'[c], remote) /\ NameOK(c, cache'[c], remote)
    BY <1>5, <2>1 DEF PatchesAndReads
  <2>3. cur \in CT /\ rec # Nil /\ NameOK(cur, rec, remote)
    BY <2>1, AtCall DEF PatchesAndReads, NameInv
  <2>4. NameOK(cur', rec', remote)
    BY <2>1, <2>2, <2>3, ReadsNamed DEF PatchesAndReads
  <2>5. pc' # "edit" /\ pc' # "record"
    BY <1>8, ReadingTo DEF Updating
  <2>6. QED
    BY <1>2, <1>3, <2>2, <2>4, <2>5, NameStep
<1>9. CASE Going
  BY <1>2, <1>9, NameGoing
<1>10. CASE Outside
  <2>1. \A c \in CT : NameOK(c, obj'[c], remote) /\ NameOK(c, cache'[c], remote)
    <3> SUFFICES ASSUME NEW c \in CT PROVE NameOK(c, obj'[c], remote) /\ NameOK(c, cache'[c], remote)
      OBVIOUS
    <3>1. /\ cache'[c] \in {cache[c], obj[c]}
          /\ obj'[c] # Nil => \/ obj[c] # Nil /\ Kept(obj'[c], obj[c])
                              \/ /\ obj'[c].status = IF obj[c] = Nil THEN NoStatus ELSE obj[c].status
                                 /\ \E s \in SpecsOf[c] : obj'[c].spec = s
      BY <1>10 DEF Outside
    <3>2. ASSUME obj'[c].status = IF obj[c] = Nil THEN NoStatus ELSE obj[c].status,
                 NEW s \in SpecsOf[c], obj'[c].spec = s
          PROVE  NameOK(c, obj'[c], remote)
      <4>1. obj[c] # Nil => obj[c].spec.name = s.name
        BY <1>4 DEF NameOK, FixedNames
      <4>2. obj'[c].status.id # Nil => obj[c] # Nil /\ obj'[c].status.id = obj[c].status.id
        BY <3>2 DEF NoStatus
      <4>3. QED
        BY <1>4, <3>2, <4>1, <4>2 DEF NameOK
    <3>3. NameOK(c, obj'[c], remote)
      BY <1>4, <3>1, <3>2, KeptNamed DEF NameOK
    <3>4. QED
      BY <1>4, <3>1, <3>3
  <2>2. UNCHANGED <<pc, cur, rec, res>>
    BY <1>10 DEF Outside
  <2>3. pc = "record" => res.id \in Id /\ res.id \in issued
    BY DEF TypeInv, LocalsInv, Answers, BookInv, Known
  <2>4. pc = "record" => (remote'[res.id] # Nil => remote'[res.id].name = rec.spec.name)
    BY <1>2, <2>3 DEF CloudStep, NameInv
  <2>5. QED
    BY <1>2, <1>3, <2>1, <2>2, <2>4, NameStep DEF NameInv
<1>11. CASE \E c \in CT : Reconcile(c)
  <2>1. PICK c \in CT : Reconcile(c)
    BY <1>11
  <2>2. /\ rec' = cache[c] /\ cache[c] \in Object /\ cur' = c /\ UNCHANGED <<obj, cache>>
        /\ pc' = (IF cache[c].deleting THEN "finalize" ELSE Proceed(cache[c]))
    BY <2>1, TypeFacts DEF Reconcile
  <2>3. pc' \in {"finalize", "conditions", "addFinalizer", "create", "get"}
    BY <2>2, ProceedFacts
  <2>4. QED
    BY <1>2, <1>3, <1>4, <2>2, <2>3, NameStep
<1>12. QED
  BY <1>1, <1>6, <1>7, <1>8, <1>9, <1>10, <1>11

\* adoptTunnel goes by name, everything after it by id: while nobody changes
\* spec.name no copy of a status, however old, names a tunnel of another name or
\* pairs the id with another account.
THEOREM TracksOwn == ASSUME FixedNames PROVE Spec => []TracksOwnTunnel
<1> DEFINE Inv == TypeInv /\ BookInv /\ NameInv
<1>1. Init => Inv
  BY InitType, InitBook DEF Init, NameInv, NameOK
<1>2. Inv /\ [Next]_vars => Inv'
  BY NextType, BookNext, NameNext
<1>3. Inv => TracksOwnTunnel
  <2> SUFFICES ASSUME Inv PROVE TracksOwnTunnel
    OBVIOUS
  <2>1. ASSUME NEW c, NEW o, Booked(o, remote, issued), NameOK(c, o, remote) PROVE Owns(o)
    BY <2>1 DEF Booked, Paired, Known, NameOK, Owns
  <2>2. \A c \in CT : Owns(obj[c]) /\ Owns(cache[c])
    BY <2>1 DEF BookInv, NameInv
  <2>3. Owns(rec)
    BY <2>1 DEF BookInv, NameInv, Owns
  <2>4. QED
    BY <2>2, <2>3 DEF TracksOwnTunnel
<1>4. QED
  BY <1>1, <1>2, <1>3, PTL DEF Spec

-----------------------------------------------------------------------------
(* At rest: patches that change nothing *)

\* A patch that is no news to the informer has changed nothing, so the copy that
\* is read back is the copy there was.
LEMMA SameDecoded ==
  ASSUME rec \in Object
  PROVE  Refreshed(rec, rec.status) = rec
<1>1. rec.status \in Status /\ rec.spec \in TunnelSpec
  BY ObjectFacts
<1>2. Decoded(rec.status, rec.status) = rec.status
  BY <1>1 DEF Decoded, Status
<1>3. DecodedSpec(rec.spec, rec.spec) = rec.spec
  <2> DEFINE sp == rec.spec
             config == IF sp.config = Nil THEN sp.config ELSE sp.config
             rts == IF sp.routes = {} THEN sp.routes ELSE sp.routes
             over(sel) == IF sp.cloudflared # Nil /\ sel.template = Nil
                          THEN [sel EXCEPT !.template = sp.cloudflared.template] ELSE sel
             cfl == IF sp.cloudflared = Nil THEN sp.cloudflared ELSE over(sp.cloudflared)
  <2>1. DecodedSpec(sp, sp) = [sp EXCEPT !.config = config, !.routes = rts, !.cloudflared = cfl]
    BY <1>1 DEF DecodedSpec, TunnelSpec
  <2>2. config = sp.config /\ rts = sp.routes
    OBVIOUS
  <2>3. cfl = sp.cloudflared
    <3>1. CASE sp.cloudflared = Nil
      BY <3>1
    <3>2. CASE sp.cloudflared # Nil
      <4>1. sp.cloudflared \in Selection
        BY <1>1, <3>2 DEF TunnelSpec
      <4>2. over(sp.cloudflared) = sp.cloudflared
        BY <4>1 DEF Selection
      <4>3. QED
        BY <3>2, <4>2
    <3>3. QED
      BY <3>1, <3>2
  <2> HIDE DEF config, rts, cfl
  <2>4. QED
    BY <1>1, <2>1, <2>2, <2>3 DEF TunnelSpec
<1>4. Refreshed(rec, rec.status) = [rec EXCEPT !.status = Decoded(rec.status, rec.status),
                                                !.spec = DecodedSpec(rec.spec, rec.spec)]
  BY DEF Refreshed, Object
<1>5. QED
  BY <1>2, <1>3, <1>4 DEF Object

LEMMA NoNews ==
  ASSUME TypeInv, pc # "idle", NEW new \in Status, PatchStatus(new), rec = obj[cur], cur \notin news'
  PROVE  obj' = obj /\ news' = news /\ new = rec.status
<1>1. cur \in CT /\ rec \in Object /\ obj \in [CT -> Object \cup {Nil}]
  BY AtCall, TypeFacts
<1>2. rec.status \in Status
  BY <1>1, ObjectFacts
<1>3. Merged(rec.status, new) = new
  BY <1>2 DEF Merged, Status
<1> DEFINE o == [obj[cur] EXCEPT !.status = Merged(obj[cur].status, new)]
<1>4. Write(cur, o)
  BY DEF PatchStatus
<1>5. o.status = new
  BY <1>1, <1>3 DEF Object
<1> HIDE DEF o
<1>6. o = obj[cur] /\ news' = news /\ obj' = [obj EXCEPT ![cur] = o]
  BY <1>4 DEF Write
<1>7. QED
  BY <1>1, <1>5, <1>6

\* A settled object stays as it is under a patch, if it stays settled.
LEMMA NoNewsRead ==
  ASSUME TypeInv, pc # "idle", NEW new \in Status, PatchStatus(new), Reread(new), rec = obj[cur], cur \notin news'
  PROVE  obj' = obj /\ news' = news /\ rec' = rec /\ new = rec.status
<1>1. obj' = obj /\ news' = news /\ new = rec.status
  BY NoNews
<1>2. rec \in Object
  BY AtCall
<1>3. rec' = Refreshed(obj'[cur], new)
  BY DEF Reread
<1>4. QED
  BY <1>1, <1>2, <1>3, SameDecoded

-----------------------------------------------------------------------------
(* At rest: no object leads to the tunnel of another one *)

\* The worker spends nothing, and the token is what it is.
LEMMA StepSpends == ASSUME ReconcileStep PROVE UNCHANGED <<spent, access>>
<1>1. CASE \/ InitConditions \/ AddFinalizer \/ RecordTunnel \/ UpdateStatus \/ SelectCloudflareds \/ RecordComplaint
           \/ MarkCloudflareds \/ MarkTunnel \/ Release \/ PatchGone
  BY <1>1 DEF InitConditions, AddFinalizer, RecordTunnel, UpdateStatus, SelectCloudflareds, RecordComplaint,
              MarkCloudflareds, MarkTunnel, Release, PatchGone, remoteVars
<1>2. CASE \/ CreateTunnel \/ CreateConflicts \/ AdoptTunnel \/ AdoptNothing \/ AdoptAmbiguous
           \/ GetTunnel \/ EditTunnel \/ UpdateConfiguration \/ UpdateRefused \/ ListRoutes \/ DropRoute \/ AddRoute
  BY <1>2 DEF CreateTunnel, CreateConflicts, AdoptTunnel, AdoptNothing, AdoptAmbiguous, GetTunnel, EditTunnel,
              UpdateConfiguration, UpdateRefused, ListRoutes, DropRoute, AddRoute, remoteVars
<1>3. CASE \/ ApplyConfig \/ ApplyConflicts \/ CreateCloudflared \/ Finalize \/ DeleteCloudflared
           \/ ListRoutesToDelete \/ PurgeRoute \/ DeleteTunnel
  BY <1>3 DEF ApplyConfig, ApplyConflicts, CreateCloudflared, Finalize, DeleteCloudflared,
              ListRoutesToDelete, PurgeRoute, DeleteTunnel, remoteVars
<1>4. QED
  BY <1>1, <1>2, <1>3 DEF ReconcileStep

LEMMA NextSpends ==
  ASSUME TypeInv, [Next]_vars
  PROVE  /\ access' = access
         /\ spent'["outside"] = 0 => spent["outside"] = 0 /\ \A i \in Id : ~RemovedUpstream(i)
<1>1. spent \in [Kinds -> Nat] /\ "outside" \in Kinds
  BY TypeFacts DEF Kinds
<1>2. ASSUME NEW k \in Kinds, Spend(k) PROVE spent'["outside"] = 0 => spent["outside"] = 0 /\ k # "outside"
  <2>1. spent' = [spent EXCEPT ![k] = spent[k] + 1] /\ spent[k] \in Nat /\ spent["outside"] \in Nat
    BY <1>1, <1>2 DEF Spend
  <2>2. QED
    BY <1>1, <2>1
<1>3. /\ "user" \in Kinds /\ "cloudflared" \in Kinds /\ "fault" \in Kinds
  BY DEF Kinds
<1>4. \A i \in Id : RemovedUpstream(i) => Spend("outside") /\ access' = access
  BY DEF RemovedUpstream
<1>5. spent'["outside"] = 0 => \A i \in Id : ~RemovedUpstream(i)
  BY <1>1, <1>2, <1>4
<1>6. access' = access /\ (spent' = spent \/ \E k \in Kinds : Spend(k))
  <2>1. CASE ReconcileStep
    BY <2>1, StepSpends
  <2>2. CASE Environment
    BY <1>1, <1>3, <2>2 DEF Environment, UserDeletes, UserCreates, UserEdits, DnsRecordChanges, UserDeletesCloudflared,
       UserCreatesCloudflared, RemovedUpstream, remoteVars
  <2>3. CASE CallFails \/ SecretFails \/ Restart
    BY <1>3, <2>3 DEF CallFails, SecretFails, Restart, remoteVars
  <2>4. CASE \E c \in CT : ReconcileGone(c) \/ Reconcile(c) \/ Sync(c)
    BY <2>4 DEF ReconcileGone, Reconcile, Sync, remoteVars
  <2>5. CASE \E f \in CF : SyncCloudflared(f) \/ Collect(f)
    BY <2>5 DEF SyncCloudflared, Collect, remoteVars
  <2>6. CASE UNCHANGED vars
    BY <2>6 DEF vars
  <2>7. QED
    BY <2>1, <2>2, <2>3, <2>4, <2>5, <2>6 DEF Next
<1>7. QED
  BY <1>2, <1>5, <1>6

\* Only EditTunnel changes the name of a tunnel.
LEMMA NamesStay ==
  ASSUME TypeInv, BookInv, [Next]_vars, ~EditTunnel, NEW i \in issued, remote'[i] # Nil
  PROVE  remote[i] # Nil /\ remote'[i].account = remote[i].account /\ remote'[i].name = remote[i].name
<1>1. i \in Id /\ remote \in [Id -> Remote \cup {Nil}]
  BY TypeFacts
<1>2. Ends \/ RecordTunnel \/ Reading \/ Going \/ Outside \/ \E c \in CT : Reconcile(c)
  BY Classes
<1>3. CASE UNCHANGED remoteVars
  BY <1>3 DEF remoteVars
<1>4. CASE \E j \in Id : RemovedUpstream(j)
  BY <1>1, <1>4 DEF RemovedUpstream
<1>5. CASE Going
  <2>1. CASE CreateTunnel
    <3>1. FreshId # i /\ \A j \in Id : j # FreshId => remote'[j] = remote[j]
      BY <1>1, <2>1, TypeFacts, FreshIdType DEF CreateTunnel
    <3>2. QED
      BY <1>1, <3>1
  <2>2. CASE UpdateConfiguration
    <3>1. tid \in Id /\ remote[tid] \in Remote /\ remote[tid] # Nil
      BY <2>2, AnswerType DEF UpdateConfiguration, Found, TypeInv, LocalsInv, Updating
    <3> DEFINE r == [remote[tid] EXCEPT !.config = rec.spec.config]
    <3>2. r.account = remote[tid].account /\ r.name = remote[tid].name
      BY <3>1 DEF Remote
    <3>3. remote' = [remote EXCEPT ![tid] = r]
      BY <2>2 DEF UpdateConfiguration
    <3> HIDE DEF r
    <3>4. QED
      BY <1>1, <3>1, <3>2, <3>3
  <2>3. CASE DeleteTunnel
    BY <1>1, <2>3 DEF DeleteTunnel
  <2>4. CASE remote' = remote
    BY <2>4
  <2>5. QED
    BY <1>5, <2>1, <2>2, <2>3, <2>4
    DEF Going, CreateConflicts, AdoptTunnel, AdoptAmbiguous, GetTunnel, ListRoutes, Finalize, ListRoutesToDelete,
        SecretFails, DropRoute, AddRoute, PurgeRoute, remoteVars
<1>6. QED
  BY <1>2, <1>3, <1>4, <1>5, ReadingSteps DEF Ends, RecordTunnel, Reading, PatchesAndReads, Outside, Reconcile

\* Whoever asked for a tunnel goes on asking for it, also when it is renamed.
LEMMA AsksStay ==
  ASSUME OwnTunnels, TypeInv, BookInv, OwnInv, [Next]_vars, NEW c \in CT, NEW i \in issued, AsksFor(c, i, remote)
  PROVE  AsksFor(c, i, remote')
<1>1. CASE ~EditTunnel
  BY <1>1, NamesStay DEF AsksFor
<1>2. CASE EditTunnel
  <2>1. /\ cur \in CT /\ rec \in Object /\ rec # Nil /\ tid \in Id /\ remote \in [Id -> Remote \cup {Nil}] /\ i \in Id
        /\ pc # "idle" /\ tid = rec.status.id /\ tid # Nil
    BY <1>2, AtCall, TypeFacts, ConstantsAssumption DEF EditTunnel, TypeInv, LocalsInv, Updating, BookInv
  <2>2. /\ remote[tid] \in Remote /\ remote[tid] # Nil /\ remote[tid].account = rec.spec.account
        /\ remote' = [remote EXCEPT ![tid].name = rec.spec.name]
    BY <1>2, <2>1 DEF EditTunnel, Found
  <2>3. OwnOK(cur, rec, remote)
    BY <2>1 DEF OwnInv
  <2>4. Asks(cur, rec.spec.account, rec.spec.name) /\ Asks(cur, remote[tid].account, remote[tid].name)
    BY <2>1, <2>2, <2>3 DEF OwnOK, AsksFor
  <2>5. CASE i # tid
    BY <2>1, <2>2, <2>5 DEF AsksFor
  <2>6. CASE i = tid
    <3>1. c = cur
      BY <2>1, <2>2, <2>4, <2>6 DEF AsksFor, Asks, OwnTunnels
    <3>2. remote'[tid].account = rec.spec.account /\ remote'[tid].name = rec.spec.name
      BY <2>1, <2>2 DEF Remote
    <3>3. QED
      BY <2>4, <2>6, <3>1, <3>2 DEF AsksFor
  <2>7. QED
    BY <2>5, <2>6
<1>3. QED
  BY <1>1, <1>2

\* A tunnel that another object asks for is none of Reconcile's concern.
LEMMA OthersKeep ==
  ASSUME OwnTunnels, TypeInv, BookInv, OwnInv, [Next]_vars, \A j \in Id : ~RemovedUpstream(j),
         NEW c \in CT, pc = "idle" \/ cur # c, NEW i \in issued, remote[i] # Nil, AsksFor(c, i, remote)
  PROVE  remote'[i] = remote[i] /\ \A s \in Slot : routes'[s] = i <=> routes[s] = i
<1>1. i \in Id /\ remote \in [Id -> Remote \cup {Nil}] /\ routes \in [Slot -> Id \cup {Nil}] /\ i # Nil
  BY TypeFacts, ConstantsAssumption
<1>2. Ends \/ RecordTunnel \/ Reading \/ Going \/ Outside \/ \E d \in CT : Reconcile(d)
  BY Classes
<1>3. CASE UNCHANGED remoteVars
  BY <1>3 DEF remoteVars
<1>4. CASE Going
  <2>1. cur \in CT /\ rec \in Object /\ rec # Nil /\ pc # "idle"
    BY <1>4, GoingKeeps, AtCall
  <2>2. ASSUME AsksFor(cur, tid, remote) PROVE tid # i
    BY <2>1, <2>2 DEF AsksFor, Asks, OwnTunnels
  <2>3. pc \in Updating => AsksFor(cur, tid, remote) /\ tid \in Id
    <3>1. ASSUME pc \in Updating PROVE tid = rec.status.id /\ tid # Nil /\ OwnOK(cur, rec, remote) /\ tid \in Id
      BY <2>1, <3>1, ConstantsAssumption DEF BookInv, OwnInv, TypeInv, LocalsInv
    <3>2. QED
      BY <2>1, <3>1 DEF OwnOK
  <2>4. pc \in Deleting => AsksFor(cur, tid, remote) /\ tid \in Id
    BY DEF OwnInv, TypeInv, LocalsInv
  <2>5. CASE CreateTunnel
    <3>1. FreshId # i /\ (\A j \in Id : j # FreshId => remote'[j] = remote[j]) /\ routes' = routes
      BY <1>1, <2>5, TypeFacts, FreshIdType DEF CreateTunnel
    <3>2. QED
      BY <1>1, <3>1
  <2>6. CASE EditTunnel \/ UpdateConfiguration
    <3>1. tid # i /\ tid \in Id
      BY <2>2, <2>3, <2>6 DEF EditTunnel, UpdateConfiguration, Updating
    <3>2. routes' = routes /\ \E r : remote' = [remote EXCEPT ![tid] = r]
      BY <2>6 DEF EditTunnel, UpdateConfiguration
    <3>3. QED
      BY <1>1, <3>1, <3>2
  <2>7. CASE DeleteTunnel
    <3>1. tid # i /\ tid \in Id
      BY <2>2, <2>4, <2>7 DEF DeleteTunnel, Deleting
    <3>2. routes' = routes /\ \E r : remote' = [remote EXCEPT ![tid] = r]
      BY <2>7 DEF DeleteTunnel
    <3>3. QED
      BY <1>1, <3>1, <3>2
  <2>8. CASE DropRoute \/ PurgeRoute
    <3>1. tid # i /\ tid \in Id /\ remote' = remote
      BY <2>2, <2>3, <2>4, <2>8 DEF DropRoute, PurgeRoute, Deleting, Updating
    <3>2. PICK s \in plan.drop : routes' = [routes EXCEPT ![s] = IF @ = tid THEN Nil ELSE @]
      BY <2>8 DEF DropRoute, PurgeRoute
    <3>3. QED
      BY <1>1, <3>1, <3>2
  <2>9. CASE AddRoute
    <3>1. tid # i /\ tid \in Id /\ remote' = remote
      BY <2>2, <2>3, <2>9 DEF AddRoute, Updating
    <3>2. PICK r \in plan.add :
            LET s == SlotOf(rec.status.account, r)
                granted == routes[s] = Nil /\ Found(tid, rec.status.account)
            IN  routes' = IF granted THEN [routes EXCEPT ![s] = tid] ELSE routes
      BY <2>9 DEF AddRoute
    <3> DEFINE s == SlotOf(rec.status.account, r)
    <3>3. routes' = routes \/ (routes[s] = Nil /\ routes' = [routes EXCEPT ![s] = tid])
      BY <3>2
    <3> HIDE DEF s
    <3>4. QED
      BY <1>1, <3>1, <3>3
  <2>10. CASE UNCHANGED <<remote, routes>>
    BY <2>10
  <2>11. QED
    BY <1>4, <2>5, <2>6, <2>7, <2>8, <2>9, <2>10
    DEF Going, CreateConflicts, AdoptTunnel, AdoptAmbiguous, GetTunnel, ListRoutes, Finalize, ListRoutesToDelete,
        SecretFails, remoteVars
<1>5. QED
  BY <1>2, <1>3, <1>4, ReadingSteps DEF Ends, RecordTunnel, Reading, PatchesAndReads, Outside, Reconcile

LEMMA OwnStays ==
  ASSUME OwnTunnels, TypeInv, BookInv, OwnInv, [Next]_vars, NEW c \in CT, NEW o, o # Nil => o \in Object,
         OwnOK(c, o, remote), Booked(o, remote, issued)
  PROVE  OwnOK(c, o, remote')
<1> SUFFICES ASSUME o # Nil, o.status.id # Nil PROVE AsksFor(c, o.status.id, remote')
  BY DEF OwnOK
<1>1. o.status.id \in issued
  BY DEF Booked, Paired, Known
<1>2. AsksFor(c, o.status.id, remote)
  BY DEF OwnOK
<1>3. QED
  BY <1>1, <1>2, AsksStay

\* It is enough to look at the copies with the tunnels as they were.
LEMMA OwnStep ==
  ASSUME OwnTunnels, TypeInv, TypeInv', BookInv, OwnInv, [Next]_vars,
         \A c \in CT : Booked(obj'[c], remote, issued) /\ Booked(cache'[c], remote, issued),
         Booked(rec', remote, issued),
         \A c \in CT : OwnOK(c, obj'[c], remote) /\ OwnOK(c, cache'[c], remote),
         pc' # "idle" => OwnOK(cur', rec', remote),
         pc' = "record" => AsksFor(cur', res'.id, remote'),
         pc' \in Deleting => tid' \in issued /\ AsksFor(cur', tid', remote)
  PROVE  OwnInv'
<1>1. /\ \A c \in CT : (obj'[c] # Nil => obj'[c] \in Object) /\ (cache'[c] # Nil => cache'[c] \in Object)
      /\ rec' # Nil => rec' \in Object
      /\ pc' # "idle" => cur' \in CT
      /\ pc' \in Deleting => pc' # "idle"
  BY DEF TypeInv, TypeOK, LocalsInv, Deleting
<1>2. \A c \in CT : OwnOK(c, obj'[c], remote') /\ OwnOK(c, cache'[c], remote')
  BY <1>1, OwnStays
<1>3. pc' # "idle" => OwnOK(cur', rec', remote')
  BY <1>1, OwnStays
<1>4. issued \subseteq issued'
  <2>1. Ends \/ RecordTunnel \/ Reading \/ Going \/ Outside \/ \E c \in CT : Reconcile(c)
    BY Classes
  <2>2. QED
    BY <2>1, CloudSteps, ReadingSteps DEF Reading, CloudStep
<1>5. pc' \in Deleting => tid' \in issued' /\ AsksFor(cur', tid', remote')
  BY <1>1, <1>4, AsksStay
<1>6. QED
  BY <1>2, <1>3, <1>5 DEF OwnInv

LEMMA KeptOwn ==
  ASSUME NEW c, NEW o, NEW p, Kept(o, p), p # Nil, OwnOK(c, p, remote)
  PROVE  OwnOK(c, o, remote)
BY DEF Kept, OwnOK

\* The copy that is read back leads to the object's tunnel or to the copy's.
LEMMA ReadsOwn ==
  ASSUME NEW c, NEW o, NEW p, Reads(o, rec.status, p), o # Nil, rec # Nil, OwnOK(c, o, remote), OwnOK(c, rec, remote)
  PROVE  OwnOK(c, p, remote)
BY DEF Reads, OwnOK

LEMMA OwnGoing ==
  ASSUME OwnTunnels, TypeInv, TypeInv', BookInv, OwnInv, [Next]_vars, Going
  PROVE  OwnInv'
<1>1. UNCHANGED <<obj, cache, rec, cur>> /\ pc # "idle" /\ cur \in CT /\ rec \in Object /\ rec # Nil
  BY GoingKeeps, AtCall
<1>2. /\ \A c \in CT : Booked(obj'[c], remote, issued) /\ Booked(cache'[c], remote, issued)
      /\ Booked(rec', remote, issued)
  BY <1>1 DEF BookInv
<1>3. /\ \A c \in CT : OwnOK(c, obj'[c], remote) /\ OwnOK(c, cache'[c], remote)
      /\ OwnOK(cur', rec', remote)
  BY <1>1 DEF OwnInv
<1>4. Asks(cur, rec.spec.account, rec.spec.name)
  BY <1>1, <1>3 DEF OwnOK
<1>5. /\ pc' = "record" => AsksFor(cur, res'.id, remote')
      /\ pc' \in Deleting => tid' \in issued /\ AsksFor(cur, tid', remote)
  <2>1. CASE CreateTunnel
    <3> DEFINE t == [account |-> rec.spec.account, name |-> rec.spec.name, src |-> rec.spec.src, config |-> Nil]
    <3>1. /\ remote' = [remote EXCEPT ![FreshId] = t] /\ FreshId \in Id
          /\ res'.id = FreshId /\ pc' = "record"
      BY <2>1, TypeFacts, FreshIdType DEF CreateTunnel, Goto
    <3>2. t.name = rec.spec.name /\ t.account = rec.spec.account
      OBVIOUS
    <3> HIDE DEF t
    <3>3. remote'[res'.id] = t
      BY <3>1, TypeFacts
    <3>4. QED
      BY <1>4, <3>1, <3>2, <3>3 DEF AsksFor, Deleting
  <2>2. CASE AdoptTunnel
    <3>1. PICK i \in Id : Named(rec.spec.account, rec.spec.name) = {i} /\ res' = Answer(i)
      BY <2>2 DEF AdoptTunnel
    <3>2. remote[i] # Nil /\ remote[i].name = rec.spec.name /\ remote[i].account = rec.spec.account
      BY <3>1 DEF Named, Found
    <3>3. res'.id = i /\ pc' = "record" /\ remote' = remote
      BY <2>2, <3>1, <3>2, AnswerType DEF AdoptTunnel, Goto, remoteVars
    <3>4. QED
      BY <1>4, <3>2, <3>3 DEF AsksFor, Deleting
  <2>3. CASE Finalize
    <3>1. pc' \in Deleting => rec.status.id # Nil /\ tid' = rec.status.id
      BY <2>3 DEF Finalize, Goto, Deleting
    <3>2. pc' # "record"
      BY <2>3 DEF Finalize, Goto
    <3>3. rec.status.id # Nil => rec.status.id \in issued /\ AsksFor(cur, rec.status.id, remote)
      BY <1>1, <1>2, <1>3 DEF Booked, Paired, Known, OwnOK
    <3>4. QED
      BY <3>1, <3>2, <3>3
  <2>4. CASE ListRoutesToDelete \/ PurgeRoute \/ DeleteTunnel
    <3>1. pc \in Deleting /\ tid' = tid /\ pc' # "record"
      BY <2>4, PurgeFacts DEF ListRoutesToDelete, PurgeRoute, DeleteTunnel, Goto, Deleting
    <3>2. QED
      BY <3>1 DEF OwnInv
  <2>5. CASE ListRoutes \/ DropRoute \/ AddRoute
    <3>1. plan' \in Plan
      BY DEF TypeInv, TypeOK
    <3>2. QED
      BY <2>5, <3>1, AfterPlanFacts DEF ListRoutes, DropRoute, AddRoute, Goto, Deleting
  <2>6. QED
    BY <2>1, <2>2, <2>3, <2>4, <2>5
    DEF Going, CreateConflicts, AdoptAmbiguous, GetTunnel, EditTunnel, UpdateConfiguration, SecretFails, Goto,
        AfterName, Deleting
<1>6. QED
  BY <1>1, <1>2, <1>3, <1>5, OwnStep

LEMMA OwnNext ==
  ASSUME OwnTunnels, TypeInv, TypeInv', BookInv, OwnInv, [Next]_vars
  PROVE  OwnInv'
<1>1. Ends \/ RecordTunnel \/ Reading \/ Going \/ Outside \/ \E c \in CT : Reconcile(c)
  BY Classes
<1>2. /\ \A c \in CT : Booked(obj'[c], remote, issued) /\ Booked(cache'[c], remote, issued)
      /\ Booked(rec', remote, issued)
  BY <1>1, CopiesBooked
<1>3. \A c \in CT : OwnOK(c, obj[c], remote) /\ OwnOK(c, cache[c], remote)
  BY DEF OwnInv
<1>4. ASSUME \A c \in CT : /\ cache'[c] \in {cache[c], obj[c]}
                           /\ obj'[c] # Nil => obj[c] # Nil /\ Kept(obj'[c], obj[c])
      PROVE  \A c \in CT : OwnOK(c, obj'[c], remote) /\ OwnOK(c, cache'[c], remote)
  <2> SUFFICES ASSUME NEW c \in CT PROVE OwnOK(c, obj'[c], remote) /\ OwnOK(c, cache'[c], remote)
    OBVIOUS
  <2>1. OwnOK(c, obj'[c], remote)
    <3>1. CASE obj'[c] = Nil
      BY <3>1 DEF OwnOK
    <3>2. CASE obj'[c] # Nil
      BY <1>3, <1>4, <3>2, KeptOwn
    <3>3. QED
      BY <3>1, <3>2
  <2>2. QED
    BY <1>3, <1>4, <2>1
<1>5. CASE Ends
  <2>1. \A c \in CT : OwnOK(c, obj'[c], remote) /\ OwnOK(c, cache'[c], remote)
    BY <1>4, <1>5 DEF Ends
  <2>2. pc' = "idle" /\ pc' \notin Deleting /\ pc' # "record"
    BY <1>5 DEF Ends, Deleting
  <2>3. QED
    BY <1>2, <2>1, <2>2, OwnStep
<1>6. CASE RecordTunnel
  <2>1. /\ cur \in CT /\ OwnOK(cur, obj[cur], remote) /\ AsksFor(cur, res.id, remote)
    BY <1>3, <1>6, AtCall DEF RecordTunnel, OwnInv
  <2>2. OwnOK(cur, obj'[cur], remote)
    BY <1>6, <2>1, RecordEffect DEF OwnOK
  <2>3. \A c \in CT : OwnOK(c, obj'[c], remote) /\ OwnOK(c, cache'[c], remote)
    BY <1>3, <1>6, <2>2, RecordEffect
  <2>4. pc' = "idle" /\ pc' \notin Deleting /\ pc' # "record"
    BY <1>6, RecordEffect DEF Deleting
  <2>5. QED
    BY <1>2, <2>3, <2>4, OwnStep
<1>7. CASE Reading
  <2>1. PatchesAndReads
    BY <1>7, ReadingSteps DEF Reading
  <2>2. \A c \in CT : OwnOK(c, obj'[c], remote) /\ OwnOK(c, cache'[c], remote)
    BY <1>4, <2>1 DEF PatchesAndReads
  <2>3. cur \in CT /\ rec # Nil /\ OwnOK(cur, rec, remote)
    BY <2>1, AtCall DEF PatchesAndReads, OwnInv
  <2>4. OwnOK(cur', rec', remote)
    BY <2>1, <2>2, <2>3, ReadsOwn DEF PatchesAndReads
  <2>5. pc' # "record" /\ (pc' \in Deleting => pc = "markTunnel" /\ tid' = tid /\ cur' = cur)
    BY <1>7, <2>1, ReadingTo DEF Deleting, PatchesAndReads
  <2>6. pc' \in Deleting => tid' \in issued /\ AsksFor(cur', tid', remote)
    BY <2>5 DEF OwnInv, Deleting
  <2>7. QED
    BY <1>2, <2>2, <2>4, <2>5, <2>6, OwnStep
<1>8. CASE Going
  BY <1>8, OwnGoing
<1>9. CASE Outside
  <2>1. \A c \in CT : OwnOK(c, obj'[c], remote) /\ OwnOK(c, cache'[c], remote)
    <3> SUFFICES ASSUME NEW c \in CT PROVE OwnOK(c, obj'[c], remote) /\ OwnOK(c, cache'[c], remote)
      OBVIOUS
    <3>1. /\ cache'[c] \in {cache[c], obj[c]}
          /\ obj'[c] # Nil => \/ obj[c] # Nil /\ Kept(obj'[c], obj[c])
                              \/ /\ obj'[c].status = IF obj[c] = Nil THEN NoStatus ELSE obj[c].status
                                 /\ \E s \in SpecsOf[c] : obj'[c].spec = s
      BY <1>9 DEF Outside
    <3>2. ASSUME obj'[c].status = IF obj[c] = Nil THEN NoStatus ELSE obj[c].status,
                 NEW s \in SpecsOf[c], obj'[c].spec = s
          PROVE  OwnOK(c, obj'[c], remote)
      <4>1. obj'[c].status.id # Nil => obj[c] # Nil /\ obj'[c].status.id = obj[c].status.id
        BY <3>2 DEF NoStatus
      <4>2. Asks(c, obj'[c].spec.account, obj'[c].spec.name)
        BY <3>2 DEF Asks
      <4>3. QED
        BY <1>3, <4>1, <4>2 DEF OwnOK
    <3>3. OwnOK(c, obj'[c], remote)
      BY <1>3, <3>1, <3>2, KeptOwn DEF OwnOK
    <3>4. QED
      BY <1>3, <3>1, <3>3
  <2>2. UNCHANGED <<pc, cur, rec, tid, res>>
    BY <1>9 DEF Outside
  <2>3. pc = "record" => res.id \in issued /\ cur \in CT
    BY DEF TypeInv, LocalsInv, BookInv, Known
  <2>4. pc = "record" => AsksFor(cur, res.id, remote')
    BY <2>3, AsksStay DEF OwnInv
  <2>5. QED
    BY <1>2, <2>1, <2>2, <2>4, OwnStep DEF OwnInv
<1>10. CASE \E c \in CT : Reconcile(c)
  <2>1. PICK c \in CT : Reconcile(c)
    BY <1>10
  <2>2. /\ rec' = cache[c] /\ cache[c] \in Object /\ cur' = c /\ UNCHANGED <<obj, cache>>
        /\ pc' = (IF cache[c].deleting THEN "finalize" ELSE Proceed(cache[c]))
    BY <2>1, TypeFacts DEF Reconcile
  <2>3. pc' \in {"finalize", "conditions", "addFinalizer", "create", "get"}
    BY <2>2, ProceedFacts
  <2>4. QED
    BY <1>2, <1>3, <2>2, <2>3, OwnStep DEF Deleting
<1>11. QED
  BY <1>1, <1>5, <1>6, <1>7, <1>8, <1>9, <1>10

-----------------------------------------------------------------------------
(* At rest: the plan of the routes *)

\* What RoutePlan makes of a spec and of the routes there are.
LEMMA RoutesPlanned ==
  ASSUME NEW s \in TunnelSpec, IsFiniteSet(s.routes), NEW existing \in SUBSET Slot,
         \A e \in existing : e.account = s.account
  PROVE  Planned(RoutePlan(s, s.account, existing), s, existing)
<1> DEFINE one(r) == [net |-> Masked[r.cidr], vnet |-> IF r.vnet = Nil /\ existing # {} THEN DefaultVnet ELSE r.vnet]
           slot(r) == SlotOf(s.account, [net |-> Masked[r.cidr], vnet |-> r.vnet])
           desired == DesiredRoutes(s, existing)
           matched == {d \in desired : \E e \in existing : e.net = d.net /\ e.vnet = d.vnet}
           drop == {e \in existing : \A d \in desired : e.net # d.net \/ e.vnet # d.vnet}
           problem == Parsed(s) # s.routes \/ Cardinality(desired) # Cardinality(Parsed(s))
           stay == existing \ drop
<1>1. desired = {one(r) : r \in Parsed(s)} /\ WantedSlots(s) = {slot(r) : r \in Parsed(s)}
  BY DEF DesiredRoutes, WantedSlots
<1>2. \A r \in Parsed(s) : SlotOf(s.account, one(r)) = slot(r)
  BY DEF SlotOf
<1>3. \A r \in Parsed(s) : one(r) \in [net : Net, vnet : Vnet \cup {Nil}]
  BY ConstantsAssumption DEF Parsed, TunnelSpec, RouteEntry
<1>4. IsFiniteSet(Parsed(s))
  BY FS_Subset DEF Parsed
<1> HIDE DEF one, slot
<1>5. IsFiniteSet(desired) /\ desired \subseteq [net : Net, vnet : Vnet \cup {Nil}]
  <2> DEFINE f == [r \in Parsed(s) |-> one(r)]
  <2>1. f \in Surjection(Parsed(s), desired)
    BY <1>1 DEF Surjection
  <2> HIDE DEF f, desired
  <2>2. IsFiniteSet(desired)
    BY <1>4, <2>1, FS_Surjection
  <2>3. QED
    BY <1>1, <1>3, <2>2
<1>6. matched \subseteq desired /\ IsFiniteSet(matched)
  BY <1>5, FS_Subset
<1>7. RoutePlan(s, s.account, existing) = [drop |-> drop, add |-> desired \ matched, ready |-> Cardinality(matched), problem |-> problem]
  BY Zenon DEF RoutePlan
<1> HIDE DEF problem, desired
<1>8. \A d \in desired : SlotOf(s.account, d) \in WantedSlots(s)
  BY <1>1, <1>2
<1>9. \A r \in Parsed(s) : \E d \in desired : slot(r) = SlotOf(s.account, d)
  BY <1>1, <1>2
<1>10. ASSUME NEW e \in existing, NEW d \in desired, e.net = d.net, e.vnet = d.vnet
       PROVE  e = SlotOf(s.account, d) /\ d = [net |-> e.net, vnet |-> e.vnet] /\ e \in stay /\ d \in matched
  <2>1. e \in Slot /\ e.account = s.account /\ d \in [net : Net, vnet : Vnet \cup {Nil}] /\ d.vnet # Nil
    BY <1>5, <1>10, ConstantsAssumption DEF Slot
  <2>2. SlotOf(s.account, d) = [account |-> s.account, net |-> d.net, vnet |-> d.vnet]
    BY <2>1 DEF SlotOf
  <2>3. e = [account |-> e.account, net |-> e.net, vnet |-> e.vnet] /\ d = [net |-> d.net, vnet |-> d.vnet]
    BY <2>1 DEF Slot
  <2>4. e \in stay /\ d \in matched
    BY <1>10
  <2>5. QED
    BY <1>10, <2>1, <2>2, <2>3, <2>4
<1>11. \A d \in matched : \E e \in stay : e = SlotOf(s.account, d) /\ d = [net |-> e.net, vnet |-> e.vnet]
  BY <1>10
<1>12. \A e \in stay : \E d \in matched : e = SlotOf(s.account, d)
  BY <1>10
<1> HIDE DEF matched, drop, stay
<1>13. stay \subseteq WantedSlots(s)
  BY <1>6, <1>8, <1>12
<1>14. WantedSlots(s) \subseteq stay \cup SlotsOf(s.account, desired \ matched)
  BY <1>1, <1>9, <1>11 DEF SlotsOf
<1>15. SlotsOf(s.account, desired \ matched) \subseteq WantedSlots(s)
  BY <1>8 DEF SlotsOf
<1>16. IsFiniteSet(stay) /\ Cardinality(matched) = Cardinality(stay)
  <2> DEFINE f == [d \in matched |-> SlotOf(s.account, d)]
  <2>1. f \in [matched -> stay] /\ \A d \in matched : f[d] = SlotOf(s.account, d)
    BY <1>11
  <2>2. \A d1, d2 \in matched : f[d1] = f[d2] => d1 = d2
    BY <1>11, <2>1
  <2>3. \A e \in stay : \E d \in matched : f[d] = e
    BY <1>12, <2>1
  <2> HIDE DEF f
  <2>4. f \in Surjection(matched, stay) /\ f \in Injection(matched, stay)
    BY <2>1, <2>2, <2>3 DEF Injection, IsInjective, Surjection
  <2>5. QED
    BY <1>6, <2>4, FS_Surjection
<1> DEFINE p == RoutePlan(s, s.account, existing)
<1>17. p.drop = drop /\ p.add = desired \ matched /\ p.ready = Cardinality(matched) /\ p.problem = problem
  BY <1>7
<1> HIDE DEF p
<1>18. existing \ p.drop = stay
  BY <1>17 DEF stay
<1>19. Planned(p, s, existing)
  BY <1>13, <1>14, <1>15, <1>16, <1>17, <1>18 DEF Planned
<1>20. QED
  BY <1>19 DEF p

\* A route is dropped, and a route is asked for.
LEMMA DropPlanned ==
  ASSUME NEW p \in Plan, NEW s, NEW mine, Planned(p, s, mine), NEW e \in p.drop
  PROVE  Planned([p EXCEPT !.drop = p.drop \ {e}], s, mine \ {e})
<1> DEFINE q == [p EXCEPT !.drop = p.drop \ {e}]
<1>1. q.drop = p.drop \ {e} /\ q.add = p.add /\ q.ready = p.ready /\ q.problem = p.problem
  BY DEF Plan
<1>2. (mine \ {e}) \ (p.drop \ {e}) = mine \ p.drop
  OBVIOUS
<1> HIDE DEF q
<1>3. Planned(q, s, mine \ {e})
  BY <1>1, <1>2 DEF Planned
<1>4. QED
  BY <1>3 DEF q

LEMMA AddPlanned ==
  ASSUME NEW p \in Plan, NEW s, NEW mine, Planned(p, s, mine), p.drop = {}, NEW r \in p.add, NEW granted \in BOOLEAN,
         granted => SlotOf(s.account, r) \notin mine
  PROVE  Planned([p EXCEPT !.add = p.add \ {r}, !.ready = IF granted THEN p.ready + 1 ELSE p.ready,
                           !.problem = p.problem \/ ~granted],
                 s, IF granted THEN mine \cup {SlotOf(s.account, r)} ELSE mine)
<1> DEFINE ready == IF granted THEN p.ready + 1 ELSE p.ready
           problem == p.problem \/ ~granted
           w == SlotOf(s.account, r)
           after == IF granted THEN mine \cup {w} ELSE mine
           q == [p EXCEPT !.add = p.add \ {r}, !.ready = ready, !.problem = problem]
<1>1. q.drop = {} /\ q.add = p.add \ {r} /\ q.ready = ready /\ q.problem = problem
  BY DEF Plan
<1> HIDE DEF q, w
<1>2. /\ mine \subseteq WantedSlots(s) /\ IsFiniteSet(mine) /\ p.ready = Cardinality(mine)
      /\ SlotsOf(s.account, p.add) \subseteq WantedSlots(s)
      /\ p.problem \/ WantedSlots(s) \subseteq mine \cup SlotsOf(s.account, p.add)
  BY DEF Planned
<1>3. /\ w \in SlotsOf(s.account, p.add)
      /\ SlotsOf(s.account, p.add \ {r}) \subseteq SlotsOf(s.account, p.add)
      /\ SlotsOf(s.account, p.add) \subseteq SlotsOf(s.account, p.add \ {r}) \cup {w}
  BY DEF SlotsOf, w
<1>4. after \subseteq WantedSlots(s)
  BY <1>2, <1>3
<1>5. problem \/ WantedSlots(s) \subseteq after \cup SlotsOf(s.account, p.add \ {r})
  BY <1>2, <1>3
<1>6. IsFiniteSet(after) /\ ready = Cardinality(after)
  <2>1. CASE granted
    <3>1. w \notin mine
      BY <2>1 DEF w
    <3>2. IsFiniteSet(mine \cup {w}) /\ Cardinality(mine \cup {w}) = Cardinality(mine) + 1
      BY <1>2, <3>1, FS_AddElement
    <3>3. QED
      BY <1>2, <2>1, <3>2
  <2>2. CASE ~granted
    BY <1>2, <2>2
  <2>3. QED
    BY <2>1, <2>2
<1> HIDE DEF after, ready, problem
<1>7. after \ q.drop = after
  BY <1>1
<1>8. Planned(q, s, after)
  BY <1>1, <1>3, <1>2, <1>4, <1>5, <1>6, <1>7 DEF Planned
<1>9. QED
  BY <1>8 DEF q, after, ready, problem, w

-----------------------------------------------------------------------------
(* At rest: the calls of updateTunnel *)

\* While nobody has intervened and the update goes on, its tunnel is there.
LEMMA AtUpdate ==
  ASSUME TypeInv, BookInv, WorkInv, spent["outside"] = 0, pc \in Updating
  PROVE  /\ rec \in Object /\ rec # Nil /\ rec.spec \in TunnelSpec /\ IsFiniteSet(rec.spec.routes) /\ pc # "idle"
         /\ tid \in Id /\ tid = rec.status.id /\ res \in Answers /\ remote[tid] \in Remote /\ remote[tid] # Nil
         /\ plan \in Plan /\ Found(tid, rec.spec.account) /\ res.src = remote[tid].src
         /\ rec.status.account = rec.spec.account /\ res.account = rec.spec.account /\ res.id = tid
<1>1. /\ rec \in Object /\ rec # Nil /\ rec.spec \in TunnelSpec /\ IsFiniteSet(rec.spec.routes) /\ pc # "idle"
  BY AtCall DEF Updating
<1>2. tid \in Id /\ res \in Answers /\ plan \in Plan /\ remote \in [Id -> Remote \cup {Nil}]
  BY DEF TypeInv, TypeOK, LocalsInv
<1>3. Found(tid, rec.spec.account) /\ res.src = remote[tid].src
  BY DEF WorkInv
<1>4. tid = rec.status.id /\ res.id = tid /\ res.account = rec.status.account
  BY DEF BookInv
<1>5. tid # Nil
  BY <1>2, ConstantsAssumption
<1>6. Paired(rec.status, remote, issued)
  BY <1>1 DEF BookInv, Booked
<1>7. Known(tid, rec.status.account, remote, issued)
  BY <1>4, <1>5, <1>6 DEF Paired
<1>8. rec.status.account = rec.spec.account
  BY <1>3, <1>7 DEF Known, Found
<1>9. QED
  BY <1>1, <1>2, <1>3, <1>4, <1>8 DEF Found

\* The calls of updateTunnel, one by one.
LEMMA GetWorks ==
  ASSUME TypeInv, BookInv, WorkInv, GetTunnel
  PROVE  WorkInv'
<1>1. /\ rec \in Object /\ rec.status.id \in Id /\ Found(rec.status.id, rec.spec.account) /\ tid' = rec.status.id
      /\ res' = Answer(rec.status.id) /\ UNCHANGED <<rec, remote>>
      /\ pc' = IF res'.name # rec.spec.name THEN "edit" ELSE AfterName(res')
  BY DEF GetTunnel, TypeInv, LocalsInv, Goto, remoteVars
<1>2. /\ res'.src = remote[rec.status.id].src /\ res'.name = remote[rec.status.id].name
  BY <1>1, AnswerType DEF Found
<1>3. Found(tid, rec.spec.account)'
  BY <1>1 DEF Found
<1>4. /\ pc' \notin {"dropRoute", "addRoute", "status"}
      /\ pc' # "edit" => res'.name = rec.spec.name
      /\ pc' = "routes" => ~PushesConfig(res')
  BY <1>1 DEF AfterName
<1>5. PushesConfig(res)' = PushesConfig(res')
  BY <1>1 DEF PushesConfig
<1>6. QED
  BY <1>1, <1>2, <1>3, <1>4, <1>5 DEF WorkInv

LEMMA EditWorks ==
  ASSUME TypeInv, BookInv, WorkInv, spent["outside"] = 0, EditTunnel
  PROVE  WorkInv'
<1>1. /\ remote[tid] \in Remote /\ tid \in Id /\ res \in Answers /\ Found(tid, rec.spec.account)
      /\ res.src = remote[tid].src /\ rec.spec \in TunnelSpec
  BY AtUpdate DEF EditTunnel, Updating
<1> DEFINE t == [remote[tid] EXCEPT !.name = rec.spec.name]
<1>2. /\ remote' = [remote EXCEPT ![tid] = t] /\ res' = [res EXCEPT !.name = rec.spec.name]
      /\ pc' = AfterName(res) /\ UNCHANGED <<rec, tid>>
  BY DEF EditTunnel, Goto
<1>3. t \in Remote /\ t.account = remote[tid].account /\ t.name = rec.spec.name /\ t.src = remote[tid].src
  BY <1>1 DEF Remote, TunnelSpec
<1> HIDE DEF t
<1>4. remote'[tid] = t
  BY <1>1, <1>2, TypeFacts
<1>5. t # Nil
  BY <1>3, NilAssumption
<1>6. Found(tid, rec.spec.account)'
  BY <1>1, <1>2, <1>3, <1>4, <1>5 DEF Found
<1>7. res'.src = res.src
  BY <1>1, <1>2 DEF Answers
<1>8. PushesConfig(res)' = PushesConfig(res)
  BY <1>2, <1>7 DEF PushesConfig
<1>9. pc' \in {"config", "routes"} /\ (pc' = "routes" => ~PushesConfig(res))
  BY <1>2 DEF AfterName
<1>10. QED
  BY <1>1, <1>2, <1>3, <1>4, <1>6, <1>7, <1>8, <1>9 DEF WorkInv

LEMMA ConfigWorks ==
  ASSUME TypeInv, BookInv, WorkInv, spent["outside"] = 0, UpdateConfiguration
  PROVE  WorkInv'
<1>1. /\ remote[tid] \in Remote /\ tid \in Id /\ Found(tid, rec.spec.account)
      /\ res.src = remote[tid].src /\ rec.spec \in TunnelSpec /\ remote[tid].name = rec.spec.name
  BY AtUpdate DEF UpdateConfiguration, Updating, WorkInv
<1> DEFINE t == [remote[tid] EXCEPT !.config = rec.spec.config]
<1>2. /\ remote' = [remote EXCEPT ![tid] = t] /\ pc' = "routes" /\ UNCHANGED <<rec, tid, res>>
  BY DEF UpdateConfiguration, Goto
<1>3. /\ t \in Remote /\ t.account = remote[tid].account /\ t.name = remote[tid].name /\ t.src = remote[tid].src
      /\ t.config = rec.spec.config
  BY <1>1 DEF Remote, TunnelSpec
<1> HIDE DEF t
<1>4. remote'[tid] = t
  BY <1>1, <1>2, TypeFacts
<1>5. t # Nil
  BY <1>3, NilAssumption
<1>6. Found(tid, rec.spec.account)'
  BY <1>1, <1>2, <1>3, <1>4, <1>5 DEF Found
<1>7. QED
  BY <1>1, <1>2, <1>3, <1>4, <1>6 DEF WorkInv

\* After a call that only changes the plan and the routes.
LEMMA RoutesWork ==
  ASSUME TypeInv, BookInv, WorkInv, spent["outside"] = 0, pc \in {"routes", "dropRoute", "addRoute"},
         UNCHANGED <<rec, tid, res, remote>>, plan' \in Plan, pc' = AfterPlan(plan'), access' = access,
         access => Planned(plan', rec.spec, ExistingRoutes(tid, rec.spec.account)')
  PROVE  WorkInv'
<1>1. /\ Found(tid, rec.spec.account) /\ remote[tid].name = rec.spec.name /\ res.src = remote[tid].src
      /\ PushesConfig(res) => remote[tid].config = rec.spec.config
  BY DEF WorkInv, Updating
<1>2. Found(tid, rec.spec.account)'
  BY <1>1 DEF Found
<1>3. PushesConfig(res)' = PushesConfig(res)
  BY DEF PushesConfig
<1>4. /\ pc' \in {"dropRoute", "addRoute", "status"}
      /\ pc' # "dropRoute" => plan'.drop = {}
      /\ pc' = "status" => plan'.add = {}
  BY DEF AfterPlan, Plan
<1>5. access => PlanInv'
  BY <1>4 DEF PlanInv
<1>6. QED
  BY <1>1, <1>2, <1>3, <1>4, <1>5 DEF WorkInv

LEMMA ListWorks ==
  ASSUME TypeInv, BookInv, WorkInv, spent["outside"] = 0, ListRoutes, plan' \in Plan
  PROVE  WorkInv'
<1>1. rec.spec \in TunnelSpec /\ IsFiniteSet(rec.spec.routes) /\ rec.status.account = rec.spec.account
  BY AtUpdate DEF ListRoutes, Updating
<1> DEFINE mine == ExistingRoutes(tid, rec.spec.account)
<1>2. mine \in SUBSET Slot /\ \A e \in mine : e.account = rec.spec.account
  BY DEF ExistingRoutes
<1>3. UNCHANGED <<rec, tid, res, remote, routes, access>> /\ pc = "routes" /\ pc' = AfterPlan(plan')
  BY DEF ListRoutes, Goto, remoteVars
<1>4. access => plan' = RoutePlan(rec.spec, rec.spec.account, mine)
  BY <1>1 DEF ListRoutes
<1>5. mine' = mine
  BY <1>3 DEF ExistingRoutes
<1> HIDE DEF mine
<1>6. access => Planned(plan', rec.spec, mine)
  BY <1>1, <1>2, <1>4, RoutesPlanned
<1>7. access => Planned(plan', rec.spec, mine')
  BY <1>5, <1>6
<1>8. QED
  BY <1>3, <1>7, RoutesWork DEF mine

LEMMA DropWorks ==
  ASSUME TypeInv, BookInv, WorkInv, spent["outside"] = 0, DropRoute, plan' \in Plan
  PROVE  WorkInv'
<1>1. plan \in Plan /\ tid \in Id /\ pc = "dropRoute"
  BY AtUpdate DEF DropRoute, Updating
<1>2. PICK s \in plan.drop : /\ routes' = [routes EXCEPT ![s] = IF @ = tid THEN Nil ELSE @]
                             /\ plan' = [plan EXCEPT !.drop = plan.drop \ {s}]
  BY DEF DropRoute
<1>3. s \in Slot
  BY <1>1, <1>2 DEF Plan
<1>4. UNCHANGED <<rec, tid, res, remote, access>> /\ pc' = AfterPlan(plan')
  BY DEF DropRoute, Goto
<1>5. tid # Nil
  BY <1>1, ConstantsAssumption
<1> DEFINE mine == ExistingRoutes(tid, rec.spec.account)
<1>6. mine' = mine \ {s}
  BY <1>2, <1>3, <1>4, <1>5, TypeFacts DEF ExistingRoutes
<1>7. access => Planned(plan, rec.spec, mine)
  BY <1>1 DEF WorkInv, PlanInv, Updating
<1> HIDE DEF mine
<1>8. access => Planned(plan', rec.spec, mine \ {s})
  BY <1>1, <1>2, <1>7, DropPlanned
<1>9. access => Planned(plan', rec.spec, mine')
  BY <1>6, <1>8
<1>10. QED
  BY <1>1, <1>4, <1>9, RoutesWork DEF mine

LEMMA AddWorks ==
  ASSUME TypeInv, BookInv, WorkInv, spent["outside"] = 0, AddRoute, plan' \in Plan
  PROVE  WorkInv'
<1>1. /\ plan \in Plan /\ tid \in Id /\ pc = "addRoute" /\ rec.status.account = rec.spec.account
      /\ rec.spec \in TunnelSpec
  BY AtUpdate DEF AddRoute, Updating
<1>2. PICK r \in plan.add :
        LET s == SlotOf(rec.status.account, r)
            granted == routes[s] = Nil /\ Found(tid, rec.status.account)
        IN  /\ routes' = IF granted THEN [routes EXCEPT ![s] = tid] ELSE routes
            /\ plan' = [plan EXCEPT !.add = @ \ {r},
                                    !.ready = IF granted THEN @ + 1 ELSE @,
                                    !.problem = @ \/ ~granted]
  BY DEF AddRoute
<1> DEFINE s == SlotOf(rec.spec.account, r)
           granted == routes[s] = Nil /\ Found(tid, rec.spec.account)
           mine == ExistingRoutes(tid, rec.spec.account)
<1>3. /\ routes' = IF granted THEN [routes EXCEPT ![s] = tid] ELSE routes
      /\ plan' = [plan EXCEPT !.add = plan.add \ {r},
                              !.ready = IF granted THEN plan.ready + 1 ELSE plan.ready,
                              !.problem = plan.problem \/ ~granted]
  BY <1>1, <1>2 DEF Plan
<1>4. r \in [net : Net, vnet : Vnet \cup {Nil}] /\ rec.spec.account \in Account
  BY <1>1 DEF Plan, TunnelSpec
<1>5. s \in Slot /\ s.account = rec.spec.account
  BY <1>4, ConstantsAssumption DEF SlotOf, Slot
<1>6. UNCHANGED <<rec, tid, res, remote, access>> /\ pc' = AfterPlan(plan')
  BY DEF AddRoute, Goto
<1>7. tid # Nil /\ granted \in BOOLEAN
  BY <1>1, ConstantsAssumption DEF Found
<1> HIDE DEF s
<1>8. mine' = IF granted THEN mine \cup {s} ELSE mine
  BY <1>1, <1>3, <1>5, <1>6, TypeFacts DEF ExistingRoutes
<1>9. granted => s \notin mine
  BY <1>7 DEF ExistingRoutes
<1>10. access => Planned(plan, rec.spec, mine) /\ plan.drop = {}
  BY <1>1 DEF WorkInv, PlanInv, Updating
<1> HIDE DEF mine, granted
<1>11. access => Planned(plan', rec.spec, IF granted THEN mine \cup {s} ELSE mine)
  BY <1>1, <1>3, <1>7, <1>9, <1>10, AddPlanned DEF s
<1>12. access => Planned(plan', rec.spec, mine')
  BY <1>8, <1>11
<1>13. QED
  BY <1>1, <1>6, <1>12, RoutesWork DEF mine

LEMMA WorkNext ==
  ASSUME TypeInv, TypeInv', BookInv, WorkInv, [Next]_vars
  PROVE  WorkInv'
<1> SUFFICES ASSUME spent'["outside"] = 0, pc' \in Updating PROVE WorkInv'
  BY DEF WorkInv
<1>1. spent["outside"] = 0 /\ access' = access /\ \A i \in Id : ~RemovedUpstream(i)
  BY NextSpends
<1>2. Ends \/ RecordTunnel \/ Reading \/ Going \/ Outside \/ \E c \in CT : Reconcile(c)
  BY Classes
<1>3. pc' # "idle"
  BY DEF Updating
<1>4. plan' \in Plan
  BY DEF TypeInv, TypeOK
<1>5. CASE Going
  <2>1. CASE GetTunnel \/ EditTunnel \/ UpdateConfiguration
    BY <1>1, <2>1, GetWorks, EditWorks, ConfigWorks
  <2>2. CASE ListRoutes \/ DropRoute \/ AddRoute
    BY <1>1, <1>4, <2>2, ListWorks, DropWorks, AddWorks
  <2>3. QED
    BY <1>5, <2>1, <2>2, PurgeFacts
    DEF Going, CreateTunnel, CreateConflicts, AdoptTunnel, AdoptAmbiguous, SecretFails, Finalize, ListRoutesToDelete,
        PurgeRoute, DeleteTunnel, Goto, Updating
<1>6. CASE Outside
  <2>1. UNCHANGED <<pc, cur, rec, tid, res, plan, remote, routes>>
    BY <1>1, <1>6 DEF Outside, remoteVars
  <2>2. Found(tid, rec.spec.account)' = Found(tid, rec.spec.account)
    BY <2>1 DEF Found
  <2>3. PushesConfig(res)' = PushesConfig(res)
    BY <2>1 DEF PushesConfig
  <2>4. PlanInv' = PlanInv
    BY <2>1 DEF PlanInv, ExistingRoutes
  <2>5. QED
    BY <1>1, <2>1, <2>2, <2>3, <2>4 DEF WorkInv
<1>7. ~Ends /\ ~RecordTunnel
  BY <1>3, RecordEffect DEF Ends
<1>8. ~Reading
  BY ReadingTo
<1>9. \A c \in CT : ~Reconcile(c)
  <2> SUFFICES ASSUME NEW c \in CT, Reconcile(c) PROVE FALSE
    OBVIOUS
  <2>1. cache[c] \in Object /\ pc' = (IF cache[c].deleting THEN "finalize" ELSE Proceed(cache[c]))
    BY TypeFacts DEF Reconcile
  <2>2. QED
    BY <2>1, ProceedFacts DEF Updating
<1>10. QED
  BY <1>2, <1>5, <1>6, <1>7, <1>8, <1>9

-----------------------------------------------------------------------------
(* At rest: the events, and the copy of an object that is settled *)

\* What the worker does to an object is news, and it takes nothing off the queue.
LEMMA StepEvents ==
  ASSUME ReconcileStep
  PROVE  /\ cache' = cache /\ queue \subseteq queue'
         /\ UNCHANGED <<obj, news>> \/ \E o : Write(cur, o)
<1>1. CASE \/ InitConditions \/ AddFinalizer \/ MarkCloudflareds \/ MarkTunnel
  BY <1>1 DEF InitConditions, AddFinalizer, MarkCloudflareds, MarkTunnel, PatchStatus
<1>2. CASE RecordTunnel \/ UpdateStatus \/ SelectCloudflareds \/ RecordComplaint
  BY <1>2 DEF RecordTunnel, UpdateStatus, SelectCloudflareds, RecordComplaint, PatchStatus, Return, Requeued
<1>3. CASE Release \/ PatchGone
  BY <1>3 DEF Release, PatchGone, Return, Requeued
<1>4. CASE \/ CreateTunnel \/ CreateConflicts \/ AdoptTunnel \/ AdoptNothing \/ AdoptAmbiguous
           \/ GetTunnel \/ EditTunnel \/ UpdateConfiguration \/ UpdateRefused \/ ListRoutes \/ DropRoute \/ AddRoute
  BY <1>4 DEF CreateTunnel, CreateConflicts, AdoptTunnel, AdoptNothing, AdoptAmbiguous, GetTunnel, EditTunnel,
              UpdateConfiguration, UpdateRefused, ListRoutes, DropRoute, AddRoute, clusterVars, Return, Requeued
<1>5. CASE \/ ApplyConfig \/ ApplyConflicts \/ CreateCloudflared \/ Finalize \/ DeleteCloudflared
           \/ ListRoutesToDelete \/ PurgeRoute \/ DeleteTunnel
  BY <1>5 DEF ApplyConfig, ApplyConflicts, CreateCloudflared, Finalize, DeleteCloudflared,
              ListRoutesToDelete, PurgeRoute, DeleteTunnel, clusterVars, Return, Requeued
<1>6. QED
  BY <1>1, <1>2, <1>3, <1>4, <1>5 DEF ReconcileStep

\* Who is told of what: a change of an object is news until the cache has it, and
\* then the object is queued until Reconcile reads it.
LEMMA Events ==
  ASSUME TypeInv, [Next]_vars, NEW c \in CT
  PROVE  /\ obj'[c] # obj[c] => c \in news'
         /\ cache'[c] # cache[c] => cache'[c] = obj'[c]
         /\ c \in news \ news' => cache'[c] = obj'[c] /\ (c \in queue' \/ (pc' = "idle" /\ obj'[c] = Nil))
         /\ c \in queue \ queue' => \/ Reconcile(c)
                                    \/ pc = "idle" /\ cache[c] = Nil
                                    \/ pc' = "idle" /\ obj'[c] = Nil
<1>1. /\ obj \in [CT -> Object \cup {Nil}] /\ cache \in [CT -> Object \cup {Nil}] /\ news \subseteq CT /\ queue \subseteq CT
  BY TypeFacts
<1>2. ASSUME NEW d, NEW o, Write(d, o) PROVE (obj'[c] # obj[c] => c \in news') /\ news \subseteq news'
  <2>1. /\ obj' = [obj EXCEPT ![d] = o]
        /\ news' = IF o = obj[d] THEN news ELSE news \cup {d}
    BY <1>2 DEF Write
  <2>2. CASE c = d
    BY <1>1, <2>1, <2>2
  <2>3. CASE c # d
    BY <1>1, <2>1, <2>3
  <2>4. QED
    BY <2>2, <2>3
<1>3. CASE ReconcileStep
  BY <1>2, <1>3, StepEvents
<1>4. CASE CallFails \/ SecretFails \/ UNCHANGED vars
  BY <1>4 DEF CallFails, SecretFails, vars, clusterVars, Return, Requeued
<1>5. CASE Restart
  BY <1>1, <1>5 DEF Restart, Return
<1>6. ASSUME NEW d \in CT, ReconcileGone(d) \/ Reconcile(d) PROVE UNCHANGED <<obj, cache, news>> /\ queue' = queue \ {d}
  BY <1>6 DEF ReconcileGone, Reconcile
<1>7. CASE \E d \in CT : ReconcileGone(d) \/ Reconcile(d)
  BY <1>6, <1>7 DEF ReconcileGone
<1>8. CASE \E d \in CT : Sync(d)
  BY <1>1, <1>8 DEF Sync
<1>9. CASE \E f \in CF : SyncCloudflared(f) \/ Collect(f)
  BY <1>9 DEF SyncCloudflared, Collect
<1>10. CASE Environment
  <2>1. CASE \E d \in CT : UserDeletes(d) \/ \E s \in SpecsOf[d] : UserCreates(d, s) \/ UserEdits(d, s)
    <3>1. UNCHANGED <<cache, queue>> /\ \E d, o : Write(d, o)
      BY <2>1 DEF UserDeletes, UserCreates, UserEdits
    <3>2. QED
      BY <1>2, <3>1
  <2>2. CASE \E d \in CT : DnsRecordChanges(d)
    BY <2>2 DEF DnsRecordChanges
  <2>3. CASE \E f \in CF : UserDeletesCloudflared(f) \/ \E l \in Label : UserCreatesCloudflared(f, l)
    BY <2>3 DEF UserDeletesCloudflared, UserCreatesCloudflared
  <2>4. CASE \E i \in Id : RemovedUpstream(i)
    BY <2>4 DEF RemovedUpstream, clusterVars
  <2>5. QED
    BY <1>10, <2>1, <2>2, <2>3, <2>4 DEF Environment
<1>11. QED
  BY <1>3, <1>4, <1>5, <1>7, <1>8, <1>9, <1>10 DEF Next

LEMMA SyncedNext ==
  ASSUME TypeInv, [Next]_vars, Synced
  PROVE  Synced'
<1> SUFFICES ASSUME NEW c \in CT, c \notin news' PROVE cache'[c] = obj'[c]
  BY DEF Synced
<1>1. QED
  BY Events DEF Synced

\* An object that is settled was so before, unless Reconcile has just read it or it is gone.
LEMMA SettledBefore ==
  ASSUME TypeInv, [Next]_vars, Synced, NEW c \in CT, Settled(c)'
  PROVE  /\ obj'[c] = obj[c]
         /\ Settled(c) \/ Reconcile(c) \/ (obj'[c] = Nil /\ (pc = "idle" \/ pc' = "idle"))
<1>1. c \notin news' /\ c \notin queue'
  BY DEF Settled
<1>2. obj'[c] = obj[c]
  BY <1>1, Events
<1>3. CASE c \in news
  BY <1>1, <1>2, <1>3, Events
<1>4. CASE c \notin news /\ c \in queue
  <2>1. cache[c] = obj[c]
    BY <1>4 DEF Synced
  <2>2. QED
    BY <1>1, <1>2, <1>4, <2>1, Events
<1>5. QED
  BY <1>2, <1>3, <1>4 DEF Settled

\* The statuses that are sent, in a reconcile whose object is and stays settled.
LEMMA SettledUpdate ==
  ASSUME TypeInv, UpdateStatus, rec = obj[cur], cur \notin news'
  PROVE  /\ obj' = obj /\ (pc' # "idle" => rec' = rec /\ pc' \in {"select", "degradeSelector"})
         /\ rec.status.id = res.id /\ rec.status.routesReady = plan.ready
         /\ rec.status.conditions.progressing = "updated"
         /\ rec.status.conditions.degraded = DegradedBy(res, plan)
         /\ rec.status.conditions.degraded \in {"config", "ingress", "routes", "no"}
<1> DEFINE new == [id |-> res.id, account |-> res.account, routesReady |-> plan.ready,
                   conditions |-> [progressing |-> "updated", degraded |-> DegradedBy(res, plan)]]
<1>1. pc = "status" /\ new \in Status /\ PatchStatus(new)
  BY UpdatedStatus DEF UpdateStatus
<1>2. pc' # "idle" => Reread(new) /\ pc' \in {"select", "degradeSelector"}
  BY DEF UpdateStatus, Return, Goto
<1>3. /\ new.id = res.id /\ new.routesReady = plan.ready /\ new.conditions.progressing = "updated"
      /\ new.conditions.degraded = DegradedBy(res, plan)
  OBVIOUS
<1> HIDE DEF new
<1>4. obj' = obj /\ new = rec.status
  BY <1>1, NoNews
<1>5. pc' # "idle" => rec' = rec
  BY <1>1, <1>2, NoNewsRead
<1>6. DegradedBy(res, plan) \in {"config", "ingress", "routes", "no"}
  <2>1. plan.problem \in BOOLEAN
    BY DEF TypeInv, TypeOK, Plan
  <2>2. QED
    BY <2>1 DEF DegradedBy
<1>7. QED
  BY <1>2, <1>3, <1>4, <1>5, <1>6

LEMMA SettledSelect ==
  ASSUME TypeInv, SelectCloudflareds, rec = obj[cur], cur \notin news'
  PROVE  rec.status.conditions.progressing = "selecting"
<1> DEFINE new == [rec.status EXCEPT !.conditions.progressing = "selecting"]
<1>1. rec.status.conditions \in Conditions /\ rec \in Object /\ pc # "idle" /\ rec.status \in Status
  BY AtCall DEF SelectCloudflareds, TypeInv, LocalsInv, Serving
<1>2. new \in Status /\ PatchStatus(new)
  BY <1>1, SelectingStatus DEF SelectCloudflareds
<1>3. new.conditions.progressing = "selecting"
  BY <1>1 DEF Status, Conditions
<1> HIDE DEF new
<1>4. new = rec.status
  BY <1>1, <1>2, NoNews
<1>5. QED
  BY <1>3, <1>4

LEMMA SettledComplaint ==
  ASSUME TypeInv, pc = "degradeSelector", RecordComplaint, rec = obj[cur], cur \notin news'
  PROVE  rec.status.conditions.degraded = "selector"
<1>1. Complaint[pc] = "selector" /\ "selector" \in Degraded /\ PatchStatus(Degrade(Complaint[pc]))
  BY DEF Complaint, Degraded, RecordComplaint
<1> DEFINE new == Degrade("selector")
<1>2. rec \in Object /\ pc # "idle" /\ rec.status \in Status
  BY AtCall
<1>3. new \in Status /\ PatchStatus(new)
  BY <1>1, <1>2, DegradeType
<1>4. new.conditions.degraded = "selector"
  BY <1>2 DEF Degrade, Status
<1> HIDE DEF new
<1>5. new = rec.status
  BY <1>2, <1>3, NoNews
<1>6. QED
  BY <1>4, <1>5

\* The calls before and in finalize.
LEMMA SettledReads ==
  ASSUME TypeInv, InitConditions \/ AddFinalizer \/ MarkCloudflareds \/ MarkTunnel, rec = obj[cur], cur \notin news'
  PROVE  obj' = obj /\ rec' = rec
<1>1. /\ cur \in CT /\ rec \in Object /\ rec.status \in Status /\ rec # Nil /\ pc # "idle" /\ obj \in [CT -> Object \cup {Nil}]
  BY AtCall, TypeFacts DEF InitConditions, AddFinalizer, MarkCloudflareds, MarkTunnel
<1>2. CASE InitConditions
  <2> DEFINE c == [progressing |-> "unknown", degraded |-> "unknown"]
             new == [rec.status EXCEPT !.conditions = c]
  <2>1. c \in Conditions
    BY DEF Conditions, Progressing, Degraded
  <2>2. PatchStatus(new) /\ Reread(new)
    BY <1>2 DEF InitConditions
  <2> HIDE DEF c
  <2>3. new \in Status
    BY <1>1, <2>1 DEF Status
  <2> HIDE DEF new
  <2>4. QED
    BY <1>1, <2>2, <2>3, NoNewsRead
<1>3. CASE AddFinalizer
  <2> DEFINE o == [obj[cur] EXCEPT !.fin = TRUE]
  <2>1. Write(cur, o) /\ Reread(rec.status)
    BY <1>3 DEF AddFinalizer
  <2> HIDE DEF o
  <2>2. o = obj[cur] /\ obj' = [obj EXCEPT ![cur] = o]
    BY <2>1 DEF Write
  <2>3. obj' = obj
    BY <1>1, <2>2
  <2>4. rec' = Refreshed(rec, rec.status)
    BY <2>1, <2>3 DEF Reread
  <2>5. QED
    BY <1>1, <2>3, <2>4, SameDecoded
<1>4. CASE MarkCloudflareds \/ MarkTunnel
  <2>1. PICK why \in Degraded : PatchStatus(Degrade(why)) /\ Reread(Degrade(why))
    BY <1>4 DEF MarkCloudflareds, MarkTunnel, Degraded
  <2>2. QED
    BY <1>1, <2>1, DegradeType, NoNewsRead
<1>5. QED
  BY <1>2, <1>3, <1>4

\* Where the steps that go on with the same copy go.
LEMMA GoingTo ==
  ASSUME TypeInv, TypeInv', Going
  PROVE  pc' # "idle" /\ pc' \notin Serving /\ (pc' \in Finalizing => pc \in Finalizing)
<1>1. plan' \in Plan
  BY DEF TypeInv, TypeOK
<1>2. CASE ListRoutes \/ DropRoute \/ AddRoute
  BY <1>1, <1>2, AfterPlanFacts DEF ListRoutes, DropRoute, AddRoute, Goto, Serving, Finalizing, Deleting
<1>3. CASE GetTunnel \/ EditTunnel \/ UpdateConfiguration
  BY <1>3 DEF GetTunnel, EditTunnel, UpdateConfiguration, AfterName, Goto, Serving, Finalizing, Deleting
<1>4. CASE CreateTunnel \/ CreateConflicts \/ AdoptTunnel \/ AdoptAmbiguous \/ SecretFails
  BY <1>4 DEF CreateTunnel, CreateConflicts, AdoptTunnel, AdoptAmbiguous, SecretFails, Goto, Serving, Finalizing, Deleting
<1>5. CASE Finalize
  <2>1. pc = "finalize" /\ pc' \in {"markCloudflareds", "release", "listRoutes"}
    <3>1. \E l \in {list'} : pc' = CASE Left(l) # {}                          -> "markCloudflareds"
                   [] Left(l) = {} /\ rec.status.id = Nil   -> "release"
                   [] Left(l) = {} /\ rec.status.id # Nil   -> "listRoutes"
      BY <1>5 DEF Finalize, Goto
    <3>2. QED
      BY <1>5, <3>1 DEF Finalize
  <2>2. QED
    BY <2>1 DEF Serving, Finalizing, Deleting
<1>6. CASE ListRoutesToDelete \/ PurgeRoute
  BY <1>6, PurgeFacts DEF ListRoutesToDelete, PurgeRoute, Goto, Serving, Finalizing, Deleting
<1>7. CASE DeleteTunnel
  BY <1>7 DEF DeleteTunnel, Goto, Serving, Finalizing, Deleting
<1>8. QED
  BY <1>2, <1>3, <1>4, <1>5, <1>6, <1>7 DEF Going

LEMMA SyncNext ==
  ASSUME TypeInv, TypeInv', BookInv, SyncInv, [Next]_vars
  PROVE  SyncInv'
<1>1. Synced /\ Synced'
  BY SyncedNext DEF SyncInv
<1>2. Ends \/ RecordTunnel \/ Reading \/ Going \/ Outside \/ \E c \in CT : Reconcile(c)
  BY Classes
<1> SUFFICES ASSUME pc' # "idle", Settled(cur)'
             PROVE  /\ rec' = obj'[cur']
                    /\ pc' \in Finalizing => rec'.deleting
                    /\ pc' \in Serving => /\ pc' \in {"select", "degradeSelector"}
                                          /\ rec'.status.conditions.progressing = "updated"
                                          /\ rec'.status.conditions.degraded \in {"config", "ingress", "routes", "no"}
  BY <1>1 DEF SyncInv
<1>3. cur' \in CT /\ cur' \notin news'
  BY DEF TypeInv, LocalsInv, Settled
<1>4. CASE \E c \in CT : Reconcile(c)
  <2>1. PICK c \in CT : Reconcile(c)
    BY <1>4
  <2>2. /\ rec' = cache[c] /\ cur' = c /\ UNCHANGED <<obj, news>> /\ cache[c] \in Object
        /\ pc' = (IF cache[c].deleting THEN "finalize" ELSE Proceed(cache[c]))
    BY <2>1, TypeFacts DEF Reconcile
  <2>3. cache[c] = obj[c]
    BY <1>1, <1>3, <2>2 DEF Synced
  <2>4. /\ pc' \in {"finalize", "conditions", "addFinalizer", "create", "get"}
        /\ pc' = "finalize" => cache[c].deleting
    BY <2>2, ProceedFacts
  <2>5. QED
    BY <2>2, <2>3, <2>4 DEF Finalizing, Deleting, Serving
<1>5. ASSUME cur' = cur, pc # "idle"
      PROVE  /\ obj'[cur] = obj[cur] /\ rec = obj[cur] /\ cur \in CT
             /\ pc \in Finalizing => rec.deleting
             /\ pc \in Serving => /\ pc \in {"select", "degradeSelector"}
                                  /\ rec.status.conditions.progressing = "updated"
                                  /\ rec.status.conditions.degraded \in {"config", "ingress", "routes", "no"}
  <2>1. Settled(cur)'
    BY <1>5 DEF Settled
  <2>2. obj'[cur] = obj[cur] /\ (Settled(cur) \/ Reconcile(cur) \/ (obj'[cur] = Nil /\ (pc = "idle" \/ pc' = "idle")))
    BY <1>1, <1>3, <1>5, SettledBefore DEF Settled
  <2>3. Settled(cur)
    BY <1>5, <2>2 DEF Reconcile
  <2>4. QED
    BY <1>3, <1>5, <2>2, <2>3 DEF SyncInv
<1>6. CASE Going
  <2>1. UNCHANGED <<obj, rec, cur>> /\ pc # "idle"
    BY <1>6, GoingKeeps
  <2>2. QED
    BY <1>5, <1>6, <2>1, GoingTo
<1>7. CASE Outside
  <2>1. UNCHANGED <<pc, rec, cur>> /\ pc # "idle"
    BY <1>7 DEF Outside
  <2>2. QED
    BY <1>5, <2>1
<1>8. CASE Reading
  <2>1. cur' = cur /\ pc # "idle"
    BY <1>8, ReadingSteps DEF Reading, PatchesAndReads
  <2>2. rec = obj[cur] /\ cur \notin news' /\ obj'[cur] = obj[cur]
    BY <1>3, <1>5, <2>1
  <2>3. CASE InitConditions \/ AddFinalizer
    <3>1. pc' = Proceed(rec') /\ rec' = rec /\ rec \in Object
      BY <2>1, <2>2, <2>3, SettledReads, AtCall DEF InitConditions, AddFinalizer, Goto
    <3>2. pc' \notin Finalizing /\ pc' \notin Serving
      BY <3>1, ProceedFacts DEF Finalizing, Deleting, Serving
    <3>3. QED
      BY <2>1, <2>2, <3>1, <3>2
  <2>4. CASE MarkCloudflareds \/ MarkTunnel
    <3>1. rec' = rec
      BY <2>2, <2>4, SettledReads
    <3>2. pc \in Finalizing /\ pc' \notin Serving
      BY <2>4 DEF MarkCloudflareds, MarkTunnel, Goto, Finalizing, Deleting, Serving
    <3>3. QED
      BY <1>5, <2>1, <2>2, <3>1, <3>2
  <2>5. CASE UpdateStatus /\ pc' # "idle"
    <3>1. /\ rec' = rec /\ pc' \in {"select", "degradeSelector"}
          /\ rec.status.conditions.progressing = "updated"
          /\ rec.status.conditions.degraded \in {"config", "ingress", "routes", "no"}
      BY <2>2, <2>5, SettledUpdate
    <3>2. pc' \notin Finalizing
      BY <3>1 DEF Finalizing, Deleting
    <3>3. QED
      BY <2>1, <2>2, <3>1, <3>2
  <2>6. CASE SelectCloudflareds
    <3>1. rec.status.conditions.progressing = "selecting" /\ pc = "select"
      BY <2>2, <2>6, SettledSelect DEF SelectCloudflareds
    <3>2. rec.status.conditions.progressing = "updated"
      BY <1>5, <2>1, <3>1 DEF Serving
    <3>3. QED
      BY <3>1, <3>2
  <2>7. QED
    BY <1>8, <2>3, <2>4, <2>5, <2>6 DEF Reading
<1>9. QED
  BY <1>2, <1>4, <1>6, <1>7, <1>8, RecordEffect DEF Ends

-----------------------------------------------------------------------------
(* At rest: the end of a reconcile *)

\* A complete tunnel stays as it is while Reconcile works on another object.
LEMMA CompleteStays ==
  ASSUME OwnTunnels, TypeInv, BookInv, OwnInv, [Next]_vars, \A j \in Id : ~RemovedUpstream(j), access' = access,
         NEW c \in CT, pc = "idle" \/ cur # c, obj[c] # Nil, obj'[c] = obj[c], Complete(c)
  PROVE  Complete(c)'
<1> DEFINE i == obj[c].status.id
<1>1. obj[c] \in Object /\ i # Nil /\ Found(i, obj[c].spec.account)
  BY TypeFacts DEF Complete
<1>2. i \in issued
  BY <1>1 DEF BookInv, Booked, Paired, Known
<1>3. AsksFor(c, i, remote)
  BY <1>1 DEF OwnInv, OwnOK
<1>4. remote[i] # Nil
  BY <1>1 DEF Found
<1>5. remote'[i] = remote[i] /\ \A s \in Slot : routes'[s] = i <=> routes[s] = i
  BY <1>2, <1>3, <1>4, OthersKeep
<1>6. Found(i, obj[c].spec.account)' = Found(i, obj[c].spec.account)
  BY <1>5 DEF Found
<1>7. ExistingRoutes(i, obj[c].spec.account)' = ExistingRoutes(i, obj[c].spec.account)
  BY <1>5 DEF ExistingRoutes
<1>8. QED
  BY <1>5, <1>6, <1>7 DEF Complete

\* The end of an update of an object that stays settled.
LEMMA CompleteAfterUpdate ==
  ASSUME TypeInv, BookInv, WorkInv, spent["outside"] = 0, access' = access, UpdateStatus,
         NEW c, cur = c, rec = obj[c], c \notin news'
  PROVE  Complete(c)'
<1>1. pc = "status" /\ cur \in CT /\ UNCHANGED <<remote, routes>>
  BY AtCall DEF UpdateStatus, remoteVars
<1>2. /\ tid \in Id /\ tid # Nil /\ res.id = tid /\ Found(tid, rec.spec.account) /\ res.src = remote[tid].src
      /\ plan \in Plan
  BY <1>1, AtUpdate, ConstantsAssumption DEF Updating
<1>3. /\ remote[tid].name = rec.spec.name
      /\ PushesConfig(res) => remote[tid].config = rec.spec.config
      /\ access => PlanInv
  BY <1>1 DEF WorkInv, Updating
<1>4. /\ obj' = obj /\ rec.status.id = tid /\ rec.status.routesReady = plan.ready
      /\ rec.status.conditions.degraded = DegradedBy(res, plan)
  BY <1>2, SettledUpdate
<1> DEFINE mine == ExistingRoutes(tid, rec.spec.account)
<1>5. plan.problem => DegradedBy(res, plan) # "no"
  BY <1>2 DEF DegradedBy, Plan
<1>6. access => /\ mine \subseteq WantedSlots(rec.spec)
                /\ mine = WantedSlots(rec.spec) \/ plan.problem
                /\ plan.ready = Cardinality(mine)
  <2> SUFFICES ASSUME access
               PROVE  /\ mine \subseteq WantedSlots(rec.spec)
                      /\ mine = WantedSlots(rec.spec) \/ plan.problem
                      /\ plan.ready = Cardinality(mine)
    OBVIOUS
  <2>1. Planned(plan, rec.spec, mine) /\ plan.drop = {} /\ plan.add = {}
    BY <1>1, <1>3 DEF PlanInv
  <2>2. mine \ plan.drop = mine /\ SlotsOf(rec.spec.account, plan.add) = {}
    BY <2>1 DEF SlotsOf
  <2> HIDE DEF mine
  <2>3. QED
    BY <2>1, <2>2 DEF Planned
<1>7. Complete(c)
  BY <1>2, <1>3, <1>4, <1>5, <1>6 DEF Complete, PushesConfig
<1>8. Complete(c)' = Complete(c)
  BY <1>1, <1>4 DEF Complete, Found, ExistingRoutes
<1>9. QED
  BY <1>7, <1>8

\* Which calls may end a reconcile without putting the object back on the queue.
LEMMA QuietEnds ==
  ASSUME TypeInv, TypeInv', BookInv, [Next]_vars, NEW c \in CT, cur = c, pc # "idle", pc' = "idle" \/ cur' # c,
         Settled(c)', obj'[c] # Nil
  PROVE  UpdateStatus \/ SelectCloudflareds \/ ApplyConfig \/ CreateCloudflared \/ RecordComplaint \/ Release
<1>1. c \notin queue'
  BY DEF Settled
<1>2. ~Going
  BY GoingTo, GoingKeeps
<1>3. ~Reading
  BY ReadingTo, ReadingSteps DEF Reading, PatchesAndReads
<1>4. ~UNCHANGED <<pc, cur>>
  OBVIOUS
<1>5. ~Return(Requeued)
  BY <1>1 DEF Return, Requeued
<1>6. CASE ReconcileStep
  <2>1. CASE AdoptNothing \/ UpdateRefused \/ ApplyConflicts \/ PatchGone \/ RecordTunnel
    BY <1>5, <2>1 DEF AdoptNothing, UpdateRefused, ApplyConflicts, PatchGone, RecordTunnel
  <2>2. CASE DeleteCloudflared
    BY <1>4, <1>5, <2>2 DEF DeleteCloudflared
  <2>3. QED
    BY <1>2, <1>3, <1>6, <2>1, <2>2 DEF ReconcileStep, Going, Reading
<1>7. CASE CallFails \/ SecretFails
  BY <1>2, <1>5, <1>7 DEF CallFails, Going
<1>8. CASE Restart
  BY <1>1, <1>8 DEF Restart, Return
<1>9. CASE \E d \in CT : ReconcileGone(d) \/ Reconcile(d) \/ Sync(d)
  BY <1>4, <1>9 DEF ReconcileGone, Reconcile, Sync, workerVars
<1>10. CASE \E f \in CF : SyncCloudflared(f) \/ Collect(f)
  BY <1>4, <1>10 DEF SyncCloudflared, Collect, workerVars
<1>11. CASE Environment
  BY <1>4, <1>11 DEF Environment, UserDeletes, UserCreates, UserEdits, DnsRecordChanges, UserDeletesCloudflared,
     UserCreatesCloudflared, RemovedUpstream, workerVars
<1>12. CASE UNCHANGED vars
  BY <1>4, <1>12 DEF vars
<1>13. QED
  BY <1>6, <1>7, <1>8, <1>9, <1>10, <1>11, <1>12 DEF Next

\* When Reconcile leaves an object settled, the object is complete or being deleted.
LEMMA CompleteAfter ==
  ASSUME TypeInv, TypeInv', BookInv, WorkInv, SyncInv, [Next]_vars, spent["outside"] = 0, access' = access,
         NEW c \in CT, cur = c, pc # "idle", pc' = "idle" \/ cur' # c,
         Settled(c), Settled(c)', obj'[c] = obj[c], obj'[c] # Nil, ~obj'[c].deleting
  PROVE  Complete(c)'
<1>1. /\ rec = obj[cur] /\ cur \notin news'
      /\ pc \in Finalizing => rec.deleting
      /\ pc \in Serving => /\ pc \in {"select", "degradeSelector"}
                           /\ rec.status.conditions.progressing = "updated"
                           /\ rec.status.conditions.degraded \in {"config", "ingress", "routes", "no"}
  BY DEF SyncInv, Settled
<1>2. CASE UpdateStatus
  BY <1>1, <1>2, CompleteAfterUpdate
<1>3. ~SelectCloudflareds
  <2> SUFFICES ASSUME SelectCloudflareds PROVE FALSE
    OBVIOUS
  <2>1. rec.status.conditions.progressing = "selecting" /\ pc = "select"
    BY <1>1, SettledSelect DEF SelectCloudflareds
  <2>2. QED
    BY <1>1, <2>1 DEF Serving
<1>4. ~ApplyConfig /\ ~CreateCloudflared
  BY <1>1 DEF ApplyConfig, CreateCloudflared, Serving
<1>5. ~RecordComplaint
  <2> SUFFICES ASSUME RecordComplaint PROVE FALSE
    OBVIOUS
  <2>1. pc \in {"degradeSecret", "degradeAmbiguous", "degradeSelector", "degradeTemplate"}
    BY DEF RecordComplaint, Complaint
  <2>2. CASE pc \in {"degradeSecret", "degradeAmbiguous"}
    BY <2>2 DEF RecordComplaint, Return, Requeued, Settled
  <2>3. CASE pc = "degradeSelector"
    <3>1. rec.status.conditions.degraded = "selector"
      BY <1>1, <2>3, SettledComplaint
    <3>2. QED
      BY <1>1, <2>3, <3>1 DEF Serving
  <2>4. CASE pc = "degradeTemplate"
    BY <1>1, <2>4 DEF Serving
  <2>5. QED
    BY <2>1, <2>2, <2>3, <2>4
<1>6. ~Release
  BY <1>1 DEF Release, Finalizing
<1>7. QED
  BY <1>2, <1>3, <1>4, <1>5, <1>6, QuietEnds

LEMMA RestNext ==
  ASSUME OwnTunnels, TypeInv, TypeInv', BookInv, OwnInv, WorkInv, SyncInv, RestInv, [Next]_vars
  PROVE  RestInv'
<1> SUFFICES ASSUME spent'["outside"] = 0, NEW c \in CT, Settled(c)', pc' = "idle" \/ cur' # c,
                    obj'[c] # Nil, ~obj'[c].deleting
             PROVE  Complete(c)'
  BY DEF RestInv
<1>1. spent["outside"] = 0 /\ access' = access /\ \A i \in Id : ~RemovedUpstream(i)
  BY NextSpends
<1>2. ~Reconcile(c)
  <2> SUFFICES ASSUME Reconcile(c) PROVE FALSE
    OBVIOUS
  <2>1. cache[c] \in Object /\ pc' = (IF cache[c].deleting THEN "finalize" ELSE Proceed(cache[c])) /\ cur' = c
    BY TypeFacts DEF Reconcile
  <2>2. QED
    BY <2>1, ProceedFacts
<1>3. obj'[c] = obj[c] /\ Settled(c)
  BY <1>2, SettledBefore DEF SyncInv
<1>4. CASE pc = "idle" \/ cur # c
  <2>1. Complete(c)
    BY <1>1, <1>3, <1>4 DEF RestInv
  <2>2. QED
    BY <1>1, <1>3, <1>4, <2>1, CompleteStays
<1>5. CASE pc # "idle" /\ cur = c
  BY <1>1, <1>3, <1>5, CompleteAfter
<1>6. QED
  BY <1>4, <1>5

\* updateTunnel, updateConfiguration and updateRoutes end with one patch of the
\* status, and only a patch that changes nothing lets the object rest: if no two
\* objects ask for one tunnel, and nobody intervenes at Cloudflare, a tunnel that
\* is left alone is there as its spec wants it, and a route that is missing is
\* reported.
THEOREM RestIsComplete == ASSUME OwnTunnels PROVE Spec => []QuietMeansComplete
<1> DEFINE Inv == TypeInv /\ BookInv /\ OwnInv /\ WorkInv /\ SyncInv /\ RestInv
<1>1. Init => Inv
  BY InitType, InitBook
  DEF Init, OwnInv, OwnOK, WorkInv, SyncInv, Synced, RestInv, Updating, Deleting
<1>2. Inv /\ [Next]_vars => Inv'
  BY NextType, BookNext, OwnNext, WorkNext, SyncNext, RestNext
<1>3. Inv => QuietMeansComplete
  BY DEF RestInv, QuietMeansComplete, Quiet, Settled
<1>4. QED
  BY <1>1, <1>2, <1>3, PTL DEF Spec
=============================================================================
