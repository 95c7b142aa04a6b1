--------------------------- MODULE DnsRecordProofs ---------------------------
(* Proofs about DnsRecordController, for every set of objects, ids and specs. *)
EXTENDS DnsRecordController, TLAPS

USE ConstantsAssumption

\* The calls that follow resolve, and those that follow an answer of Cloudflare.
AfterResolve == {"list", "create", "recordId", "refresh", "forget", "observe", "update", "observeUpdate"}
AfterAnswer  == {"recordId", "observe", "observeUpdate"}

\* The calls that address the record by the id in the status.
ById == {"adopter", "delete", "refresh", "forget", "observe", "update"}

\* What Reconcile's local variables hold at each call.
LocalsOK ==
  /\ pc # "idle" => cur \in CR /\ rec \in Object
  /\ pc \in AfterResolve => want \in Wanted
  /\ pc \in AfterAnswer => res \in Status
  /\ pc \in ById => rec.status.id \in Id

TypeInv == TypeOK /\ LocalsOK

LEMMA MergedType ==
  ASSUME NEW now \in Status, NEW base \in Status, NEW new \in Status
  PROVE  Merged(now, base, new) \in Status
BY DEF Merged, Status

LEMMA DecodedType ==
  ASSUME NEW now \in Status, NEW base \in Status
  PROVE  Decoded(now, base) \in Status
BY DEF Decoded, Status

LEMMA WithStatus ==
  ASSUME NEW o \in Object, NEW s \in Status
  PROVE  /\ [o EXCEPT !.status = s] \in Object
         /\ [o EXCEPT !.status = s].status = s
         /\ [o EXCEPT !.status = s].spec = o.spec
BY DEF Object

LEMMA InitType == Init => TypeInv
BY DEF Init, TypeInv, TypeOK, LocalsOK, AfterResolve, AfterAnswer, ById

LEMMA PatchedType ==
  ASSUME TypeInv, pc # "idle", obj[cur] # Nil, NEW s \in Status
  PROVE  Patched(s) \in Object
<1>1. obj[cur] \in Object /\ rec \in Object
  BY DEF TypeInv, TypeOK, LocalsOK
<1>2. obj[cur].status \in Status /\ rec.status \in Status
  BY <1>1 DEF Object
<1>. QED BY <1>1, <1>2, MergedType, WithStatus DEF Patched

LEMMA WriteType ==
  ASSUME TypeInv, NEW c \in CR, NEW o \in Object \cup {Nil}, Write(c, o)
  PROVE  obj' \in [CR -> Object \cup {Nil}] /\ news' \subseteq CR /\ obj'[c] = o
BY DEF Write, TypeInv, TypeOK

\* Reconcile's copy after a patch answered with object o.
LEMMA RefreshedType ==
  ASSUME NEW o \in Object, rec \in Object
  PROVE  Refreshed(o) \in Object
<1>1. o.status \in Status /\ rec.status \in Status
  BY DEF Object
<1>2. Decoded(o.status, rec.status) \in Status
  BY <1>1, DecodedType
<1>. QED BY <1>2 DEF Refreshed, Object, RecordSpec

LEMMA RefreshedId ==
  ASSUME TypeInv, pc # "idle", obj[cur] # Nil, NEW s \in Status, rec.status.id \in Id
  PROVE  Refreshed(Patched(s)).status.id \in Id
<1>. USE DEF TypeInv, TypeOK, LocalsOK
<1>1. obj[cur] \in Object /\ rec \in Object
  OBVIOUS
<1>2. obj[cur].status \in Status /\ rec.status \in Status
  BY <1>1 DEF Object
<1>3. Merged(obj[cur].status, rec.status, s) \in Status
  BY <1>2, MergedType
<1>4. Patched(s) \in Object /\ Patched(s).status \in Status
  BY <1>1, <1>3, WithStatus DEF Patched
<1>5. Decoded(Patched(s).status, rec.status) \in Status
  BY <1>2, <1>4, DecodedType
<1>6. Refreshed(Patched(s)).status = Decoded(Patched(s).status, rec.status)
  BY <1>4, <1>5, WithStatus DEF Refreshed
<1>7. Decoded(Patched(s).status, rec.status).id \in Id
  BY <1>4 DEF Decoded, Status
<1>. QED BY <1>6, <1>7

LEMMA ReturnType == ASSUME NEW q \in SUBSET CR, Return(q)
                    PROVE  /\ queue' \subseteq CR /\ pc' = "idle"
                           /\ cur' = Nil /\ rec' = Nil /\ want' = Nil /\ res' = Nil
BY DEF Return

\* The steps of Reconcile keep the types.
LEMMA ReconcileStepType == ASSUME TypeInv, ReconcileStep PROVE TypeInv'
<1>. USE DEF TypeInv, TypeOK, LocalsOK, AfterResolve, AfterAnswer, ById, Calls
<1>1. CASE LookForAdopter
  BY <1>1 DEF LookForAdopter, Goto, clusterVars, remoteVars
<1>2. CASE DeleteDnsRecord
  BY <1>2 DEF DeleteDnsRecord, Goto, clusterVars
<1>3. CASE ReleaseDnsRecord
  <2>. DEFINE o == obj[cur]
              n == CASE o = Nil \/ ~rec.fin                -> o
                     [] o # Nil /\ rec.fin /\ o.deleting  -> Nil
                     [] o # Nil /\ rec.fin /\ ~o.deleting -> [o EXCEPT !.fin = FALSE]
  <2>1. cur \in CR /\ rec \in Object /\ o \in Object \cup {Nil}
    BY <1>3 DEF ReleaseDnsRecord
  <2>2. n \in Object \cup {Nil}
    BY <2>1 DEF Object
  <2>3. Write(cur, n) /\ Return(queue)
    BY <1>3 DEF ReleaseDnsRecord
  <2>. HIDE DEF n
  <2>. QED BY <1>3, <2>1, <2>2, <2>3, WriteType, ReturnType DEF ReleaseDnsRecord, remoteVars
<1>4. CASE AddFinalizer
  <2>. DEFINE n == [obj[cur] EXCEPT !.fin = TRUE]
  <2>1. cur \in CR /\ rec \in Object /\ obj[cur] \in Object
    BY <1>4 DEF AddFinalizer
  <2>2. n \in Object
    BY <2>1 DEF Object
  <2>3. Write(cur, n)
    BY <1>4 DEF AddFinalizer
  <2>. HIDE DEF n
  <2>4. obj'[cur] = n /\ obj' \in [CR -> Object \cup {Nil}] /\ news' \subseteq CR
    BY <2>1, <2>2, <2>3, WriteType
  <2>5. rec' \in Object
    BY <1>4, <2>1, <2>2, <2>4, RefreshedType DEF AddFinalizer
  <2>. QED BY <1>4, <2>1, <2>4, <2>5 DEF AddFinalizer, Goto, remoteVars
<1>5. CASE AddFinalizerGone
  BY <1>5, ReturnType DEF AddFinalizerGone, remoteVars
<1>6. CASE ResolveWaits
  BY <1>6, ReturnType DEF ResolveWaits, remoteVars
<1>7. CASE Resolve
  <2>1. rec.spec \in RecordSpec /\ Resolved(rec.spec) # Nil
    BY <1>7 DEF Resolve, Object
  <2>2. want' \in Wanted
    BY <1>7, <2>1 DEF Resolve, Resolved, RecordSpec, Wanted
  <2>3. rec.status.id \in Id \cup {Nil}
    BY <1>7 DEF Resolve, Object, Status
  <2>. QED BY <1>7, <2>2, <2>3 DEF Resolve, Goto, clusterVars, remoteVars
<1>8. CASE ListDnsRecords
  BY <1>8 DEF ListDnsRecords, Goto, clusterVars, remoteVars
<1>9. CASE AdoptDnsRecord
  <2>1. PICK i \in Id : Listed(rec) = {i} /\ res' = Answer(i)
    BY <1>9 DEF AdoptDnsRecord
  <2>2. remote[i] \in Remote
    BY <2>1 DEF Listed, Found
  <2>3. res' \in Status
    BY <2>1, <2>2 DEF Answer, Remote, Status
  <2>. QED BY <1>9, <2>3 DEF AdoptDnsRecord, Goto, clusterVars, remoteVars
<1>10. CASE ListAmbiguous
  BY <1>10, ReturnType DEF ListAmbiguous, Requeued, remoteVars
<1>11. CASE CreateDnsRecord
  <2>1. FreshId \in Id
    BY <1>11 DEF CreateDnsRecord, FreshId
  <2>2. rec.spec \in RecordSpec /\ want \in Wanted
    BY <1>11 DEF CreateDnsRecord, Object
  <2>3. [zone |-> rec.spec.zone, key |-> want.key, content |-> want.content, opts |-> want.opts] \in Remote
    BY <2>2 DEF RecordSpec, Wanted, Remote
  <2>4. res' \in Status
    BY <1>11, <2>1, <2>2 DEF CreateDnsRecord, Wanted, Status
  <2>. QED BY <1>11, <2>1, <2>3, <2>4 DEF CreateDnsRecord, Goto, clusterVars
<1>12. CASE RecordId
  <2>1. Patched(res) \in Object /\ cur \in CR
    BY <1>12, PatchedType DEF RecordId
  <2>. QED BY <1>12, <2>1, WriteType, ReturnType DEF RecordId, Requeued, remoteVars
<1>13. CASE GetDnsRecord
  <2>1. remote[rec.status.id] \in Remote
    BY <1>13 DEF GetDnsRecord, Found
  <2>2. res' \in Status
    BY <1>13, <2>1 DEF GetDnsRecord, Answer, Remote, Status
  <2>. QED BY <1>13, <2>2 DEF GetDnsRecord, Goto, clusterVars, remoteVars
<1>14. CASE GetDnsRecordGone
  BY <1>14 DEF GetDnsRecordGone, Goto, clusterVars, remoteVars
<1>15. CASE ForgetId
  <2>1. [rec.status EXCEPT !.id = Nil] \in Status
    BY <1>15 DEF ForgetId, Object, Status
  <2>2. Patched([rec.status EXCEPT !.id = Nil]) \in Object /\ cur \in CR
    BY <1>15, <2>1, PatchedType DEF ForgetId
  <2>. QED BY <1>15, <2>2, WriteType, ReturnType DEF ForgetId, Requeued, remoteVars
<1>16. CASE Observe
  <2>1. cur \in CR /\ Patched(res) \in Object /\ rec \in Object
    BY <1>16, PatchedType DEF Observe
  <2>2. /\ obj'[cur] = Patched(res) /\ obj' \in [CR -> Object \cup {Nil}] /\ news' \subseteq CR
        /\ cache' = cache /\ remote' = remote /\ issued' = issued /\ tunnel' = tunnel /\ spent' = spent
    BY <1>16, <2>1, WriteType DEF Observe, remoteVars
  <2>. DEFINE r == Refreshed(obj'[cur])
  <2>3. r \in Object
    BY <2>1, <2>2, RefreshedType
  <2>4. r.status.id \in Id
    BY <1>16, <2>1, <2>2, RefreshedId DEF Observe
  <2>5. CASE rec' = r /\ Goto("update") /\ UNCHANGED <<queue, want, res>>
    BY <1>16, <2>2, <2>3, <2>4, <2>5 DEF Observe, Goto
  <2>6. CASE Return(queue)
    BY <2>2, <2>6, ReturnType
  <2>. QED BY <1>16, <2>5, <2>6 DEF Observe
<1>17. CASE UpdateDnsRecord
  <2>1. rec.spec \in RecordSpec /\ want \in Wanted
    BY <1>17 DEF UpdateDnsRecord, Object
  <2>2. [zone |-> rec.spec.zone, key |-> want.key, content |-> want.content, opts |-> want.opts] \in Remote
    BY <2>1 DEF RecordSpec, Wanted, Remote
  <2>3. res' \in Status
    BY <1>17, <2>1 DEF UpdateDnsRecord, Wanted, Status
  <2>. QED BY <1>17, <2>2, <2>3 DEF UpdateDnsRecord, Goto, clusterVars
<1>18. CASE UpdateDnsRecordGone
  BY <1>18, ReturnType DEF UpdateDnsRecordGone, Requeued, remoteVars
<1>19. CASE ObserveUpdate
  <2>1. Patched(res) \in Object /\ cur \in CR
    BY <1>19, PatchedType DEF ObserveUpdate
  <2>. QED BY <1>19, <2>1, WriteType, ReturnType DEF ObserveUpdate, remoteVars
<1>. QED BY <1>1, <1>2, <1>3, <1>4, <1>5, <1>6, <1>7, <1>8, <1>9, <1>10, <1>11, <1>12, <1>13,
            <1>14, <1>15, <1>16, <1>17, <1>18, <1>19 DEF ReconcileStep

\* So do starting a reconcile, failures, restarts and the environment.
LEMMA OtherStepType ==
  ASSUME TypeInv, [(\E c \in CR : ReconcileGone(c) \/ Reconcile(c) \/ Sync(c))
                   \/ CallFails \/ Restart \/ Environment]_vars
  PROVE  TypeInv'
<1>. USE DEF TypeInv, TypeOK, LocalsOK, AfterResolve, AfterAnswer, ById, Calls
<1>1. ASSUME NEW c \in CR, ReconcileGone(c) PROVE TypeInv'
  BY <1>1 DEF ReconcileGone, remoteVars, workerVars
<1>2. ASSUME NEW c \in CR, Reconcile(c) PROVE TypeInv'
  <2>1. cache[c] \in Object
    BY <1>2 DEF Reconcile
  <2>2. /\ Dispatch(cache[c]) \in {"release", "adopter", "addFinalizer", "resolve"}
        /\ Dispatch(cache[c]) = "adopter" => cache[c].status.id \in Id
    BY <2>1 DEF Dispatch, Object, Status
  <2>. QED BY <1>2, <2>1, <2>2 DEF Reconcile, remoteVars
<1>3. ASSUME NEW c \in CR, Sync(c) PROVE TypeInv'
  BY <1>3 DEF Sync, remoteVars, workerVars
<1>4. CASE CallFails
  <2>1. spent' \in [Kinds -> Nat]
    BY <1>4 DEF CallFails, Spend, Kinds
  <2>. QED BY <1>4, <2>1, ReturnType DEF CallFails, Requeued, remoteVars
<1>5. CASE Restart
  <2>1. spent' \in [Kinds -> Nat]
    BY <1>5 DEF Restart, Spend, Kinds
  <2>. QED BY <1>5, <2>1, ReturnType DEF Restart, remoteVars
<1>6. ASSUME NEW c \in CR, UserDeletes(c) PROVE TypeInv'
  <2>1. spent' \in [Kinds -> Nat]
    BY <1>6 DEF UserDeletes, Spend, Kinds
  <2>. DEFINE n == [obj[c] EXCEPT !.deleting = TRUE]
  <2>3. obj[c] \in Object
    BY <1>6 DEF UserDeletes
  <2>4. n \in Object
    BY <2>3 DEF Object
  <2>. HIDE DEF n
  <2>2. (IF obj[c].fin THEN n ELSE Nil) \in Object \cup {Nil}
    BY <2>4
  <2>. USE DEF n
  <2>. QED BY <1>6, <2>1, <2>2, WriteType DEF UserDeletes, remoteVars, workerVars
<1>7. ASSUME NEW c \in CR, NEW s \in SpecsOf[c], UserCreates(c, s) PROVE TypeInv'
  <2>1. spent' \in [Kinds -> Nat]
    BY <1>7 DEF UserCreates, Spend, Kinds
  <2>2. [deleting |-> FALSE, fin |-> FALSE, spec |-> s, status |-> NoStatus] \in Object
    BY DEF Object, NoStatus, Status
  <2>. QED BY <1>7, <2>1, <2>2, WriteType DEF UserCreates, remoteVars, workerVars
<1>8. ASSUME NEW c \in CR, NEW s \in SpecsOf[c], UserEdits(c, s) PROVE TypeInv'
  <2>1. spent' \in [Kinds -> Nat]
    BY <1>8 DEF UserEdits, Spend, Kinds
  <2>2. [obj[c] EXCEPT !.spec = s] \in Object
    BY <1>8 DEF UserEdits, Object
  <2>. QED BY <1>8, <2>1, <2>2, WriteType DEF UserEdits, remoteVars, workerVars
<1>9. ASSUME NEW t \in Target \cup {Nil}, TunnelChanges(t) PROVE TypeInv'
  <2>1. spent' \in [Kinds -> Nat]
    BY <1>9 DEF TunnelChanges, Spend, Kinds
  <2>. QED BY <1>9, <2>1 DEF TunnelChanges, RecordsForTunnel, remoteVars, workerVars
<1>10. ASSUME NEW i \in Id, RemovedUpstream(i) PROVE TypeInv'
  <2>1. spent' \in [Kinds -> Nat]
    BY <1>10 DEF RemovedUpstream, Spend, Kinds
  <2>. QED BY <1>10, <2>1 DEF RemovedUpstream, clusterVars, workerVars
<1>11. CASE UNCHANGED vars
  BY <1>11 DEF vars
<1>. QED BY <1>1, <1>2, <1>3, <1>4, <1>5, <1>6, <1>7, <1>8, <1>9, <1>10, <1>11 DEF Environment

(***************************************************************************)
(* The types are an invariant for every set of objects, specs, ids and     *)
(* every bound on what the environment does.                               *)
(***************************************************************************)
THEOREM TypeCorrect == Spec => []TypeOK
<1>1. Spec => []TypeInv
  <2>1. TypeInv /\ [Next]_vars => TypeInv'
    BY ReconcileStepType, OtherStepType DEF Next
  <2>. QED BY InitType, <2>1, PTL DEF Spec
<1>2. TypeInv => TypeOK
  BY DEF TypeInv
<1>. QED BY <1>1, <1>2, PTL

-----------------------------------------------------------------------------
(* No duplicates *)

\* The zone, name and type of each object's record never change.
FixedKeys == \A c \in CR : \A s, t \in SpecsOf[c] : SameRecord(s, t)

\* The zones hold no duplicates before the operator's first run.
UniqueBefore ==
  \A r \in Before : \A i, j \in Id : i # j /\ r[i] # Nil /\ r[j] # Nil => ~SameRecord(r[i], r[j])

\* Spec s asks for the record that object c asks for.
ForRecordOf(c, s) == \E t \in SpecsOf[c] : SameRecord(s, t)

\* A copy of object c, however old, asks for c's record and tracks it.
Keeps(c, o) ==
  /\ ForRecordOf(c, o.spec)
  /\ o.status.id # Nil => OwnRecord(o.status.id, o.spec)

CopyOK(c, o) == o # Nil => Keeps(c, o)

ObjectsInv == \A c \in CR : CopyOK(c, obj[c]) /\ CopyOK(c, cache[c])

\* What Reconcile knows at the call it is about to make.
WorkerInv ==
  /\ pc = "idle" => rec = Nil
  /\ pc # "idle" => Keeps(cur, rec)
  /\ pc \in AfterResolve => want.key = rec.spec.key
  /\ pc \in AfterAnswer => res.id \in Id /\ OwnRecord(res.id, rec.spec)
  /\ pc = "create" => Listed(rec) = {}

\* Only issued ids name records.
IssuedOnce == \A i \in Id : remote[i] # Nil => i \in issued

IInv == TypeInv /\ ObjectsInv /\ WorkerInv /\ IssuedOnce /\ NoDuplicateRecords

(***************************************************************************)
(* What any step does to the records Cloudflare has issued an id for: they *)
(* keep their zone, name and type or they go.                              *)
(***************************************************************************)
RemoteFrame ==
  /\ issued \subseteq issued'
  /\ \A i \in issued : remote'[i] # Nil => remote[i] # Nil /\ SameRecord(remote'[i], remote[i])

LEMMA OwnFrame ==
  ASSUME RemoteFrame, NEW i, NEW s, OwnRecord(i, s)
  PROVE  OwnRecord(i, s)'
BY DEF RemoteFrame, OwnRecord, SameRecord

LEMMA OneRecord ==
  ASSUME FixedKeys, NEW c \in CR, NEW s, NEW t, ForRecordOf(c, s), ForRecordOf(c, t)
  PROVE  SameRecord(s, t)
BY DEF FixedKeys, ForRecordOf, SameRecord

LEMMA CopyFrame == ASSUME RemoteFrame, NEW c, NEW o, CopyOK(c, o) PROVE CopyOK(c, o)'
BY OwnFrame DEF CopyOK, Keeps

LEMMA OwnTransfer ==
  ASSUME NEW i, NEW s, NEW t, SameRecord(s, t), OwnRecord(i, s)
  PROVE  OwnRecord(i, t)
BY DEF OwnRecord, SameRecord

\* Steps that leave Cloudflare alone, or only remove records.
LEMMA ShrinkFrame ==
  ASSUME IInv, issued' = issued, remote' \in [Id -> Remote \cup {Nil}],
         \A i \in Id : remote'[i] = remote[i] \/ remote'[i] = Nil
  PROVE  RemoteFrame /\ IssuedOnce' /\ NoDuplicateRecords'
<1>1. RemoteFrame
  BY DEF IInv, TypeInv, TypeOK, RemoteFrame, SameRecord
<1>2. IssuedOnce'
  BY DEF IInv, IssuedOnce
<1>3. NoDuplicateRecords'
  BY DEF IInv, NoDuplicateRecords, SameRecord
<1>. QED BY <1>1, <1>2, <1>3

LEMMA InitIInv == ASSUME UniqueBefore PROVE Init => IInv
<1>. SUFFICES ASSUME Init PROVE IInv
  OBVIOUS
<1>1. TypeInv
  BY InitType
<1>2. NoDuplicateRecords
  BY DEF Init, UniqueBefore, NoDuplicateRecords
<1>. QED BY <1>1, <1>2 DEF Init, IInv, ObjectsInv, CopyOK, WorkerInv, IssuedOnce, AfterResolve, AfterAnswer

LEMMA ObjectsKept ==
  ASSUME IInv, RemoteFrame, obj' = obj, cache' = cache
  PROVE  ObjectsInv'
BY CopyFrame DEF IInv, ObjectsInv

LEMMA ObjectWritten ==
  ASSUME IInv, RemoteFrame, cache' = cache, NEW c \in CR, NEW o, CopyOK(c, o), Write(c, o)
  PROVE  ObjectsInv'
<1>1. ASSUME NEW d \in CR PROVE CopyOK(d, obj[d])'
  <2>1. obj' = [obj EXCEPT ![c] = o] /\ obj \in [CR -> Object \cup {Nil}]
    BY DEF Write, IInv, TypeInv, TypeOK
  <2>2. CASE d = c
    <3>1. obj'[d] = o
      BY <2>1, <2>2
    <3>. QED BY <2>2, <3>1, OwnFrame DEF CopyOK, Keeps, OwnRecord
  <2>3. CASE d # c
    <3>1. obj'[d] = obj[d] /\ CopyOK(d, obj[d])
      BY <2>1, <2>3 DEF IInv, ObjectsInv
    <3>. QED BY <3>1, OwnFrame DEF CopyOK, Keeps, OwnRecord
  <2>. QED BY <2>2, <2>3
<1>2. ASSUME NEW d \in CR PROVE CopyOK(d, cache[d])'
  BY CopyFrame DEF IInv, ObjectsInv
<1>. QED BY <1>1, <1>2 DEF ObjectsInv

LEMMA WorkerReturns == ASSUME NEW q, Return(q) PROVE WorkerInv'
BY DEF Return, WorkerInv, AfterResolve, AfterAnswer

\* Cloudflare is left as it is.
LEMMA SameFrame ==
  ASSUME IInv, UNCHANGED remoteVars
  PROVE  RemoteFrame /\ IssuedOnce' /\ NoDuplicateRecords'
<1>1. issued' = issued /\ remote' = remote
  BY DEF remoteVars
<1>2. remote' \in [Id -> Remote \cup {Nil}] /\ \A i \in Id : remote'[i] = remote[i] \/ remote'[i] = Nil
  BY <1>1 DEF IInv, TypeInv, TypeOK
<1>. QED BY <1>1, <1>2, ShrinkFrame

\* The status after a patch holds the patched id or keeps the one it had.
LEMMA PatchedCopy ==
  ASSUME FixedKeys, IInv, pc # "idle", obj[cur] # Nil, NEW s \in Status,
         s.id # Nil => OwnRecord(s.id, rec.spec)
  PROVE  Keeps(cur, Patched(s)) /\ Patched(s).spec = obj[cur].spec
<1>1. cur \in CR /\ obj[cur] \in Object /\ rec \in Object
  BY DEF IInv, TypeInv, TypeOK, LocalsOK
<1>2. obj[cur].status \in Status /\ rec.status \in Status
  BY <1>1 DEF Object
<1>. DEFINE m == Merged(obj[cur].status, rec.status, s)
<1>3. m \in Status /\ (m.id = s.id \/ m.id = obj[cur].status.id)
  BY <1>2, MergedType DEF Merged
<1>. HIDE DEF m
<1>4. Patched(s).status = m /\ Patched(s).spec = obj[cur].spec
  BY <1>1, <1>3, WithStatus DEF Patched, m
<1>5. ForRecordOf(cur, obj[cur].spec) /\ ForRecordOf(cur, rec.spec)
  BY <1>1 DEF IInv, ObjectsInv, WorkerInv, CopyOK, Keeps
<1>6. SameRecord(rec.spec, obj[cur].spec)
  BY <1>1, <1>5, OneRecord
<1>7. m.id # Nil => OwnRecord(m.id, obj[cur].spec)
  <2>1. CASE m.id = s.id
    BY <2>1, <1>6, OwnTransfer
  <2>2. CASE m.id = obj[cur].status.id
    BY <2>2, <1>1 DEF IInv, ObjectsInv, CopyOK, Keeps
  <2>. QED BY <1>3, <2>1, <2>2
<1>. QED BY <1>4, <1>5, <1>7 DEF Keeps

\* Decoding an answer over the old copy may keep the old id, which is as good.
LEMMA RefreshedKeeps ==
  ASSUME FixedKeys, IInv, pc # "idle", NEW o \in Object, Keeps(cur, o)
  PROVE  Keeps(cur, Refreshed(o))
<1>1. cur \in CR /\ rec \in Object /\ Keeps(cur, rec)
  BY DEF IInv, TypeInv, LocalsOK, WorkerInv
<1>2. o.status \in Status /\ rec.status \in Status
  BY <1>1 DEF Object
<1>. DEFINE m == Decoded(o.status, rec.status)
<1>3. m \in Status /\ (m.id = o.status.id \/ m.id = rec.status.id)
  BY <1>2, DecodedType DEF Decoded
<1>. HIDE DEF m
<1>4. Refreshed(o).status = m /\ SameRecord(o.spec, Refreshed(o).spec)
  BY DEF Refreshed, m, Object, RecordSpec, SameRecord
<1>5. SameRecord(rec.spec, o.spec)
  BY <1>1, OneRecord DEF Keeps
<1>6. m.id # Nil => OwnRecord(m.id, o.spec)
  BY <1>1, <1>3, <1>5, OwnTransfer DEF Keeps
<1>7. m.id # Nil => OwnRecord(m.id, Refreshed(o).spec)
  BY <1>4, <1>6, OwnTransfer
<1>8. ForRecordOf(cur, Refreshed(o).spec)
  BY <1>4 DEF Keeps, ForRecordOf, SameRecord
<1>. QED BY <1>4, <1>7, <1>8 DEF Keeps

\* The steps of Reconcile that do not write at Cloudflare.
ReadOrPatch ==
  \/ LookForAdopter \/ ReleaseDnsRecord \/ AddFinalizer \/ AddFinalizerGone
  \/ ResolveWaits \/ Resolve \/ ListDnsRecords \/ AdoptDnsRecord \/ ListAmbiguous \/ RecordId
  \/ GetDnsRecord \/ GetDnsRecordGone \/ ForgetId \/ Observe
  \/ UpdateDnsRecordGone \/ ObserveUpdate

LEMMA ReadOrPatchIInv == ASSUME FixedKeys, IInv, TypeInv', ReadOrPatch PROVE IInv'
<1>. USE DEF AfterResolve, AfterAnswer
<1>2. issued' = issued /\ remote' = remote
  BY DEF remoteVars, ReadOrPatch, LookForAdopter, ReleaseDnsRecord, AddFinalizer, AddFinalizerGone,
         ResolveWaits, Resolve, ListDnsRecords, AdoptDnsRecord, ListAmbiguous, RecordId, GetDnsRecord,
         GetDnsRecordGone, ForgetId, Observe, UpdateDnsRecordGone, ObserveUpdate
<1>1. RemoteFrame /\ IssuedOnce' /\ NoDuplicateRecords'
  BY <1>2, SameFrame DEF remoteVars
<1>. SUFFICES ObjectsInv' /\ WorkerInv'
  BY <1>1 DEF IInv
<1>3. CASE LookForAdopter
  <2>1. ObjectsInv'
    BY <1>1, <1>3, ObjectsKept DEF LookForAdopter, clusterVars
  <2>2. WorkerInv'
    BY <1>2, <1>3 DEF LookForAdopter, Goto, IInv, WorkerInv, Keeps, OwnRecord
  <2>. QED BY <2>1, <2>2
<1>5. CASE ReleaseDnsRecord
  <2>. DEFINE o == obj[cur]
              n == CASE o = Nil \/ ~rec.fin                -> o
                     [] o # Nil /\ rec.fin /\ o.deleting  -> Nil
                     [] o # Nil /\ rec.fin /\ ~o.deleting -> [o EXCEPT !.fin = FALSE]
  <2>1. cur \in CR /\ rec \in Object /\ o \in Object \cup {Nil} /\ CopyOK(cur, o)
    BY <1>5 DEF ReleaseDnsRecord, IInv, TypeInv, TypeOK, LocalsOK, ObjectsInv
  <2>2. CopyOK(cur, n)
    BY <2>1 DEF CopyOK, Keeps, Object
  <2>3. Write(cur, n) /\ Return(queue) /\ cache' = cache
    BY <1>5 DEF ReleaseDnsRecord
  <2>. HIDE DEF n
  <2>. QED BY <1>1, <2>1, <2>2, <2>3, ObjectWritten, WorkerReturns
<1>6. CASE AddFinalizer
  <2>. DEFINE n == [obj[cur] EXCEPT !.fin = TRUE]
  <2>1. cur \in CR /\ obj[cur] \in Object /\ Keeps(cur, obj[cur])
    BY <1>6 DEF AddFinalizer, IInv, TypeInv, TypeOK, LocalsOK, ObjectsInv, CopyOK
  <2>2. n \in Object /\ n.status = obj[cur].status /\ n.spec = obj[cur].spec
    BY <2>1 DEF Object
  <2>3. Keeps(cur, n)
    BY <2>1, <2>2 DEF Keeps
  <2>4. Write(cur, n) /\ cache' = cache /\ rec' = Refreshed(obj'[cur]) /\ pc' = "resolve" /\ cur' = cur
    BY <1>6 DEF AddFinalizer, Goto
  <2>. HIDE DEF n
  <2>5. ObjectsInv' /\ obj'[cur] = n
    BY <1>1, <2>1, <2>2, <2>3, <2>4, ObjectWritten, WriteType DEF CopyOK, IInv
  <2>6. Keeps(cur, Refreshed(n)) /\ rec' = Refreshed(n)
    BY <1>6, <2>2, <2>3, <2>4, <2>5, RefreshedKeeps DEF AddFinalizer
  <2>7. WorkerInv'
    BY <1>2, <2>4, <2>6 DEF WorkerInv, Keeps, OwnRecord
  <2>. QED BY <2>5, <2>7
<1>7. CASE AddFinalizerGone \/ ResolveWaits \/ ListAmbiguous \/ UpdateDnsRecordGone
  <2>1. obj' = obj /\ cache' = cache /\ \E q : Return(q)
    BY <1>7 DEF AddFinalizerGone, ResolveWaits, ListAmbiguous, UpdateDnsRecordGone
  <2>. QED BY <1>1, <2>1, ObjectsKept, WorkerReturns
<1>8. CASE Resolve
  <2>1. ObjectsInv'
    BY <1>1, <1>8, ObjectsKept DEF Resolve, clusterVars
  <2>2. WorkerInv'
    BY <1>2, <1>8 DEF Resolve, Goto, IInv, WorkerInv, Keeps, OwnRecord
  <2>. QED BY <2>1, <2>2
<1>9. CASE ListDnsRecords
  <2>1. ObjectsInv'
    BY <1>1, <1>9, ObjectsKept DEF ListDnsRecords, clusterVars
  <2>2. WorkerInv'
    BY <1>2, <1>9 DEF ListDnsRecords, Goto, IInv, WorkerInv, Keeps, OwnRecord, Listed, Found
  <2>. QED BY <2>1, <2>2
<1>10. CASE AdoptDnsRecord
  <2>1. ObjectsInv'
    BY <1>1, <1>10, ObjectsKept DEF AdoptDnsRecord, clusterVars
  <2>2. PICK i \in Id : Listed(rec) = {i} /\ res' = Answer(i)
    BY <1>10 DEF AdoptDnsRecord
  <2>3. res'.id = i /\ OwnRecord(i, rec.spec)
    BY <2>2 DEF Answer, Listed, Found, OwnRecord, SameRecord, IInv, IssuedOnce
  <2>4. WorkerInv'
    BY <1>2, <1>10, <2>3 DEF AdoptDnsRecord, Goto, IInv, WorkerInv, Keeps, OwnRecord
  <2>. QED BY <2>1, <2>4
<1>11. CASE RecordId \/ ObserveUpdate
  <2>1. pc \in AfterAnswer /\ obj[cur] # Nil /\ Write(cur, Patched(res)) /\ cache' = cache /\ \E q : Return(q)
    BY <1>11 DEF RecordId, ObserveUpdate
  <2>2. cur \in CR /\ res \in Status /\ OwnRecord(res.id, rec.spec)
    BY <2>1 DEF IInv, TypeInv, LocalsOK, WorkerInv
  <2>3. Keeps(cur, Patched(res))
    BY <2>1, <2>2, PatchedCopy
  <2>. QED BY <1>1, <2>1, <2>2, <2>3, ObjectWritten, WorkerReturns DEF CopyOK
<1>12. CASE GetDnsRecord
  <2>1. ObjectsInv'
    BY <1>1, <1>12, ObjectsKept DEF GetDnsRecord, clusterVars
  <2>2. rec.status.id \in Id /\ res'.id = rec.status.id /\ OwnRecord(rec.status.id, rec.spec)
    BY <1>12 DEF GetDnsRecord, Answer, IInv, WorkerInv, Keeps, TypeInv, LocalsOK, ById
  <2>3. WorkerInv'
    BY <1>2, <1>12, <2>2 DEF GetDnsRecord, Goto, IInv, WorkerInv, Keeps, OwnRecord
  <2>. QED BY <2>1, <2>3
<1>13. CASE GetDnsRecordGone
  <2>1. ObjectsInv'
    BY <1>1, <1>13, ObjectsKept DEF GetDnsRecordGone, clusterVars
  <2>2. WorkerInv'
    BY <1>2, <1>13 DEF GetDnsRecordGone, Goto, IInv, WorkerInv, Keeps, OwnRecord
  <2>. QED BY <2>1, <2>2
<1>14. CASE ForgetId
  <2>. DEFINE s == [rec.status EXCEPT !.id = Nil]
  <2>1. cur \in CR /\ rec \in Object /\ rec.status \in Status
    BY <1>14 DEF ForgetId, IInv, TypeInv, LocalsOK, Object
  <2>2. s \in Status /\ s.id = Nil
    BY <2>1 DEF Status
  <2>3. obj[cur] # Nil /\ Write(cur, Patched(s)) /\ cache' = cache /\ Return(Requeued)
    BY <1>14 DEF ForgetId
  <2>. HIDE DEF s
  <2>4. Keeps(cur, Patched(s))
    BY <1>14, <2>2, <2>3, PatchedCopy DEF ForgetId
  <2>. QED BY <1>1, <2>1, <2>3, <2>4, ObjectWritten, WorkerReturns DEF CopyOK
<1>15. CASE Observe
  <2>1. pc = "observe" /\ obj[cur] # Nil /\ Write(cur, Patched(res)) /\ cache' = cache
    BY <1>15 DEF Observe
  <2>2. cur \in CR /\ res \in Status /\ OwnRecord(res.id, rec.spec) /\ want.key = rec.spec.key
    BY <2>1 DEF IInv, TypeInv, LocalsOK, WorkerInv
  <2>3. Keeps(cur, Patched(res)) /\ Patched(res) \in Object
    BY <2>1, <2>2, PatchedCopy, PatchedType DEF IInv
  <2>4. ObjectsInv' /\ obj'[cur] = Patched(res)
    BY <1>1, <2>1, <2>2, <2>3, ObjectWritten, WriteType DEF CopyOK, IInv
  <2>. DEFINE r == Refreshed(obj'[cur])
  <2>5. Keeps(cur, r)
    BY <2>1, <2>3, <2>4, RefreshedKeeps
  <2>6. ForRecordOf(cur, r.spec) /\ ForRecordOf(cur, rec.spec)
    BY <2>1, <2>5 DEF Keeps, IInv, WorkerInv
  <2>7. want.key = r.spec.key
    BY <2>2, <2>6, OneRecord DEF SameRecord
  <2>. HIDE DEF r
  <2>8. CASE rec' = r /\ Goto("update") /\ UNCHANGED <<queue, want, res>>
    BY <1>2, <2>4, <2>5, <2>7, <2>8 DEF Goto, WorkerInv, Keeps, OwnRecord
  <2>9. CASE Return(queue)
    BY <2>4, <2>9, WorkerReturns
  <2>. QED BY <1>15, <2>4, <2>8, <2>9 DEF Observe, r
<1>. QED BY <1>3, <1>5, <1>6, <1>7, <1>8, <1>9, <1>10, <1>11, <1>12, <1>13, <1>14, <1>15 DEF ReadOrPatch

LEMMA DeleteIInv == ASSUME IInv, TypeInv', DeleteDnsRecord PROVE IInv'
<1>1. RemoteFrame /\ IssuedOnce' /\ NoDuplicateRecords'
  <2>1. issued' = issued /\ remote' \in [Id -> Remote \cup {Nil}]
        /\ \A i \in Id : remote'[i] = remote[i] \/ remote'[i] = Nil
    BY DEF DeleteDnsRecord, IInv, TypeInv, TypeOK
  <2>. QED BY <2>1, ShrinkFrame
<1>2. ObjectsInv'
  BY <1>1, ObjectsKept DEF DeleteDnsRecord, clusterVars
<1>3. pc' = "release" /\ cur' = cur /\ rec' = rec /\ Keeps(cur, rec)
  BY DEF DeleteDnsRecord, Goto, IInv, WorkerInv
<1>4. rec.status.id # Nil => OwnRecord(rec.status.id, rec.spec)'
  BY <1>1, <1>3, OwnFrame DEF Keeps, OwnRecord
<1>5. WorkerInv'
  BY <1>3, <1>4 DEF WorkerInv, Keeps, AfterResolve, AfterAnswer
<1>. QED BY <1>1, <1>2, <1>5 DEF IInv

\* The list before the create found nothing, and the id is a new one.
LEMMA CreateIInv == ASSUME IInv, TypeInv', CreateDnsRecord PROVE IInv'
<1>. PICK i : i = FreshId
  OBVIOUS
<1>. DEFINE n == [zone |-> rec.spec.zone, key |-> want.key, content |-> want.content, opts |-> want.opts]
<1>1. i \in Id /\ i \notin issued /\ remote[i] = Nil
  BY DEF CreateDnsRecord, FreshId, IInv, TypeInv, TypeOK, IssuedOnce
<1>2. /\ issued' = issued \cup {i} /\ remote' = [remote EXCEPT ![i] = n]
      /\ pc' = "recordId" /\ cur' = cur /\ rec' = rec /\ want' = want /\ res'.id = i
      /\ obj' = obj /\ cache' = cache
  BY DEF CreateDnsRecord, Goto, clusterVars
<1>3. want.key = rec.spec.key /\ Listed(rec) = {} /\ Keeps(cur, rec)
  BY DEF CreateDnsRecord, IInv, WorkerInv, AfterResolve
<1>4. SameRecord(n, rec.spec)
  BY <1>3 DEF SameRecord
<1>5. remote' \in [Id -> Remote \cup {Nil}] /\ remote'[i] = n /\ \A j \in Id \ {i} : remote'[j] = remote[j]
  BY <1>1, <1>2 DEF IInv, TypeInv, TypeOK
<1>. HIDE DEF n
<1>6. RemoteFrame
  BY <1>1, <1>2, <1>5 DEF RemoteFrame, SameRecord, IInv, TypeInv, TypeOK
<1>7. IssuedOnce'
  BY <1>2, <1>5 DEF IInv, IssuedOnce
<1>8. ASSUME NEW j \in Id \ {i}, remote[j] # Nil PROVE ~SameRecord(remote[j], n)
  BY <1>3, <1>4, <1>8 DEF SameRecord, Listed, Found
<1>9. NoDuplicateRecords'
  BY <1>1, <1>5, <1>8 DEF IInv, NoDuplicateRecords, SameRecord
<1>10. ObjectsInv'
  BY <1>2, <1>6, ObjectsKept
<1>11. rec.status.id # Nil => OwnRecord(rec.status.id, rec.spec)'
  BY <1>2, <1>3, <1>6, OwnFrame DEF Keeps, OwnRecord
<1>12. OwnRecord(i, rec.spec)'
  BY <1>1, <1>2, <1>4, <1>5 DEF OwnRecord, SameRecord
<1>13. WorkerInv'
  BY <1>1, <1>2, <1>3, <1>11, <1>12 DEF WorkerInv, Keeps, AfterResolve, AfterAnswer, OwnRecord
<1>. QED BY <1>7, <1>9, <1>10, <1>13 DEF IInv

\* An update writes the zone, name and type that the record has already.
LEMMA UpdateIInv == ASSUME IInv, TypeInv', UpdateDnsRecord PROVE IInv'
<1>. PICK i : i = rec.status.id
  OBVIOUS
<1>. DEFINE n == [zone |-> rec.spec.zone, key |-> want.key, content |-> want.content, opts |-> want.opts]
<1>1. i \in Id /\ remote[i] # Nil
  BY DEF UpdateDnsRecord, Found, IInv, TypeInv, LocalsOK, ById
<1>2. /\ issued' = issued /\ remote' = [remote EXCEPT ![i] = n]
      /\ pc' = "observeUpdate" /\ cur' = cur /\ rec' = rec /\ want' = want /\ res'.id = i
      /\ obj' = obj /\ cache' = cache
  BY DEF UpdateDnsRecord, Goto, clusterVars
<1>3. want.key = rec.spec.key /\ Keeps(cur, rec)
  BY DEF UpdateDnsRecord, IInv, WorkerInv, AfterResolve
<1>4. SameRecord(n, rec.spec)
  BY <1>3 DEF SameRecord
<1>5. i \in issued /\ SameRecord(remote[i], rec.spec)
  BY <1>1, <1>3 DEF Keeps, OwnRecord
<1>6. remote' \in [Id -> Remote \cup {Nil}] /\ remote'[i] = n /\ \A j \in Id \ {i} : remote'[j] = remote[j]
  BY <1>1, <1>2 DEF IInv, TypeInv, TypeOK
<1>. HIDE DEF n
<1>7. RemoteFrame
  BY <1>1, <1>2, <1>4, <1>5, <1>6 DEF RemoteFrame, SameRecord, IInv, TypeInv, TypeOK
<1>8. IssuedOnce'
  BY <1>2, <1>5, <1>6 DEF IInv, IssuedOnce
<1>9. NoDuplicateRecords'
  BY <1>1, <1>4, <1>5, <1>6 DEF IInv, NoDuplicateRecords, SameRecord
<1>10. ObjectsInv'
  BY <1>2, <1>7, ObjectsKept
<1>11. OwnRecord(i, rec.spec)'
  BY <1>2, <1>4, <1>5, <1>6 DEF OwnRecord, SameRecord
<1>12. WorkerInv'
  BY <1>1, <1>2, <1>3, <1>11 DEF WorkerInv, Keeps, AfterResolve, AfterAnswer, OwnRecord
<1>. QED BY <1>8, <1>9, <1>10, <1>12 DEF IInv

LEMMA OtherStepIInv ==
  ASSUME FixedKeys, IInv, TypeInv', [(\E c \in CR : ReconcileGone(c) \/ Reconcile(c) \/ Sync(c))
                          \/ CallFails \/ Restart \/ Environment]_vars
  PROVE  IInv'
<1>. USE DEF AfterResolve, AfterAnswer
<1>1. ASSUME UNCHANGED <<remoteVars, workerVars>>, ObjectsInv' PROVE IInv'
  <2>1. RemoteFrame /\ IssuedOnce' /\ NoDuplicateRecords'
    BY <1>1, SameFrame
  <2>2. WorkerInv'
    BY <1>1 DEF remoteVars, workerVars, IInv, WorkerInv, Keeps, OwnRecord, Listed, Found
  <2>. QED BY <1>1, <2>1, <2>2 DEF IInv
<1>2. ASSUME UNCHANGED <<obj, cache, remoteVars>> PROVE ObjectsInv' /\ IssuedOnce' /\ NoDuplicateRecords'
  BY <1>2, SameFrame, ObjectsKept DEF remoteVars
<1>3. ASSUME NEW c \in CR, ReconcileGone(c) PROVE IInv'
  BY <1>1, <1>2, <1>3 DEF ReconcileGone
<1>4. ASSUME NEW c \in CR, Reconcile(c) PROVE IInv'
  <2>1. Keeps(c, cache[c]) /\ cache[c] \in Object
    BY <1>4 DEF Reconcile, IInv, ObjectsInv, CopyOK, TypeInv, TypeOK
  <2>2. Dispatch(cache[c]) \in {"release", "adopter", "addFinalizer", "resolve"}
    BY <2>1 DEF Dispatch, Object
  <2>3. WorkerInv'
    BY <1>4, <2>1, <2>2 DEF Reconcile, WorkerInv, Keeps, OwnRecord, remoteVars
  <2>. QED BY <1>2, <1>4, <2>3 DEF Reconcile, IInv
<1>5. ASSUME NEW c \in CR, Sync(c) PROVE IInv'
  <2>1. ObjectsInv'
    BY <1>5 DEF Sync, remoteVars, IInv, ObjectsInv, CopyOK, Keeps, OwnRecord, TypeInv, TypeOK
  <2>. QED BY <1>1, <1>5, <2>1 DEF Sync
<1>6. CASE CallFails
  BY <1>2, <1>6, WorkerReturns DEF CallFails, IInv
<1>7. CASE Restart
  <2>1. ObjectsInv'
    BY <1>7 DEF Restart, remoteVars, IInv, ObjectsInv, CopyOK, Keeps, OwnRecord
  <2>2. WorkerInv'
    BY <1>7, WorkerReturns DEF Restart
  <2>. QED BY <1>7, <2>1, <2>2, SameFrame DEF Restart, IInv
<1>8. ASSUME NEW c \in CR, UserDeletes(c) PROVE IInv'
  <2>. DEFINE n == IF obj[c].fin THEN [obj[c] EXCEPT !.deleting = TRUE] ELSE Nil
  <2>1. obj[c] \in Object /\ Keeps(c, obj[c])
    BY <1>8 DEF UserDeletes, IInv, TypeInv, TypeOK, ObjectsInv, CopyOK
  <2>2. CopyOK(c, n)
    BY <2>1 DEF CopyOK, Keeps, Object
  <2>3. Write(c, n) /\ cache' = cache /\ UNCHANGED <<remoteVars, workerVars>>
    BY <1>8 DEF UserDeletes
  <2>. HIDE DEF n
  <2>. QED BY <1>1, <2>2, <2>3, SameFrame, ObjectWritten
<1>9. ASSUME NEW c \in CR, NEW s \in SpecsOf[c], UserCreates(c, s) PROVE IInv'
  <2>. DEFINE n == [deleting |-> FALSE, fin |-> FALSE, spec |-> s, status |-> NoStatus]
  <2>1. CopyOK(c, n)
    BY DEF CopyOK, Keeps, NoStatus, ForRecordOf, SameRecord
  <2>2. Write(c, n) /\ cache' = cache /\ UNCHANGED <<remoteVars, workerVars>>
    BY <1>9 DEF UserCreates
  <2>. HIDE DEF n
  <2>. QED BY <1>1, <2>1, <2>2, SameFrame, ObjectWritten
<1>10. ASSUME NEW c \in CR, NEW s \in SpecsOf[c], UserEdits(c, s) PROVE IInv'
  <2>. DEFINE n == [obj[c] EXCEPT !.spec = s]
  <2>1. obj[c] \in Object /\ Keeps(c, obj[c])
    BY <1>10 DEF UserEdits, IInv, TypeInv, TypeOK, ObjectsInv, CopyOK
  <2>2. n.spec = s /\ n.status = obj[c].status /\ SameRecord(obj[c].spec, s)
    <3>1. ForRecordOf(c, s)
      BY <1>10 DEF ForRecordOf, SameRecord
    <3>2. SameRecord(obj[c].spec, s)
      BY <1>10, <2>1, <3>1, OneRecord DEF Keeps
    <3>. QED BY <2>1, <3>2 DEF Object
  <2>3. CopyOK(c, n)
    BY <1>10, <2>1, <2>2, OwnTransfer DEF CopyOK, Keeps, ForRecordOf, SameRecord
  <2>4. Write(c, n) /\ cache' = cache /\ UNCHANGED <<remoteVars, workerVars>>
    BY <1>10 DEF UserEdits
  <2>. HIDE DEF n
  <2>. QED BY <1>1, <2>3, <2>4, SameFrame, ObjectWritten
<1>11. ASSUME NEW t \in Target \cup {Nil}, TunnelChanges(t) PROVE IInv'
  BY <1>1, <1>2, <1>11 DEF TunnelChanges
<1>12. ASSUME NEW i \in Id, RemovedUpstream(i) PROVE IInv'
  <2>1. issued' = issued /\ remote' \in [Id -> Remote \cup {Nil}]
        /\ \A j \in Id : remote'[j] = remote[j] \/ remote'[j] = Nil
    BY <1>12 DEF RemovedUpstream, IInv, TypeInv, TypeOK
  <2>2. RemoteFrame /\ IssuedOnce' /\ NoDuplicateRecords'
    BY <2>1, ShrinkFrame
  <2>3. ObjectsInv'
    BY <1>12, <2>2, ObjectsKept DEF RemovedUpstream, clusterVars
  <2>4. pc' = pc /\ cur' = cur /\ rec' = rec /\ want' = want /\ res' = res
    BY <1>12 DEF RemovedUpstream, workerVars
  <2>5. pc # "idle" => Keeps(cur, rec)'
    BY <2>2, <2>4, OwnFrame DEF IInv, WorkerInv, Keeps, OwnRecord
  <2>6. pc \in AfterAnswer => OwnRecord(res.id, rec.spec)'
    BY <2>2, <2>4, OwnFrame DEF IInv, WorkerInv, OwnRecord
  <2>7. pc = "create" => Listed(rec)' = {}
    BY <2>1, <2>4 DEF IInv, WorkerInv, Listed, Found
  <2>8. WorkerInv'
    BY <2>4, <2>5, <2>6, <2>7 DEF IInv, WorkerInv
  <2>. QED BY <2>2, <2>3, <2>8 DEF IInv
<1>13. CASE UNCHANGED vars
  BY <1>1, <1>2, <1>13 DEF vars, remoteVars, workerVars
<1>. QED BY <1>3, <1>4, <1>5, <1>6, <1>7, <1>8, <1>9, <1>10, <1>11, <1>12, <1>13 DEF Environment

LEMMA InductiveIInv == ASSUME FixedKeys PROVE IInv /\ [Next]_vars => IInv'
<1>. SUFFICES ASSUME IInv, [Next]_vars PROVE IInv'
  OBVIOUS
<1>1. TypeInv'
  BY ReconcileStepType, OtherStepType DEF IInv, Next
<1>2. CASE ReconcileStep
  BY <1>1, <1>2, ReadOrPatchIInv, DeleteIInv, CreateIInv, UpdateIInv DEF ReconcileStep, ReadOrPatch
<1>3. CASE ~ReconcileStep
  BY <1>1, <1>3, OtherStepIInv DEF Next
<1>. QED BY <1>2, <1>3

(***************************************************************************)
(* As long as the zone, name and type of each object's record stay the     *)
(* same, and the zones held no duplicates before, listing before creating  *)
(* keeps every zone free of duplicates: for any number of objects, however *)
(* far the cache lags, whichever calls fail and whenever the operator      *)
(* restarts.                                                               *)
(***************************************************************************)
THEOREM NoDuplicates == ASSUME FixedKeys, UniqueBefore PROVE Spec => []NoDuplicateRecords
<1>1. Init => IInv
  BY InitIInv
<1>2. IInv /\ [Next]_vars => IInv'
  BY InductiveIInv
<1>3. IInv => NoDuplicateRecords
  BY DEF IInv
<1>. QED BY <1>1, <1>2, <1>3, PTL DEF Spec

(***************************************************************************)
(* Under the same assumptions no copy of a status, at the API server, in   *)
(* the cache or in Reconcile's hands, ever names somebody else's record.   *)
(***************************************************************************)
THEOREM TracksOwn == ASSUME FixedKeys, UniqueBefore PROVE Spec => []TracksOwnRecord
<1>1. Init => IInv
  BY InitIInv
<1>2. IInv /\ [Next]_vars => IInv'
  BY InductiveIInv
<1>3. IInv => TracksOwnRecord
  BY DEF IInv, ObjectsInv, WorkerInv, CopyOK, Keeps, TracksOwnRecord, Owns
<1>. QED BY <1>1, <1>2, <1>3, PTL DEF Spec

-----------------------------------------------------------------------------
(* The finalizer *)

Secured(o) == o # Nil /\ o.fin

\* Copy o does not hold a finalizer that is still needed.
Yielding(o) == o # Nil /\ o.fin => o.deleting

Served == {"resolve", "list", "create", "recordId", "refresh", "forget", "observe", "update", "observeUpdate"}

\* What an old copy says of the object: one with the finalizer still has it, one
\* under deletion was not followed by another that has it.
CopyHeld(c) ==
  cache[c] # Nil => /\ cache[c].deleting => Yielding(obj[c])
                    /\ cache[c].fin /\ ~cache[c].deleting => Secured(obj[c])

HeldInv ==
  /\ \A c \in CR : obj[c] # Nil /\ obj[c].deleting => obj[c].fin
  /\ \A c \in CR : CopyHeld(c)
  /\ pc \in Served => Secured(obj[cur])
  /\ pc \in {"adopter", "delete", "release"} => Yielding(obj[cur]) /\ Yielding(cache[cur])
  /\ pc = "addFinalizer" /\ cache[cur] # Nil /\ cache[cur].deleting
       => obj[cur] # Nil /\ obj[cur].deleting

\* Steps that neither touch the cache nor any object's finalizer and deletion mark.
LEMMA HeldFrame ==
  ASSUME TypeInv, HeldInv, cache' = cache,
         \A c \in CR : \/ obj'[c] = obj[c]
                       \/ /\ obj[c] # Nil /\ obj'[c] # Nil
                          /\ obj'[c].fin = obj[c].fin /\ obj'[c].deleting = obj[c].deleting,
         \/ pc' = "idle"
         \/ pc' = pc /\ cur' = cur
         \/ cur' = cur /\ pc \in Served /\ pc' \in Served
         \/ cur' = cur /\ {pc, pc'} \subseteq {"adopter", "delete", "release"}
  PROVE  HeldInv'
<1>. USE DEF HeldInv, CopyHeld, Secured, Yielding, Served, TypeInv, LocalsOK
<1>1. pc # "idle" => cur \in CR
  OBVIOUS
<1>. QED BY <1>1

LEMMA PatchedMarks ==
  ASSUME TypeInv, pc # "idle", obj[cur] # Nil, NEW s \in Status
  PROVE  /\ Patched(s) # Nil
         /\ Patched(s).fin = obj[cur].fin /\ Patched(s).deleting = obj[cur].deleting
<1>1. obj[cur] \in Object
  BY DEF TypeInv, TypeOK, LocalsOK
<1>2. Patched(s) \in Object
  BY PatchedType
<1>. QED BY <1>1, <1>2, NilAssumption DEF Patched, Object

LEMMA ReconcileStepHeld == ASSUME TypeInv, HeldInv, ReconcileStep PROVE HeldInv'
<1>. USE DEF Served
<1>1. CASE LookForAdopter \/ DeleteDnsRecord
  BY <1>1, HeldFrame DEF LookForAdopter, DeleteDnsRecord, Goto, clusterVars
<1>2. CASE ReleaseDnsRecord
  <2>1. cur \in CR /\ Yielding(obj[cur]) /\ Yielding(cache[cur])
    BY <1>2 DEF ReleaseDnsRecord, TypeInv, LocalsOK, HeldInv
  <2>2. obj \in [CR -> Object \cup {Nil}]
    BY DEF TypeInv, TypeOK
  <2>3. pc' = "idle" /\ cache' = cache
    BY <1>2 DEF ReleaseDnsRecord, Return
  <2>4. /\ \A c \in CR \ {cur} : obj'[c] = obj[c]
        /\ obj'[cur] \in {obj[cur], Nil, [obj[cur] EXCEPT !.fin = FALSE]}
        /\ obj'[cur] = [obj[cur] EXCEPT !.fin = FALSE] => obj'[cur] = obj[cur] \/ obj'[cur] = Nil \/ (obj[cur] # Nil /\ ~obj[cur].deleting)
    BY <1>2, <2>1, <2>2 DEF ReleaseDnsRecord, Write
  <2>5. obj'[cur] = obj[cur] \/ obj'[cur] = Nil
    <3>1. CASE obj'[cur] = [obj[cur] EXCEPT !.fin = FALSE] /\ obj[cur] # Nil /\ ~obj[cur].deleting
      <4>1. obj[cur] \in Object /\ obj[cur].fin = FALSE
        BY <2>1, <2>2, <3>1 DEF Yielding, Object
      <4>. QED BY <3>1, <4>1 DEF Object
    <3>. QED BY <2>4, <3>1
  <2>. QED BY <2>1, <2>3, <2>4, <2>5 DEF HeldInv, CopyHeld, Yielding, Secured
<1>3. CASE AddFinalizer
  <2>1. cur \in CR /\ obj[cur] \in Object /\ obj \in [CR -> Object \cup {Nil}]
    BY <1>3 DEF AddFinalizer, TypeInv, TypeOK, LocalsOK
  <2>2. [obj[cur] EXCEPT !.fin = TRUE] \in Object
    BY <2>1 DEF Object
  <2>3. /\ \A c \in CR \ {cur} : obj'[c] = obj[c]
        /\ obj'[cur] # Nil /\ obj'[cur].fin /\ obj'[cur].deleting = obj[cur].deleting
    BY <1>3, <2>1, <2>2, NilAssumption DEF AddFinalizer, Write, Object
  <2>4. pc' = "resolve" /\ cur' = cur /\ cache' = cache /\ pc = "addFinalizer"
    BY <1>3 DEF AddFinalizer, Goto
  <2>. QED BY <2>1, <2>3, <2>4 DEF HeldInv, CopyHeld, Yielding, Secured
<1>4. CASE AddFinalizerGone \/ ResolveWaits \/ ListAmbiguous \/ UpdateDnsRecordGone
  BY <1>4, HeldFrame DEF AddFinalizerGone, ResolveWaits, ListAmbiguous, UpdateDnsRecordGone, Return
<1>5. CASE Resolve \/ ListDnsRecords \/ AdoptDnsRecord \/ CreateDnsRecord
           \/ GetDnsRecord \/ GetDnsRecordGone \/ UpdateDnsRecord
  <2>1. cache' = cache /\ obj' = obj /\ cur' = cur /\ pc \in Served /\ pc' \in Served
    BY <1>5 DEF Resolve, ListDnsRecords, AdoptDnsRecord, CreateDnsRecord, GetDnsRecord, GetDnsRecordGone,
                UpdateDnsRecord, Goto, clusterVars
  <2>. QED BY <2>1, HeldFrame
<1>6. CASE RecordId \/ ForgetId \/ Observe \/ ObserveUpdate
  <2>1. PICK s \in Status : Write(cur, Patched(s))
    <3>1. res \in Status \/ ForgetId
      BY <1>6 DEF RecordId, Observe, ObserveUpdate, TypeInv, LocalsOK, AfterAnswer
    <3>2. rec.status \in Status
      BY <1>6 DEF RecordId, ForgetId, Observe, ObserveUpdate, TypeInv, LocalsOK, Object
    <3>3. [rec.status EXCEPT !.id = Nil] \in Status
      BY <3>2 DEF Status
    <3>. QED BY <1>6, <3>1, <3>3 DEF RecordId, ForgetId, Observe, ObserveUpdate
  <2>2. pc # "idle" /\ cur \in CR /\ obj[cur] # Nil /\ obj \in [CR -> Object \cup {Nil}]
    BY <1>6 DEF RecordId, ForgetId, Observe, ObserveUpdate, TypeInv, TypeOK, LocalsOK
  <2>3. /\ \A c \in CR \ {cur} : obj'[c] = obj[c]
        /\ obj'[cur] # Nil /\ obj'[cur].fin = obj[cur].fin /\ obj'[cur].deleting = obj[cur].deleting
    BY <2>1, <2>2, PatchedMarks DEF Write
  <2>4. cache' = cache /\ (pc' = "idle" \/ (cur' = cur /\ pc \in Served /\ pc' \in Served))
    BY <1>6 DEF RecordId, ForgetId, Observe, ObserveUpdate, Return, Goto
  <2>. QED BY <2>2, <2>3, <2>4, HeldFrame
<1>. QED BY <1>1, <1>2, <1>3, <1>4, <1>5, <1>6 DEF ReconcileStep

LEMMA OtherStepHeld ==
  ASSUME TypeInv, HeldInv, [(\E c \in CR : ReconcileGone(c) \/ Reconcile(c) \/ Sync(c))
                            \/ CallFails \/ Restart \/ Environment]_vars
  PROVE  HeldInv'
<1>1. ASSUME NEW c \in CR, ReconcileGone(c) PROVE HeldInv'
  BY <1>1, HeldFrame DEF ReconcileGone, workerVars
<1>2. ASSUME NEW c \in CR, Reconcile(c) PROVE HeldInv'
  <2>1. cache[c] \in Object
    BY <1>2 DEF Reconcile, TypeInv, TypeOK
  <2>2. /\ cur' = c /\ pc' = Dispatch(cache[c]) /\ obj' = obj /\ cache' = cache
    BY <1>2 DEF Reconcile
  <2>3. \/ cache[c].deleting /\ pc' \in {"release", "adopter"}
        \/ ~cache[c].deleting /\ pc' = "addFinalizer"
        \/ ~cache[c].deleting /\ cache[c].fin /\ pc' = "resolve"
    BY <2>1, <2>2 DEF Dispatch, Object
  <2>4. cache[c] # Nil /\ CopyHeld(c)
    BY <1>2 DEF Reconcile, HeldInv
  <2>5. CASE cache[c].deleting /\ pc' \in {"release", "adopter"}
    BY <2>2, <2>4, <2>5 DEF HeldInv, CopyHeld, Yielding, Secured, Served
  <2>6. CASE ~cache[c].deleting /\ pc' = "addFinalizer"
    BY <2>2, <2>6 DEF HeldInv, CopyHeld, Yielding, Secured, Served
  <2>7. CASE ~cache[c].deleting /\ cache[c].fin /\ pc' = "resolve"
    BY <2>2, <2>4, <2>7 DEF HeldInv, CopyHeld, Yielding, Secured, Served
  <2>. QED BY <2>3, <2>5, <2>6, <2>7
<1>3. ASSUME NEW c \in CR, Sync(c) PROVE HeldInv'
  <2>1. /\ obj' = obj /\ pc' = pc /\ cur' = cur
        /\ cache'[c] = obj[c] /\ \A d \in CR \ {c} : cache'[d] = cache[d]
    BY <1>3 DEF Sync, TypeInv, TypeOK, workerVars
  <2>2. pc # "idle" => cur \in CR
    BY DEF TypeInv, LocalsOK
  <2>. QED BY <2>1, <2>2 DEF HeldInv, CopyHeld, Yielding, Secured, Served
<1>4. CASE CallFails
  BY <1>4, HeldFrame DEF CallFails, Return
<1>5. CASE Restart
  BY <1>5 DEF Restart, Return, HeldInv, CopyHeld, Yielding, Secured, Served
<1>6. ASSUME NEW c \in CR, UserDeletes(c) PROVE HeldInv'
  <2>1. obj[c] \in Object /\ ~obj[c].deleting
    BY <1>6 DEF UserDeletes, TypeInv, TypeOK
  <2>2. /\ pc' = pc /\ cur' = cur /\ cache' = cache
        /\ \A d \in CR \ {c} : obj'[d] = obj[d]
        /\ IF obj[c].fin THEN obj'[c] = [obj[c] EXCEPT !.deleting = TRUE] ELSE obj'[c] = Nil
    BY <1>6 DEF UserDeletes, Write, TypeInv, TypeOK, workerVars
  <2>3. pc # "idle" => cur \in CR
    BY DEF TypeInv, LocalsOK
  <2>4. CASE obj[c].fin
    <3>1. [obj[c] EXCEPT !.deleting = TRUE] \in Object
      BY <2>1 DEF Object
    <3>2. obj'[c] # Nil /\ obj'[c].fin /\ obj'[c].deleting
      BY <2>1, <2>2, <2>4, <3>1, NilAssumption DEF Object
    <3>. QED BY <2>1, <2>2, <2>3, <2>4, <3>2 DEF HeldInv, CopyHeld, Yielding, Secured, Served
  <2>5. CASE ~obj[c].fin
    BY <2>1, <2>2, <2>3, <2>5 DEF HeldInv, CopyHeld, Yielding, Secured, Served
  <2>. QED BY <2>4, <2>5
<1>7. ASSUME NEW c \in CR, NEW s \in SpecsOf[c], UserCreates(c, s) PROVE HeldInv'
  <2>1. /\ pc' = pc /\ cur' = cur /\ cache' = cache /\ obj[c] = Nil
        /\ \A d \in CR \ {c} : obj'[d] = obj[d]
        /\ ~obj'[c].fin /\ ~obj'[c].deleting
    BY <1>7 DEF UserCreates, Write, TypeInv, TypeOK, workerVars
  <2>2. pc # "idle" => cur \in CR
    BY DEF TypeInv, LocalsOK
  <2>. QED BY <2>1, <2>2 DEF HeldInv, CopyHeld, Yielding, Secured, Served
<1>8. ASSUME NEW c \in CR, NEW s \in SpecsOf[c], UserEdits(c, s) PROVE HeldInv'
  <2>1. obj[c] \in Object
    BY <1>8 DEF UserEdits, TypeInv, TypeOK
  <2>2. [obj[c] EXCEPT !.spec = s] \in Object
    BY <2>1 DEF Object
  <2>3. /\ pc' = pc /\ cur' = cur /\ cache' = cache
        /\ \A d \in CR \ {c} : obj'[d] = obj[d]
        /\ obj'[c] # Nil /\ obj'[c].fin = obj[c].fin /\ obj'[c].deleting = obj[c].deleting
    BY <1>8, <2>1, <2>2, NilAssumption DEF UserEdits, Write, TypeInv, TypeOK, workerVars, Object
  <2>4. obj[c] # Nil
    BY <1>8 DEF UserEdits
  <2>. QED BY <2>3, <2>4, HeldFrame
<1>9. ASSUME NEW t \in Target \cup {Nil}, TunnelChanges(t) PROVE HeldInv'
  BY <1>9, HeldFrame DEF TunnelChanges, workerVars
<1>10. ASSUME NEW i \in Id, RemovedUpstream(i) PROVE HeldInv'
  BY <1>10, HeldFrame DEF RemovedUpstream, clusterVars, workerVars
<1>11. CASE UNCHANGED vars
  BY <1>11, HeldFrame DEF vars
<1>. QED BY <1>1, <1>2, <1>3, <1>4, <1>5, <1>6, <1>7, <1>8, <1>9, <1>10, <1>11 DEF Environment

(***************************************************************************)
(* The finalizer holds every object while Reconcile serves it, without any *)
(* assumption on specs: the argument is that only the worker drops a       *)
(* finalizer, and that the cache never goes back to an older version.      *)
(***************************************************************************)
THEOREM Held == Spec => []HeldWhileServed
<1>1. Init => TypeInv /\ HeldInv
  BY InitType DEF Init, HeldInv, CopyHeld, Served
<1>2. TypeInv /\ HeldInv /\ [Next]_vars => (TypeInv /\ HeldInv)'
  BY ReconcileStepType, OtherStepType, ReconcileStepHeld, OtherStepHeld DEF Next
<1>3. HeldInv => HeldWhileServed
  BY DEF HeldInv, HeldWhileServed, Secured, Served
<1>. QED BY <1>1, <1>2, <1>3, PTL DEF Spec

-----------------------------------------------------------------------------
(* Going without leaving a record behind *)

\* A copy of object c has one of c's specs, and its id came after its finalizer.
Says(c, o) == o # Nil => o.spec \in SpecsOf[c] /\ (o.status.id # Nil => o.fin)

CopiesInv == \A c \in CR : Says(c, obj[c]) /\ Says(c, cache[c])

\* Only an object under deletion gets to the deletion of its record.  Once that is
\* behind, the record is gone or another object with a finalizer asks for it.
ReleaseInv ==
  /\ pc \in {"adopter", "delete"} => rec.deleting
  /\ pc = "release" /\ rec.status.id # Nil =>
       \/ remote[rec.status.id] = Nil
       \/ \E d \in CR \ {cur} : Secured(obj[d]) /\ SameRecord(obj[d].spec, rec.spec)

LEMMA CopyWritten ==
  ASSUME TypeInv, CopiesInv, cache' = cache, NEW c \in CR, NEW o, Write(c, o), Says(c, o)
  PROVE  CopiesInv'
<1>1. obj' = [obj EXCEPT ![c] = o] /\ obj \in [CR -> Object \cup {Nil}]
  BY DEF Write, TypeInv, TypeOK
<1>2. ASSUME NEW d \in CR PROVE Says(d, obj'[d])
  BY <1>1 DEF CopiesInv
<1>. QED BY <1>2 DEF CopiesInv

\* The patches of the status, and the status they write.
StatusPatch == RecordId \/ ForgetId \/ Observe \/ ObserveUpdate

LEMMA StatusPatched ==
  ASSUME TypeInv, StatusPatch
  PROVE  /\ cur \in CR /\ rec \in Object /\ obj[cur] \in Object /\ pc \in Served \ {"resolve"}
         /\ \E s \in Status : /\ Write(cur, Patched(s)) /\ s = IF pc = "forget" THEN [rec.status EXCEPT !.id = Nil] ELSE res
                              /\ Patched(s) \in Object /\ Patched(s) # Nil
                              /\ Patched(s).spec = obj[cur].spec
                              /\ Patched(s).fin = obj[cur].fin /\ Patched(s).deleting = obj[cur].deleting
                              /\ Patched(s).status = Merged(obj[cur].status, rec.status, s)
         /\ cache' = cache /\ remote' = remote /\ issued' = issued /\ tunnel' = tunnel /\ spent' = spent
<1>1. cur \in CR /\ rec \in Object /\ obj[cur] \in Object /\ obj[cur] # Nil /\ pc # "idle" /\ pc \in Served \ {"resolve"}
  BY DEF StatusPatch, RecordId, ForgetId, Observe, ObserveUpdate, TypeInv, TypeOK, LocalsOK, Served
<1>. DEFINE s == IF pc = "forget" THEN [rec.status EXCEPT !.id = Nil] ELSE res
<1>2. rec.status \in Status /\ obj[cur].status \in Status
  BY <1>1 DEF Object
<1>3. [rec.status EXCEPT !.id = Nil] \in Status
  BY <1>2 DEF Status
<1>4. s \in Status
  BY <1>3 DEF StatusPatch, RecordId, ForgetId, Observe, ObserveUpdate, TypeInv, LocalsOK, AfterAnswer
<1>5. Write(cur, Patched(s))
  BY DEF StatusPatch, RecordId, ForgetId, Observe, ObserveUpdate
<1>6. cache' = cache /\ remote' = remote /\ issued' = issued /\ tunnel' = tunnel /\ spent' = spent
  BY DEF StatusPatch, RecordId, ForgetId, Observe, ObserveUpdate, remoteVars
<1>. HIDE DEF s
<1>7. Merged(obj[cur].status, rec.status, s) \in Status
  BY <1>2, <1>4, MergedType
<1>8. /\ Patched(s).spec = obj[cur].spec
      /\ Patched(s).status = Merged(obj[cur].status, rec.status, s)
  BY <1>1, <1>7, WithStatus DEF Patched
<1>9. Patched(s) \in Object /\ Patched(s) # Nil
      /\ Patched(s).fin = obj[cur].fin /\ Patched(s).deleting = obj[cur].deleting
  BY <1>1, <1>4, PatchedMarks, PatchedType
<1>. QED BY <1>1, <1>4, <1>5, <1>6, <1>8, <1>9 DEF s

\* The patch that drops the finalizer either removes the object or changes nothing.
LEMMA Released ==
  ASSUME TypeInv, HeldInv, ReleaseDnsRecord
  PROVE  /\ cur \in CR /\ \A c \in CR \ {cur} : obj'[c] = obj[c]
         /\ \/ obj' = obj /\ news' = news
            \/ obj[cur] # Nil /\ obj[cur].deleting /\ obj' = [obj EXCEPT ![cur] = Nil] /\ news' = news \cup {cur}
<1>. DEFINE o == obj[cur]
            n == CASE o = Nil \/ ~rec.fin                -> o
                   [] o # Nil /\ rec.fin /\ o.deleting  -> Nil
                   [] o # Nil /\ rec.fin /\ ~o.deleting -> [o EXCEPT !.fin = FALSE]
<1>1. cur \in CR /\ rec \in Object /\ o \in Object \cup {Nil} /\ Yielding(o) /\ obj \in [CR -> Object \cup {Nil}]
  BY DEF ReleaseDnsRecord, TypeInv, TypeOK, LocalsOK, HeldInv
<1>2. Write(cur, n)
  BY DEF ReleaseDnsRecord
<1>3. n = o \/ (o # Nil /\ o.deleting /\ n = Nil)
  <2>1. CASE o # Nil /\ rec.fin /\ ~o.deleting
    <3>1. o \in Object /\ o.fin = FALSE
      BY <1>1, <2>1 DEF Yielding, Object
    <3>2. [o EXCEPT !.fin = FALSE] = o
      BY <3>1 DEF Object
    <3>. QED BY <2>1, <3>2
  <2>2. CASE ~(o # Nil /\ rec.fin /\ ~o.deleting)
    BY <1>1, <2>2 DEF Object
  <2>. QED BY <2>1, <2>2
<1>4. obj' = [obj EXCEPT ![cur] = n] /\ news' = IF n = o THEN news ELSE news \cup {cur}
  BY <1>2 DEF Write
<1>. HIDE DEF n
<1>. QED BY <1>1, <1>3, <1>4

LEMMA ReconcileStepCopies == ASSUME TypeInv, HeldInv, CopiesInv, ReconcileStep PROVE CopiesInv'
<1>1. CASE StatusPatch
  <2>1. PICK s \in Status : /\ Write(cur, Patched(s)) /\ Patched(s).spec = obj[cur].spec /\ Patched(s).fin = obj[cur].fin
    BY <1>1, StatusPatched
  <2>2. cur \in CR /\ obj[cur] # Nil /\ obj[cur].fin /\ cache' = cache
    BY <1>1, StatusPatched DEF HeldInv, Secured
  <2>3. Says(cur, Patched(s))
    BY <2>1, <2>2 DEF CopiesInv, Says
  <2>. QED BY <2>1, <2>2, <2>3, CopyWritten
<1>2. CASE AddFinalizer
  <2>. DEFINE n == [obj[cur] EXCEPT !.fin = TRUE]
  <2>1. cur \in CR /\ obj[cur] \in Object /\ obj[cur] # Nil /\ Write(cur, n) /\ cache' = cache
    BY <1>2 DEF AddFinalizer, TypeInv, TypeOK, LocalsOK
  <2>2. Says(cur, n)
    BY <2>1 DEF CopiesInv, Says, Object
  <2>. HIDE DEF n
  <2>. QED BY <2>1, <2>2, CopyWritten
<1>3. CASE ReleaseDnsRecord
  <2>1. cache' = cache
    BY <1>3 DEF ReleaseDnsRecord
  <2>2. \A c \in CR : obj'[c] = obj[c] \/ obj'[c] = Nil
    BY <1>3, Released DEF TypeInv, TypeOK
  <2>. QED BY <2>1, <2>2 DEF CopiesInv, Says
<1>4. CASE UNCHANGED <<obj, cache>>
  BY <1>4 DEF CopiesInv, Says
<1>. QED
  BY <1>1, <1>2, <1>3, <1>4 DEF ReconcileStep, StatusPatch, LookForAdopter, DeleteDnsRecord, AddFinalizerGone,
     ResolveWaits, Resolve, ListDnsRecords, AdoptDnsRecord, ListAmbiguous, CreateDnsRecord,
     GetDnsRecord, GetDnsRecordGone, UpdateDnsRecord, UpdateDnsRecordGone, clusterVars

\* The steps that are not steps of Reconcile.
OtherStep == \/ \E c \in CR : ReconcileGone(c) \/ Reconcile(c) \/ Sync(c)
             \/ CallFails \/ Restart \/ Environment

LEMMA OtherStepWorker ==
  ASSUME [OtherStep]_vars
  PROVE  (\E c \in CR : Reconcile(c)) \/ pc' = "idle" \/ UNCHANGED workerVars
BY DEF OtherStep, Environment, ReconcileGone, Sync, CallFails, Restart, Return,
   UserDeletes, UserCreates, UserEdits, TunnelChanges, RemovedUpstream, vars, workerVars

LEMMA OtherStepCopies == ASSUME TypeInv, CopiesInv, [OtherStep]_vars PROVE CopiesInv'
<1>1. ASSUME NEW c \in CR, Sync(c) PROVE CopiesInv'
  <2>1. obj' = obj /\ cache' = [cache EXCEPT ![c] = obj[c]] /\ cache \in [CR -> Object \cup {Nil}]
    BY <1>1 DEF Sync, TypeInv, TypeOK
  <2>. QED BY <2>1 DEF CopiesInv
<1>2. CASE Restart
  BY <1>2 DEF Restart, CopiesInv
<1>3. ASSUME NEW c \in CR, UserDeletes(c) PROVE CopiesInv'
  <2>. DEFINE n == IF obj[c].fin THEN [obj[c] EXCEPT !.deleting = TRUE] ELSE Nil
  <2>1. obj[c] \in Object /\ obj[c] # Nil /\ Write(c, n) /\ cache' = cache
    BY <1>3 DEF UserDeletes, TypeInv, TypeOK
  <2>2. Says(c, n)
    BY <2>1 DEF CopiesInv, Says, Object
  <2>. HIDE DEF n
  <2>. QED BY <2>1, <2>2, CopyWritten
<1>4. ASSUME NEW c \in CR, NEW s \in SpecsOf[c], UserCreates(c, s) PROVE CopiesInv'
  <2>. DEFINE n == [deleting |-> FALSE, fin |-> FALSE, spec |-> s, status |-> NoStatus]
  <2>1. Write(c, n) /\ cache' = cache
    BY <1>4 DEF UserCreates
  <2>2. Says(c, n)
    BY DEF Says, NoStatus
  <2>. HIDE DEF n
  <2>. QED BY <2>1, <2>2, CopyWritten
<1>5. ASSUME NEW c \in CR, NEW s \in SpecsOf[c], UserEdits(c, s) PROVE CopiesInv'
  <2>. DEFINE n == [obj[c] EXCEPT !.spec = s]
  <2>1. obj[c] \in Object /\ obj[c] # Nil /\ Write(c, n) /\ cache' = cache
    BY <1>5 DEF UserEdits, TypeInv, TypeOK
  <2>2. Says(c, n)
    BY <2>1 DEF CopiesInv, Says, Object
  <2>. HIDE DEF n
  <2>. QED BY <2>1, <2>2, CopyWritten
<1>6. CASE UNCHANGED <<obj, cache>>
  BY <1>6 DEF CopiesInv, Says
<1>. QED
  BY <1>1, <1>2, <1>3, <1>4, <1>5, <1>6 DEF OtherStep, Environment, ReconcileGone, Reconcile, CallFails,
     TunnelChanges, RemovedUpstream, clusterVars, vars

\* A user's step never takes a finalizer away, nor the record it stands for.
SecuredStay == \A d \in CR : Secured(obj[d]) => obj'[d] # Nil /\ obj'[d].fin /\ SameRecord(obj'[d].spec, obj[d].spec)

LEMMA OtherStepSecured == ASSUME FixedKeys, TypeInv, CopiesInv, [OtherStep]_vars PROVE SecuredStay
<1>1. ASSUME NEW c \in CR, UserDeletes(c) PROVE SecuredStay
  <2>1. obj[c] \in Object /\ obj' = [obj EXCEPT ![c] = IF obj[c].fin THEN [obj[c] EXCEPT !.deleting = TRUE] ELSE Nil]
        /\ obj \in [CR -> Object \cup {Nil}]
    BY <1>1 DEF UserDeletes, Write, TypeInv, TypeOK
  <2>2. [obj[c] EXCEPT !.deleting = TRUE] \in Object
    BY <2>1 DEF Object
  <2>3. obj[c].fin => obj'[c] # Nil /\ obj'[c].fin /\ obj'[c].spec = obj[c].spec
    BY <2>1, <2>2, NilAssumption DEF Object
  <2>4. \A d \in CR \ {c} : obj'[d] = obj[d]
    BY <2>1
  <2>. QED BY <2>3, <2>4 DEF SecuredStay, Secured, SameRecord
<1>2. ASSUME NEW c \in CR, NEW s \in SpecsOf[c], UserCreates(c, s) PROVE SecuredStay
  <2>1. obj[c] = Nil /\ \A d \in CR \ {c} : obj'[d] = obj[d]
    BY <1>2 DEF UserCreates, Write, TypeInv, TypeOK
  <2>. QED BY <2>1 DEF SecuredStay, Secured, SameRecord
<1>3. ASSUME NEW c \in CR, NEW s \in SpecsOf[c], UserEdits(c, s) PROVE SecuredStay
  <2>1. obj[c] \in Object /\ obj[c] # Nil /\ obj' = [obj EXCEPT ![c] = [obj[c] EXCEPT !.spec = s]]
        /\ obj \in [CR -> Object \cup {Nil}]
    BY <1>3 DEF UserEdits, Write, TypeInv, TypeOK
  <2>2. [obj[c] EXCEPT !.spec = s] \in Object
    BY <2>1 DEF Object
  <2>3. obj'[c] # Nil /\ obj'[c].fin = obj[c].fin /\ obj'[c].spec = s
    BY <2>1, <2>2, NilAssumption DEF Object
  <2>4. SameRecord(s, obj[c].spec)
    BY <2>1 DEF FixedKeys, CopiesInv, Says
  <2>5. \A d \in CR \ {c} : obj'[d] = obj[d]
    BY <2>1
  <2>. QED BY <2>3, <2>4, <2>5 DEF SecuredStay, Secured, SameRecord
<1>4. CASE UNCHANGED obj
  BY <1>4 DEF SecuredStay, Secured, SameRecord
<1>. QED
  BY <1>1, <1>2, <1>3, <1>4 DEF OtherStep, Environment, ReconcileGone, Reconcile, Sync, CallFails, Restart,
     TunnelChanges, RemovedUpstream, clusterVars, vars

\* The calls on the way to the release of the finalizer.
Departing == {"adopter", "delete", "release"}

LEMMA ReconcileStepRelease ==
  ASSUME FixedKeys, IInv, HeldInv, CopiesInv, ReleaseInv, ReconcileStep
  PROVE  ReleaseInv'
<1>. USE DEF Departing
<1>1. CASE LookForAdopter
  <2>1. /\ pc = "adopter" /\ cur' = cur /\ rec' = rec /\ obj' = obj /\ remote' = remote
        /\ pc' = IF Adopters(cur, rec) = {} THEN "delete" ELSE "release"
    BY <1>1 DEF LookForAdopter, Goto, clusterVars, remoteVars
  <2>2. rec.deleting /\ rec.status.id \in Id /\ OwnRecord(rec.status.id, rec.spec)
    BY <2>1 DEF ReleaseInv, IInv, TypeInv, LocalsOK, ById, WorkerInv, Keeps
  <2>3. CASE Adopters(cur, rec) = {}
    BY <2>1, <2>2, <2>3 DEF ReleaseInv
  <2>4. CASE Adopters(cur, rec) # {}
    <3>1. PICK d \in CR \ {cur} : /\ cache[d] # Nil /\ ~cache[d].deleting
                                  /\ cache[d].status.id = rec.status.id
      BY <2>4 DEF Adopters
    <3>2. cache[d].fin /\ OwnRecord(rec.status.id, cache[d].spec) /\ ForRecordOf(d, cache[d].spec)
      BY <2>2, <3>1 DEF CopiesInv, Says, IInv, ObjectsInv, CopyOK, Keeps
    <3>3. Secured(obj[d]) /\ ForRecordOf(d, obj[d].spec)
      BY <3>1, <3>2 DEF HeldInv, CopyHeld, Secured, IInv, ObjectsInv, CopyOK, Keeps
    <3>4. SameRecord(obj[d].spec, cache[d].spec)
      BY <3>2, <3>3, OneRecord
    <3>5. remote[rec.status.id] # Nil => SameRecord(cache[d].spec, rec.spec)
      BY <2>2, <3>2 DEF OwnRecord, SameRecord
    <3>6. remote[rec.status.id] # Nil => SameRecord(obj[d].spec, rec.spec)
      BY <3>4, <3>5 DEF SameRecord
    <3>. QED BY <2>1, <2>2, <2>4, <3>3, <3>6 DEF ReleaseInv, Secured
  <2>. QED BY <2>3, <2>4
<1>2. CASE DeleteDnsRecord
  <2>1. /\ pc = "delete" /\ cur' = cur /\ rec' = rec /\ pc' = "release"
        /\ remote' = [remote EXCEPT ![rec.status.id] = IF Found(rec.status.id, rec.spec.zone) THEN Nil ELSE @]
    BY <1>2 DEF DeleteDnsRecord, Goto
  <2>2. rec.status.id \in Id /\ OwnRecord(rec.status.id, rec.spec) /\ remote \in [Id -> Remote \cup {Nil}]
    BY <2>1 DEF IInv, TypeInv, TypeOK, LocalsOK, ById, WorkerInv, Keeps
  <2>3. ~Found(rec.status.id, rec.spec.zone) => remote[rec.status.id] = Nil
    BY <2>2 DEF Found, OwnRecord, SameRecord
  <2>4. remote'[rec.status.id] = Nil
    BY <2>1, <2>2, <2>3
  <2>. QED BY <2>1, <2>4 DEF ReleaseInv
<1>3. CASE pc' \notin Departing
  BY <1>3 DEF ReleaseInv
<1>4. ASSUME ~LookForAdopter, ~DeleteDnsRecord PROVE pc' \notin Departing
  BY <1>4 DEF ReconcileStep, ReleaseDnsRecord, AddFinalizer, AddFinalizerGone,
     ResolveWaits, Resolve, ListDnsRecords, AdoptDnsRecord, ListAmbiguous, CreateDnsRecord, RecordId,
     GetDnsRecord, GetDnsRecordGone, ForgetId, Observe, UpdateDnsRecord, UpdateDnsRecordGone, ObserveUpdate, Goto, Return
<1>. QED BY <1>1, <1>2, <1>3, <1>4

LEMMA OtherStepRelease ==
  ASSUME FixedKeys, IInv, CopiesInv, ReleaseInv, [OtherStep]_vars
  PROVE  ReleaseInv'
<1>1. ASSUME NEW c \in CR, Reconcile(c) PROVE ReleaseInv'
  <2>1. cache[c] \in Object /\ rec' = cache[c] /\ pc' = Dispatch(cache[c])
    BY <1>1 DEF Reconcile, IInv, TypeInv, TypeOK
  <2>2. /\ pc' # "delete"
        /\ pc' = "adopter" => cache[c].deleting
        /\ pc' = "release" => cache[c].status.id = Nil
    BY <2>1 DEF Dispatch, Object
  <2>. QED BY <2>1, <2>2 DEF ReleaseInv
<1>2. CASE pc' = "idle"
  BY <1>2 DEF ReleaseInv
<1>3. CASE UNCHANGED workerVars
  <2>1. pc' = pc /\ cur' = cur /\ rec' = rec
    BY <1>3 DEF workerVars
  <2>2. SecuredStay
    BY OtherStepSecured DEF IInv
  <2>3. \A i \in Id : remote[i] = Nil => remote'[i] = Nil
    <3>1. ASSUME NEW i \in Id, RemovedUpstream(i) PROVE \A j \in Id : remote[j] = Nil => remote'[j] = Nil
      BY <3>1 DEF RemovedUpstream, IInv, TypeInv, TypeOK
    <3>2. CASE UNCHANGED remote
      BY <3>2
    <3>3. (\E i \in Id : RemovedUpstream(i)) \/ UNCHANGED remote
      BY DEF OtherStep, Environment, ReconcileGone, Reconcile, Sync, CallFails, Restart,
             UserDeletes, UserCreates, UserEdits, TunnelChanges, remoteVars, vars
    <3>. QED BY <3>1, <3>2, <3>3
  <2>4. pc = "release" /\ rec.status.id # Nil => rec.status.id \in Id
    BY DEF IInv, TypeInv, LocalsOK, Object, Status
  <2>5. \A d \in CR : Secured(obj[d]) /\ SameRecord(obj[d].spec, rec.spec)
                      => Secured(obj'[d]) /\ SameRecord(obj'[d].spec, rec.spec)
    BY <2>2 DEF SecuredStay, Secured, SameRecord
  <2>. QED BY <2>1, <2>3, <2>4, <2>5 DEF ReleaseInv, Secured
<1>. QED BY <1>1, <1>2, <1>3, OtherStepWorker

\* Everything that holds of the objects, their copies and their finalizers.
KInv == IInv /\ HeldInv /\ CopiesInv /\ ReleaseInv

LEMMA InitKInv == ASSUME UniqueBefore PROVE Init => KInv
<1>. SUFFICES ASSUME Init PROVE KInv
  OBVIOUS
<1>1. IInv
  BY InitIInv
<1>2. HeldInv /\ CopiesInv /\ ReleaseInv
  BY DEF Init, HeldInv, CopyHeld, Served, CopiesInv, Says, ReleaseInv
<1>. QED BY <1>1, <1>2 DEF KInv

LEMMA InductiveKInv == ASSUME FixedKeys PROVE KInv /\ [Next]_vars => KInv'
<1>. SUFFICES ASSUME KInv, [Next]_vars PROVE KInv'
  OBVIOUS
<1>1. IInv /\ TypeInv /\ HeldInv /\ CopiesInv /\ ReleaseInv
  BY DEF KInv, IInv
<1>2. IInv'
  BY <1>1, InductiveIInv
<1>3. CASE ReconcileStep
  BY <1>1, <1>2, <1>3, ReconcileStepHeld, ReconcileStepCopies, ReconcileStepRelease DEF KInv
<1>4. CASE [OtherStep]_vars
  BY <1>1, <1>2, <1>4, OtherStepHeld, OtherStepCopies, OtherStepRelease DEF KInv, OtherStep
<1>. QED BY <1>3, <1>4 DEF Next, OtherStep

(***************************************************************************)
(* For any number of objects that share records in any way, as long as     *)
(* zone, name and type of each object's record stay the same: an object    *)
(* never goes leaving the record of its status behind, unless an object    *)
(* that asks for that record is there at that very moment, although the    *)
(* adopter was found in a cache that lags behind, and may be under         *)
(* deletion by now.                                                        *)
(***************************************************************************)
THEOREM ReleasedClean == ASSUME FixedKeys, UniqueBefore PROVE Spec => CleanRelease
<1>. DEFINE Step ==
       \A c \in CR :
         (/\ pc = "release" /\ cur = c /\ obj[c] # Nil /\ obj'[c] = Nil
          /\ rec.status.id = obj[c].status.id /\ rec.spec.zone = obj[c].spec.zone
          /\ obj[c].status.id # Nil /\ Found(obj[c].status.id, obj[c].spec.zone))
         => \E d \in CR \ {c} : obj[d] # Nil /\ SameRecord(obj[d].spec, obj[c].spec)
<1>1. KInv => Step
  <2>. SUFFICES ASSUME KInv, pc = "release", NEW c \in CR, cur = c, obj[c] # Nil,
                       rec.status.id = obj[c].status.id, obj[c].status.id # Nil,
                       Found(obj[c].status.id, obj[c].spec.zone)
                PROVE  \E d \in CR \ {c} : obj[d] # Nil /\ SameRecord(obj[d].spec, obj[c].spec)
    OBVIOUS
  <2>1. remote[rec.status.id] # Nil
    BY DEF Found
  <2>2. PICK d \in CR \ {c} : Secured(obj[d]) /\ SameRecord(obj[d].spec, rec.spec)
    BY <2>1 DEF KInv, ReleaseInv
  <2>3. SameRecord(rec.spec, obj[c].spec)
    BY OneRecord DEF KInv, IInv, ObjectsInv, WorkerInv, CopyOK, Keeps
  <2>. QED BY <2>2, <2>3 DEF Secured, SameRecord
<1>2. Init => KInv
  BY InitKInv
<1>3. KInv /\ [Next]_vars => KInv'
  BY InductiveKInv
<1>4. KInv /\ [Next]_vars => [Step]_vars
  BY <1>1
<1>. QED BY <1>2, <1>3, <1>4, PTL DEF Spec, CleanRelease

-----------------------------------------------------------------------------
(* Convergence *)

\* The objects that Reconcile will get to see again.
Pending == queue \cup news

\* An object that is not pending is in the cache, and in Reconcile's hands, as it
\* is, and Reconcile writes what it asks for.
FreshInv ==
  /\ \A c \in CR : c \notin news => cache[c] = obj[c]
  /\ pc # "idle" /\ cur \notin Pending => rec = obj[cur]
  /\ pc \in AfterResolve /\ cur \notin Pending => want.content = Resolved(obj[cur].spec)

\* Every object that names the tunnel is pending.
TunnelTold == \A c \in CR : obj[c] # Nil /\ obj[c].spec.content = TunnelRef => c \in Pending

\* Content x is what spec s asks for, or was until the tunnel changed.
Asked(s, x) == IF s.content = TunnelRef THEN x \in Target ELSE x = s.content

AskInv ==
  /\ pc # "idle" => \E s \in SpecsOf[cur] : s.content = rec.spec.content
  /\ pc \in AfterResolve =>
       \E s \in SpecsOf[cur] : /\ Asked(s, want.content)
                               /\ s.content = TunnelRef => want.content = tunnel \/ TunnelTold

\* Nobody loses a record to a deletion without being pending.
DeleteInv ==
  pc = "delete" =>
    \A c \in CR \ {cur} : /\ obj[c] # Nil /\ ~obj[c].deleting
                          /\ obj[c].spec.zone = rec.spec.zone /\ obj[c].status.id = rec.status.id
                          => c \in Pending

\* What Cloudflare answered a get with is still so.
AnswerInv == pc = "observe" => /\ res.id = rec.status.id
                               /\ Found(res.id, rec.spec.zone) /\ res = Answer(res.id)

\* Object c must come to hold its record.
Due(c) == obj[c] # Nil /\ ~obj[c].deleting /\ Resolved(obj[c].spec) # Nil /\ Undisputed(c)

\* Reconcile is at object c and has not written its record yet.
InHand(c) == cur = c /\ pc \in ({"addFinalizer", "resolve"} \cup AfterResolve) \ {"observeUpdate"}

ConvergeInv == \A c \in CR : Due(c) => c \in Pending \/ Holds(c) \/ InHand(c)

ConvInv == spent["outside"] = 0 => AnswerInv /\ ConvergeInv

QInv == KInv /\ FreshInv /\ AskInv /\ DeleteInv /\ ConvInv

\* Calls that leave the objects and Reconcile's copy alone, and early returns.
CallOnly == \/ LookForAdopter \/ DeleteDnsRecord \/ Resolve \/ ListDnsRecords \/ AdoptDnsRecord
            \/ CreateDnsRecord \/ GetDnsRecord \/ GetDnsRecordGone \/ UpdateDnsRecord
GiveUp == AddFinalizerGone \/ ResolveWaits \/ ListAmbiguous \/ UpdateDnsRecordGone

LEMMA CallsOnly ==
  ASSUME CallOnly
  PROVE  /\ obj' = obj /\ cache' = cache /\ news' = news /\ queue' = queue
         /\ tunnel' = tunnel /\ spent' = spent /\ cur' = cur /\ rec' = rec /\ pc # "idle"
BY DEF CallOnly, LookForAdopter, DeleteDnsRecord, Resolve, ListDnsRecords, AdoptDnsRecord,
       CreateDnsRecord, GetDnsRecord, GetDnsRecordGone, UpdateDnsRecord, Goto, clusterVars

LEMMA GivesUp ==
  ASSUME GiveUp
  PROVE  /\ obj' = obj /\ cache' = cache /\ news' = news /\ queue \subseteq queue'
         /\ tunnel' = tunnel /\ spent' = spent /\ remote' = remote /\ pc' = "idle"
BY DEF GiveUp, AddFinalizerGone, ResolveWaits, ListAmbiguous, UpdateDnsRecordGone, Return, Requeued, remoteVars

LEMMA StepKinds == ReconcileStep <=> CallOnly \/ GiveUp \/ StatusPatch \/ AddFinalizer \/ ReleaseDnsRecord
BY DEF ReconcileStep, CallOnly, GiveUp, StatusPatch

LEMMA WriteNews ==
  ASSUME TypeInv, NEW c \in CR, NEW o, Write(c, o)
  PROVE  /\ news \subseteq news'
         /\ \A d \in CR : d \notin news' => obj'[d] = obj[d]
         /\ c \notin news' => o = obj[c]
BY DEF Write, TypeInv, TypeOK

LEMMA StatusPatchNext ==
  ASSUME StatusPatch
  PROVE  \/ pc' = "idle" /\ queue \subseteq queue'
         \/ /\ pc = "observe" /\ pc' = "update" /\ queue' = queue /\ cur' = cur /\ want' = want
            /\ rec' = Refreshed(obj'[cur])
BY DEF StatusPatch, RecordId, ForgetId, Observe, ObserveUpdate, Return, Requeued, Goto

\* An object leaves the pending ones only to be reconciled, or because it is gone.
Grows(c) == c \notin Pending' => obj'[c] = obj[c] /\ (c \notin Pending \/ obj[c] = Nil)

LEMMA ReconcileStepGrows == ASSUME TypeInv, HeldInv, ReconcileStep, NEW c \in CR PROVE Grows(c)
<1>. USE DEF Grows, Pending
<1>1. CASE CallOnly \/ GiveUp
  BY <1>1, CallsOnly, GivesUp
<1>2. CASE StatusPatch
  <2>1. \E s : Write(cur, Patched(s))
    BY <1>2, StatusPatched
  <2>2. cur \in CR /\ queue \subseteq queue'
    BY <1>2, StatusPatched, StatusPatchNext
  <2>. QED BY <2>1, <2>2, WriteNews
<1>3. CASE AddFinalizer
  <2>1. cur \in CR /\ queue' = queue /\ Write(cur, [obj[cur] EXCEPT !.fin = TRUE])
    BY <1>3 DEF AddFinalizer, TypeInv, LocalsOK
  <2>. QED BY <2>1, WriteNews
<1>4. CASE ReleaseDnsRecord
  <2>1. queue' = queue
    BY <1>4 DEF ReleaseDnsRecord, Return
  <2>2. news \subseteq news' /\ (obj' = obj \/ cur \in news') /\ \A d \in CR \ {cur} : obj'[d] = obj[d]
    BY <1>4, Released
  <2>. QED BY <2>1, <2>2
<1>. QED BY <1>1, <1>2, <1>3, <1>4, StepKinds

LEMMA OtherStepGrows ==
  ASSUME TypeInv, FreshInv, [OtherStep]_vars, NEW c \in CR, ~Reconcile(c)
  PROVE  Grows(c)
<1>. USE DEF Grows, Pending
<1>1. ASSUME NEW d \in CR, ReconcileGone(d) PROVE Grows(c)
  BY <1>1 DEF ReconcileGone, FreshInv
<1>2. ASSUME NEW d \in CR, Reconcile(d), d # c PROVE Grows(c)
  BY <1>2 DEF Reconcile
<1>3. ASSUME NEW d \in CR, Sync(d) PROVE Grows(c)
  BY <1>3 DEF Sync
<1>4. CASE Restart
  BY <1>4 DEF Restart, Return
<1>5. CASE CallFails
  BY <1>5 DEF CallFails, Return, Requeued
<1>6. ASSUME NEW d \in CR, NEW o, Write(d, o), queue' = queue PROVE Grows(c)
  BY <1>6, WriteNews
<1>7. ASSUME NEW d \in CR, NEW s \in SpecsOf[d], UserCreates(d, s) \/ UserEdits(d, s) PROVE Grows(c)
  BY <1>6, <1>7 DEF UserCreates, UserEdits
<1>8. ASSUME NEW d \in CR, UserDeletes(d) PROVE Grows(c)
  BY <1>6, <1>8 DEF UserDeletes
<1>9. ASSUME NEW t, TunnelChanges(t) PROVE Grows(c)
  BY <1>9 DEF TunnelChanges
<1>10. ASSUME NEW i, RemovedUpstream(i) PROVE Grows(c)
  BY <1>10 DEF RemovedUpstream, clusterVars
<1>11. CASE UNCHANGED vars
  BY <1>11 DEF vars
<1>. QED BY <1>1, <1>2, <1>3, <1>4, <1>5, <1>7, <1>8, <1>9, <1>10, <1>11 DEF OtherStep, Environment

LEMMA RefreshedSame == ASSUME rec \in Object PROVE Refreshed(rec) = rec
<1>1. rec.status \in Status
  BY DEF Object
<1>2. Decoded(rec.status, rec.status) = rec.status
  BY <1>1 DEF Decoded, Status
<1>3. rec.spec \in RecordSpec
  BY DEF Object
<1>4. [rec.spec EXCEPT !.content = IF rec.spec.content = TunnelRef THEN TunnelRef ELSE @] = rec.spec
  BY <1>3 DEF RecordSpec
<1>. QED BY <1>2, <1>4 DEF Refreshed, Object

LEMMA MergedSame == ASSUME NEW now \in Status, NEW new \in Status PROVE Merged(now, now, new) = new
BY DEF Merged, Status

\* A patch that is no news left the object, and Reconcile's copy, as they were.
LEMMA PatchNoNews ==
  ASSUME TypeInv, FreshInv, NEW o, cur \in CR, pc # "idle", Write(cur, o), cur \notin Pending', queue' = queue
  PROVE  obj'[cur] = obj[cur] /\ o = obj[cur] /\ rec = obj[cur] /\ cur \notin Pending /\ Refreshed(obj'[cur]) = rec
<1>1. obj'[cur] = obj[cur] /\ cur \notin Pending /\ o = obj[cur]
  BY WriteNews DEF Pending
<1>2. rec = obj[cur] /\ rec \in Object
  BY <1>1 DEF FreshInv, TypeInv, LocalsOK
<1>. QED BY <1>1, <1>2, RefreshedSame

LEMMA ReconcileStepFresh == ASSUME TypeInv, HeldInv, FreshInv, ReconcileStep PROVE FreshInv'
<1>. USE DEF Pending
<1>1. ASSUME NEW o, cur \in CR, Write(cur, o), cache' = cache PROVE \A c \in CR : c \notin news' => cache'[c] = obj'[c]
  BY <1>1, WriteNews DEF FreshInv
<1>2. CASE CallOnly
  <2>1. /\ obj' = obj /\ cache' = cache /\ news' = news /\ queue' = queue
        /\ tunnel' = tunnel /\ cur' = cur /\ rec' = rec /\ pc # "idle"
    BY <1>2, CallsOnly
  <2>2. pc' \in AfterResolve => (pc \in AfterResolve /\ want' = want) \/ (Resolve /\ want'.content = Resolved(rec.spec))
    BY <1>2 DEF CallOnly, LookForAdopter, DeleteDnsRecord, Resolve, ListDnsRecords, AdoptDnsRecord,
                CreateDnsRecord, GetDnsRecord, GetDnsRecordGone, UpdateDnsRecord, Goto, AfterResolve
  <2>. QED BY <2>1, <2>2 DEF FreshInv, Resolved
<1>3. CASE GiveUp
  BY <1>3, GivesUp DEF FreshInv, AfterResolve
<1>4. CASE StatusPatch
  <2>1. cur \in CR /\ pc # "idle" /\ cache' = cache /\ tunnel' = tunnel
    BY <1>4, StatusPatched DEF Served
  <2>2. PICK s : Write(cur, Patched(s))
    BY <1>4, StatusPatched
  <2>3. \A c \in CR : c \notin news' => cache'[c] = obj'[c]
    BY <1>1, <2>1, <2>2
  <2>4. CASE pc' = "idle"
    BY <2>3, <2>4 DEF FreshInv, AfterResolve
  <2>5. CASE /\ pc = "observe" /\ pc' = "update" /\ queue' = queue /\ cur' = cur /\ want' = want
             /\ rec' = Refreshed(obj'[cur])
    <3>1. cur \notin Pending' => obj'[cur] = obj[cur] /\ rec = obj[cur] /\ cur \notin Pending /\ rec' = rec
      BY <2>1, <2>2, <2>5, PatchNoNews
    <3>. QED BY <2>1, <2>3, <2>5, <3>1 DEF FreshInv, AfterResolve, Resolved
  <2>. QED BY <1>4, <2>4, <2>5, StatusPatchNext
<1>5. CASE AddFinalizer
  <2>1. /\ cur \in CR /\ pc # "idle" /\ cache' = cache /\ queue' = queue /\ cur' = cur /\ pc' = "resolve"
        /\ Write(cur, [obj[cur] EXCEPT !.fin = TRUE]) /\ rec' = Refreshed(obj'[cur])
    BY <1>5 DEF AddFinalizer, Goto, TypeInv, LocalsOK
  <2>2. \A c \in CR : c \notin news' => cache'[c] = obj'[c]
    BY <1>1, <2>1
  <2>3. cur \notin Pending' => obj'[cur] = obj[cur] /\ rec = obj[cur] /\ rec' = rec
    BY <2>1, PatchNoNews
  <2>. QED BY <2>1, <2>2, <2>3 DEF FreshInv, AfterResolve
<1>6. CASE ReleaseDnsRecord
  <2>1. cache' = cache /\ pc' = "idle"
    BY <1>6 DEF ReleaseDnsRecord, Return
  <2>2. news \subseteq news' /\ (obj' = obj \/ cur \in news') /\ \A d \in CR \ {cur} : obj'[d] = obj[d]
    BY <1>6, Released
  <2>. QED BY <2>1, <2>2 DEF FreshInv, AfterResolve
<1>. QED BY <1>2, <1>3, <1>4, <1>5, <1>6, StepKinds

LEMMA OtherStepFresh == ASSUME TypeInv, FreshInv, [OtherStep]_vars PROVE FreshInv'
<1>. USE DEF Pending
<1>1. ASSUME NEW c \in CR, ReconcileGone(c) PROVE FreshInv'
  BY <1>1 DEF ReconcileGone, workerVars, FreshInv, AfterResolve
<1>2. ASSUME NEW c \in CR, Reconcile(c) PROVE FreshInv'
  <2>1. /\ obj' = obj /\ cache' = cache /\ news' = news /\ cur' = c /\ rec' = cache[c]
        /\ pc' = Dispatch(cache[c]) /\ cache[c] \in Object
    BY <1>2 DEF Reconcile, TypeInv, TypeOK
  <2>2. pc' \notin AfterResolve
    BY <2>1 DEF Dispatch, AfterResolve, Object
  <2>. QED BY <2>1, <2>2 DEF FreshInv
<1>3. ASSUME NEW c \in CR, Sync(c) PROVE FreshInv'
  <2>1. /\ obj' = obj /\ cache' = [cache EXCEPT ![c] = obj[c]] /\ news' = news \ {c} /\ queue' = queue \cup {c}
        /\ tunnel' = tunnel /\ pc' = pc /\ cur' = cur /\ rec' = rec /\ want' = want
        /\ cache \in [CR -> Object \cup {Nil}]
    BY <1>3 DEF Sync, workerVars, TypeInv, TypeOK
  <2>. QED BY <2>1 DEF FreshInv, Resolved
<1>4. CASE Restart
  BY <1>4 DEF Restart, Return, FreshInv, AfterResolve
<1>5. CASE CallFails
  BY <1>5 DEF CallFails, Return, FreshInv, AfterResolve
<1>6. ASSUME NEW c \in CR, NEW o, Write(c, o), cache' = cache, queue' = queue, tunnel' = tunnel,
             UNCHANGED workerVars
      PROVE FreshInv'
  <2>1. pc' = pc /\ cur' = cur /\ rec' = rec /\ want' = want
    BY <1>6 DEF workerVars
  <2>2. news \subseteq news' /\ \A d \in CR : d \notin news' => obj'[d] = obj[d]
    BY <1>6, WriteNews
  <2>3. pc # "idle" => cur \in CR
    BY DEF TypeInv, LocalsOK
  <2>4. pc \in AfterResolve => pc # "idle"
    BY DEF AfterResolve
  <2>. QED BY <1>6, <2>1, <2>2, <2>3, <2>4 DEF FreshInv, Resolved
<1>7. ASSUME NEW c \in CR, NEW s \in SpecsOf[c], UserCreates(c, s) \/ UserEdits(c, s) PROVE FreshInv'
  BY <1>6, <1>7 DEF UserCreates, UserEdits
<1>8. ASSUME NEW c \in CR, UserDeletes(c) PROVE FreshInv'
  BY <1>6, <1>8 DEF UserDeletes
<1>9. ASSUME NEW t \in Target \cup {Nil}, TunnelChanges(t) PROVE FreshInv'
  <2>1. /\ obj' = obj /\ cache' = cache /\ news' = news /\ queue' = queue \cup RecordsForTunnel
        /\ pc' = pc /\ cur' = cur /\ rec' = rec /\ want' = want
    BY <1>9 DEF TunnelChanges, workerVars
  <2>2. pc \in AfterResolve => pc # "idle" /\ cur \in CR /\ rec # Nil
    BY NilAssumption DEF TypeInv, LocalsOK, AfterResolve
  <2>3. ASSUME pc \in AfterResolve, cur \notin Pending' PROVE want.content = Resolved(obj[cur].spec)'
    <3>1. cur \in CR /\ cur \notin Pending /\ cache[cur] = obj[cur] /\ obj[cur] # Nil /\ cur \notin RecordsForTunnel
      BY <2>1, <2>2, <2>3 DEF FreshInv
    <3>2. obj[cur].spec.content # TunnelRef
      BY <3>1 DEF RecordsForTunnel
    <3>. QED BY <2>1, <2>3, <3>1, <3>2 DEF FreshInv, Resolved
  <2>. QED BY <2>1, <2>3 DEF FreshInv
<1>10. ASSUME NEW i, RemovedUpstream(i) PROVE FreshInv'
  BY <1>10 DEF RemovedUpstream, clusterVars, workerVars, FreshInv, Resolved
<1>11. CASE UNCHANGED vars
  BY <1>11 DEF vars, FreshInv, Resolved
<1>. QED BY <1>1, <1>2, <1>3, <1>4, <1>5, <1>7, <1>8, <1>9, <1>10, <1>11 DEF OtherStep, Environment

\* Objects that name the tunnel stay pending while Reconcile is at work.
LEMMA ToldStays == ASSUME TunnelTold, \A c \in CR : Grows(c) PROVE TunnelTold'
BY DEF TunnelTold, Grows

LEMMA ReconcileStepAsk ==
  ASSUME TypeInv, HeldInv, CopiesInv, AskInv, ReconcileStep
  PROVE  AskInv'
<1>1. TunnelTold => TunnelTold'
  BY ReconcileStepGrows, ToldStays
<1>2. CASE CallOnly
  <2>1. tunnel' = tunnel /\ cur' = cur /\ rec' = rec /\ pc # "idle"
    BY <1>2, CallsOnly
  <2>2. pc' \in AfterResolve => (pc \in AfterResolve /\ want' = want) \/ (Resolve /\ want'.content = Resolved(rec.spec))
    BY <1>2 DEF CallOnly, LookForAdopter, DeleteDnsRecord, Resolve, ListDnsRecords, AdoptDnsRecord,
                CreateDnsRecord, GetDnsRecord, GetDnsRecordGone, UpdateDnsRecord, Goto, AfterResolve
  <2>3. PICK s \in SpecsOf[cur] : s.content = rec.spec.content
    BY <2>1 DEF AskInv
  <2>4. CASE Resolve /\ want'.content = Resolved(rec.spec)
    <3>1. Resolved(rec.spec) # Nil /\ tunnel \in Target \cup {Nil}
      BY <2>4 DEF Resolve, TypeInv, TypeOK
    <3>2. Asked(s, want'.content) /\ (s.content = TunnelRef => want'.content = tunnel)
      BY <2>3, <2>4, <3>1 DEF Resolved, Asked
    <3>. QED BY <2>1, <2>3, <3>2 DEF AskInv
  <2>5. CASE pc \in AfterResolve /\ want' = want
    BY <1>1, <2>1, <2>5 DEF AskInv
  <2>6. CASE pc' \notin AfterResolve
    BY <2>1, <2>6 DEF AskInv
  <2>. QED BY <2>2, <2>4, <2>5, <2>6
<1>3. ASSUME NEW o \in Object, o.spec \in SpecsOf[cur], rec' = Refreshed(o), rec \in Object, pc # "idle"
      PROVE  \E s \in SpecsOf[cur] : s.content = rec'.spec.content
  <2>1. rec'.spec.content = IF rec.spec.content = TunnelRef THEN TunnelRef ELSE o.spec.content
    BY <1>3 DEF Refreshed, Object, RecordSpec
  <2>. QED BY <1>3, <2>1 DEF AskInv
<1>4. CASE StatusPatch
  <2>1. cur \in CR /\ rec \in Object /\ obj[cur] \in Object /\ tunnel' = tunnel /\ pc # "idle"
    BY <1>4, StatusPatched DEF Served
  <2>2. PICK s : Write(cur, Patched(s)) /\ Patched(s) \in Object /\ Patched(s).spec = obj[cur].spec
    BY <1>4, StatusPatched
  <2>3. CASE pc' = "idle"
    BY <2>3 DEF AskInv, AfterResolve
  <2>4. CASE /\ pc = "observe" /\ pc' = "update" /\ cur' = cur /\ want' = want
             /\ rec' = Refreshed(obj'[cur])
    <3>1. obj'[cur] = Patched(s)
      BY <2>1, <2>2, WriteType
    <3>2. obj[cur] # Nil
      BY <2>1, NilAssumption
    <3>3. \E t \in SpecsOf[cur] : t.content = rec'.spec.content
      BY <1>3, <2>1, <2>2, <2>4, <3>1, <3>2 DEF CopiesInv, Says
    <3>. QED BY <1>1, <2>1, <2>4, <3>3 DEF AskInv, AfterResolve
  <2>. QED BY <1>4, <2>3, <2>4, StatusPatchNext
<1>5. CASE AddFinalizer
  <2>. DEFINE n == [obj[cur] EXCEPT !.fin = TRUE]
  <2>1. /\ cur \in CR /\ rec \in Object /\ obj[cur] \in Object /\ obj[cur] # Nil
        /\ cur' = cur /\ pc # "idle" /\ pc' = "resolve"
        /\ Write(cur, n) /\ rec' = Refreshed(obj'[cur])
    BY <1>5 DEF AddFinalizer, Goto, TypeInv, TypeOK, LocalsOK
  <2>2. n \in Object /\ n.spec = obj[cur].spec
    BY <2>1 DEF Object
  <2>. HIDE DEF n
  <2>3. obj'[cur] = n
    BY <2>1, <2>2, WriteType
  <2>4. \E t \in SpecsOf[cur] : t.content = rec'.spec.content
    BY <1>3, <2>1, <2>2, <2>3 DEF CopiesInv, Says
  <2>. QED BY <2>1, <2>4 DEF AskInv, AfterResolve
<1>6. CASE ReleaseDnsRecord \/ GiveUp
  <2>1. pc' = "idle"
    BY <1>6, GivesUp DEF ReleaseDnsRecord, Return
  <2>. QED BY <2>1 DEF AskInv, AfterResolve
<1>. QED BY <1>2, <1>4, <1>5, <1>6, StepKinds

LEMMA OtherStepAsk ==
  ASSUME TypeInv, CopiesInv, FreshInv, AskInv, [OtherStep]_vars
  PROVE  AskInv'
<1>1. ASSUME NEW c \in CR, Reconcile(c) PROVE AskInv'
  <2>1. cache[c] # Nil /\ cur' = c /\ rec' = cache[c] /\ pc' = Dispatch(cache[c]) /\ cache[c] \in Object
    BY <1>1 DEF Reconcile, TypeInv, TypeOK
  <2>2. pc' \notin AfterResolve
    BY <2>1 DEF Dispatch, AfterResolve, Object
  <2>. QED BY <2>1, <2>2 DEF AskInv, CopiesInv, Says
<1>2. CASE pc' = "idle"
  BY <1>2 DEF AskInv, AfterResolve
<1>3. ASSUME UNCHANGED workerVars, ~\E c \in CR : Reconcile(c) PROVE AskInv'
  <2>1. pc' = pc /\ cur' = cur /\ rec' = rec /\ want' = want
    BY <1>3 DEF workerVars
  <2>2. TunnelTold => TunnelTold'
    BY <1>3, OtherStepGrows, ToldStays
  <2>3. tunnel' = tunnel \/ TunnelTold'
    <3>1. ASSUME NEW t \in Target \cup {Nil}, TunnelChanges(t) PROVE TunnelTold'
      BY <3>1 DEF TunnelChanges, TunnelTold, Pending, RecordsForTunnel, FreshInv
    <3>2. (\E t \in Target \cup {Nil} : TunnelChanges(t)) \/ tunnel' = tunnel
      BY DEF OtherStep, Environment, ReconcileGone, Reconcile, Sync, CallFails, Restart,
             UserDeletes, UserCreates, UserEdits, RemovedUpstream, vars
    <3>. QED BY <3>1, <3>2
  <2>. QED BY <2>1, <2>2, <2>3 DEF AskInv
<1>. QED BY <1>1, <1>2, <1>3, OtherStepWorker

LEMMA ReconcileStepDelete ==
  ASSUME TypeInv, FreshInv, DeleteInv, ReconcileStep
  PROVE  DeleteInv'
<1>1. CASE LookForAdopter
  <2>1. /\ pc' = "delete" => Adopters(cur, rec) = {}
        /\ obj' = obj /\ news' = news /\ queue' = queue /\ cur' = cur /\ rec' = rec
    BY <1>1 DEF LookForAdopter, Goto, clusterVars
  <2>2. \A c \in CR : c \notin Pending => cache[c] = obj[c]
    BY DEF FreshInv, Pending
  <2>. QED BY <2>1, <2>2 DEF DeleteInv, Adopters, Pending
<1>2. CASE pc' # "delete"
  BY <1>2 DEF DeleteInv
<1>3. LookForAdopter \/ pc' # "delete"
  BY DEF ReconcileStep, DeleteDnsRecord, ReleaseDnsRecord, AddFinalizer, AddFinalizerGone,
     ResolveWaits, Resolve, ListDnsRecords, AdoptDnsRecord, ListAmbiguous, CreateDnsRecord, RecordId,
     GetDnsRecord, GetDnsRecordGone, ForgetId, Observe, UpdateDnsRecord, UpdateDnsRecordGone, ObserveUpdate, Goto, Return
<1>. QED BY <1>1, <1>2, <1>3

LEMMA OtherStepDelete ==
  ASSUME TypeInv, FreshInv, DeleteInv, [OtherStep]_vars
  PROVE  DeleteInv'
<1>1. ASSUME NEW c \in CR, Reconcile(c) PROVE DeleteInv'
  <2>1. cache[c] \in Object /\ pc' = Dispatch(cache[c])
    BY <1>1 DEF Reconcile, TypeInv, TypeOK
  <2>2. pc' # "delete"
    BY <2>1 DEF Dispatch, Object
  <2>. QED BY <2>2 DEF DeleteInv
<1>2. CASE pc' = "idle"
  BY <1>2 DEF DeleteInv
<1>3. ASSUME UNCHANGED workerVars, ~\E c \in CR : Reconcile(c) PROVE DeleteInv'
  <2>1. pc' = pc /\ cur' = cur /\ rec' = rec
    BY <1>3 DEF workerVars
  <2>2. \A c \in CR : Grows(c)
    BY <1>3, OtherStepGrows
  <2>. QED BY <2>1, <2>2 DEF DeleteInv, Grows
<1>. QED BY <1>1, <1>2, <1>3, OtherStepWorker

\* An object that is due after a step and not pending was due and not pending before.
LEMMA StillDue ==
  ASSUME TypeInv, FreshInv, NEW c \in CR, Due(c)', c \notin Pending', Grows(c),
         tunnel' = tunnel \/ \E t \in Target \cup {Nil} : TunnelChanges(t)
  PROVE  /\ obj'[c] = obj[c] /\ c \notin Pending /\ Due(c)
         /\ Resolved(obj[c].spec)' = Resolved(obj[c].spec)
<1>1. obj'[c] = obj[c] /\ obj[c] # Nil /\ c \notin Pending
  BY DEF Grows, Due
<1>2. CASE obj[c].spec.content # TunnelRef \/ tunnel' = tunnel
  <2>1. Resolved(obj[c].spec)' = Resolved(obj[c].spec)
    BY <1>1, <1>2 DEF Resolved
  <2>2. Undisputed(c)
    BY <1>1 DEF Due, Undisputed
  <2>. QED BY <1>1, <2>1, <2>2 DEF Due
<1>3. CASE obj[c].spec.content = TunnelRef /\ tunnel' # tunnel
  <2>1. PICK t : TunnelChanges(t)
    BY <1>3
  <2>2. cache[c] = obj[c]
    BY <1>1 DEF FreshInv, Pending
  <2>. QED BY <1>1, <1>3, <2>1, <2>2 DEF TunnelChanges, RecordsForTunnel, Pending
<1>. QED BY <1>2, <1>3

\* Whoever Reconcile writes the record for, it writes what every due object asks for.
LEMMA WantsSame ==
  ASSUME FixedKeys, KInv, FreshInv, AskInv, pc \in AfterResolve,
         NEW c \in CR, Due(c), c \notin Pending, SameRecord(rec.spec, obj[c].spec)
  PROVE  want.content = Resolved(obj[c].spec)
<1>1. CASE c = cur
  BY <1>1 DEF FreshInv
<1>2. CASE c # cur
  <2>1. cur \in CR /\ pc # "idle"
    BY DEF KInv, IInv, TypeInv, LocalsOK, AfterResolve
  <2>2. PICK s \in SpecsOf[cur] : /\ Asked(s, want.content)
                                  /\ s.content = TunnelRef => want.content = tunnel \/ TunnelTold
    BY DEF AskInv
  <2>3. ForRecordOf(cur, s) /\ ForRecordOf(cur, rec.spec)
    BY <2>1 DEF ForRecordOf, SameRecord, KInv, IInv, WorkerInv, Keeps
  <2>4. SameRecord(s, obj[c].spec)
    BY <2>1, <2>3, OneRecord DEF SameRecord
  <2>5. s.content = obj[c].spec.content
    BY <1>2, <2>1, <2>4 DEF Due, Undisputed
  <2>6. ~TunnelTold \/ s.content # TunnelRef
    BY <2>5 DEF TunnelTold, Due
  <2>. QED BY <2>2, <2>5, <2>6 DEF Asked, Resolved
<1>. QED BY <1>1, <1>2

\* Steps that leave the record of a held object alone keep it held.
LEMMA HoldsStays ==
  ASSUME NEW c \in CR, Holds(c), obj'[c] = obj[c], Resolved(obj[c].spec)' = Resolved(obj[c].spec),
         remote'[obj[c].status.id] = remote[obj[c].status.id]
  PROVE  Holds(c)'
BY DEF Holds, Found

\* The calls that write at Cloudflare.
LEMMA DeleteHolds ==
  ASSUME FixedKeys, KInv, FreshInv, DeleteInv, DeleteDnsRecord,
         NEW c \in CR, Due(c), c \notin Pending, Holds(c)
  PROVE  Holds(c)'
<1>1. /\ pc = "delete" /\ obj' = obj /\ tunnel' = tunnel
      /\ remote' = [remote EXCEPT ![rec.status.id] = IF Found(rec.status.id, rec.spec.zone) THEN Nil ELSE @]
  BY DEF DeleteDnsRecord, clusterVars
<1>2. rec.deleting /\ remote \in [Id -> Remote \cup {Nil}]
  BY <1>1 DEF KInv, ReleaseInv, IInv, TypeInv, TypeOK
<1>3. c # cur
  BY <1>1, <1>2 DEF FreshInv, Due
<1>4. obj[c].status.id = rec.status.id /\ Found(rec.status.id, rec.spec.zone) => FALSE
  BY <1>1, <1>3 DEF DeleteInv, Due, Holds, Found
<1>5. obj[c].status.id \in Id
  BY DEF Holds, Due, KInv, IInv, TypeInv, TypeOK, Object, Status
<1>6. remote'[obj[c].status.id] = remote[obj[c].status.id]
  BY <1>1, <1>2, <1>4, <1>5
<1>. QED BY <1>1, <1>6, HoldsStays DEF Resolved

LEMMA CreateHolds ==
  ASSUME KInv, CreateDnsRecord, NEW c \in CR, Due(c), Holds(c)
  PROVE  Holds(c)'
<1>1. /\ obj' = obj /\ tunnel' = tunnel /\ issued # Id
      /\ \A i \in Id : i # FreshId => remote'[i] = remote[i]
  BY DEF CreateDnsRecord, clusterVars, KInv, IInv, TypeInv, TypeOK
<1>2. FreshId \notin issued
  BY <1>1 DEF FreshId, KInv, IInv, TypeInv, TypeOK
<1>3. obj[c].status.id \in Id /\ obj[c].status.id \in issued
  BY DEF Holds, Due, KInv, IInv, TypeInv, TypeOK, Object, Status, ObjectsInv, CopyOK, Keeps, OwnRecord
<1>. QED BY <1>1, <1>2, <1>3, HoldsStays DEF Resolved

LEMMA UpdateHolds ==
  ASSUME FixedKeys, KInv, FreshInv, AskInv, UpdateDnsRecord,
         NEW c \in CR, Due(c), c \notin Pending, Holds(c) \/ c = cur
  PROVE  Holds(c)'
<1>. DEFINE n == [zone |-> rec.spec.zone, key |-> want.key, content |-> want.content, opts |-> want.opts]
            i == rec.status.id
<1>1. /\ pc = "update" /\ obj' = obj /\ tunnel' = tunnel /\ Found(i, rec.spec.zone)
      /\ remote' = [remote EXCEPT ![i] = n]
  BY DEF UpdateDnsRecord, clusterVars
<1>2. /\ i \in Id /\ remote \in [Id -> Remote \cup {Nil}] /\ rec.spec.zone \in Zone
      /\ want.key = rec.spec.key /\ OwnRecord(i, rec.spec) /\ n \in Remote
  <2>1. /\ i \in Id /\ remote \in [Id -> Remote \cup {Nil}] /\ rec \in Object /\ want \in Wanted
        /\ want.key = rec.spec.key /\ Keeps(cur, rec)
    BY <1>1 DEF KInv, IInv, TypeInv, TypeOK, LocalsOK, ById, AfterResolve, WorkerInv
  <2>2. rec.spec \in RecordSpec /\ OwnRecord(i, rec.spec)
    BY <2>1 DEF Object, Keeps
  <2>. QED BY <2>1, <2>2 DEF RecordSpec, Wanted, Remote
<1>3. /\ n.zone = rec.spec.zone /\ n.key = want.key /\ n.content = want.content /\ n # Nil
  BY <1>2, NilAssumption
<1>. HIDE DEF n
<1>4. CASE obj[c].status.id = i
  <2>1. SameRecord(rec.spec, obj[c].spec)
    <3>1. OwnRecord(i, obj[c].spec)
      BY <1>2, <1>4 DEF Due, KInv, IInv, ObjectsInv, CopyOK, Keeps
    <3>. QED BY <1>1, <1>2, <3>1 DEF Found, OwnRecord, SameRecord
  <2>2. want.content = Resolved(obj[c].spec)
    BY <1>1, <2>1, WantsSame DEF AfterResolve
  <2>3. remote'[i] = n
    BY <1>1, <1>2
  <2>. QED BY <1>1, <1>2, <1>3, <1>4, <2>1, <2>2, <2>3 DEF Holds, Found, SameRecord, Resolved
<1>5. CASE obj[c].status.id # i
  <2>1. Holds(c)
    BY <1>1, <1>5 DEF FreshInv
  <2>2. remote'[obj[c].status.id] = remote[obj[c].status.id]
    BY <1>1, <1>2, <1>5
  <2>. QED BY <1>1, <2>1, <2>2, HoldsStays DEF Resolved
<1>. QED BY <1>4, <1>5

\* When the refreshed status asks for no update, the record is as it should be.
LEMMA ObserveHolds ==
  ASSUME KInv, FreshInv, AnswerInv, Observe, pc' = "idle", NEW c \in CR, Due(c), c = cur, c \notin Pending'
  PROVE  Holds(c)'
<1>1. /\ pc = "observe" /\ Write(cur, Patched(res)) /\ queue' = queue /\ remote' = remote /\ tunnel' = tunnel
      /\ ~Diff(want, Refreshed(obj'[cur]).status)
  BY DEF Observe, Return, Goto, remoteVars
<1>2. TypeInv /\ cur \in CR /\ res \in Status /\ rec \in Object /\ obj[cur] \in Object /\ pc # "idle"
  BY <1>1 DEF KInv, IInv, TypeInv, TypeOK, LocalsOK, AfterAnswer, Due
<1>3. obj'[cur] = obj[cur] /\ Patched(res) = obj[cur] /\ rec = obj[cur] /\ cur \notin Pending /\ Refreshed(obj'[cur]) = rec
  BY <1>1, <1>2, PatchNoNews
<1>4. rec.status = res
  <2>1. rec.status \in Status
    BY <1>2 DEF Object
  <2>2. Merged(rec.status, rec.status, res) = res
    BY <1>2, <2>1, MergedSame
  <2>3. Patched(res).status = res
    BY <1>2, <1>3, <2>2, WithStatus DEF Patched
  <2>. QED BY <1>3, <2>3
<1>5. /\ res.id # Nil /\ want.content = res.content /\ want.content = Resolved(obj[cur].spec)
      /\ want.key = res.key /\ want.key = rec.spec.key
  BY <1>1, <1>3, <1>4 DEF Diff, FreshInv, AfterResolve, AfterAnswer, KInv, IInv, WorkerInv, TypeInv, TypeOK
<1>6. Found(res.id, rec.spec.zone) /\ remote[res.id].key = res.key /\ remote[res.id].content = res.content
  BY <1>1 DEF AnswerInv, Answer
<1>. QED BY <1>1, <1>3, <1>4, <1>5, <1>6 DEF Holds, Found, Resolved

LEMMA ReconcileStepConv == ASSUME FixedKeys, QInv, ReconcileStep PROVE ConvInv'
<1>1. /\ TypeInv /\ HeldInv /\ KInv /\ FreshInv /\ AskInv /\ DeleteInv
      /\ tunnel' = tunnel /\ spent' = spent
  BY DEF QInv, KInv, IInv, ReconcileStep, LookForAdopter, DeleteDnsRecord, ReleaseDnsRecord, AddFinalizer,
     AddFinalizerGone, ResolveWaits, Resolve, ListDnsRecords, AdoptDnsRecord, ListAmbiguous, CreateDnsRecord,
     RecordId, GetDnsRecord, GetDnsRecordGone, ForgetId, Observe, UpdateDnsRecord, UpdateDnsRecordGone, ObserveUpdate
<1>. SUFFICES ASSUME spent["outside"] = 0 PROVE AnswerInv' /\ ConvergeInv'
  BY <1>1 DEF ConvInv
<1>2. AnswerInv /\ ConvergeInv
  BY DEF QInv, ConvInv
<1>3. AnswerInv'
  <2>1. CASE GetDnsRecord
    BY <2>1 DEF GetDnsRecord, Goto, AnswerInv, Answer, Found, remoteVars
  <2>2. CASE pc' # "observe"
    BY <2>2 DEF AnswerInv
  <2>3. GetDnsRecord \/ pc' # "observe"
    BY DEF ReconcileStep, LookForAdopter, DeleteDnsRecord, ReleaseDnsRecord, AddFinalizer, AddFinalizerGone,
     ResolveWaits, Resolve, ListDnsRecords, AdoptDnsRecord, ListAmbiguous, CreateDnsRecord, RecordId,
     GetDnsRecordGone, ForgetId, Observe, UpdateDnsRecord, UpdateDnsRecordGone, ObserveUpdate, Goto, Return
  <2>. QED BY <2>1, <2>2, <2>3
<1>4. ASSUME NEW c \in CR, Due(c)', c \notin Pending' PROVE Holds(c)' \/ InHand(c)'
  <2>1. Grows(c)
    BY <1>1, ReconcileStepGrows
  <2>2. obj'[c] = obj[c] /\ c \notin Pending /\ Due(c) /\ Resolved(obj[c].spec)' = Resolved(obj[c].spec)
    BY <1>1, <1>4, <2>1, StillDue
  <2>3. Holds(c) \/ InHand(c)
    BY <1>2, <2>2 DEF ConvergeInv
  <2>4. ASSUME Holds(c), remote' = remote PROVE Holds(c)'
    BY <2>2, <2>4, HoldsStays
  <2>5. CASE DeleteDnsRecord
    BY <1>1, <2>2, <2>3, <2>5, DeleteHolds DEF InHand, AfterResolve, DeleteDnsRecord
  <2>6. CASE CreateDnsRecord
    <3>1. pc' = "recordId" /\ cur' = cur
      BY <2>6 DEF CreateDnsRecord, Goto
    <3>. QED BY <1>1, <2>2, <2>3, <2>6, <3>1, CreateHolds DEF InHand, AfterResolve
  <2>7. CASE UpdateDnsRecord
    BY <1>1, <2>2, <2>3, <2>7, UpdateHolds DEF InHand
  <2>8. CASE LookForAdopter \/ Resolve \/ ListDnsRecords \/ AdoptDnsRecord \/ GetDnsRecord \/ GetDnsRecordGone
    <3>1. remote' = remote /\ cur' = cur
      BY <2>8 DEF LookForAdopter, Resolve, ListDnsRecords, AdoptDnsRecord, GetDnsRecord, GetDnsRecordGone, Goto, remoteVars
    <3>2. pc = "adopter" \/ pc' \in AfterResolve \ {"observeUpdate"}
      BY <2>8 DEF LookForAdopter, Resolve, ListDnsRecords, AdoptDnsRecord, GetDnsRecord, GetDnsRecordGone, Goto, AfterResolve
    <3>. QED BY <2>3, <2>4, <3>1, <3>2 DEF InHand, AfterResolve
  <2>9. CASE GiveUp
    <3>1. remote' = remote /\ queue \subseteq queue'
      BY <2>9, GivesUp
    <3>2. ASSUME cur = c PROVE FALSE
      <4>1. rec = obj[c] /\ pc # "idle"
        BY <2>2, <2>9, <3>2 DEF QInv, FreshInv, GiveUp, AddFinalizerGone, ResolveWaits, ListAmbiguous, UpdateDnsRecordGone
      <4>2. CASE AddFinalizerGone \/ ResolveWaits
        BY <2>2, <3>2, <4>1, <4>2 DEF AddFinalizerGone, ResolveWaits, Due
      <4>3. CASE ListAmbiguous \/ UpdateDnsRecordGone
        BY <1>4, <3>2, <4>3 DEF ListAmbiguous, UpdateDnsRecordGone, Return, Requeued, Pending
      <4>. QED BY <2>9, <4>2, <4>3 DEF GiveUp
    <3>. QED BY <2>3, <2>4, <3>1, <3>2 DEF InHand
  <2>10. CASE StatusPatch
    <3>1. remote' = remote
      BY <1>1, <2>10, StatusPatched
    <3>2. CASE InHand(c) /\ (RecordId \/ ForgetId)
      BY <1>4, <3>2 DEF InHand, RecordId, ForgetId, Return, Requeued, Pending
    <3>3. CASE InHand(c) /\ ObserveUpdate
      BY <3>3 DEF InHand, ObserveUpdate
    <3>4. CASE InHand(c) /\ Observe
      <4>1. CASE pc' = "idle"
        BY <1>1, <1>2, <1>4, <2>2, <3>4, <4>1, ObserveHolds DEF InHand
      <4>2. CASE pc' = "update" /\ cur' = cur
        BY <3>4, <4>2 DEF InHand, AfterResolve
      <4>. QED BY <2>10, <4>1, <4>2, StatusPatchNext
    <3>. QED BY <2>3, <2>4, <2>10, <3>1, <3>2, <3>3, <3>4 DEF StatusPatch
  <2>11. CASE AddFinalizer
    <3>1. remote' = remote /\ pc' = "resolve" /\ cur' = cur
      BY <2>11 DEF AddFinalizer, Goto, remoteVars
    <3>. QED BY <2>3, <2>4, <3>1 DEF InHand
  <2>12. CASE ReleaseDnsRecord
    <3>1. remote' = remote /\ pc = "release"
      BY <2>12 DEF ReleaseDnsRecord, remoteVars
    <3>. QED BY <2>3, <2>4, <3>1 DEF InHand, AfterResolve
  <2>. QED BY <2>5, <2>6, <2>7, <2>8, <2>9, <2>10, <2>11, <2>12, StepKinds DEF CallOnly
<1>. QED BY <1>3, <1>4 DEF ConvergeInv

LEMMA OtherStepConv == ASSUME FixedKeys, QInv, [OtherStep]_vars PROVE ConvInv'
<1>1. TypeInv /\ FreshInv
  BY DEF QInv, KInv, IInv
<1>. SUFFICES ASSUME spent'["outside"] = 0 PROVE AnswerInv' /\ ConvergeInv'
  BY DEF ConvInv
<1>2. spent["outside"] = 0 /\ remote' = remote
  <2>1. spent \in [Kinds -> Nat] /\ "outside" \in Kinds
    BY <1>1 DEF TypeInv, TypeOK, Kinds
  <2>2. ASSUME NEW k \in Kinds, Spend(k) PROVE k # "outside" /\ spent["outside"] = 0
    BY <2>1, <2>2 DEF Spend
  <2>3. ASSUME NEW i, RemovedUpstream(i) PROVE FALSE
    BY <2>1, <2>2, <2>3 DEF RemovedUpstream
  <2>4. remote' = remote
    BY <2>3 DEF OtherStep, Environment, ReconcileGone, Reconcile, Sync, CallFails, Restart,
       UserDeletes, UserCreates, UserEdits, TunnelChanges, vars, remoteVars
  <2>5. (\E k \in Kinds : Spend(k)) \/ spent' = spent
    BY DEF Kinds, OtherStep, Environment, ReconcileGone, Reconcile, Sync, CallFails, Restart,
       UserDeletes, UserCreates, UserEdits, TunnelChanges, RemovedUpstream, vars
  <2>. QED BY <2>2, <2>4, <2>5
<1>3. AnswerInv /\ ConvergeInv
  BY <1>2 DEF QInv, ConvInv
<1>4. ASSUME NEW c \in CR, Reconcile(c) PROVE pc = "idle" /\ pc' \in {"release", "adopter", "addFinalizer", "resolve"}
  <2>1. cache[c] \in Object /\ pc' = Dispatch(cache[c]) /\ pc = "idle"
    BY <1>1, <1>4 DEF Reconcile, TypeInv, TypeOK
  <2>. QED BY <2>1 DEF Dispatch, Object
<1>5. AnswerInv'
  <2>1. CASE UNCHANGED workerVars
    BY <1>2, <1>3, <2>1 DEF workerVars, AnswerInv, Found, Answer
  <2>. QED BY <1>4, <2>1, OtherStepWorker DEF AnswerInv
<1>6. ASSUME NEW c \in CR, Due(c)', c \notin Pending' PROVE Holds(c)' \/ InHand(c)'
  <2>1. CASE Reconcile(c)
    <3>1. /\ obj' = obj /\ news' = news /\ cur' = c /\ pc' = Dispatch(cache[c])
      BY <2>1 DEF Reconcile
    <3>2. cache[c] = obj[c] /\ obj[c] \in Object /\ ~obj[c].deleting
      BY <1>1, <1>6, <3>1 DEF FreshInv, Pending, Due, TypeInv, TypeOK
    <3>3. pc' \in {"addFinalizer", "resolve"}
      BY <3>1, <3>2 DEF Dispatch, Object
    <3>. QED BY <3>1, <3>3 DEF InHand
  <2>2. CASE ~Reconcile(c)
    <3>1. Grows(c)
      BY <1>1, <2>2, OtherStepGrows
    <3>2. tunnel' = tunnel \/ \E t \in Target \cup {Nil} : TunnelChanges(t)
      BY DEF OtherStep, Environment, ReconcileGone, Reconcile, Sync, CallFails, Restart,
         UserDeletes, UserCreates, UserEdits, RemovedUpstream, vars
    <3>3. obj'[c] = obj[c] /\ c \notin Pending /\ Due(c) /\ Resolved(obj[c].spec)' = Resolved(obj[c].spec)
      BY <1>1, <1>6, <3>1, <3>2, StillDue
    <3>4. Holds(c) \/ InHand(c)
      BY <1>3, <3>3 DEF ConvergeInv
    <3>5. CASE Holds(c)
      BY <1>2, <3>3, <3>5, HoldsStays
    <3>6. CASE InHand(c)
      <4>1. pc # "idle" /\ cur = c /\ obj[c] # Nil
        BY <3>3, <3>6 DEF InHand, AfterResolve, Due
      <4>2. CASE UNCHANGED workerVars
        BY <3>6, <4>2 DEF workerVars, InHand
      <4>3. CASE CallFails \/ Restart
        BY <1>6, <4>1, <4>3 DEF CallFails, Restart, Return, Requeued, Pending
      <4>4. CallFails \/ Restart \/ UNCHANGED workerVars \/ pc = "idle"
        BY DEF OtherStep, Environment, ReconcileGone, Reconcile, Sync,
           UserDeletes, UserCreates, UserEdits, TunnelChanges, RemovedUpstream, vars, workerVars
      <4>. QED BY <4>1, <4>2, <4>3, <4>4
    <3>. QED BY <3>4, <3>5, <3>6
  <2>. QED BY <2>1, <2>2
<1>. QED BY <1>5, <1>6 DEF ConvergeInv

LEMMA InitQInv == ASSUME UniqueBefore PROVE Init => QInv
<1>. SUFFICES ASSUME Init PROVE QInv
  OBVIOUS
<1>1. KInv
  BY InitKInv
<1>2. FreshInv /\ AskInv /\ DeleteInv /\ ConvInv
  BY DEF Init, FreshInv, AskInv, DeleteInv, ConvInv, AnswerInv, ConvergeInv, Due, AfterResolve
<1>. QED BY <1>1, <1>2 DEF QInv

LEMMA InductiveQInv == ASSUME FixedKeys PROVE QInv /\ [Next]_vars => QInv'
<1>. SUFFICES ASSUME QInv, [Next]_vars PROVE QInv'
  OBVIOUS
<1>1. KInv /\ TypeInv /\ HeldInv /\ CopiesInv /\ FreshInv /\ AskInv /\ DeleteInv
  BY DEF QInv, KInv, IInv
<1>2. KInv'
  BY <1>1, InductiveKInv
<1>3. CASE ReconcileStep
  BY <1>1, <1>2, <1>3, ReconcileStepFresh, ReconcileStepAsk, ReconcileStepDelete, ReconcileStepConv DEF QInv
<1>4. CASE [OtherStep]_vars
  BY <1>1, <1>2, <1>4, OtherStepFresh, OtherStepAsk, OtherStepDelete, OtherStepConv DEF QInv
<1>. QED BY <1>3, <1>4 DEF Next, OtherStep

(***************************************************************************)
(* Whatever failed, restarted, was read late or was edited meanwhile: when *)
(* nothing is left to do, every object that is due holds its record with   *)
(* the content it asks for.  For any number of objects and tunnels' ids,   *)
(* as long as zone, name and type of each object's record stay the same.   *)
(***************************************************************************)
THEOREM Converged == ASSUME FixedKeys, UniqueBefore PROVE Spec => []QuietMeansConverged
<1>1. Init => QInv
  BY InitQInv
<1>2. QInv /\ [Next]_vars => QInv'
  BY InductiveQInv
<1>3. QInv => QuietMeansConverged
  BY DEF QInv, ConvInv, ConvergeInv, Due, InHand, AfterResolve, Pending, Quiet, QuietMeansConverged
<1>. QED BY <1>1, <1>2, <1>3, PTL DEF Spec
=============================================================================
