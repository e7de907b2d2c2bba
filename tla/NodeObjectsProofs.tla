------------------------- MODULE NodeObjectsProofs -------------------------
(***************************************************************************)
(* Proofs about NodeObjects for any number of processes with any options,  *)
(* any UIDs and any number of disturbances.                                *)
(***************************************************************************)
EXTENDS NodeObjects, TLAPS

---------------------------------------------------------------------------
(* The objects and the calls. *)

Works == [pc : Places, todo : SUBSET (Slot \X (UID \cup {0})), isTeardown : BOOLEAN,
          isPending : BOOLEAN, isHeld : BOOLEAN, isFailed : BOOLEAN]

\* The places where the worker has a list of calls, and those where it calls.
ListPlaces == {"prePull", "deleteServices", "deleteDeployments"}
CallPlaces == ListPlaces \cup {"rollout", "service", "deletePod"}

\* A worker has a list of calls only where it works on one.
TodoOK == work.todo # {} => work.pc \in ListPlaces

TypeInv == TypeOK /\ TodoOK

\* Every slot belongs to an informer.
LEMMA SlotFacts ==
    /\ Slot = {"service", "staleService", "deployment", "staleDeployment", "prePull"}
    /\ \A s \in Slot : \E i \in Informers : s \in i
  BY DEF Slot, Informers, Services, Deployments, Pods

LEMMA QueueType ==
    ASSUME NEW q \in QueueOf({NodeName})
    PROVE  /\ Add(q, {NodeName}) \in QueueOf({NodeName})
           /\ Get(q, NodeName) \in QueueOf({NodeName})
           /\ Done(q, NodeName) \in QueueOf({NodeName})
           /\ AddAfter(q, NodeName) \in QueueOf({NodeName})
           /\ Retry(q, NodeName) \in QueueOf({NodeName})
           /\ Expire(q, NodeName) \in QueueOf({NodeName})
  BY DEF QueueOf, Add, Get, Done, AddAfter, Retry, Expire

LEMMA EmptyQueueType == EmptyQueue \in QueueOf({NodeName}) /\ ListedQueue \in QueueOf({NodeName})
  BY DEF EmptyQueue, ListedQueue, QueueOf, Add

LEMMA IdleType == Idle \in Works
  BY DEF Idle, Works, Places

\* What the worker sends is a request, sent at a place where it calls.
LEMMA CallType ==
    ASSUME TypeInv, NEW p \in Process, NEW r \in Calls(p)
    PROVE  /\ r \in Requests
           /\ work.pc \in CallPlaces
           /\ work.pc = "rollout" => r = ApplyOf(p, "deployment")
           /\ work.pc = "service" => r = ApplyOf(p, "service")
           /\ work.pc = "deletePod" => r = DeleteOf("prePull", 0)
           /\ work.pc \in ListPlaces =>
                \E item \in work.todo :
                    r = IF item[2] = 0 THEN ApplyOf(p, item[1]) ELSE DeleteOf(item[1], item[2])
  <1>options. OptionsOf(p) \in Options
    BY NodeObjectsAssumption
  <1>apply. \A s \in Slot : ApplyOf(p, s) \in Requests
    BY <1>options DEF ApplyOf, Requests
  <1>delete. \A s \in Slot, uid \in UID \cup {0} : DeleteOf(s, uid) \in Requests
    BY DEF DeleteOf, Requests
  <1>1. CASE work.pc = "rollout"
    <2>1. r = ApplyOf(p, "deployment")
      BY <1>1 DEF Calls
    <2> QED BY <1>1, <2>1, <1>apply, SlotFacts DEF CallPlaces, ListPlaces
  <1>2. CASE work.pc = "service"
    <2>1. r = ApplyOf(p, "service")
      BY <1>2 DEF Calls
    <2> QED BY <1>2, <2>1, <1>apply, SlotFacts DEF CallPlaces, ListPlaces
  <1>3. CASE work.pc = "deletePod"
    <2>1. r = DeleteOf("prePull", 0)
      BY <1>3 DEF Calls
    <2> QED BY <1>3, <2>1, <1>delete, SlotFacts DEF CallPlaces, ListPlaces
  <1>4. CASE work.pc \notin {"rollout", "service", "deletePod"}
    <2>1. PICK item \in work.todo :
            r = IF item[2] = 0 THEN ApplyOf(p, item[1]) ELSE DeleteOf(item[1], item[2])
      BY <1>4 DEF Calls
    <2>2. work.pc \in ListPlaces
      BY <2>1 DEF TypeInv, TodoOK
    <2>3. item[1] \in Slot /\ item[2] \in UID \cup {0}
      BY DEF TypeInv, TypeOK
    <2>4. r \in Requests
      BY <2>1, <2>3, <1>apply, <1>delete
    <2> QED BY <1>4, <2>1, <2>2, <2>4 DEF CallPlaces
  <1> QED BY <1>1, <1>2, <1>3, <1>4

\* The next place after a call, or after a list of calls.
LEMMA AfterPlaces ==
    ASSUME NEW p \in Process
    PROVE  /\ After(p, "prePull") = "rollout"
           /\ After(p, "rollout") = IF OptionsOf(p).EnableCiliumLB THEN "service" ELSE "listServices"
           /\ After(p, "service") = "listServices"
           /\ After(p, "deleteServices") = IF work.isHeld THEN "end" ELSE "listDeployments"
           /\ After(p, "deleteDeployments") = IF work.isTeardown THEN "deletePod" ELSE "end"
           /\ After(p, "deletePod") = "end"
  BY DEF After

LEMMA ProceedType ==
    ASSUME TypeInv, NEW p \in Process, NEW r \in Calls(p), NEW ok \in BOOLEAN, Proceed(p, r, ok)
    PROVE  work' \in Works /\ TodoOK'
  <1>1. work \in Works /\ (work.todo # {} => work.pc \in ListPlaces) /\ work.pc \in CallPlaces
    BY CallType DEF TypeInv, TypeOK, TodoOK, Works
  <1>2. After(p, work.pc) \in Places
    BY <1>1, AfterPlaces DEF CallPlaces, ListPlaces, Places
  <1> DEFINE rest == IF ok THEN work.todo \ {<<r.slot, r.uid>>} ELSE {}
             pc == IF rest # {} THEN work.pc
                   ELSE IF ok \/ work.isTeardown THEN After(p, work.pc) ELSE "end"
  <1>3. rest \subseteq work.todo /\ pc \in Places /\ (rest # {} => pc = work.pc)
    BY <1>1, <1>2 DEF Works, Places
  <1>4. work' = [work EXCEPT !.todo = rest, !.isFailed = work.isFailed \/ ~ok, !.pc = pc]
    BY DEF Proceed
  <1>5. (work.isFailed \/ ~ok) \in BOOLEAN
    OBVIOUS
  <1> HIDE DEF rest, pc
  <1>6. work' \in Works
    BY <1>1, <1>3, <1>4, <1>5 DEF Works
  <1>7. work'.todo = rest /\ work'.pc = pc
    BY <1>1, <1>4 DEF Works
  <1> QED BY <1>1, <1>3, <1>6, <1>7 DEF TodoOK

\* A write reaches one slot, and a leader's informers have news of it.
LEMMA WriteFacts ==
    ASSUME TypeOK, NEW s \in Slot, NEW o \in Objects \cup {Absent}, Write(s, o)
    PROVE  /\ object' \in [Slot -> Objects \cup {Absent}]
           /\ unseen' \subseteq Informers /\ unseen \subseteq unseen'
           /\ object'[s] = o
           /\ \A t \in Slot \ {s} : object'[t] = object[t]
           /\ o # object[s] /\ (\E p \in Process : Leads(p)) => \E i \in unseen' : s \in i
  <1>1. object' = [object EXCEPT ![s] = o] /\ object \in [Slot -> Objects \cup {Absent}]
    BY DEF Write, TypeOK
  <1>2. unseen' \subseteq Informers /\ unseen \subseteq unseen'
    BY DEF Write, TypeOK
  <1>3. ASSUME o # object[s], \E p \in Process : Leads(p) PROVE \E i \in unseen' : s \in i
    <2>1. unseen' = unseen \cup {i \in Informers : s \in i}
      BY <1>3 DEF Write
    <2> QED BY <2>1, SlotFacts
  <1> QED BY <1>1, <1>2, <1>3

\* What the API server does with a request.
LEMMA ServeFacts ==
    ASSUME TypeOK, NEW r \in Requests, Serve(r)
    PROVE  /\ object' \in [Slot -> Objects \cup {Absent}]
           /\ unseen' \subseteq Informers /\ unseen \subseteq unseen'
           /\ \A t \in Slot \ {r.slot} : object'[t] = object[t]
           /\ r.options # Absent =>
                object'[r.slot] # Absent /\ object'[r.slot].options = r.options
           /\ r.options = Absent =>
                object'[r.slot] = IF object[r.slot] # Absent /\ meetsPrecondition(r)
                                  THEN Absent ELSE object[r.slot]
           /\ object[r.slot] # Absent /\ object'[r.slot] # Absent
                => object'[r.slot].uid = object[r.slot].uid
           /\ object[r.slot] = Absent /\ object'[r.slot] # Absent
                => object'[r.slot].uid \in UID \ UsedUIDs(r.slot)
           /\ object'[r.slot] # object[r.slot] /\ (\E p \in Process : Leads(p))
                => \E i \in unseen' : r.slot \in i
  <1>slot. r.slot \in Slot /\ r.options \in Options \cup {Absent}
    BY DEF Requests
  <1>object. object \in [Slot -> Objects \cup {Absent}] /\ object[r.slot] \in Objects \cup {Absent}
    BY <1>slot DEF TypeOK
  <1>absent. Absent \notin Objects
    BY NodeObjectsAssumption
  <1>1. CASE r.options = Absent
    <2>1. CASE object[r.slot] # Absent /\ meetsPrecondition(r)
      <3>1. Write(r.slot, Absent)
        BY <1>1, <2>1 DEF Serve, Response
      <3> QED BY <1>1, <2>1, <3>1, <1>slot, WriteFacts
    <2>2. CASE ~(object[r.slot] # Absent /\ meetsPrecondition(r))
      <3>1. Response(r) # "OK"
        BY <1>1, <2>2 DEF Response
      <3>2. UNCHANGED <<object, unseen>>
        BY <3>1 DEF Serve
      <3> QED BY <1>1, <2>2, <3>2, <1>object DEF TypeOK
    <2> QED BY <2>1, <2>2
  <1>2. CASE r.options # Absent /\ object[r.slot] # Absent
    <2> DEFINE o == [object[r.slot] EXCEPT !.options = r.options]
    <2>1. Write(r.slot, o)
      BY <1>2 DEF Serve, Response
    <2>2. o \in Objects /\ o.options = r.options /\ o.uid = object[r.slot].uid
      BY <1>2, <1>slot, <1>object DEF Objects
    <2> HIDE DEF o
    <2> QED BY <1>2, <2>1, <2>2, <1>slot, <1>absent, WriteFacts
  <1>3. CASE r.options # Absent /\ object[r.slot] = Absent
    <2>0. Response(r) = "OK"
      BY <1>3 DEF Response
    <2>1. PICK u \in FreshUIDs(r.slot) : Write(r.slot, [uid |-> u, options |-> r.options])
      BY <1>3, <2>0 DEF Serve
    <2>2. u \in UID \ UsedUIDs(r.slot)
      BY DEF FreshUIDs
    <2> DEFINE o == [uid |-> u, options |-> r.options]
    <2>3. o \in Objects /\ o.options = r.options /\ o.uid = u
      BY <1>3, <2>2, <1>slot DEF Objects
    <2>4. Write(r.slot, o)
      BY <2>1
    <2> HIDE DEF o
    <2> QED BY <1>3, <2>2, <2>3, <2>4, <1>slot, <1>absent, WriteFacts
  <1> QED BY <1>1, <1>2, <1>3

---------------------------------------------------------------------------
(* Type correctness. *)

LEMMA TypeInit == Init => TypeInv
  <1> SUFFICES ASSUME Init PROVE TypeInv
    OBVIOUS
  <1>1. LeadershipTypeOK
    BY DEF Init, LeadershipInit, LeadershipTypeOK
  <1>2. object \in [Slot -> Objects \cup {Absent}]
    <2>1. PICK p \in Process, slots \in {{}, Services \cup Deployments}, uid \in UID :
            object = [s \in Slot |-> IF s \in slots THEN [uid |-> uid, options |-> OptionsOf(p)]
                                     ELSE Absent]
      BY DEF Init
    <2>2. [uid |-> uid, options |-> OptionsOf(p)] \in Objects
      BY NodeObjectsAssumption DEF Objects
    <2> QED BY <2>1, <2>2
  <1>3. seen \in [{"deployment", "prePull"} -> Objects \cup {Absent}]
    BY SlotFacts DEF Init, Cached, NoObjects
  <1>4. work \in Works /\ work.todo = {} /\ queue \in QueueOf({NodeName})
    BY IdleType, EmptyQueueType DEF Init, Idle
  <1> QED BY <1>1, <1>2, <1>3, <1>4, NodeObjectsAssumption DEF Init, TypeInv, TypeOK, TodoOK, Works

\* The steps of the election keep its types.
LEMMA ElectionType ==
    ASSUME LeadershipTypeOK, NEW p \in Process,
           \/ StartProcess(p) \/ AcquireLease(p) \/ StartLeading(p) \/ RunReturns(p)
           \/ CancelElection(p) \/ ExitProcess(p) \/ RunFails(p) \/ StartWorkers(p)
           \/ StopElecting(p) \/ CrashProcess(p)
    PROVE  LeadershipTypeOK'
  BY DEF LeadershipTypeOK, StartProcess, AcquireLease, StartLeading, RunReturns,
         CancelElection, ExitProcess, RunFails, StartWorkers, StopElecting, CrashProcess,
         ProcessGone, Goes, Enters

\* What the caches show is what there is to show.
LEMMA CachedType ==
    ASSUME NEW objects \in [Slot -> Objects \cup {Absent}]
    PROVE  Cached(objects) \in [{"deployment", "prePull"} -> Objects \cup {Absent}]
  BY SlotFacts DEF Cached

LEMMA PrePullType ==
    ASSUME TypeOK, NEW p \in Process
    PROVE  PrePullCall(p) \in SUBSET (Slot \X (UID \cup {0})) /\ isPending(p) \in BOOLEAN
  <1>1. seen["prePull"] \in Objects \cup {Absent} /\ "prePull" \in Slot
    BY SlotFacts DEF TypeOK
  <1>2. seen["prePull"] # Absent => seen["prePull"].uid \in UID
    BY <1>1 DEF Objects
  <1>3. PrePullCall(p) \in {{<<"prePull", seen["prePull"].uid>>}, {<<"prePull", 0>>}, {}}
    BY DEF PrePullCall
  <1>4. seen["prePull"] = Absent => PrePullCall(p) \in {{<<"prePull", 0>>}, {}}
    BY DEF PrePullCall
  <1> QED BY <1>1, <1>2, <1>3, <1>4 DEF isPending

\* A worker's step keeps the types.
LEMMA WorkerType ==
    ASSUME TypeInv, NEW p \in Process, Worker(p) PROVE TypeInv'
  <1> TypeOK /\ TodoOK /\ work \in Works /\ queue \in QueueOf({NodeName})
    BY DEF TypeInv, TypeOK, Works
  <1>frame. ASSUME UNCHANGED <<object, managed, seen, unseen, late, replaced>>,
                   budget' \in Nat, work' \in Works, queue' \in QueueOf({NodeName}), TodoOK'
            PROVE  TypeInv'
    BY <1>frame DEF Worker, TypeInv, TypeOK, LeadershipTypeOK, Works, electionVars
  <1>disturb. Disturb => budget' \in Nat
    BY DEF Disturb, TypeOK
  <1>get. CASE GetNode(p)
    <2>1. work' \in Works
      BY <1>get, PrePullType DEF GetNode, Idle, Works, Places
    <2>2. TodoOK'
      BY <1>get DEF GetNode, Idle, TodoOK, ListPlaces
    <2> QED BY <1>get, <1>frame, <2>1, <2>2, QueueType DEF GetNode, clusterVars, TypeOK
  <1>hold. CASE HoldRollout(p)
    <2>1. work' \in Works /\ TodoOK'
      BY <1>hold DEF HoldRollout, TodoOK, ListPlaces, Works, Places
    <2> QED BY <1>hold, <1>frame, <1>disturb, <2>1, QueueType DEF HoldRollout, clusterVars
  <1>list. CASE ListOwned(p)
    <2> DEFINE list == IF work.pc = "listServices" THEN Services ELSE Deployments
               keep == IF work.isTeardown THEN {}
                       ELSE {"deployment"} \cup IF OptionsOf(p).EnableCiliumLB THEN {"service"} ELSE {}
               owned == {<<s, object[s].uid>> : s \in {t \in list \ keep : object[t] # Absent}}
               pc == DeletesAt(work.pc)
               next == IF owned = {} THEN After(p, pc) ELSE pc
    <2>1. work' = [work EXCEPT !.todo = owned, !.pc = next]
      BY <1>list DEF ListOwned
    <2>2. owned \in SUBSET (Slot \X (UID \cup {0}))
      <3>1. list \subseteq Slot
        BY SlotFacts DEF Services, Deployments
      <3>2. \A t \in list : object[t] # Absent => object[t].uid \in UID
        BY <3>1 DEF TypeOK, Objects
      <3> QED BY <3>1, <3>2
    <2>3. pc \in {"deleteServices", "deleteDeployments"}
      BY DEF DeletesAt
    <2>4. next \in Places /\ (owned # {} => next \in ListPlaces)
      BY <2>3, AfterPlaces DEF Places, ListPlaces
    <2> HIDE DEF owned, next
    <2>5. work' \in Works /\ TodoOK'
      BY <2>1, <2>2, <2>4 DEF Works, TodoOK
    <2> QED BY <1>list, <1>frame, <2>5 DEF ListOwned, clusterVars, TypeOK
  <1>listfail. CASE ListFails(p)
    <2> DEFINE next == IF work.isTeardown THEN After(p, DeletesAt(work.pc)) ELSE "end"
    <2>1. work' = [work EXCEPT !.isFailed = TRUE, !.pc = next]
      BY <1>listfail DEF ListFails
    <2>2. DeletesAt(work.pc) \in {"deleteServices", "deleteDeployments"}
      BY DEF DeletesAt
    <2>3. next \in Places
      BY <2>2, AfterPlaces DEF Places
    <2>4. work.todo = {}
      BY <1>listfail DEF ListFails, TodoOK, ListPlaces
    <2> HIDE DEF next
    <2>5. work' \in Works /\ TodoOK'
      BY <2>1, <2>3, <2>4 DEF Works, TodoOK
    <2> QED BY <1>listfail, <1>frame, <1>disturb, <2>5 DEF ListFails, clusterVars
  <1>served. ASSUME NEW r \in Calls(p), Serve(r), Proceed(p, r, isSuccess(r)), UpdateReplaced,
                    UNCHANGED <<managed, late, seen, queue, budget>>
             PROVE  TypeInv'
    <2>1. r \in Requests /\ isSuccess(r) \in BOOLEAN
      BY CallType DEF isSuccess
    <2>2. work' \in Works /\ TodoOK'
      BY <1>served, <2>1, ProceedType
    <2>3. object' \in [Slot -> Objects \cup {Absent}] /\ unseen' \subseteq Informers
      BY <1>served, <2>1, ServeFacts
    <2>4. replaced' \in BOOLEAN
      BY <1>served DEF UpdateReplaced
    <2> QED BY <1>served, <2>2, <2>3, <2>4
        DEF Worker, TypeInv, TypeOK, LeadershipTypeOK, Works, electionVars
  <1>fails. ASSUME NEW r \in Calls(p), Disturb, Proceed(p, r, FALSE),
                   \/ UNCHANGED <<object, unseen, late>>
                   \/ Serve(r) /\ UNCHANGED late
                   \/ late = Absent /\ late' = r /\ UNCHANGED <<object, unseen>>,
                   UpdateReplaced, UNCHANGED <<managed, seen, queue>>
            PROVE  TypeInv'
    <2>1. r \in Requests
      BY CallType
    <2>2. work' \in Works /\ TodoOK'
      BY <1>fails, ProceedType
    <2>3. object' \in [Slot -> Objects \cup {Absent}] /\ unseen' \subseteq Informers
      BY <1>fails, <2>1, ServeFacts DEF TypeOK
    <2>4. replaced' \in BOOLEAN /\ late' \in Requests \cup {Absent}
      BY <1>fails, <2>1 DEF UpdateReplaced, TypeOK
    <2> QED BY <1>fails, <1>disturb, <2>2, <2>3, <2>4
        DEF Worker, TypeInv, TypeOK, LeadershipTypeOK, Works, electionVars
  <1>end. CASE EndReconcile
    <2>1. work' \in Works /\ TodoOK' /\ queue' \in QueueOf({NodeName})
      BY <1>end, IdleType, QueueType DEF EndReconcile, Handled, TodoOK, Idle
    <2> QED BY <1>end, <1>frame, <2>1 DEF EndReconcile, clusterVars, TypeOK
  <1> QED BY <1>get, <1>hold, <1>list, <1>listfail, <1>served, <1>fails, <1>end
      DEF Worker, CallServed, CallFails

\* Every step keeps the types.
LEMMA TypeStep == TypeInv /\ [Next]_vars => TypeInv'
  <1> SUFFICES ASSUME TypeInv, [Next]_vars PROVE TypeInv'
    OBVIOUS
  <1> TypeOK /\ TodoOK /\ work \in Works /\ queue \in QueueOf({NodeName}) /\ LeadershipTypeOK
    BY DEF TypeInv, TypeOK, Works
  <1>disturb. Disturb => budget' \in Nat
    BY DEF Disturb, TypeOK
  <1>worker. ASSUME NEW p \in Process, Worker(p) PROVE TypeInv'
    BY <1>worker, WorkerType
  <1>informer. ASSUME NEW p \in Process, Informer(p) \/ Resync(p) PROVE TypeInv'
    <2>1. queue' \in QueueOf({NodeName})
      BY <1>informer, QueueType, EmptyQueueType
      DEF Informer, Resync, DelayExpires, ObjectEvent, InformerResync
    <2>2. /\ seen' \in [{"deployment", "prePull"} -> Objects \cup {Absent}]
          /\ unseen' \subseteq Informers
      BY <1>informer, SlotFacts
      DEF Informer, Resync, DelayExpires, ObjectEvent, InformerResync, TypeOK
    <2>3. UNCHANGED <<electionVars, clusterVars, work, budget>>
      BY <1>informer DEF Informer, Resync, DelayExpires, ObjectEvent, InformerResync
    <2> QED BY <2>1, <2>2, <2>3
        DEF TypeInv, TypeOK, TodoOK, LeadershipTypeOK, electionVars, clusterVars
  <1>begin. ASSUME NEW p \in Process, Begin(p) PROVE TypeInv'
    <2>1. LeadershipTypeOK'
      BY <1>begin, ElectionType DEF Begin
    <2>2. seen' \in [{"deployment", "prePull"} -> Objects \cup {Absent}]
      BY <1>begin, CachedType DEF Begin, TypeOK
    <2> QED BY <1>begin, <2>1, <2>2, EmptyQueueType
        DEF Begin, TypeInv, TypeOK, TodoOK, clusterVars
  <1>abandon. ASSUME NEW p \in Process, Abandon(p) PROVE TypeInv'
    <2>1. LeadershipTypeOK'
      BY <1>abandon, ElectionType DEF Abandon
    <2>2. Cached(NoObjects) \in [{"deployment", "prePull"} -> Objects \cup {Absent}]
      BY CachedType DEF NoObjects
    <2>3. late' \in Requests \cup {Absent}
      BY <1>abandon, CallType DEF Abandon, TypeOK
    <2>4. /\ seen' \in [{"deployment", "prePull"} -> Objects \cup {Absent}]
          /\ unseen' \subseteq Informers /\ queue' \in QueueOf({NodeName})
          /\ work' \in Works /\ TodoOK'
      <3>1. CASE Leads(p)
        <4>1. /\ seen' = Cached(NoObjects) /\ unseen' = {} /\ queue' = EmptyQueue
              /\ work' = Idle
          BY <1>abandon, <3>1 DEF Abandon
        <4>2. Idle.todo = {}
          BY DEF Idle
        <4> QED BY <4>1, <4>2, <2>2, EmptyQueueType, IdleType DEF TodoOK
      <3>2. CASE ~Leads(p)
        BY <1>abandon, <3>2 DEF Abandon, TypeOK, TodoOK, leaderVars
      <3> QED BY <3>1, <3>2
    <2> QED BY <1>abandon, <1>disturb, <2>1, <2>3, <2>4
        DEF Abandon, UpdateReplaced, TypeInv, TypeOK, Works
  <1>election. ASSUME NEW p \in Process, ElectionStep(p) \/ FailToStart(p) PROVE TypeInv'
    <2>1. LeadershipTypeOK' /\ budget' \in Nat
      BY <1>election, <1>disturb, ElectionType DEF ElectionStep, FailToStart, TypeOK
    <2>2. UNCHANGED <<clusterVars, leaderVars>>
      BY <1>election DEF ElectionStep, FailToStart
    <2> QED BY <2>1, <2>2 DEF TypeInv, TypeOK, TodoOK, clusterVars, leaderVars
  <1>late. CASE LateServed
    <2>1. object' \in [Slot -> Objects \cup {Absent}] /\ unseen' \subseteq Informers
      BY <1>late, ServeFacts DEF LateServed, TypeOK
    <2> QED BY <1>late, <2>1
        DEF LateServed, TypeInv, TypeOK, TodoOK, LeadershipTypeOK, electionVars
  <1>relabel. CASE RelabelNode
    BY <1>relabel, <1>disturb, QueueType
    DEF RelabelNode, TypeInv, TypeOK, TodoOK, LeadershipTypeOK, electionVars
  <1>delete. ASSUME NEW s \in Slot, DeleteObject(s) PROVE TypeInv'
    <2>1. object' \in [Slot -> Objects \cup {Absent}] /\ unseen' \subseteq Informers
      BY <1>delete, WriteFacts DEF DeleteObject
    <2> QED BY <1>delete, <1>disturb, <2>1
        DEF DeleteObject, UpdateReplaced, TypeInv, TypeOK, TodoOK, LeadershipTypeOK, electionVars
  <1>stutter. CASE UNCHANGED vars
    BY <1>stutter
    DEF vars, TypeInv, TypeOK, TodoOK, LeadershipTypeOK, electionVars, clusterVars, leaderVars
  <1> QED BY <1>worker, <1>informer, <1>begin, <1>abandon, <1>election, <1>late, <1>relabel,
             <1>delete, <1>stutter
      DEF Next

\* The objects, the caches, the queue and the calls stay well formed, whatever
\* the processes do.
THEOREM NodeObjectsTypeCorrect == Spec => []TypeOK
  <1>1. TypeInv => TypeOK
    BY DEF TypeInv
  <1> QED BY <1>1, TypeInit, TypeStep, PTL DEF Spec

---------------------------------------------------------------------------
(* Late deletions.  ReplacementPreserved needs to know why replaced holds: *)
(* the object that is there now was created after the request was given    *)
(* up, with a UID that was not the request's.                              *)

ReplacedOK ==
    replaced => /\ late # Absent
                /\ object[late.slot] # Absent
                /\ late.uid # 0 => object[late.slot].uid # late.uid

ReplaceInv == TypeInv /\ ReplacedOK

\* An object keeps its UID, and a new one has a UID that nothing refers to.
UIDsKept ==
    \A s \in Slot : object'[s] # Absent =>
        IF object[s] = Absent THEN object'[s].uid \notin UsedUIDs(s)
        ELSE object'[s].uid = object[s].uid

LEMMA ServeKeepsUIDs ==
    ASSUME TypeOK, NEW r \in Requests, Serve(r) PROVE UIDsKept
  BY ServeFacts DEF UIDsKept

LEMMA DeleteKeepsUIDs ==
    ASSUME TypeOK, NEW s \in Slot, Write(s, Absent) PROVE UIDsKept
  BY WriteFacts DEF UIDsKept

\* The history variable tells the truth.
LEMMA UpdateReplacedKeeps ==
    ASSUME TypeOK, ReplacedOK, UpdateReplaced, UIDsKept, late' = late PROVE ReplacedOK'
  <1> SUFFICES ASSUME replaced', late # Absent
               PROVE  object'[late.slot] # Absent
                      /\ (late.uid # 0 => object'[late.slot].uid # late.uid)
    BY DEF ReplacedOK, UpdateReplaced
  <1>1. late.slot \in Slot /\ late.uid \in UID \cup {0} /\ object'[late.slot] # Absent
    BY DEF TypeOK, Requests, UpdateReplaced
  <1>2. CASE object[late.slot] = Absent
    <2>1. late.uid # 0 => late.uid \in UsedUIDs(late.slot)
      BY <1>1 DEF UsedUIDs
    <2>2. object'[late.slot].uid \notin UsedUIDs(late.slot)
      BY <1>1, <1>2 DEF UIDsKept
    <2> QED BY <1>1, <2>1, <2>2
  <1>3. CASE object[late.slot] # Absent
    <2>1. replaced
      BY <1>3 DEF UpdateReplaced
    <2>2. object'[late.slot].uid = object[late.slot].uid
      BY <1>1, <1>3 DEF UIDsKept
    <2> QED BY <1>1, <2>1, <2>2 DEF ReplacedOK
  <1> QED BY <1>2, <1>3

\* A call that is given up is not of an object that was replaced since.
LEMMA NewRequestKeeps ==
    ASSUME UpdateReplaced, late = Absent PROVE ReplacedOK'
  BY DEF UpdateReplaced, ReplacedOK

LEMMA ReplaceInit == Init => ReplaceInv
  BY TypeInit DEF Init, ReplaceInv, ReplacedOK

\* Every step keeps the history of replacements.
LEMMA ReplaceStep == ReplaceInv /\ [Next]_vars => ReplaceInv'
  <1> SUFFICES ASSUME ReplaceInv, [Next]_vars PROVE ReplacedOK'
    BY TypeStep DEF ReplaceInv
  <1> TypeOK /\ TodoOK /\ TypeInv /\ ReplacedOK
    BY DEF ReplaceInv, TypeInv
  <1>frame. ASSUME UNCHANGED <<object, late, replaced>> PROVE ReplacedOK'
    BY <1>frame DEF ReplacedOK
  <1>same. UNCHANGED object => UIDsKept
    BY DEF UIDsKept
  <1>served. ASSUME NEW p \in Process, CallServed(p) PROVE ReplacedOK'
    <2>1. PICK r \in Calls(p) : Serve(r) /\ UpdateReplaced /\ UNCHANGED late
      BY <1>served DEF CallServed
    <2> QED BY <2>1, CallType, ServeKeepsUIDs, UpdateReplacedKeeps
  <1>fails. ASSUME NEW p \in Process, CallFails(p) PROVE ReplacedOK'
    <2>1. PICK r \in Calls(p) :
            /\ UpdateReplaced
            /\ \/ UNCHANGED <<object, unseen, late>>
               \/ Serve(r) /\ UNCHANGED late
               \/ late = Absent
      BY <1>fails DEF CallFails
    <2> QED BY <2>1, <1>same, CallType, ServeKeepsUIDs, UpdateReplacedKeeps, NewRequestKeeps
  <1>worker. ASSUME NEW p \in Process, Worker(p), ~CallServed(p), ~CallFails(p) PROVE ReplacedOK'
    BY <1>worker, <1>frame
    DEF Worker, GetNode, HoldRollout, ListOwned, ListFails, EndReconcile, clusterVars
  <1>abandon. ASSUME NEW p \in Process, Abandon(p) PROVE ReplacedOK'
    <2>1. UpdateReplaced /\ UNCHANGED object /\ (late = Absent \/ late' = late)
      BY <1>abandon DEF Abandon
    <2> QED BY <2>1, <1>same, UpdateReplacedKeeps, NewRequestKeeps
  <1>process. ASSUME NEW p \in Process,
                     Informer(p) \/ Resync(p) \/ Begin(p) \/ FailToStart(p) \/ ElectionStep(p)
              PROVE  ReplacedOK'
    BY <1>process, <1>frame
    DEF Informer, Resync, Begin, FailToStart, ElectionStep, DelayExpires, ObjectEvent,
        InformerResync, clusterVars
  <1>late. CASE LateServed
    BY <1>late DEF LateServed, ReplacedOK
  <1>relabel. CASE RelabelNode
    BY <1>relabel, <1>frame DEF RelabelNode
  <1>delete. ASSUME NEW s \in Slot, DeleteObject(s) PROVE ReplacedOK'
    BY <1>delete, DeleteKeepsUIDs, UpdateReplacedKeeps DEF DeleteObject
  <1>stutter. CASE UNCHANGED vars
    BY <1>stutter, <1>frame DEF vars, clusterVars
  <1> QED BY <1>served, <1>fails, <1>worker, <1>abandon, <1>process, <1>late, <1>relabel,
             <1>delete, <1>stutter
      DEF Next

\* The only step that carries out a late request spares an object that was
\* created since.
LEMMA LateSpares ==
    ASSUME ReplaceInv, [Next]_vars, late # Absent, late' = Absent, late.uid # 0, replaced
    PROVE  object'[late.slot] # Absent
  <1> TypeOK /\ TypeInv /\ ReplacedOK /\ late \in Requests
    BY DEF ReplaceInv, TypeInv, TypeOK
  <1>1. LateServed
    <2>1. ASSUME NEW p \in Process, CallServed(p) PROVE FALSE
      BY <2>1 DEF CallServed
    <2>2. ASSUME NEW p \in Process, CallFails(p) PROVE FALSE
      BY <2>2 DEF CallFails
    <2>3. ASSUME NEW p \in Process, Worker(p), ~CallServed(p), ~CallFails(p) PROVE FALSE
      BY <2>3
      DEF Worker, GetNode, HoldRollout, ListOwned, ListFails, EndReconcile, clusterVars
    <2>4. ASSUME NEW p \in Process, Abandon(p) PROVE FALSE
      BY <2>4 DEF Abandon
    <2>5. ASSUME NEW p \in Process,
                 Informer(p) \/ Resync(p) \/ Begin(p) \/ FailToStart(p) \/ ElectionStep(p)
          PROVE  FALSE
      BY <2>5
      DEF Informer, Resync, Begin, FailToStart, ElectionStep, DelayExpires, ObjectEvent,
          InformerResync, clusterVars
    <2>6. ~RelabelNode /\ ~(\E s \in Slot : DeleteObject(s)) /\ ~UNCHANGED vars
      BY DEF RelabelNode, DeleteObject, vars, clusterVars
    <2> QED BY <2>1, <2>2, <2>3, <2>4, <2>5, <2>6 DEF Next
  <1>2. Serve(late)
    BY <1>1 DEF LateServed
  <1>3. CASE late.options # Absent
    BY <1>2, <1>3, ServeFacts
  <1>4. CASE late.options = Absent
    <2>1. object[late.slot] # Absent /\ ~meetsPrecondition(late)
      BY DEF ReplacedOK, meetsPrecondition
    <2> QED BY <1>2, <1>4, <2>1, ServeFacts
  <1> QED BY <1>3, <1>4

\* The UID precondition does its work: whoever gave up a deletion and however
\* late it is carried out, it does not take an object created in the meantime.
THEOREM ReplacementsPreserved == Spec => ReplacementPreserved
  <1>1. ReplaceInv /\ [Next]_vars =>
          [late # Absent /\ late' = Absent /\ late.uid # 0 /\ replaced
             => object'[late.slot] # Absent]_vars
    BY LateSpares
  <1> QED BY <1>1, ReplaceInit, ReplaceStep, PTL DEF Spec, ReplacementPreserved

---------------------------------------------------------------------------
(* The leader.  One process at a time renews the lease, what it knows of   *)
(* the objects is what its informers have delivered, and its worker holds  *)
(* the node's key while it is busy.                                        *)

\* One process renews the lease, and a controller runs only after its elector
\* has got the lease.
ElectionOK ==
    /\ \A p, q \in Process : elector[p] = "renew" /\ elector[q] = "renew" => p = q
    /\ \A p \in Process : elector[p] \in {"off", "acquire"} => controller[p] = "idle"

\* Without a leader nobody works.
NobodyWorks == (\A p \in Process : ~Leads(p)) => work = Idle /\ queue = EmptyQueue

BusyOK == work.pc # "idle" => NodeName \in queue.processing

\* The caches of a leader differ from the objects only where there is news.
CachesOK ==
    (\E p \in Process : Leads(p)) =>
        \A s \in {"deployment", "prePull"} : (\A i \in unseen : s \notin i) => seen[s] = object[s]

LeaderInv == TypeInv /\ ElectionOK /\ NobodyWorks /\ BusyOK /\ CachesOK

\* There is at most one leader.
LEMMA OneLeader ==
    ASSUME ElectionOK, NEW p \in Process, NEW q \in Process, Leads(p), Leads(q) PROVE p = q
  BY DEF ElectionOK, Leads

LEMMA ElectionKeeps ==
    ASSUME LeadershipTypeOK, ElectionOK, NEW p \in Process,
           \/ StartProcess(p) \/ AcquireLease(p) \/ StartLeading(p) \/ RunReturns(p)
           \/ CancelElection(p) \/ ExitProcess(p) \/ RunFails(p) \/ StartWorkers(p)
           \/ StopElecting(p) \/ CrashProcess(p)
    PROVE  ElectionOK'
  BY DEF LeadershipTypeOK, ElectionOK, StartProcess, AcquireLease, StartLeading, RunReturns,
         CancelElection, ExitProcess, RunFails, StartWorkers, StopElecting, CrashProcess,
         ProcessGone, Goes, Enters

\* Only StartWorkers makes a leader, and only what stops a process unmakes one.
LEMMA LeadsKept ==
    ASSUME LeadershipTypeOK, ElectionOK, NEW p \in Process,
           \/ StartProcess(p) \/ AcquireLease(p) \/ StartLeading(p) \/ RunReturns(p)
           \/ CancelElection(p) \/ ExitProcess(p) \/ RunFails(p)
           \/ ~Leads(p) /\ (StopElecting(p) \/ CrashProcess(p))
    PROVE  \A q \in Process : Leads(q)' <=> Leads(q)
  BY DEF LeadershipTypeOK, ElectionOK, Leads, StartProcess, AcquireLease, StartLeading,
         RunReturns, CancelElection, ExitProcess, RunFails, StopElecting, CrashProcess,
         ProcessGone, Goes, Enters

LEMMA LeadersChange ==
    ASSUME LeadershipTypeOK, ElectionOK, NEW p \in Process
    PROVE  /\ StartWorkers(p) => /\ \A q \in Process : ~Leads(q)
                                 /\ \A q \in Process : Leads(q)' => q = p
           /\ Leads(p) /\ (StopElecting(p) \/ CrashProcess(p)) => \A q \in Process : ~Leads(q)'
  BY DEF LeadershipTypeOK, ElectionOK, Leads, StartWorkers, StopElecting, CrashProcess,
         ProcessGone, Goes, Enters

LEMMA LeaderInit == Init => LeaderInv
  <1> SUFFICES ASSUME Init PROVE LeaderInv
    OBVIOUS
  <1>1. ElectionOK /\ \A p \in Process : ~Leads(p)
    BY DEF Init, LeadershipInit, ElectionOK, Leads
  <1>2. NobodyWorks /\ BusyOK
    BY DEF Init, NobodyWorks, BusyOK, Idle
  <1> QED BY <1>1, <1>2, TypeInit DEF LeaderInv, CachesOK

\* News of the objects keeps the caches in order.
LEMMA NewsKeeps ==
    ASSUME TypeOK, CachesOK, UNCHANGED <<electionVars, seen>>, unseen \subseteq unseen',
           \A s \in Slot : object'[s] # object[s] /\ (\E p \in Process : Leads(p))
                             => \E i \in unseen' : s \in i
    PROVE  CachesOK'
  <1> SUFFICES ASSUME \E p \in Process : Leads(p), NEW s \in {"deployment", "prePull"},
                      \A i \in unseen' : s \notin i
               PROVE  seen[s] = object'[s]
    BY DEF CachesOK, Leads, electionVars
  <1>1. object'[s] = object[s]
    BY SlotFacts
  <1>2. seen[s] = object[s]
    BY DEF CachesOK
  <1> QED BY <1>1, <1>2

LEMMA ServeNews ==
    ASSUME TypeOK, CachesOK, UNCHANGED <<electionVars, seen>>, NEW r \in Requests, Serve(r)
    PROVE  CachesOK'
  <1>1. unseen \subseteq unseen'
    BY ServeFacts
  <1>2. ASSUME NEW s \in Slot, object'[s] # object[s], \E p \in Process : Leads(p)
        PROVE  \E i \in unseen' : s \in i
    BY <1>2, ServeFacts
  <1> QED BY <1>1, <1>2, NewsKeeps

\* What the operations of the queue do to the keys that are held and to those
\* that are to be done.
LEMMA QueueFields ==
    ASSUME NEW q \in QueueOf({NodeName})
    PROVE  /\ NodeName \in Get(q, NodeName).processing
           /\ /\ AddAfter(q, NodeName).processing = q.processing
              /\ NodeName \in AddAfter(q, NodeName).delayed
           /\ /\ Expire(q, NodeName).processing = q.processing
              /\ NodeName \in Expire(q, NodeName).dirty
           /\ /\ Add(q, {NodeName}).processing = q.processing
              /\ NodeName \in Add(q, {NodeName}).dirty
           /\ NodeName \in Retry(q, NodeName).delayed
           /\ Done(q, NodeName).dirty = q.dirty /\ Done(q, NodeName).delayed = q.delayed
  BY DEF QueueOf, Get, AddAfter, Expire, Add, Retry, Done

\* Every step keeps the leader's house in order.
LEMMA LeaderStep == LeaderInv /\ [Next]_vars => LeaderInv'
  <1> SUFFICES ASSUME LeaderInv, [Next]_vars
               PROVE  ElectionOK' /\ NobodyWorks' /\ BusyOK' /\ CachesOK'
    BY TypeStep DEF LeaderInv
  <1> /\ TypeOK /\ TypeInv /\ LeadershipTypeOK /\ ElectionOK /\ NobodyWorks /\ BusyOK /\ CachesOK
      /\ queue \in QueueOf({NodeName})
    BY DEF LeaderInv, TypeInv, TypeOK
  <1>same. ASSUME UNCHANGED electionVars
           PROVE  ElectionOK' /\ \A p \in Process : Leads(p)' <=> Leads(p)
    BY <1>same DEF ElectionOK, Leads, electionVars
  <1>caches. ASSUME \A p \in Process : Leads(p)' <=> Leads(p), UNCHANGED <<object, seen, unseen>>
             PROVE  CachesOK'
    BY <1>caches DEF CachesOK
  <1>led. ASSUME NEW p \in Process, Leads(p), UNCHANGED electionVars PROVE NobodyWorks'
    BY <1>led, <1>same DEF NobodyWorks
  <1>worker. ASSUME NEW p \in Process, Worker(p)
             PROVE  ElectionOK' /\ NobodyWorks' /\ BusyOK' /\ CachesOK'
    <2>1. UNCHANGED electionVars /\ Leads(p)
      BY <1>worker DEF Worker
    <2>2. BusyOK'
      <3>1. CASE GetNode(p)
        BY <3>1, QueueFields DEF GetNode, BusyOK
      <3>2. CASE HoldRollout(p)
        BY <3>2, QueueFields DEF HoldRollout, BusyOK
      <3>3. CASE EndReconcile
        BY <3>3 DEF EndReconcile, BusyOK, Idle
      <3>4. CASE ListOwned(p) \/ ListFails(p) \/ CallServed(p) \/ CallFails(p)
        <4>1. work.pc # "idle"
          BY <3>4, CallType
          DEF ListOwned, ListFails, CallServed, CallFails, CallPlaces, ListPlaces
        <4>2. UNCHANGED queue
          BY <3>4 DEF ListOwned, ListFails, CallServed, CallFails
        <4> QED BY <4>1, <4>2 DEF BusyOK
      <3> QED BY <1>worker, <3>1, <3>2, <3>3, <3>4 DEF Worker
    <2>3. CachesOK'
      <3>1. CASE CallServed(p)
        <4>1. PICK r \in Calls(p) : Serve(r) /\ UNCHANGED seen
          BY <3>1 DEF CallServed
        <4> QED BY <2>1, <4>1, CallType, ServeNews
      <3>2. CASE CallFails(p)
        <4>1. PICK r \in Calls(p) : (Serve(r) \/ UNCHANGED <<object, unseen>>) /\ UNCHANGED seen
          BY <3>2 DEF CallFails
        <4> QED BY <2>1, <4>1, <1>same, <1>caches, CallType, ServeNews
      <3>3. CASE ~CallServed(p) /\ ~CallFails(p)
        BY <1>worker, <2>1, <3>3, <1>same, <1>caches
        DEF Worker, GetNode, HoldRollout, ListOwned, ListFails, EndReconcile, clusterVars
      <3> QED BY <3>1, <3>2, <3>3
    <2> QED BY <2>1, <2>2, <2>3, <1>same, <1>led
  <1>informer. ASSUME NEW p \in Process, Informer(p)
               PROVE  ElectionOK' /\ NobodyWorks' /\ BusyOK' /\ CachesOK'
    <2>1. UNCHANGED electionVars /\ Leads(p) /\ UNCHANGED work
      BY <1>informer DEF Informer, DelayExpires, ObjectEvent
    <2>2. queue' \in {Expire(queue, NodeName), Add(queue, {NodeName})}
      BY <1>informer DEF Informer, DelayExpires, ObjectEvent
    <2>3. BusyOK'
      BY <2>1, <2>2, QueueFields DEF BusyOK
    <2>4. CASE DelayExpires
      BY <2>1, <2>3, <2>4, <1>same, <1>led, <1>caches DEF DelayExpires, clusterVars
    <2>5. ASSUME NEW i \in Informers, ObjectEvent(i) PROVE CachesOK'
      <3>1. /\ UNCHANGED object /\ unseen' = unseen \ {i}
            /\ \A s \in {"deployment", "prePull"} :
                 seen'[s] = IF s \in i THEN object[s] ELSE seen[s]
        BY <2>5 DEF ObjectEvent, clusterVars, TypeOK
      <3> QED BY <2>1, <3>1 DEF CachesOK
    <2> QED BY <1>informer, <2>1, <2>3, <2>4, <2>5, <1>same, <1>led DEF Informer
  <1>resync. ASSUME NEW p \in Process, Resync(p)
             PROVE  ElectionOK' /\ NobodyWorks' /\ BusyOK' /\ CachesOK'
    <2>1. /\ UNCHANGED <<electionVars, clusterVars, seen, unseen, work>> /\ Leads(p)
          /\ queue = EmptyQueue
      BY <1>resync DEF Resync, InformerResync
    <2>2. BusyOK'
      BY <2>1 DEF BusyOK, EmptyQueue
    <2> QED BY <2>1, <2>2, <1>same, <1>led, <1>caches DEF clusterVars
  <1>begin. ASSUME NEW p \in Process, Begin(p)
            PROVE  ElectionOK' /\ NobodyWorks' /\ BusyOK' /\ CachesOK'
    <2>1. StartWorkers(p) /\ UNCHANGED <<object, work>> /\ seen' = Cached(object)
      BY <1>begin DEF Begin, clusterVars
    <2>2. ElectionOK' /\ Leads(p)'
      BY <2>1, ElectionKeeps DEF StartWorkers, Enters, Leads, LeadershipTypeOK
    <2>3. work = Idle
      BY <2>1, LeadersChange DEF NobodyWorks
    <2>4. CachesOK'
      BY <2>1 DEF CachesOK, Cached
    <2> QED BY <2>1, <2>2, <2>3, <2>4 DEF NobodyWorks, BusyOK, Idle
  <1>abandon. ASSUME NEW p \in Process, Abandon(p)
              PROVE  ElectionOK' /\ NobodyWorks' /\ BusyOK' /\ CachesOK'
    <2>1. ElectionOK' /\ UNCHANGED object
      BY <1>abandon, ElectionKeeps DEF Abandon
    <2>2. CASE Leads(p)
      <3>1. work' = Idle /\ queue' = EmptyQueue
        BY <1>abandon, <2>2 DEF Abandon
      <3>2. \A q \in Process : ~Leads(q)'
        BY <1>abandon, <2>2, LeadersChange DEF Abandon
      <3>3. CachesOK'
        BY <3>2 DEF CachesOK
      <3> QED BY <2>1, <3>1, <3>3 DEF NobodyWorks, BusyOK, Idle
    <2>3. CASE ~Leads(p)
      <3>1. UNCHANGED leaderVars /\ \A q \in Process : Leads(q)' <=> Leads(q)
        BY <1>abandon, <2>3, LeadsKept DEF Abandon
      <3> QED BY <2>1, <3>1, <1>caches DEF NobodyWorks, BusyOK, leaderVars
    <2> QED BY <2>2, <2>3
  <1>election. ASSUME NEW p \in Process, ElectionStep(p) \/ FailToStart(p)
               PROVE  ElectionOK' /\ NobodyWorks' /\ BusyOK' /\ CachesOK'
    <2>1. ElectionOK' /\ \A q \in Process : Leads(q)' <=> Leads(q)
      BY <1>election, ElectionKeeps, LeadsKept DEF ElectionStep, FailToStart
    <2>2. UNCHANGED <<leaderVars, object>>
      BY <1>election DEF ElectionStep, FailToStart, clusterVars
    <2> QED BY <2>1, <2>2, <1>caches DEF NobodyWorks, BusyOK, leaderVars
  <1>late. CASE LateServed
    <2>1. UNCHANGED <<electionVars, seen, queue, work>> /\ Serve(late) /\ late \in Requests
      BY <1>late DEF LateServed, TypeOK
    <2> QED BY <2>1, <1>same, ServeNews DEF NobodyWorks, BusyOK
  <1>relabel. CASE RelabelNode
    <2>1. UNCHANGED <<electionVars, object, seen, unseen, work>>
      BY <1>relabel DEF RelabelNode
    <2>2. BusyOK'
      BY <1>relabel, <2>1, QueueFields DEF RelabelNode, BusyOK
    <2>3. NobodyWorks'
      BY <1>relabel, <2>1, <1>same DEF RelabelNode, NobodyWorks
    <2> QED BY <2>1, <2>2, <2>3, <1>same, <1>caches
  <1>delete. ASSUME NEW s \in Slot, DeleteObject(s)
             PROVE  ElectionOK' /\ NobodyWorks' /\ BusyOK' /\ CachesOK'
    <2>1. UNCHANGED <<electionVars, seen, queue, work>> /\ Write(s, Absent)
      BY <1>delete DEF DeleteObject
    <2>2. unseen \subseteq unseen'
      BY <2>1, WriteFacts
    <2>3. ASSUME NEW t \in Slot, object'[t] # object[t], \E p \in Process : Leads(p)
          PROVE  \E i \in unseen' : t \in i
      BY <2>1, <2>3, WriteFacts
    <2>4. CachesOK'
      BY <2>1, <2>2, <2>3, NewsKeeps
    <2> QED BY <2>1, <2>4, <1>same DEF NobodyWorks, BusyOK
  <1>stutter. CASE UNCHANGED vars
    BY <1>stutter, <1>same, <1>caches DEF vars, clusterVars, leaderVars, NobodyWorks, BusyOK
  <1> QED BY <1>worker, <1>informer, <1>resync, <1>begin, <1>abandon, <1>election, <1>late,
             <1>relabel, <1>delete, <1>stutter
      DEF Next

---------------------------------------------------------------------------
(* The leader settles the objects.  When no informer has news and the key  *)
(* is not pending, nothing has changed since the worker read the caches,   *)
(* by its own calls or by others; so its place tells what it has found to  *)
(* be as its options ask.                                                  *)

Pending == NodeName \in queue.dirty \cup queue.delayed

Gone(S) == \A s \in S : object[s] = Absent

IsRolledOut(p) ==
    /\ object["deployment"] # Absent
    /\ object["deployment"].options.template = OptionsOf(p).template

IsServed(p) ==
    OptionsOf(p).EnableCiliumLB =>
        object["service"] # Absent /\ object["service"].options = OptionsOf(p)

\* The Services p does not want.
Unwanted(p) == {"staleService"} \cup IF OptionsOf(p).EnableCiliumLB THEN {} ELSE {"service"}

\* The last places of a reconcile.
CleanUps == {"listServices", "deleteServices", "listDeployments", "deleteDeployments", "end"}

DeployStage(p) ==
    /\ ~work.isTeardown /\ ~work.isHeld /\ work.pc # "deletePod"
    /\ work.pc = "prePull" => work.todo = PrePullCall(p)
    /\ work.pc # "prePull" => PrePullCall(p) = {}
    /\ work.pc \in CleanUps \cup {"service"} => IsRolledOut(p)
    /\ work.pc \in CleanUps => IsServed(p)
    /\ work.pc \in {"listDeployments", "deleteDeployments", "end"} => Gone(Unwanted(p))
    /\ work.pc = "end" => Gone({"staleDeployment"})

TeardownStage ==
    /\ work.isTeardown /\ ~work.isHeld /\ work.pc \in CleanUps \cup {"deletePod"}
    /\ work.pc \in {"listDeployments", "deleteDeployments", "deletePod", "end"} => Gone(Services)
    /\ work.pc \in {"deletePod", "end"} => Gone(Deployments)
    /\ work.pc = "end" => Gone(Pods)

\* What is still on a list of deletions is there to be deleted.
TodoStage ==
    work.pc \in {"deleteServices", "deleteDeployments"} =>
        \A item \in work.todo :
            /\ item[1] \in Slot
            /\ object[item[1]] # Absent
            /\ item[2] = object[item[1]].uid

Stage(p) ==
    /\ work.pc = "idle" => Settled(p)
    /\ work.pc # "idle" /\ ~work.isFailed =>
         TodoStage /\ IF managed THEN DeployStage(p) ELSE TeardownStage

StageOK == \A p \in Process : Leads(p) /\ unseen = {} /\ ~Pending => Stage(p)

StageInv == LeaderInv /\ StageOK

LEMMA StageInit == Init => StageInv
  BY LeaderInit DEF Init, LeadershipInit, StageInv, StageOK, Leads

LEMMA StageFrame ==
    ASSUME NEW p \in Process, Stage(p), UNCHANGED <<object, managed, seen, work>>
    PROVE  Stage(p)'
  <1>1. (Settled(p)' <=> Settled(p)) /\ (PrePullCall(p)' = PrePullCall(p))
    BY DEF Settled, NoObjects, PrePullCall, isPending
  <1> QED BY <1>1 DEF Stage, TodoStage, DeployStage, TeardownStage, IsRolledOut, IsServed, Gone

\* An object list without objects puts nothing on the queue.
LEMMA ListedNothing ==
    ASSUME queue' = ListedQueue, ~Pending' PROVE ~managed /\ object = NoObjects
  <1>1. NodeName \in Add(EmptyQueue, {NodeName}).dirty
    BY DEF Add, EmptyQueue
  <1> QED BY <1>1 DEF ListedQueue, Pending

\* The worker finds everything done when it looks at its list and again when
\* it deletes what is on it.
LEMMA ListStage ==
    ASSUME LeaderInv, NEW p \in Process, ListOwned(p), Stage(p) PROVE Stage(p)'
  <1> TypeOK /\ work \in Works
    BY DEF LeaderInv, TypeInv, TypeOK, Works
  <1> DEFINE list == IF work.pc = "listServices" THEN Services ELSE Deployments
             keep == IF work.isTeardown THEN {}
                     ELSE {"deployment"} \cup IF OptionsOf(p).EnableCiliumLB THEN {"service"} ELSE {}
             owned == {<<s, object[s].uid>> : s \in {t \in list \ keep : object[t] # Absent}}
             next == IF owned = {} THEN After(p, DeletesAt(work.pc)) ELSE DeletesAt(work.pc)
  <1>1. /\ work' = [work EXCEPT !.todo = owned, !.pc = next]
        /\ work.pc \in {"listServices", "listDeployments"}
        /\ UNCHANGED <<object, managed, seen>>
    BY DEF ListOwned, clusterVars
  <1>2. \A item \in owned : /\ item[1] \in Slot
                            /\ object[item[1]] # Absent
                            /\ item[2] = object[item[1]].uid
    BY SlotFacts DEF Services, Deployments
  <1>3. owned = {} => \A s \in list \ keep : object[s] = Absent
    <2> SUFFICES ASSUME owned = {}, NEW s \in list \ keep, object[s] # Absent PROVE FALSE
      OBVIOUS
    <2>1. <<s, object[s].uid>> \in owned
      OBVIOUS
    <2> QED BY <2>1
  <1>4. CASE work.isFailed
    <2>1. next # "idle"
      BY <1>1, AfterPlaces DEF DeletesAt
    <2> HIDE DEF owned, next
    <2>2. work'.pc = next /\ work'.isFailed
      BY <1>1, <1>4 DEF Works
    <2> QED BY <2>1, <2>2 DEF Stage
  <1>5. CASE ~work.isFailed
    <2>1. TodoStage /\ IF managed THEN DeployStage(p) ELSE TeardownStage
      BY <1>1, <1>5 DEF Stage
    <2>2. work.isTeardown <=> ~managed
      BY <2>1 DEF DeployStage, TeardownStage
    <2>3. ~work.isHeld
      BY <2>1 DEF DeployStage, TeardownStage
    <2>4. next = IF owned = {} THEN (IF work.pc = "listServices" THEN "listDeployments"
                                     ELSE IF work.isTeardown THEN "deletePod" ELSE "end")
                 ELSE (IF work.pc = "listServices" THEN "deleteServices" ELSE "deleteDeployments")
      BY <1>1, <2>3, AfterPlaces DEF DeletesAt
    <2>5. CASE work.pc = "listServices"
      <3>1. next \in {"listDeployments", "deleteServices"}
        BY <2>4, <2>5
      <3>2. next = "listDeployments" => \A s \in Services \ keep : object[s] = Absent
        BY <1>3, <2>4, <2>5
      <3>3. IF managed THEN Unwanted(p) = Services \ keep ELSE keep = {}
        BY <2>2 DEF Unwanted, Services
      <3> HIDE DEF owned, next, keep, list
      <3>4. /\ work'.pc = next /\ work'.todo = owned /\ ~work'.isFailed
            /\ work'.isTeardown = work.isTeardown /\ work'.isHeld = work.isHeld
        BY <1>1, <1>5 DEF Works
      <3>5. PrePullCall(p)' = PrePullCall(p)
        BY <1>1 DEF PrePullCall, isPending
      <3>6. TodoStage'
        BY <1>1, <1>2, <3>4 DEF TodoStage
      <3>7. CASE managed
        <4>1. DeployStage(p)'
          BY <1>1, <2>1, <2>5, <3>1, <3>2, <3>3, <3>4, <3>5, <3>7
          DEF DeployStage, IsRolledOut, IsServed, Gone, CleanUps
        <4> QED BY <1>1, <3>1, <3>4, <3>6, <3>7, <4>1 DEF Stage
      <3>8. CASE ~managed
        <4>1. TeardownStage'
          BY <1>1, <2>1, <2>5, <3>1, <3>2, <3>3, <3>4, <3>8 DEF TeardownStage, Gone, CleanUps
        <4> QED BY <1>1, <3>1, <3>4, <3>6, <3>8, <4>1 DEF Stage
      <3> QED BY <3>7, <3>8
    <2>6. CASE work.pc = "listDeployments"
      <3>1. next \in {"deleteDeployments", IF managed THEN "end" ELSE "deletePod"}
        BY <2>2, <2>4, <2>6
      <3>2. next # "deleteDeployments" => \A s \in Deployments \ keep : object[s] = Absent
        BY <1>3, <2>4, <2>6
      <3>3. IF managed THEN {"staleDeployment"} \subseteq Deployments \ keep ELSE keep = {}
        BY <2>2 DEF Deployments
      <3> HIDE DEF owned, next, keep, list
      <3>4. /\ work'.pc = next /\ work'.todo = owned /\ ~work'.isFailed
            /\ work'.isTeardown = work.isTeardown /\ work'.isHeld = work.isHeld
        BY <1>1, <1>5 DEF Works
      <3>5. PrePullCall(p)' = PrePullCall(p)
        BY <1>1 DEF PrePullCall, isPending
      <3>6. TodoStage'
        BY <1>1, <1>2, <3>4 DEF TodoStage
      <3>7. CASE managed
        <4>1. DeployStage(p)'
          BY <1>1, <2>1, <2>6, <3>1, <3>2, <3>3, <3>4, <3>5, <3>7
          DEF DeployStage, IsRolledOut, IsServed, Gone, CleanUps
        <4> QED BY <1>1, <3>1, <3>4, <3>6, <3>7, <4>1 DEF Stage
      <3>8. CASE ~managed
        <4>1. TeardownStage'
          BY <1>1, <2>1, <2>6, <3>1, <3>2, <3>3, <3>4, <3>8 DEF TeardownStage, Gone, CleanUps
        <4> QED BY <1>1, <3>1, <3>4, <3>6, <3>8, <4>1 DEF Stage
      <3> QED BY <3>7, <3>8
    <2> QED BY <1>1, <2>5, <2>6
  <1> QED BY <1>4, <1>5

\* A reconcile that goes on is not over.
LEMMA AfterGoesOn ==
    ASSUME NEW p \in Process, NEW pc \in CallPlaces PROVE After(p, pc) # "idle"
  BY AfterPlaces DEF CallPlaces, ListPlaces

\* A request that leaves no news has changed nothing: its object was as the
\* request wants it, or it is a deletion that had nothing to delete.
LEMMA ServedWithoutNews ==
    ASSUME TypeOK, NEW p \in Process, Leads(p), NEW r \in Requests, Serve(r), unseen' = {}
    PROVE  /\ object' = object
           /\ r.options # Absent =>
                object[r.slot] # Absent /\ object[r.slot].options = r.options
           /\ r.options = Absent => object[r.slot] = Absent \/ ~meetsPrecondition(r)
  <1>1. object'[r.slot] = object[r.slot]
    BY ServeFacts
  <1>2. /\ object' \in [Slot -> Objects \cup {Absent}] /\ object \in [Slot -> Objects \cup {Absent}]
        /\ \A t \in Slot \ {r.slot} : object'[t] = object[t]
    BY ServeFacts DEF TypeOK
  <1> QED BY <1>1, <1>2, ServeFacts

\* A list of deletions or a pre-pull that is due always makes news.
LEMMA ListedCallsMakeNews ==
    ASSUME LeaderInv, NEW p \in Process, Leads(p), unseen = {}, NEW r \in Calls(p), Serve(r),
           TodoStage, work.pc = "prePull" => work.todo = PrePullCall(p),
           work.pc \in ListPlaces
    PROVE  unseen' # {}
  <1> SUFFICES ASSUME unseen' = {} PROVE FALSE
    OBVIOUS
  <1> TypeOK /\ TypeInv /\ CachesOK
    BY DEF LeaderInv, TypeInv
  <1>0. r \in Requests
    BY CallType
  <1>1. PICK item \in work.todo :
          r = IF item[2] = 0 THEN ApplyOf(p, item[1]) ELSE DeleteOf(item[1], item[2])
    BY CallType
  <1>2. /\ r.options # Absent => object[r.slot] # Absent
        /\ r.options = Absent => object[r.slot] = Absent \/ ~meetsPrecondition(r)
    BY <1>0, ServedWithoutNews
  <1>3. OptionsOf(p) # Absent /\ 0 \notin UID
    BY NodeObjectsAssumption
  <1>4. ASSUME object[item[1]] # Absent, item[2] = object[item[1]].uid, item[1] \in Slot
        PROVE  FALSE
    <2>1. item[2] \in UID
      BY <1>4 DEF TypeOK, Objects
    <2>2. r = DeleteOf(item[1], item[2])
      BY <1>1, <1>3, <2>1
    <2>3. r.slot = item[1] /\ r.options = Absent /\ r.uid = item[2]
      BY <2>2 DEF DeleteOf
    <2> QED BY <1>2, <1>4, <2>3 DEF meetsPrecondition
  <1>5. CASE work.pc = "prePull"
    <2>1. seen["prePull"] = object["prePull"]
      BY DEF CachesOK
    <2>2. item \in PrePullCall(p)
      BY <1>5
    <2>3. CASE seen["prePull"] # Absent
      <3>1. PrePullCall(p) \in {{<<"prePull", seen["prePull"].uid>>}, {}}
        BY <2>3 DEF PrePullCall
      <3>2. item[1] = "prePull" /\ item[2] = seen["prePull"].uid
        BY <2>2, <3>1
      <3> QED BY <1>4, <2>1, <2>3, <3>2, SlotFacts
    <2>4. CASE seen["prePull"] = Absent
      <3>1. PrePullCall(p) \in {{<<"prePull", 0>>}, {}}
        BY <2>4 DEF PrePullCall
      <3>2. item[1] = "prePull" /\ item[2] = 0
        BY <2>2, <3>1
      <3>3. r.slot = "prePull" /\ r.options = OptionsOf(p)
        BY <1>1, <3>2 DEF ApplyOf
      <3> QED BY <1>2, <1>3, <2>1, <2>4, <3>3
    <2> QED BY <2>3, <2>4
  <1>6. CASE work.pc \in {"deleteServices", "deleteDeployments"}
    BY <1>4, <1>6 DEF TodoStage
  <1> QED BY <1>5, <1>6 DEF ListPlaces

\* A call that is served brings the reconcile one stage further.
LEMMA CallStage ==
    ASSUME LeaderInv, NEW p \in Process, Leads(p), CallServed(p), Stage(p), unseen' = {}
    PROVE  Stage(p)'
  <1> TypeOK /\ TypeInv /\ TodoOK /\ CachesOK /\ work \in Works
    BY DEF LeaderInv, TypeInv, TypeOK, Works
  <1>1. PICK r \in Calls(p) : /\ Serve(r) /\ Proceed(p, r, isSuccess(r))
                              /\ UNCHANGED <<managed, seen>>
    BY DEF CallServed
  <1>2. r \in Requests /\ work.pc \in CallPlaces
    BY CallType
  <1>3. unseen = {} /\ object' = object
    BY <1>1, <1>2, ServeFacts, ServedWithoutNews
  <1> DEFINE ok == isSuccess(r)
             rest == IF ok THEN work.todo \ {<<r.slot, r.uid>>} ELSE {}
             next == IF rest # {} THEN work.pc
                     ELSE IF ok \/ work.isTeardown THEN After(p, work.pc) ELSE "end"
  <1>4. /\ work'.todo = rest /\ work'.pc = next /\ work'.isFailed = (work.isFailed \/ ~ok)
        /\ work'.isTeardown = work.isTeardown /\ work'.isHeld = work.isHeld
    BY <1>1 DEF Proceed, Works
  <1>5. next # "idle"
    BY <1>2, AfterGoesOn DEF CallPlaces, ListPlaces
  <1> HIDE DEF ok, rest, next
  <1>6. CASE work.isFailed \/ ~ok
    BY <1>4, <1>5, <1>6 DEF Stage
  <1>7. CASE ~work.isFailed /\ ok
    <2>0. work.pc # "idle"
      BY <1>2 DEF CallPlaces, ListPlaces
    <2>1. TodoStage /\ IF managed THEN DeployStage(p) ELSE TeardownStage
      BY <1>7, <2>0 DEF Stage
    <2>2. work.pc = "prePull" => managed /\ work.todo = PrePullCall(p)
      BY <2>1 DEF DeployStage, TeardownStage, CleanUps
    <2>3. work.pc \in {"rollout", "service", "deletePod"}
      BY <1>1, <1>2, <1>3, <2>1, <2>2, ListedCallsMakeNews DEF CallPlaces
    <2>4. work.todo = {}
      BY <2>3 DEF TodoOK, ListPlaces
    <2>5. rest = {} /\ next = After(p, work.pc)
      BY <1>7, <2>4 DEF rest, next
    <2>6. PrePullCall(p)' = PrePullCall(p)
      BY <1>1 DEF PrePullCall, isPending
    <2>7. /\ r.options # Absent => object[r.slot] # Absent /\ object[r.slot].options = r.options
          /\ r.options = Absent => object[r.slot] = Absent \/ ~meetsPrecondition(r)
      BY <1>1, <1>2, <1>3, ServedWithoutNews
    <2>8. OptionsOf(p) # Absent
      BY NodeObjectsAssumption
    <2>9. TodoStage'
      BY <1>4, <2>5 DEF TodoStage
    <2>10. CASE work.pc = "rollout"
      <3>1. r.slot = "deployment" /\ r.options = OptionsOf(p)
        BY <2>10, CallType DEF ApplyOf
      <3>2. IsRolledOut(p)
        BY <2>7, <2>8, <3>1 DEF IsRolledOut
      <3>3. next \in {"service", "listServices"} /\ (next = "listServices" => IsServed(p))
        BY <2>5, <2>10, AfterPlaces DEF IsServed
      <3>4. managed
        BY <2>1, <2>10 DEF TeardownStage, CleanUps
      <3>5. DeployStage(p)'
        BY <1>1, <1>3, <1>4, <2>1, <2>6, <2>10, <3>2, <3>3, <3>4
        DEF DeployStage, IsRolledOut, IsServed, Gone, CleanUps
      <3> QED BY <1>1, <1>4, <1>5, <2>9, <3>4, <3>5 DEF Stage
    <2>11. CASE work.pc = "service"
      <3>1. r.slot = "service" /\ r.options = OptionsOf(p)
        BY <2>11, CallType DEF ApplyOf
      <3>2. IsServed(p)
        BY <2>7, <2>8, <3>1 DEF IsServed
      <3>3. next = "listServices"
        BY <2>5, <2>11, AfterPlaces
      <3>4. managed
        BY <2>1, <2>11 DEF TeardownStage, CleanUps
      <3>5. DeployStage(p)'
        BY <1>1, <1>3, <1>4, <2>1, <2>6, <2>11, <3>2, <3>3, <3>4
        DEF DeployStage, IsRolledOut, IsServed, Gone, CleanUps
      <3> QED BY <1>1, <1>4, <1>5, <2>9, <3>4, <3>5 DEF Stage
    <2>12. CASE work.pc = "deletePod"
      <3>1. r.slot = "prePull" /\ r.options = Absent /\ r.uid = 0
        BY <2>12, CallType DEF DeleteOf
      <3>2. object["prePull"] = Absent
        BY <2>7, <3>1 DEF meetsPrecondition
      <3>3. next = "end"
        BY <2>5, <2>12, AfterPlaces
      <3>4. ~managed
        BY <2>1, <2>12 DEF DeployStage
      <3>5. TeardownStage'
        BY <1>1, <1>3, <1>4, <2>1, <2>12, <3>2, <3>3, <3>4
        DEF TeardownStage, Gone, CleanUps, Pods
      <3> QED BY <1>1, <1>4, <1>5, <2>9, <3>4, <3>5 DEF Stage
    <2> QED BY <2>3, <2>10, <2>11, <2>12
  <1> QED BY <1>6, <1>7

\* At the end of a reconcile everything is as p's options ask.
LEMMA EndStage ==
    ASSUME LeaderInv, NEW p \in Process, Leads(p), unseen = {}, Stage(p), work.pc = "end",
           ~work.isFailed
    PROVE  Settled(p)
  <1> TypeOK /\ CachesOK
    BY DEF LeaderInv, TypeInv
  <1>0. IF managed THEN DeployStage(p) ELSE TeardownStage
    BY DEF Stage
  <1>1. CASE managed
    <2>1. /\ PrePullCall(p) = {} /\ IsRolledOut(p) /\ IsServed(p) /\ Gone(Unwanted(p))
          /\ object["staleDeployment"] = Absent
      BY <1>0, <1>1 DEF DeployStage, CleanUps, Gone
    <2>2. seen["deployment"] = object["deployment"] /\ seen["prePull"] = object["prePull"]
      BY DEF CachesOK
    <2>3. ~isPending(p)
      BY <2>1, <2>2 DEF isPending, IsRolledOut
    <2>4. object["prePull"] = Absent
      <3> SUFFICES ASSUME object["prePull"] # Absent PROVE FALSE
        OBVIOUS
      <3>1. PrePullCall(p) = {<<"prePull", seen["prePull"].uid>>}
        BY <2>2, <2>3 DEF PrePullCall
      <3> QED BY <2>1, <3>1
    <2>5. /\ object["staleService"] = Absent
          /\ ~OptionsOf(p).EnableCiliumLB => object["service"] = Absent
      BY <2>1 DEF Gone, Unwanted
    <2> QED BY <1>1, <2>1, <2>4, <2>5 DEF Settled, IsRolledOut, IsServed
  <1>2. CASE ~managed
    <2>1. Gone(Services) /\ Gone(Deployments) /\ Gone(Pods)
      BY <1>0, <1>2 DEF TeardownStage
    <2>2. \A s \in Slot : object[s] = Absent
      BY <2>1 DEF Gone, Slot, Informers
    <2>3. object = NoObjects
      BY <2>2 DEF TypeOK, NoObjects
    <2> QED BY <1>2, <2>3 DEF Settled
  <1> QED BY <1>1, <1>2

\* Whatever the worker of the leader does, its place still tells the truth.
LEMMA WorkerStage ==
    ASSUME LeaderInv, StageOK, NEW p \in Process, Worker(p), unseen' = {}, ~Pending'
    PROVE  Stage(p)'
  <1> /\ TypeOK /\ TypeInv /\ TodoOK /\ CachesOK /\ work \in Works
      /\ queue \in QueueOf({NodeName}) /\ Leads(p)
    BY DEF LeaderInv, TypeInv, TypeOK, Works, Worker
  <1>get. CASE GetNode(p)
    <2>1. UNCHANGED <<object, managed, seen>>
      BY <1>get DEF GetNode, clusterVars
    <2>2. PrePullCall(p)' = PrePullCall(p)
      BY <2>1 DEF PrePullCall, isPending
    <2>3. CASE managed
      <3>1. /\ work'.pc = IF PrePullCall(p) = {} THEN "rollout" ELSE "prePull"
            /\ work'.todo = PrePullCall(p)
            /\ ~work'.isTeardown /\ ~work'.isHeld
        BY <1>get, <2>3 DEF GetNode, Idle
      <3>2. DeployStage(p)' /\ TodoStage'
        BY <2>1, <2>2, <3>1 DEF DeployStage, TodoStage, CleanUps
      <3> QED BY <2>1, <2>3, <3>1, <3>2 DEF Stage
    <2>4. CASE ~managed
      <3>1. work'.pc = "listServices" /\ work'.isTeardown /\ ~work'.isHeld
        BY <1>get, <2>4 DEF GetNode, Idle
      <3>2. TeardownStage' /\ TodoStage'
        BY <3>1 DEF TeardownStage, TodoStage, CleanUps
      <3> QED BY <2>1, <2>4, <3>1, <3>2 DEF Stage
    <2> QED BY <2>3, <2>4
  <1>hold. CASE HoldRollout(p)
    BY <1>hold, QueueFields DEF HoldRollout, Pending
  <1>list. CASE ListOwned(p)
    <2>1. unseen = {} /\ ~Pending
      BY <1>list DEF ListOwned, Pending
    <2> QED BY <1>list, <2>1, ListStage DEF StageOK
  <1>listfail. CASE ListFails(p)
    <2>1. DeletesAt(work.pc) \in {"deleteServices", "deleteDeployments"}
      BY DEF DeletesAt
    <2>2. After(p, DeletesAt(work.pc)) # "idle"
      BY <2>1, AfterGoesOn DEF CallPlaces, ListPlaces
    <2>3. work'.pc # "idle" /\ work'.isFailed
      BY <1>listfail, <2>2 DEF ListFails, Works
    <2> QED BY <2>3 DEF Stage
  <1>served. CASE CallServed(p)
    <2>1. PICK r \in Calls(p) : Serve(r) /\ UNCHANGED queue
      BY <1>served DEF CallServed
    <2>2. unseen = {} /\ ~Pending
      BY <2>1, CallType, ServeFacts DEF Pending
    <2> QED BY <1>served, <2>2, CallStage DEF StageOK
  <1>fails. CASE CallFails(p)
    <2>1. PICK r \in Calls(p) : Proceed(p, r, FALSE)
      BY <1>fails DEF CallFails
    <2>2. After(p, work.pc) # "idle"
      BY CallType, AfterGoesOn
    <2>3. work'.pc # "idle" /\ work'.isFailed
      BY <2>1, <2>2 DEF Proceed, Works
    <2> QED BY <2>3 DEF Stage
  <1>end. CASE EndReconcile
    <2>1. UNCHANGED <<object, managed, unseen>> /\ work'.pc = "idle" /\ work.pc = "end"
      BY <1>end DEF EndReconcile, clusterVars, Idle
    <2>2. ~work.isFailed /\ ~Pending
      BY <1>end, QueueFields DEF EndReconcile, Handled, Pending
    <2>3. Settled(p)
      BY <2>1, <2>2, EndStage DEF StageOK
    <2>4. Settled(p)'
      BY <2>1, <2>3 DEF Settled, NoObjects
    <2> QED BY <2>1, <2>4 DEF Stage
  <1> QED BY <1>get, <1>hold, <1>list, <1>listfail, <1>served, <1>fails, <1>end DEF Worker

\* Every step keeps the stages: one that disturbs them makes news or puts the
\* key back on the queue.
LEMMA StageStep == StageInv /\ [Next]_vars => StageInv'
  <1> SUFFICES ASSUME StageInv, [Next]_vars, NEW p \in Process, Leads(p)', unseen' = {}, ~Pending'
               PROVE  Stage(p)'
    BY LeaderStep DEF StageInv, StageOK
  <1> /\ LeaderInv /\ StageOK /\ TypeOK /\ LeadershipTypeOK /\ ElectionOK
      /\ NobodyWorks /\ queue \in QueueOf({NodeName})
    BY DEF StageInv, LeaderInv, TypeInv, TypeOK
  <1>frame. ASSUME Leads(p), unseen = {}, ~Pending, UNCHANGED <<object, managed, seen, work>>
            PROVE  Stage(p)'
    BY <1>frame, StageFrame DEF StageOK
  <1>same. UNCHANGED electionVars => Leads(p)
    BY DEF electionVars, Leads
  <1>worker. ASSUME NEW q \in Process, Worker(q) PROVE Stage(p)'
    <2>1. p = q
      BY <1>worker, <1>same, OneLeader DEF Worker
    <2> QED BY <1>worker, <2>1, WorkerStage
  <1>informer. ASSUME NEW q \in Process, Informer(q) PROVE FALSE
    BY <1>informer, QueueFields DEF Informer, DelayExpires, ObjectEvent, Pending
  <1>resync. ASSUME NEW q \in Process, Resync(q) PROVE Stage(p)'
    <2>1. UNCHANGED <<electionVars, object, managed, seen, unseen, work>> /\ queue = EmptyQueue
      BY <1>resync DEF Resync, InformerResync, clusterVars
    <2>2. ~Pending
      BY <2>1 DEF Pending, EmptyQueue
    <2> QED BY <2>1, <2>2, <1>same, <1>frame
  <1>begin. ASSUME NEW q \in Process, Begin(q) PROVE Stage(p)'
    <2>1. StartWorkers(q) /\ queue' = ListedQueue /\ UNCHANGED <<object, managed, work>>
      BY <1>begin DEF Begin, clusterVars
    <2>2. work' = Idle
      BY <2>1, LeadersChange DEF NobodyWorks
    <2>3. ~managed /\ object = NoObjects
      BY <2>1, ListedNothing
    <2>4. Settled(p)'
      BY <2>1, <2>3 DEF Settled, NoObjects
    <2> QED BY <2>2, <2>4 DEF Stage, Idle
  <1>abandon. ASSUME NEW q \in Process, Abandon(q) PROVE Stage(p)'
    <2>1. ~Leads(q)
      BY <1>abandon, LeadersChange DEF Abandon
    <2>2. UNCHANGED <<object, managed, leaderVars>> /\ Leads(p)
      BY <1>abandon, <2>1, LeadsKept DEF Abandon
    <2> QED BY <2>2, <1>frame DEF leaderVars, Pending
  <1>election. ASSUME NEW q \in Process, ElectionStep(q) \/ FailToStart(q) PROVE Stage(p)'
    <2>1. UNCHANGED <<object, managed, leaderVars>>
      BY <1>election DEF ElectionStep, FailToStart, clusterVars
    <2>2. Leads(p)
      BY <1>election, LeadsKept DEF ElectionStep, FailToStart
    <2> QED BY <2>1, <2>2, <1>frame DEF leaderVars, Pending
  <1>late. CASE LateServed
    <2>1. UNCHANGED <<electionVars, managed, seen, queue, work>> /\ Serve(late) /\ late \in Requests
      BY <1>late DEF LateServed, TypeOK
    <2>2. unseen = {} /\ object' = object
      BY <2>1, <1>same, ServeFacts, ServedWithoutNews
    <2> QED BY <2>1, <2>2, <1>same, <1>frame DEF Pending
  <1>relabel. CASE RelabelNode
    BY <1>relabel, <1>same, QueueFields DEF RelabelNode, Pending
  <1>delete. ASSUME NEW s \in Slot, DeleteObject(s) PROVE FALSE
    <2>1. Write(s, Absent) /\ object[s] # Absent /\ Leads(p)
      BY <1>delete, <1>same DEF DeleteObject
    <2> QED BY <2>1, WriteFacts
  <1>stutter. CASE UNCHANGED vars
    BY <1>stutter, <1>same, <1>frame DEF vars, clusterVars, leaderVars, Pending
  <1> QED BY <1>worker, <1>informer, <1>resync, <1>begin, <1>abandon, <1>election, <1>late,
             <1>relabel, <1>delete, <1>stutter
      DEF Next

\* applyCaddy and Teardown reach their goal: a leader that has nothing left to
\* do and no news to hear has the objects its options ask for.
THEOREM SettledWhenQuiescent == Spec => []QuiescentMeansSettled
  <1>1. StageInv => QuiescentMeansSettled
    <2> SUFFICES ASSUME StageInv, NEW p \in Process, Leads(p), IsIdle(queue, NodeName), unseen = {}
                 PROVE  Settled(p)
      BY DEF QuiescentMeansSettled
    <2>1. Stage(p) /\ BusyOK
      BY DEF StageInv, LeaderInv, StageOK, Pending, IsIdle
    <2>2. work.pc = "idle"
      BY <2>1 DEF BusyOK, IsIdle
    <2> QED BY <2>1, <2>2 DEF Stage
  <1> QED BY <1>1, StageInit, StageStep, PTL DEF Spec
=============================================================================
