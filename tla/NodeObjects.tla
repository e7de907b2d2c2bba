---------------------------- MODULE NodeObjects ----------------------------
(***************************************************************************)
(* The API objects of one node: its Deployment, its load balancer Service, *)
(* its pre-pull pod, and what managers with other naming rules have left.  *)
(* A worker of the leader brings them to what its options ask for, one API *)
(* call at a time.  A call may fail and still be carried out, even after   *)
(* another process, with other options, has become the leader.             *)
(*                                                                         *)
(* Names and labels keep the objects of different nodes apart, so one node *)
(* stands for all; whether a rollout is held is Rollout's subject.         *)
(***************************************************************************)
EXTENDS Leadership, WorkQueue

CONSTANTS OptionsOf(_),  \* the deploy options of a process
          Template,      \* pod templates, each with an image of its own
          UID,           \* UIDs of objects; 0 stands for none
          Absent,        \* no object or request, Go nil
          Limit          \* how many disturbances there are: processes that stop,
                         \* calls that fail, held rollouts, and users who
                         \* relabel the node or delete an object

Services == {"service", "staleService"}
Deployments == {"deployment", "staleDeployment"}
Pods == {"prePull"}
Informers == {Services, Deployments, Pods}
Slot == UNION Informers

Options == [template : Template, EnableCiliumLB : BOOLEAN]
Objects == [uid : UID, options : Options]

\* An apply carries options, a delete the UID of its precondition.
Requests == [slot : Slot, options : Options \cup {Absent}, uid : UID \cup {0}]

ASSUME NodeObjectsAssumption ==
    /\ \A p \in Process : OptionsOf(p) \in Options
    /\ UID \subseteq Nat \ {0}
    /\ Absent \notin Options /\ Absent \notin Objects /\ Absent \notin Requests
    /\ Limit \in Nat

VARIABLES
    object,   \* the objects in the API server
    managed,  \* the node's labels match the selector
    seen,     \* the objects in the leader's caches that syncRollout reads
    unseen,   \* informers with changes they have not delivered
    queue,    \* the leader's work queue; the node's name is its only key
    work,     \* what the worker that holds the key is doing
    late,     \* a call that was given up and may still be carried out
    replaced, \* its object was created only since then (history)
    budget    \* disturbances left

clusterVars == <<object, managed, late, replaced>>
leaderVars == <<seen, unseen, queue, work>>
vars == <<electionVars, clusterVars, leaderVars, budget>>

NodeName == "node"

NoObjects == [s \in Slot |-> Absent]

\* What the caches show of the objects.
Cached(objects) == [s \in {"deployment", "prePull"} |-> objects[s]]

Idle == [pc |-> "idle", todo |-> {}, isTeardown |-> FALSE, isPending |-> FALSE,
         isHeld |-> FALSE, isFailed |-> FALSE]

Places == {"idle", "prePull", "rollout", "service", "listServices", "deleteServices",
           "listDeployments", "deleteDeployments", "deletePod", "end"}

TypeOK ==
    /\ LeadershipTypeOK
    /\ object \in [Slot -> Objects \cup {Absent}]
    /\ managed \in BOOLEAN
    /\ seen \in [{"deployment", "prePull"} -> Objects \cup {Absent}]
    /\ unseen \subseteq Informers
    /\ queue \in QueueOf({NodeName})
    /\ work \in [pc : Places, todo : SUBSET (Slot \X (UID \cup {0})), isTeardown : BOOLEAN,
                 isPending : BOOLEAN, isHeld : BOOLEAN, isFailed : BOOLEAN]
    /\ late \in Requests \cup {Absent}
    /\ replaced \in BOOLEAN
    /\ budget \in Nat

\* The node is new, or some process had brought it to its options under the
\* names of today after an earlier version had done so under its own.
Init ==
    /\ LeadershipInit
    /\ \E p \in Process : \E slots \in {{}, Services \cup Deployments} : \E uid \in UID :
         /\ \A u \in UID : uid <= u
         /\ object = [s \in Slot |-> IF s \in slots THEN [uid |-> uid, options |-> OptionsOf(p)]
                                     ELSE Absent]
    /\ managed \in BOOLEAN
    /\ seen = Cached(NoObjects)
    /\ unseen = {}
    /\ queue = EmptyQueue
    /\ work = Idle
    /\ late = Absent
    /\ replaced = FALSE
    /\ budget = Limit

Disturb == budget > 0 /\ budget' = budget - 1

---------------------------------------------------------------------------
(* Requests and their effect. *)

ApplyOf(p, s) == [slot |-> s, options |-> OptionsOf(p), uid |-> 0]

DeleteOf(s, uid) == [slot |-> s, options |-> Absent, uid |-> uid]

UsedUIDs(s) ==
    LET known == {object[s]} \cup {seen[t] : t \in DOMAIN seen \cap {s}}
    IN {u \in UID : \/ \E o \in known : o # Absent /\ o.uid = u
                    \/ <<s, u>> \in work.todo
                    \/ late # Absent /\ late.slot = s /\ late.uid = u}

FreshUIDs(s) == {u \in UID \ UsedUIDs(s) : \A v \in UID \ UsedUIDs(s) : u <= v}

\* A plausible bug: the deletion has no precondition.
meetsNoPrecondition(r) == TRUE

\* metav1.Preconditions; without a UID there is none.
meetsPrecondition(r) == r.uid \in {0, object[r.slot].uid}

Response(r) ==
    IF r.options # Absent THEN "OK"
    ELSE IF object[r.slot] = Absent THEN "NotFound"
    ELSE IF meetsPrecondition(r) THEN "OK" ELSE "Conflict"

\* An object changes, and a leader's informers are told.
Write(s, o) ==
    /\ object' = [object EXCEPT ![s] = o]
    /\ unseen' = IF o # object[s] /\ \E p \in Process : Leads(p)
                 THEN unseen \cup {i \in Informers : s \in i} ELSE unseen

\* The API server carries out r.  Server-side apply creates the object or
\* changes it in place.
Serve(r) ==
    IF Response(r) # "OK" THEN UNCHANGED <<object, unseen>>
    ELSE IF r.options = Absent THEN Write(r.slot, Absent)
    ELSE IF object[r.slot] # Absent THEN Write(r.slot, [object[r.slot] EXCEPT !.options = r.options])
    ELSE \E u \in FreshUIDs(r.slot) : Write(r.slot, [uid |-> u, options |-> r.options])

\* The worker takes the response for a success: a missing object is a deleted
\* one, and a pre-pull pod that was replaced is not the one to delete.
isSuccess(r) == Response(r) \in {"OK", "NotFound"} \/ r.slot = "prePull"

\* The object of the request that was given up is created or deleted.
UpdateReplaced ==
    replaced' = /\ late # Absent
                /\ object'[late.slot] # Absent
                /\ replaced \/ object[late.slot] = Absent

---------------------------------------------------------------------------
(* The leader's worker. *)

isPending(p) ==
    seen["deployment"] # Absent /\ seen["deployment"].options.template # OptionsOf(p).template

\* syncPrePullPod: the pod to delete, or UID 0 to create one, or nothing.  A
\* template has an image of its own, so a pending node needs its pre-pull.
PrePullCall(p) ==
    LET pod == seen["prePull"]
        isKept == isPending(p) /\ pod.options.template = OptionsOf(p).template
    IN CASE pod # Absent /\ ~isKept -> {<<"prePull", pod.uid>>}
         [] pod = Absent /\ isPending(p) -> {<<"prePull", 0>>}
         [] OTHER -> {}

\* reconcileNode reads the caches.
GetNode(p) ==
    /\ NodeName \in Ready(queue)
    /\ queue' = Get(queue, NodeName)
    /\ work' = IF ~managed THEN [Idle EXCEPT !.pc = "listServices", !.isTeardown = TRUE]
               ELSE [Idle EXCEPT !.pc = IF PrePullCall(p) = {} THEN "rollout" ELSE "prePull",
                                 !.todo = PrePullCall(p), !.isPending = isPending(p)]
    /\ UNCHANGED <<clusterVars, seen, unseen, budget>>

\* Where the worker is after a call, or a list of calls, at pc.
After(p, pc) ==
    CASE pc = "prePull" -> "rollout"
      [] pc = "rollout" -> IF OptionsOf(p).EnableCiliumLB THEN "service" ELSE "listServices"
      [] pc = "service" -> "listServices"
      [] pc = "deleteServices" -> IF work.isHeld THEN "end" ELSE "listDeployments"
      [] pc = "deleteDeployments" -> IF work.isTeardown THEN "deletePod" ELSE "end"
      [] pc = "deletePod" -> "end"

\* admitRollout holds the rollout.  The Service is still brought up to date if
\* there is to be one; nothing is deleted for the Deployment that stays.
HoldRollout(p) ==
    /\ work.pc = "rollout"
    /\ work.isPending
    /\ Disturb
    /\ queue' = AddAfter(queue, NodeName)
    /\ work' = [work EXCEPT !.isHeld = TRUE,
                            !.pc = IF OptionsOf(p).EnableCiliumLB THEN "service" ELSE "end"]
    /\ UNCHANGED <<clusterVars, seen, unseen>>

\* Where the worker deletes what it lists at pc.
DeletesAt(pc) == IF pc = "listServices" THEN "deleteServices" ELSE "deleteDeployments"

\* deleteServicesExcept and deleteDeploymentsExcept list what the node owns.
ListOwned(p) ==
    LET list == IF work.pc = "listServices" THEN Services ELSE Deployments
        keep == IF work.isTeardown THEN {}
                ELSE {"deployment"} \cup IF OptionsOf(p).EnableCiliumLB THEN {"service"} ELSE {}
        owned == {<<s, object[s].uid>> : s \in {t \in list \ keep : object[t] # Absent}}
        pc == DeletesAt(work.pc)
    IN /\ work.pc \in {"listServices", "listDeployments"}
       /\ work' = [work EXCEPT !.todo = owned, !.pc = IF owned = {} THEN After(p, pc) ELSE pc]
       /\ UNCHANGED <<clusterVars, seen, unseen, queue, budget>>

\* The list fails.  Teardown goes on with the next one.
ListFails(p) ==
    /\ work.pc \in {"listServices", "listDeployments"}
    /\ Disturb
    /\ work' = [work EXCEPT !.isFailed = TRUE,
                            !.pc = IF work.isTeardown THEN After(p, DeletesAt(@)) ELSE "end"]
    /\ UNCHANGED <<clusterVars, seen, unseen, queue>>

\* The requests the worker may send next; a list of objects has any order.
Calls(p) ==
    CASE work.pc = "rollout" -> {ApplyOf(p, "deployment")}
      [] work.pc = "service" -> {ApplyOf(p, "service")}
      [] work.pc = "deletePod" -> {DeleteOf("prePull", 0)}
      [] OTHER -> {IF item[2] = 0 THEN ApplyOf(p, item[1]) ELSE DeleteOf(item[1], item[2]) :
                   item \in work.todo}

\* The worker goes on after r.  An error ends the reconcile; in Teardown it
\* ends the list at hand, the other deletions are tried all the same.
Proceed(p, r, ok) ==
    LET rest == IF ok THEN work.todo \ {<<r.slot, r.uid>>} ELSE {}
    IN work' = [work EXCEPT !.todo = rest, !.isFailed = @ \/ ~ok,
                            !.pc = IF rest # {} THEN @
                                   ELSE IF ok \/ work.isTeardown THEN After(p, @) ELSE "end"]

CallServed(p) ==
    \E r \in Calls(p) :
        /\ Serve(r)
        /\ Proceed(p, r, isSuccess(r))
        /\ UpdateReplaced
        /\ UNCHANGED <<managed, late, seen, queue, budget>>

\* The call fails without effect, with its effect, or leaves a request behind
\* that may still be carried out.
CallFails(p) ==
    \E r \in Calls(p) :
        /\ Disturb
        /\ Proceed(p, r, FALSE)
        /\ \/ UNCHANGED <<object, unseen, late>>
           \/ Serve(r) /\ UNCHANGED late
           \/ late = Absent /\ late' = r /\ UNCHANGED <<object, unseen>>
        /\ UpdateReplaced
        /\ UNCHANGED <<managed, seen, queue>>

\* A plausible bug: the error of an earlier deletion is dropped.
Forgiven == Done(queue, NodeName)

\* processNextItem: an error brings the key back later.
Handled == IF work.isFailed THEN Retry(queue, NodeName) ELSE Done(queue, NodeName)

\* The end of the reconcile, as far as it is about these objects.
EndReconcile ==
    /\ work.pc = "end"
    /\ queue' = Handled
    /\ work' = Idle
    /\ UNCHANGED <<clusterVars, seen, unseen, budget>>

DelayExpires ==
    /\ NodeName \in queue.delayed
    /\ queue' = Expire(queue, NodeName)
    /\ UNCHANGED <<clusterVars, seen, unseen, work, budget>>

\* managedObjectHandler, on the three informers.
ObjectEvent(i) ==
    /\ i \in unseen
    /\ unseen' = unseen \ {i}
    /\ seen' = [s \in DOMAIN seen |-> IF s \in i THEN object[s] ELSE seen[s]]
    /\ queue' = Add(queue, {NodeName})
    /\ UNCHANGED <<clusterVars, work, budget>>

\* A list of all objects puts the node on the queue if it is managed or owns
\* objects: nodeHandler and managedObjectHandler.
ListedQueue == IF managed \/ object # NoObjects THEN Add(EmptyQueue, {NodeName}) ELSE EmptyQueue

\* informerResync; as in Rollout, while the queue is busy it adds nothing new.
InformerResync == queue = EmptyQueue /\ queue' = ListedQueue /\ UNCHANGED <<clusterVars, seen, unseen, work, budget>>

Worker(p) ==
    /\ Leads(p)
    /\ UNCHANGED electionVars
    /\ \/ GetNode(p) \/ HoldRollout(p) \/ ListOwned(p) \/ ListFails(p) \/ CallServed(p) \/ CallFails(p)
       \/ EndReconcile

Informer(p) == Leads(p) /\ UNCHANGED electionVars /\ (DelayExpires \/ \E i \in Informers : ObjectEvent(i))

Resync(p) == Leads(p) /\ UNCHANGED electionVars /\ InformerResync

---------------------------------------------------------------------------
(* The processes. *)

\* ctrl.Run starts its workers with synced caches.
Begin(p) ==
    /\ StartWorkers(p)
    /\ seen' = Cached(object)
    /\ unseen' = {}
    /\ queue' = ListedQueue
    /\ UNCHANGED <<clusterVars, work, budget>>

\* The leader is stopped or dies.  The call its worker has sent, if any, may
\* still be carried out; those after it fail on the cancelled context.
Abandon(p) ==
    /\ StopElecting(p) \/ CrashProcess(p)
    /\ Disturb
    /\ IF Leads(p)
       THEN /\ seen' = Cached(NoObjects) /\ unseen' = {} /\ queue' = EmptyQueue /\ work' = Idle
            /\ late' \in {late} \cup (IF late = Absent THEN Calls(p) ELSE {})
       ELSE UNCHANGED <<leaderVars, late>>
    /\ UNCHANGED <<object, managed>>
    /\ UpdateReplaced

FailToStart(p) == RunFails(p) /\ Disturb /\ UNCHANGED <<clusterVars, leaderVars>>

ElectionStep(p) ==
    /\ \/ StartProcess(p) \/ AcquireLease(p) \/ StartLeading(p) \/ RunReturns(p)
       \/ CancelElection(p) \/ ExitProcess(p)
    /\ UNCHANGED <<clusterVars, leaderVars, budget>>

---------------------------------------------------------------------------
(* The cluster. *)

\* A request that was given up is carried out after all.
LateServed ==
    /\ late # Absent
    /\ Serve(late)
    /\ late' = Absent
    /\ replaced' = FALSE
    /\ UNCHANGED <<electionVars, managed, seen, queue, work, budget>>

\* nodeHandler: the node is labelled or unlabelled.
RelabelNode ==
    /\ Disturb
    /\ managed' = ~managed
    /\ queue' = IF \E p \in Process : Leads(p) THEN Add(queue, {NodeName}) ELSE queue
    /\ UNCHANGED <<electionVars, object, late, replaced, seen, unseen, work>>

DeleteObject(s) ==
    /\ object[s] # Absent
    /\ Disturb
    /\ Write(s, Absent)
    /\ UpdateReplaced
    /\ UNCHANGED <<electionVars, managed, late, seen, queue, work>>

Next ==
    \/ \E p \in Process : Worker(p) \/ Informer(p) \/ Resync(p) \/ Begin(p) \/ Abandon(p)
                          \/ FailToStart(p) \/ ElectionStep(p)
    \/ LateServed \/ RelabelNode \/ \E s \in Slot : DeleteObject(s)

\* Processes are started again and take the lease when it is free; the
\* goroutines, informers and timers of a process keep going.  A request that
\* was given up may never be carried out.
Fairness ==
    \A p \in Process :
        /\ WF_vars(ElectionStep(p))
        /\ WF_vars(Begin(p))
        /\ WF_vars(Worker(p))
        /\ WF_vars(Informer(p))

Spec == Init /\ [][Next]_vars

FairSpec == Spec /\ Fairness

---------------------------------------------------------------------------
(* Properties. *)

\* What p's options ask for.
Settled(p) ==
    IF ~managed THEN object = NoObjects
    ELSE /\ object["deployment"] # Absent
         /\ object["deployment"].options.template = OptionsOf(p).template
         /\ IF OptionsOf(p).EnableCiliumLB
            THEN object["service"] # Absent /\ object["service"].options = OptionsOf(p)
            ELSE object["service"] = Absent
         /\ \A s \in {"staleService", "staleDeployment", "prePull"} : object[s] = Absent

\* applyCaddy and Teardown: when the leader has nothing left to do and its
\* caches are up to date, the objects are what its options ask for, whichever
\* calls failed half-way, conflicted, or came from the leader before it.
QuiescentMeansSettled ==
    \A p \in Process : Leads(p) /\ IsIdle(queue, NodeName) /\ unseen = {} => Settled(p)

\* runWithLeaderElection and the reconcile loop: in the end some process leads
\* for good and the objects are what its options ask for, whatever the last
\* calls of earlier leaders undid.
ObjectsConverge == <>[](\E p \in Process : Leads(p) /\ Settled(p))

\* The UID preconditions of cleanup.go and prepull.go: a deletion that names
\* a UID and is carried out late never takes an object that was created after
\* the caller gave up, be it by another leader or by a retry.
ReplacementPreserved ==
    [][late # Absent /\ late' = Absent /\ late.uid # 0 /\ replaced
       => object'[late.slot] # Absent]_vars
===========================================================================
