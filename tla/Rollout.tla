------------------------------ MODULE Rollout ------------------------------
(***************************************************************************)
(* How the workers take a new pod template to the nodes (rollout.go): the  *)
(* new image is pre-pulled on every node in service, then one node at a    *)
(* time is rolled out, in the order of their names.  Workers decide under  *)
(* rolloutMu from the Deployments in the API server, but find out whether  *)
(* they have to decide at all from informer caches that lag behind.        *)
(***************************************************************************)
EXTENDS Naturals, FiniteSets, WorkQueue

CONSTANTS Node,          \* the managed nodes; names are ordered like numbers
          Template,      \* pod templates of the manager's possible options
          ImageOf(_),    \* the Caddy image of a template
          PrePullImage,  \* the option of that name
          WorkerCount,   \* workerCount
          Absent,        \* no object, Go nil
          Limit          \* how often each kind of disturbance happens

\* Restarts of the manager with other options, nodes going in or out of
\* service, and failures of calls, pods and image pulls.
Disturbance == {"restart", "node", "fault"}

Image == {ImageOf(t) : t \in Template}

Deployments == [template : Template, observed : BOOLEAN, complete : BOOLEAN]

PrePullPods == [image : Image, phase : {"pulling", "pulled", "failed"}]

ASSUME RolloutAssumption ==
    /\ Node \subseteq Nat
    /\ PrePullImage \in BOOLEAN
    /\ WorkerCount \in Nat \ {0}
    /\ Absent \notin Node /\ Absent \notin Template
    /\ Absent \notin Deployments /\ Absent \notin PrePullPods
    /\ Limit \in [Disturbance -> Nat]

VARIABLES
    \* The API server.
    deployment,   \* the node's Deployment: its template, whether its status is
                  \* about the current generation, and whether the status
                  \* counts one replica, updated and available
    prePull,      \* the node's pre-pull pod
    aged,         \* nodes whose pre-pull pod is older than prePullRetryInterval
    \* The manager.
    target,       \* the template of its options
    inService,    \* nodes the lister shows as schedulable and ready
    deploySeen,   \* the template of the Deployment in the cache
    prePullSeen,  \* the pre-pull pod in the cache
    queue,        \* the work queue
    work,         \* per node: what the worker that holds its key is doing
    rolloutMu,    \* the node whose worker holds rolloutMu
    \* History and bounds.
    images,       \* <<node, image>> that were pulled
    disrupted,    \* nodes in service that were rolled out while available and
                  \* are not available again
    budget        \* disturbances left

clusterVars == <<deployment, prePull, aged, images, disrupted>>
cacheVars == <<inService, deploySeen, prePullSeen>>
workerVars == <<queue, work, rolloutMu>>
vars == <<clusterVars, cacheVars, workerVars, target, budget>>

Idle == [pc |-> "idle", next |-> "idle", fleet |-> {}, isAvailable |-> FALSE]

Places == {"idle", "create", "delete", "apply", "held", "lock", "list", "rollout"}

Works == [pc : Places, next : Places, fleet : SUBSET Node, isAvailable : BOOLEAN]

TypeOK ==
    /\ deployment \in [Node -> Deployments \cup {Absent}]
    /\ prePull \in [Node -> PrePullPods \cup {Absent}]
    /\ aged \subseteq Node
    /\ target \in Template
    /\ inService \subseteq Node
    /\ deploySeen \in [Node -> Template \cup {Absent}]
    /\ prePullSeen \in [Node -> PrePullPods \cup {Absent}]
    /\ queue \in QueueOf(Node)
    /\ work \in [Node -> Works]
    /\ rolloutMu \in Node \cup {Absent}
    /\ images \subseteq Node \X Image
    /\ disrupted \subseteq Node
    /\ budget \in [Disturbance -> Nat]

\* The template in the annotation of the node's Deployment.
AppliedTemplate(n) == IF deployment[n] = Absent THEN Absent ELSE deployment[n].template

\* The workers start with synced caches, and every node is on the queue.
StartQueue == Add(EmptyQueue, Node)

\* A manager starts in a cluster where the one before had rolled out its
\* template to some nodes.
Init ==
    /\ \E t \in Template : \E nodes \in SUBSET Node :
         deployment = [n \in Node |-> IF n \in nodes
                         THEN [template |-> t, observed |-> TRUE, complete |-> TRUE] ELSE Absent]
    /\ prePull = [n \in Node |-> Absent]
    /\ aged = {}
    /\ target \in Template
    /\ inService \in SUBSET Node
    /\ deploySeen = [n \in Node |-> AppliedTemplate(n)]
    /\ prePullSeen = prePull
    /\ queue = StartQueue
    /\ work = [n \in Node |-> Idle]
    /\ rolloutMu = Absent
    /\ images = {<<n, ImageOf(AppliedTemplate(n))>> : n \in {m \in Node : deployment[m] # Absent}}
    /\ disrupted = {}
    /\ budget = Limit

Spend(kind) == budget[kind] > 0 /\ budget' = [budget EXCEPT ![kind] = @ - 1]

---------------------------------------------------------------------------
(* What the code computes from a node and its Deployment. *)

\* nodeRollout.isPending, of the template a Deployment carries.
isPending(template) == template \notin {Absent, target}

\* nodeRollout.needsPrePull, for a node in service.
needsPrePull(template) ==
    PrePullImage /\ isPending(template) /\ ImageOf(template) # ImageOf(target)

\* A plausible bug: the status may be about an older generation.
isReplicaCountMet(d) == d.complete

isRolledOut(d) == d.observed /\ d.complete

\* nodeRollout.isAvailable
isAvailable(n) == deployment[n] = Absent \/ isRolledOut(deployment[n])

\* A plausible bug: a pre-pull pod of any image will do.
hasPrePulledAny(n) == prePullSeen[n] # Absent /\ prePullSeen[n].phase = "pulled"

hasPrePulled(n) ==
    /\ prePullSeen[n] # Absent
    /\ prePullSeen[n].image = ImageOf(target)
    /\ prePullSeen[n].phase = "pulled"

\* A plausible bug: a failed pre-pull is never tried again.
isNeverRetryable(n) == FALSE

isRetryablePrePull(n) == prePullSeen[n].phase = "failed" /\ n \in aged

\* A plausible bug: the pod is kept although it has served its purpose.
isKeptForImage(n) == prePullSeen[n].image = ImageOf(target) /\ ~isRetryablePrePull(n)

\* syncPrePullPod's isKept, for a pod that exists.
isKept(n) ==
    /\ n \in inService /\ needsPrePull(deploySeen[n])
    /\ prePullSeen[n].image = ImageOf(target)
    /\ ~isRetryablePrePull(n)

\* rolloutHold gives a reason for n to wait.
rolloutHold(n, fleet) ==
    \/ \E m \in fleet : needsPrePull(AppliedTemplate(m)) /\ ~hasPrePulled(m)
    \/ n \notin fleet
    \/ /\ isPending(AppliedTemplate(n)) /\ isAvailable(n)
       /\ \/ \E m \in fleet \ {n} : ~isAvailable(m)
          \/ \E m \in fleet : isPending(AppliedTemplate(m)) /\ m < n

---------------------------------------------------------------------------
(* The workers. *)

Finish(n) == work' = [work EXCEPT ![n] = Idle] /\ queue' = Done(queue, n)

Fail(n) == work' = [work EXCEPT ![n] = Idle] /\ queue' = Retry(queue, n)

Unlock == rolloutMu' = Absent

\* Where syncRollout goes after syncPrePullPod.
AfterPrePull(n) ==
    IF ~isPending(deploySeen[n]) THEN "apply" ELSE IF n \notin inService THEN "held" ELSE "lock"

\* The call syncPrePullPod makes, if any.
PrePullCall(n) ==
    CASE prePullSeen[n] # Absent /\ ~isKept(n) -> "delete"
      [] prePullSeen[n] = Absent /\ n \in inService /\ needsPrePull(deploySeen[n]) -> "create"
      [] OTHER -> AfterPrePull(n)

\* processNextItem, and syncRollout up to its first API call: the worker acts
\* on what the caches show now.
GetNode(n) ==
    /\ Cardinality(queue.processing) < WorkerCount
    /\ n \in Ready(queue)
    /\ queue' = Get(queue, n)
    /\ work' = [work EXCEPT ![n] = [Idle EXCEPT !.pc = PrePullCall(n), !.next = AfterPrePull(n)]]
    /\ UNCHANGED <<clusterVars, cacheVars, rolloutMu, target, budget>>

\* CreatePrePullPod reaches the API server; applying an existing pod again
\* changes nothing.
PodCreated(n) ==
    IF prePull[n] = Absent
    THEN /\ prePull' = [prePull EXCEPT ![n] = [image |-> ImageOf(target), phase |-> "pulling"]]
         /\ aged' = aged \ {n}
    ELSE UNCHANGED <<prePull, aged>>

\* DeletePrePullPod reaches the API server.  Only the worker that holds n's key
\* creates n's pod, and only after the cache showed none, so the pod that the
\* cache showed is the one that exists, if any.
PodDeleted(n) == prePull' = [prePull EXCEPT ![n] = Absent] /\ UNCHANGED aged

\* syncPrePullPod's call.
SyncPrePullPod(n) ==
    /\ \/ work[n].pc = "create" /\ PodCreated(n)
       \/ work[n].pc = "delete" /\ PodDeleted(n)
    /\ work' = [work EXCEPT ![n].pc = work[n].next]
    /\ UNCHANGED <<deployment, images, disrupted, cacheVars, queue, rolloutMu, target, budget>>

\* The call returns an error, with or without effect.
SyncPrePullPodFails(n) ==
    /\ \/ work[n].pc = "create" /\ PodCreated(n)
       \/ work[n].pc = "delete" /\ PodDeleted(n)
       \/ work[n].pc \in {"create", "delete"} /\ UNCHANGED <<prePull, aged>>
    /\ Spend("fault")
    /\ Fail(n)
    /\ UNCHANGED <<deployment, images, disrupted, cacheVars, rolloutMu, target>>

\* A pending node that is out of service waits for its next event.
HoldOutOfService(n) ==
    /\ work[n].pc = "held"
    /\ Finish(n)
    /\ UNCHANGED <<clusterVars, cacheVars, rolloutMu, target, budget>>

\* ApplyDeployment reaches the API server.  The status does not change with
\* the specification.
ApplyDeployment(n) ==
    deployment' = [deployment EXCEPT ![n] =
        IF @ = Absent THEN [template |-> target, observed |-> FALSE, complete |-> FALSE]
        ELSE IF @.template = target THEN @
        ELSE [@ EXCEPT !.template = target, !.observed = FALSE]]

\* The template of an available node in service changes.
Disrupt(n, wasAvailable) ==
    disrupted' = IF n \in inService /\ wasAvailable /\ isPending(AppliedTemplate(n))
                 THEN disrupted \cup {n} ELSE disrupted

\* syncRollout applies the Deployment of a node that is not pending, without
\* the lock.
ApplyUnlocked(n) ==
    /\ work[n].pc = "apply"
    /\ ApplyDeployment(n)
    /\ Disrupt(n, isAvailable(n))
    /\ Finish(n)
    /\ UNCHANGED <<prePull, aged, images, cacheVars, rolloutMu, target, budget>>

ApplyUnlockedFails(n) ==
    /\ work[n].pc = "apply"
    /\ Spend("fault")
    /\ \/ UNCHANGED <<deployment, disrupted>>
       \/ ApplyDeployment(n) /\ Disrupt(n, isAvailable(n))
    /\ Fail(n)
    /\ UNCHANGED <<prePull, aged, images, cacheVars, rolloutMu, target>>

\* admitRollout takes the lock; listRollouts lists the nodes in service.
LockRollout(n) ==
    /\ work[n].pc = "lock"
    /\ rolloutMu = Absent
    /\ rolloutMu' = n
    /\ work' = [work EXCEPT ![n].pc = "list", ![n].fleet = inService]
    /\ UNCHANGED <<clusterVars, cacheVars, queue, target, budget>>

\* listRollouts lists the Deployments, and rolloutHold finds a reason to wait.
HoldRollout(n) ==
    /\ work[n].pc = "list"
    /\ rolloutHold(n, work[n].fleet)
    /\ Unlock
    /\ work' = [work EXCEPT ![n] = Idle]
    /\ queue' = Done(AddAfter(queue, n), n)
    /\ UNCHANGED <<clusterVars, cacheVars, target, budget>>

\* rolloutHold finds none.
AdmitRollout(n) ==
    /\ work[n].pc = "list"
    /\ ~rolloutHold(n, work[n].fleet)
    /\ work' = [work EXCEPT ![n].pc = "rollout", ![n].isAvailable = isAvailable(n)]
    /\ UNCHANGED <<clusterVars, cacheVars, queue, rolloutMu, target, budget>>

ListRolloutsFails(n) ==
    /\ work[n].pc = "list"
    /\ Spend("fault")
    /\ Unlock
    /\ Fail(n)
    /\ UNCHANGED <<clusterVars, cacheVars, target>>

\* The last step of admitRollout.
RollOut(n) ==
    /\ work[n].pc = "rollout"
    /\ ApplyDeployment(n)
    /\ Disrupt(n, work[n].isAvailable)
    /\ Unlock
    /\ Finish(n)
    /\ UNCHANGED <<prePull, aged, images, cacheVars, target, budget>>

RollOutFails(n) ==
    /\ work[n].pc = "rollout"
    /\ Spend("fault")
    /\ \/ UNCHANGED <<deployment, disrupted>>
       \/ ApplyDeployment(n) /\ Disrupt(n, work[n].isAvailable)
    /\ Unlock
    /\ Fail(n)
    /\ UNCHANGED <<prePull, aged, images, cacheVars, target>>

DelayExpires(n) ==
    /\ n \in queue.delayed
    /\ queue' = Expire(queue, n)
    /\ UNCHANGED <<clusterVars, cacheVars, work, rolloutMu, target, budget>>

---------------------------------------------------------------------------
(* The manager's process and its informers. *)

\* The manager is restarted, perhaps with other options, and syncs its caches.
Restart(t) ==
    /\ Spend("restart")
    /\ target' = t
    /\ deploySeen' = [n \in Node |-> AppliedTemplate(n)]
    /\ prePullSeen' = prePull
    /\ queue' = StartQueue
    /\ work' = [n \in Node |-> Idle]
    /\ Unlock
    /\ UNCHANGED <<clusterVars, inService>>

\* managedObjectHandler, after the cache was updated.
DeploymentEvent(n) ==
    /\ deploySeen[n] # AppliedTemplate(n)
    /\ deploySeen' = [deploySeen EXCEPT ![n] = AppliedTemplate(n)]
    /\ queue' = Add(queue, {n})
    /\ UNCHANGED <<clusterVars, inService, prePullSeen, work, rolloutMu, target, budget>>

PrePullEvent(n) ==
    /\ prePullSeen[n] # prePull[n]
    /\ prePullSeen' = [prePullSeen EXCEPT ![n] = prePull[n]]
    /\ queue' = Add(queue, {n})
    /\ UNCHANGED <<clusterVars, inService, deploySeen, work, rolloutMu, target, budget>>

\* nodeHandler: a node is cordoned or uncordoned, or its Ready condition
\* changes.  A node that leaves is no longer counted as being rolled out.
NodeEvent(n) ==
    /\ Spend("node")
    /\ inService' = IF n \in inService THEN inService \ {n} ELSE inService \cup {n}
    /\ disrupted' = disrupted \ {n}
    /\ queue' = Add(queue, {n})
    /\ UNCHANGED <<deployment, prePull, aged, images, deploySeen, prePullSeen, work, rolloutMu, target>>

\* informerResync: nodeHandler gets every node again.  The interval is long:
\* resyncs that come while the queue is busy are left out, since the events
\* make workers repeat a reconcile at any point already.
InformerResync ==
    /\ queue = EmptyQueue
    /\ queue' = Add(queue, Node)
    /\ UNCHANGED <<clusterVars, cacheVars, work, rolloutMu, target, budget>>

---------------------------------------------------------------------------
(* The cluster. *)

\* The Deployment controller writes the status of the new generation: none of
\* the replicas is updated yet.
DeploymentObserved(n) ==
    /\ deployment[n] # Absent
    /\ ~deployment[n].observed
    /\ deployment' = [deployment EXCEPT ![n].observed = TRUE, ![n].complete = FALSE]
    /\ queue' = Add(queue, {n})
    /\ UNCHANGED <<prePull, aged, images, disrupted, cacheVars, work, rolloutMu, target, budget>>

\* The pod of the current template is available and the only one.
PodAvailable(n) ==
    /\ deployment[n] # Absent
    /\ deployment[n].observed /\ ~deployment[n].complete
    /\ n \in inService
    /\ deployment' = [deployment EXCEPT ![n].complete = TRUE]
    /\ images' = images \cup {<<n, ImageOf(deployment[n].template)>>}
    /\ disrupted' = disrupted \ {n}
    /\ queue' = Add(queue, {n})
    /\ UNCHANGED <<prePull, aged, cacheVars, work, rolloutMu, target, budget>>

\* The pod stops answering its readiness probe.
PodUnavailable(n) ==
    /\ deployment[n] # Absent
    /\ deployment[n].complete
    /\ Spend("fault")
    /\ deployment' = [deployment EXCEPT ![n].complete = FALSE]
    /\ queue' = Add(queue, {n})
    /\ UNCHANGED <<prePull, aged, images, disrupted, cacheVars, work, rolloutMu, target>>

\* The kubelet has pulled the pre-pull pod's image; the pod need not succeed.
ImagePulled(n) ==
    /\ prePull[n] # Absent
    /\ prePull[n].phase = "pulling"
    /\ prePull' = [prePull EXCEPT ![n].phase = "pulled"]
    /\ images' = images \cup {<<n, prePull[n].image>>}
    /\ UNCHANGED <<deployment, aged, disrupted, cacheVars, workerVars, target, budget>>

\* The pre-pull pod fails before its container exists.
PrePullFails(n) ==
    /\ prePull[n] # Absent
    /\ prePull[n].phase = "pulling"
    /\ Spend("fault")
    /\ prePull' = [prePull EXCEPT ![n].phase = "failed"]
    /\ UNCHANGED <<deployment, aged, images, disrupted, cacheVars, workerVars, target>>

\* prePullRetryInterval has passed since the pod's creation.
PrePullAges(n) ==
    /\ prePull[n] # Absent
    /\ prePull[n].phase = "failed"
    /\ n \notin aged
    /\ aged' = aged \cup {n}
    /\ UNCHANGED <<deployment, prePull, images, disrupted, cacheVars, workerVars, target, budget>>

---------------------------------------------------------------------------

WorkerStep(n) ==
    \/ SyncPrePullPod(n) \/ SyncPrePullPodFails(n) \/ HoldOutOfService(n)
    \/ ApplyUnlocked(n) \/ ApplyUnlockedFails(n)
    \/ HoldRollout(n) \/ AdmitRollout(n) \/ ListRolloutsFails(n)
    \/ RollOut(n) \/ RollOutFails(n)

Manager(n) ==
    \/ GetNode(n) \/ WorkerStep(n) \/ LockRollout(n) \/ DelayExpires(n)
    \/ DeploymentEvent(n) \/ PrePullEvent(n) \/ NodeEvent(n)

Cluster(n) ==
    \/ DeploymentObserved(n) \/ PodAvailable(n) \/ PodUnavailable(n)
    \/ ImagePulled(n) \/ PrePullFails(n) \/ PrePullAges(n)

Next ==
    \/ InformerResync
    \/ \E t \in Template : Restart(t)
    \/ \E n \in Node : Manager(n) \/ Cluster(n)

\* Workers, timers, informers, the Deployment controller and the kubelet keep
\* going; the queue is first in first out and a mutex starves no one.
Fairness ==
    \A n \in Node :
        /\ SF_vars(GetNode(n))
        /\ SF_vars(LockRollout(n))
        /\ WF_vars(WorkerStep(n))
        /\ WF_vars(DelayExpires(n))
        /\ WF_vars(DeploymentEvent(n))
        /\ WF_vars(PrePullEvent(n))
        /\ WF_vars(DeploymentObserved(n))
        /\ WF_vars(PodAvailable(n))
        /\ WF_vars(ImagePulled(n))
        /\ WF_vars(PrePullAges(n))

Spec == Init /\ [][Next]_vars

FairSpec == Spec /\ Fairness

---------------------------------------------------------------------------
(* Properties. *)

\* README.md: "roll one node at a time".  admitRollout never takes a second
\* node that was available when it looked, while a node it rolled out before
\* is in service and not available again: whichever worker, restart of the
\* manager or lagging cache is in between.
OneAtATime == \A m, n \in disrupted : m = n

\* main.go: "Pre-pull a new Caddy image on every node before restarting any of
\* them".  When admitRollout is about to apply a Deployment, every node it
\* found in service has the new image already or has no use for it.
PrePulledEverywhere ==
    \A n \in Node : work[n].pc = "rollout" =>
        \A m \in work[n].fleet :
            needsPrePull(AppliedTemplate(m)) => <<m, ImageOf(target)>> \in images

\* Nobody waits for everybody: once nodes and options stop changing and
\* failures stop, every node in service runs the manager's template.
RolloutCompletes ==
    <>[](\A n \in inService : deployment[n] # Absent /\ deployment[n].template = target
                              /\ isRolledOut(deployment[n]))

\* syncPrePullPod: no pre-pull pod is left in the end, on cordoned nodes too.
PrePullPodsRemoved == <>[](\A n \in Node : prePull[n] = Absent)
===========================================================================
