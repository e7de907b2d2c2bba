------------------------------- MODULE Surge -------------------------------
(***************************************************************************)
(* The pods of one node's Deployment while they are replaced, and which of *)
(* them the node's worker pushes to.  A rolling update has an old and a    *)
(* new pod at the same time; creation times count in seconds, so either    *)
(* may look like the newer one.  Pods on the host network share the node's *)
(* IP, and their Deployment is recreated instead.                          *)
(*                                                                         *)
(* A pod has one container; its restarts, rejected configurations and lost *)
(* replies are ConfigSync's subject, the choice to hold a rollout is       *)
(* Rollout's.  The Deployment controller and the kubelet are external.     *)
(***************************************************************************)
EXTENDS Naturals, FiniteSets, Sequences, SequencesExt, WorkQueue

CONSTANTS PodName,            \* generated names, in any order of creation; a
                              \* name is also the ID of the pod's container
          Template,           \* pod templates of the manager's possible options
          UseHostNetwork(_),  \* the option of that name, for a template
          Stuck,              \* templates whose container never starts
          Config,             \* merged Caddyfiles
          LastSecond,         \* the clock stops then
          Absent,             \* no object or record, Go nil
          Limit               \* how many disturbances there are: config edits,
                              \* restarts with other options, lost pods, calls
                              \* that fail and held rollouts

\* Phases; containers are restarted, so no pod ever succeeds.
Phases == {"Pending", "Running", "Failed"}

Pods == [created : 0..LastSecond, template : Template, deleting : BOOLEAN, phase : Phases,
         running : Config \cup {Absent}]

\* The node's push record.
PushRecords == [digest : Config, containerID : PodName]

ASSUME SurgeAssumption ==
    /\ PodName \subseteq Nat \ {0}
    /\ Stuck \subseteq Template
    /\ Absent \notin Config \cup Template \cup Pods \cup PushRecords
    /\ LastSecond \in Nat /\ Limit \in Nat

VARIABLES
    pods,     \* the pods of the Deployment in the API server
    applied,  \* the Deployment's template
    target,   \* the template of the manager's options
    config,   \* what CurrentMerged returns
    unseen,   \* the informers have events they have not delivered
    queue,    \* the work queue, as far as it is about the node
    work,     \* what the worker that holds the node's key is doing
    record,   \* the node's push record
    clock,    \* seconds
    budget    \* disturbances left

clusterVars == <<pods, applied, clock>>
managerVars == <<target, config, queue, work, record>>
vars == <<clusterVars, managerVars, unseen, budget>>

NodeName == "node"

NodeIP == 0

Idle == [pc |-> "idle", containerID |-> 0, ip |-> NodeIP, snapshot |-> Absent]

TypeOK ==
    /\ pods \in [PodName -> Pods \cup {Absent}]
    /\ applied \in Template \cup {Absent}
    /\ target \in Template
    /\ config \in Config
    /\ unseen \in BOOLEAN
    /\ queue \in QueueOf({NodeName})
    /\ work \in [pc : {"idle", "find", "load", "push"},
                 containerID : PodName \cup {0}, ip : PodName \cup {NodeIP},
                 snapshot : Config \cup {Absent}]
    /\ record \in PushRecords \cup {Absent}
    /\ clock \in 0..LastSecond
    /\ budget \in 0..Limit

Present == {p \in PodName : pods[p] # Absent}

\* The pods the Deployment controller counts.
Active == {p \in Present : ~pods[p].deleting /\ pods[p].phase # "Failed"}

\* A manager starts on a node that is new or has been rolled out before.
Init ==
    /\ target \in Template
    /\ config \in Config
    /\ \E old \in Template \ Stuck, c \in Config, name \in PodName :
         \/ applied = Absent /\ pods = [p \in PodName |-> Absent]
         \/ /\ applied = old
            /\ pods = [p \in PodName |->
                         IF p # name THEN Absent
                         ELSE [created |-> 0, template |-> old, deleting |-> FALSE,
                               phase |-> "Running", running |-> c]]
    /\ unseen = FALSE
    /\ queue = Add(EmptyQueue, {NodeName})
    /\ work = Idle
    /\ record = Absent
    /\ clock = 0
    /\ budget = Limit

Disturb == budget > 0 /\ budget' = budget - 1

---------------------------------------------------------------------------
(* FindActivePod. *)

\* A plausible bug: a pod that failed counts.
IsUndeletedPod(pod) == ~pod.deleting

IsActivePod(pod) == ~pod.deleting /\ pod.phase # "Failed"

\* A plausible bug: the first of several pods of the same second stays.
isLater(p, selected) == pods[p].created > pods[selected].created

\* The switch in the loop's body.
isNewer(p, selected) ==
    \/ pods[p].created > pods[selected].created
    \/ pods[p].created = pods[selected].created /\ p > selected

\* The loop over a list; selected[i] is the variable after i pods, 0 is nil.
selectNewestActivePod(list) ==
    LET selected[i \in 0..Len(list)] ==
          IF i = 0 THEN 0
          ELSE IF ~IsActivePod(pods[list[i]]) THEN selected[i - 1]
          ELSE IF selected[i - 1] = 0 \/ isNewer(list[i], selected[i - 1]) THEN list[i]
          ELSE selected[i - 1]
    IN selected[Len(list)]

startedCaddyContainerID(p) == IF p # 0 /\ pods[p].phase = "Running" THEN p ELSE 0

PodIP(p) == IF UseHostNetwork(pods[p].template) THEN NodeIP ELSE p

---------------------------------------------------------------------------
(* The worker. *)

Goes(q, pc) == queue' = q /\ work' = [work EXCEPT !.pc = pc]

Apply ==
    /\ applied' = target
    /\ unseen' = (unseen \/ applied # target)

Finish(q) == queue' = q /\ work' = Idle

\* The worker gets the node.  applyCaddy applies the Deployment, or holds a
\* rollout and comes back to it, or fails with or without effect.  Held or
\* not, the pod that is there is looked up.
ApplyCaddy ==
    LET taken == Get(queue, NodeName)
    IN /\ NodeName \in Ready(queue)
       /\ \/ Apply /\ Goes(taken, "find") /\ UNCHANGED budget
          \/ /\ applied \notin {Absent, target}
             /\ Disturb
             /\ Goes(AddAfter(taken, NodeName), "find")
             /\ UNCHANGED <<applied, unseen>>
          \/ Disturb /\ Finish(Retry(taken, NodeName)) /\ (Apply \/ UNCHANGED <<applied, unseen>>)
       /\ UNCHANGED <<pods, clock, target, config, record>>

\* FindActivePod lists the pods in any order.
FindActivePod ==
    /\ work.pc = "find"
    /\ \E list \in SetToSeqs(Present) :
         LET id == startedCaddyContainerID(selectNewestActivePod(list))
         IN work' = [work EXCEPT !.pc = "load", !.containerID = id,
                                 !.ip = IF id = 0 THEN NodeIP ELSE PodIP(id)]
    /\ UNCHANGED <<clusterVars, target, config, queue, record, unseen, budget>>

FindActivePodFails ==
    /\ work.pc = "find"
    /\ Disturb
    /\ Finish(Retry(queue, NodeName))
    /\ UNCHANGED <<clusterVars, target, config, record, unseen>>

\* A plausible bug: the record is not about a container.
pushUpToDateAnywhere(digest, containerID) ==
    containerID # 0 /\ record # Absent /\ record.digest = digest

pushUpToDate(digest, containerID) ==
    containerID # 0 /\ record = [digest |-> digest, containerID |-> containerID]

\* ensureLoaded up to the push.
EnsureLoaded ==
    /\ work.pc = "load"
    /\ IF work.containerID = 0 \/ pushUpToDate(config, work.containerID)
       THEN Finish(Done(queue, NodeName))
       ELSE work' = [work EXCEPT !.pc = "push", !.snapshot = config] /\ UNCHANGED queue
    /\ UNCHANGED <<clusterVars, target, config, record, unseen, budget>>

\* The pods whose Caddy answers at the IP the worker has.
Reached == {p \in Present : pods[p].phase = "Running" /\ PodIP(p) = work.ip}

\* The push and recordPush: only the worker reads the record.
PushLoaded ==
    /\ work.pc = "push"
    /\ \E p \in Reached : pods' = [pods EXCEPT ![p].running = work.snapshot]
    /\ record' = [digest |-> work.snapshot, containerID |-> work.containerID]
    /\ Finish(Done(queue, NodeName))
    /\ UNCHANGED <<applied, clock, target, config, unseen, budget>>

PushFails ==
    /\ work.pc = "push"
    /\ IF Reached = {} THEN UNCHANGED budget ELSE Disturb
    /\ Finish(Retry(queue, NodeName))
    /\ UNCHANGED <<clusterVars, target, config, record, unseen>>

Worker ==
    \/ ApplyCaddy \/ FindActivePod \/ FindActivePodFails
    \/ EnsureLoaded \/ PushLoaded \/ PushFails

DelayExpires ==
    /\ NodeName \in queue.delayed
    /\ queue' = Expire(queue, NodeName)
    /\ UNCHANGED <<clusterVars, target, config, work, record, unseen, budget>>

\* managedObjectHandler, for the node's pods and its Deployment.
ObjectEvent ==
    /\ unseen
    /\ unseen' = FALSE
    /\ queue' = Add(queue, {NodeName})
    /\ UNCHANGED <<clusterVars, target, config, work, record, budget>>

Informer == DelayExpires \/ ObjectEvent

\* A new revision enqueues every managed node.
EditConfig ==
    /\ Disturb
    /\ \E c \in Config \ {config} : config' = c
    /\ queue' = Add(queue, {NodeName})
    /\ UNCHANGED <<clusterVars, target, work, record, unseen>>

\* The manager is restarted with any options.
Restart ==
    /\ Disturb
    /\ target' \in Template
    /\ queue' = Add(EmptyQueue, {NodeName})
    /\ work' = Idle
    /\ record' = Absent
    /\ unseen' = FALSE
    /\ UNCHANGED <<clusterVars, config>>

---------------------------------------------------------------------------
(* The Deployment controller, with one replica and the strategy that       *)
(* deploymentApplyConfig asks for, and the kubelet.                        *)

PodChanges(p, pod) == pods' = [pods EXCEPT ![p] = pod] /\ unseen' = TRUE

\* Recreate: pods of other templates are gone first.  RollingUpdate: one more
\* than the replica.
MayCreate ==
    IF UseHostNetwork(applied)
    THEN \A p \in Present : pods[p].template = applied \/ pods[p].phase = "Failed"
    ELSE Cardinality(Active) <= 1

CreatePod(p) ==
    /\ applied # Absent
    /\ \A q \in Active : pods[q].template # applied
    /\ MayCreate
    /\ p \notin Present \cup {work.containerID}
    /\ record # Absent => p # record.containerID
    /\ PodChanges(p, [created |-> clock, template |-> applied, deleting |-> FALSE,
                      phase |-> "Pending", running |-> Absent])
    /\ UNCHANGED <<applied, clock, managerVars, budget>>

\* Nothing is lost by the deletion, or a new pod is available, or the strategy
\* is Recreate.
DeleteOldPod(p) ==
    /\ p \in Active
    /\ pods[p].template # applied
    /\ \/ pods[p].phase = "Pending"
       \/ UseHostNetwork(applied)
       \/ \E q \in Active : pods[q].template = applied /\ pods[q].phase = "Running"
    /\ PodChanges(p, [pods[p] EXCEPT !.deleting = TRUE])
    /\ UNCHANGED <<applied, clock, managerVars, budget>>

\* The container starts with whatever the boot ConfigMap has.  Host ports are
\* not shared.
PodStarts(p) ==
    /\ p \in Active
    /\ pods[p].phase = "Pending"
    /\ pods[p].template \notin Stuck
    /\ UseHostNetwork(pods[p].template) =>
         \A q \in Present \ {p} : pods[q].phase = "Running" => ~UseHostNetwork(pods[q].template)
    /\ \E c \in Config : PodChanges(p, [pods[p] EXCEPT !.phase = "Running", !.running = c])
    /\ UNCHANGED <<applied, clock, managerVars, budget>>

\* A deleted pod has stopped and is removed.
PodGone(p) ==
    /\ p \in Present
    /\ pods[p].deleting
    /\ PodChanges(p, Absent)
    /\ UNCHANGED <<applied, clock, managerVars, budget>>

\* The pod is evicted, or someone deletes it.
PodLost(p) ==
    /\ p \in Active
    /\ Disturb
    /\ \/ PodChanges(p, [pods[p] EXCEPT !.phase = "Failed", !.running = Absent])
       \/ PodChanges(p, [pods[p] EXCEPT !.deleting = TRUE])
    /\ UNCHANGED <<applied, clock, managerVars>>

Tick ==
    /\ clock < LastSecond
    /\ clock' = clock + 1
    /\ UNCHANGED <<pods, applied, managerVars, unseen, budget>>

Cluster == \E p \in PodName : CreatePod(p) \/ DeleteOldPod(p) \/ PodStarts(p) \/ PodGone(p)

Next ==
    \/ Worker \/ Informer \/ EditConfig \/ Restart \/ Cluster \/ Tick
    \/ \E p \in PodName : PodLost(p)

\* The worker, the informers, the Deployment controller and the kubelet keep
\* going; disturbances and the clock need not.
Fairness ==
    /\ WF_vars(Worker)
    /\ WF_vars(Informer)
    /\ WF_vars(Cluster)

Spec == Init /\ [][Next]_vars

FairSpec == Spec /\ Fairness

---------------------------------------------------------------------------
(* Properties. *)

\* selectNewestActivePod: in whatever order the API server lists the pods, the
\* loop returns the active one that was created last, by name within a second.
SelectsNewest ==
    \A list \in SetToSeqs(Present) :
        LET selected == selectNewestActivePod(list)
        IN IF Active = {} THEN selected = 0
           ELSE /\ selected \in Active
                /\ \A p \in Active :
                     \/ p = selected
                     \/ pods[p].created < pods[selected].created
                     \/ pods[p].created = pods[selected].created /\ p < selected

\* FindActivePod, ensureLoaded and managedObjectHandler: when the queue is idle
\* and no event is on its way, the pod that the next reconcile would select, if
\* it has started, runs the current configuration, however pods came and went
\* between the lookup, the push and its record.
QuiescentMeansNewestPushed ==
    IsIdle(queue, NodeName) /\ ~unseen =>
        \A p \in Active :
            (\A q \in Active \ {p} : isNewer(p, q)) /\ pods[p].phase = "Running"
            => pods[p].running = config

\* "keeps each instance's configuration continuously in sync": in the end every
\* pod that is there to serve runs the current configuration, old ones of a
\* rolling update included.
ServingInSync ==
    <>[](\A p \in Active : pods[p].phase = "Running" => pods[p].running = config)

\* deploymentApplyConfig and the reconcile loop: in the end one pod is left; it
\* is of the current template and runs the current configuration.
SurgeEndsInSync ==
    <>[](\E p \in PodName :
            Active = {p} /\ pods[p].template = target /\ pods[p].running = config)
===========================================================================
