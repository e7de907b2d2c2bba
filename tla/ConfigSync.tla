---------------------------- MODULE ConfigSync ----------------------------
(***************************************************************************)
(* How the manager keeps every Caddy instance's configuration in sync.     *)
(* The ConfigMaps of the API server reach the aggregator through informer  *)
(* events; workers take node keys from the work queue, make sure a Caddy   *)
(* runs on the node, push the merged Caddyfile to it and record the push;  *)
(* what a Caddy accepted is published as the boot ConfigMap, from which    *)
(* new containers start.  The manager may crash and restart with another   *)
(* origin key, containers restart at any time, API calls and pushes fail,  *)
(* and a push whose reply is lost may still take effect later.             *)
(***************************************************************************)
EXTENDS Aggregator, WorkQueue, FiniteSets

CONSTANTS Node,            \* the cluster's nodes
          MirrorKey,       \* mirrorKey, the key that publishes the mirror
          WorkerCount,     \* workerCount
          ContainerID,     \* container IDs; 0 is the empty ID
          ConfigResync,    \* TRUE when ConfigResyncInterval > 0
          NamespaceOf(_),  \* the namespace of an external ConfigMap
          Namespace,       \* the manager's own namespace
          ExternalAllowNamespaces,
          ExternalDenyNamespaces,
          Limit            \* how often each kind of disturbance happens

Key == Node \cup {MirrorKey}

\* The kinds of disturbance that are bounded: edits of the base, of external
\* and of boot ConfigMaps, node label changes, crashes of the manager,
\* container restarts, failed calls, and pushes that outlive their request.
Disturbance == {"base", "external", "mirror", "label", "crash", "restart", "fault", "late"}

\* The values of the controller's pushState map.
PushRecords == [digest : Caddyfile, containerID : ContainerID]

\* Names of different kinds of objects are told apart by their informers, and
\* a missing entry of pushState is no record.
ASSUME ConfigSyncAssumption ==
    /\ MirrorKey \notin Node
    /\ Absent \notin PushRecords
    /\ {"base", "mirror"} \cap (Source \cup Node) = {} /\ Source \cap Node = {}
    /\ WorkerCount \in Nat \ {0}
    /\ ContainerID \subseteq Nat \ {0}
    /\ ConfigResync \in BOOLEAN
    /\ Limit \in [Disturbance -> Nat]

VARIABLES
    \* The API server.
    apiBase,     \* the base ConfigMap's Caddyfile key
    apiExternal, \* the external ConfigMaps' Caddyfile keys
    labelled,    \* the nodes whose labels match the node selector
    mirror,      \* the boot ConfigMap
    deployed,    \* origin key in the template of the node's Deployment
    status,      \* started container ID in the status of the node's pod
    \* The manager.
    phase,       \* "down", "init" (InitializeMirror), "sync", "run"
    originKey,   \* CaddyAdminOriginKey of this process
    agg,         \* the Aggregator
    unsynced,    \* objects whose first notification is outstanding
    nodeCache,   \* nodes the lister returns for the node selector
    mirrorSeen,  \* the mirror's current version reached the handler
    queue,       \* the work queue
    work,        \* per node: what the worker that holds its key is doing
    publishing,  \* the snapshot a worker is about to publish
    pushState,   \* per node: the last recorded push
    \* The Caddy containers.
    container,   \* ID of the running container, 0 if none runs
    running,     \* the configuration it runs
    late,        \* a push that timed out and may still be carried out
    \* History, for the properties only.
    unacked,     \* nodes that loaded a push whose reply was lost
    loaded,      \* <<key, caddyfile>> that some Caddy loaded
    touched,     \* ConfigMaps edited since the manager started
    budget       \* disturbances left

apiVars == <<apiBase, apiExternal, labelled>>
managerVars == <<originKey, agg, nodeCache, unsynced>>
workVars == <<queue, work, pushState>>
mirrorVars == <<mirror, mirrorSeen, publishing>>
podVars == <<deployed, status, container, running, late, unacked>>
vars == <<apiVars, managerVars, workVars, mirrorVars, podVars, phase, loaded, touched, budget>>

Objects == {"base", "mirror"} \cup Source \cup Node

Idle == [pc |-> "idle", containerID |-> 0, snapshot |-> Absent]

Works == [pc : {"idle", "teardown", "deploy", "find", "merge", "load", "record", "accept"},
          containerID : ContainerID \cup {0}, snapshot : Snapshots \cup {Absent}]

TypeOK ==
    /\ apiBase \in Base \cup {Absent}
    /\ apiExternal \in [Source -> Fragment \cup {Absent}]
    /\ labelled \subseteq Node
    /\ mirror \in Mirrors
    /\ deployed \in [Node -> OriginKey \cup {Absent}]
    /\ status \in [Node -> ContainerID \cup {0}]
    /\ phase \in {"down", "init", "sync", "run"}
    /\ originKey \in OriginKey
    /\ agg \in AggregatorState
    /\ unsynced \subseteq Objects
    /\ nodeCache \subseteq Node
    /\ mirrorSeen \in BOOLEAN
    /\ queue \in QueueOf(Key)
    /\ work \in [Node -> Works]
    /\ publishing \in Caddyfile \cup {Absent}
    /\ pushState \in [Node -> PushRecords \cup {Absent}]
    /\ container \in [Node -> ContainerID \cup {0}]
    /\ running \in [Node -> Caddyfile \cup {Absent}]
    /\ late \in [Node -> (OriginKey \X Caddyfile) \cup {Absent}]
    /\ unacked \subseteq Node
    /\ loaded \subseteq OriginKey \X Caddyfile
    /\ touched \subseteq {"base"} \cup Source
    /\ budget \in [Disturbance -> Nat]

Init ==
    /\ apiBase \in Base \cup {Absent}
    /\ apiExternal \in [Source -> Fragment \cup {Absent}]
    /\ labelled \in SUBSET Node
    /\ mirror = NoMirror
    /\ deployed = [n \in Node |-> Absent]
    /\ status = [n \in Node |-> 0]
    /\ phase = "down"
    /\ originKey \in OriginKey
    /\ agg = New
    /\ unsynced = {}
    /\ nodeCache = {}
    /\ mirrorSeen = TRUE
    /\ queue = EmptyQueue
    /\ work = [n \in Node |-> Idle]
    /\ publishing = Absent
    /\ pushState = [n \in Node |-> Absent]
    /\ container = [n \in Node |-> 0]
    /\ running = [n \in Node |-> Absent]
    /\ late = [n \in Node |-> Absent]
    /\ unacked = {}
    /\ loaded = {}
    /\ touched = {}
    /\ budget = Limit

Spend(kind) == budget[kind] > 0 /\ budget' = [budget EXCEPT ![kind] = @ - 1]

---------------------------------------------------------------------------
(* Start-up and shutdown of the manager process. *)

\* main and NewController: a fresh process with the configured origin key.
Start(key) ==
    /\ phase = "down"
    /\ phase' = "init"
    /\ originKey' = key
    /\ touched' = {}
    /\ UNCHANGED <<apiVars, agg, nodeCache, unsynced, workVars, mirrorVars, podVars, loaded, budget>>

\* A plausible bug: a restart falls back to the bootstrap Caddyfile.
bootstrapSnapshot == BootstrapCaddyfile(originKey)

\* The snapshot InitializeMirror settles on: the mirror's if this manager's
\* bootstrap vouches for it, else the bootstrap Caddyfile.
initialSnapshot == IF IsStamped(mirror, originKey) THEN mirror.data ELSE BootstrapCaddyfile(originKey)

\* InitializeMirror, then the informers start and list every object.  A mirror
\* that is stamped already is left as it is.
InitializeMirror ==
    /\ phase = "init"
    /\ mirror' = Stamped(originKey, initialSnapshot)
    /\ agg' = [agg EXCEPT !.accepted = initialSnapshot]
    /\ phase' = "sync"
    /\ unsynced' = Objects
    /\ mirrorSeen' = FALSE
    /\ UNCHANGED <<apiVars, originKey, nodeCache, workVars, publishing, podVars, loaded, touched, budget>>

\* Everything the process held is gone.
ProcessExits ==
    /\ phase' = "down"
    /\ agg' = New
    /\ nodeCache' = {}
    /\ unsynced' = {}
    /\ queue' = EmptyQueue
    /\ work' = [n \in Node |-> Idle]
    /\ publishing' = Absent
    /\ pushState' = [n \in Node |-> Absent]

\* Run returns the error of InitializeMirror; the write that failed may have
\* reached the API server.
InitializeMirrorFails ==
    /\ phase = "init"
    /\ Spend("fault")
    /\ ProcessExits
    /\ mirror' \in {mirror, Stamped(originKey, initialSnapshot)}
    /\ UNCHANGED <<apiVars, originKey, mirrorSeen, podVars, loaded, touched>>

\* The process dies or loses its leadership, at any point of any worker.
Crash ==
    /\ phase # "down"
    /\ Spend("crash")
    /\ ProcessExits
    /\ UNCHANGED <<apiVars, originKey, mirror, mirrorSeen, podVars, loaded, touched>>

\* A plausible bug: the workers do not wait for the external ConfigMaps.
SomeCachesSynced == unsynced \cap ({"base", "mirror"} \cup Node) = {}

\* WaitForCacheSync: every handler has seen the initial list.
CachesSynced == unsynced = {}

\* Run starts the workers.
StartWorkers ==
    /\ phase = "sync"
    /\ CachesSynced
    /\ phase' = "run"
    /\ UNCHANGED <<apiVars, managerVars, workVars, mirrorVars, podVars, loaded, touched, budget>>

---------------------------------------------------------------------------
(* Informer event handlers.  They run from the first list on. *)

Informed == phase \in {"sync", "run"}

\* A plausible bug: a new revision is not announced to the workers.
UpdateAggregatorQuietly(a) == agg' = a /\ UNCHANGED queue

\* update's enqueue callback, enqueueManagedNodes: a new revision puts every
\* managed node on the queue.
UpdateAggregator(a) ==
    /\ agg' = a
    /\ queue' = IF a.revision # agg.revision THEN Add(queue, nodeCache) ELSE queue

\* configMapHandler on the base ConfigMap.  A deleted ConfigMap, or one with
\* no Caddyfile key, leaves the last known base in force.
BaseEvent ==
    /\ Informed
    /\ unsynced' = unsynced \ {"base"}
    /\ UpdateAggregator(IF apiBase = Absent THEN agg ELSE UpdateBase(agg, apiBase))
    /\ UNCHANGED <<apiVars, originKey, nodeCache, work, pushState, mirrorVars, podVars,
                   phase, loaded, touched, budget>>

\* namespaceAllowed
namespaceAllowed(namespace) ==
    /\ namespace # Namespace
    /\ namespace \notin ExternalDenyNamespaces
    /\ ExternalAllowNamespaces = {} \/ namespace \in ExternalAllowNamespaces

\* externalConfigMapHandler: the handler's three outcomes for one ConfigMap.
ExternalEvent(s) ==
    /\ Informed
    /\ unsynced' = unsynced \ {s}
    /\ UpdateAggregator(
         IF apiExternal[s] = Absent THEN RemoveExternal(agg, s)
         ELSE IF namespaceAllowed(NamespaceOf(s)) THEN SetExternal(agg, s, apiExternal[s])
         ELSE agg)
    /\ UNCHANGED <<apiVars, originKey, nodeCache, work, pushState, mirrorVars, podVars,
                   phase, loaded, touched, budget>>

\* configMapHandler on the boot ConfigMap: whoever changed or deleted it, it
\* is published again unless it is current.
MirrorEvent ==
    /\ Informed
    /\ ~mirrorSeen
    /\ mirrorSeen' = TRUE
    /\ unsynced' = unsynced \ {"mirror"}
    /\ queue' = IF IsMirrorCurrent(agg, mirror, originKey) THEN queue ELSE Add(queue, {MirrorKey})
    /\ UNCHANGED <<apiVars, originKey, agg, nodeCache, work, pushState, mirror, publishing,
                   podVars, phase, loaded, touched, budget>>

\* A plausible bug: a node that lost its label is not enqueued.
isEnqueuedIfManaged(n) == n \in labelled

\* nodeHandler enqueues a node that is or was managed; at start-up
\* managedObjectHandler also enqueues a node that owns objects.
isEnqueued(n) ==
    n \in labelled \cup nodeCache \/ (n \in unsynced /\ deployed[n] # Absent)

\* The first notifications about a node and its objects, or a label change.
NodeEvent(n) ==
    /\ Informed
    /\ n \in unsynced \/ (n \in labelled) # (n \in nodeCache)
    /\ nodeCache' = IF n \in labelled THEN nodeCache \cup {n} ELSE nodeCache \ {n}
    /\ queue' = IF isEnqueued(n) THEN Add(queue, {n}) ELSE queue
    /\ unsynced' = unsynced \ {n}
    /\ UNCHANGED <<apiVars, originKey, agg, work, pushState, mirrorVars, podVars,
                   phase, loaded, touched, budget>>

\* managedObjectHandler: an object labelled with n's name changed.  Before the
\* informers run, the first list carries the change.
ObjectEvent(q, n) == IF Informed THEN Add(q, {n}) ELSE q

\* informerResync: every handler gets every object again.
InformerResync ==
    /\ phase = "run"
    /\ queue' = Add(queue, nodeCache \cup {n \in Node : deployed[n] # Absent}
                           \cup (IF IsMirrorCurrent(agg, mirror, originKey) THEN {} ELSE {MirrorKey}))
    /\ UNCHANGED <<apiVars, managerVars, work, pushState, mirrorVars, podVars,
                   phase, loaded, touched, budget>>

---------------------------------------------------------------------------
(* The workers.  A worker holds the key of its node from GetNode on.  Every *)
(* reconcile ends in Finish (Forget and Done) or in Fail (AddRateLimited    *)
(* and Done).                                                               *)

Goto(n, pc) == work' = [work EXCEPT ![n].pc = pc]

Finish(n) == work' = [work EXCEPT ![n] = Idle] /\ queue' = Done(queue, n)

Fail(n) == work' = [work EXCEPT ![n] = Idle] /\ queue' = Retry(queue, n)

HasFreeWorker == phase = "run" /\ Cardinality(queue.processing) < WorkerCount

\* processNextItem and the head of reconcileNode.
GetNode(n) ==
    /\ HasFreeWorker
    /\ n \in Ready(queue)
    /\ queue' = Get(queue, n)
    /\ Goto(n, IF n \in nodeCache THEN "deploy" ELSE "teardown")
    /\ UNCHANGED <<apiVars, managerVars, pushState, mirrorVars, podVars, phase, loaded, touched, budget>>

\* The node's pod is gone, and the container in it.
PodRemoved(n) ==
    /\ status' = [status EXCEPT ![n] = 0]
    /\ container' = [container EXCEPT ![n] = 0]
    /\ running' = [running EXCEPT ![n] = Absent]
    /\ late' = [late EXCEPT ![n] = Absent]
    /\ unacked' = unacked \ {n}

\* ApplyDeployment reaches the API server.  A new Deployment has no pod yet,
\* and one whose template names another origin key has its pod replaced.
ApplyDeployment(n) ==
    /\ deployed' = [deployed EXCEPT ![n] = originKey]
    /\ IF deployed[n] = originKey
       THEN UNCHANGED <<status, container, running, late, unacked>>
       ELSE PodRemoved(n)

DeployQueue(n) == IF deployed[n] = originKey THEN queue ELSE ObjectEvent(queue, n)

\* applyCaddy when the rollout is not held.
ApplyCaddy(n) ==
    /\ work[n].pc = "deploy"
    /\ ApplyDeployment(n)
    /\ Goto(n, "find")
    /\ queue' = DeployQueue(n)
    /\ UNCHANGED <<apiVars, managerVars, pushState, mirrorVars, phase, loaded, touched, budget>>

\* syncRollout holds the rollout of a changed template: the Deployment stays
\* and the node is looked at again after requeueInterval, or, when the node is
\* out of service, at its next event.
HoldRollout(n) ==
    /\ work[n].pc = "deploy"
    /\ deployed[n] \notin {Absent, originKey}
    /\ Spend("fault")
    /\ Goto(n, "find")
    /\ queue' = AddAfter(queue, n)
    /\ UNCHANGED <<apiVars, managerVars, pushState, mirrorVars, podVars, phase, loaded, touched>>

\* An API call of applyCaddy fails, before or after the Deployment was applied.
ApplyCaddyFails(n) ==
    /\ work[n].pc = "deploy"
    /\ Spend("fault")
    /\ \/ Fail(n) /\ UNCHANGED podVars
       \/ /\ ApplyDeployment(n)
          /\ work' = [work EXCEPT ![n] = Idle]
          /\ queue' = Retry(DeployQueue(n), n)
    /\ UNCHANGED <<apiVars, managerVars, pushState, mirrorVars, phase, loaded, touched>>

\* FindActivePod reads the pod's status from the API server.
FindActivePod(n) ==
    /\ work[n].pc = "find"
    /\ work' = [work EXCEPT ![n].pc = "merge", ![n].containerID = status[n]]
    /\ UNCHANGED <<apiVars, managerVars, queue, pushState, mirrorVars, podVars,
                   phase, loaded, touched, budget>>

FindActivePodFails(n) ==
    /\ work[n].pc = "find"
    /\ Spend("fault")
    /\ Fail(n)
    /\ UNCHANGED <<apiVars, managerVars, pushState, mirrorVars, podVars, phase, loaded, touched>>

\* configDigest is taken to be free of collisions.
configDigest(caddyfile) == caddyfile

\* A plausible bug: the container the record is about is not compared.
pushUpToDateAnywhere(n, caddyfile, containerID) ==
    /\ containerID # 0
    /\ pushState[n] # Absent
    /\ pushState[n].digest = configDigest(caddyfile)

\* pushUpToDate
pushUpToDate(n, caddyfile, containerID) ==
    /\ containerID # 0
    /\ pushState[n] # Absent
    /\ pushState[n].digest = configDigest(caddyfile)
    /\ pushState[n].containerID = containerID

\* CurrentMerged returns an error: the worker waits for a ConfigMap change.
NothingToLoad(n) ==
    /\ work[n].pc = "merge"
    /\ ~IsLoadable(agg)
    /\ Finish(n)
    /\ UNCHANGED <<apiVars, managerVars, pushState, mirrorVars, podVars, phase, loaded, touched, budget>>

\* reconcileNode from CurrentMerged to the decision ensureLoaded takes: the
\* push is skipped, or the container has not started yet, or it is pushed to.
EnsureLoaded(n) ==
    /\ work[n].pc = "merge"
    /\ IsLoadable(agg)
    /\ LET upToDate == pushUpToDate(n, Merged(agg), work[n].containerID)
       IN IF ~upToDate /\ work[n].containerID = 0
          THEN Finish(n)
          ELSE /\ work' = [work EXCEPT ![n].pc = IF upToDate THEN "accept" ELSE "load",
                                       ![n].snapshot = CurrentMerged(agg)]
               /\ UNCHANGED queue
    /\ UNCHANGED <<apiVars, managerVars, pushState, mirrorVars, podVars, phase, loaded, touched, budget>>

Pushed(n) == work[n].snapshot.caddyfile

\* The node's Caddy accepts connections on the admin port.
Listens(n) == container[n] # 0 /\ AdaptedAdmin(running[n]).onAdminPort

IsAccepted(n) == container[n] # 0 /\ LoadAccepted(running[n], originKey, Pushed(n))

\* pushFn returns nil: the container that runs now, whichever it is, has
\* loaded the snapshot.  Caddy loads configurations one after the other, so
\* an earlier push that timed out has landed by now or never will.
PushLoaded(n) ==
    /\ work[n].pc = "load"
    /\ IsAccepted(n)
    /\ running' = [running EXCEPT ![n] = Pushed(n)]
    /\ late' = [late EXCEPT ![n] = Absent]
    /\ unacked' = unacked \ {n}
    /\ loaded' = loaded \cup {<<originKey, Pushed(n)>>}
    /\ Goto(n, "record")
    /\ UNCHANGED <<apiVars, managerVars, queue, pushState, mirrorVars, deployed, status,
                   container, phase, touched, budget>>

\* pushFn returns ErrConfigRejected: no retry before the next change.
PushRejected(n) ==
    /\ work[n].pc = "load"
    /\ Listens(n)
    /\ ~IsAccepted(n)
    /\ Finish(n)
    /\ UNCHANGED <<apiVars, managerVars, pushState, mirrorVars, podVars, phase, loaded, touched, budget>>

\* pushFn fails and has had no effect: nothing listens, or the call broke.
PushFails(n) ==
    /\ work[n].pc = "load"
    /\ IF Listens(n) THEN Spend("fault") ELSE UNCHANGED budget
    /\ Fail(n)
    /\ UNCHANGED <<apiVars, managerVars, pushState, mirrorVars, podVars, phase, loaded, touched>>

\* pushFn times out while Caddy still works on the request.
PushTimesOut(n) ==
    /\ work[n].pc = "load"
    /\ IsAccepted(n)
    /\ late[n] = Absent
    /\ Spend("late")
    /\ late' = [late EXCEPT ![n] = <<originKey, Pushed(n)>>]
    /\ Fail(n)
    /\ UNCHANGED <<apiVars, managerVars, pushState, mirrorVars, deployed, status, container,
                   running, unacked, phase, loaded, touched>>

\* A plausible bug: the record names the container of that time.
CurrentContainer(n) == status[n]

\* The container ID recordPush stores is the one read before the push.
RecordedContainer(n) == work[n].containerID

RecordPush(n) ==
    /\ work[n].pc = "record"
    /\ pushState' = [pushState EXCEPT ![n] =
                       [digest |-> configDigest(Pushed(n)), containerID |-> RecordedContainer(n)]]
    /\ Goto(n, "accept")
    /\ UNCHANGED <<apiVars, managerVars, queue, mirrorVars, podVars, phase, loaded, touched, budget>>

\* The tail of reconcileNode.
AcceptSnapshot(n) ==
    /\ work[n].pc = "accept"
    /\ agg' = Accept(agg, work[n].snapshot)
    /\ work' = [work EXCEPT ![n] = Idle]
    /\ queue' = Done(IF Accepts(agg, work[n].snapshot) THEN Add(queue, {MirrorKey}) ELSE queue, n)
    /\ UNCHANGED <<apiVars, originKey, nodeCache, unsynced, pushState, mirrorVars, podVars,
                   phase, loaded, touched, budget>>

\* Every object of the node is deleted.
DeleteObjects(n) == deployed' = [deployed EXCEPT ![n] = Absent] /\ PodRemoved(n)

TeardownQueue(n) == IF deployed[n] = Absent THEN queue ELSE ObjectEvent(queue, n)

\* teardownNode
TeardownNode(n) ==
    /\ work[n].pc = "teardown"
    /\ DeleteObjects(n)
    /\ pushState' = [pushState EXCEPT ![n] = Absent]
    /\ work' = [work EXCEPT ![n] = Idle]
    /\ queue' = Done(TeardownQueue(n), n)
    /\ UNCHANGED <<apiVars, managerVars, mirrorVars, phase, loaded, touched, budget>>

\* One of Teardown's deletions fails; the others are carried out all the same.
TeardownNodeFails(n) ==
    /\ work[n].pc = "teardown"
    /\ Spend("fault")
    /\ \/ Fail(n) /\ UNCHANGED podVars
       \/ /\ DeleteObjects(n)
          /\ work' = [work EXCEPT ![n] = Idle]
          /\ queue' = Retry(TeardownQueue(n), n)
    /\ UNCHANGED <<apiVars, managerVars, pushState, mirrorVars, phase, loaded, touched>>

\* processNextItem on mirrorKey; PublishMirror reads the accepted snapshot.
GetMirror ==
    /\ HasFreeWorker
    /\ MirrorKey \in Ready(queue)
    /\ queue' = Get(queue, MirrorKey)
    /\ publishing' = agg.accepted
    /\ UNCHANGED <<apiVars, managerVars, work, pushState, mirror, mirrorSeen, podVars,
                   phase, loaded, touched, budget>>

\* publishMirror
PublishMirror ==
    /\ publishing # Absent
    /\ mirror' = Stamped(originKey, publishing)
    /\ mirrorSeen' = (mirror' = mirror /\ mirrorSeen)
    /\ publishing' = Absent
    /\ queue' = Done(queue, MirrorKey)
    /\ UNCHANGED <<apiVars, managerVars, work, pushState, podVars, phase, loaded, touched, budget>>

\* publishMirror returns an error, with or without effect.
PublishMirrorFails ==
    /\ publishing # Absent
    /\ Spend("fault")
    /\ mirror' \in {mirror, Stamped(originKey, publishing)}
    /\ mirrorSeen' = (mirror' = mirror /\ mirrorSeen)
    /\ publishing' = Absent
    /\ queue' = Retry(queue, MirrorKey)
    /\ UNCHANGED <<apiVars, managerVars, work, pushState, podVars, phase, loaded, touched>>

\* A delay of AddRateLimited or AddAfter ends.
DelayExpires(k) ==
    /\ k \in queue.delayed
    /\ queue' = Expire(queue, k)
    /\ UNCHANGED <<apiVars, managerVars, work, pushState, mirrorVars, podVars,
                   phase, loaded, touched, budget>>

\* A plausible bug: the resync keeps the records.
KeptPushState == pushState

\* clear(c.pushState)
ClearedPushState == [n \in Node |-> Absent]

\* forceConfigResync, when the periodic resync is enabled.
ForceConfigResync ==
    /\ ConfigResync
    /\ phase = "run"
    /\ pushState' = ClearedPushState
    /\ queue' = Add(queue, nodeCache)
    /\ UNCHANGED <<apiVars, managerVars, work, mirrorVars, podVars, phase, loaded, touched, budget>>

---------------------------------------------------------------------------
(* The rest of the cluster: users, the kubelet and the containers. *)

EditBase(value) ==
    /\ value # apiBase
    /\ Spend("base")
    /\ apiBase' = value
    /\ touched' = touched \cup {"base"}
    /\ UNCHANGED <<apiExternal, labelled, managerVars, workVars, mirrorVars, podVars, phase, loaded>>

EditExternal(s, value) ==
    /\ value # apiExternal[s]
    /\ Spend("external")
    /\ apiExternal' = [apiExternal EXCEPT ![s] = value]
    /\ touched' = touched \cup {s}
    /\ UNCHANGED <<apiBase, labelled, managerVars, workVars, mirrorVars, podVars, phase, loaded>>

\* A node is labelled or unlabelled, joins or leaves.
RelabelNode(n) ==
    /\ Spend("label")
    /\ labelled' = IF n \in labelled THEN labelled \ {n} ELSE labelled \cup {n}
    /\ UNCHANGED <<apiBase, apiExternal, managerVars, workVars, mirrorVars, podVars,
                   phase, loaded, touched>>

\* Someone deletes the boot ConfigMap or edits its Caddyfile key.
EditMirror(data) ==
    /\ Spend("mirror")
    /\ mirror' = IF data = Absent THEN NoMirror ELSE [mirror EXCEPT !.data = data]
    /\ mirrorSeen' = FALSE
    /\ UNCHANGED <<apiVars, managerVars, workVars, publishing, podVars, phase, loaded, touched>>

\* Someone deletes the node's Deployment.
DeleteDeployment(n) ==
    /\ deployed[n] # Absent
    /\ Spend("restart")
    /\ DeleteObjects(n)
    /\ queue' = ObjectEvent(queue, n)
    /\ UNCHANGED <<apiVars, managerVars, work, pushState, mirrorVars, phase, loaded, touched>>

\* The container IDs something still refers to.
UsedIDs(n) ==
    {container[n], status[n], work[n].containerID}
    \cup (IF pushState[n] = Absent THEN {} ELSE {pushState[n].containerID})

\* The kubelet starts the node's container with the mounted boot ConfigMap.
\* Its ID is one that nothing refers to.
ContainerStarts(n) ==
    /\ deployed[n] # Absent
    /\ container[n] = 0
    /\ mirror.data \notin Malformed \cup {Absent}
    /\ \E id \in ContainerID \ UsedIDs(n) :
         /\ \A other \in ContainerID \ UsedIDs(n) : id <= other
         /\ container' = [container EXCEPT ![n] = id]
    /\ running' = [running EXCEPT ![n] = mirror.data]
    /\ UNCHANGED <<apiVars, managerVars, workVars, mirrorVars, deployed, status, late, unacked,
                   phase, loaded, touched, budget>>

\* The container exits, by itself or because its probes, which carry the
\* template's origin key, get no answer.
ContainerExits(n) ==
    /\ container[n] # 0
    /\ IF Answers(running[n], deployed[n]) THEN Spend("restart") ELSE UNCHANGED budget
    /\ container' = [container EXCEPT ![n] = 0]
    /\ running' = [running EXCEPT ![n] = Absent]
    /\ late' = [late EXCEPT ![n] = Absent]
    /\ unacked' = unacked \ {n}
    /\ UNCHANGED <<apiVars, managerVars, workVars, mirrorVars, deployed, status,
                   phase, loaded, touched>>

\* The ID the pod's status should carry: startedCaddyContainerID needs the
\* startup probe to have succeeded.
StartedID(n) ==
    IF container[n] # 0 /\ Answers(running[n], deployed[n]) THEN container[n] ELSE 0

\* The kubelet updates the pod's status.
StatusReported(n) ==
    /\ deployed[n] # Absent
    /\ status[n] # StartedID(n)
    /\ status' = [status EXCEPT ![n] = StartedID(n)]
    /\ queue' = ObjectEvent(queue, n)
    /\ UNCHANGED <<apiVars, managerVars, work, pushState, mirrorVars, deployed, container,
                   running, late, unacked, phase, loaded, touched, budget>>

\* Caddy carries out a push whose request timed out.
LateLoad(n) ==
    /\ late[n] # Absent
    /\ container[n] # 0
    /\ running' = [running EXCEPT ![n] = late[n][2]]
    /\ loaded' = loaded \cup {late[n]}
    /\ late' = [late EXCEPT ![n] = Absent]
    /\ unacked' = unacked \cup {n}
    /\ UNCHANGED <<apiVars, managerVars, workVars, mirrorVars, deployed, status, container,
                   phase, touched, budget>>

---------------------------------------------------------------------------

WorkerStep(n) ==
    \/ ApplyCaddy(n) \/ HoldRollout(n) \/ ApplyCaddyFails(n)
    \/ FindActivePod(n) \/ FindActivePodFails(n)
    \/ NothingToLoad(n) \/ EnsureLoaded(n)
    \/ PushLoaded(n) \/ PushRejected(n) \/ PushFails(n) \/ PushTimesOut(n)
    \/ RecordPush(n) \/ AcceptSnapshot(n)
    \/ TeardownNode(n) \/ TeardownNodeFails(n)

Manager ==
    \/ \E key \in OriginKey : Start(key)
    \/ InitializeMirror \/ InitializeMirrorFails \/ Crash \/ StartWorkers
    \/ BaseEvent \/ MirrorEvent \/ InformerResync \/ ForceConfigResync
    \/ \E s \in Source : ExternalEvent(s)
    \/ \E n \in Node : NodeEvent(n) \/ GetNode(n) \/ WorkerStep(n)
    \/ GetMirror \/ PublishMirror \/ PublishMirrorFails
    \/ \E k \in Key : DelayExpires(k)

Environment ==
    \/ \E value \in Base \cup {Absent} : EditBase(value)
    \/ \E s \in Source, value \in Fragment \cup {Absent} : EditExternal(s, value)
    \/ \E data \in Caddyfile \cup {Absent} : EditMirror(data)
    \/ \E n \in Node : \/ RelabelNode(n) \/ DeleteDeployment(n)
                       \/ ContainerStarts(n) \/ ContainerExits(n)
                       \/ StatusReported(n) \/ LateLoad(n)

Next == Manager \/ Environment

\* The process is restarted, informers deliver, the queue is first in first
\* out and its delays end, workers and the kubelet keep going, a failing
\* liveness probe restarts its container, and a configured resync ticks.
\* Users owe nothing, disturbances may stop, and a late push may never land.
Fairness ==
    /\ WF_vars(\E key \in OriginKey : Start(key))
    /\ WF_vars(InitializeMirror)
    /\ WF_vars(StartWorkers)
    /\ WF_vars(BaseEvent)
    /\ WF_vars(MirrorEvent)
    /\ WF_vars(ForceConfigResync)
    /\ SF_vars(GetMirror)
    /\ WF_vars(PublishMirror)
    /\ \A s \in Source : WF_vars(ExternalEvent(s))
    /\ \A k \in Key : WF_vars(DelayExpires(k))
    /\ \A n \in Node :
         /\ WF_vars(NodeEvent(n))
         /\ SF_vars(GetNode(n))
         /\ WF_vars(WorkerStep(n))
         /\ WF_vars(ContainerStarts(n))
         /\ WF_vars(ContainerExits(n) /\ UNCHANGED budget)
         /\ WF_vars(StatusReported(n))

Spec == Init /\ [][Next]_vars

FairSpec == Spec /\ Fairness

---------------------------------------------------------------------------
(* Safety. *)

\* recordPush: unless a push whose reply was lost took effect, a record about
\* the container that runs names what it runs.  So when pushUpToDate skips a
\* push, the push would have changed nothing, whatever restarts and status
\* updates came between reading the container ID, pushing and recording.
PushRecordTruthful ==
    \A n \in Node :
        /\ pushState[n] # Absent
        /\ pushState[n].containerID = container[n]
        /\ work[n].pc # "record"
        /\ n \notin unacked
        => running[n] = pushState[n].digest

\* publishMirror and InitializeMirror: a boot snapshot stamped for an origin
\* key is that key's bootstrap Caddyfile or was loaded by a running Caddy
\* under that key, across crashes, key changes and edits of the ConfigMap.
BootSnapshotProven ==
    \A key \in OriginKey :
        IsStamped(mirror, key) =>
            mirror.data = BootstrapCaddyfile(key) \/ <<key, mirror.data>> \in loaded

\* checkAdminReachable: a container that boots from a stamped snapshot answers
\* the manager that stamped it, so the manager never locks itself out.
BootSnapshotAnswers ==
    \A key \in OriginKey : IsStamped(mirror, key) => Answers(mirror.data, key)

\* The queue discipline of update, managedObjectHandler and processNextItem:
\* when nothing is left to do for a managed node, it has the manager's
\* Deployment, and its started container has the current merged Caddyfile on
\* record, or there is none to load, or Caddy refuses it.  A restarted
\* container whose status is not reported yet is still to be announced.
QuiescentMeansPushed ==
    \A n \in nodeCache :
        phase = "run" /\ IsIdle(queue, n) =>
            /\ deployed[n] = originKey
            /\ \/ ~IsLoadable(agg)
               \/ status[n] = 0 \/ status[n] # container[n]
               \/ pushUpToDate(n, Merged(agg), status[n])
               \/ n \in unacked
               \/ ~LoadAccepted(running[n], originKey, Merged(agg))

\* configMapHandler and reconcileNode: when nothing is left to do for the boot
\* ConfigMap and its last change was delivered, it holds the accepted
\* snapshot, whoever wrote to it and whichever publication failed.
QuiescentMeansPublished ==
    phase = "run" /\ mirrorSeen /\ IsIdle(queue, MirrorKey)
        => mirror = Stamped(originKey, agg.accepted)

\* managedObjectHandler: when nothing is left to do for a node that is not
\* managed, none of its objects and no push record is left, even if it lost
\* its label while no manager ran or while a worker was deploying to it.
QuiescentMeansTornDown ==
    \A n \in Node \ nodeCache :
        phase = "run" /\ IsIdle(queue, n) => deployed[n] = Absent /\ pushState[n] = Absent

\* WaitForCacheSync and namespaceAllowed: no worker ever handles a Caddyfile
\* that lacks a ConfigMap which has been there since before the manager
\* started, or that contains one from a namespace that is not allowed.
SnapshotComplete ==
    \A n \in Node : work[n].snapshot # Absent =>
        LET c == work[n].snapshot.caddyfile
        IN /\ "base" \notin touched => apiBase # Absent /\ c.base = apiBase.text
           /\ \A s \in Source :
                IF namespaceAllowed(NamespaceOf(s))
                THEN s \notin touched => c.externals[s] = TrimSpace(apiExternal[s])
                ELSE c.externals[s] = ""

\* Accept: while the process lives, workers that finish out of order never
\* replace the accepted snapshot by one of an older revision.
AcceptedNeverRegresses ==
    [][phase' # "down" => agg'.acceptedRevision >= agg.acceptedRevision]_vars

---------------------------------------------------------------------------
(* The abstract specification of the boot ConfigMap. *)

\* The annotation is the promise; it is kept while the data matches it.
Boot == INSTANCE BootSnapshot WITH
    promise <- mirror.stamp,
    intact <- \E key \in OriginKey : IsStamped(mirror, key)

\* InitializeMirror and publishMirror, under crashes, failures, key changes and
\* edits of the ConfigMap: the boot ConfigMap is a cell that takes only what a
\* Caddy has loaded under the key it is stamped for, and the bootstrap only
\* while it vouches for nothing else under that key.
BootSnapshotRefined == Boot!Spec

---------------------------------------------------------------------------
(* Liveness, once the disturbances have stopped. *)

\* The aggregator's state once every ConfigMap is delivered.
Delivered ==
    [agg EXCEPT !.base = IF apiBase = Absent THEN @ ELSE apiBase,
                !.externals = [s \in Source |-> IF namespaceAllowed(NamespaceOf(s))
                                                THEN apiExternal[s] ELSE Absent]]

\* There is a configuration, and Caddy and the manager accept it.
HasTarget ==
    /\ IsLoadable(Delivered)
    /\ Merged(Delivered) \notin Malformed
    /\ checkAdminReachable(Merged(Delivered), originKey)

\* README.md: the manager keeps each instance's configuration continuously in
\* sync.  Every managed node ends up with a container that runs the merge of
\* the ConfigMaps.
EventuallyInSync ==
    <>[](HasTarget => \A n \in labelled : container[n] # 0 /\ running[n] = Merged(Delivered))

\* reconcileNode: a node that is no longer managed loses its objects for good.
EventuallyTornDown == <>[](\A n \in Node \ labelled : deployed[n] = Absent)

\* PublishMirror: the boot ConfigMap ends up as what the managed nodes run, so
\* a restarted container comes back with it.
EventuallyPublished ==
    <>[](HasTarget /\ labelled # {} => mirror = Stamped(originKey, Merged(Delivered)))
===========================================================================
