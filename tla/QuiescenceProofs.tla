------------------------- MODULE QuiescenceProofs -------------------------
(***************************************************************************)
(* Proofs that no work is lost: when the queue has nothing left for a key, *)
(* what the key stands for is as it should be.  The argument is the same   *)
(* for the boot ConfigMap and for a node: unless the key is dirty or       *)
(* delayed, the worker that holds it has seen the present state, and its   *)
(* place tells how much of the present state it has dealt with.            *)
(***************************************************************************)
EXTENDS SnapshotProofs

---------------------------------------------------------------------------
(* The work queue. *)

\* A worker will be handed k, again if one holds it now.
Pending(k) == k \in queue.dirty \cup queue.delayed

\* What the operations of the queue do to its three sets.
LEMMA QueueFields ==
    ASSUME NEW q \in QueueOf(Key), NEW k \in Key
    PROVE  /\ \A S \in SUBSET Key : /\ Add(q, S).dirty = q.dirty \cup S
                                    /\ Add(q, S).delayed = q.delayed
                                    /\ Add(q, S).processing = q.processing
           /\ /\ Get(q, k).dirty = q.dirty \ {k}
              /\ Get(q, k).delayed = q.delayed
              /\ Get(q, k).processing = q.processing \cup {k}
           /\ /\ Done(q, k).dirty = q.dirty
              /\ Done(q, k).delayed = q.delayed
              /\ Done(q, k).processing = q.processing \ {k}
           /\ /\ AddAfter(q, k).dirty = q.dirty
              /\ AddAfter(q, k).delayed = q.delayed \cup {k}
              /\ AddAfter(q, k).processing = q.processing
           /\ /\ Retry(q, k).dirty = q.dirty
              /\ Retry(q, k).delayed = q.delayed \cup {k}
              /\ Retry(q, k).processing = q.processing \ {k}
           /\ /\ Expire(q, k).dirty = q.dirty \cup {k}
              /\ Expire(q, k).delayed = q.delayed \ {k}
              /\ Expire(q, k).processing = q.processing
  BY DEF QueueOf, Add, Get, Done, AddAfter, Retry, Expire

\* Nothing that was to be done for j is forgotten on the way from q to r, and
\* whoever holds j keeps it.
Keeps(q, r, j) ==
    /\ j \in q.dirty \cup q.delayed => j \in r.dirty \cup r.delayed
    /\ j \in r.processing <=> j \in q.processing

\* The operations on the key k keep the other keys.
LEMMA OthersKept ==
    ASSUME NEW q \in QueueOf(Key), NEW k \in Key, NEW j \in Key, j # k
    PROVE  /\ Keeps(q, Get(q, k), j) /\ Keeps(q, Done(q, k), j) /\ Keeps(q, Retry(q, k), j)
           /\ \A S \in SUBSET Key : /\ Keeps(q, Done(Add(q, S), k), j)
                                    /\ Keeps(q, Retry(Add(q, S), k), j)
  <1>1. Keeps(q, Get(q, k), j) /\ Keeps(q, Done(q, k), j) /\ Keeps(q, Retry(q, k), j)
    BY QueueFields DEF Keeps
  <1>2. ASSUME NEW S \in SUBSET Key
        PROVE  Keeps(q, Done(Add(q, S), k), j) /\ Keeps(q, Retry(Add(q, S), k), j)
    <2>1. /\ Add(q, S) \in QueueOf(Key)
          /\ Add(q, S).dirty = q.dirty \cup S
          /\ Add(q, S).delayed = q.delayed
          /\ Add(q, S).processing = q.processing
      BY QueueFields, QueueType
    <2> QED BY <2>1, QueueFields DEF Keeps
  <1> QED BY <1>1, <1>2

\* Add, AddAfter and the end of a delay keep every key.
LEMMA AllKept ==
    ASSUME NEW q \in QueueOf(Key), NEW k \in Key, NEW j \in Key
    PROVE  /\ Keeps(q, q, j) /\ Keeps(q, AddAfter(q, k), j)
           /\ \A S \in SUBSET Key : Keeps(q, Add(q, S), j)
           /\ k \in q.delayed => Keeps(q, Expire(q, k), j)
  BY QueueFields DEF Keeps

\* A worker that handles a node keeps the other keys.
LEMMA WorkerKeeps ==
    ASSUME TypeOK, NEW n \in Node, GetNode(n) \/ WorkerStep(n), NEW j \in Key, j # n
    PROVE  Keeps(queue, queue', j)
  <1>keys. n \in Key /\ MirrorKey \in Key /\ queue \in QueueOf(Key)
    BY DEF Key, TypeOK
  <1>ops. /\ \A r \in {queue, Get(queue, n), Done(queue, n), Retry(queue, n), AddAfter(queue, n)} :
               Keeps(queue, r, j)
          /\ \A S \in SUBSET Key : /\ Keeps(queue, Add(queue, S), j)
                                   /\ Keeps(queue, Done(Add(queue, S), n), j)
                                   /\ Keeps(queue, Retry(Add(queue, S), n), j)
    BY <1>keys, AllKept, OthersKept
  <1>1. CASE GetNode(n)
    BY <1>1, <1>ops DEF GetNode
  <1>2. CASE ApplyCaddy(n) \/ HoldRollout(n)
    BY <1>2, <1>ops, <1>keys DEF ApplyCaddy, HoldRollout, DeployQueue, ObjectEvent
  <1>3. CASE ApplyCaddyFails(n)
    BY <1>3, <1>ops, <1>keys DEF ApplyCaddyFails, Fail, DeployQueue, ObjectEvent
  <1>4. CASE FindActivePod(n) \/ PushLoaded(n) \/ RecordPush(n)
    BY <1>4, <1>ops DEF FindActivePod, PushLoaded, RecordPush
  <1>5. CASE FindActivePodFails(n) \/ PushFails(n) \/ PushTimesOut(n)
    BY <1>5, <1>ops DEF FindActivePodFails, PushFails, PushTimesOut, Fail
  <1>6. CASE NothingToLoad(n) \/ PushRejected(n)
    BY <1>6, <1>ops DEF NothingToLoad, PushRejected, Finish
  <1>7. CASE EnsureLoaded(n)
    <2>1. queue' \in {queue, Done(queue, n)}
      BY <1>7 DEF EnsureLoaded, Finish
    <2> QED BY <2>1, <1>ops
  <1>8. CASE AcceptSnapshot(n)
    BY <1>8, <1>ops, <1>keys DEF AcceptSnapshot
  <1>9. CASE TeardownNode(n)
    BY <1>9, <1>ops, <1>keys DEF TeardownNode, TeardownQueue, ObjectEvent
  <1>10. CASE TeardownNodeFails(n)
    BY <1>10, <1>ops, <1>keys DEF TeardownNodeFails, Fail, TeardownQueue, ObjectEvent
  <1> QED BY <1>1, <1>2, <1>3, <1>4, <1>5, <1>6, <1>7, <1>8, <1>9, <1>10 DEF WorkerStep

\* The steps of the informers and of the timers, which only add to the queue.
EventStep ==
    \/ BaseEvent \/ MirrorEvent \/ InformerResync \/ ForceConfigResync
    \/ \E s \in Source : ExternalEvent(s)
    \/ \E n \in Node : NodeEvent(n)
    \/ \E k \in Key : DelayExpires(k)

LEMMA EventKeeps ==
    ASSUME TypeOK, EventStep, NEW j \in Key
    PROVE  Keeps(queue, queue', j)
  <1>keys. Node \subseteq Key /\ MirrorKey \in Key /\ nodeCache \subseteq Key /\ queue \in QueueOf(Key)
    BY DEF Key, TypeOK
  <1>ops. /\ Keeps(queue, queue, j)
          /\ \A S \in SUBSET Key : Keeps(queue, Add(queue, S), j)
          /\ \A k \in Key : k \in queue.delayed => Keeps(queue, Expire(queue, k), j)
    BY <1>keys, AllKept
  <1>1. CASE BaseEvent \/ \E s \in Source : ExternalEvent(s)
    BY <1>1, <1>ops, <1>keys DEF BaseEvent, ExternalEvent, UpdateAggregator
  <1>2. CASE MirrorEvent
    BY <1>2, <1>ops, <1>keys DEF MirrorEvent
  <1>3. CASE InformerResync \/ ForceConfigResync
    BY <1>3, <1>ops, <1>keys DEF InformerResync, ForceConfigResync
  <1>4. CASE \E n \in Node : NodeEvent(n)
    BY <1>4, <1>ops, <1>keys DEF NodeEvent
  <1>5. CASE \E k \in Key : DelayExpires(k)
    BY <1>5, <1>ops DEF DelayExpires
  <1> QED BY <1>1, <1>2, <1>3, <1>4, <1>5 DEF EventStep

\* So do the steps of the cluster.
LEMMA ClusterKeeps ==
    ASSUME TypeOK, Environment, NEW j \in Key
    PROVE  Keeps(queue, queue', j)
  <1>keys. Node \subseteq Key /\ queue \in QueueOf(Key)
    BY DEF Key, TypeOK
  <1>ops. Keeps(queue, queue, j) /\ \A S \in SUBSET Key : Keeps(queue, Add(queue, S), j)
    BY <1>keys, AllKept
  <1>1. ASSUME NEW n \in Node, DeleteDeployment(n) \/ StatusReported(n)
        PROVE  Keeps(queue, queue', j)
    BY <1>1, <1>ops, <1>keys DEF DeleteDeployment, StatusReported, ObjectEvent
  <1>2. ASSUME UNCHANGED queue PROVE Keeps(queue, queue', j)
    BY <1>2, <1>ops
  <1> QED BY <1>1, <1>2
      DEF Environment, EditBase, EditExternal, EditMirror, RelabelNode, ContainerStarts,
          ContainerExits, LateLoad, workVars

\* The worker that publishes keeps the nodes.
LEMMA PublisherKeeps ==
    ASSUME TypeOK, GetMirror \/ PublishMirror \/ PublishMirrorFails, NEW n \in Node
    PROVE  Keeps(queue, queue', n)
  <1>1. n \in Key /\ MirrorKey \in Key /\ n # MirrorKey /\ queue \in QueueOf(Key)
    BY ConfigSyncAssumption DEF Key, TypeOK
  <1> QED BY <1>1, OthersKept DEF GetMirror, PublishMirror, PublishMirrorFails

---------------------------------------------------------------------------
(* The boot ConfigMap. *)

\* The worker that holds mirrorKey is about to publish.  Unless the key is
\* pending, it publishes the accepted snapshot, or no worker holds the key and
\* the ConfigMap's last version that was delivered is the accepted one.
PublishedOrPending ==
    /\ publishing # Absent <=> MirrorKey \in queue.processing
    /\ Informed => agg.accepted \in Caddyfile
    /\ Informed /\ ~Pending(MirrorKey) =>
         IF publishing # Absent THEN publishing = agg.accepted
         ELSE mirrorSeen => mirror = Stamped(originKey, agg.accepted)

PublishInv == PhaseInv /\ PublishedOrPending

\* A step that does nothing about the boot ConfigMap.
MirrorFrame ==
    /\ UNCHANGED <<mirror, mirrorSeen, publishing, originKey, phase>>
    /\ agg'.accepted = agg.accepted
    /\ Keeps(queue, queue', MirrorKey)

LEMMA MirrorFrameKeeps ==
    ASSUME PublishedOrPending, MirrorFrame PROVE PublishedOrPending'
  BY DEF PublishedOrPending, MirrorFrame, Keeps, Pending, Informed

LEMMA PublishInit == Init => PublishInv
  BY PhaseInit DEF Init, PublishInv, PublishedOrPending, Informed, EmptyQueue

\* Every step publishes what is to be published, or leaves it pending.
LEMMA PublishStep == PublishInv /\ [Next]_vars => PublishInv'
  <1> SUFFICES ASSUME PublishInv, [Next]_vars PROVE PublishedOrPending'
    BY PhaseStep DEF PublishInv
  <1> TypeOK /\ WorkOK /\ PhaseOK /\ PublishedOrPending
    BY DEF PublishInv, PhaseInv, MutexInv, TypeInv
  <1>keys. /\ MirrorKey \in Key /\ Node \subseteq Key /\ queue \in QueueOf(Key)
           /\ \A n \in Node : MirrorKey # n
    BY ConfigSyncAssumption DEF Key, TypeOK
  <1>frame. ASSUME UNCHANGED <<mirrorVars, originKey, phase>>, agg'.accepted = agg.accepted,
                   Keeps(queue, queue', MirrorKey)
            PROVE  PublishedOrPending'
    BY <1>frame, MirrorFrameKeeps DEF MirrorFrame, mirrorVars
  <1>start. ASSUME NEW key \in OriginKey, Start(key) PROVE PublishedOrPending'
    BY <1>start DEF Start, PublishedOrPending, Informed, workVars, mirrorVars
  <1>exits. CASE InitializeMirrorFails \/ Crash
    BY <1>exits DEF InitializeMirrorFails, Crash, ProcessExits, PublishedOrPending, Informed,
                    EmptyQueue
  <1>init. CASE InitializeMirror
    <2>1. initialSnapshot \in Caddyfile
      BY CaddyfileFacts DEF initialSnapshot, IsStamped, TypeOK, Mirrors
    <2>2. /\ agg'.accepted = initialSnapshot /\ mirrorSeen' = FALSE
          /\ UNCHANGED <<publishing, queue>> /\ publishing = Absent
      BY <1>init DEF InitializeMirror, PhaseOK, TypeOK, AggregatorState, workVars
    <2> QED BY <2>1, <2>2 DEF PublishedOrPending
  <1>run. CASE StartWorkers
    BY <1>run DEF StartWorkers, PublishedOrPending, Pending, Informed, managerVars, workVars,
                  mirrorVars
  <1>mirror. CASE MirrorEvent
    <2>1. /\ Keeps(queue, queue', MirrorKey)
          /\ UNCHANGED <<mirror, publishing, originKey, phase, agg>> /\ Informed
      BY <1>mirror, <1>keys, EventKeeps DEF EventStep, MirrorEvent
    <2>2. CASE IsMirrorCurrent(agg, mirror, originKey)
      <3>1. mirror = Stamped(originKey, agg.accepted)
        BY <2>2 DEF IsMirrorCurrent, IsStamped, Stamped, TypeOK, Mirrors
      <3> QED BY <2>1, <3>1 DEF PublishedOrPending, Keeps, Pending, Informed
    <2>3. CASE ~IsMirrorCurrent(agg, mirror, originKey)
      <3>1. queue' = Add(queue, {MirrorKey})
        BY <1>mirror, <2>3 DEF MirrorEvent
      <3>2. Pending(MirrorKey)'
        BY <3>1, <1>keys, QueueFields DEF Pending
      <3> QED BY <2>1, <3>2 DEF PublishedOrPending, Keeps, Informed
    <2> QED BY <2>2, <2>3
  <1>base. CASE BaseEvent
    BY <1>base, <1>frame, <1>keys, EventKeeps, UpdateKeepsAccepted
    DEF EventStep, BaseEvent, UpdateAggregator, TypeOK
  <1>external. ASSUME NEW s \in Source, ExternalEvent(s) PROVE PublishedOrPending'
    <2>1. agg'.accepted = agg.accepted
      BY <1>external, UpdateKeepsAccepted DEF ExternalEvent, UpdateAggregator, TypeOK
    <2> QED BY <1>external, <2>1, <1>frame, <1>keys, EventKeeps DEF EventStep, ExternalEvent
  <1>events. ASSUME \/ InformerResync \/ ForceConfigResync
                    \/ \E n \in Node : NodeEvent(n)
                    \/ \E k \in Key : DelayExpires(k)
             PROVE  PublishedOrPending'
    <2>1. UNCHANGED <<mirrorVars, originKey, phase, agg>>
      BY <1>events DEF InformerResync, ForceConfigResync, NodeEvent, DelayExpires, managerVars
    <2> QED BY <1>events, <2>1, <1>frame, <1>keys, EventKeeps DEF EventStep
  <1>get. CASE GetMirror
    <2>1. /\ UNCHANGED <<mirror, mirrorSeen, originKey, phase, agg>> /\ Informed
          /\ publishing' = agg.accepted
      BY <1>get DEF GetMirror, HasFreeWorker, Informed, managerVars
    <2>2. MirrorKey \in queue'.processing
      BY <1>get, <1>keys, QueueFields DEF GetMirror
    <2> QED BY <2>1, <2>2, CaddyfileFacts DEF PublishedOrPending, Informed
  <1>publish. CASE PublishMirror
    <2>1. /\ UNCHANGED <<originKey, phase, agg>>
          /\ publishing' = Absent /\ mirror' = Stamped(originKey, publishing)
      BY <1>publish DEF PublishMirror, managerVars
    <2>2. /\ MirrorKey \notin queue'.processing
          /\ Pending(MirrorKey)' <=> Pending(MirrorKey)
      BY <1>publish, <1>keys, QueueFields DEF PublishMirror, Pending
    <2>3. publishing # Absent
      BY <1>publish DEF PublishMirror
    <2> QED BY <2>1, <2>2, <2>3 DEF PublishedOrPending, Informed
  <1>publishfail. CASE PublishMirrorFails
    <2>1. UNCHANGED <<originKey, phase, agg>> /\ publishing' = Absent
      BY <1>publishfail DEF PublishMirrorFails, managerVars
    <2>2. MirrorKey \notin queue'.processing /\ Pending(MirrorKey)'
      BY <1>publishfail, <1>keys, QueueFields DEF PublishMirrorFails, Pending
    <2> QED BY <2>1, <2>2 DEF PublishedOrPending, Informed
  <1>accept. ASSUME NEW n \in Node, AcceptSnapshot(n) PROVE PublishedOrPending'
    <2>1. UNCHANGED <<mirror, mirrorSeen, publishing, originKey, phase>>
      BY <1>accept DEF AcceptSnapshot, mirrorVars
    <2>2. Keeps(queue, queue', MirrorKey)
      BY <1>accept, <1>keys, WorkerKeeps DEF WorkerStep
    <2>3. CASE Accepts(agg, work[n].snapshot)
      <3>1. queue' = Done(Add(queue, {MirrorKey}), n)
        BY <1>accept, <2>3 DEF AcceptSnapshot
      <3>2. /\ Add(queue, {MirrorKey}) \in QueueOf(Key)
            /\ Add(queue, {MirrorKey}).dirty = queue.dirty \cup {MirrorKey}
        BY <1>keys DEF QueueOf, Add
      <3>3. Pending(MirrorKey)'
        BY <3>1, <3>2, <1>keys, QueueFields DEF Pending
      <3>4. agg'.accepted \in Caddyfile
        BY <1>accept, <2>3, CaddyfileFacts
        DEF AcceptSnapshot, Accept, WorkOK, Snapshots, TypeOK, AggregatorState
      <3> QED BY <2>1, <2>2, <3>3, <3>4 DEF PublishedOrPending, Keeps
    <2>4. CASE ~Accepts(agg, work[n].snapshot)
      <3>1. UNCHANGED agg
        BY <1>accept, <2>4 DEF AcceptSnapshot, Accept
      <3> QED BY <2>1, <2>2, <3>1, MirrorFrameKeeps DEF MirrorFrame
    <2> QED BY <2>3, <2>4
  <1>getnode. ASSUME NEW n \in Node, GetNode(n) PROVE PublishedOrPending'
    BY <1>getnode, <1>keys, <1>frame, WorkerKeeps DEF GetNode, managerVars
  <1>worker. ASSUME NEW n \in Node, WorkerStep(n), ~AcceptSnapshot(n) PROVE PublishedOrPending'
    <2>1. UNCHANGED <<mirrorVars, originKey, phase, agg>>
      BY <1>worker
      DEF WorkerStep, ApplyCaddy, HoldRollout, ApplyCaddyFails, FindActivePod,
          FindActivePodFails, NothingToLoad, EnsureLoaded, PushLoaded, PushRejected,
          PushFails, PushTimesOut, RecordPush, TeardownNode, TeardownNodeFails, managerVars
    <2> QED BY <1>worker, <2>1, <1>keys, <1>frame, WorkerKeeps
  <1>edit. ASSUME NEW data \in Caddyfile \cup {Absent}, EditMirror(data) PROVE PublishedOrPending'
    BY <1>edit DEF EditMirror, PublishedOrPending, Pending, Informed, managerVars, workVars
  <1>cluster. ASSUME Environment, ~ \E data \in Caddyfile \cup {Absent} : EditMirror(data)
              PROVE  PublishedOrPending'
    <2>1. UNCHANGED <<mirrorVars, originKey, phase, agg>>
      BY <1>cluster
      DEF Environment, EditBase, EditExternal, RelabelNode, DeleteDeployment, ContainerStarts,
          ContainerExits, StatusReported, LateLoad, managerVars
    <2> QED BY <1>cluster, <2>1, <1>keys, <1>frame, ClusterKeeps
  <1>stutter. CASE UNCHANGED vars
    BY <1>stutter
    DEF vars, PublishedOrPending, Pending, Informed, managerVars, workVars, mirrorVars
  <1> QED
    BY <1>start, <1>exits, <1>init, <1>run, <1>mirror, <1>base, <1>external, <1>events,
       <1>get, <1>publish, <1>publishfail, <1>accept, <1>getnode, <1>worker, <1>edit,
       <1>cluster, <1>stutter
    DEF Next, Manager

\* Whoever writes to the boot ConfigMap, whichever publication fails and in
\* whatever order snapshots are accepted: when nothing is left to do for it and
\* its last change was delivered, it holds the accepted snapshot.
THEOREM PublishedWhenQuiescent == Spec => []QuiescentMeansPublished
  <1>1. Init => PublishInv
    BY PublishInit
  <1>2. PublishInv /\ [Next]_vars => PublishInv'
    BY PublishStep
  <1>3. PublishInv => QuiescentMeansPublished
    BY DEF PublishInv, PublishedOrPending, Pending, Informed, QuiescentMeansPublished, IsIdle
  <1> QED BY <1>1, <1>2, <1>3, PTL DEF Spec
---------------------------------------------------------------------------
(* The nodes. *)

\* What is to be pushed.
SameConfig == Merged(agg') = Merged(agg) /\ (IsLoadable(agg') <=> IsLoadable(agg))

\* Nothing is to be pushed to n, or it has been, or it cannot be now.
InForce(n) ==
    \/ ~IsLoadable(agg)
    \/ status[n] = 0 \/ status[n] # container[n]
    \/ pushUpToDate(n, Merged(agg), status[n])
    \/ n \in unacked
    \/ ~LoadAccepted(running[n], originKey, Merged(agg))

\* The worker that holds n carries the present merge.
Carries(n) == IsLoadable(agg) /\ Pushed(n) = Merged(agg)

\* An unmanaged node is being torn down or is clean.
CleanOrTorn(n) ==
    \/ work[n].pc = "teardown"
    \/ work[n].pc = "idle" /\ deployed[n] = Absent /\ pushState[n] = Absent

\* What the worker that holds a managed node has dealt with when it gets to
\* each place.
DealtWith(n) ==
    /\ work[n].pc # "teardown"
    /\ work[n].pc # "deploy" => deployed[n] = originKey
    /\ work[n].pc = "idle" => InForce(n)
    /\ work[n].pc \in {"merge", "load", "record"} => work[n].containerID = status[n]
    /\ work[n].pc \in {"load", "record", "accept"} => Carries(n)
    /\ work[n].pc = "accept" => pushUpToDate(n, Merged(agg), status[n])

NodeOK(n) ==
    Informed /\ n \notin unsynced /\ ~Pending(n) =>
        IF n \in nodeCache THEN DealtWith(n) ELSE CleanOrTorn(n)

NodeInv == PhaseInv /\ \A n \in Node : NodeOK(n)

\* Every change of the base or of a fragment gets a new revision.
LEMMA ChangeNumbered ==
    ASSUME NEW a \in AggregatorState
    PROVE  /\ \A base \in Base : a.base # base => UpdateBase(a, base).revision = a.revision + 1
           /\ \A s \in Source :
                a.externals[s] # Absent => RemoveExternal(a, s).revision = a.revision + 1
           /\ \A s \in Source, f \in Fragment :
                (IF a.externals[s] = Absent THEN EmptyFragment ELSE a.externals[s]) # f
                  => SetExternal(a, s, f).revision = a.revision + 1
  <1>1. \A base \in Base : a.base # base => UpdateBase(a, base).revision = a.revision + 1
    BY DEF UpdateBase, update, AggregatorState
  <1>2. \A s \in Source :
          a.externals[s] # Absent => RemoveExternal(a, s).revision = a.revision + 1
    BY DEF RemoveExternal, update, AggregatorState
  <1>3. \A s \in Source, f \in Fragment :
          (IF a.externals[s] = Absent THEN EmptyFragment ELSE a.externals[s]) # f
            => SetExternal(a, s, f).revision = a.revision + 1
    BY DEF SetExternal, update, AggregatorState
  <1> QED BY <1>1, <1>2, <1>3

\* What is merged depends on the base and on the trimmed fragments.
LEMMA SameParts ==
    ASSUME NEW a, NEW b, b.base = a.base,
           \A s \in Source : TrimSpace(b.externals[s]) = TrimSpace(a.externals[s])
    PROVE  Merged(b) = Merged(a) /\ (IsLoadable(b) <=> IsLoadable(a))
  <1>1. [s \in Source |-> TrimSpace(b.externals[s])] = [s \in Source |-> TrimSpace(a.externals[s])]
    OBVIOUS
  <1>2. Merged(b) = Merged(a)
    BY <1>1 DEF Merged
  <1> QED BY <1>2 DEF IsLoadable

\* A method that gives no new revision changes nothing that is merged: all it
\* can do is store a blank fragment where there was none.
LEMMA SameRevisionSameConfig ==
    ASSUME NEW a \in AggregatorState
    PROVE  /\ \A base \in Base :
                UpdateBase(a, base).revision = a.revision
                  => /\ Merged(UpdateBase(a, base)) = Merged(a)
                     /\ IsLoadable(UpdateBase(a, base)) <=> IsLoadable(a)
           /\ \A s \in Source :
                RemoveExternal(a, s).revision = a.revision
                  => /\ Merged(RemoveExternal(a, s)) = Merged(a)
                     /\ IsLoadable(RemoveExternal(a, s)) <=> IsLoadable(a)
           /\ \A s \in Source, f \in Fragment :
                SetExternal(a, s, f).revision = a.revision
                  => /\ Merged(SetExternal(a, s, f)) = Merged(a)
                     /\ IsLoadable(SetExternal(a, s, f)) <=> IsLoadable(a)
  <1>rev. a.revision \in Nat /\ a.externals \in [Source -> Fragment \cup {Absent}]
    BY DEF AggregatorState
  <1>1. ASSUME NEW base \in Base, UpdateBase(a, base).revision = a.revision
        PROVE  /\ Merged(UpdateBase(a, base)) = Merged(a)
               /\ IsLoadable(UpdateBase(a, base)) <=> IsLoadable(a)
    <2>1. a.base = base
      BY <1>1, <1>rev, ChangeNumbered
    <2> QED BY <2>1, ConfigChanges, SameParts
  <1>2. ASSUME NEW s \in Source, RemoveExternal(a, s).revision = a.revision
        PROVE  /\ Merged(RemoveExternal(a, s)) = Merged(a)
               /\ IsLoadable(RemoveExternal(a, s)) <=> IsLoadable(a)
    <2>1. a.externals[s] = Absent
      BY <1>2, <1>rev, ChangeNumbered
    <2>2. /\ RemoveExternal(a, s).base = a.base
          /\ RemoveExternal(a, s).externals = a.externals
      BY <2>1, <1>rev, ConfigChanges
    <2> QED BY <2>2, SameParts
  <1>3. ASSUME NEW s \in Source, NEW f \in Fragment, SetExternal(a, s, f).revision = a.revision
        PROVE  /\ Merged(SetExternal(a, s, f)) = Merged(a)
               /\ IsLoadable(SetExternal(a, s, f)) <=> IsLoadable(a)
    <2>1. f = IF a.externals[s] = Absent THEN EmptyFragment ELSE a.externals[s]
      <3>1. (IF a.externals[s] = Absent THEN EmptyFragment ELSE a.externals[s]) # f
              => SetExternal(a, s, f).revision = a.revision + 1
        BY ChangeNumbered
      <3> QED BY <3>1, <1>3, <1>rev
    <2>2. f # Absent
      BY AggregatorAssumption, Zenon
    <2>3. TrimSpace(f) = TrimSpace(a.externals[s])
      <3>1. CASE a.externals[s] = Absent
        <4>1. f = EmptyFragment
          BY <2>1, <3>1
        <4>2. EmptyFragment.text = ""
          BY Zenon DEF EmptyFragment
        <4> QED BY <2>2, <3>1, <4>1, <4>2, Zenon DEF TrimSpace
      <3>2. CASE a.externals[s] # Absent
        BY <2>1, <3>2
      <3> QED BY <3>1, <3>2
    <2>4. /\ SetExternal(a, s, f).base = a.base
          /\ SetExternal(a, s, f).externals = [a.externals EXCEPT ![s] = f]
      <3>1. \A g \in Fragment : /\ SetExternal(a, s, g).base = a.base
                                /\ SetExternal(a, s, g).externals = [a.externals EXCEPT ![s] = g]
        BY ConfigChanges
      <3> QED BY <3>1
    <2>5. \A t \in Source : TrimSpace(SetExternal(a, s, f).externals[t]) = TrimSpace(a.externals[t])
      BY <2>3, <2>4, <1>rev
    <2> QED BY <2>4, <2>5, SameParts
  <1> QED BY <1>1, <1>2, <1>3

\* Accepting a snapshot does not change what is to be pushed.
LEMMA AcceptSameConfig ==
    ASSUME NEW a \in AggregatorState, NEW snapshot \in Snapshots
    PROVE  /\ Merged(Accept(a, snapshot)) = Merged(a)
           /\ IsLoadable(Accept(a, snapshot)) <=> IsLoadable(a)
  BY ConfigChanges DEF Merged, IsLoadable

\* A step that does nothing about n, except perhaps to enqueue it.  What is to
\* be pushed matters to managed nodes only.
NodeFrame(n) ==
    /\ Informed' => Informed
    /\ n \in unsynced => n \in unsynced'
    /\ n \in nodeCache' <=> n \in nodeCache
    /\ n \in unacked => n \in unacked'
    /\ originKey' = originKey
    /\ work'[n] = work[n] /\ pushState'[n] = pushState[n]
    /\ deployed'[n] = deployed[n] /\ status'[n] = status[n]
    /\ container'[n] = container[n] /\ running'[n] = running[n]
    /\ n \in nodeCache => SameConfig
    /\ Keeps(queue, queue', n)

LEMMA NodeFrameKeeps ==
    ASSUME NEW n \in Node, NodeOK(n), NodeFrame(n) PROVE NodeOK(n)'
  <1> SUFFICES ASSUME Informed', n \notin unsynced', ~Pending(n)'
               PROVE  IF n \in nodeCache' THEN DealtWith(n)' ELSE CleanOrTorn(n)'
    BY DEF NodeOK
  <1>1. Informed /\ n \notin unsynced /\ ~Pending(n)
    BY DEF NodeFrame, Keeps, Pending
  <1>2. CASE n \notin nodeCache
    BY <1>1, <1>2 DEF NodeOK, NodeFrame, CleanOrTorn
  <1>3. CASE n \in nodeCache
    <2>1. DealtWith(n) /\ n \in nodeCache' /\ SameConfig
      BY <1>1, <1>3 DEF NodeOK, NodeFrame
    <2>2. InForce(n) => InForce(n)'
      BY <2>1 DEF NodeFrame, SameConfig, InForce, pushUpToDate
    <2>3. Carries(n) => Carries(n)'
      BY <2>1 DEF NodeFrame, SameConfig, Carries, Pushed
    <2>4. pushUpToDate(n, Merged(agg), status[n]) => pushUpToDate(n, Merged(agg), status[n])'
      BY <2>1 DEF NodeFrame, SameConfig, pushUpToDate
    <2> QED BY <2>1, <2>2, <2>3, <2>4 DEF NodeFrame, DealtWith
  <1> QED BY <1>2, <1>3

\* A worker's own step leaves the key it holds pending if it was.
LEMMA OwnKeeps ==
    ASSUME TypeOK, NEW n \in Node, WorkerStep(n), Pending(n) PROVE Pending(n)'
  <1>keys. n \in Key /\ MirrorKey \in Key /\ queue \in QueueOf(Key)
    BY DEF Key, TypeOK
  <1>ops. /\ \A r \in {queue, Done(queue, n), Retry(queue, n), AddAfter(queue, n)} :
               n \in r.dirty \cup r.delayed
          /\ \A S \in SUBSET Key : /\ n \in Add(queue, S).dirty \cup Add(queue, S).delayed
                                   /\ n \in Done(Add(queue, S), n).dirty \cup Done(Add(queue, S), n).delayed
                                   /\ n \in Retry(Add(queue, S), n).dirty \cup Retry(Add(queue, S), n).delayed
    <2>1. n \in queue.dirty \cup queue.delayed
      BY DEF Pending
    <2> QED BY <2>1, <1>keys DEF QueueOf, Add, Done, Retry, AddAfter
  <1>sets. {n} \in SUBSET Key /\ {MirrorKey} \in SUBSET Key
    BY <1>keys
  <1> USE DEF Pending
  <1>2. CASE ApplyCaddy(n) \/ HoldRollout(n)
    BY <1>2, <1>ops, <1>sets DEF ApplyCaddy, HoldRollout, DeployQueue, ObjectEvent
  <1>3. CASE ApplyCaddyFails(n)
    BY <1>3, <1>ops, <1>sets DEF ApplyCaddyFails, Fail, DeployQueue, ObjectEvent
  <1>4. CASE FindActivePod(n) \/ PushLoaded(n) \/ RecordPush(n)
    BY <1>4, <1>ops DEF FindActivePod, PushLoaded, RecordPush
  <1>5. CASE FindActivePodFails(n) \/ PushFails(n) \/ PushTimesOut(n)
    BY <1>5, <1>ops DEF FindActivePodFails, PushFails, PushTimesOut, Fail
  <1>6. CASE NothingToLoad(n) \/ PushRejected(n)
    BY <1>6, <1>ops DEF NothingToLoad, PushRejected, Finish
  <1>7. CASE EnsureLoaded(n)
    <2>1. queue' \in {queue, Done(queue, n)}
      BY <1>7 DEF EnsureLoaded, Finish
    <2> QED BY <2>1, <1>ops
  <1>8. CASE AcceptSnapshot(n)
    BY <1>8, <1>ops, <1>sets DEF AcceptSnapshot
  <1>9. CASE TeardownNode(n)
    BY <1>9, <1>ops, <1>sets DEF TeardownNode, TeardownQueue, ObjectEvent
  <1>10. CASE TeardownNodeFails(n)
    BY <1>10, <1>ops, <1>sets DEF TeardownNodeFails, Fail, TeardownQueue, ObjectEvent
  <1> QED BY <1>2, <1>3, <1>4, <1>5, <1>6, <1>7, <1>8, <1>9, <1>10 DEF WorkerStep

\* A worker that gives up, or is told to look again, leaves its key pending.
LEMMA GivesUp ==
    ASSUME TypeOK, NEW n \in Node,
           \/ HoldRollout(n) \/ ApplyCaddyFails(n) \/ FindActivePodFails(n)
           \/ PushFails(n) \/ PushTimesOut(n) \/ TeardownNodeFails(n)
    PROVE  Pending(n)'
  <1>keys. n \in Key /\ {n} \in SUBSET Key /\ queue \in QueueOf(Key)
    BY DEF Key, TypeOK
  <1>ops. /\ n \in AddAfter(queue, n).delayed /\ n \in Retry(queue, n).delayed
          /\ n \in Retry(Add(queue, {n}), n).delayed
    BY <1>keys DEF QueueOf, Add, Done, Retry, AddAfter
  <1>1. queue' \in {AddAfter(queue, n), Retry(queue, n), Retry(Add(queue, {n}), n)}
    BY DEF HoldRollout, ApplyCaddyFails, FindActivePodFails, PushFails, PushTimesOut,
           TeardownNodeFails, Fail, DeployQueue, TeardownQueue, ObjectEvent
  <1> QED BY <1>ops, <1>1 DEF Pending

\* An event about an object of n enqueues n.
LEMMA EventPending ==
    ASSUME TypeOK, NEW n \in Node, Informed
    PROVE  /\ queue' = ObjectEvent(queue, n) => Pending(n)'
           /\ queue' = Done(ObjectEvent(queue, n), n) => Pending(n)'
  <1>keys. n \in Key /\ {n} \in SUBSET Key /\ queue \in QueueOf(Key)
    BY DEF Key, TypeOK
  <1>1. n \in Add(queue, {n}).dirty /\ n \in Done(Add(queue, {n}), n).dirty
    BY <1>keys DEF QueueOf, Add, Done
  <1> QED BY <1>1 DEF ObjectEvent, Pending

\* A worker's own step deals with one more piece of the present state.
LEMMA OwnStep ==
    ASSUME PhaseInv, NEW n \in Node, NodeOK(n), WorkerStep(n) PROVE NodeOK(n)'
  <1> TypeOK /\ WorkOK /\ PhaseOK
    BY DEF PhaseInv, MutexInv, TypeInv
  <1>run. phase = "run" /\ Informed /\ unsynced = {} /\ UNCHANGED <<phase, unsynced, nodeCache>>
    BY WorkerRuns DEF Informed, PhaseOK
  <1>busy. n \in nodeCache <=> n \in nodeCache'
    BY <1>run
  <1>pending. ASSUME Pending(n)' PROVE NodeOK(n)'
    BY <1>pending DEF NodeOK
  <1>gives. CASE \/ HoldRollout(n) \/ ApplyCaddyFails(n) \/ FindActivePodFails(n)
                 \/ PushFails(n) \/ PushTimesOut(n) \/ TeardownNodeFails(n)
    BY <1>gives, <1>pending, GivesUp
  <1>held. CASE Pending(n)
    BY <1>held, <1>pending, OwnKeeps
  <1> SUFFICES ASSUME ~Pending(n), ~Pending(n)',
                      ~ \/ HoldRollout(n) \/ ApplyCaddyFails(n) \/ FindActivePodFails(n)
                        \/ PushFails(n) \/ PushTimesOut(n) \/ TeardownNodeFails(n)
               PROVE  IF n \in nodeCache THEN DealtWith(n)' ELSE CleanOrTorn(n)'
    BY <1>gives, <1>held, <1>pending, <1>busy DEF NodeOK
  <1>ok. IF n \in nodeCache THEN DealtWith(n) ELSE CleanOrTorn(n)
    BY <1>run DEF NodeOK
  <1>teardown. CASE TeardownNode(n)
    <2>1. n \notin nodeCache
      BY <1>teardown, <1>ok DEF TeardownNode, DealtWith
    <2> QED BY <1>teardown, <2>1 DEF TeardownNode, DeleteObjects, CleanOrTorn, Idle, TypeOK
  <1>managed. ASSUME ~TeardownNode(n) PROVE n \in nodeCache /\ DealtWith(n)
    BY <1>managed, <1>ok
    DEF WorkerStep, CleanOrTorn, ApplyCaddy, FindActivePod, NothingToLoad, EnsureLoaded,
        PushLoaded, PushRejected, RecordPush, AcceptSnapshot
  <1>apply. CASE ApplyCaddy(n)
    <2>1. deployed[n] = originKey
      BY <1>apply, <1>run, EventPending DEF ApplyCaddy, DeployQueue
    <2>2. work'[n].pc = "find" /\ deployed'[n] = originKey' 
      BY <1>apply, <2>1 DEF ApplyCaddy, ApplyDeployment, Goto, TypeOK, Works, managerVars
    <2>3. n \in nodeCache
      BY <1>apply, <1>ok DEF ApplyCaddy, CleanOrTorn
    <2> QED BY <2>2, <2>3 DEF DealtWith
  <1>find. CASE FindActivePod(n)
    <2>1. /\ work'[n].pc = "merge" /\ work'[n].containerID = status[n]
          /\ UNCHANGED <<deployed, originKey, status>>
      BY <1>find DEF FindActivePod, TypeOK, Works, podVars, managerVars
    <2>2. n \in nodeCache /\ deployed[n] = originKey
      BY <1>find, <1>ok DEF FindActivePod, CleanOrTorn, DealtWith
    <2> QED BY <2>1, <2>2 DEF DealtWith
  <1>nothing. CASE NothingToLoad(n)
    <2>1. /\ work'[n].pc = "idle" /\ ~IsLoadable(agg)' /\ UNCHANGED <<deployed, originKey>>
      BY <1>nothing DEF NothingToLoad, Finish, Idle, TypeOK, podVars, managerVars
    <2>2. n \in nodeCache /\ deployed[n] = originKey
      BY <1>nothing, <1>ok DEF NothingToLoad, CleanOrTorn, DealtWith
    <2> QED BY <2>1, <2>2 DEF DealtWith, InForce
  <1>ensure. CASE EnsureLoaded(n)
    <2>1. /\ UNCHANGED <<deployed, originKey, status, agg, pushState>> /\ IsLoadable(agg)
      BY <1>ensure DEF EnsureLoaded, podVars, managerVars
    <2>2. n \in nodeCache /\ deployed[n] = originKey /\ work[n].containerID = status[n]
      BY <1>ensure, <1>ok DEF EnsureLoaded, CleanOrTorn, DealtWith
    <2>3. CASE ~pushUpToDate(n, Merged(agg), work[n].containerID) /\ work[n].containerID = 0
      <3>1. work'[n].pc = "idle"
        BY <1>ensure, <2>3 DEF EnsureLoaded, Finish, Idle, TypeOK
      <3>2. InForce(n)'
        BY <2>1, <2>2, <2>3 DEF InForce
      <3> QED BY <2>1, <2>2, <3>1, <3>2 DEF DealtWith
    <2>4. CASE ~(~pushUpToDate(n, Merged(agg), work[n].containerID) /\ work[n].containerID = 0)
      <3>1. /\ work'[n].pc = IF pushUpToDate(n, Merged(agg), work[n].containerID)
                             THEN "accept" ELSE "load"
            /\ work'[n].containerID = work[n].containerID
            /\ work'[n].snapshot = CurrentMerged(agg)
        BY <1>ensure, <2>4 DEF EnsureLoaded, TypeOK, Works
      <3>2. Carries(n)'
        BY <2>1, <3>1 DEF Carries, Pushed, CurrentMerged
      <3>3. pushUpToDate(n, Merged(agg), status[n])' <=> pushUpToDate(n, Merged(agg), status[n])
        BY <2>1 DEF pushUpToDate
      <3> QED BY <2>1, <2>2, <3>1, <3>2, <3>3 DEF DealtWith
    <2> QED BY <2>3, <2>4
  <1>loaded. CASE PushLoaded(n)
    <2>1. /\ work'[n] = [work[n] EXCEPT !.pc = "record"]
          /\ UNCHANGED <<deployed, originKey, status, agg>>
      BY <1>loaded DEF PushLoaded, Goto, TypeOK, managerVars
    <2>2. /\ work'[n].pc = "record" /\ work'[n].containerID = work[n].containerID
          /\ work'[n].snapshot = work[n].snapshot
      BY <2>1 DEF TypeOK, Works
    <2>3. /\ n \in nodeCache /\ deployed[n] = originKey
          /\ work[n].containerID = status[n] /\ Carries(n)
      BY <1>loaded, <1>ok DEF PushLoaded, CleanOrTorn, DealtWith
    <2>4. Carries(n)'
      BY <2>1, <2>2, <2>3 DEF Carries, Pushed
    <2> QED BY <2>1, <2>2, <2>3, <2>4 DEF DealtWith
  <1>rejected. CASE PushRejected(n)
    <2>1. /\ work'[n].pc = "idle"
          /\ UNCHANGED <<deployed, originKey, agg, running>>
      BY <1>rejected DEF PushRejected, Finish, Idle, TypeOK, podVars, managerVars
    <2>2. n \in nodeCache /\ deployed[n] = originKey /\ Carries(n)
      BY <1>rejected, <1>ok DEF PushRejected, CleanOrTorn, DealtWith
    <2>3. ~LoadAccepted(running[n], originKey, Merged(agg))
      BY <1>rejected, <2>2 DEF PushRejected, Listens, IsAccepted, Carries
    <2>4. InForce(n)'
      BY <2>1, <2>3 DEF InForce
    <2> QED BY <2>1, <2>2, <2>4 DEF DealtWith
  <1>record. CASE RecordPush(n)
    <2>1. /\ work'[n].pc = "accept" /\ work'[n].snapshot = work[n].snapshot
          /\ UNCHANGED <<deployed, originKey, status, agg>>
      BY <1>record DEF RecordPush, Goto, TypeOK, Works, podVars, managerVars
    <2>2. /\ n \in nodeCache /\ deployed[n] = originKey
          /\ work[n].containerID = status[n] /\ Carries(n) /\ work[n].containerID \in ContainerID
      BY <1>record, <1>ok DEF RecordPush, CleanOrTorn, DealtWith, WorkOK
    <2>3. pushState'[n] = [digest |-> Merged(agg), containerID |-> status[n]]
      BY <1>record, <2>2 DEF RecordPush, RecordedContainer, configDigest, Carries, TypeOK
    <2>4. pushState'[n] # Absent
      <3>1. Merged(agg) \in Caddyfile
        BY <2>2, MergedType, CaddyfileFacts DEF Carries, TypeOK
      <3>2. pushState'[n] \in PushRecords
        BY <2>2, <2>3, <3>1 DEF PushRecords
      <3> QED BY <3>2, ConfigSyncAssumption
    <2>5. pushUpToDate(n, Merged(agg), status[n])'
      BY <2>1, <2>2, <2>3, <2>4, ConfigSyncAssumption DEF pushUpToDate, configDigest
    <2>6. Carries(n)'
      BY <2>1, <2>2 DEF Carries, Pushed
    <2> QED BY <2>1, <2>2, <2>5, <2>6 DEF DealtWith
  <1>accept. CASE AcceptSnapshot(n)
    <2>1. /\ work'[n].pc = "idle"
          /\ UNCHANGED <<deployed, originKey, status, pushState>>
      BY <1>accept DEF AcceptSnapshot, Idle, TypeOK, podVars
    <2>2. /\ n \in nodeCache /\ deployed[n] = originKey
          /\ pushUpToDate(n, Merged(agg), status[n])
      BY <1>accept, <1>ok DEF AcceptSnapshot, CleanOrTorn, DealtWith
    <2>3. Merged(agg') = Merged(agg)
      BY <1>accept, AcceptSameConfig DEF AcceptSnapshot, WorkOK, TypeOK
    <2>4. InForce(n)'
      BY <2>1, <2>2, <2>3 DEF InForce, pushUpToDate
    <2> QED BY <2>1, <2>2, <2>4 DEF DealtWith
  <1> QED
    BY <1>teardown, <1>apply, <1>find, <1>nothing, <1>ensure, <1>loaded, <1>rejected,
       <1>record, <1>accept
    DEF WorkerStep

LEMMA NodeInit == Init => NodeInv
  BY PhaseInit DEF Init, NodeInv, NodeOK, Informed

\* Every step keeps every node dealt with or pending.
LEMMA NodeStep == NodeInv /\ [Next]_vars => NodeInv'
  <1> SUFFICES ASSUME NodeInv, [Next]_vars, NEW n \in Node PROVE NodeOK(n)'
    BY PhaseStep DEF NodeInv
  <1> TypeOK /\ WorkOK /\ PhaseOK /\ NodeOK(n) /\ PhaseInv
    BY DEF NodeInv, PhaseInv, MutexInv, TypeInv
  <1>keys. /\ n \in Key /\ {n} \in SUBSET Key /\ nodeCache \in SUBSET Key
           /\ queue \in QueueOf(Key) /\ MirrorKey # n
    BY ConfigSyncAssumption DEF Key, TypeOK
  <1>names. n \notin {"base", "mirror"} /\ n \notin Source
    BY ConfigSyncAssumption
  <1>same. ASSUME UNCHANGED agg PROVE SameConfig
    BY <1>same DEF SameConfig
  <1>pending. ASSUME Pending(n)' PROVE NodeOK(n)'
    BY <1>pending DEF NodeOK
  <1>uninformed. ASSUME ~Informed' PROVE NodeOK(n)'
    BY <1>uninformed DEF NodeOK
  <1>start. ASSUME NEW key \in OriginKey, Start(key) PROVE NodeOK(n)'
    BY <1>start, <1>uninformed DEF Start, Informed
  <1>exits. CASE InitializeMirrorFails \/ Crash
    BY <1>exits, <1>uninformed DEF InitializeMirrorFails, Crash, ProcessExits, Informed
  <1>init. CASE InitializeMirror
    BY <1>init DEF InitializeMirror, Objects, NodeOK
  <1>run. CASE StartWorkers
    <2>1. Keeps(queue, queue', n)
      BY <1>run, <1>keys, AllKept DEF StartWorkers, workVars
    <2> QED BY <1>run, <1>same, <2>1, NodeFrameKeeps
        DEF StartWorkers, NodeFrame, Informed, managerVars, workVars, podVars
  <1>update. ASSUME NEW a \in AggregatorState, UpdateAggregator(a), Keeps(queue, queue', n),
                    a.revision = agg.revision
                      => Merged(a) = Merged(agg) /\ (IsLoadable(a) <=> IsLoadable(agg)),
                    Informed, n \in unsynced => n \in unsynced',
                    UNCHANGED <<originKey, nodeCache, work, pushState, podVars, phase>>
             PROVE  NodeOK(n)'
    <2>1. CASE n \in nodeCache /\ a.revision # agg.revision
      <3>1. queue' = Add(queue, nodeCache)
        BY <1>update, <2>1 DEF UpdateAggregator
      <3>2. n \in queue'.dirty
        BY <2>1, <3>1, <1>keys DEF QueueOf, Add
      <3> QED BY <3>2, <1>pending DEF Pending
    <2>2. CASE n \in nodeCache => a.revision = agg.revision
      <3>1. n \in nodeCache => SameConfig
        BY <1>update, <2>2 DEF UpdateAggregator, SameConfig
      <3> QED BY <1>update, <3>1, NodeFrameKeeps DEF NodeFrame, podVars
    <2> QED BY <2>1, <2>2
  <1>base. CASE BaseEvent
    <2> DEFINE a == IF apiBase = Absent THEN agg ELSE UpdateBase(agg, apiBase)
    <2>1. /\ UpdateAggregator(a) /\ Informed
          /\ n \in unsynced => n \in unsynced'
          /\ UNCHANGED <<originKey, nodeCache, work, pushState, podVars, phase>>
      BY <1>base, <1>names DEF BaseEvent
    <2>2. Keeps(queue, queue', n)
      BY <1>base, <1>keys, EventKeeps DEF EventStep
    <2>3. a \in AggregatorState
      BY UpdateBaseType DEF TypeOK
    <2>4. a.revision = agg.revision
            => Merged(a) = Merged(agg) /\ (IsLoadable(a) <=> IsLoadable(agg))
      BY SameRevisionSameConfig DEF TypeOK
    <2> HIDE DEF a
    <2> QED BY <2>1, <2>2, <2>3, <2>4, <1>update
  <1>external. ASSUME NEW s \in Source, ExternalEvent(s) PROVE NodeOK(n)'
    <2> DEFINE a == IF apiExternal[s] = Absent THEN RemoveExternal(agg, s)
                    ELSE IF namespaceAllowed(NamespaceOf(s)) THEN SetExternal(agg, s, apiExternal[s])
                    ELSE agg
    <2>1. /\ UpdateAggregator(a) /\ Informed
          /\ n \in unsynced => n \in unsynced'
          /\ UNCHANGED <<originKey, nodeCache, work, pushState, podVars, phase>>
      BY <1>external, <1>names DEF ExternalEvent
    <2>2. Keeps(queue, queue', n)
      BY <1>external, <1>keys, EventKeeps DEF EventStep
    <2>3. a \in AggregatorState
      BY UpdateExternalType DEF TypeOK
    <2>4. a.revision = agg.revision
            => Merged(a) = Merged(agg) /\ (IsLoadable(a) <=> IsLoadable(agg))
      <3>1. CASE apiExternal[s] = Absent
        BY <3>1, SameRevisionSameConfig DEF TypeOK
      <3>2. CASE apiExternal[s] # Absent /\ namespaceAllowed(NamespaceOf(s))
        <4>1. a = SetExternal(agg, s, apiExternal[s]) /\ apiExternal[s] \in Fragment
          BY <3>2 DEF TypeOK
        <4>2. \A f \in Fragment :
                SetExternal(agg, s, f).revision = agg.revision
                  => /\ Merged(SetExternal(agg, s, f)) = Merged(agg)
                     /\ IsLoadable(SetExternal(agg, s, f)) <=> IsLoadable(agg)
          BY SameRevisionSameConfig DEF TypeOK
        <4> QED BY <4>1, <4>2
      <3>3. CASE apiExternal[s] # Absent /\ ~namespaceAllowed(NamespaceOf(s))
        BY <3>3
      <3> QED BY <3>1, <3>2, <3>3
    <2> HIDE DEF a
    <2> QED BY <2>1, <2>2, <2>3, <2>4, <1>update
  <1>node. CASE NodeEvent(n)
    <2>1. CASE isEnqueued(n)
      <3>1. queue' = Add(queue, {n})
        BY <1>node, <2>1 DEF NodeEvent
      <3>2. n \in queue'.dirty
        BY <3>1, <1>keys DEF QueueOf, Add
      <3> QED BY <3>2, <1>pending DEF Pending
    <2>2. CASE ~isEnqueued(n)
      <3>1. n \in unsynced /\ n \notin labelled /\ n \notin nodeCache /\ deployed[n] = Absent
        BY <1>node, <2>2 DEF NodeEvent, isEnqueued
      <3>2. work[n] = Idle /\ pushState[n] = Absent
        BY <3>1 DEF PhaseOK
      <3>3. /\ UNCHANGED <<work, pushState, deployed>>
            /\ n \notin nodeCache'
        BY <1>node, <3>1 DEF NodeEvent, podVars
      <3> QED BY <3>1, <3>2, <3>3 DEF NodeOK, CleanOrTorn, Idle
    <2> QED BY <2>1, <2>2
  <1>other. ASSUME NEW m \in Node, m # n, NodeEvent(m) PROVE NodeOK(n)'
    <2>1. Keeps(queue, queue', n)
      BY <1>other, <1>keys, EventKeeps DEF EventStep
    <2>2. (n \in nodeCache' <=> n \in nodeCache) /\ (n \in unsynced => n \in unsynced')
      BY <1>other DEF NodeEvent
    <2> QED BY <1>other, <1>same, <2>1, <2>2, NodeFrameKeeps
        DEF NodeEvent, NodeFrame, Informed, podVars
  <1>events. ASSUME \/ MirrorEvent \/ InformerResync
                    \/ \E k \in Key : DelayExpires(k)
             PROVE  NodeOK(n)'
    <2>1. Keeps(queue, queue', n)
      BY <1>events, <1>keys, EventKeeps DEF EventStep
    <2> QED BY <1>events, <1>same, <1>names, <2>1, NodeFrameKeeps
        DEF MirrorEvent, InformerResync, DelayExpires, NodeFrame, Informed, podVars, managerVars
  <1>resync. CASE ForceConfigResync
    <2>1. CASE n \in nodeCache
      <3>1. queue' = Add(queue, nodeCache)
        BY <1>resync DEF ForceConfigResync
      <3>2. n \in queue'.dirty
        BY <2>1, <3>1, <1>keys DEF QueueOf, Add
      <3> QED BY <3>2, <1>pending DEF Pending
    <2>2. CASE n \notin nodeCache
      <3>1. Keeps(queue, queue', n)
        BY <1>resync, <1>keys, EventKeeps DEF EventStep
      <3>2. /\ UNCHANGED <<phase, unsynced, nodeCache, work, deployed>>
            /\ pushState'[n] = Absent
        BY <1>resync DEF ForceConfigResync, ClearedPushState, podVars, managerVars
      <3> QED BY <2>2, <3>1, <3>2 DEF NodeOK, CleanOrTorn, Keeps, Pending, Informed
    <2> QED BY <2>1, <2>2
  <1>get. CASE GetNode(n)
    <2>1. /\ work'[n].pc = IF n \in nodeCache THEN "deploy" ELSE "teardown"
          /\ UNCHANGED nodeCache
      BY <1>get DEF GetNode, Goto, TypeOK, Works, managerVars
    <2> QED BY <2>1 DEF NodeOK, DealtWith, CleanOrTorn
  <1>getother. ASSUME NEW m \in Node, m # n, GetNode(m) PROVE NodeOK(n)'
    <2>1. Keeps(queue, queue', n)
      BY <1>getother, <1>keys, WorkerKeeps
    <2> QED BY <1>getother, <1>same, <2>1, NodeFrameKeeps
        DEF GetNode, Goto, TypeOK, NodeFrame, Informed, podVars, managerVars
  <1>own. CASE WorkerStep(n)
    BY <1>own, OwnStep
  <1>accept. ASSUME NEW m \in Node, m # n, AcceptSnapshot(m) PROVE NodeOK(n)'
    <2>1. Keeps(queue, queue', n)
      BY <1>accept, <1>keys, WorkerKeeps DEF WorkerStep
    <2>2. SameConfig
      BY <1>accept, AcceptSameConfig DEF AcceptSnapshot, SameConfig, WorkOK, TypeOK
    <2> QED BY <1>accept, <2>1, <2>2, NodeFrameKeeps
        DEF AcceptSnapshot, TypeOK, NodeFrame, Informed, podVars
  <1>worker. ASSUME NEW m \in Node, m # n, WorkerStep(m), ~AcceptSnapshot(m) PROVE NodeOK(n)'
    <2>1. Keeps(queue, queue', n)
      BY <1>worker, <1>keys, WorkerKeeps
    <2>2. UNCHANGED <<phase, originKey, agg, nodeCache, unsynced>>
      BY <1>worker
      DEF WorkerStep, ApplyCaddy, HoldRollout, ApplyCaddyFails, FindActivePod,
          FindActivePodFails, NothingToLoad, EnsureLoaded, PushLoaded, PushRejected, PushFails,
          PushTimesOut, RecordPush, TeardownNode, TeardownNodeFails, managerVars
    <2>3. work'[n] = work[n] /\ pushState'[n] = pushState[n]
      BY <1>worker
      DEF WorkerStep, ApplyCaddy, HoldRollout, ApplyCaddyFails, FindActivePod,
          FindActivePodFails, NothingToLoad, EnsureLoaded, PushLoaded, PushRejected, PushFails,
          PushTimesOut, RecordPush, TeardownNode, TeardownNodeFails, Goto, Finish, Fail, TypeOK
    <2>4. /\ deployed'[n] = deployed[n] /\ status'[n] = status[n]
          /\ container'[n] = container[n] /\ running'[n] = running[n]
          /\ n \in unacked => n \in unacked'
      BY <1>worker
      DEF WorkerStep, ApplyCaddy, HoldRollout, ApplyCaddyFails, FindActivePod,
          FindActivePodFails, NothingToLoad, EnsureLoaded, PushLoaded, PushRejected, PushFails,
          PushTimesOut, RecordPush, TeardownNode, TeardownNodeFails, ApplyDeployment,
          DeleteObjects, PodRemoved, TypeOK, podVars
    <2> QED BY <1>same, <2>1, <2>2, <2>3, <2>4, NodeFrameKeeps DEF NodeFrame, Informed
  <1>publisher. ASSUME GetMirror \/ PublishMirror \/ PublishMirrorFails PROVE NodeOK(n)'
    <2>1. Keeps(queue, queue', n)
      BY <1>publisher, PublisherKeeps
    <2> QED BY <1>publisher, <1>same, <2>1, NodeFrameKeeps
        DEF GetMirror, PublishMirror, PublishMirrorFails, NodeFrame, Informed, podVars,
            managerVars
  <1>users. ASSUME \/ \E value \in Base \cup {Absent} : EditBase(value)
                   \/ \E s \in Source, value \in Fragment \cup {Absent} : EditExternal(s, value)
                   \/ \E data \in Caddyfile \cup {Absent} : EditMirror(data)
                   \/ \E m \in Node : RelabelNode(m)
                   \/ UNCHANGED vars
            PROVE  NodeOK(n)'
    <2>1. Keeps(queue, queue', n)
      BY <1>users, <1>keys, AllKept
      DEF EditBase, EditExternal, EditMirror, RelabelNode, vars, workVars
    <2> QED BY <1>users, <1>same, <2>1, NodeFrameKeeps
        DEF EditBase, EditExternal, EditMirror, RelabelNode, NodeFrame, Informed, vars,
            podVars, managerVars, workVars
  <1>object. CASE DeleteDeployment(n) \/ StatusReported(n)
    <2>1. queue' = ObjectEvent(queue, n) /\ UNCHANGED phase
      BY <1>object DEF DeleteDeployment, StatusReported
    <2>2. CASE Informed
      BY <2>1, <2>2, <1>pending, EventPending
    <2>3. CASE ~Informed
      BY <2>1, <2>3, <1>uninformed DEF Informed
    <2> QED BY <2>2, <2>3
  <1>pod. CASE ContainerStarts(n) \/ ContainerExits(n) \/ LateLoad(n)
    <2>1. /\ UNCHANGED <<phase, originKey, agg, nodeCache, unsynced, queue, work, pushState>>
          /\ UNCHANGED <<deployed, status>>
      BY <1>pod DEF ContainerStarts, ContainerExits, LateLoad, managerVars, workVars
    <2>2. status'[n] = 0 \/ status'[n] # container'[n] \/ n \in unacked'
      BY <1>pod, <2>1 DEF ContainerStarts, ContainerExits, LateLoad, UsedIDs, TypeOK
    <2>3. InForce(n)'
      BY <2>2 DEF InForce
    <2>4. (Carries(n)' <=> Carries(n)) /\ (Informed' <=> Informed) /\ (Pending(n)' <=> Pending(n))
      BY <2>1 DEF Carries, Pushed, Informed, Pending
    <2>5. pushUpToDate(n, Merged(agg), status[n])' <=> pushUpToDate(n, Merged(agg), status[n])
      BY <2>1 DEF pushUpToDate
    <2> QED BY <2>1, <2>3, <2>4, <2>5 DEF NodeOK, DealtWith, CleanOrTorn
  <1>elsewhere. ASSUME NEW m \in Node, m # n,
                       \/ DeleteDeployment(m) \/ StatusReported(m)
                       \/ ContainerStarts(m) \/ ContainerExits(m) \/ LateLoad(m)
                PROVE  NodeOK(n)'
    <2>1. Keeps(queue, queue', n)
      BY <1>elsewhere, <1>keys, ClusterKeeps DEF Environment
    <2>2. UNCHANGED <<phase, originKey, agg, nodeCache, unsynced, work, pushState>>
      BY <1>elsewhere
      DEF DeleteDeployment, StatusReported, ContainerStarts, ContainerExits, LateLoad,
          managerVars, workVars
    <2>3. /\ deployed'[n] = deployed[n] /\ status'[n] = status[n]
          /\ container'[n] = container[n] /\ running'[n] = running[n]
          /\ n \in unacked => n \in unacked'
      BY <1>elsewhere
      DEF DeleteDeployment, StatusReported, ContainerStarts, ContainerExits, LateLoad,
          DeleteObjects, PodRemoved, TypeOK
    <2> QED BY <1>same, <2>1, <2>2, <2>3, NodeFrameKeeps DEF NodeFrame, Informed
  <1> QED
    BY <1>start, <1>exits, <1>init, <1>run, <1>base, <1>external, <1>node, <1>other,
       <1>events, <1>resync, <1>get, <1>getother, <1>own, <1>accept, <1>worker,
       <1>publisher, <1>users, <1>object, <1>pod, <1>elsewhere
    DEF Next, Manager, Environment

\* A managed node for which nothing is left to do has the manager's Deployment
\* and its started container has the present merge on record, or can not be
\* given it now: no ConfigMap event, status report, failure or retry is lost
\* between the queue, the workers and the push records.
THEOREM PushedWhenQuiescent == Spec => []QuiescentMeansPushed
  <1>1. NodeInv => QuiescentMeansPushed
    <2> SUFFICES ASSUME NodeInv, NEW n \in nodeCache, phase = "run", IsIdle(queue, n)
                 PROVE  deployed[n] = originKey /\ InForce(n)
      BY DEF QuiescentMeansPushed, InForce
    <2>1. n \in Node /\ BusyOK /\ PhaseOK /\ NodeOK(n)
      BY DEF NodeInv, PhaseInv, MutexInv, TypeInv, TypeOK
    <2>2. work[n].pc = "idle" /\ ~Pending(n) /\ Informed /\ n \notin unsynced
      BY <2>1 DEF BusyOK, IsIdle, Pending, Informed, PhaseOK
    <2> QED BY <2>1, <2>2 DEF NodeOK, DealtWith
  <1> QED BY <1>1, NodeInit, NodeStep, PTL DEF Spec

\* A node that is not managed and for which nothing is left to do has no
\* Deployment and no push record, whether it lost its label while a worker was
\* deploying to it, while a deletion failed, or while no manager ran.
THEOREM TornDownWhenQuiescent == Spec => []QuiescentMeansTornDown
  <1>1. NodeInv => QuiescentMeansTornDown
    <2> SUFFICES ASSUME NodeInv, NEW n \in Node \ nodeCache, phase = "run", IsIdle(queue, n)
                 PROVE  deployed[n] = Absent /\ pushState[n] = Absent
      BY DEF QuiescentMeansTornDown
    <2>1. BusyOK /\ PhaseOK /\ NodeOK(n)
      BY DEF NodeInv, PhaseInv, MutexInv
    <2>2. work[n].pc = "idle" /\ ~Pending(n) /\ Informed /\ n \notin unsynced
      BY <2>1 DEF BusyOK, IsIdle, Pending, Informed, PhaseOK
    <2> QED BY <2>1, <2>2 DEF NodeOK, CleanOrTorn
  <1> QED BY <1>1, NodeInit, NodeStep, PTL DEF Spec
===========================================================================
