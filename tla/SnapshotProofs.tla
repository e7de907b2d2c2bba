-------------------------- MODULE SnapshotProofs --------------------------
(***************************************************************************)
(* Proof that no worker ever handles an incomplete Caddyfile.  The cases   *)
(* follow the phases of the process: what it holds in each of them, and    *)
(* how far the aggregator has caught up with the ConfigMaps.               *)
(***************************************************************************)
EXTENDS ConfigSyncProofs

---------------------------------------------------------------------------
(* The phases of the process. *)

\* Before the informers run the process knows nothing; before the workers run
\* it has pushed and published nothing; and they run once everything is synced.
PhaseOK ==
    /\ phase \in {"down", "init"} => agg = New /\ queue = EmptyQueue /\ nodeCache = {}
    /\ phase # "run" => /\ publishing = Absent
                        /\ \A n \in Node : work[n] = Idle /\ pushState[n] = Absent
    /\ phase # "sync" => unsynced = {}

PhaseInv == MutexInv /\ PhaseOK

LEMMA PhaseInit == Init => PhaseInv
  BY MutexInit DEF Init, PhaseInv, PhaseOK

\* A worker is busy, or about to publish, only while the workers run.
LEMMA BusyRuns ==
    ASSUME PhaseOK
    PROVE  /\ \A n \in Node : work[n].pc # "idle" => phase = "run"
           /\ publishing # Absent => phase = "run"
  BY DEF PhaseOK, Idle

\* The steps of a worker neither end the phase nor sync anything.
LEMMA WorkerRuns ==
    ASSUME PhaseOK, NEW n \in Node, WorkerStep(n)
    PROVE  phase = "run" /\ UNCHANGED <<phase, unsynced, nodeCache>>
  BY BusyRuns
  DEF WorkerStep, ApplyCaddy, HoldRollout, ApplyCaddyFails, FindActivePod, FindActivePodFails,
      NothingToLoad, EnsureLoaded, PushLoaded, PushRejected, PushFails, PushTimesOut,
      RecordPush, AcceptSnapshot, TeardownNode, TeardownNodeFails, managerVars

\* Every step keeps to the phases.
LEMMA PhaseStep == PhaseInv /\ [Next]_vars => PhaseInv'
  <1> SUFFICES ASSUME PhaseInv, [Next]_vars PROVE PhaseOK'
    BY MutexStep DEF PhaseInv
  <1> TypeOK /\ PhaseOK
    BY DEF PhaseInv, MutexInv, TypeInv
  <1>runs. ASSUME phase = "run", UNCHANGED <<phase, unsynced>> PROVE PhaseOK'
    BY <1>runs DEF PhaseOK
  <1>still. ASSUME UNCHANGED <<phase, unsynced, publishing, work, pushState, agg, queue, nodeCache>>
            PROVE  PhaseOK'
    BY <1>still DEF PhaseOK
  <1>informed. ASSUME Informed, UNCHANGED <<phase, publishing, work, pushState>>,
                      unsynced' \subseteq unsynced
               PROVE  PhaseOK'
    BY <1>informed DEF PhaseOK, Informed
  <1>start. ASSUME NEW key \in OriginKey, Start(key) PROVE PhaseOK'
    BY <1>start DEF Start, PhaseOK, workVars, mirrorVars
  <1>init. CASE InitializeMirror
    BY <1>init DEF InitializeMirror, PhaseOK, workVars
  <1>exits. CASE InitializeMirrorFails \/ Crash
    BY <1>exits DEF InitializeMirrorFails, Crash, ProcessExits, PhaseOK
  <1>run. CASE StartWorkers
    BY <1>run DEF StartWorkers, CachesSynced, PhaseOK, managerVars
  <1>events. ASSUME \/ BaseEvent \/ MirrorEvent
                    \/ \E s \in Source : ExternalEvent(s)
                    \/ \E n \in Node : NodeEvent(n)
             PROVE  PhaseOK'
    BY <1>events, <1>informed DEF BaseEvent, MirrorEvent, ExternalEvent, NodeEvent, mirrorVars
  <1>worker. ASSUME NEW n \in Node, GetNode(n) \/ WorkerStep(n) PROVE PhaseOK'
    BY <1>worker, <1>runs, WorkerRuns DEF GetNode, HasFreeWorker, managerVars
  <1>publisher. ASSUME GetMirror \/ PublishMirror \/ PublishMirrorFails PROVE PhaseOK'
    BY <1>publisher, <1>runs, BusyRuns
    DEF GetMirror, HasFreeWorker, PublishMirror, PublishMirrorFails, managerVars
  <1>resync. ASSUME InformerResync \/ ForceConfigResync PROVE PhaseOK'
    BY <1>resync, <1>runs DEF InformerResync, ForceConfigResync, managerVars
  <1>expire. ASSUME NEW k \in Key, DelayExpires(k) PROVE PhaseOK'
    BY <1>expire, <1>informed
    DEF DelayExpires, PhaseOK, EmptyQueue, Informed, TypeOK, managerVars, mirrorVars
  <1>objects. ASSUME NEW n \in Node, StatusReported(n) \/ DeleteDeployment(n) PROVE PhaseOK'
    BY <1>objects, <1>still, <1>informed
    DEF StatusReported, DeleteDeployment, ObjectEvent, managerVars, mirrorVars
  <1>others. ASSUME \/ UNCHANGED vars
                    \/ \E value \in Base \cup {Absent} : EditBase(value)
                    \/ \E s \in Source, value \in Fragment \cup {Absent} : EditExternal(s, value)
                    \/ \E data \in Caddyfile \cup {Absent} : EditMirror(data)
                    \/ \E n \in Node : \/ RelabelNode(n) \/ ContainerStarts(n)
                                       \/ ContainerExits(n) \/ LateLoad(n)
             PROVE  PhaseOK'
    BY <1>others, <1>still
    DEF EditBase, EditExternal, EditMirror, RelabelNode, ContainerStarts, ContainerExits,
        LateLoad, vars, managerVars, workVars, mirrorVars
  <1> QED
    BY <1>start, <1>init, <1>exits, <1>run, <1>events, <1>worker, <1>publisher, <1>resync,
       <1>expire, <1>objects, <1>others
    DEF Next, Manager, Environment

---------------------------------------------------------------------------
(* The aggregator catches up with the ConfigMaps.  A ConfigMap that nobody  *)
(* edited since the process started is in the aggregator as it is in the   *)
(* API server once its first notification was handled; until then the base *)
(* is missing, so that nothing can be merged from an older one.            *)

BaseDelivered ==
    "base" \notin touched =>
        /\ agg.base \in {Absent, apiBase}
        /\ Informed /\ "base" \notin unsynced => agg.base = apiBase

\* Of a namespace that is not allowed, the aggregator never has anything.
ExternalDelivered(s) ==
    IF namespaceAllowed(NamespaceOf(s))
    THEN Informed /\ s \notin touched \cup unsynced => agg.externals[s] = apiExternal[s]
    ELSE agg.externals[s] = Absent

Delivery == BaseDelivered /\ \A s \in Source : ExternalDelivered(s)

SnapshotInv == PhaseInv /\ Delivery /\ SnapshotComplete

\* What the methods of the aggregator do to the base and the fragments.
LEMMA ConfigChanges ==
    ASSUME NEW a \in AggregatorState
    PROVE  /\ \A base \in Base : /\ UpdateBase(a, base).base = base
                                 /\ UpdateBase(a, base).externals = a.externals
           /\ \A s \in Source :
                /\ RemoveExternal(a, s).base = a.base
                /\ RemoveExternal(a, s).externals = [a.externals EXCEPT ![s] = Absent]
                /\ \A f \in Fragment :
                     /\ SetExternal(a, s, f).base = a.base
                     /\ SetExternal(a, s, f).externals = [a.externals EXCEPT ![s] = f]
           /\ \A snapshot \in Snapshots : /\ Accept(a, snapshot).base = a.base
                                          /\ Accept(a, snapshot).externals = a.externals
  <1>1. \A base \in Base : /\ UpdateBase(a, base).base = base
                           /\ UpdateBase(a, base).externals = a.externals
    BY DEF UpdateBase, update, AggregatorState
  <1>2. \A s \in Source : /\ RemoveExternal(a, s).base = a.base
                          /\ RemoveExternal(a, s).externals = [a.externals EXCEPT ![s] = Absent]
    BY DEF RemoveExternal, update, AggregatorState
  <1>3. \A s \in Source, f \in Fragment :
          /\ SetExternal(a, s, f).base = a.base
          /\ SetExternal(a, s, f).externals = [a.externals EXCEPT ![s] = f]
    BY DEF SetExternal, update, AggregatorState
  <1>4. \A snapshot \in Snapshots : /\ Accept(a, snapshot).base = a.base
                                    /\ Accept(a, snapshot).externals = a.externals
    BY DEF Accept, AggregatorState
  <1> QED BY <1>1, <1>2, <1>3, <1>4

\* A step that leaves the ConfigMaps and the aggregator's copies alone.
DeliveryFrame ==
    /\ UNCHANGED <<apiBase, apiExternal, touched, phase, unsynced>>
    /\ agg'.base = agg.base /\ agg'.externals = agg.externals

LEMMA DeliveryFrameKeeps ==
    ASSUME Delivery, DeliveryFrame PROVE Delivery'
  BY DEF Delivery, DeliveryFrame, BaseDelivered, ExternalDelivered, Informed

\* A step after which the workers hold no snapshot they did not hold before.
HoldsFrame ==
    /\ UNCHANGED <<apiBase, apiExternal, touched>>
    /\ \A n \in Node : work'[n].snapshot \in {work[n].snapshot, Absent}

LEMMA HoldsFrameKeeps ==
    ASSUME SnapshotComplete, HoldsFrame PROVE SnapshotComplete'
  BY DEF SnapshotComplete, HoldsFrame

LEMMA SnapshotInit == Init => SnapshotInv
  <1> SUFFICES ASSUME Init PROVE Delivery /\ SnapshotComplete
    BY PhaseInit DEF SnapshotInv
  <1>1. Delivery
    BY DEF Init, New, Delivery, BaseDelivered, ExternalDelivered, Informed
  <1>2. SnapshotComplete
    BY DEF Init, SnapshotComplete, Idle
  <1> QED BY <1>1, <1>2

\* Every step keeps the delivery in order.
LEMMA DeliveryStep == SnapshotInv /\ [Next]_vars => Delivery'
  <1> SUFFICES ASSUME SnapshotInv, [Next]_vars PROVE Delivery'
    OBVIOUS
  <1> TypeOK /\ WorkOK /\ PhaseOK /\ Delivery
    BY DEF SnapshotInv, PhaseInv, MutexInv, TypeInv
  <1>names. {"base", "mirror"} \cap (Source \cup Node) = {} /\ Source \cap Node = {}
    BY ConfigSyncAssumption
  <1>new. ASSUME agg' = New, phase' \notin {"sync", "run"} PROVE Delivery'
    BY <1>new DEF New, Delivery, BaseDelivered, ExternalDelivered, Informed
  <1>start. ASSUME NEW key \in OriginKey, Start(key) PROVE Delivery'
    BY <1>start, <1>new DEF Start, PhaseOK
  <1>init. CASE InitializeMirror
    <2>1. agg'.base = Absent /\ agg'.externals = [s \in Source |-> Absent]
      BY <1>init DEF InitializeMirror, PhaseOK, New
    <2>2. unsynced' = Objects
      BY <1>init DEF InitializeMirror
    <2> QED BY <2>1, <2>2 DEF Delivery, BaseDelivered, ExternalDelivered, Objects
  <1>exits. CASE InitializeMirrorFails \/ Crash
    BY <1>exits, <1>new DEF InitializeMirrorFails, Crash, ProcessExits
  <1>run. CASE StartWorkers
    BY <1>run DEF StartWorkers, Delivery, BaseDelivered, ExternalDelivered, Informed,
                  apiVars, managerVars
  <1>base. CASE BaseEvent
    <2>1. /\ Informed /\ UNCHANGED <<apiBase, apiExternal, touched, phase>>
          /\ unsynced' = unsynced \ {"base"}
      BY <1>base DEF BaseEvent, apiVars
    <2>2. /\ agg'.externals = agg.externals
          /\ agg'.base = IF apiBase = Absent THEN agg.base ELSE apiBase
      BY <1>base, ConfigChanges DEF BaseEvent, UpdateAggregator, TypeOK
    <2>3. BaseDelivered'
      BY <2>1, <2>2 DEF Delivery, BaseDelivered
    <2>4. \A s \in Source : ExternalDelivered(s)'
      BY <2>1, <2>2, <1>names DEF Delivery, ExternalDelivered, Informed
    <2> QED BY <2>3, <2>4 DEF Delivery
  <1>external. ASSUME NEW s \in Source, ExternalEvent(s) PROVE Delivery'
    <2>1. /\ Informed /\ UNCHANGED <<apiBase, apiExternal, touched, phase>>
          /\ unsynced' = unsynced \ {s}
      BY <1>external DEF ExternalEvent, apiVars
    <2>2. /\ agg'.base = agg.base
          /\ \A t \in Source \ {s} : agg'.externals[t] = agg.externals[t]
          /\ IF namespaceAllowed(NamespaceOf(s))
             THEN agg'.externals[s] = apiExternal[s]
             ELSE agg'.externals[s] \in {agg.externals[s], Absent}
      <3>1. agg.externals \in [Source -> Fragment \cup {Absent}]
        BY DEF TypeOK, AggregatorState
      <3>2. CASE apiExternal[s] = Absent
        <4>1. agg' = RemoveExternal(agg, s)
          BY <1>external, <3>2 DEF ExternalEvent, UpdateAggregator
        <4>2. /\ RemoveExternal(agg, s).base = agg.base
              /\ RemoveExternal(agg, s).externals = [agg.externals EXCEPT ![s] = Absent]
          BY ConfigChanges DEF TypeOK
        <4> QED BY <3>1, <3>2, <4>1, <4>2
      <3>3. CASE apiExternal[s] # Absent /\ namespaceAllowed(NamespaceOf(s))
        <4>1. agg' = SetExternal(agg, s, apiExternal[s]) /\ apiExternal[s] \in Fragment
          BY <1>external, <3>3 DEF ExternalEvent, UpdateAggregator, TypeOK
        <4>2. /\ SetExternal(agg, s, apiExternal[s]).base = agg.base
              /\ SetExternal(agg, s, apiExternal[s]).externals
                   = [agg.externals EXCEPT ![s] = apiExternal[s]]
          <5>1. \A f \in Fragment : /\ SetExternal(agg, s, f).base = agg.base
                                    /\ SetExternal(agg, s, f).externals
                                         = [agg.externals EXCEPT ![s] = f]
            BY ConfigChanges DEF TypeOK
          <5> QED BY <4>1, <5>1
        <4> QED BY <3>1, <3>3, <4>1, <4>2
      <3>4. CASE apiExternal[s] # Absent /\ ~namespaceAllowed(NamespaceOf(s))
        BY <1>external, <3>4 DEF ExternalEvent, UpdateAggregator
      <3> QED BY <3>2, <3>3, <3>4
    <2>3. BaseDelivered'
      BY <2>1, <2>2, <1>names DEF Delivery, BaseDelivered, Informed
    <2>4. \A t \in Source : ExternalDelivered(t)'
      BY <2>1, <2>2 DEF Delivery, ExternalDelivered, Informed
    <2> QED BY <2>3, <2>4 DEF Delivery
  <1>mirror. CASE MirrorEvent
    BY <1>mirror, <1>names
    DEF MirrorEvent, Delivery, BaseDelivered, ExternalDelivered, Informed, apiVars
  <1>node. ASSUME NEW n \in Node, NodeEvent(n) PROVE Delivery'
    BY <1>node, <1>names
    DEF NodeEvent, Delivery, BaseDelivered, ExternalDelivered, Informed, apiVars
  <1>editbase. ASSUME NEW value \in Base \cup {Absent}, EditBase(value) PROVE Delivery'
    BY <1>editbase, <1>names
    DEF EditBase, Delivery, BaseDelivered, ExternalDelivered, Informed, managerVars
  <1>editext. ASSUME NEW s \in Source, NEW value \in Fragment \cup {Absent}, EditExternal(s, value)
              PROVE  Delivery'
    BY <1>editext, <1>names
    DEF EditExternal, Delivery, BaseDelivered, ExternalDelivered, Informed, TypeOK, managerVars
  <1>accept. ASSUME NEW n \in Node, AcceptSnapshot(n) PROVE Delivery'
    BY <1>accept, ConfigChanges, DeliveryFrameKeeps
    DEF AcceptSnapshot, DeliveryFrame, TypeOK, WorkOK, apiVars
  <1>worker. ASSUME NEW n \in Node, WorkerStep(n), ~AcceptSnapshot(n) PROVE Delivery'
    BY <1>worker, DeliveryFrameKeeps
    DEF WorkerStep, ApplyCaddy, HoldRollout, ApplyCaddyFails, FindActivePod,
        FindActivePodFails, NothingToLoad, EnsureLoaded, PushLoaded, PushRejected, PushFails,
        PushTimesOut, RecordPush, TeardownNode, TeardownNodeFails, DeliveryFrame, apiVars,
        managerVars
  <1>queue. ASSUME \/ InformerResync \/ ForceConfigResync
                   \/ GetMirror \/ PublishMirror \/ PublishMirrorFails
                   \/ \E n \in Node : GetNode(n)
                   \/ \E k \in Key : DelayExpires(k)
            PROVE  Delivery'
    BY <1>queue, DeliveryFrameKeeps
    DEF InformerResync, ForceConfigResync, GetMirror, PublishMirror, PublishMirrorFails,
        GetNode, DelayExpires, DeliveryFrame, apiVars, managerVars
  <1>others. ASSUME \/ UNCHANGED vars
                    \/ \E data \in Caddyfile \cup {Absent} : EditMirror(data)
                    \/ \E n \in Node : \/ RelabelNode(n) \/ DeleteDeployment(n)
                                       \/ ContainerStarts(n) \/ ContainerExits(n)
                                       \/ StatusReported(n) \/ LateLoad(n)
             PROVE  Delivery'
    BY <1>others, DeliveryFrameKeeps
    DEF EditMirror, RelabelNode, DeleteDeployment, ContainerStarts, ContainerExits,
        StatusReported, LateLoad, DeliveryFrame, vars, apiVars, managerVars
  <1> QED
    BY <1>start, <1>init, <1>exits, <1>run, <1>base, <1>external, <1>mirror, <1>node,
       <1>editbase, <1>editext, <1>accept, <1>worker, <1>queue, <1>others
    DEF Next, Manager, Environment

\* Every step keeps what the workers hold complete.
LEMMA SnapshotStep == SnapshotInv /\ [Next]_vars => SnapshotInv'
  <1> SUFFICES ASSUME SnapshotInv, [Next]_vars PROVE SnapshotComplete'
    BY PhaseStep, DeliveryStep DEF SnapshotInv
  <1> TypeOK /\ PhaseOK /\ Delivery /\ SnapshotComplete
    BY DEF SnapshotInv, PhaseInv, MutexInv, TypeInv
  <1>none. ASSUME \A n \in Node : work'[n].snapshot = Absent PROVE SnapshotComplete'
    BY <1>none DEF SnapshotComplete
  <1>start. ASSUME NEW key \in OriginKey, Start(key) PROVE SnapshotComplete'
    BY <1>start, <1>none DEF Start, PhaseOK, Idle, workVars
  <1>exits. CASE InitializeMirrorFails \/ Crash
    BY <1>exits, <1>none DEF InitializeMirrorFails, Crash, ProcessExits, Idle
  <1>still. ASSUME \/ InitializeMirror \/ StartWorkers \/ BaseEvent \/ MirrorEvent
                   \/ InformerResync \/ ForceConfigResync
                   \/ GetMirror \/ PublishMirror \/ PublishMirrorFails
                   \/ \E s \in Source : ExternalEvent(s)
                   \/ \E n \in Node : NodeEvent(n)
                   \/ \E k \in Key : DelayExpires(k)
                   \/ UNCHANGED vars
            PROVE  SnapshotComplete'
    BY <1>still, HoldsFrameKeeps
    DEF HoldsFrame, InitializeMirror, StartWorkers, BaseEvent, MirrorEvent, InformerResync,
        ForceConfigResync, GetMirror, PublishMirror, PublishMirrorFails, ExternalEvent,
        NodeEvent, DelayExpires, vars, apiVars, workVars
  <1>cluster. ASSUME \/ \E data \in Caddyfile \cup {Absent} : EditMirror(data)
                     \/ \E n \in Node : \/ RelabelNode(n) \/ DeleteDeployment(n)
                                        \/ ContainerStarts(n) \/ ContainerExits(n)
                                        \/ StatusReported(n) \/ LateLoad(n)
              PROVE  SnapshotComplete'
    BY <1>cluster, HoldsFrameKeeps
    DEF HoldsFrame, EditMirror, RelabelNode, DeleteDeployment, ContainerStarts,
        ContainerExits, StatusReported, LateLoad, apiVars, workVars
  <1>editbase. ASSUME NEW value \in Base \cup {Absent}, EditBase(value) PROVE SnapshotComplete'
    BY <1>editbase, ConfigSyncAssumption DEF EditBase, SnapshotComplete, workVars
  <1>editext. ASSUME NEW s \in Source, NEW value \in Fragment \cup {Absent}, EditExternal(s, value)
              PROVE  SnapshotComplete'
    BY <1>editext, ConfigSyncAssumption DEF EditExternal, SnapshotComplete, TypeOK, workVars
  <1>goto. ASSUME NEW n \in Node, NEW pc, Goto(n, pc), UNCHANGED <<apiBase, apiExternal, touched>>
           PROVE  SnapshotComplete'
    BY <1>goto, HoldsFrameKeeps DEF HoldsFrame, Goto, TypeOK, Works
  <1>get. ASSUME NEW n \in Node, GetNode(n) PROVE SnapshotComplete'
    BY <1>get, <1>goto DEF GetNode, apiVars
  <1>apply. ASSUME NEW n \in Node, ApplyCaddy(n) \/ HoldRollout(n) PROVE SnapshotComplete'
    BY <1>apply, <1>goto DEF ApplyCaddy, HoldRollout, apiVars
  <1>find. ASSUME NEW n \in Node, FindActivePod(n) PROVE SnapshotComplete'
    BY <1>find, HoldsFrameKeeps DEF FindActivePod, HoldsFrame, TypeOK, Works, apiVars
  <1>push. ASSUME NEW n \in Node, PushLoaded(n) \/ RecordPush(n) PROVE SnapshotComplete'
    BY <1>push, <1>goto DEF PushLoaded, RecordPush, apiVars
  <1>ends. ASSUME NEW n \in Node,
                  \/ ApplyCaddyFails(n) \/ FindActivePodFails(n) \/ NothingToLoad(n)
                  \/ PushRejected(n) \/ PushFails(n) \/ PushTimesOut(n) \/ AcceptSnapshot(n)
                  \/ TeardownNode(n) \/ TeardownNodeFails(n)
           PROVE  SnapshotComplete'
    <2>1. work' = [work EXCEPT ![n] = Idle] /\ UNCHANGED <<apiBase, apiExternal, touched>>
      BY <1>ends
      DEF ApplyCaddyFails, FindActivePodFails, NothingToLoad, PushRejected, PushFails,
          PushTimesOut, AcceptSnapshot, TeardownNode, TeardownNodeFails, Fail, Finish, apiVars
    <2> QED BY <2>1, HoldsFrameKeeps DEF HoldsFrame, Idle, TypeOK
  <1>ensure. ASSUME NEW n \in Node, EnsureLoaded(n) PROVE SnapshotComplete'
    <2>1. /\ UNCHANGED <<apiBase, apiExternal, touched>> /\ IsLoadable(agg)
          /\ phase = "run" /\ unsynced = {}
      BY <1>ensure, BusyRuns DEF EnsureLoaded, PhaseOK, apiVars
    <2>2. work'[n].snapshot \in {Absent, CurrentMerged(agg)}
      BY <1>ensure DEF EnsureLoaded, Finish, Idle, TypeOK, Works
    <2>3. \A m \in Node \ {n} : work'[m] = work[m]
      BY <1>ensure DEF EnsureLoaded, Finish, TypeOK
    <2>4. "base" \notin touched => apiBase # Absent /\ Merged(agg).base = apiBase.text
      BY <2>1 DEF Delivery, BaseDelivered, Informed, IsLoadable, Merged
    <2>5. ASSUME NEW s \in Source
          PROVE  IF namespaceAllowed(NamespaceOf(s))
                 THEN s \notin touched => Merged(agg).externals[s] = TrimSpace(apiExternal[s])
                 ELSE Merged(agg).externals[s] = ""
      BY <2>1 DEF Delivery, ExternalDelivered, Informed, Merged, TrimSpace
    <2>6. CurrentMerged(agg).caddyfile = Merged(agg)
      BY DEF CurrentMerged
    <2> SUFFICES ASSUME NEW m \in Node, work'[m].snapshot # Absent
                 PROVE  LET c == work'[m].snapshot.caddyfile
                        IN /\ "base" \notin touched => apiBase # Absent /\ c.base = apiBase.text
                           /\ \A s \in Source :
                                IF namespaceAllowed(NamespaceOf(s))
                                THEN s \notin touched => c.externals[s] = TrimSpace(apiExternal[s])
                                ELSE c.externals[s] = ""
      BY <2>1 DEF SnapshotComplete
    <2>7. CASE m = n
      BY <2>2, <2>4, <2>5, <2>6, <2>7
    <2>8. CASE m # n
      BY <2>3, <2>8 DEF SnapshotComplete
    <2> QED BY <2>7, <2>8
  <1> QED
    BY <1>start, <1>exits, <1>still, <1>cluster, <1>editbase, <1>editext, <1>get, <1>apply,
       <1>find, <1>push, <1>ends, <1>ensure
    DEF Next, Manager, WorkerStep, Environment

\* The workers wait for every informer's first list: whatever order the events
\* and the edits come in, no worker handles a Caddyfile that lacks a ConfigMap
\* from before the process started, or has one from a forbidden namespace.
THEOREM SnapshotsComplete == Spec => []SnapshotComplete
  <1>1. Init => SnapshotInv
    BY SnapshotInit
  <1>2. SnapshotInv /\ [Next]_vars => SnapshotInv'
    BY SnapshotStep
  <1>3. SnapshotInv => SnapshotComplete
    BY DEF SnapshotInv
  <1> QED BY <1>1, <1>2, <1>3, PTL DEF Spec
===========================================================================
