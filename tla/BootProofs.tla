---------------------------- MODULE BootProofs ----------------------------
(***************************************************************************)
(* Proof that the manager implements BootSnapshot: what it does to the boot *)
(* ConfigMap is, step by step, what the abstract cell allows.  Crashes,    *)
(* failed writes, key changes and edits are part of it.                    *)
(***************************************************************************)
EXTENDS SnapshotProofs

---------------------------------------------------------------------------
(* The bootstrap never replaces a proven snapshot.  The danger is a worker *)
(* that took the bootstrap to publish it, and is overtaken.                *)

\* If the boot ConfigMap is stamped for this manager, then for the bootstrap.
OnlyBootstrap ==
    \A c \in Caddyfile :
        mirror.stamp = snapshotHash(originKey, c) => c = BootstrapCaddyfile(originKey)

BootstrapFirst ==
    /\ Informed /\ agg.accepted = BootstrapCaddyfile(originKey) =>
         OnlyBootstrap /\ publishing \in {Absent, agg.accepted}
    /\ publishing = BootstrapCaddyfile(originKey) => OnlyBootstrap

RefineInv == PhaseInv /\ BootInv /\ BootstrapFirst

\* A step that neither accepts, publishes nor edits.
CellFrame ==
    /\ UNCHANGED <<mirror, publishing, originKey, phase>>
    /\ agg'.accepted = agg.accepted

LEMMA CellFrameKeeps ==
    ASSUME BootstrapFirst, CellFrame PROVE BootstrapFirst'
  BY DEF BootstrapFirst, CellFrame, OnlyBootstrap, Informed

LEMMA RefineInit == Init => RefineInv
  <1> SUFFICES ASSUME Init PROVE BootstrapFirst
    BY PhaseInit, BootInit DEF RefineInv
  <1>1. \A key \in OriginKey : BootstrapCaddyfile(key) # Absent
    BY CaddyfileFacts
  <1> QED BY <1>1 DEF Init, BootstrapFirst, Informed

\* Every step keeps the bootstrap behind the proven snapshots.
LEMMA RefineStep == RefineInv /\ [Next]_vars => RefineInv'
  <1> SUFFICES ASSUME RefineInv, [Next]_vars PROVE BootstrapFirst'
    BY PhaseStep, BootStep DEF RefineInv
  <1> TypeOK /\ WorkOK /\ PhaseOK /\ BootstrapFirst
    BY DEF RefineInv, PhaseInv, MutexInv, TypeInv
  <1>type. originKey \in OriginKey /\ BootstrapCaddyfile(originKey) \in Caddyfile \ {Absent}
    BY CaddyfileFacts DEF TypeOK
  <1>stamp. \A c \in Caddyfile : Stamped(originKey, c).stamp = snapshotHash(originKey, c)
    BY DEF Stamped
  <1>hash. \A c, d \in Caddyfile : snapshotHash(originKey, c) = snapshotHash(originKey, d) => c = d
    BY DEF snapshotHash
  <1>down. ASSUME phase' \notin {"sync", "run"}, publishing' = Absent, originKey' \in OriginKey
           PROVE  BootstrapFirst'
    <2>1. BootstrapCaddyfile(originKey') # Absent
      BY <1>down, CaddyfileFacts
    <2> QED BY <1>down, <2>1 DEF BootstrapFirst, Informed
  <1>start. ASSUME NEW key \in OriginKey, Start(key) PROVE BootstrapFirst'
    BY <1>start, <1>down DEF Start, PhaseOK, mirrorVars
  <1>exits. CASE InitializeMirrorFails \/ Crash
    BY <1>exits, <1>down, <1>type DEF InitializeMirrorFails, Crash, ProcessExits
  <1>init. CASE InitializeMirror
    <2>1. initialSnapshot \in Caddyfile
      BY CaddyfileFacts DEF initialSnapshot, IsStamped, TypeOK, Mirrors
    <2>2. /\ publishing' = Absent /\ UNCHANGED originKey
          /\ agg'.accepted = initialSnapshot /\ mirror'.stamp = snapshotHash(originKey, initialSnapshot)
      BY <1>init, <2>1, <1>stamp DEF InitializeMirror, PhaseOK, TypeOK, AggregatorState
    <2> QED BY <2>1, <2>2, <1>type, <1>hash DEF BootstrapFirst, OnlyBootstrap
  <1>run. CASE StartWorkers
    BY <1>run DEF StartWorkers, BootstrapFirst, OnlyBootstrap, Informed, PhaseOK, managerVars,
                  mirrorVars
  <1>base. CASE BaseEvent
    BY <1>base, CellFrameKeeps, UpdateKeepsAccepted
    DEF CellFrame, BaseEvent, UpdateAggregator, TypeOK, mirrorVars
  <1>external. ASSUME NEW s \in Source, ExternalEvent(s) PROVE BootstrapFirst'
    BY <1>external, CellFrameKeeps, UpdateKeepsAccepted
    DEF CellFrame, ExternalEvent, UpdateAggregator, TypeOK, mirrorVars
  <1>accept. ASSUME NEW n \in Node, AcceptSnapshot(n) PROVE BootstrapFirst'
    <2>1. agg'.accepted \in {agg.accepted, Pushed(n)}
      BY <1>accept DEF AcceptSnapshot, Accept, Pushed, TypeOK, AggregatorState
    <2>2. Pushed(n) # BootstrapCaddyfile(originKey)
      BY <1>accept, <1>type, AdminAssumption
      DEF AcceptSnapshot, WorkOK, Snapshots, Pushed, Bootstraps
    <2> QED BY <1>accept, <2>1, <2>2
            DEF AcceptSnapshot, BootstrapFirst, OnlyBootstrap, Informed, mirrorVars
  <1>get. CASE GetMirror
    <2>1. Informed /\ publishing' = agg.accepted /\ UNCHANGED <<mirror, originKey, phase, agg>>
      BY <1>get DEF GetMirror, HasFreeWorker, Informed, managerVars
    <2> QED BY <2>1 DEF BootstrapFirst, OnlyBootstrap, Informed
  <1>publish. CASE PublishMirror \/ PublishMirrorFails
    <2>1. /\ publishing \in Caddyfile /\ publishing' = Absent
          /\ UNCHANGED <<originKey, phase, agg>>
          /\ mirror' = mirror \/ mirror'.stamp = snapshotHash(originKey, publishing)
      BY <1>publish, <1>stamp DEF PublishMirror, PublishMirrorFails, TypeOK, managerVars
    <2>2. CASE mirror' = mirror
      BY <2>1, <2>2, <1>type DEF BootstrapFirst, OnlyBootstrap, Informed
    <2>3. CASE mirror'.stamp = snapshotHash(originKey, publishing)
      BY <2>1, <2>3, <1>type, <1>hash, CaddyfileFacts DEF BootstrapFirst, OnlyBootstrap, Informed
    <2> QED BY <2>1, <2>2, <2>3
  <1>edit. ASSUME NEW data \in Caddyfile \cup {Absent}, EditMirror(data) PROVE BootstrapFirst'
    <2>1. mirror'.stamp \in {mirror.stamp, Absent}
      BY <1>edit DEF EditMirror, NoMirror, TypeOK, Mirrors
    <2>2. OnlyBootstrap => OnlyBootstrap'
      BY <1>edit, <2>1, <1>type, StampPresent DEF EditMirror, OnlyBootstrap, managerVars
    <2> QED BY <1>edit, <2>2 DEF EditMirror, BootstrapFirst, Informed, managerVars
  <1>worker. ASSUME NEW n \in Node, WorkerStep(n), ~AcceptSnapshot(n) PROVE BootstrapFirst'
    BY <1>worker, CellFrameKeeps
    DEF WorkerStep, ApplyCaddy, HoldRollout, ApplyCaddyFails, FindActivePod,
        FindActivePodFails, NothingToLoad, EnsureLoaded, PushLoaded, PushRejected, PushFails,
        PushTimesOut, RecordPush, TeardownNode, TeardownNodeFails, CellFrame, managerVars,
        mirrorVars
  <1>others. ASSUME \/ MirrorEvent \/ InformerResync \/ ForceConfigResync
                    \/ \E n \in Node : NodeEvent(n) \/ GetNode(n)
                    \/ \E k \in Key : DelayExpires(k)
                    \/ \E value \in Base \cup {Absent} : EditBase(value)
                    \/ \E s \in Source, value \in Fragment \cup {Absent} : EditExternal(s, value)
                    \/ \E n \in Node : \/ RelabelNode(n) \/ DeleteDeployment(n)
                                       \/ ContainerStarts(n) \/ ContainerExits(n)
                                       \/ StatusReported(n) \/ LateLoad(n)
                    \/ UNCHANGED vars
             PROVE  BootstrapFirst'
    BY <1>others, CellFrameKeeps
    DEF MirrorEvent, InformerResync, ForceConfigResync, NodeEvent, GetNode, DelayExpires,
        EditBase, EditExternal, RelabelNode, DeleteDeployment, ContainerStarts,
        ContainerExits, StatusReported, LateLoad, CellFrame, vars, managerVars, mirrorVars
  <1> QED
    BY <1>start, <1>exits, <1>init, <1>run, <1>base, <1>external, <1>accept, <1>get,
       <1>publish, <1>edit, <1>worker, <1>others
    DEF Next, Manager, Environment

---------------------------------------------------------------------------
(* The refinement: initial states map to initial states, and every step to *)
(* a step of the cell or to a stutter.                                     *)

cellVars == <<mirror.stamp, \E key \in OriginKey : IsStamped(mirror, key), loaded>>

LEMMA CellInit == Init => Boot!Init
  <1> SUFFICES ASSUME Init PROVE Boot!Init
    OBVIOUS
  <1>1. mirror.stamp = Absent /\ mirror.data = Absent /\ loaded = {}
    BY DEF Init, NoMirror
  <1>2. ~ \E key \in OriginKey : IsStamped(mirror, key)
    BY <1>1 DEF IsStamped
  <1> QED BY <1>1, <1>2 DEF Boot!Init

\* Writing the stamped snapshot c is a Publish or changes nothing.
LEMMA CellPublish ==
    ASSUME TypeOK, NEW c \in Caddyfile, mirror' = Stamped(originKey, c), UNCHANGED loaded,
           \/ <<originKey, c>> \in loaded
           \/ c = BootstrapCaddyfile(originKey) /\ OnlyBootstrap
           \/ c = BootstrapCaddyfile(originKey) /\ ~IsStamped(mirror, originKey)
    PROVE  Boot!Next \/ UNCHANGED cellVars
  <1>1. originKey \in OriginKey /\ mirror \in Mirrors /\ c # Absent
    BY CaddyfileFacts DEF TypeOK
  <1>2. mirror'.stamp = <<originKey, c>> /\ mirror'.data = c
    BY DEF Stamped, snapshotHash
  <1>3. \E key \in OriginKey : IsStamped(mirror', key)
    BY <1>1, <1>2 DEF IsStamped, snapshotHash
  <1> DEFINE holds == Boot!Holds(originKey)
  <1>4. CASE <<originKey, c>> \in loaded \/ ~holds
    <2>1. <<originKey, c>> \in loaded \/ (c = BootstrapCaddyfile(originKey) /\ ~holds)
      BY <1>4
    <2>2. Boot!Publish(originKey, c)
      BY <1>2, <1>3, <2>1 DEF Boot!Publish
    <2> QED BY <1>1, <2>2 DEF Boot!Next
  <1>5. CASE <<originKey, c>> \notin loaded /\ holds
    <2>1. PICK key \in OriginKey, d \in Caddyfile :
            IsStamped(mirror, key) /\ mirror.stamp = <<originKey, d>>
      BY <1>5 DEF Boot!Holds
    <2>2. key = originKey /\ mirror.data = d
      BY <2>1 DEF IsStamped, snapshotHash
    <2>3. d = c
      <3>1. OnlyBootstrap /\ c = BootstrapCaddyfile(originKey)
        BY <1>5, <2>1, <2>2
      <3> QED BY <2>1, <3>1 DEF OnlyBootstrap, snapshotHash
    <2>4. mirror' = mirror
      BY <1>1, <2>1, <2>2, <2>3 DEF Mirrors, Stamped, snapshotHash
    <2> QED BY <2>4 DEF cellVars
  <1> HIDE DEF holds
  <1> QED BY <1>4, <1>5

\* Every step of the system is a step of the cell or leaves it alone.
LEMMA CellStep == RefineInv /\ [Next]_vars => [Boot!Next]_cellVars
  <1> SUFFICES ASSUME RefineInv, [Next]_vars PROVE Boot!Next \/ UNCHANGED cellVars
    OBVIOUS
  <1> TypeOK /\ WorkOK /\ BootstrapFirst /\ StampProven /\ HeldProven
    BY DEF RefineInv, BootInv, MutexInv, TypeInv
  <1>type. originKey \in OriginKey /\ mirror \in Mirrors
    BY DEF TypeOK
  <1>same. ASSUME UNCHANGED <<mirror, loaded>> PROVE UNCHANGED cellVars
    BY <1>same DEF cellVars
  <1>load. ASSUME NEW key \in OriginKey, NEW c \in Caddyfile,
                  loaded' = loaded \cup {<<key, c>>}, UNCHANGED mirror
           PROVE  Boot!Next
    <2>1. Boot!Load(key, c)
      BY <1>load DEF Boot!Load
    <2> QED BY <2>1 DEF Boot!Next
  <1>initial. ASSUME mirror' = Stamped(originKey, initialSnapshot), UNCHANGED loaded
              PROVE  Boot!Next \/ UNCHANGED cellVars
    <2>1. CASE IsStamped(mirror, originKey)
      <3>1. mirror' = mirror
        BY <1>initial, <1>type, <2>1 DEF initialSnapshot, IsStamped, Stamped, Mirrors
      <3> QED BY <1>initial, <3>1, <1>same
    <2>2. CASE ~IsStamped(mirror, originKey)
      <3>1. initialSnapshot = BootstrapCaddyfile(originKey) /\ initialSnapshot \in Caddyfile
        BY <2>2, <1>type, CaddyfileFacts DEF initialSnapshot
      <3> QED BY <1>initial, <2>2, <3>1, CellPublish
    <2> QED BY <2>1, <2>2
  <1>init. CASE InitializeMirror
    BY <1>init, <1>initial DEF InitializeMirror
  <1>initfail. CASE InitializeMirrorFails
    BY <1>initfail, <1>initial, <1>same DEF InitializeMirrorFails
  <1>publish. CASE PublishMirror \/ PublishMirrorFails
    <2>1. /\ publishing \in Caddyfile /\ UNCHANGED loaded
          /\ mirror' = mirror \/ mirror' = Stamped(originKey, publishing)
      BY <1>publish DEF PublishMirror, PublishMirrorFails, TypeOK
    <2>2. \/ <<originKey, publishing>> \in loaded
          \/ publishing = BootstrapCaddyfile(originKey) /\ OnlyBootstrap
      BY <2>1, CaddyfileFacts DEF HeldProven, Proven, BootstrapFirst
    <2> QED BY <2>1, <2>2, <1>same, CellPublish
  <1>edit. ASSUME NEW data \in Caddyfile \cup {Absent}, EditMirror(data) PROVE Boot!Next
    <2>1. mirror'.stamp \in {mirror.stamp, Absent} /\ UNCHANGED loaded
      BY <1>edit, <1>type DEF EditMirror, NoMirror, Mirrors
    <2>2. mirror' \in Mirrors
      BY TypeStep DEF RefineInv, PhaseInv, MutexInv, TypeInv, TypeOK
    <2>3. mirror'.stamp = Absent => ~ \E key \in OriginKey : IsStamped(mirror', key)
      BY <2>2, StampPresent DEF IsStamped, Mirrors
    <2>4. Boot!Spoil
      BY <2>1, <2>3 DEF Boot!Spoil
    <2> QED BY <2>4 DEF Boot!Next
  <1>loaded. ASSUME NEW n \in Node, PushLoaded(n) PROVE Boot!Next
    <2>1. Pushed(n) \in Caddyfile
      BY <1>loaded, CaddyfileFacts DEF PushLoaded, WorkOK, Snapshots, Pushed
    <2> QED BY <1>loaded, <2>1, <1>type, <1>load DEF PushLoaded, mirrorVars
  <1>late. ASSUME NEW n \in Node, LateLoad(n) PROVE Boot!Next
    <2>1. late[n] \in OriginKey \X Caddyfile
      BY <1>late DEF LateLoad, TypeOK
    <2>2. PICK key \in OriginKey, c \in Caddyfile : late[n] = <<key, c>>
      BY <2>1
    <2> QED BY <1>late, <2>2, <1>load DEF LateLoad, mirrorVars
  <1>worker. ASSUME NEW n \in Node, WorkerStep(n), ~PushLoaded(n) PROVE UNCHANGED cellVars
    BY <1>worker, <1>same
    DEF WorkerStep, ApplyCaddy, HoldRollout, ApplyCaddyFails, FindActivePod,
        FindActivePodFails, NothingToLoad, EnsureLoaded, PushRejected, PushFails,
        PushTimesOut, RecordPush, AcceptSnapshot, TeardownNode, TeardownNodeFails, mirrorVars
  <1>manager. ASSUME \/ \E key \in OriginKey : Start(key)
                     \/ Crash \/ StartWorkers \/ BaseEvent \/ MirrorEvent
                     \/ InformerResync \/ ForceConfigResync \/ GetMirror
                     \/ \E s \in Source : ExternalEvent(s)
                     \/ \E n \in Node : NodeEvent(n) \/ GetNode(n)
                     \/ \E k \in Key : DelayExpires(k)
                     \/ UNCHANGED vars
              PROVE  UNCHANGED cellVars
    BY <1>manager, <1>same
    DEF Start, Crash, StartWorkers, BaseEvent, MirrorEvent, InformerResync,
        ForceConfigResync, GetMirror, ExternalEvent, NodeEvent, GetNode, DelayExpires, vars,
        mirrorVars
  <1>cluster. ASSUME \/ \E value \in Base \cup {Absent} : EditBase(value)
                     \/ \E s \in Source, value \in Fragment \cup {Absent} : EditExternal(s, value)
                     \/ \E n \in Node : \/ RelabelNode(n) \/ DeleteDeployment(n)
                                        \/ ContainerStarts(n) \/ ContainerExits(n)
                                        \/ StatusReported(n)
              PROVE  UNCHANGED cellVars
    BY <1>cluster, <1>same
    DEF EditBase, EditExternal, RelabelNode, DeleteDeployment, ContainerStarts,
        ContainerExits, StatusReported, mirrorVars
  <1> QED
    BY <1>init, <1>initfail, <1>publish, <1>edit, <1>loaded, <1>late, <1>worker, <1>manager,
       <1>cluster
    DEF Next, Manager, Environment

\* InitializeMirror and publishMirror implement the cell: the boot ConfigMap
\* takes only what a Caddy loaded under the key it is stamped for, and the
\* bootstrap only while it vouches for nothing else under that key.
THEOREM BootRefinement == Spec => BootSnapshotRefined
  <1>1. Init => RefineInv /\ Boot!Init
    BY RefineInit, CellInit
  <1>2. RefineInv /\ [Next]_vars => RefineInv'
    BY RefineStep
  <1>3. RefineInv /\ [Next]_vars => [Boot!Next]_cellVars
    BY CellStep
  <1> QED BY <1>1, <1>2, <1>3, PTL DEF Spec, BootSnapshotRefined, Boot!Spec, cellVars
===========================================================================
