------------------------- MODULE ConfigSyncProofs -------------------------
(***************************************************************************)
(* Proofs about ConfigSync for every set of nodes, ConfigMaps and origin   *)
(* keys, every number of workers and any number of disturbances.           *)
(***************************************************************************)
EXTENDS ConfigSync, TLAPS

---------------------------------------------------------------------------
(* Facts about the operators the specification is built from. *)

\* BootstrapCaddyfile and the merged Caddyfiles are Caddyfiles, and none of
\* them is the missing value.
LEMMA CaddyfileFacts ==
    /\ \A key \in OriginKey : BootstrapCaddyfile(key) \in Caddyfile
    /\ MergedCaddyfile \subseteq Caddyfile
    /\ Absent \notin Caddyfile
  BY AggregatorAssumption DEF Caddyfile, Bootstraps

\* New is an aggregator state.
LEMMA NewType == New \in AggregatorState
  BY DEF New, AggregatorState

\* The tail of update keeps the struct well formed.
LEMMA RevisionType ==
    \A a \in AggregatorState, changed \in BOOLEAN : update(a, changed) \in AggregatorState
  BY DEF update, AggregatorState

\* So does UpdateBase.
LEMMA UpdateBaseType ==
    \A a \in AggregatorState, base \in Base : UpdateBase(a, base) \in AggregatorState
  <1>1. \A a \in AggregatorState, base \in Base : [a EXCEPT !.base = base] \in AggregatorState
    BY DEF AggregatorState
  <1> QED BY <1>1, RevisionType DEF UpdateBase

\* So do SetExternal and RemoveExternal.
LEMMA UpdateExternalType ==
    ASSUME NEW a \in AggregatorState, NEW s \in Source
    PROVE  /\ \A fragment \in Fragment : SetExternal(a, s, fragment) \in AggregatorState
           /\ RemoveExternal(a, s) \in AggregatorState
  <1>1. \A x \in Fragment \cup {Absent} : [a EXCEPT !.externals[s] = x] \in AggregatorState
    BY DEF AggregatorState
  <1>2. \A fragment \in Fragment : SetExternal(a, s, fragment) \in AggregatorState
    BY <1>1, RevisionType DEF SetExternal
  <1>3. RemoveExternal(a, s) \in AggregatorState
    BY <1>1, RevisionType DEF RemoveExternal
  <1> QED BY <1>2, <1>3

\* CurrentMerged returns a Caddyfile when it returns no error.
LEMMA MergedType ==
    ASSUME NEW a \in AggregatorState, IsLoadable(a)
    PROVE  Merged(a) \in MergedCaddyfile /\ CurrentMerged(a) \in Snapshots
  <1>1. a.base.text \in BaseText
    BY AggregatorAssumption DEF IsLoadable, AggregatorState
  <1>2. \A s \in Source : TrimSpace(a.externals[s]) \in FragmentText \cup {""}
    <2> TAKE s \in Source
    <2>1. a.externals[s] \in Fragment \cup {Absent}
      BY DEF AggregatorState
    <2>2. \A f \in Fragment : f.text \in FragmentText \cup {""}
      BY AggregatorAssumption
    <2> QED BY <2>1, <2>2 DEF TrimSpace
  <1>3. Merged(a) \in MergedCaddyfile
    BY <1>1, <1>2 DEF Merged, MergedCaddyfile
  <1> QED BY <1>3 DEF CurrentMerged, Snapshots, AggregatorState

\* Accept keeps the struct well formed.
LEMMA AcceptType ==
    ASSUME NEW a \in AggregatorState, NEW snapshot \in Snapshots
    PROVE  Accept(a, snapshot) \in AggregatorState
  BY CaddyfileFacts DEF Accept, AggregatorState, Snapshots

\* Every operation of the work queue yields a queue over the same keys.
LEMMA QueueType ==
    ASSUME NEW keys, NEW q \in QueueOf(keys), NEW k \in keys
    PROVE  /\ \A S \in SUBSET keys : Add(q, S) \in QueueOf(keys)
           /\ Get(q, k) \in QueueOf(keys)
           /\ Done(q, k) \in QueueOf(keys)
           /\ AddAfter(q, k) \in QueueOf(keys)
           /\ Retry(q, k) \in QueueOf(keys)
           /\ Expire(q, k) \in QueueOf(keys)
  BY DEF QueueOf, Add, Get, Done, AddAfter, Retry, Expire

\* checkAdminReachable is strong enough: a configuration it lets through
\* answers the manager's origin key once Caddy runs it.
LEMMA CheckedAnswers ==
    ASSUME NEW c \in Caddyfile, NEW key \in OriginKey, checkAdminReachable(c, key)
    PROVE  Answers(c, key)
  BY DEF checkAdminReachable, Answers

\* BootstrapCaddyfile(key) answers key.
LEMMA BootstrapAnswers ==
    ASSUME NEW key \in OriginKey
    PROVE  Answers(BootstrapCaddyfile(key), key)
  BY DEF Answers, AdaptedAdmin, BootstrapCaddyfile, Bootstraps

---------------------------------------------------------------------------
(* Type correctness. *)

\* A worker that pushes, records or accepts holds a snapshot and the ID of a
\* started container.
WorkOK ==
    \A n \in Node :
        work[n].pc \in {"load", "record", "accept"} =>
            work[n].snapshot \in Snapshots /\ work[n].containerID \in ContainerID

TypeInv == TypeOK /\ WorkOK

LEMMA TypeInit == Init => TypeInv
  <1> SUFFICES ASSUME Init PROVE TypeInv
    OBVIOUS
  <1>1. EmptyQueue \in QueueOf(Key)
    BY DEF EmptyQueue, QueueOf
  <1>2. NoMirror \in Mirrors
    BY DEF NoMirror, Mirrors
  <1>3. [n \in Node |-> Idle] \in [Node -> Works]
    BY DEF Idle, Works
  <1>4. TypeOK
    BY <1>1, <1>2, <1>3, NewType, ConfigSyncAssumption DEF Init, TypeOK
  <1>5. WorkOK
    BY DEF Init, WorkOK, Idle
  <1> QED BY <1>4, <1>5 DEF TypeInv

\* Every step keeps the types.
LEMMA TypeStep == TypeInv /\ [Next]_vars => TypeInv'
  <1> SUFFICES ASSUME TypeInv, [Next]_vars PROVE TypeInv'
    OBVIOUS
  <1> TypeOK /\ WorkOK
    BY DEF TypeInv
  <1> USE DEF TypeInv
  <1> MirrorKey \in Key /\ Node \subseteq Key
    BY DEF Key
  <1>queue. /\ \A S \in SUBSET Key : Add(queue, S) \in QueueOf(Key)
            /\ \A k \in Key : /\ Get(queue, k) \in QueueOf(Key)
                              /\ Done(queue, k) \in QueueOf(Key)
                              /\ AddAfter(queue, k) \in QueueOf(Key)
                              /\ Retry(queue, k) \in QueueOf(Key)
                              /\ Expire(queue, k) \in QueueOf(Key)
    BY QueueType DEF TypeOK
  <1>added. \A S \in SUBSET Key, k \in Key : /\ Done(Add(queue, S), k) \in QueueOf(Key)
                                             /\ Retry(Add(queue, S), k) \in QueueOf(Key)
    BY <1>queue, QueueType
  <1>empty. EmptyQueue \in QueueOf(Key) /\ Idle \in Works
    BY DEF EmptyQueue, QueueOf, Idle, Works
  <1>initial. initialSnapshot \in Caddyfile
    BY CaddyfileFacts DEF initialSnapshot, IsStamped, TypeOK, Mirrors
  <1>stamp. \A c \in Caddyfile : Stamped(originKey, c) \in Mirrors
    BY DEF Stamped, snapshotHash, Mirrors, TypeOK
  <1>exit. ASSUME ProcessExits
           PROVE  /\ phase' = "down" /\ agg' \in AggregatorState
                  /\ nodeCache' = {} /\ unsynced' = {} /\ queue' \in QueueOf(Key)
                  /\ work' \in [Node -> Works] /\ publishing' = Absent
                  /\ pushState' \in [Node -> PushRecords \cup {Absent}] /\ WorkOK'
    BY <1>exit, <1>empty, NewType DEF ProcessExits, WorkOK, Idle
  <1>spend. ASSUME NEW kind \in Disturbance, Spend(kind)
            PROVE  budget' \in [Disturbance -> Nat]
    BY <1>spend DEF Spend, TypeOK
  <1>removed. ASSUME NEW n \in Node, PodRemoved(n)
              PROVE  /\ status' \in [Node -> ContainerID \cup {0}]
                     /\ container' \in [Node -> ContainerID \cup {0}]
                     /\ running' \in [Node -> Caddyfile \cup {Absent}]
                     /\ late' \in [Node -> (OriginKey \X Caddyfile) \cup {Absent}]
                     /\ unacked' \subseteq Node
    BY <1>removed DEF PodRemoved, TypeOK
  <1>deploy. ASSUME NEW n \in Node, ApplyDeployment(n)
             PROVE  /\ deployed' \in [Node -> OriginKey \cup {Absent}]
                    /\ status' \in [Node -> ContainerID \cup {0}]
                    /\ container' \in [Node -> ContainerID \cup {0}]
                    /\ running' \in [Node -> Caddyfile \cup {Absent}]
                    /\ late' \in [Node -> (OriginKey \X Caddyfile) \cup {Absent}]
                    /\ unacked' \subseteq Node
    BY <1>deploy, <1>removed DEF ApplyDeployment, TypeOK
  <1>undeploy. ASSUME NEW n \in Node, DeleteObjects(n)
               PROVE  /\ deployed' \in [Node -> OriginKey \cup {Absent}]
                      /\ status' \in [Node -> ContainerID \cup {0}]
                      /\ container' \in [Node -> ContainerID \cup {0}]
                      /\ running' \in [Node -> Caddyfile \cup {Absent}]
                      /\ late' \in [Node -> (OriginKey \X Caddyfile) \cup {Absent}]
                      /\ unacked' \subseteq Node
    BY <1>undeploy, <1>removed DEF DeleteObjects, TypeOK
  <1>kinds. {"base", "external", "mirror", "label", "crash", "restart", "fault", "late"} \subseteq Disturbance
    BY DEF Disturbance
  <1>start. ASSUME NEW key \in OriginKey, Start(key) PROVE TypeInv'
    BY <1>start
    DEF Start, TypeOK, WorkOK, apiVars, managerVars, workVars, mirrorVars, podVars
  <1>init. CASE InitializeMirror
    BY <1>init, <1>initial, <1>stamp
    DEF InitializeMirror, AggregatorState, Objects, TypeOK, WorkOK, apiVars, managerVars,
        workVars, mirrorVars, podVars
  <1>initfail. CASE InitializeMirrorFails
    BY <1>initfail, <1>initial, <1>stamp, <1>exit, <1>spend, <1>kinds
    DEF InitializeMirrorFails, TypeOK, WorkOK, apiVars, managerVars, workVars, mirrorVars,
        podVars
  <1>crash. CASE Crash
    BY <1>crash, <1>exit, <1>spend, <1>kinds
    DEF Crash, TypeOK, WorkOK, apiVars, managerVars, workVars, mirrorVars, podVars
  <1>run. CASE StartWorkers
    BY <1>run
    DEF StartWorkers, TypeOK, WorkOK, apiVars, managerVars, workVars, mirrorVars, podVars
  <1>base. CASE BaseEvent
    BY <1>base, <1>queue, UpdateBaseType
    DEF BaseEvent, UpdateAggregator, TypeOK, WorkOK, apiVars, managerVars, workVars,
        mirrorVars, podVars
  <1>external. ASSUME NEW s \in Source, ExternalEvent(s) PROVE TypeInv'
    BY <1>external, <1>queue, UpdateExternalType
    DEF ExternalEvent, UpdateAggregator, TypeOK, WorkOK, apiVars, managerVars, workVars,
        mirrorVars, podVars
  <1>mirror. CASE MirrorEvent
    BY <1>mirror, <1>queue
    DEF MirrorEvent, TypeOK, WorkOK, apiVars, managerVars, workVars, mirrorVars, podVars
  <1>node. ASSUME NEW n \in Node, NodeEvent(n) PROVE TypeInv'
    BY <1>node, <1>queue
    DEF NodeEvent, TypeOK, WorkOK, apiVars, managerVars, workVars, mirrorVars, podVars
  <1>informer. CASE InformerResync
    BY <1>informer, <1>queue
    DEF InformerResync, TypeOK, WorkOK, apiVars, managerVars, workVars, mirrorVars, podVars
  <1>resync. CASE ForceConfigResync
    BY <1>resync, <1>queue
    DEF ForceConfigResync, ClearedPushState, TypeOK, WorkOK, apiVars, managerVars,
        workVars, mirrorVars, podVars
  <1>get. ASSUME NEW n \in Node, GetNode(n) PROVE TypeInv'
    BY <1>get, <1>queue
    DEF GetNode, Goto, Works, TypeOK, WorkOK, apiVars, managerVars, workVars, mirrorVars,
        podVars
  <1>apply. ASSUME NEW n \in Node, ApplyCaddy(n) PROVE TypeInv'
    BY <1>apply, <1>queue, <1>deploy
    DEF ApplyCaddy, DeployQueue, ObjectEvent, Goto, Works, TypeOK, WorkOK, apiVars,
        managerVars, workVars, mirrorVars, podVars
  <1>hold. ASSUME NEW n \in Node, HoldRollout(n) PROVE TypeInv'
    BY <1>hold, <1>queue, <1>spend, <1>kinds
    DEF HoldRollout, Goto, Works, TypeOK, WorkOK, apiVars, managerVars, workVars,
        mirrorVars, podVars
  <1>applyfail. ASSUME NEW n \in Node, ApplyCaddyFails(n) PROVE TypeInv'
    <2>1. budget' \in [Disturbance -> Nat]
      BY <1>applyfail, <1>spend, <1>kinds DEF ApplyCaddyFails
    <2>2. work' = [work EXCEPT ![n] = Idle]
      BY <1>applyfail DEF ApplyCaddyFails, Fail
    <2>3. work' \in [Node -> Works] /\ WorkOK'
      BY <2>2, <1>empty DEF TypeOK, WorkOK, Idle
    <2>4. queue' \in QueueOf(Key)
      BY <1>applyfail, <1>queue, <1>added DEF ApplyCaddyFails, Fail, DeployQueue, ObjectEvent
    <2>5. CASE UNCHANGED podVars
      BY <1>applyfail, <2>1, <2>3, <2>4, <2>5
      DEF ApplyCaddyFails, TypeOK, apiVars, managerVars, mirrorVars, podVars
    <2>6. CASE ApplyDeployment(n)
      BY <1>applyfail, <1>deploy, <2>1, <2>3, <2>4, <2>6
      DEF ApplyCaddyFails, TypeOK, apiVars, managerVars, mirrorVars
    <2> QED BY <1>applyfail, <2>5, <2>6 DEF ApplyCaddyFails
  <1>find. ASSUME NEW n \in Node, FindActivePod(n) PROVE TypeInv'
    <2>1. status[n] \in ContainerID \cup {0} /\ work[n] \in Works
      BY DEF TypeOK
    <2>2. work' = [work EXCEPT ![n] = [work[n] EXCEPT !.pc = "merge", !.containerID = status[n]]]
      BY <1>find DEF FindActivePod
    <2>3. [work[n] EXCEPT !.pc = "merge", !.containerID = status[n]] \in Works
      BY <2>1 DEF Works
    <2>4. work' \in [Node -> Works] /\ WorkOK'
      BY <2>2, <2>3, <2>1 DEF TypeOK, WorkOK, Works
    <2> QED BY <1>find, <2>4 DEF FindActivePod, TypeOK, apiVars, managerVars, mirrorVars, podVars
  <1>findfail. ASSUME NEW n \in Node, FindActivePodFails(n) PROVE TypeInv'
    BY <1>findfail, <1>queue, <1>empty, <1>spend, <1>kinds
    DEF FindActivePodFails, Fail, Idle, TypeOK, WorkOK, apiVars, managerVars, workVars,
        mirrorVars, podVars
  <1>nothing. ASSUME NEW n \in Node, NothingToLoad(n) PROVE TypeInv'
    BY <1>nothing, <1>queue, <1>empty
    DEF NothingToLoad, Finish, Idle, TypeOK, WorkOK, apiVars, managerVars, workVars,
        mirrorVars, podVars
  <1>ensure. ASSUME NEW n \in Node, EnsureLoaded(n) PROVE TypeInv'
    <2> DEFINE upToDate == pushUpToDate(n, Merged(agg), work[n].containerID)
               held == [work[n] EXCEPT !.pc = IF upToDate THEN "accept" ELSE "load",
                                       !.snapshot = CurrentMerged(agg)]
    <2>1. CASE ~upToDate /\ work[n].containerID = 0
      <3>1. Finish(n)
        BY <1>ensure, <2>1 DEF EnsureLoaded
      <3> QED
        BY <1>ensure, <3>1, <1>queue, <1>empty
        DEF EnsureLoaded, Finish, Idle, TypeOK, WorkOK, apiVars, managerVars, mirrorVars, podVars
    <2>2. CASE upToDate \/ work[n].containerID # 0
      <3>1. work' = [work EXCEPT ![n] = held] /\ UNCHANGED queue
        BY <1>ensure, <2>2 DEF EnsureLoaded
      <3>2. work[n] \in Works /\ work[n].containerID # 0
        BY <2>2 DEF TypeOK, pushUpToDate
      <3>3. CurrentMerged(agg) \in Snapshots
        BY <1>ensure, MergedType DEF EnsureLoaded, TypeOK
      <3>4. held \in Works /\ held.snapshot \in Snapshots /\ held.containerID \in ContainerID
        BY <3>2, <3>3 DEF Works
      <3>5. work' \in [Node -> Works] /\ WorkOK'
        BY <3>1, <3>4 DEF TypeOK, WorkOK
      <3> QED
        BY <1>ensure, <3>1, <3>5
        DEF EnsureLoaded, TypeOK, apiVars, managerVars, mirrorVars, podVars
    <2> QED BY <2>1, <2>2
  <1>loaded. ASSUME NEW n \in Node, PushLoaded(n) PROVE TypeInv'
    BY <1>loaded, CaddyfileFacts
    DEF PushLoaded, Goto, Pushed, Works, Snapshots, TypeOK, WorkOK, apiVars, managerVars,
        workVars, mirrorVars, podVars
  <1>rejected. ASSUME NEW n \in Node, PushRejected(n) PROVE TypeInv'
    BY <1>rejected, <1>queue, <1>empty
    DEF PushRejected, Finish, Idle, TypeOK, WorkOK, apiVars, managerVars, workVars,
        mirrorVars, podVars
  <1>pushfail. ASSUME NEW n \in Node, PushFails(n) PROVE TypeInv'
    BY <1>pushfail, <1>queue, <1>empty, <1>spend, <1>kinds
    DEF PushFails, Fail, Idle, TypeOK, WorkOK, apiVars, managerVars, workVars, mirrorVars,
        podVars
  <1>timeout. ASSUME NEW n \in Node, PushTimesOut(n) PROVE TypeInv'
    BY <1>timeout, <1>queue, <1>empty, <1>spend, <1>kinds, CaddyfileFacts
    DEF PushTimesOut, Fail, Idle, Pushed, Snapshots, TypeOK, WorkOK, apiVars, managerVars,
        workVars, mirrorVars, podVars
  <1>record. ASSUME NEW n \in Node, RecordPush(n) PROVE TypeInv'
    BY <1>record, CaddyfileFacts
    DEF RecordPush, Goto, Works, PushRecords, Pushed, RecordedContainer, configDigest,
        Snapshots, TypeOK, WorkOK, apiVars, managerVars, workVars, mirrorVars, podVars
  <1>accept. ASSUME NEW n \in Node, AcceptSnapshot(n) PROVE TypeInv'
    BY <1>accept, <1>added, <1>queue, <1>empty, AcceptType
    DEF AcceptSnapshot, Idle, TypeOK, WorkOK, apiVars, managerVars, workVars, mirrorVars,
        podVars
  <1>teardown. ASSUME NEW n \in Node, TeardownNode(n) PROVE TypeInv'
    BY <1>teardown, <1>undeploy, <1>added, <1>queue, <1>empty
    DEF TeardownNode, TeardownQueue, ObjectEvent, Idle, TypeOK, WorkOK, apiVars,
        managerVars, workVars, mirrorVars, podVars
  <1>teardownfail. ASSUME NEW n \in Node, TeardownNodeFails(n) PROVE TypeInv'
    BY <1>teardownfail, <1>undeploy, <1>added, <1>queue, <1>empty, <1>spend, <1>kinds
    DEF TeardownNodeFails, TeardownQueue, ObjectEvent, Fail, Idle, TypeOK, WorkOK,
        apiVars, managerVars, workVars, mirrorVars, podVars
  <1>getmirror. CASE GetMirror
    BY <1>getmirror, <1>queue
    DEF GetMirror, AggregatorState, TypeOK, WorkOK, apiVars, managerVars, workVars,
        mirrorVars, podVars
  <1>publish. CASE PublishMirror
    BY <1>publish, <1>queue, <1>stamp
    DEF PublishMirror, TypeOK, WorkOK, apiVars, managerVars, workVars, mirrorVars, podVars
  <1>publishfail. CASE PublishMirrorFails
    BY <1>publishfail, <1>queue, <1>stamp, <1>spend, <1>kinds
    DEF PublishMirrorFails, TypeOK, WorkOK, apiVars, managerVars, workVars, mirrorVars, podVars
  <1>expire. ASSUME NEW k \in Key, DelayExpires(k) PROVE TypeInv'
    BY <1>expire, <1>queue
    DEF DelayExpires, TypeOK, WorkOK, apiVars, managerVars, workVars, mirrorVars, podVars
  <1>editbase. ASSUME NEW value \in Base \cup {Absent}, EditBase(value) PROVE TypeInv'
    BY <1>editbase, <1>spend, <1>kinds
    DEF EditBase, TypeOK, WorkOK, apiVars, managerVars, workVars, mirrorVars, podVars
  <1>editext. ASSUME NEW s \in Source, NEW value \in Fragment \cup {Absent}, EditExternal(s, value)
              PROVE  TypeInv'
    BY <1>editext, <1>spend, <1>kinds
    DEF EditExternal, TypeOK, WorkOK, apiVars, managerVars, workVars, mirrorVars, podVars
  <1>editmirror. ASSUME NEW data \in Caddyfile \cup {Absent}, EditMirror(data) PROVE TypeInv'
    BY <1>editmirror, <1>spend, <1>kinds
    DEF EditMirror, Mirrors, NoMirror, TypeOK, WorkOK, apiVars, managerVars, workVars,
        mirrorVars, podVars
  <1>relabel. ASSUME NEW n \in Node, RelabelNode(n) PROVE TypeInv'
    BY <1>relabel, <1>spend, <1>kinds
    DEF RelabelNode, TypeOK, WorkOK, apiVars, managerVars, workVars, mirrorVars, podVars
  <1>delete. ASSUME NEW n \in Node, DeleteDeployment(n) PROVE TypeInv'
    BY <1>delete, <1>undeploy, <1>queue, <1>spend, <1>kinds
    DEF DeleteDeployment, ObjectEvent, TypeOK, WorkOK, apiVars, managerVars, workVars,
        mirrorVars, podVars
  <1>starts. ASSUME NEW n \in Node, ContainerStarts(n) PROVE TypeInv'
    BY <1>starts
    DEF ContainerStarts, Mirrors, TypeOK, WorkOK, apiVars, managerVars, workVars,
        mirrorVars, podVars
  <1>exits. ASSUME NEW n \in Node, ContainerExits(n) PROVE TypeInv'
    BY <1>exits, <1>spend, <1>kinds
    DEF ContainerExits, TypeOK, WorkOK, apiVars, managerVars, workVars, mirrorVars, podVars
  <1>status. ASSUME NEW n \in Node, StatusReported(n) PROVE TypeInv'
    BY <1>status, <1>queue
    DEF StatusReported, StartedID, ObjectEvent, TypeOK, WorkOK, apiVars, managerVars,
        workVars, mirrorVars, podVars
  <1>late. ASSUME NEW n \in Node, LateLoad(n) PROVE TypeInv'
    BY <1>late
    DEF LateLoad, TypeOK, WorkOK, apiVars, managerVars, workVars, mirrorVars, podVars
  <1>stutter. CASE UNCHANGED vars
    BY <1>stutter
    DEF vars, TypeOK, WorkOK, apiVars, managerVars, workVars, mirrorVars, podVars
  <1> QED
    BY <1>start, <1>init, <1>initfail, <1>crash, <1>run, <1>base, <1>external,
       <1>mirror, <1>node, <1>informer, <1>resync, <1>get, <1>apply, <1>hold,
       <1>applyfail, <1>find, <1>findfail, <1>nothing, <1>ensure, <1>loaded,
       <1>rejected, <1>pushfail, <1>timeout, <1>record, <1>accept, <1>teardown,
       <1>teardownfail, <1>getmirror, <1>publish, <1>publishfail, <1>expire,
       <1>editbase, <1>editext, <1>editmirror, <1>relabel, <1>delete, <1>starts,
       <1>exits, <1>status, <1>late, <1>stutter
    DEF Next, Manager, WorkerStep, Environment

\* TypeOK holds in every reachable state.
THEOREM TypeCorrect == Spec => []TypeOK
  <1>1. Init => TypeInv
    BY TypeInit
  <1>2. TypeInv /\ [Next]_vars => TypeInv'
    BY TypeStep
  <1>3. TypeInv => TypeOK
    BY DEF TypeInv
  <1> QED BY <1>1, <1>2, <1>3, PTL DEF Spec

---------------------------------------------------------------------------
(* The queue hands a key to one worker at a time. *)

\* A worker that is busy with a node holds the node's key.
BusyOK == \A n \in Node : work[n].pc # "idle" => n \in queue.processing

MutexInv == TypeInv /\ BusyOK

\* How the operations change the set of keys the workers hold.
LEMMA QueueProcessing ==
    ASSUME NEW q \in QueueOf(Key), NEW k \in Key
    PROVE  /\ \A S \in SUBSET Key : Add(q, S).processing = q.processing
           /\ AddAfter(q, k).processing = q.processing
           /\ Expire(q, k).processing = q.processing
           /\ Get(q, k).processing = q.processing \cup {k}
           /\ Done(q, k).processing = q.processing \ {k}
           /\ Retry(q, k).processing = q.processing \ {k}
  BY DEF QueueOf, Add, AddAfter, Expire, Get, Done, Retry

LEMMA MutexInit == Init => MutexInv
  BY TypeInit DEF Init, MutexInv, BusyOK, Idle

\* Every step keeps a busy worker's key in the set of keys that are held.
LEMMA MutexStep == MutexInv /\ [Next]_vars => MutexInv'
  <1> SUFFICES ASSUME MutexInv, [Next]_vars PROVE BusyOK'
    BY TypeStep DEF MutexInv
  <1> TypeOK /\ BusyOK /\ MirrorKey \in Key /\ Node \subseteq Key /\ MirrorKey \notin Node
    BY ConfigSyncAssumption DEF MutexInv, TypeInv, Key
  <1>added. \A S \in SUBSET Key, k \in Key :
              /\ Add(queue, S) \in QueueOf(Key)
              /\ Add(queue, S).processing = queue.processing
              /\ Done(Add(queue, S), k).processing = queue.processing \ {k}
              /\ Retry(Add(queue, S), k).processing = queue.processing \ {k}
    <2> TAKE S \in SUBSET Key, k \in Key
    <2>1. Add(queue, S) \in QueueOf(Key) /\ Add(queue, S).processing = queue.processing
      BY QueueType, QueueProcessing DEF TypeOK
    <2> QED BY <2>1, QueueProcessing
  <1>ops. \A k \in Key : /\ AddAfter(queue, k).processing = queue.processing
                         /\ Expire(queue, k).processing = queue.processing
                         /\ Get(queue, k).processing = queue.processing \cup {k}
                         /\ Done(queue, k).processing = queue.processing \ {k}
                         /\ Retry(queue, k).processing = queue.processing \ {k}
    BY QueueProcessing DEF TypeOK
  <1>keeps. ASSUME UNCHANGED work, queue.processing \ {MirrorKey} \subseteq queue'.processing
            PROVE  BusyOK'
    BY <1>keeps DEF BusyOK
  <1>moves. ASSUME NEW n \in Node, work[n].pc # "idle",
                   queue'.processing = queue.processing,
                   \A m \in Node \ {n} : work'[m].pc = work[m].pc
            PROVE  BusyOK'
    BY <1>moves DEF BusyOK
  <1>ends. ASSUME NEW n \in Node, work' = [work EXCEPT ![n] = Idle],
                  queue.processing \ {n} \subseteq queue'.processing
           PROVE  BusyOK'
    BY <1>ends DEF BusyOK, Idle, TypeOK
  <1>still. ASSUME UNCHANGED <<queue, work>> PROVE BusyOK'
    BY <1>still DEF BusyOK
  <1>exits. ASSUME ProcessExits PROVE BusyOK'
    BY <1>exits DEF ProcessExits, BusyOK, Idle
  <1>quiet. ASSUME \/ \E key \in OriginKey : Start(key)
                   \/ InitializeMirror \/ StartWorkers \/ UNCHANGED vars
                   \/ \E value \in Base \cup {Absent} : EditBase(value)
                   \/ \E s \in Source, value \in Fragment \cup {Absent} : EditExternal(s, value)
                   \/ \E data \in Caddyfile \cup {Absent} : EditMirror(data)
                   \/ \E n \in Node : \/ RelabelNode(n) \/ ContainerStarts(n)
                                      \/ ContainerExits(n) \/ LateLoad(n)
            PROVE  BusyOK'
    BY <1>quiet, <1>still
    DEF Start, InitializeMirror, StartWorkers, EditBase, EditExternal, EditMirror, RelabelNode,
        ContainerStarts, ContainerExits, LateLoad, vars, workVars
  <1>down. CASE InitializeMirrorFails \/ Crash
    BY <1>down, <1>exits DEF InitializeMirrorFails, Crash
  <1>base. ASSUME BaseEvent PROVE BusyOK'
    BY <1>base, <1>keeps, <1>added
    DEF BaseEvent, UpdateAggregator, TypeOK
  <1>external. ASSUME NEW s \in Source, ExternalEvent(s) PROVE BusyOK'
    BY <1>external, <1>keeps, <1>added
    DEF ExternalEvent, UpdateAggregator, TypeOK
  <1>mirror. ASSUME MirrorEvent PROVE BusyOK'
    BY <1>mirror, <1>keeps, <1>added
    DEF MirrorEvent
  <1>informer. ASSUME InformerResync PROVE BusyOK'
    BY <1>informer, <1>keeps, <1>added
    DEF InformerResync, TypeOK
  <1>resync. ASSUME ForceConfigResync PROVE BusyOK'
    BY <1>resync, <1>keeps, <1>added
    DEF ForceConfigResync, TypeOK
  <1>node. ASSUME NEW n \in Node, NodeEvent(n) PROVE BusyOK'
    BY <1>node, <1>keeps, <1>added
    DEF NodeEvent
  <1>status. ASSUME NEW n \in Node, StatusReported(n) PROVE BusyOK'
    BY <1>status, <1>keeps, <1>added
    DEF StatusReported, ObjectEvent
  <1>delete. ASSUME NEW n \in Node, DeleteDeployment(n) PROVE BusyOK'
    BY <1>delete, <1>keeps, <1>added
    DEF DeleteDeployment, ObjectEvent
  <1>getmirror. ASSUME GetMirror PROVE BusyOK'
    BY <1>getmirror, <1>keeps, <1>ops
    DEF GetMirror
  <1>publish. ASSUME PublishMirror \/ PublishMirrorFails PROVE BusyOK'
    BY <1>publish, <1>keeps, <1>ops
    DEF PublishMirror, PublishMirrorFails
  <1>expire. ASSUME NEW k \in Key, DelayExpires(k) PROVE BusyOK'
    BY <1>expire, <1>keeps, <1>ops
    DEF DelayExpires
  <1>get. ASSUME NEW n \in Node, GetNode(n) PROVE BusyOK'
    BY <1>get, <1>ops
    DEF GetNode, Goto, BusyOK, TypeOK
  <1>apply. ASSUME NEW n \in Node, ApplyCaddy(n) PROVE BusyOK'
    BY <1>apply, <1>moves, <1>added
    DEF ApplyCaddy, DeployQueue, ObjectEvent, Goto, TypeOK
  <1>hold. ASSUME NEW n \in Node, HoldRollout(n) PROVE BusyOK'
    BY <1>hold, <1>moves, <1>ops
    DEF HoldRollout, Goto, TypeOK
  <1>find. ASSUME NEW n \in Node, FindActivePod(n) PROVE BusyOK'
    BY <1>find, <1>moves
    DEF FindActivePod, TypeOK
  <1>loaded. ASSUME NEW n \in Node, PushLoaded(n) PROVE BusyOK'
    BY <1>loaded, <1>moves
    DEF PushLoaded, Goto, TypeOK
  <1>record. ASSUME NEW n \in Node, RecordPush(n) PROVE BusyOK'
    BY <1>record, <1>moves
    DEF RecordPush, Goto, TypeOK
  <1>ensure. ASSUME NEW n \in Node, EnsureLoaded(n) PROVE BusyOK'
    <2>1. CASE Finish(n)
      BY <2>1, <1>ends, <1>ops DEF Finish
    <2>2. CASE UNCHANGED queue /\ \E x : work' = [work EXCEPT ![n] = x]
      BY <1>ensure, <2>2, <1>moves DEF EnsureLoaded, TypeOK
    <2>3. \/ Finish(n)
          \/ UNCHANGED queue /\ \E x : work' = [work EXCEPT ![n] = x]
      <3> DEFINE upToDate == pushUpToDate(n, Merged(agg), work[n].containerID)
      <3>1. CASE ~upToDate /\ work[n].containerID = 0
        BY <1>ensure, <3>1 DEF EnsureLoaded
      <3>2. CASE ~(~upToDate /\ work[n].containerID = 0)
        <4>1. work' = [work EXCEPT ![n] = [work[n] EXCEPT !.pc = IF upToDate THEN "accept" ELSE "load",
                                                       !.snapshot = CurrentMerged(agg)]]
          BY <1>ensure, <3>2 DEF EnsureLoaded
        <4>2. UNCHANGED queue
          BY <1>ensure, <3>2 DEF EnsureLoaded
        <4> QED BY <4>1, <4>2
      <3> QED BY <3>1, <3>2
    <2> QED BY <2>1, <2>2, <2>3
  <1>fails. ASSUME NEW n \in Node, FindActivePodFails(n) \/ PushFails(n) \/ PushTimesOut(n) PROVE BusyOK'
    BY <1>fails, <1>ends, <1>ops
    DEF FindActivePodFails, PushFails, PushTimesOut, Fail
  <1>finish. ASSUME NEW n \in Node, NothingToLoad(n) \/ PushRejected(n) PROVE BusyOK'
    BY <1>finish, <1>ends, <1>ops
    DEF NothingToLoad, PushRejected, Finish
  <1>applyfail. ASSUME NEW n \in Node, ApplyCaddyFails(n) PROVE BusyOK'
    BY <1>applyfail, <1>ends, <1>ops, <1>added
    DEF ApplyCaddyFails, DeployQueue, ObjectEvent, Fail
  <1>accept. ASSUME NEW n \in Node, AcceptSnapshot(n) PROVE BusyOK'
    <2>1. queue' = Done(queue, n) \/ queue' = Done(Add(queue, {MirrorKey}), n)
      BY <1>accept DEF AcceptSnapshot
    <2>2. queue'.processing = queue.processing \ {n}
      BY <2>1, <1>ops, <1>added
    <2> QED BY <1>accept, <2>2, <1>ends DEF AcceptSnapshot
  <1>teardown. ASSUME NEW n \in Node, TeardownNode(n) PROVE BusyOK'
    <2>1. queue' = Done(queue, n) \/ queue' = Done(Add(queue, {n}), n)
      BY <1>teardown DEF TeardownNode, TeardownQueue, ObjectEvent
    <2>2. queue'.processing = queue.processing \ {n}
      BY <2>1, <1>ops, <1>added
    <2> QED BY <1>teardown, <2>2, <1>ends DEF TeardownNode
  <1>teardownfail. ASSUME NEW n \in Node, TeardownNodeFails(n) PROVE BusyOK'
    BY <1>teardownfail, <1>ends, <1>ops, <1>added
    DEF TeardownNodeFails, TeardownQueue, ObjectEvent, Fail
  <1> QED
    BY <1>quiet, <1>down, <1>base, <1>external, <1>mirror, <1>informer, <1>resync,
       <1>node, <1>status, <1>delete, <1>getmirror, <1>publish, <1>expire, <1>get,
       <1>apply, <1>hold, <1>find, <1>loaded, <1>record, <1>ensure, <1>fails, <1>finish,
       <1>applyfail, <1>accept, <1>teardown, <1>teardownfail
    DEF Next, Manager, WorkerStep, Environment

---------------------------------------------------------------------------
(* Push records.  PushRecordTruthful alone is not inductive: between the   *)
(* push and the record the container may be replaced, so the invariant     *)
(* also follows the ID a worker carries.  It rests on one fact about IDs:  *)
(* once a container's ID was seen in the pod's status, the status shows    *)
(* that ID or none for as long as the container runs.                      *)

\* The recorded ID, 0 if there is no record.
RecordedID(n) == IF pushState[n] = Absent THEN 0 ELSE pushState[n].containerID

\* What a worker or a record knows about the running container of n.
ContainerKnown(n) ==
    container[n] # 0 =>
        /\ container[n] \in {RecordedID(n), work[n].containerID} => status[n] \in {0, container[n]}
        /\ RecordedID(n) = container[n] /\ work[n].pc \in {"merge", "load", "record"}
             => work[n].containerID \in {0, container[n]}
        /\ work[n].pc = "record" /\ work[n].containerID = container[n] /\ n \notin unacked
             => running[n] = Pushed(n)
        /\ RecordedID(n) = container[n] /\ work[n].pc # "record" /\ n \notin unacked
             => running[n] = pushState[n].digest

PushInv == MutexInv /\ \A n \in Node : ContainerKnown(n)

\* A step that leaves all of this alone for n leaves ContainerKnown(n) alone.
SameContainer(n) ==
    /\ work'[n] = work[n] /\ pushState'[n] = pushState[n]
    /\ container'[n] = container[n] /\ status'[n] = status[n] /\ running'[n] = running[n]
    /\ (n \in unacked') = (n \in unacked)

LEMMA SameContainerKnown ==
    ASSUME NEW n \in Node, ContainerKnown(n), SameContainer(n)
    PROVE  ContainerKnown(n)'
  BY DEF ContainerKnown, SameContainer, RecordedID, Pushed

\* Without a container there is nothing to know.
LEMMA NoContainerKnown ==
    ASSUME NEW n \in Node, container'[n] = 0
    PROVE  ContainerKnown(n)'
  BY DEF ContainerKnown

LEMMA PushInit == Init => PushInv
  <1> SUFFICES ASSUME Init PROVE PushInv
    OBVIOUS
  <1>1. \A n \in Node : ContainerKnown(n)
    BY DEF Init, ContainerKnown
  <1> QED BY <1>1, MutexInit DEF PushInv

\* Every step keeps the push records truthful.
LEMMA PushStep == PushInv /\ [Next]_vars => PushInv'
  <1> SUFFICES ASSUME PushInv, [Next]_vars, NEW n \in Node PROVE ContainerKnown(n)'
    BY MutexStep DEF PushInv
  <1> TypeOK /\ WorkOK /\ BusyOK /\ ContainerKnown(n)
    BY DEF PushInv, MutexInv, TypeInv
  <1> 0 \notin ContainerID
    BY ConfigSyncAssumption
  <1>idle. ASSUME UNCHANGED <<work, pushState, container, status, running, unacked>>
           PROVE  ContainerKnown(n)'
    BY <1>idle, SameContainerKnown DEF SameContainer
  <1>exit. ASSUME ProcessExits, UNCHANGED podVars
           PROVE  ContainerKnown(n)'
    BY <1>exit DEF ProcessExits, podVars, ContainerKnown, RecordedID, Idle
  <1>manager. ASSUME \/ \E key \in OriginKey : Start(key)
                     \/ InitializeMirror \/ StartWorkers \/ BaseEvent \/ MirrorEvent \/ InformerResync
                     \/ \E s \in Source : ExternalEvent(s)
                     \/ \E m \in Node : NodeEvent(m)
                     \/ GetMirror \/ PublishMirror \/ PublishMirrorFails
                     \/ \E k \in Key : DelayExpires(k)
                     \/ UNCHANGED vars
              PROVE  ContainerKnown(n)'
    BY <1>manager, <1>idle
    DEF Start, InitializeMirror, StartWorkers, BaseEvent, MirrorEvent, InformerResync,
        ExternalEvent, NodeEvent, GetMirror, PublishMirror, PublishMirrorFails, DelayExpires,
        vars, workVars, podVars
  <1>users. ASSUME \/ \E value \in Base \cup {Absent} : EditBase(value)
                   \/ \E s \in Source, value \in Fragment \cup {Absent} : EditExternal(s, value)
                   \/ \E data \in Caddyfile \cup {Absent} : EditMirror(data)
                   \/ \E m \in Node : RelabelNode(m)
            PROVE  ContainerKnown(n)'
    BY <1>users, <1>idle DEF EditBase, EditExternal, EditMirror, RelabelNode, workVars, podVars
  <1>down. CASE InitializeMirrorFails \/ Crash
    BY <1>down, <1>exit DEF InitializeMirrorFails, Crash
  <1>resync. CASE ForceConfigResync
    BY <1>resync DEF ForceConfigResync, ClearedPushState, ContainerKnown, RecordedID, podVars, TypeOK, Pushed
  <1>gone. ASSUME NEW m \in Node, PodRemoved(m), UNCHANGED pushState, work'[n] = work[n] \/ m = n
           PROVE  ContainerKnown(n)'
    <2>1. CASE m = n
      BY <1>gone, <2>1, NoContainerKnown DEF PodRemoved, TypeOK
    <2>2. CASE m # n
      BY <1>gone, <2>2, SameContainerKnown DEF PodRemoved, SameContainer, TypeOK
    <2> QED BY <2>1, <2>2
  <1>moved. ASSUME NEW m \in Node, UNCHANGED <<pushState, container, status, running, unacked>>,
                   work'[n] = work[n] \/ m = n,
                   work'[m].pc \notin {"merge", "load", "record"},
                   work[m].pc # "record",
                   work'[m].containerID \in {0, work[m].containerID}
            PROVE  ContainerKnown(n)'
    <2>1. CASE m = n
      BY <1>moved, <2>1 DEF ContainerKnown, RecordedID
    <2>2. CASE m # n
      BY <1>moved, <2>2, SameContainerKnown DEF SameContainer
    <2> QED BY <2>1, <2>2
  <1>get. ASSUME NEW m \in Node, GetNode(m) PROVE ContainerKnown(n)'
    BY <1>get, <1>moved
    DEF GetNode, Goto, podVars, TypeOK, Works, BusyOK, Ready
  <1>hold. ASSUME NEW m \in Node, HoldRollout(m) PROVE ContainerKnown(n)'
    BY <1>hold, <1>moved
    DEF HoldRollout, Goto, podVars, TypeOK, Works
  <1>findfail. ASSUME NEW m \in Node, FindActivePodFails(m) PROVE ContainerKnown(n)'
    BY <1>findfail, <1>moved
    DEF FindActivePodFails, Fail, Idle, podVars, TypeOK, Works
  <1>nothing. ASSUME NEW m \in Node, NothingToLoad(m) PROVE ContainerKnown(n)'
    BY <1>nothing, <1>moved
    DEF NothingToLoad, Finish, Idle, podVars, TypeOK, Works
  <1>rejected. ASSUME NEW m \in Node, PushRejected(m) PROVE ContainerKnown(n)'
    BY <1>rejected, <1>moved
    DEF PushRejected, Finish, Idle, podVars, TypeOK, Works
  <1>pushfail. ASSUME NEW m \in Node, PushFails(m) PROVE ContainerKnown(n)'
    BY <1>pushfail, <1>moved
    DEF PushFails, Fail, Idle, podVars, TypeOK, Works
  <1>timeout. ASSUME NEW m \in Node, PushTimesOut(m) PROVE ContainerKnown(n)'
    BY <1>timeout, <1>moved
    DEF PushTimesOut, Fail, Idle, podVars, TypeOK, Works
  <1>accept. ASSUME NEW m \in Node, AcceptSnapshot(m) PROVE ContainerKnown(n)'
    BY <1>accept, <1>moved
    DEF AcceptSnapshot, Idle, podVars, TypeOK, Works
  <1>apply. ASSUME NEW m \in Node, ApplyCaddy(m) PROVE ContainerKnown(n)'
    BY <1>apply, <1>moved, <1>gone
    DEF ApplyCaddy, ApplyDeployment, Goto, TypeOK, Works
  <1>applyfail. ASSUME NEW m \in Node, ApplyCaddyFails(m) PROVE ContainerKnown(n)'
    BY <1>applyfail, <1>moved, <1>gone
    DEF ApplyCaddyFails, ApplyDeployment, Fail, Idle, podVars, TypeOK, Works
  <1>teardownfail. ASSUME NEW m \in Node, TeardownNodeFails(m) PROVE ContainerKnown(n)'
    BY <1>teardownfail, <1>moved, <1>gone
    DEF TeardownNodeFails, DeleteObjects, Fail, Idle, podVars, TypeOK, Works
  <1>teardown. ASSUME NEW m \in Node, TeardownNode(m) PROVE ContainerKnown(n)'
    BY <1>teardown, NoContainerKnown, SameContainerKnown
    DEF TeardownNode, DeleteObjects, PodRemoved, SameContainer, TypeOK
  <1>delete. ASSUME NEW m \in Node, DeleteDeployment(m) PROVE ContainerKnown(n)'
    BY <1>delete, <1>gone
    DEF DeleteDeployment, DeleteObjects
  <1>find. ASSUME NEW m \in Node, FindActivePod(m) PROVE ContainerKnown(n)'
    BY <1>find, SameContainerKnown
    DEF FindActivePod, SameContainer, ContainerKnown, RecordedID, Pushed, TypeOK, WorkOK,
        Works, workVars, podVars
  <1>ensure. ASSUME NEW m \in Node, EnsureLoaded(m) PROVE ContainerKnown(n)'
    BY <1>ensure, SameContainerKnown
    DEF EnsureLoaded, Finish, Idle, SameContainer, ContainerKnown, RecordedID, Pushed,
        TypeOK, WorkOK, Works, workVars, podVars
  <1>loaded. ASSUME NEW m \in Node, PushLoaded(m) PROVE ContainerKnown(n)'
    BY <1>loaded, SameContainerKnown
    DEF PushLoaded, Goto, SameContainer, ContainerKnown, RecordedID, Pushed, TypeOK, WorkOK,
        Works, workVars, podVars
  <1>record. ASSUME NEW m \in Node, RecordPush(m) PROVE ContainerKnown(n)'
    BY <1>record, SameContainerKnown
    DEF RecordPush, Goto, RecordedContainer, configDigest, PushRecords, SameContainer,
        ContainerKnown, RecordedID, Pushed, TypeOK, WorkOK, Works, workVars, podVars
  <1>starts. ASSUME NEW m \in Node, ContainerStarts(m) PROVE ContainerKnown(n)'
    BY <1>starts, SameContainerKnown
    DEF ContainerStarts, UsedIDs, SameContainer, ContainerKnown, RecordedID, Pushed, TypeOK,
        WorkOK, Works, workVars, podVars
  <1>exits. ASSUME NEW m \in Node, ContainerExits(m) PROVE ContainerKnown(n)'
    BY <1>exits, NoContainerKnown, SameContainerKnown
    DEF ContainerExits, SameContainer, TypeOK, workVars
  <1>status. ASSUME NEW m \in Node, StatusReported(m) PROVE ContainerKnown(n)'
    BY <1>status, SameContainerKnown
    DEF StatusReported, StartedID, SameContainer, ContainerKnown, RecordedID, Pushed,
        TypeOK, WorkOK, Works, workVars, podVars
  <1>late. ASSUME NEW m \in Node, LateLoad(m) PROVE ContainerKnown(n)'
    BY <1>late, SameContainerKnown
    DEF LateLoad, SameContainer, ContainerKnown, RecordedID, Pushed, TypeOK, WorkOK, Works,
        workVars, podVars
  <1> QED
    BY <1>manager, <1>users, <1>down, <1>resync, <1>get, <1>hold, <1>findfail, <1>nothing,
       <1>rejected, <1>pushfail, <1>timeout, <1>accept, <1>apply, <1>applyfail,
       <1>teardownfail, <1>teardown, <1>delete, <1>find, <1>ensure, <1>loaded, <1>record,
       <1>starts, <1>exits, <1>status, <1>late
    DEF Next, Manager, WorkerStep, Environment

\* Whatever restarts, status updates and lost replies come between reading a
\* container's ID, pushing to it and recording the push, a record about the
\* container that runs names what that container runs.
THEOREM PushRecordsTruthful == Spec => []PushRecordTruthful
  <1>1. Init => PushInv
    BY PushInit
  <1>2. PushInv /\ [Next]_vars => PushInv'
    BY PushStep
  <1>3. PushInv => PushRecordTruthful
    <2> SUFFICES ASSUME PushInv, NEW n \in Node,
                        pushState[n] # Absent, pushState[n].containerID = container[n],
                        work[n].pc # "record", n \notin unacked
                 PROVE  running[n] = pushState[n].digest
      BY DEF PushRecordTruthful
    <2>1. container[n] # 0
      BY ConfigSyncAssumption DEF PushInv, MutexInv, TypeInv, TypeOK, PushRecords
    <2> QED BY <2>1 DEF PushInv, ContainerKnown, RecordedID
  <1> QED BY <1>1, <1>2, <1>3, PTL DEF Spec

---------------------------------------------------------------------------
(* The boot snapshot.  What is proven about the mirror has to be known of  *)
(* everything on its way there: the accepted snapshot, the one being       *)
(* published, the records that let a push be skipped and the snapshots the *)
(* workers hold after a push.  The stamp is proven for every Caddyfile it  *)
(* covers, not just for the one beside it, since an edit of the ConfigMap  *)
(* may put that Caddyfile back.                                            *)

Proven(key, c) == c = BootstrapCaddyfile(key) \/ <<key, c>> \in loaded

\* A process that is not past InitializeMirror holds no snapshot.
StoppedOK ==
    phase \in {"down", "init"} =>
        /\ agg.accepted = Absent /\ publishing = Absent
        /\ \A n \in Node : pushState[n] = Absent /\ work[n] = Idle

StampProven ==
    \A key \in OriginKey, c \in Caddyfile : mirror.stamp = snapshotHash(key, c) => Proven(key, c)

HeldProven ==
    /\ agg.accepted # Absent => Proven(originKey, agg.accepted)
    /\ publishing # Absent => Proven(originKey, publishing)
    /\ \A n \in Node :
         /\ pushState[n] # Absent => <<originKey, pushState[n].digest>> \in loaded
         /\ work[n].pc \in {"record", "accept"} => <<originKey, Pushed(n)>> \in loaded

\* Everything Caddy loaded or may still load passed checkAdminReachable.
LoadedChecked ==
    /\ \A load \in loaded : checkAdminReachable(load[2], load[1])
    /\ \A n \in Node : late[n] # Absent => checkAdminReachable(late[n][2], late[n][1])

BootInv == MutexInv /\ StoppedOK /\ StampProven /\ HeldProven /\ LoadedChecked

BootParts == StoppedOK /\ StampProven /\ HeldProven /\ LoadedChecked

\* A step that takes no snapshot any further.
BootFrame ==
    /\ UNCHANGED <<mirror, originKey, loaded, publishing, phase>>
    /\ agg'.accepted = agg.accepted
    /\ \A n \in Node :
         /\ \/ work'[n] = work[n]
            \/ phase \notin {"down", "init"} /\ work'[n].pc \notin {"record", "accept"}
         /\ pushState'[n] \in {pushState[n], Absent}
         /\ late'[n] \in {late[n], Absent}

LEMMA BootFrameKeeps ==
    ASSUME BootParts, BootFrame PROVE BootParts'
  <1>1. StoppedOK'
    BY DEF BootParts, BootFrame, StoppedOK, Idle
  <1>2. StampProven'
    BY DEF BootParts, BootFrame, StampProven, Proven
  <1>3. HeldProven'
    BY DEF BootParts, BootFrame, HeldProven, Proven, Pushed
  <1>4. LoadedChecked'
    BY DEF BootParts, BootFrame, LoadedChecked
  <1> QED BY <1>1, <1>2, <1>3, <1>4 DEF BootParts

\* The events change the configuration, not the accepted snapshot.
LEMMA UpdateKeepsAccepted ==
    ASSUME NEW a \in AggregatorState
    PROVE  /\ \A base \in Base : UpdateBase(a, base).accepted = a.accepted
           /\ \A s \in Source : /\ RemoveExternal(a, s).accepted = a.accepted
                                /\ \A f \in Fragment : SetExternal(a, s, f).accepted = a.accepted
  BY DEF UpdateBase, RemoveExternal, SetExternal, update, AggregatorState

\* A ConfigMap without the annotation is stamped for nothing.
LEMMA StampPresent ==
    ASSUME NEW key \in OriginKey, NEW c \in Caddyfile
    PROVE  snapshotHash(key, c) # Absent
  <1>1. snapshotHash(key, c) \in OriginKey \X Caddyfile
    BY DEF snapshotHash
  <1> QED BY <1>1, AggregatorAssumption

LEMMA BootInit == Init => BootInv
  <1> SUFFICES ASSUME Init PROVE BootInv
    OBVIOUS
  <1>1. StoppedOK /\ HeldProven /\ LoadedChecked
    BY DEF Init, StoppedOK, HeldProven, LoadedChecked, New, Idle
  <1>2. StampProven
    BY StampPresent DEF Init, StampProven, NoMirror
  <1> QED BY <1>1, <1>2, MutexInit DEF BootInv

\* Every step keeps the snapshots proven.
LEMMA BootStep == BootInv /\ [Next]_vars => BootInv'
  <1> SUFFICES ASSUME BootInv, [Next]_vars PROVE BootParts'
    BY MutexStep DEF BootInv, BootParts
  <1> TypeOK /\ WorkOK /\ BusyOK /\ BootParts
    BY DEF BootInv, BootParts, MutexInv, TypeInv
  <1>busy. \A n \in Node : work[n].pc # "idle" => phase \notin {"down", "init"}
    BY DEF BootParts, StoppedOK, Idle
  <1>initial. Proven(originKey, initialSnapshot) /\ initialSnapshot \in Caddyfile
    BY CaddyfileFacts DEF initialSnapshot, IsStamped, TypeOK, Mirrors, BootParts, StampProven, Proven
  <1>stamped. ASSUME NEW c \in Caddyfile, Proven(originKey, c), loaded' = loaded,
                     mirror' = Stamped(originKey, c)
              PROVE  StampProven'
    BY <1>stamped DEF StampProven, Stamped, snapshotHash, Proven
  <1>same. ASSUME UNCHANGED <<mirror, loaded>> PROVE StampProven'
    BY <1>same DEF BootParts, StampProven, Proven
  <1>checked. ASSUME UNCHANGED <<loaded, late>> PROVE LoadedChecked'
    BY <1>checked DEF BootParts, LoadedChecked
  <1>exit. ASSUME ProcessExits PROVE StoppedOK' /\ HeldProven'
    BY <1>exit DEF ProcessExits, StoppedOK, HeldProven, New, Idle
  <1>start. ASSUME NEW key \in OriginKey, Start(key) PROVE BootParts'
    <2>1. StoppedOK' /\ HeldProven'
      BY <1>start DEF Start, BootParts, StoppedOK, HeldProven, Idle, workVars, mirrorVars
    <2> QED BY <1>start, <2>1, <1>same, <1>checked DEF Start, BootParts, mirrorVars, podVars
  <1>init. CASE InitializeMirror
    <2>1. StampProven'
      BY <1>init, <1>initial, <1>stamped DEF InitializeMirror
    <2>2. StoppedOK'
      BY <1>init DEF InitializeMirror, StoppedOK
    <2>3. agg'.accepted = initialSnapshot
      BY <1>init DEF InitializeMirror, TypeOK, AggregatorState
    <2>4. HeldProven'
      BY <1>init, <1>initial, <2>3
      DEF InitializeMirror, BootParts, StoppedOK, HeldProven, Proven, Idle, workVars
    <2> QED BY <1>init, <2>1, <2>2, <2>4, <1>checked DEF InitializeMirror, BootParts, podVars
  <1>initfail. CASE InitializeMirrorFails
    <2>1. StampProven'
      BY <1>initfail, <1>initial, <1>stamped, <1>same DEF InitializeMirrorFails
    <2> QED BY <1>initfail, <2>1, <1>exit, <1>checked DEF InitializeMirrorFails, BootParts, podVars
  <1>crash. CASE Crash
    BY <1>crash, <1>exit, <1>same, <1>checked DEF Crash, BootParts, podVars
  <1>run. CASE StartWorkers
    <2>1. StoppedOK' /\ HeldProven'
      BY <1>run DEF StartWorkers, BootParts, StoppedOK, HeldProven, Proven, Pushed,
                    managerVars, workVars, mirrorVars
    <2> QED BY <1>run, <2>1, <1>same, <1>checked DEF StartWorkers, BootParts, mirrorVars, podVars
  <1>base. ASSUME BaseEvent PROVE BootParts'
    BY <1>base, BootFrameKeeps, UpdateKeepsAccepted
    DEF BootFrame, BaseEvent, UpdateAggregator, TypeOK, mirrorVars, podVars
  <1>external. ASSUME NEW s \in Source, ExternalEvent(s) PROVE BootParts'
    BY <1>external, BootFrameKeeps, UpdateKeepsAccepted
    DEF BootFrame, ExternalEvent, UpdateAggregator, TypeOK, mirrorVars, podVars
  <1>events. ASSUME MirrorEvent \/ InformerResync \/ \E n \in Node : NodeEvent(n) PROVE BootParts'
    BY <1>events, BootFrameKeeps
    DEF BootFrame, MirrorEvent, InformerResync, NodeEvent, managerVars, workVars,
        mirrorVars, podVars
  <1>timers. ASSUME (\E k \in Key : DelayExpires(k)) \/ UNCHANGED vars PROVE BootParts'
    BY <1>timers, BootFrameKeeps
    DEF BootFrame, DelayExpires, vars, managerVars, workVars, mirrorVars, podVars
  <1>resync. ASSUME ForceConfigResync PROVE BootParts'
    BY <1>resync, BootFrameKeeps
    DEF BootFrame, ForceConfigResync, ClearedPushState, managerVars, workVars, mirrorVars,
        podVars
  <1>users. ASSUME \/ \E value \in Base \cup {Absent} : EditBase(value)
                   \/ \E n \in Node : RelabelNode(n)
                   \/ \E s \in Source, value \in Fragment \cup {Absent} : EditExternal(s, value)
            PROVE  BootParts'
    BY <1>users, BootFrameKeeps
    DEF BootFrame, EditBase, EditExternal, RelabelNode, managerVars, workVars, mirrorVars,
        podVars
  <1>get. ASSUME NEW n \in Node, GetNode(n) PROVE BootParts'
    BY <1>get, BootFrameKeeps
    DEF BootFrame, GetNode, HasFreeWorker, Goto, TypeOK, managerVars, workVars, mirrorVars,
        podVars
  <1>apply. ASSUME NEW n \in Node, ApplyCaddy(n) PROVE BootParts'
    BY <1>apply, BootFrameKeeps, <1>busy
    DEF BootFrame, ApplyCaddy, ApplyDeployment, PodRemoved, Goto, TypeOK, managerVars,
        mirrorVars
  <1>hold. ASSUME NEW n \in Node, HoldRollout(n) PROVE BootParts'
    BY <1>hold, BootFrameKeeps, <1>busy
    DEF BootFrame, HoldRollout, Goto, TypeOK, managerVars, workVars, mirrorVars, podVars
  <1>applyfail. ASSUME NEW n \in Node, ApplyCaddyFails(n) PROVE BootParts'
    BY <1>applyfail, BootFrameKeeps, <1>busy
    DEF BootFrame, ApplyCaddyFails, ApplyDeployment, PodRemoved, Fail, Idle, TypeOK,
        managerVars, workVars, mirrorVars, podVars
  <1>find. ASSUME NEW n \in Node, FindActivePod(n) PROVE BootParts'
    BY <1>find, BootFrameKeeps, <1>busy
    DEF BootFrame, FindActivePod, TypeOK, Works, managerVars, workVars, mirrorVars, podVars
  <1>ends. ASSUME NEW n \in Node,
                  FindActivePodFails(n) \/ NothingToLoad(n) \/ PushRejected(n) \/ PushFails(n)
           PROVE  BootParts'
    BY <1>ends, BootFrameKeeps, <1>busy
    DEF BootFrame, FindActivePodFails, NothingToLoad, PushRejected, PushFails, Finish, Fail,
        Idle, TypeOK, managerVars, workVars, mirrorVars, podVars
  <1>teardown. ASSUME NEW n \in Node, TeardownNode(n) PROVE BootParts'
    BY <1>teardown, BootFrameKeeps, <1>busy
    DEF BootFrame, TeardownNode, DeleteObjects, PodRemoved, Idle, TypeOK, managerVars,
        mirrorVars
  <1>teardownfail. ASSUME NEW n \in Node, TeardownNodeFails(n) PROVE BootParts'
    BY <1>teardownfail, BootFrameKeeps, <1>busy
    DEF BootFrame, TeardownNodeFails, DeleteObjects, PodRemoved, Fail, Idle, TypeOK,
        managerVars, workVars, mirrorVars, podVars
  <1>delete. ASSUME NEW n \in Node, DeleteDeployment(n) PROVE BootParts'
    BY <1>delete, BootFrameKeeps
    DEF BootFrame, DeleteDeployment, DeleteObjects, PodRemoved, TypeOK, managerVars,
        workVars, mirrorVars, podVars
  <1>kubelet. ASSUME NEW n \in Node, ContainerStarts(n) \/ ContainerExits(n) \/ StatusReported(n)
              PROVE  BootParts'
    BY <1>kubelet, BootFrameKeeps
    DEF BootFrame, ContainerStarts, ContainerExits, StatusReported, TypeOK, managerVars,
        workVars, mirrorVars, podVars
  <1>editmirror. ASSUME NEW data \in Caddyfile \cup {Absent}, EditMirror(data) PROVE BootParts'
    <2>1. mirror'.stamp \in {mirror.stamp, Absent}
      BY <1>editmirror DEF EditMirror, NoMirror, TypeOK, Mirrors
    <2>2. StampProven'
      BY <1>editmirror, <2>1, StampPresent DEF EditMirror, BootParts, StampProven, Proven
    <2>3. StoppedOK' /\ HeldProven'
      BY <1>editmirror DEF EditMirror, BootParts, StoppedOK, HeldProven, Proven, Pushed,
                           managerVars, workVars
    <2> QED BY <1>editmirror, <2>2, <2>3, <1>checked DEF EditMirror, BootParts, podVars
  <1>ensure. ASSUME NEW n \in Node, EnsureLoaded(n) PROVE BootParts'
    <2> DEFINE upToDate == pushUpToDate(n, Merged(agg), work[n].containerID)
               held == [work[n] EXCEPT !.pc = IF upToDate THEN "accept" ELSE "load",
                                       !.snapshot = CurrentMerged(agg)]
    <2>0. phase \notin {"down", "init"} /\ work[n].pc = "merge"
      BY <1>ensure, <1>busy DEF EnsureLoaded
    <2>1. CASE ~upToDate /\ work[n].containerID = 0
      <3>1. work' = [work EXCEPT ![n] = Idle]
        BY <1>ensure, <2>1 DEF EnsureLoaded, Finish
      <3>2. BootFrame
        BY <1>ensure, <2>0, <3>1
        DEF EnsureLoaded, BootFrame, Idle, TypeOK, managerVars, mirrorVars, podVars
      <3> QED BY <3>2, BootFrameKeeps
    <2>2. CASE ~(~upToDate /\ work[n].containerID = 0)
      <3>1. work' = [work EXCEPT ![n] = held]
        BY <1>ensure, <2>2 DEF EnsureLoaded
      <3>2. work' \in [Node -> Works] /\ work[n] \in Works
        BY TypeStep DEF BootInv, MutexInv, TypeInv, TypeOK
      <3>3. CASE ~upToDate
        <4>1. held.pc = "load"
          BY <3>2, <3>3 DEF Works
        <4>2. BootFrame
          BY <1>ensure, <2>0, <3>1, <4>1
          DEF EnsureLoaded, BootFrame, TypeOK, managerVars, mirrorVars, podVars
        <4> QED BY <4>2, BootFrameKeeps
      <3>4. CASE upToDate
        <4>1. held.snapshot.caddyfile = Merged(agg)
          BY <3>2 DEF Works, CurrentMerged
        <4>2. <<originKey, Merged(agg)>> \in loaded
          <5>1. pushState[n].digest = Merged(agg)
            BY <3>4 DEF pushUpToDate, configDigest
          <5>2. pushState[n] # Absent
            BY <3>4 DEF pushUpToDate
          <5> QED BY <5>1, <5>2 DEF BootParts, HeldProven
        <4>3. HeldProven'
          <5>1. UNCHANGED <<originKey, agg, publishing, pushState, loaded>>
            BY <1>ensure DEF EnsureLoaded, managerVars, mirrorVars
          <5>2. \A m \in Node : m # n => work'[m] = work[m]
            BY <3>1
          <5>3. Pushed(n)' = Merged(agg)
            BY <3>1, <4>1 DEF Pushed, TypeOK
          <5>4. ASSUME NEW m \in Node, work'[m].pc \in {"record", "accept"}
                PROVE  <<originKey, Pushed(m)'>> \in loaded
            <6>1. CASE m = n
              BY <4>2, <5>3, <6>1
            <6>2. CASE m # n
              BY <5>2, <5>4, <6>2 DEF BootParts, HeldProven, Pushed
            <6> QED BY <6>1, <6>2
          <5> QED BY <5>1, <5>4 DEF BootParts, HeldProven, Proven
        <4>4. StoppedOK'
          BY <1>ensure, <2>0 DEF EnsureLoaded, StoppedOK
        <4> QED
          BY <1>ensure, <4>3, <4>4, <1>same, <1>checked
          DEF EnsureLoaded, BootParts, mirrorVars, podVars
      <3> QED BY <3>3, <3>4
    <2> QED BY <2>1, <2>2
  <1>loaded. ASSUME NEW n \in Node, PushLoaded(n) PROVE BootParts'
    <2>1. loaded' = loaded \cup {<<originKey, Pushed(n)>>} /\ checkAdminReachable(Pushed(n), originKey)
      BY <1>loaded DEF PushLoaded, IsAccepted, LoadAccepted
    <2>2. LoadedChecked'
      BY <1>loaded, <2>1 DEF PushLoaded, BootParts, LoadedChecked, TypeOK
    <2>3. StampProven'
      BY <1>loaded, <2>1 DEF PushLoaded, BootParts, StampProven, Proven, mirrorVars
    <2>4. \A m \in Node : /\ work'[m].snapshot = work[m].snapshot
                          /\ m # n => work'[m] = work[m]
      BY <1>loaded DEF PushLoaded, Goto, TypeOK, Works
    <2>5. HeldProven'
      BY <1>loaded, <2>1, <2>4
      DEF PushLoaded, BootParts, HeldProven, Proven, Pushed, managerVars, mirrorVars
    <2>6. StoppedOK'
      BY <1>loaded, <1>busy DEF PushLoaded, StoppedOK
    <2> QED BY <2>2, <2>3, <2>5, <2>6 DEF BootParts
  <1>timeout. ASSUME NEW n \in Node, PushTimesOut(n) PROVE BootParts'
    <2>1. checkAdminReachable(Pushed(n), originKey)
      BY <1>timeout DEF PushTimesOut, IsAccepted, LoadAccepted
    <2>2. LoadedChecked'
      BY <1>timeout, <2>1 DEF PushTimesOut, BootParts, LoadedChecked, TypeOK
    <2>3. StoppedOK'
      BY <1>timeout, <1>busy DEF PushTimesOut, StoppedOK
    <2>4. HeldProven'
      BY <1>timeout
      DEF PushTimesOut, Fail, Idle, BootParts, HeldProven, Proven, Pushed, TypeOK,
          managerVars, mirrorVars
    <2> QED BY <1>timeout, <2>2, <2>3, <2>4, <1>same DEF PushTimesOut, BootParts, mirrorVars
  <1>record. ASSUME NEW n \in Node, RecordPush(n) PROVE BootParts'
    <2>1. pushState'[n].digest = Pushed(n) /\ \A m \in Node \ {n} : pushState'[m] = pushState[m]
      BY <1>record DEF RecordPush, configDigest, TypeOK
    <2>2. \A m \in Node : /\ work'[m].snapshot = work[m].snapshot
                          /\ m # n => work'[m] = work[m]
      BY <1>record DEF RecordPush, Goto, TypeOK, Works
    <2>3. HeldProven'
      <3>1. UNCHANGED <<originKey, agg, publishing, loaded>> /\ <<originKey, Pushed(n)>> \in loaded
        BY <1>record DEF RecordPush, BootParts, HeldProven, managerVars, mirrorVars
      <3>2. \A m \in Node : Pushed(m)' = Pushed(m)
        BY <2>2 DEF Pushed
      <3>3. ASSUME NEW m \in Node, work'[m].pc \in {"record", "accept"}
            PROVE  <<originKey, Pushed(m)'>> \in loaded
        <4>1. CASE m = n
          BY <3>1, <3>2, <4>1
        <4>2. CASE m # n
          BY <2>2, <3>2, <3>3, <4>2 DEF BootParts, HeldProven
        <4> QED BY <4>1, <4>2
      <3>4. ASSUME NEW m \in Node, pushState'[m] # Absent
            PROVE  <<originKey, pushState'[m].digest>> \in loaded
        BY <2>1, <3>1, <3>4 DEF BootParts, HeldProven
      <3> QED BY <3>1, <3>3, <3>4 DEF BootParts, HeldProven, Proven
    <2>4. StoppedOK'
      BY <1>record, <1>busy DEF RecordPush, StoppedOK
    <2> QED BY <1>record, <2>3, <2>4, <1>same, <1>checked DEF RecordPush, BootParts, mirrorVars, podVars
  <1>accept. ASSUME NEW n \in Node, AcceptSnapshot(n) PROVE BootParts'
    <2>1. agg'.accepted \in {agg.accepted, Pushed(n)}
      BY <1>accept DEF AcceptSnapshot, Accept, Pushed, TypeOK, AggregatorState
    <2>2. <<originKey, Pushed(n)>> \in loaded
      BY <1>accept DEF AcceptSnapshot, BootParts, HeldProven
    <2>3. HeldProven'
      BY <1>accept, <2>1, <2>2
      DEF AcceptSnapshot, Idle, BootParts, HeldProven, Proven, Pushed, TypeOK, mirrorVars
    <2>4. StoppedOK'
      BY <1>accept, <1>busy DEF AcceptSnapshot, StoppedOK
    <2> QED BY <1>accept, <2>3, <2>4, <1>same, <1>checked DEF AcceptSnapshot, BootParts, mirrorVars, podVars
  <1>getmirror. CASE GetMirror
    <2>1. HeldProven'
      BY <1>getmirror DEF GetMirror, BootParts, HeldProven, Proven, Pushed, managerVars
    <2>2. StoppedOK'
      BY <1>getmirror DEF GetMirror, HasFreeWorker, StoppedOK
    <2> QED BY <1>getmirror, <2>1, <2>2, <1>same, <1>checked DEF GetMirror, BootParts, podVars
  <1>publish. CASE PublishMirror \/ PublishMirrorFails
    <2>1. publishing \in Caddyfile /\ Proven(originKey, publishing)
      BY <1>publish DEF PublishMirror, PublishMirrorFails, TypeOK, BootParts, HeldProven
    <2>2. StampProven'
      BY <1>publish, <2>1, <1>stamped, <1>same DEF PublishMirror, PublishMirrorFails
    <2>3. HeldProven' /\ StoppedOK'
      BY <1>publish
      DEF PublishMirror, PublishMirrorFails, BootParts, HeldProven, StoppedOK, Proven, Pushed,
          managerVars
    <2> QED BY <1>publish, <2>2, <2>3, <1>checked DEF PublishMirror, PublishMirrorFails, BootParts, podVars
  <1>late. ASSUME NEW n \in Node, LateLoad(n) PROVE BootParts'
    <2>1. loaded' = loaded \cup {late[n]} /\ checkAdminReachable(late[n][2], late[n][1])
      BY <1>late DEF LateLoad, BootParts, LoadedChecked
    <2>2. LoadedChecked'
      BY <1>late, <2>1 DEF LateLoad, BootParts, LoadedChecked, TypeOK
    <2>3. StampProven' /\ HeldProven' /\ StoppedOK'
      BY <1>late, <2>1
      DEF LateLoad, BootParts, StampProven, HeldProven, StoppedOK, Proven, Pushed,
          managerVars, workVars, mirrorVars
    <2> QED BY <2>2, <2>3 DEF BootParts
  <1> QED
    BY <1>start, <1>init, <1>initfail, <1>crash, <1>run, <1>base, <1>external, <1>events,
       <1>timers, <1>resync, <1>users, <1>get, <1>apply, <1>hold, <1>applyfail, <1>find,
       <1>ends, <1>teardown, <1>teardownfail, <1>delete, <1>kubelet, <1>editmirror,
       <1>ensure, <1>loaded, <1>timeout, <1>record, <1>accept, <1>getmirror, <1>publish,
       <1>late
    DEF Next, Manager, WorkerStep, Environment

\* A stamped boot snapshot is the bootstrap Caddyfile of its origin key, or a
\* running Caddy loaded it under that key.
THEOREM BootSnapshotsProven == Spec => []BootSnapshotProven
  <1>1. Init => BootInv
    BY BootInit
  <1>2. BootInv /\ [Next]_vars => BootInv'
    BY BootStep
  <1>3. BootInv => BootSnapshotProven
    BY DEF BootInv, MutexInv, TypeInv, TypeOK, Mirrors, StampProven, Proven,
           BootSnapshotProven, IsStamped
  <1> QED BY <1>1, <1>2, <1>3, PTL DEF Spec

\* A container that boots from a stamped snapshot answers the manager that
\* stamped it: the manager cannot lock itself out through the boot ConfigMap.
THEOREM BootSnapshotsAnswer == Spec => []BootSnapshotAnswers
  <1>1. Init => BootInv
    BY BootInit
  <1>2. BootInv /\ [Next]_vars => BootInv'
    BY BootStep
  <1>3. BootInv => BootSnapshotAnswers
    <2> SUFFICES ASSUME BootInv, NEW key \in OriginKey, IsStamped(mirror, key)
                 PROVE  Answers(mirror.data, key)
      BY DEF BootSnapshotAnswers
    <2>1. mirror.data \in Caddyfile /\ Proven(key, mirror.data)
      BY DEF BootInv, MutexInv, TypeInv, TypeOK, Mirrors, StampProven, IsStamped
    <2>2. CASE mirror.data = BootstrapCaddyfile(key)
      BY <2>2, BootstrapAnswers
    <2>3. CASE <<key, mirror.data>> \in loaded
      <3>1. checkAdminReachable(mirror.data, key)
        BY <2>3 DEF BootInv, LoadedChecked
      <3> QED BY <3>1, <2>1, CheckedAnswers
    <2> QED BY <2>1, <2>2, <2>3 DEF Proven
  <1> QED BY <1>1, <1>2, <1>3, PTL DEF Spec

---------------------------------------------------------------------------
(* The accepted revision. *)

\* No method of the aggregator but New lowers the accepted revision.
LEMMA RevisionKept ==
    ASSUME NEW a \in AggregatorState
    PROVE  /\ \A base \in Base : UpdateBase(a, base).acceptedRevision = a.acceptedRevision
           /\ \A s \in Source :
                /\ RemoveExternal(a, s).acceptedRevision = a.acceptedRevision
                /\ \A f \in Fragment : SetExternal(a, s, f).acceptedRevision = a.acceptedRevision
           /\ \A snapshot \in Snapshots : Accept(a, snapshot).acceptedRevision >= a.acceptedRevision
  <1>1. \A base \in Base : UpdateBase(a, base).acceptedRevision = a.acceptedRevision
    BY DEF UpdateBase, update, AggregatorState
  <1>2. \A s \in Source :
          /\ RemoveExternal(a, s).acceptedRevision = a.acceptedRevision
          /\ \A f \in Fragment : SetExternal(a, s, f).acceptedRevision = a.acceptedRevision
    BY DEF RemoveExternal, SetExternal, update, AggregatorState
  <1>3. \A snapshot \in Snapshots : Accept(a, snapshot).acceptedRevision >= a.acceptedRevision
    BY DEF Accept, Accepts, AggregatorState, Snapshots
  <1> QED BY <1>1, <1>2, <1>3

\* One step of a live process never lowers the accepted revision.
LEMMA AcceptedStep ==
    TypeInv /\ [Next]_vars /\ phase' # "down" => agg'.acceptedRevision >= agg.acceptedRevision
  <1> SUFFICES ASSUME TypeInv, [Next]_vars, phase' # "down"
               PROVE  agg'.acceptedRevision >= agg.acceptedRevision
    OBVIOUS
  <1>type. agg \in AggregatorState /\ agg.acceptedRevision \in Nat
    BY DEF TypeInv, TypeOK, AggregatorState
  <1>same. ASSUME UNCHANGED agg PROVE agg'.acceptedRevision >= agg.acceptedRevision
    BY <1>type, <1>same
  <1>init. CASE InitializeMirror
    BY <1>type, <1>init DEF InitializeMirror, AggregatorState
  <1>exits. CASE InitializeMirrorFails \/ Crash
    BY <1>exits DEF InitializeMirrorFails, Crash, ProcessExits
  <1>base. CASE BaseEvent
    BY <1>type, <1>base, RevisionKept DEF BaseEvent, UpdateAggregator, TypeInv, TypeOK
  <1>external. ASSUME NEW s \in Source, ExternalEvent(s)
               PROVE  agg'.acceptedRevision >= agg.acceptedRevision
    BY <1>type, <1>external, RevisionKept DEF ExternalEvent, UpdateAggregator, TypeInv, TypeOK
  <1>accept. ASSUME NEW n \in Node, AcceptSnapshot(n)
             PROVE  agg'.acceptedRevision >= agg.acceptedRevision
    BY <1>type, <1>accept, RevisionKept DEF AcceptSnapshot, TypeInv, WorkOK
  <1>worker. ASSUME NEW n \in Node, WorkerStep(n), ~AcceptSnapshot(n)
             PROVE  agg'.acceptedRevision >= agg.acceptedRevision
    BY <1>worker, <1>same
    DEF WorkerStep, ApplyCaddy, HoldRollout, ApplyCaddyFails, FindActivePod,
        FindActivePodFails, NothingToLoad, EnsureLoaded, PushLoaded, PushRejected, PushFails,
        PushTimesOut, RecordPush, TeardownNode, TeardownNodeFails, managerVars
  <1>manager. ASSUME \/ \E key \in OriginKey : Start(key)
                     \/ StartWorkers \/ MirrorEvent \/ InformerResync \/ ForceConfigResync
                     \/ \E n \in Node : NodeEvent(n) \/ GetNode(n)
                     \/ GetMirror \/ PublishMirror \/ PublishMirrorFails
                     \/ \E k \in Key : DelayExpires(k)
              PROVE  agg'.acceptedRevision >= agg.acceptedRevision
    BY <1>manager, <1>same
    DEF Start, StartWorkers, MirrorEvent, InformerResync, ForceConfigResync, NodeEvent,
        GetNode, GetMirror, PublishMirror, PublishMirrorFails, DelayExpires, managerVars
  <1>environment. ASSUME Environment PROVE agg'.acceptedRevision >= agg.acceptedRevision
    BY <1>environment, <1>same
    DEF Environment, EditBase, EditExternal, EditMirror, RelabelNode, DeleteDeployment,
        ContainerStarts, ContainerExits, StatusReported, LateLoad, managerVars
  <1>stutter. CASE UNCHANGED vars
    BY <1>stutter, <1>same DEF vars, managerVars
  <1> QED
    BY <1>init, <1>exits, <1>base, <1>external, <1>accept, <1>worker, <1>manager,
       <1>environment, <1>stutter
    DEF Next, Manager

\* However the workers' results are interleaved, a live process never replaces
\* the accepted snapshot by one of an older revision.
THEOREM AcceptedMonotonic == Spec => AcceptedNeverRegresses
  <1>1. Init => TypeInv
    BY TypeInit
  <1>2. TypeInv /\ [Next]_vars => TypeInv'
    BY TypeStep
  <1>3. TypeInv /\ [Next]_vars =>
          [phase' # "down" => agg'.acceptedRevision >= agg.acceptedRevision]_vars
    BY AcceptedStep
  <1> QED BY <1>1, <1>2, <1>3, PTL DEF Spec, AcceptedNeverRegresses
===========================================================================
