--------------------------- MODULE RolloutProofs ---------------------------
(***************************************************************************)
(* Proofs about Rollout for every set of nodes, every set of templates,    *)
(* any number of workers and any number of disturbances.                   *)
(***************************************************************************)
EXTENDS Rollout, TLAPS

---------------------------------------------------------------------------
(* Type correctness. *)

\* Every operation of the work queue yields a queue over the same keys.
LEMMA QueueType ==
    ASSUME NEW q \in QueueOf(Node), NEW n \in Node
    PROVE  /\ \A S \in SUBSET Node : Add(q, S) \in QueueOf(Node)
           /\ Get(q, n) \in QueueOf(Node)
           /\ Done(q, n) \in QueueOf(Node)
           /\ AddAfter(q, n) \in QueueOf(Node)
           /\ Retry(q, n) \in QueueOf(Node)
           /\ Expire(q, n) \in QueueOf(Node)
  BY DEF QueueOf, Add, Get, Done, AddAfter, Retry, Expire

\* A restarted manager has every node on its queue.
LEMMA StartQueueType == StartQueue \in QueueOf(Node)
  BY DEF StartQueue, EmptyQueue, Add, QueueOf

\* A worker without a key has nothing in its locals.
LEMMA IdleType == Idle \in Works
  BY DEF Idle, Works, Places

\* What syncRollout may do first, and after the pre-pull call.
LEMMA CallType ==
    ASSUME NEW n \in Node
    PROVE  /\ AfterPrePull(n) \in {"apply", "held", "lock"}
           /\ PrePullCall(n) \in {"create", "delete", AfterPrePull(n)}
  <1>1. AfterPrePull(n) \in {"apply", "held", "lock"}
    BY DEF AfterPrePull
  <1>2. PrePullCall(n) \in {"create", "delete", AfterPrePull(n)}
    BY Zenon DEF PrePullCall
  <1> QED BY <1>1, <1>2

\* The template of a Deployment is a template.
LEMMA AppliedType ==
    ASSUME TypeOK, NEW n \in Node
    PROVE  AppliedTemplate(n) \in Template \cup {Absent}
  BY DEF TypeOK, AppliedTemplate, Deployments

\* ApplyDeployment yields Deployments, of which only n's changes, and only to
\* the target; a changed template is not rolled out.
LEMMA ApplyFacts ==
    ASSUME TypeOK, NEW n \in Node, ApplyDeployment(n)
    PROVE  /\ deployment' \in [Node -> Deployments \cup {Absent}]
           /\ \A m \in Node \ {n} : deployment'[m] = deployment[m]
           /\ deployment'[n] # Absent
           /\ deployment'[n].template = target
           /\ AppliedTemplate(n) = target => deployment'[n] = deployment[n]
           /\ AppliedTemplate(n) # target => ~isRolledOut(deployment'[n])
  <1> DEFINE new == IF deployment[n] = Absent
                    THEN [template |-> target, observed |-> FALSE, complete |-> FALSE]
                    ELSE IF deployment[n].template = target THEN deployment[n]
                    ELSE [deployment[n] EXCEPT !.template = target, !.observed = FALSE]
  <1>1. deployment[n] \in Deployments \cup {Absent} /\ target \in Template
    BY DEF TypeOK
  <1>2. new \in Deployments
    BY <1>1 DEF Deployments
  <1>3. deployment' = [deployment EXCEPT ![n] = new]
    BY DEF ApplyDeployment
  <1>4. deployment'[n] = new /\ \A m \in Node \ {n} : deployment'[m] = deployment[m]
    BY <1>3 DEF TypeOK
  <1>5. new.template = target /\ (AppliedTemplate(n) = target => new = deployment[n])
    BY <1>1, RolloutAssumption DEF Deployments, AppliedTemplate
  <1>6. AppliedTemplate(n) # target => ~isRolledOut(new)
    BY <1>1 DEF Deployments, AppliedTemplate, isRolledOut
  <1> QED BY <1>2, <1>3, <1>4, <1>5, <1>6, RolloutAssumption DEF TypeOK

\* The Deployment controller changes the status of one Deployment; a disrupted
\* node stays one until its pod is available.
LEMMA StatusFacts ==
    ASSUME TypeOK, NEW n \in Node, DeploymentObserved(n) \/ PodAvailable(n) \/ PodUnavailable(n)
    PROVE  /\ \A m \in Node \ {n} : deployment'[m] = deployment[m]
           /\ deployment[n] # Absent /\ deployment'[n] # Absent
           /\ deployment'[n].template = deployment[n].template
           /\ n \in disrupted' => ~deployment'[n].complete
  <1>1. deployment[n] \in Deployments /\ deployment[n] # Absent
    BY DEF DeploymentObserved, PodAvailable, PodUnavailable, TypeOK
  <1>2. /\ \A m \in Node \ {n} : deployment'[m] = deployment[m]
        /\ deployment'[n] \in Deployments /\ deployment'[n].template = deployment[n].template
        /\ n \in disrupted' => ~deployment'[n].complete
    <2>1. CASE DeploymentObserved(n)
      BY <2>1, <1>1 DEF DeploymentObserved, TypeOK, Deployments
    <2>2. CASE PodAvailable(n)
      BY <2>2, <1>1 DEF PodAvailable, TypeOK, Deployments
    <2>3. CASE PodUnavailable(n)
      BY <2>3, <1>1 DEF PodUnavailable, TypeOK, Deployments
    <2> QED BY <2>1, <2>2, <2>3
  <1> QED BY <1>1, <1>2, RolloutAssumption

\* A manager starts with the right types.
LEMMA TypeInit == Init => TypeOK
  <1> SUFFICES ASSUME Init PROVE TypeOK
    OBVIOUS
  <1>1. deployment \in [Node -> Deployments \cup {Absent}]
    BY DEF Init, Deployments
  <1>2. deploySeen \in [Node -> Template \cup {Absent}]
    BY <1>1 DEF Init, AppliedTemplate, Deployments
  <1>3. images \subseteq Node \X Image
    <2> SUFFICES ASSUME NEW n \in Node, deployment[n] # Absent
                 PROVE  <<n, ImageOf(AppliedTemplate(n))>> \in Node \X Image
      BY DEF Init
    <2>1. AppliedTemplate(n) \in Template
      BY <1>1 DEF AppliedTemplate, Deployments
    <2> QED BY <2>1 DEF Image
  <1> QED
    BY <1>1, <1>2, <1>3, StartQueueType, IdleType, RolloutAssumption DEF Init, TypeOK

\* Every step keeps the types.
LEMMA TypeStep == TypeOK /\ [Next]_vars => TypeOK'
  <1> SUFFICES ASSUME TypeOK, [Next]_vars PROVE TypeOK'
    OBVIOUS
  <1> USE QueueType, IdleType
  <1>kinds. {"restart", "node", "fault"} \subseteq Disturbance
    BY DEF Disturbance
  <1>spend. ASSUME NEW kind \in Disturbance, Spend(kind) PROVE budget' \in [Disturbance -> Nat]
    BY <1>spend DEF Spend, TypeOK
  <1>idle. ASSUME NEW n \in Node PROVE [work EXCEPT ![n] = Idle] \in [Node -> Works]
    BY DEF TypeOK
  <1>pods. ASSUME NEW n \in Node, PodCreated(n) \/ PodDeleted(n)
           PROVE  prePull' \in [Node -> PrePullPods \cup {Absent}] /\ aged' \subseteq Node
    <2>1. [image |-> ImageOf(target), phase |-> "pulling"] \in PrePullPods
      BY DEF TypeOK, PrePullPods, Image
    <2> QED BY <1>pods, <2>1 DEF PodCreated, PodDeleted, TypeOK
  <1>disrupt. ASSUME NEW n \in Node, NEW was, Disrupt(n, was) PROVE disrupted' \subseteq Node
    BY <1>disrupt DEF Disrupt, TypeOK
  <1>get. ASSUME NEW n \in Node, GetNode(n) PROVE TypeOK'
    <2>1. [Idle EXCEPT !.pc = PrePullCall(n), !.next = AfterPrePull(n)] \in Works
      BY CallType DEF Idle, Works, Places
    <2>2. work' \in [Node -> Works]
      BY <1>get, <2>1 DEF GetNode, TypeOK
    <2> QED BY <1>get, <2>2 DEF GetNode, TypeOK, clusterVars, cacheVars
  <1>prepull. ASSUME NEW n \in Node, SyncPrePullPod(n) PROVE TypeOK'
    <2>1. work' \in [Node -> Works]
      BY <1>prepull DEF SyncPrePullPod, TypeOK, Works
    <2> QED BY <1>prepull, <2>1, <1>pods DEF SyncPrePullPod, TypeOK, cacheVars
  <1>prepullfails. ASSUME NEW n \in Node, SyncPrePullPodFails(n) PROVE TypeOK'
    <2>1. prePull' \in [Node -> PrePullPods \cup {Absent}] /\ aged' \subseteq Node
      BY <1>prepullfails, <1>pods DEF SyncPrePullPodFails, TypeOK
    <2> QED
      BY <1>prepullfails, <2>1, <1>spend, <1>kinds, <1>idle
      DEF SyncPrePullPodFails, Fail, TypeOK, cacheVars
  <1>held. ASSUME NEW n \in Node, HoldOutOfService(n) PROVE TypeOK'
    BY <1>held, <1>idle DEF HoldOutOfService, Finish, TypeOK, clusterVars, cacheVars
  <1>unlocked. ASSUME NEW n \in Node, ApplyUnlocked(n) PROVE TypeOK'
    BY <1>unlocked, <1>idle, <1>disrupt, ApplyFacts DEF ApplyUnlocked, Finish, TypeOK, cacheVars
  <1>unlockedfails. ASSUME NEW n \in Node, ApplyUnlockedFails(n) PROVE TypeOK'
    <2>1. deployment' \in [Node -> Deployments \cup {Absent}] /\ disrupted' \subseteq Node
      BY <1>unlockedfails, <1>disrupt, ApplyFacts DEF ApplyUnlockedFails, TypeOK
    <2> QED
      BY <1>unlockedfails, <2>1, <1>idle, <1>spend, <1>kinds
      DEF ApplyUnlockedFails, Fail, TypeOK, cacheVars
  <1>lock. ASSUME NEW n \in Node, LockRollout(n) PROVE TypeOK'
    <2>1. work' \in [Node -> Works]
      BY <1>lock DEF LockRollout, TypeOK, Works, Places
    <2> QED BY <1>lock, <2>1 DEF LockRollout, TypeOK, clusterVars, cacheVars
  <1>hold. ASSUME NEW n \in Node, HoldRollout(n) PROVE TypeOK'
    <2>1. Done(AddAfter(queue, n), n) \in QueueOf(Node)
      BY DEF TypeOK
    <2> QED BY <1>hold, <2>1, <1>idle DEF HoldRollout, Unlock, TypeOK, clusterVars, cacheVars
  <1>admit. ASSUME NEW n \in Node, AdmitRollout(n) PROVE TypeOK'
    <2>1. isAvailable(n) \in BOOLEAN
      BY DEF isAvailable, isRolledOut, TypeOK, Deployments
    <2>2. work' \in [Node -> Works]
      BY <1>admit, <2>1 DEF AdmitRollout, TypeOK, Works, Places
    <2> QED BY <1>admit, <2>2 DEF AdmitRollout, TypeOK, clusterVars, cacheVars
  <1>listfails. ASSUME NEW n \in Node, ListRolloutsFails(n) PROVE TypeOK'
    BY <1>listfails, <1>idle, <1>spend, <1>kinds
    DEF ListRolloutsFails, Unlock, Fail, TypeOK, clusterVars, cacheVars
  <1>rollout. ASSUME NEW n \in Node, RollOut(n) PROVE TypeOK'
    BY <1>rollout, <1>idle, <1>disrupt, ApplyFacts DEF RollOut, Unlock, Finish, TypeOK, cacheVars
  <1>rolloutfails. ASSUME NEW n \in Node, RollOutFails(n) PROVE TypeOK'
    <2>1. deployment' \in [Node -> Deployments \cup {Absent}] /\ disrupted' \subseteq Node
      BY <1>rolloutfails, <1>disrupt, ApplyFacts DEF RollOutFails, TypeOK
    <2> QED
      BY <1>rolloutfails, <2>1, <1>idle, <1>spend, <1>kinds
      DEF RollOutFails, Unlock, Fail, TypeOK, cacheVars
  <1>expire. ASSUME NEW n \in Node, DelayExpires(n) PROVE TypeOK'
    BY <1>expire DEF DelayExpires, TypeOK, clusterVars, cacheVars
  <1>resync. ASSUME InformerResync PROVE TypeOK'
    <2>1. Add(queue, Node) \in QueueOf(Node)
      BY DEF TypeOK, Add, QueueOf
    <2> QED BY <1>resync, <2>1 DEF InformerResync, TypeOK, clusterVars, cacheVars
  <1>restart. ASSUME NEW t \in Template, Restart(t) PROVE TypeOK'
    <2>1. deploySeen' \in [Node -> Template \cup {Absent}]
      BY <1>restart, AppliedType DEF Restart
    <2> QED
      BY <1>restart, <2>1, StartQueueType, <1>spend, <1>kinds
      DEF Restart, Unlock, TypeOK, clusterVars
  <1>depevent. ASSUME NEW n \in Node, DeploymentEvent(n) PROVE TypeOK'
    BY <1>depevent, AppliedType DEF DeploymentEvent, TypeOK, clusterVars
  <1>podevent. ASSUME NEW n \in Node, PrePullEvent(n) PROVE TypeOK'
    BY <1>podevent DEF PrePullEvent, TypeOK, clusterVars
  <1>nodeevent. ASSUME NEW n \in Node, NodeEvent(n) PROVE TypeOK'
    BY <1>nodeevent, <1>spend, <1>kinds DEF NodeEvent, TypeOK
  <1>observed. ASSUME NEW n \in Node, DeploymentObserved(n) PROVE TypeOK'
    BY <1>observed DEF DeploymentObserved, TypeOK, Deployments, cacheVars
  <1>available. ASSUME NEW n \in Node, PodAvailable(n) PROVE TypeOK'
    <2>1. deployment' \in [Node -> Deployments \cup {Absent}]
      BY <1>available DEF PodAvailable, TypeOK, Deployments
    <2>2. images' \subseteq Node \X Image
      BY <1>available DEF PodAvailable, TypeOK, Deployments, Image
    <2> QED BY <1>available, <2>1, <2>2 DEF PodAvailable, TypeOK, cacheVars
  <1>unavailable. ASSUME NEW n \in Node, PodUnavailable(n) PROVE TypeOK'
    <2>1. deployment' \in [Node -> Deployments \cup {Absent}]
      BY <1>unavailable DEF PodUnavailable, TypeOK, Deployments
    <2> QED BY <1>unavailable, <2>1, <1>spend, <1>kinds DEF PodUnavailable, TypeOK, cacheVars
  <1>pulled. ASSUME NEW n \in Node, ImagePulled(n) PROVE TypeOK'
    <2>1. prePull' \in [Node -> PrePullPods \cup {Absent}]
      BY <1>pulled DEF ImagePulled, TypeOK, PrePullPods
    <2>2. prePull[n].image \in Image
      BY <1>pulled DEF ImagePulled, TypeOK, PrePullPods
    <2>3. images' \subseteq Node \X Image
      BY <1>pulled, <2>2 DEF ImagePulled, TypeOK
    <2> QED BY <1>pulled, <2>1, <2>3 DEF ImagePulled, TypeOK, cacheVars, workerVars
  <1>pullfails. ASSUME NEW n \in Node, PrePullFails(n) PROVE TypeOK'
    <2>1. prePull' \in [Node -> PrePullPods \cup {Absent}]
      BY <1>pullfails DEF PrePullFails, TypeOK, PrePullPods
    <2> QED
      BY <1>pullfails, <2>1, <1>spend, <1>kinds DEF PrePullFails, TypeOK, cacheVars, workerVars
  <1>ages. ASSUME NEW n \in Node, PrePullAges(n) PROVE TypeOK'
    BY <1>ages DEF PrePullAges, TypeOK, cacheVars, workerVars
  <1>stutter. CASE UNCHANGED vars
    BY <1>stutter DEF vars, clusterVars, cacheVars, workerVars, TypeOK
  <1> QED
    BY <1>get, <1>prepull, <1>prepullfails, <1>held, <1>unlocked, <1>unlockedfails, <1>lock,
       <1>hold, <1>admit, <1>listfails, <1>rollout, <1>rolloutfails, <1>expire, <1>resync,
       <1>restart, <1>depevent, <1>podevent, <1>nodeevent, <1>observed, <1>available,
       <1>unavailable, <1>pulled, <1>pullfails, <1>ages, <1>stutter
    DEF Next, Manager, WorkerStep, Cluster

---------------------------------------------------------------------------
(* One node at a time.  OneAtATime is not inductive: that the next node to  *)
(* be taken is the only one follows from what its worker found several      *)
(* steps earlier, and stays true because the worker holds the lock and no   *)
(* other worker changes a template without it.                              *)

\* Only the holder of rolloutMu is in its critical section.
LockOK == \A n \in Node : work[n].pc \in {"list", "rollout"} => rolloutMu = n

\* After the pre-pull call comes one of syncRollout's three cases.
NextOK ==
    \A n \in Node :
        work[n].pc \in {"create", "delete"} => work[n].next \in {"apply", "held", "lock"}

\* The worker of n applies without the lock, now or after its pre-pull call.
SkipsLock(n) ==
    work[n].pc = "apply" \/ (work[n].pc \in {"create", "delete"} /\ work[n].next = "apply")

\* A cache that shows the target, or nothing, is out of date at most in that
\* the Deployment has come to exist: so applying without the lock never
\* changes a template.
CacheOK ==
    \A n \in Node : ~isPending(deploySeen[n]) \/ SkipsLock(n) => ~isPending(AppliedTemplate(n))

DisruptedOK ==
    \A n \in disrupted : n \in inService /\ deployment[n] # Absent /\ ~isRolledOut(deployment[n])

\* The fleet a worker decides about contains every disrupted node.
FleetOK == \A n \in Node : work[n].pc \in {"list", "rollout"} => disrupted \subseteq work[n].fleet

\* A worker that is about to disrupt a node disrupts the only one.
AdmitOK ==
    \A n \in Node :
        work[n].pc = "rollout" /\ work[n].isAvailable /\ isPending(AppliedTemplate(n))
            => disrupted \subseteq {n}

RolloutParts == LockOK /\ NextOK /\ CacheOK /\ DisruptedOK /\ FleetOK /\ AdmitOK /\ OneAtATime

RolloutInv == TypeOK /\ RolloutParts

\* A step that takes no node's template further: it may finish workers and
\* make disrupted nodes available.
RolloutFrame ==
    /\ target' = target
    /\ disrupted' \subseteq disrupted
    /\ \A n \in Node :
         /\ work'[n] \in {work[n], Idle}
         /\ AppliedTemplate(n)' = AppliedTemplate(n)
         /\ deploySeen'[n] \in {deploySeen[n], AppliedTemplate(n)}
         /\ rolloutMu' = rolloutMu \/ (rolloutMu = n => work'[n] = Idle)
    /\ \A n \in disrupted' : n \in inService' /\ deployment'[n] # Absent /\ ~isRolledOut(deployment'[n])

\* Such a step keeps every part of the invariant.
LEMMA RolloutFrameKeeps ==
    ASSUME RolloutInv, RolloutFrame PROVE RolloutParts'
  <1>1. LockOK'
    BY DEF RolloutInv, RolloutParts, RolloutFrame, LockOK, Idle
  <1>2. NextOK'
    BY DEF RolloutInv, RolloutParts, RolloutFrame, NextOK, Idle
  <1>3. CacheOK'
    <2> SUFFICES ASSUME NEW n \in Node, ~isPending(deploySeen[n])' \/ SkipsLock(n)'
                 PROVE  ~isPending(AppliedTemplate(n))'
      BY DEF CacheOK
    <2>1. SkipsLock(n)' => SkipsLock(n)
      BY DEF RolloutFrame, SkipsLock, Idle
    <2>2. ~isPending(AppliedTemplate(n))
      BY <2>1 DEF RolloutInv, RolloutParts, RolloutFrame, CacheOK, isPending
    <2> QED BY <2>2 DEF RolloutFrame, isPending
  <1>4. DisruptedOK'
    BY DEF RolloutFrame, DisruptedOK
  <1>5. FleetOK'
    BY DEF RolloutInv, RolloutParts, RolloutFrame, FleetOK, Idle
  <1>6. AdmitOK'
    BY DEF RolloutInv, RolloutParts, RolloutFrame, AdmitOK, isPending, Idle
  <1>7. OneAtATime'
    BY DEF RolloutInv, RolloutParts, RolloutFrame, OneAtATime
  <1> QED BY <1>1, <1>2, <1>3, <1>4, <1>5, <1>6, <1>7 DEF RolloutParts

\* With synced caches and idle workers there is nothing to keep apart yet.
LEMMA RolloutInit == Init => RolloutInv
  <1> SUFFICES ASSUME Init PROVE RolloutParts
    BY TypeInit DEF RolloutInv
  <1>1. /\ \A n \in Node : work[n] = Idle /\ deploySeen[n] = AppliedTemplate(n)
        /\ disrupted = {}
    BY DEF Init
  <1>2. LockOK /\ NextOK /\ FleetOK /\ AdmitOK
    BY <1>1 DEF LockOK, NextOK, FleetOK, AdmitOK, Idle
  <1>3. CacheOK
    BY <1>1 DEF CacheOK, SkipsLock, Idle
  <1>4. DisruptedOK /\ OneAtATime
    BY <1>1 DEF DisruptedOK, OneAtATime
  <1> QED BY <1>2, <1>3, <1>4 DEF RolloutParts

\* Every step keeps the invariant.
LEMMA RolloutStep == RolloutInv /\ [Next]_vars => RolloutInv'
  <1> SUFFICES ASSUME RolloutInv, [Next]_vars PROVE RolloutParts'
    BY TypeStep DEF RolloutInv
  <1>type. TypeOK /\ RolloutParts
    BY DEF RolloutInv
  <1>same. ASSUME UNCHANGED deployment PROVE \A n \in Node : AppliedTemplate(n)' = AppliedTemplate(n)
    BY <1>same DEF AppliedTemplate
  <1>disrupted. \A n \in disrupted :
                   n \in inService /\ deployment[n] # Absent /\ ~isRolledOut(deployment[n])
    BY <1>type DEF RolloutParts, DisruptedOK
  <1>idle. ASSUME NEW n \in Node, work' = [work EXCEPT ![n] = Idle]
           PROVE  \A m \in Node : work'[m] \in {work[m], Idle}
    BY <1>idle, <1>type DEF TypeOK
  <1>get. ASSUME NEW n \in Node, GetNode(n) PROVE RolloutParts'
    <2> DEFINE got == [Idle EXCEPT !.pc = PrePullCall(n), !.next = AfterPrePull(n)]
    <2>1. /\ work'[n] = got
          /\ \A m \in Node \ {n} : work'[m] = work[m]
          /\ UNCHANGED <<deployment, disrupted, inService, deploySeen, rolloutMu, target>>
      BY <1>get, <1>type DEF GetNode, clusterVars, cacheVars, TypeOK
    <2>2. got.pc = PrePullCall(n) /\ got.next = AfterPrePull(n)
      BY DEF Idle
    <2>3. /\ got.pc \in {"create", "delete", "apply", "held", "lock"}
          /\ got.next \in {"apply", "held", "lock"}
      BY <2>2, CallType
    <2>4. SkipsLock(n)' => ~isPending(deploySeen[n])
      BY <2>1, <2>2, <2>3, CallType DEF SkipsLock, AfterPrePull
    <2>5. LockOK' /\ NextOK' /\ FleetOK'
      BY <2>1, <2>3, <1>type DEF RolloutParts, LockOK, NextOK, FleetOK
    <2>6. CacheOK'
      BY <2>1, <2>4, <1>type, <1>same DEF RolloutParts, CacheOK, SkipsLock, isPending
    <2>7. AdmitOK'
      BY <2>1, <2>3, <1>type, <1>same DEF RolloutParts, AdmitOK, isPending
    <2>8. DisruptedOK' /\ OneAtATime'
      BY <2>1, <1>type DEF RolloutParts, DisruptedOK, OneAtATime, isRolledOut
    <2> QED BY <2>5, <2>6, <2>7, <2>8 DEF RolloutParts
  <1>prepull. ASSUME NEW n \in Node, SyncPrePullPod(n) PROVE RolloutParts'
    <2>1. /\ work[n].pc \in {"create", "delete"} /\ work'[n].pc = work[n].next
          /\ \A m \in Node \ {n} : work'[m] = work[m]
          /\ UNCHANGED <<deployment, disrupted, inService, deploySeen, rolloutMu, target>>
      BY <1>prepull, <1>type DEF SyncPrePullPod, cacheVars, TypeOK, Works
    <2>2. work'[n].pc \in {"apply", "held", "lock"}
      BY <2>1, <1>type DEF RolloutParts, NextOK
    <2>3. SkipsLock(n)' => SkipsLock(n)
      BY <2>1, <2>2 DEF SkipsLock
    <2>4. LockOK' /\ NextOK' /\ FleetOK'
      BY <2>1, <2>2, <1>type DEF RolloutParts, LockOK, NextOK, FleetOK
    <2>5. CacheOK'
      BY <2>1, <2>3, <1>type, <1>same DEF RolloutParts, CacheOK, SkipsLock, isPending
    <2>6. AdmitOK'
      BY <2>1, <2>2, <1>type, <1>same DEF RolloutParts, AdmitOK, isPending
    <2>7. DisruptedOK' /\ OneAtATime'
      BY <2>1, <1>type DEF RolloutParts, DisruptedOK, OneAtATime, isRolledOut
    <2> QED BY <2>4, <2>5, <2>6, <2>7 DEF RolloutParts
  <1>ends. ASSUME NEW n \in Node,
                  SyncPrePullPodFails(n) \/ HoldOutOfService(n) \/ HoldRollout(n) \/ ListRolloutsFails(n)
           PROVE  RolloutParts'
    <2>1. /\ work' = [work EXCEPT ![n] = Idle]
          /\ UNCHANGED <<deployment, disrupted, inService, deploySeen, target>>
      BY <1>ends
      DEF SyncPrePullPodFails, HoldOutOfService, HoldRollout, ListRolloutsFails, Fail, Finish,
          clusterVars, cacheVars
    <2>2. rolloutMu' = rolloutMu \/ work[n].pc \in {"list", "rollout"}
      BY <1>ends DEF SyncPrePullPodFails, HoldOutOfService, HoldRollout, ListRolloutsFails
    <2>3. \A m \in Node : rolloutMu' = rolloutMu \/ (rolloutMu = m => work'[m] = Idle)
      BY <2>1, <2>2, <1>type DEF RolloutParts, LockOK, TypeOK
    <2>4. RolloutFrame
      BY <2>1, <2>3, <1>idle, <1>same, <1>disrupted DEF RolloutFrame, isRolledOut
    <2> QED BY <2>4, RolloutFrameKeeps
  <1>unlocked. ASSUME NEW n \in Node, ApplyUnlocked(n) \/ ApplyUnlockedFails(n) PROVE RolloutParts'
    <2>1. /\ work' = [work EXCEPT ![n] = Idle] /\ work[n].pc = "apply"
          /\ UNCHANGED <<inService, deploySeen, rolloutMu, target>>
      BY <1>unlocked DEF ApplyUnlocked, ApplyUnlockedFails, Finish, Fail, cacheVars
    <2>2. ~isPending(AppliedTemplate(n))
      BY <2>1, <1>type DEF RolloutParts, CacheOK, SkipsLock
    <2>3. disrupted' = disrupted
      BY <1>unlocked, <2>2 DEF ApplyUnlocked, ApplyUnlockedFails, Disrupt
    <2>4. CASE UNCHANGED deployment
      <3>1. RolloutFrame
        BY <2>1, <2>3, <2>4, <1>idle, <1>same, <1>disrupted DEF RolloutFrame, isRolledOut
      <3> QED BY <3>1, RolloutFrameKeeps
    <2>5. CASE ApplyDeployment(n)
      <3>1. /\ AppliedTemplate(n)' = target
            /\ \A m \in Node \ {n} : AppliedTemplate(m)' = AppliedTemplate(m)
        BY <2>5, <1>type, ApplyFacts DEF AppliedTemplate
      <3>2. \A m \in disrupted : deployment'[m] = deployment[m]
        <4> SUFFICES ASSUME NEW m \in disrupted PROVE deployment'[m] = deployment[m]
          OBVIOUS
        <4>1. m \in Node /\ deployment[m] \in Deployments
          BY <1>type, <1>disrupted DEF TypeOK
        <4>2. AppliedTemplate(m) # Absent
          BY <4>1, <1>disrupted, RolloutAssumption DEF AppliedTemplate, Deployments
        <4>3. CASE m = n
          BY <4>2, <4>3, <2>2, <2>5, <1>type, ApplyFacts DEF isPending
        <4>4. CASE m # n
          BY <4>1, <4>4, <2>5, <1>type, ApplyFacts
        <4> QED BY <4>3, <4>4
      <3>3. \A m \in Node : work'[m] \in {work[m], Idle} /\ work'[n] = Idle
        BY <2>1, <1>idle, <1>type DEF TypeOK
      <3>4. LockOK' /\ NextOK' /\ FleetOK'
        BY <2>1, <2>3, <3>3, <1>type DEF RolloutParts, LockOK, NextOK, FleetOK, Idle
      <3>5. CacheOK'
        BY <2>1, <3>1, <3>3, <1>type DEF RolloutParts, CacheOK, SkipsLock, isPending, Idle
      <3>6. AdmitOK'
        BY <2>1, <2>3, <3>1, <3>3, <1>type DEF RolloutParts, AdmitOK, isPending, Idle
      <3>7. DisruptedOK' /\ OneAtATime'
        BY <2>1, <2>3, <3>2, <1>type DEF RolloutParts, DisruptedOK, OneAtATime, isRolledOut
      <3> QED BY <3>4, <3>5, <3>6, <3>7 DEF RolloutParts
    <2> QED BY <1>unlocked, <2>4, <2>5 DEF ApplyUnlocked, ApplyUnlockedFails
  <1>lock. ASSUME NEW n \in Node, LockRollout(n) PROVE RolloutParts'
    <2>1. /\ rolloutMu = Absent /\ rolloutMu' = n
          /\ work'[n].pc = "list" /\ work'[n].fleet = inService
          /\ \A m \in Node \ {n} : work'[m] = work[m]
          /\ UNCHANGED <<deployment, disrupted, inService, deploySeen, target>>
      BY <1>lock, <1>type DEF LockRollout, clusterVars, cacheVars, TypeOK, Works
    <2>2. \A m \in Node : work[m].pc \notin {"list", "rollout"}
      BY <2>1, <1>type, RolloutAssumption DEF RolloutParts, LockOK
    <2>3. LockOK' /\ NextOK'
      BY <2>1, <2>2, <1>type DEF RolloutParts, LockOK, NextOK
    <2>4. FleetOK'
      BY <2>1, <2>2, <1>disrupted DEF FleetOK
    <2>5. CacheOK'
      BY <2>1, <1>type, <1>same DEF RolloutParts, CacheOK, SkipsLock, isPending
    <2>6. AdmitOK'
      BY <2>1, <2>2 DEF AdmitOK
    <2>7. DisruptedOK' /\ OneAtATime'
      BY <2>1, <1>type DEF RolloutParts, DisruptedOK, OneAtATime, isRolledOut
    <2> QED BY <2>3, <2>4, <2>5, <2>6, <2>7 DEF RolloutParts
  <1>admit. ASSUME NEW n \in Node, AdmitRollout(n) PROVE RolloutParts'
    <2>1. /\ work[n].pc = "list" /\ ~rolloutHold(n, work[n].fleet)
          /\ work'[n].pc = "rollout" /\ work'[n].fleet = work[n].fleet
          /\ work'[n].isAvailable = isAvailable(n)
          /\ \A m \in Node \ {n} : work'[m] = work[m]
          /\ UNCHANGED <<deployment, disrupted, inService, deploySeen, rolloutMu, target>>
      BY <1>admit, <1>type DEF AdmitRollout, clusterVars, cacheVars, TypeOK, Works
    <2>2. isPending(AppliedTemplate(n)) /\ isAvailable(n) => disrupted \subseteq {n}
      <3> SUFFICES ASSUME isPending(AppliedTemplate(n)), isAvailable(n), NEW m \in disrupted, m # n
                   PROVE  FALSE
        OBVIOUS
      <3>1. m \in work[n].fleet \ {n}
        BY <2>1, <1>type DEF RolloutParts, FleetOK
      <3>2. ~isAvailable(m)
        BY <1>disrupted DEF isAvailable
      <3> QED BY <2>1, <3>1, <3>2 DEF rolloutHold
    <2>3. LockOK' /\ NextOK' /\ FleetOK'
      BY <2>1, <1>type DEF RolloutParts, LockOK, NextOK, FleetOK
    <2>4. CacheOK'
      BY <2>1, <1>type, <1>same DEF RolloutParts, CacheOK, SkipsLock, isPending
    <2>5. AdmitOK'
      BY <2>1, <2>2, <1>type, <1>same DEF RolloutParts, AdmitOK, isPending
    <2>6. DisruptedOK' /\ OneAtATime'
      BY <2>1, <1>type DEF RolloutParts, DisruptedOK, OneAtATime, isRolledOut
    <2> QED BY <2>3, <2>4, <2>5, <2>6 DEF RolloutParts
  <1>rollout. ASSUME NEW n \in Node, RollOut(n) \/ RollOutFails(n) PROVE RolloutParts'
    <2>1. /\ work' = [work EXCEPT ![n] = Idle] /\ work[n].pc = "rollout" /\ rolloutMu' = Absent
          /\ UNCHANGED <<inService, deploySeen, target>>
      BY <1>rollout DEF RollOut, RollOutFails, Finish, Fail, Unlock, cacheVars
    <2>2. rolloutMu = n /\ \A m \in Node \ {n} : work[m].pc \notin {"list", "rollout"}
      BY <2>1, <1>type DEF RolloutParts, LockOK
    <2>3. \A m \in Node : work'[m] \in {work[m], Idle} /\ work'[n] = Idle
      BY <2>1, <1>idle, <1>type DEF TypeOK
    <2>4. CASE UNCHANGED <<deployment, disrupted>>
      <3>1. RolloutFrame
        BY <2>1, <2>2, <2>3, <2>4, <1>same, <1>disrupted DEF RolloutFrame, isRolledOut
      <3> QED BY <3>1, RolloutFrameKeeps
    <2>5. CASE ApplyDeployment(n) /\ Disrupt(n, work[n].isAvailable)
      <3>1. /\ AppliedTemplate(n)' = target
            /\ \A m \in Node \ {n} : AppliedTemplate(m)' = AppliedTemplate(m)
        BY <2>5, <1>type, ApplyFacts DEF AppliedTemplate
      <3>2. \A m \in Node \ {n} : deployment'[m] = deployment[m]
        BY <2>5, <1>type, ApplyFacts
      <3>3. n \in disrupted \/ isPending(AppliedTemplate(n))
              => deployment'[n] # Absent /\ ~isRolledOut(deployment'[n])
        BY <2>5, <1>type, <1>disrupted, ApplyFacts DEF isPending
      <3>4. \/ disrupted' = disrupted
            \/ /\ disrupted' = disrupted \cup {n} /\ n \in inService
               /\ isPending(AppliedTemplate(n)) /\ disrupted \subseteq {n}
        BY <2>1, <2>5, <1>type DEF Disrupt, RolloutParts, AdmitOK
      <3>5. OneAtATime'
        BY <3>4, <1>type DEF RolloutParts, OneAtATime
      <3>6. DisruptedOK'
        <4> SUFFICES ASSUME NEW m \in disrupted'
                     PROVE  m \in inService /\ deployment'[m] # Absent /\ ~isRolledOut(deployment'[m])
          BY <2>1 DEF DisruptedOK, isRolledOut
        <4>1. CASE m = n
          BY <4>1, <3>3, <3>4, <1>disrupted
        <4>2. CASE m # n
          BY <4>2, <3>2, <3>4, <1>disrupted, <1>type DEF TypeOK
        <4> QED BY <4>1, <4>2
      <3>7. LockOK' /\ FleetOK' /\ AdmitOK'
        BY <2>1, <2>2, <2>3 DEF LockOK, FleetOK, AdmitOK, Idle
      <3>8. NextOK'
        BY <2>3, <1>type DEF RolloutParts, NextOK, Idle
      <3>9. CacheOK'
        BY <2>1, <3>1, <2>3, <1>type DEF RolloutParts, CacheOK, SkipsLock, isPending, Idle
      <3> QED BY <3>5, <3>6, <3>7, <3>8, <3>9 DEF RolloutParts
    <2> QED BY <1>rollout, <2>4, <2>5 DEF RollOut, RollOutFails
  <1>restart. ASSUME NEW t \in Template, Restart(t) PROVE RolloutParts'
    <2>1. /\ work' = [n \in Node |-> Idle]
          /\ deploySeen' = [n \in Node |-> AppliedTemplate(n)]
          /\ UNCHANGED <<deployment, disrupted, inService>>
      BY <1>restart DEF Restart, clusterVars
    <2>2. LockOK' /\ NextOK' /\ FleetOK' /\ AdmitOK'
      BY <2>1 DEF LockOK, NextOK, FleetOK, AdmitOK, Idle
    <2>3. CacheOK'
      BY <2>1, <1>same DEF CacheOK, SkipsLock, isPending, Idle
    <2>4. DisruptedOK' /\ OneAtATime'
      BY <2>1, <1>type DEF RolloutParts, DisruptedOK, OneAtATime, isRolledOut
    <2> QED BY <2>2, <2>3, <2>4 DEF RolloutParts
  <1>quiet. ASSUME UNCHANGED <<deployment, disrupted, inService, deploySeen, work, rolloutMu, target>>
            PROVE  RolloutParts'
    <2>1. RolloutFrame
      BY <1>quiet, <1>same, <1>disrupted DEF RolloutFrame, isRolledOut
    <2> QED BY <2>1, RolloutFrameKeeps
  <1>events. ASSUME NEW n \in Node,
                    \/ DelayExpires(n) \/ PrePullEvent(n) \/ ImagePulled(n) \/ PrePullFails(n)
                    \/ PrePullAges(n)
             PROVE  RolloutParts'
    BY <1>events, <1>quiet
    DEF DelayExpires, PrePullEvent, ImagePulled, PrePullFails, PrePullAges, clusterVars, cacheVars,
        workerVars
  <1>resync. ASSUME InformerResync PROVE RolloutParts'
    BY <1>resync, <1>quiet DEF InformerResync, clusterVars, cacheVars
  <1>depevent. ASSUME NEW n \in Node, DeploymentEvent(n) PROVE RolloutParts'
    <2>1. UNCHANGED <<deployment, disrupted, inService, work, rolloutMu, target>>
      BY <1>depevent DEF DeploymentEvent, clusterVars
    <2>2. \A m \in Node : deploySeen'[m] \in {deploySeen[m], AppliedTemplate(m)}
      BY <1>depevent, <1>type DEF DeploymentEvent, TypeOK
    <2>3. RolloutFrame
      BY <2>1, <2>2, <1>same, <1>disrupted DEF RolloutFrame, isRolledOut
    <2> QED BY <2>3, RolloutFrameKeeps
  <1>nodeevent. ASSUME NEW n \in Node, NodeEvent(n) PROVE RolloutParts'
    <2>1. /\ UNCHANGED <<deployment, deploySeen, work, rolloutMu, target>>
          /\ disrupted' = disrupted \ {n} /\ inService \ {n} \subseteq inService'
      BY <1>nodeevent DEF NodeEvent
    <2>2. RolloutFrame
      BY <2>1, <1>same, <1>disrupted DEF RolloutFrame, isRolledOut
    <2> QED BY <2>2, RolloutFrameKeeps
  <1>status. ASSUME NEW n \in Node, DeploymentObserved(n) \/ PodAvailable(n) \/ PodUnavailable(n)
             PROVE  RolloutParts'
    <2>1. /\ UNCHANGED <<inService, deploySeen, work, rolloutMu, target>>
          /\ disrupted' = disrupted \/ disrupted' = disrupted \ {n}
      BY <1>status DEF DeploymentObserved, PodAvailable, PodUnavailable, cacheVars
    <2>2. \A m \in Node : AppliedTemplate(m)' = AppliedTemplate(m)
      BY <1>status, <1>type, StatusFacts DEF AppliedTemplate
    <2>3. \A m \in disrupted' : deployment'[m] # Absent /\ ~isRolledOut(deployment'[m])
      <3> SUFFICES ASSUME NEW m \in disrupted'
                   PROVE  deployment'[m] # Absent /\ ~isRolledOut(deployment'[m])
        OBVIOUS
      <3>1. m \in disrupted /\ m \in Node
        BY <2>1, <1>type DEF TypeOK
      <3> QED BY <3>1, <1>status, <1>type, StatusFacts, <1>disrupted DEF isRolledOut
    <2>4. RolloutFrame
      BY <2>1, <2>2, <2>3, <1>disrupted DEF RolloutFrame
    <2> QED BY <2>4, RolloutFrameKeeps
  <1>stutter. CASE UNCHANGED vars
    BY <1>stutter, <1>quiet DEF vars, clusterVars, cacheVars, workerVars
  <1> QED
    BY <1>get, <1>prepull, <1>ends, <1>unlocked, <1>lock, <1>admit, <1>rollout, <1>restart, <1>events,
       <1>resync, <1>depevent, <1>nodeevent, <1>status, <1>stutter
    DEF Next, Manager, WorkerStep, Cluster

\* The variables of Rollout always have their types.
THEOREM RolloutTypeCorrect == Spec => []TypeOK
  BY TypeInit, TypeStep, PTL DEF Spec

\* README.md: "roll one node at a time", with any number of nodes and workers,
\* restarts of the manager, lagging caches, failing calls and failing pods.
THEOREM RollsOneAtATime == Spec => []OneAtATime
  <1>1. RolloutInv => OneAtATime
    BY DEF RolloutInv, RolloutParts
  <1> QED BY RolloutInit, RolloutStep, <1>1, PTL DEF Spec

---------------------------------------------------------------------------
(* Images are pre-pulled everywhere first.  The worker decides from pods in *)
(* a cache that lags behind; what makes that sound is that images stay on   *)
(* the nodes, so a pod that was seen to have pulled its image has.          *)

PullOK ==
    \A n \in Node :
        /\ prePull[n] # Absent /\ prePull[n].phase = "pulled" => <<n, prePull[n].image>> \in images
        /\ prePullSeen[n] # Absent /\ prePullSeen[n].phase = "pulled"
             => <<n, prePullSeen[n].image>> \in images

PullInv == RolloutInv /\ PullOK /\ PrePulledEverywhere

\* A step that admits no rollout.
PullFrame ==
    /\ target' = target
    /\ images \subseteq images'
    /\ \A n \in Node :
         /\ work'[n].pc = "rollout" => work[n].pc = "rollout" /\ work'[n].fleet = work[n].fleet
         /\ AppliedTemplate(n)' \in {AppliedTemplate(n), target}

\* Such a step leaves what admitted workers rely on: images stay, and a
\* template that changes no longer needs a pre-pull.
LEMMA PullFrameKeeps ==
    ASSUME PullInv, PullFrame PROVE PrePulledEverywhere'
  <1> SUFFICES ASSUME NEW n \in Node, work'[n].pc = "rollout", NEW m \in work'[n].fleet,
                      needsPrePull(AppliedTemplate(m))'
               PROVE  <<m, ImageOf(target')>> \in images'
    BY DEF PrePulledEverywhere
  <1>1. work[n].pc = "rollout" /\ m \in work[n].fleet /\ m \in Node
    BY DEF PullFrame, PullInv, RolloutInv, TypeOK, Works
  <1>2. needsPrePull(AppliedTemplate(m))
    BY <1>1 DEF PullFrame, needsPrePull, isPending
  <1> QED BY <1>1, <1>2 DEF PullFrame, PullInv, PrePulledEverywhere

\* No pre-pull pod exists in the beginning.
LEMMA PullInit == Init => PullInv
  <1> SUFFICES ASSUME Init PROVE PullOK /\ PrePulledEverywhere
    BY RolloutInit DEF PullInv
  <1>1. \A n \in Node : prePull[n] = Absent /\ prePullSeen[n] = Absent /\ work[n] = Idle
    BY DEF Init
  <1> QED BY <1>1 DEF PullOK, PrePulledEverywhere, Idle

\* Pods that have pulled their image, in the API server or in the cache, keep
\* telling the truth, and no image goes away.
LEMMA PullOKStep ==
    ASSUME PullInv, [Next]_vars PROVE PullOK' /\ images \subseteq images'
  <1>type. TypeOK /\ PullOK
    BY DEF PullInv, RolloutInv
  <1>same. ASSUME UNCHANGED prePull, images \subseteq images',
                  \A n \in Node : prePullSeen'[n] \in {prePullSeen[n], prePull[n]}
           PROVE  PullOK' /\ images \subseteq images'
    BY <1>same, <1>type DEF PullOK
  <1>pods. ASSUME NEW n \in Node, UNCHANGED <<prePullSeen, images>>,
                  PodCreated(n) \/ PodDeleted(n) \/ UNCHANGED prePull
           PROVE  PullOK' /\ images \subseteq images'
    <2>1. /\ \A m \in Node \ {n} : prePull'[m] = prePull[m]
          /\ prePull'[n] \in {prePull[n], Absent, [image |-> ImageOf(target), phase |-> "pulling"]}
      BY <1>pods, <1>type DEF PodCreated, PodDeleted, TypeOK
    <2>2. \A m \in Node : \/ prePull'[m] = prePull[m] \/ prePull'[m] = Absent
                          \/ prePull'[m].phase = "pulling"
      BY <2>1
    <2> QED BY <1>pods, <2>2, <1>type DEF PullOK
  <1>prepull. ASSUME NEW n \in Node, SyncPrePullPod(n) \/ SyncPrePullPodFails(n)
              PROVE  PullOK' /\ images \subseteq images'
    BY <1>prepull, <1>pods DEF SyncPrePullPod, SyncPrePullPodFails, cacheVars
  <1>pulled. ASSUME NEW n \in Node, ImagePulled(n) PROVE PullOK' /\ images \subseteq images'
    <2>1. /\ \A m \in Node \ {n} : prePull'[m] = prePull[m]
          /\ prePull'[n].image = prePull[n].image
          /\ images' = images \cup {<<n, prePull[n].image>>}
          /\ UNCHANGED prePullSeen
      BY <1>pulled, <1>type DEF ImagePulled, TypeOK, PrePullPods, cacheVars
    <2> QED BY <2>1, <1>type DEF PullOK
  <1>pullfails. ASSUME NEW n \in Node, PrePullFails(n) PROVE PullOK' /\ images \subseteq images'
    <2>1. /\ \A m \in Node \ {n} : prePull'[m] = prePull[m]
          /\ prePull'[n].phase = "failed"
          /\ UNCHANGED <<prePullSeen, images>>
      BY <1>pullfails, <1>type DEF PrePullFails, TypeOK, PrePullPods, cacheVars
    <2> QED BY <2>1, <1>type DEF PullOK
  <1>podevent. ASSUME NEW n \in Node, PrePullEvent(n) PROVE PullOK' /\ images \subseteq images'
    BY <1>podevent, <1>same, <1>type DEF PrePullEvent, TypeOK, clusterVars
  <1>restart. ASSUME NEW t \in Template, Restart(t) PROVE PullOK' /\ images \subseteq images'
    BY <1>restart, <1>same DEF Restart, clusterVars
  <1>available. ASSUME NEW n \in Node, PodAvailable(n) PROVE PullOK' /\ images \subseteq images'
    BY <1>available, <1>same DEF PodAvailable, cacheVars
  <1>quiet. ASSUME UNCHANGED <<prePull, prePullSeen, images>> PROVE PullOK' /\ images \subseteq images'
    BY <1>quiet, <1>same
  <1>worker. ASSUME NEW n \in Node,
                    \/ GetNode(n) \/ HoldOutOfService(n) \/ ApplyUnlocked(n) \/ ApplyUnlockedFails(n)
                    \/ LockRollout(n) \/ HoldRollout(n) \/ AdmitRollout(n) \/ ListRolloutsFails(n)
                    \/ RollOut(n) \/ RollOutFails(n)
             PROVE  PullOK' /\ images \subseteq images'
    BY <1>worker, <1>quiet
    DEF GetNode, HoldOutOfService, ApplyUnlocked, ApplyUnlockedFails, LockRollout, HoldRollout,
        AdmitRollout, ListRolloutsFails, RollOut, RollOutFails, clusterVars, cacheVars
  <1>others. ASSUME NEW n \in Node,
                    \/ DelayExpires(n) \/ DeploymentEvent(n) \/ NodeEvent(n) \/ DeploymentObserved(n)
                    \/ PodUnavailable(n) \/ PrePullAges(n)
             PROVE  PullOK' /\ images \subseteq images'
    BY <1>others, <1>quiet
    DEF DelayExpires, DeploymentEvent, NodeEvent, DeploymentObserved, PodUnavailable, PrePullAges,
        clusterVars, cacheVars
  <1>rest. CASE InformerResync \/ UNCHANGED vars
    BY <1>rest, <1>quiet DEF InformerResync, vars, clusterVars, cacheVars
  <1> QED
    BY <1>prepull, <1>pulled, <1>pullfails, <1>podevent, <1>restart, <1>available, <1>worker,
       <1>others, <1>rest
    DEF Next, Manager, WorkerStep, Cluster

\* Only ApplyDeployment changes a template, and only to the target.
LEMMA TemplateStep ==
    ASSUME TypeOK, [Next]_vars, NEW n \in Node
    PROVE  AppliedTemplate(n)' \in {AppliedTemplate(n), target}
  <1>same. ASSUME UNCHANGED deployment PROVE AppliedTemplate(n)' = AppliedTemplate(n)
    BY <1>same DEF AppliedTemplate
  <1>apply. ASSUME NEW m \in Node, ApplyDeployment(m)
            PROVE  AppliedTemplate(n)' \in {AppliedTemplate(n), target}
    BY <1>apply, ApplyFacts DEF AppliedTemplate
  <1>applies. ASSUME NEW m \in Node,
                     ApplyUnlocked(m) \/ ApplyUnlockedFails(m) \/ RollOut(m) \/ RollOutFails(m)
              PROVE  AppliedTemplate(n)' \in {AppliedTemplate(n), target}
    BY <1>applies, <1>same, <1>apply DEF ApplyUnlocked, ApplyUnlockedFails, RollOut, RollOutFails
  <1>status. ASSUME NEW m \in Node, DeploymentObserved(m) \/ PodAvailable(m) \/ PodUnavailable(m)
             PROVE  AppliedTemplate(n)' = AppliedTemplate(n)
    BY <1>status, StatusFacts DEF AppliedTemplate
  <1>worker. ASSUME NEW m \in Node,
                    \/ GetNode(m) \/ SyncPrePullPod(m) \/ SyncPrePullPodFails(m) \/ HoldOutOfService(m)
                    \/ LockRollout(m) \/ HoldRollout(m) \/ AdmitRollout(m) \/ ListRolloutsFails(m)
             PROVE  AppliedTemplate(n)' = AppliedTemplate(n)
    BY <1>worker, <1>same
    DEF GetNode, SyncPrePullPod, SyncPrePullPodFails, HoldOutOfService, LockRollout, HoldRollout,
        AdmitRollout, ListRolloutsFails, clusterVars
  <1>others. ASSUME NEW m \in Node,
                    \/ DelayExpires(m) \/ DeploymentEvent(m) \/ PrePullEvent(m) \/ NodeEvent(m)
                    \/ ImagePulled(m) \/ PrePullFails(m) \/ PrePullAges(m)
             PROVE  AppliedTemplate(n)' = AppliedTemplate(n)
    BY <1>others, <1>same
    DEF DelayExpires, DeploymentEvent, PrePullEvent, NodeEvent, ImagePulled, PrePullFails,
        PrePullAges, clusterVars
  <1>restart. ASSUME NEW t \in Template, Restart(t) PROVE AppliedTemplate(n)' = AppliedTemplate(n)
    BY <1>restart, <1>same DEF Restart, clusterVars
  <1>rest. CASE InformerResync \/ UNCHANGED vars
    BY <1>rest, <1>same DEF InformerResync, vars, clusterVars
  <1> QED
    BY <1>applies, <1>status, <1>worker, <1>others, <1>restart, <1>rest
    DEF Next, Manager, WorkerStep, Cluster

\* Every step keeps the invariant.
LEMMA PullStep == PullInv /\ [Next]_vars => PullInv'
  <1> SUFFICES ASSUME PullInv, [Next]_vars PROVE PrePulledEverywhere'
    BY PullOKStep, RolloutStep DEF PullInv
  <1>type. RolloutInv /\ TypeOK /\ PullOK /\ PrePulledEverywhere /\ NextOK
    BY DEF PullInv, RolloutInv, RolloutParts
  <1>images. images \subseteq images'
    BY PullOKStep
  <1>template. \A n \in Node : AppliedTemplate(n)' \in {AppliedTemplate(n), target}
    BY <1>type, TemplateStep
  <1>frame. ASSUME target' = target,
                   \A n \in Node : work'[n].pc = "rollout"
                     => work[n].pc = "rollout" /\ work'[n].fleet = work[n].fleet
            PROVE  PrePulledEverywhere'
    BY <1>frame, <1>images, <1>template, PullFrameKeeps DEF PullFrame
  <1>idle. ASSUME NEW n \in Node, work' = [work EXCEPT ![n] = Idle], target' = target
           PROVE  PrePulledEverywhere'
    BY <1>idle, <1>type, <1>frame DEF TypeOK, Idle
  <1>get. ASSUME NEW n \in Node, GetNode(n) PROVE PrePulledEverywhere'
    <2>1. work'[n].pc = PrePullCall(n) /\ \A m \in Node \ {n} : work'[m] = work[m]
      BY <1>get, <1>type DEF GetNode, TypeOK, Idle
    <2>2. work'[n].pc # "rollout"
      BY <2>1, CallType
    <2> QED BY <1>get, <2>1, <2>2, <1>frame DEF GetNode
  <1>prepull. ASSUME NEW n \in Node, SyncPrePullPod(n) PROVE PrePulledEverywhere'
    <2>1. /\ work[n].pc \in {"create", "delete"} /\ work'[n].pc = work[n].next
          /\ \A m \in Node \ {n} : work'[m] = work[m]
      BY <1>prepull, <1>type DEF SyncPrePullPod, TypeOK, Works
    <2>2. work'[n].pc # "rollout"
      BY <2>1, <1>type DEF NextOK
    <2> QED BY <1>prepull, <2>1, <2>2, <1>frame DEF SyncPrePullPod
  <1>lock. ASSUME NEW n \in Node, LockRollout(n) PROVE PrePulledEverywhere'
    <2>1. work'[n].pc = "list" /\ \A m \in Node \ {n} : work'[m] = work[m]
      BY <1>lock, <1>type DEF LockRollout, TypeOK, Works
    <2> QED BY <1>lock, <2>1, <1>frame DEF LockRollout
  <1>ends. ASSUME NEW n \in Node,
                  \/ SyncPrePullPodFails(n) \/ HoldOutOfService(n) \/ ApplyUnlocked(n)
                  \/ ApplyUnlockedFails(n) \/ HoldRollout(n) \/ ListRolloutsFails(n)
                  \/ RollOut(n) \/ RollOutFails(n)
           PROVE  PrePulledEverywhere'
    BY <1>ends, <1>idle
    DEF SyncPrePullPodFails, HoldOutOfService, ApplyUnlocked, ApplyUnlockedFails, HoldRollout,
        ListRolloutsFails, RollOut, RollOutFails, Finish, Fail
  <1>admit. ASSUME NEW n \in Node, AdmitRollout(n) PROVE PrePulledEverywhere'
    <2>1. /\ ~rolloutHold(n, work[n].fleet) /\ work'[n].fleet = work[n].fleet
          /\ \A m \in Node \ {n} : work'[m] = work[m]
          /\ UNCHANGED <<deployment, images, target>>
      BY <1>admit, <1>type DEF AdmitRollout, TypeOK, Works, clusterVars
    <2>2. \A m \in Node : AppliedTemplate(m)' = AppliedTemplate(m)
      BY <2>1 DEF AppliedTemplate
    <2>3. ASSUME NEW m \in work[n].fleet, needsPrePull(AppliedTemplate(m))
          PROVE  <<m, ImageOf(target)>> \in images
      <3>1. m \in Node
        BY <1>type DEF TypeOK, Works
      <3>2. hasPrePulled(m)
        BY <2>1, <2>3 DEF rolloutHold
      <3> QED BY <3>1, <3>2, <1>type DEF hasPrePulled, PullOK
    <2> SUFFICES ASSUME NEW k \in Node, work'[k].pc = "rollout", NEW m \in work'[k].fleet,
                        needsPrePull(AppliedTemplate(m))'
                 PROVE  <<m, ImageOf(target')>> \in images'
      BY DEF PrePulledEverywhere
    <2>4. m \in Node /\ m \in work[k].fleet
      BY <2>1, <1>type DEF TypeOK, Works
    <2>5. needsPrePull(AppliedTemplate(m))
      BY <2>1, <2>2, <2>4 DEF needsPrePull, isPending
    <2>6. CASE k = n
      BY <2>1, <2>3, <2>4, <2>5, <2>6
    <2>7. CASE k # n
      BY <2>1, <2>4, <2>5, <2>7, <1>type DEF PrePulledEverywhere
    <2> QED BY <2>6, <2>7
  <1>restart. ASSUME NEW t \in Template, Restart(t) PROVE PrePulledEverywhere'
    BY <1>restart DEF Restart, PrePulledEverywhere, Idle
  <1>quiet. ASSUME UNCHANGED <<work, target>> PROVE PrePulledEverywhere'
    BY <1>quiet, <1>frame
  <1>others. ASSUME NEW n \in Node,
                    \/ DelayExpires(n) \/ DeploymentEvent(n) \/ PrePullEvent(n) \/ NodeEvent(n)
                    \/ Cluster(n)
             PROVE  PrePulledEverywhere'
    BY <1>others, <1>quiet
    DEF DelayExpires, DeploymentEvent, PrePullEvent, NodeEvent, Cluster, DeploymentObserved,
        PodAvailable, PodUnavailable, ImagePulled, PrePullFails, PrePullAges, workerVars
  <1>rest. CASE InformerResync \/ UNCHANGED vars
    BY <1>rest, <1>quiet DEF InformerResync, vars, workerVars
  <1> QED
    BY <1>get, <1>prepull, <1>lock, <1>ends, <1>admit, <1>restart, <1>others, <1>rest
    DEF Next, Manager, WorkerStep

\* main.go: "Pre-pull a new Caddy image on every node before restarting any of
\* them", although the workers only see the pre-pull pods through a cache.
THEOREM PrePullsEverywhere == Spec => []PrePulledEverywhere
  <1>1. PullInv => PrePulledEverywhere
    BY DEF PullInv
  <1> QED BY PullInit, PullStep, <1>1, PTL DEF Spec
===========================================================================
