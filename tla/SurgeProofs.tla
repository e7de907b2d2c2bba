---------------------------- MODULE SurgeProofs ----------------------------
(***************************************************************************)
(* Proofs about Surge for any number of pods, with any names and creation  *)
(* times, any templates and any number of disturbances.                    *)
(***************************************************************************)
EXTENDS Surge, FiniteSetTheorems, TLAPS

---------------------------------------------------------------------------
(* The loop of selectNewestActivePod.  The provers have no induction over  *)
(* a list, but a set of numbers has a least one: the first place where the *)
(* loop goes wrong cannot exist.                                           *)

Less == {pair \in Nat \X Nat : pair[1] < pair[2]}

LEMMA LeastNumber ==
    ASSUME NEW S \in SUBSET Nat, S # {} PROVE \E n \in S : \A m \in S : n <= m
  <1>1. IsWellFoundedOn(Less, Nat)
    BY NatLessThanWellFounded DEF OpToRel, Less
  <1>2. PICK n \in S : \A m \in S : ~(<<m, n>> \in Less)
    BY <1>1, WFMin
  <1>3. \A m \in S : ~(m < n)
    BY <1>2 DEF Less
  <1> QED BY <1>3

\* A list of the pods has every pod.
LEMMA PodsListed ==
    ASSUME IsFiniteSet(Present), NEW list \in SetToSeqs(Present)
    PROVE  /\ Len(list) \in Nat
           /\ \A i \in 1..Len(list) : list[i] \in Present
           /\ \A p \in Present : \E i \in 1..Len(list) : list[i] = p
  <1> DEFINE D == 1..Cardinality(Present)
  <1>1. Cardinality(Present) \in Nat
    BY FS_CardinalityType
  <1>2. list \in [D -> Present] /\ \A i, j \in D : i # j => list[i] # list[j]
    BY DEF SetToSeqs
  <1>3. list \in Injection(D, Present)
    BY <1>2 DEF Injection, IsInjective
  <1>4. IsFiniteSet(D) /\ Cardinality(D) = Cardinality(Present)
    BY <1>1, FS_Interval
  <1>5. list \in Surjection(D, Present)
    BY <1>3, <1>4, FS_Injection
  <1>6. Len(list) = Cardinality(Present)
    BY <1>1, <1>2
  <1> QED BY <1>1, <1>2, <1>5, <1>6 DEF Surjection

\* The value of the loop's variable after its i-th round.
Round(list, before, i) ==
    IF i = 0 THEN 0
    ELSE IF ~IsActivePod(pods[list[i]]) THEN before
    ELSE IF before = 0 \/ isNewer(list[i], before) THEN list[i]
    ELSE before

\* f has the variable's values in the first n rounds.
IsLoop(list, f, n) == f = [i \in 0..n |-> Round(list, f[i - 1], i)]

LEMMA LoopValues ==
    ASSUME NEW list, NEW f, NEW n \in Nat, IsLoop(list, f, n)
    PROVE  \A i \in 0..n : f[i] = Round(list, f[i - 1], i)
  BY DEF IsLoop

\* The loop ends.
LEMMA LoopExists ==
    ASSUME NEW list, NEW n \in Nat PROVE \E f : IsLoop(list, f, n)
  <1> DEFINE S == {k \in Nat : ~\E f : IsLoop(list, f, k)}
  <1> SUFFICES ASSUME S # {} PROVE FALSE
    OBVIOUS
  <1>1. PICK m \in S : \A k \in S : m <= k
    BY LeastNumber
  <1>2. CASE m = 0
    <2> DEFINE f == [i \in 0..0 |-> 0]
    <2>1. f = [i \in 0..0 |-> Round(list, f[i - 1], i)]
      BY DEF Round
    <2> HIDE DEF f
    <2>2. IsLoop(list, f, 0)
      BY <2>1 DEF IsLoop
    <2> QED BY <1>1, <1>2, <2>2
  <1>3. CASE m # 0
    <2>1. m \in Nat /\ m - 1 \in Nat /\ m - 1 \notin S
      BY <1>1, <1>3
    <2>2. PICK g : IsLoop(list, g, m - 1)
      BY <2>1
    <2>3. \A i \in 0..(m - 1) : g[i] = Round(list, g[i - 1], i)
      BY <2>1, <2>2, LoopValues
    <2> DEFINE f == [i \in 0..m |-> IF i = m THEN Round(list, g[m - 1], m) ELSE g[i]]
    <2>4. ASSUME NEW i \in 0..m PROVE f[i] = Round(list, f[i - 1], i)
      <3>1. CASE i = m
        BY <1>3, <2>1, <3>1
      <3>2. CASE i # m /\ i = 0
        BY <2>1, <2>3, <3>2 DEF Round
      <3>3. CASE i # m /\ i # 0
        <4>1. i \in 0..(m - 1) /\ i - 1 \in 0..(m - 1)
          BY <2>1, <3>3
        <4>2. f[i] = g[i] /\ f[i - 1] = g[i - 1]
          BY <2>1, <3>3, <4>1
        <4> QED BY <2>3, <4>1, <4>2
      <3> QED BY <3>1, <3>2, <3>3
    <2>5. f = [i \in 0..m |-> f[i]]
      OBVIOUS
    <2> HIDE DEF f
    <2>6. IsLoop(list, f, m)
      BY <2>4, <2>5 DEF IsLoop
    <2> QED BY <1>1, <2>6
  <1> QED BY <1>2, <1>3

\* What the loop returns.
LEMMA LoopResult ==
    ASSUME NEW list, Len(list) \in Nat
    PROVE  \E f : IsLoop(list, f, Len(list)) /\ selectNewestActivePod(list) = f[Len(list)]
  <1> DEFINE selected[i \in 0..Len(list)] ==
                 IF i = 0 THEN 0
                 ELSE IF ~IsActivePod(pods[list[i]]) THEN selected[i - 1]
                 ELSE IF selected[i - 1] = 0 \/ isNewer(list[i], selected[i - 1]) THEN list[i]
                 ELSE selected[i - 1]
  <1>1. selectNewestActivePod(list) = selected[Len(list)]
    BY DEF selectNewestActivePod
  <1>2. selected = CHOOSE f : IsLoop(list, f, Len(list))
    BY DEF IsLoop, Round
  <1> HIDE DEF selected
  <1>3. IsLoop(list, selected, Len(list))
    BY <1>2, LoopExists
  <1> QED BY <1>1, <1>3

---------------------------------------------------------------------------
(* The pod the loop selects. *)

\* The pods as far as they are well formed.
PodsOK == pods \in [PodName -> Pods \cup {Absent}]

LEMMA PodFacts ==
    ASSUME PodsOK
    PROVE  /\ Present \subseteq PodName
           /\ \A p \in Present : pods[p] \in Pods /\ pods[p].created \in Nat /\ p \in Nat \ {0}
           /\ Active = {p \in Present : IsActivePod(pods[p])}
  <1>1. \A p \in Present : p \in PodName /\ pods[p] \in Pods
    BY DEF PodsOK, Present
  <1>2. \A p \in Present : pods[p].created \in 0..LastSecond
    BY <1>1 DEF Pods
  <1> QED BY <1>1, <1>2, SurgeAssumption DEF Present, Active, IsActivePod

\* Of two pods one is newer.
LEMMA NewerOrders ==
    ASSUME PodsOK, NEW p \in Present, NEW q \in Present, NEW r \in Present
    PROVE  /\ p = q \/ isNewer(p, q) \/ isNewer(q, p)
           /\ ~(isNewer(p, q) /\ isNewer(q, p))
           /\ isNewer(p, q) /\ isNewer(q, r) => isNewer(p, r)
  BY PodFacts DEF isNewer

\* s is the newest active pod among the first i of a list, or 0.
IsNewestOf(list, i, s) ==
    IF \A j \in 1..i : ~IsActivePod(pods[list[j]]) THEN s = 0
    ELSE /\ \E j \in 1..i : s = list[j] /\ IsActivePod(pods[list[j]])
         /\ \A j \in 1..i : IsActivePod(pods[list[j]]) => list[j] = s \/ isNewer(s, list[j])

LEMMA RoundSelects ==
    ASSUME PodsOK, NEW list, NEW i \in Nat \ {0}, \A j \in 1..i : list[j] \in Present,
           NEW before, IsNewestOf(list, i - 1, before), NEW s, s = Round(list, before, i)
    PROVE  IsNewestOf(list, i, s)
  <1>1. i \in 1..i /\ list[i] \in Present /\ \A j \in 1..i : j = i \/ j \in 1..(i - 1)
    OBVIOUS
  <1>2. \A j \in 1..(i - 1) : j \in 1..i /\ list[j] \in Present
    OBVIOUS
  <1>3. CASE ~IsActivePod(pods[list[i]])
    <2>1. s = before
      BY <1>3 DEF Round
    <2> QED BY <1>1, <1>2, <1>3, <2>1 DEF IsNewestOf
  <1>4. CASE IsActivePod(pods[list[i]]) /\ \A j \in 1..(i - 1) : ~IsActivePod(pods[list[j]])
    <2>1. before = 0
      BY <1>4 DEF IsNewestOf
    <2>2. s = list[i]
      BY <1>4, <2>1 DEF Round
    <2> QED BY <1>1, <1>4, <2>2 DEF IsNewestOf
  <1>5. CASE IsActivePod(pods[list[i]]) /\ \E j \in 1..(i - 1) : IsActivePod(pods[list[j]])
    <2>1. /\ \E j \in 1..(i - 1) : before = list[j] /\ IsActivePod(pods[list[j]])
          /\ \A j \in 1..(i - 1) : IsActivePod(pods[list[j]])
                                     => list[j] = before \/ isNewer(before, list[j])
      BY <1>5 DEF IsNewestOf
    <2>2. before \in Present /\ before # 0
      BY <1>2, <2>1, PodFacts
    <2>3. CASE isNewer(list[i], before)
      <3>1. s = list[i]
        BY <1>5, <2>3 DEF Round
      <3>2. ASSUME NEW j \in 1..(i - 1), IsActivePod(pods[list[j]])
            PROVE  list[j] = s \/ isNewer(s, list[j])
        <4>1. list[j] = before \/ isNewer(before, list[j])
          BY <2>1, <3>2
        <4> QED BY <1>1, <1>2, <2>2, <2>3, <3>1, <4>1, NewerOrders
      <3> QED BY <1>1, <1>5, <3>1, <3>2 DEF IsNewestOf
    <2>4. CASE ~isNewer(list[i], before)
      <3>1. s = before
        BY <1>5, <2>2, <2>4 DEF Round
      <3>2. list[i] = s \/ isNewer(s, list[i])
        BY <1>1, <2>2, <2>4, <3>1, NewerOrders
      <3>3. \A j \in 1..i : IsActivePod(pods[list[j]]) => list[j] = s \/ isNewer(s, list[j])
        BY <1>1, <2>1, <3>1, <3>2
      <3>4. \E j \in 1..i : s = list[j] /\ IsActivePod(pods[list[j]])
        BY <1>2, <2>1, <3>1
      <3> QED BY <1>1, <1>5, <3>3, <3>4 DEF IsNewestOf
    <2> QED BY <2>3, <2>4
  <1> QED BY <1>3, <1>4, <1>5

\* The loop selects the newest active pod of the whole list.
LEMMA LoopSelects ==
    ASSUME PodsOK, NEW list, Len(list) \in Nat, \A j \in 1..Len(list) : list[j] \in Present
    PROVE  IsNewestOf(list, Len(list), selectNewestActivePod(list))
  <1> DEFINE n == Len(list)
  <1>1. PICK f : IsLoop(list, f, n) /\ selectNewestActivePod(list) = f[n]
    BY LoopResult
  <1>2. \A i \in 0..n : f[i] = Round(list, f[i - 1], i)
    BY <1>1, LoopValues
  <1> HIDE DEF n
  <1> DEFINE S == {i \in 0..n : ~IsNewestOf(list, i, f[i])}
  <1>3. S = {}
    <2> SUFFICES ASSUME S # {} PROVE FALSE
      OBVIOUS
    <2>0. S \in SUBSET Nat
      BY DEF n
    <2>1. PICK m \in S : \A k \in S : m <= k
      BY <2>0, LeastNumber
    <2>2. m \in Nat /\ m \in 0..n /\ ~IsNewestOf(list, m, f[m])
      BY <2>0, <2>1
    <2>3. CASE m = 0
      <3>1. f[0] = 0
        BY <1>2, <2>2, <2>3 DEF Round
      <3> QED BY <2>2, <2>3, <3>1 DEF IsNewestOf
    <2>4. CASE m # 0
      <3>1. m \in Nat \ {0} /\ m - 1 \in 0..n /\ \A j \in 1..m : j \in 1..n
        BY <2>2, <2>4 DEF n
      <3>2. m - 1 \notin S
        BY <2>1, <2>2, <3>1
      <3>3. IsNewestOf(list, m - 1, f[m - 1])
        BY <3>1, <3>2
      <3>4. \A j \in 1..m : list[j] \in Present
        BY <3>1 DEF n
      <3>5. IsNewestOf(list, m, Round(list, f[m - 1], m))
        BY <3>1, <3>3, <3>4, RoundSelects
      <3> QED BY <1>2, <2>2, <3>5
    <2> QED BY <2>3, <2>4
  <1>4. n \in 0..n
    BY DEF n
  <1>5. IsNewestOf(list, n, f[n])
    BY <1>3, <1>4
  <1> QED BY <1>1, <1>5 DEF n

\* In whatever order the pods are listed.
LEMMA SelectionFacts ==
    ASSUME PodsOK, IsFiniteSet(Present), NEW list \in SetToSeqs(Present),
           NEW s, s = selectNewestActivePod(list)
    PROVE  IF Active = {} THEN s = 0
           ELSE s \in Active /\ \A p \in Active : p = s \/ isNewer(s, p)
  <1>1. /\ Len(list) \in Nat
        /\ \A i \in 1..Len(list) : list[i] \in Present
        /\ \A p \in Present : \E i \in 1..Len(list) : list[i] = p
    BY PodsListed
  <1>2. IsNewestOf(list, Len(list), s)
    BY <1>1, LoopSelects
  <1>3. Active = {p \in Present : IsActivePod(pods[p])}
    BY PodFacts
  <1>4. CASE Active = {}
    BY <1>1, <1>2, <1>3, <1>4 DEF IsNewestOf
  <1>5. CASE Active # {}
    <2>1. \E j \in 1..Len(list) : IsActivePod(pods[list[j]])
      BY <1>1, <1>3, <1>5
    <2>2. /\ \E j \in 1..Len(list) : s = list[j] /\ IsActivePod(pods[list[j]])
          /\ \A j \in 1..Len(list) : IsActivePod(pods[list[j]]) => list[j] = s \/ isNewer(s, list[j])
      BY <1>2, <2>1 DEF IsNewestOf
    <2> QED BY <1>1, <1>3, <1>5, <2>2
  <1> QED BY <1>4, <1>5

LEMMA SelectionProved ==
    ASSUME PodsOK, IsFiniteSet(Present) PROVE SelectsNewest
  <1> SUFFICES ASSUME NEW list \in SetToSeqs(Present), NEW s, s = selectNewestActivePod(list)
               PROVE  IF Active = {} THEN s = 0
                      ELSE /\ s \in Active
                           /\ \A p \in Active :
                                \/ p = s
                                \/ pods[p].created < pods[s].created
                                \/ pods[p].created = pods[s].created /\ p < s
    BY DEF SelectsNewest
  <1>1. IF Active = {} THEN s = 0 ELSE s \in Active /\ \A p \in Active : p = s \/ isNewer(s, p)
    BY SelectionFacts
  <1>2. \A p \in Active : p \in Present
    BY DEF Active
  <1> QED BY <1>1, <1>2, PodFacts DEF isNewer

---------------------------------------------------------------------------
(* Type correctness. *)

Works == [pc : {"idle", "find", "load", "push"}, containerID : PodName \cup {0},
          ip : PodName \cup {NodeIP}, snapshot : Config \cup {Absent}]

\* A worker has a container only from the lookup on, and what it pushes is
\* for one.
WorkOK ==
    /\ work.pc \in {"idle", "find"} => work.containerID = 0
    /\ work.pc = "push" => work.containerID # 0 /\ work.snapshot # Absent

BusyOK == work.pc # "idle" => NodeName \in queue.processing

TypeInv == TypeOK /\ IsFiniteSet(Present) /\ WorkOK /\ BusyOK

LEMMA QueueType ==
    ASSUME NEW q \in QueueOf({NodeName})
    PROVE  /\ Add(q, {NodeName}) \in QueueOf({NodeName})
           /\ Get(q, NodeName) \in QueueOf({NodeName})
           /\ Done(q, NodeName) \in QueueOf({NodeName})
           /\ AddAfter(q, NodeName) \in QueueOf({NodeName})
           /\ Retry(q, NodeName) \in QueueOf({NodeName})
           /\ Expire(q, NodeName) \in QueueOf({NodeName})
  BY DEF QueueOf, Add, Get, Done, AddAfter, Retry, Expire

\* What the operations do to the keys that are held and to those to be done.
LEMMA QueueFields ==
    ASSUME NEW q \in QueueOf({NodeName})
    PROVE  /\ NodeName \in Get(q, NodeName).processing
           /\ /\ AddAfter(q, NodeName).processing = q.processing
              /\ NodeName \in AddAfter(q, NodeName).delayed
           /\ /\ Expire(q, NodeName).processing = q.processing
              /\ NodeName \in Expire(q, NodeName).dirty
           /\ /\ Add(q, {NodeName}).processing = q.processing
              /\ NodeName \in Add(q, {NodeName}).dirty
           /\ NodeName \in Retry(q, NodeName).delayed
           /\ Done(q, NodeName).dirty = q.dirty /\ Done(q, NodeName).delayed = q.delayed
  BY DEF QueueOf, Get, AddAfter, Expire, Add, Retry, Done

LEMMA StartQueueType ==
    /\ Add(EmptyQueue, {NodeName}) \in QueueOf({NodeName})
    /\ NodeName \in Add(EmptyQueue, {NodeName}).dirty
  BY DEF EmptyQueue, Add, QueueOf

LEMMA IdleType == Idle \in Works /\ Idle.pc = "idle" /\ Idle.containerID = 0
  BY DEF Idle, Works, NodeIP

\* One pod at a time comes, changes or goes.
LEMMA PodChange ==
    ASSUME PodsOK, IsFiniteSet(Present), NEW p \in PodName, NEW pod \in Pods \cup {Absent},
           PodChanges(p, pod)
    PROVE  /\ PodsOK' /\ IsFiniteSet(Present')
           /\ pods'[p] = pod
           /\ \A q \in PodName \ {p} : pods'[q] = pods[q]
  <1>1. pods' = [pods EXCEPT ![p] = pod] /\ pods \in [PodName -> Pods \cup {Absent}]
    BY DEF PodChanges, PodsOK
  <1>2. PodsOK' /\ pods'[p] = pod /\ \A q \in PodName \ {p} : pods'[q] = pods[q]
    BY <1>1 DEF PodsOK
  <1>3. Present' \in SUBSET (Present \cup {p})
    BY <1>2 DEF Present
  <1>4. IsFiniteSet(Present \cup {p})
    BY FS_AddElement
  <1>5. IsFiniteSet(Present')
    BY <1>3, <1>4, FS_Subset
  <1> QED BY <1>2, <1>5

\* The changes of pods that are there.
LEMMA PodUpdates ==
    ASSUME PodsOK, NEW p \in Present
    PROVE  /\ p \in PodName
           /\ [pods[p] EXCEPT !.deleting = TRUE] \in Pods
           /\ [pods[p] EXCEPT !.phase = "Failed", !.running = Absent] \in Pods
           /\ \A c \in Config : /\ [pods[p] EXCEPT !.phase = "Running", !.running = c] \in Pods
                                /\ [pods[p] EXCEPT !.running = c] \in Pods
  BY PodFacts DEF Pods, Phases

LEMMA NewPodType ==
    ASSUME TypeOK, applied # Absent
    PROVE  [created |-> clock, template |-> applied, deleting |-> FALSE,
            phase |-> "Pending", running |-> Absent] \in Pods
  BY DEF TypeOK, Pods, Phases

\* The steps of the Deployment controller and the kubelet change a pod.
LEMMA ClusterChange ==
    ASSUME TypeOK, NEW p \in PodName,
           CreatePod(p) \/ DeleteOldPod(p) \/ PodStarts(p) \/ PodGone(p) \/ PodLost(p)
    PROVE  /\ \E pod \in Pods \cup {Absent} : PodChanges(p, pod)
           /\ unseen' = TRUE
           /\ UNCHANGED <<applied, clock, managerVars>>
  <1> PodsOK
    BY DEF TypeOK, PodsOK
  <1>1. CASE CreatePod(p)
    BY <1>1, NewPodType DEF CreatePod, PodChanges
  <1>2. CASE DeleteOldPod(p)
    BY <1>2, PodUpdates DEF DeleteOldPod, PodChanges, Active
  <1>3. CASE PodStarts(p)
    BY <1>3, PodUpdates DEF PodStarts, PodChanges, Active
  <1>4. CASE PodGone(p)
    BY <1>4 DEF PodGone, PodChanges
  <1>5. CASE PodLost(p)
    BY <1>5, PodUpdates DEF PodLost, PodChanges, Active
  <1> QED BY <1>1, <1>2, <1>3, <1>4, <1>5

LEMMA TypeInit == Init => TypeInv
  <1> SUFFICES ASSUME Init PROVE TypeInv
    OBVIOUS
  <1>1. PICK old \in Template \ Stuck, c \in Config, name \in PodName :
          \/ applied = Absent /\ pods = [p \in PodName |-> Absent]
          \/ /\ applied = old
             /\ pods = [p \in PodName |->
                          IF p # name THEN Absent
                          ELSE [created |-> 0, template |-> old, deleting |-> FALSE,
                                phase |-> "Running", running |-> c]]
    BY DEF Init
  <1>2. [created |-> 0, template |-> old, deleting |-> FALSE,
         phase |-> "Running", running |-> c] \in Pods
    BY SurgeAssumption DEF Pods, Phases
  <1>3. pods \in [PodName -> Pods \cup {Absent}] /\ applied \in Template \cup {Absent}
    BY <1>1, <1>2
  <1>4. Present \in SUBSET {name}
    BY <1>1 DEF Present
  <1>5. IsFiniteSet(Present)
    BY <1>4, FS_Singleton, FS_Subset
  <1>6. work = Idle /\ work \in Works /\ queue \in QueueOf({NodeName})
    BY IdleType, StartQueueType DEF Init
  <1>7. WorkOK /\ BusyOK
    BY <1>6, IdleType DEF WorkOK, BusyOK
  <1>8. clock \in 0..LastSecond /\ budget \in 0..Limit
    BY SurgeAssumption DEF Init
  <1>9. unseen \in BOOLEAN /\ target \in Template /\ config \in Config /\ record = Absent
    BY DEF Init
  <1>10. TypeOK
    BY <1>3, <1>6, <1>8, <1>9 DEF TypeOK, Works
  <1> QED BY <1>5, <1>7, <1>10 DEF TypeInv

\* The lookup finds a pod that is there and runs, or none.
LEMMA LookupFacts ==
    ASSUME TypeInv, NEW list \in SetToSeqs(Present),
           NEW id, id = startedCaddyContainerID(selectNewestActivePod(list))
    PROVE  /\ id \in PodName \cup {0}
           /\ id # 0 => id \in Active /\ pods[id].phase = "Running"
           /\ \A p \in Active : (\A q \in Active \ {p} : isNewer(p, q)) /\ pods[p].phase = "Running"
                                  => id = p
  <1> DEFINE s == selectNewestActivePod(list)
  <1>1. PodsOK /\ IsFiniteSet(Present)
    BY DEF TypeInv, TypeOK, PodsOK
  <1>2. IF Active = {} THEN s = 0 ELSE s \in Active /\ \A p \in Active : p = s \/ isNewer(s, p)
    BY <1>1, SelectionFacts
  <1>3. Active \subseteq Present /\ \A p \in Active : p \in PodName /\ p # 0
    BY <1>1, PodFacts DEF Active
  <1> HIDE DEF s
  <1>4. id = IF s # 0 /\ pods[s].phase = "Running" THEN s ELSE 0
    BY DEF startedCaddyContainerID, s
  <1>5. ASSUME NEW p \in Active, \A q \in Active \ {p} : isNewer(p, q), pods[p].phase = "Running"
        PROVE  id = p
    <2>1. s \in Active /\ (p = s \/ isNewer(s, p))
      BY <1>2
    <2>2. p = s
      BY <1>1, <1>3, <1>5, <2>1, NewerOrders
    <2> QED BY <1>3, <1>4, <1>5, <2>2
  <1> QED BY <1>2, <1>3, <1>4, <1>5

\* The worker's steps keep the types.
LEMMA WorkerType ==
    ASSUME TypeInv, Worker PROVE TypeInv'
  <1> /\ TypeOK /\ WorkOK /\ BusyOK /\ PodsOK /\ IsFiniteSet(Present)
      /\ work \in Works /\ queue \in QueueOf({NodeName}) /\ record \in PushRecords \cup {Absent}
    BY DEF TypeInv, TypeOK, PodsOK, Works
  <1>disturb. Disturb => budget' \in 0..Limit
    BY SurgeAssumption DEF Disturb, TypeOK
  <1>frame. ASSUME UNCHANGED <<pods, target, config, record, clock>>,
                   applied' \in Template \cup {Absent}, unseen' \in BOOLEAN,
                   budget' \in 0..Limit, queue' \in QueueOf({NodeName}), work' \in Works,
                   WorkOK', BusyOK'
            PROVE  TypeInv'
    <2>1. Present' = Present
      BY <1>frame DEF Present
    <2> QED BY <1>frame, <2>1 DEF TypeInv, TypeOK, Works
  <1>idle. work' = Idle => work' \in Works /\ WorkOK' /\ BusyOK'
    BY IdleType DEF WorkOK, BusyOK
  <1>apply. CASE ApplyCaddy
    <2>1. work.pc = "idle"
      BY <1>apply DEF ApplyCaddy, Ready, BusyOK
    <2>2. /\ UNCHANGED <<pods, target, config, record, clock>>
          /\ applied' \in Template \cup {Absent} /\ unseen' \in BOOLEAN /\ budget' \in 0..Limit
      BY <1>apply, <1>disturb DEF ApplyCaddy, Apply, TypeOK
    <2>3. Get(queue, NodeName) \in QueueOf({NodeName}) /\ NodeName \in Get(queue, NodeName).processing
      BY QueueType, QueueFields
    <2> DEFINE taken == Get(queue, NodeName)
    <2>4. \/ Goes(taken, "find")
          \/ Goes(AddAfter(taken, NodeName), "find")
          \/ Finish(Retry(taken, NodeName))
      BY <1>apply DEF ApplyCaddy
    <2> HIDE DEF taken
    <2>5. /\ AddAfter(taken, NodeName) \in QueueOf({NodeName})
          /\ Retry(taken, NodeName) \in QueueOf({NodeName})
          /\ NodeName \in AddAfter(taken, NodeName).processing
      BY <2>3, QueueType, QueueFields DEF taken
    <2>6. CASE Finish(Retry(taken, NodeName))
      BY <2>2, <2>5, <2>6, <1>idle, <1>frame DEF Finish
    <2>7. CASE Goes(taken, "find") \/ Goes(AddAfter(taken, NodeName), "find")
      <3>1. queue' \in QueueOf({NodeName}) /\ NodeName \in queue'.processing
        BY <2>3, <2>5, <2>7 DEF Goes, taken
      <3>2. work' = [work EXCEPT !.pc = "find"]
        BY <2>7 DEF Goes
      <3>3. work' \in Works /\ work'.pc = "find" /\ work'.containerID = 0
        BY <2>1, <3>2 DEF Works, WorkOK
      <3> QED BY <2>2, <3>1, <3>3, <1>frame DEF WorkOK, BusyOK
    <2> QED BY <2>4, <2>6, <2>7
  <1>find. CASE FindActivePod
    <2>1. PICK list \in SetToSeqs(Present) :
            LET id == startedCaddyContainerID(selectNewestActivePod(list))
            IN work' = [work EXCEPT !.pc = "load", !.containerID = id,
                                    !.ip = IF id = 0 THEN NodeIP ELSE PodIP(id)]
      BY <1>find DEF FindActivePod
    <2> DEFINE id == startedCaddyContainerID(selectNewestActivePod(list))
               ip == IF id = 0 THEN NodeIP ELSE PodIP(id)
    <2>2. work' = [work EXCEPT !.pc = "load", !.containerID = id, !.ip = ip]
      BY <2>1
    <2>3. id \in PodName \cup {0}
      BY LookupFacts
    <2>4. ip \in PodName \cup {NodeIP}
      BY <2>3 DEF PodIP
    <2> HIDE DEF id, ip
    <2>5. work' \in Works /\ work'.pc = "load"
      BY <2>2, <2>3, <2>4 DEF Works
    <2>6. UNCHANGED <<clusterVars, target, config, queue, record, unseen, budget>> /\ work.pc = "find"
      BY <1>find DEF FindActivePod
    <2> QED BY <2>5, <2>6, <1>frame DEF clusterVars, WorkOK, BusyOK, TypeOK
  <1>load. CASE EnsureLoaded
    <2>1. UNCHANGED <<clusterVars, target, config, record, unseen, budget>> /\ work.pc = "load"
      BY <1>load DEF EnsureLoaded
    <2>2. CASE Finish(Done(queue, NodeName))
      BY <2>1, <2>2, <1>idle, <1>frame, QueueType DEF Finish, clusterVars, TypeOK
    <2>3. CASE ~Finish(Done(queue, NodeName))
      <3>1. /\ work' = [work EXCEPT !.pc = "push", !.snapshot = config] /\ UNCHANGED queue
            /\ work.containerID # 0
        BY <1>load, <2>3 DEF EnsureLoaded
      <3>2. config \in Config /\ config # Absent
        BY SurgeAssumption DEF TypeOK
      <3>3. /\ work' \in Works /\ work'.pc = "push" /\ work'.snapshot = config
            /\ work'.containerID = work.containerID
        BY <3>1, <3>2 DEF Works
      <3> QED BY <2>1, <3>1, <3>2, <3>3, <1>frame DEF clusterVars, WorkOK, BusyOK, TypeOK
    <2> QED BY <2>2, <2>3
  <1>push. CASE PushLoaded
    <2>1. PICK p \in Reached : pods' = [pods EXCEPT ![p].running = work.snapshot]
      BY <1>push DEF PushLoaded
    <2>2. p \in Present /\ p \in PodName /\ work.snapshot \in Config /\ work.containerID \in PodName
      BY <1>push DEF PushLoaded, Reached, Present, WorkOK, Works
    <2>3. [pods[p] EXCEPT !.running = work.snapshot] \in Pods
      BY <2>2, PodUpdates
    <2>4. pods' = [pods EXCEPT ![p] = [pods[p] EXCEPT !.running = work.snapshot]]
      BY <2>1
    <2>5. pods' \in [PodName -> Pods \cup {Absent}]
      BY <2>2, <2>3, <2>4 DEF PodsOK
    <2>6. Present' \in SUBSET (Present \cup {p})
      BY <2>2, <2>4 DEF Present, PodsOK
    <2>7. IsFiniteSet(Present')
      BY <2>6, FS_AddElement, FS_Subset
    <2>8. record' \in PushRecords
      BY <1>push, <2>2 DEF PushLoaded, PushRecords
    <2>9. work' \in Works /\ WorkOK' /\ BusyOK' /\ queue' \in QueueOf({NodeName})
      BY <1>push, <1>idle, QueueType DEF PushLoaded, Finish
    <2> QED BY <1>push, <2>5, <2>7, <2>8, <2>9 DEF PushLoaded, TypeInv, TypeOK, Works
  <1>fails. CASE FindActivePodFails \/ PushFails
    <2>1. Finish(Retry(queue, NodeName)) /\ UNCHANGED <<clusterVars, target, config, record, unseen>>
      BY <1>fails DEF FindActivePodFails, PushFails
    <2>2. budget' \in 0..Limit
      BY <1>fails, <1>disturb DEF FindActivePodFails, PushFails, TypeOK
    <2> QED BY <2>1, <2>2, <1>idle, <1>frame, QueueType DEF Finish, clusterVars, TypeOK
  <1> QED BY <1>apply, <1>find, <1>load, <1>push, <1>fails DEF Worker

\* Every step keeps the types.
LEMMA TypeStep == TypeInv /\ [Next]_vars => TypeInv'
  <1> SUFFICES ASSUME TypeInv, [Next]_vars PROVE TypeInv'
    OBVIOUS
  <1> /\ TypeOK /\ WorkOK /\ BusyOK /\ PodsOK /\ IsFiniteSet(Present)
      /\ work \in Works /\ queue \in QueueOf({NodeName})
    BY DEF TypeInv, TypeOK, PodsOK, Works
  <1>disturb. Disturb => budget' \in 0..Limit
    BY SurgeAssumption DEF Disturb, TypeOK
  <1>same. UNCHANGED pods => UNCHANGED Present
    BY DEF Present
  <1>worker. CASE Worker
    BY <1>worker, WorkerType
  <1>informer. CASE Informer
    <2>1. queue' \in {Expire(queue, NodeName), Add(queue, {NodeName})} /\ unseen' \in BOOLEAN
      BY <1>informer DEF Informer, DelayExpires, ObjectEvent, TypeOK
    <2>2. queue' \in QueueOf({NodeName}) /\ queue'.processing = queue.processing
      BY <2>1, QueueType, QueueFields
    <2>3. UNCHANGED <<clusterVars, target, config, work, record, budget>>
      BY <1>informer DEF Informer, DelayExpires, ObjectEvent
    <2> QED BY <2>1, <2>2, <2>3, <1>same DEF TypeInv, TypeOK, WorkOK, BusyOK, clusterVars
  <1>edit. CASE EditConfig
    <2>1. queue' \in QueueOf({NodeName}) /\ queue'.processing = queue.processing
      BY <1>edit, QueueType, QueueFields DEF EditConfig
    <2> QED BY <1>edit, <2>1, <1>same, <1>disturb
        DEF EditConfig, TypeInv, TypeOK, WorkOK, BusyOK, clusterVars
  <1>restart. CASE Restart
    <2>1. work' = Idle /\ queue' \in QueueOf({NodeName})
      BY <1>restart, StartQueueType DEF Restart
    <2>2. work' \in Works /\ WorkOK' /\ BusyOK'
      BY <2>1, IdleType DEF WorkOK, BusyOK
    <2> QED BY <1>restart, <2>1, <2>2, <1>same, <1>disturb
        DEF Restart, TypeInv, TypeOK, Works, clusterVars
  <1>cluster. ASSUME NEW p \in PodName,
                     CreatePod(p) \/ DeleteOldPod(p) \/ PodStarts(p) \/ PodGone(p) \/ PodLost(p)
              PROVE  TypeInv'
    <2>1. PodsOK' /\ IsFiniteSet(Present') /\ unseen' \in BOOLEAN
      BY <1>cluster, ClusterChange, PodChange
    <2>2. UNCHANGED <<applied, clock, managerVars>>
      BY <1>cluster, ClusterChange
    <2>3. budget' \in 0..Limit
      BY <1>cluster, <1>disturb DEF CreatePod, DeleteOldPod, PodStarts, PodGone, PodLost, TypeOK
    <2> QED BY <2>1, <2>2, <2>3 DEF TypeInv, TypeOK, PodsOK, WorkOK, BusyOK, managerVars
  <1>tick. CASE Tick
    <2>1. clock' \in 0..LastSecond
      BY <1>tick, SurgeAssumption DEF Tick, TypeOK
    <2> QED BY <1>tick, <2>1, <1>same DEF Tick, TypeInv, TypeOK, WorkOK, BusyOK, managerVars
  <1>stutter. CASE UNCHANGED vars
    BY <1>stutter, <1>same DEF vars, clusterVars, managerVars, TypeInv, TypeOK, WorkOK, BusyOK
  <1> QED BY <1>worker, <1>informer, <1>edit, <1>restart, <1>cluster, <1>tick, <1>stutter
      DEF Next, Cluster

\* The pods, the queue, the lookup and the push record stay well formed.
THEOREM SurgeTypeCorrect == Spec => []TypeOK
  <1>1. TypeInv => TypeOK
    BY DEF TypeInv
  <1> QED BY <1>1, TypeInit, TypeStep, PTL DEF Spec

\* selectNewestActivePod returns the newest active pod for every list of any
\* number of pods, in every state a node can come to.
THEOREM NewestSelected == Spec => []SelectsNewest
  <1>1. TypeInv => SelectsNewest
    BY SelectionProved DEF TypeInv, TypeOK, PodsOK
  <1> QED BY <1>1, TypeInit, TypeStep, PTL DEF Spec

---------------------------------------------------------------------------
(* What the worker pushes and where.  An IP may belong to another pod than *)
(* the one the worker looked up, but then that one does not run any more.  *)

OnHost(p) == pods[p].phase = "Running" /\ UseHostNetwork(pods[p].template)

\* Host ports are not shared.
HostPortsOK == \A p, q \in Present : OnHost(p) /\ OnHost(q) => p = q

\* The pod the worker has looked up had started and keeps its IP.
LookupOK ==
    work.containerID \in Present =>
        /\ pods[work.containerID].phase # "Pending"
        /\ work.ip = PodIP(work.containerID)

\* The push record is true of its container as long as that runs.
RecordOK ==
    record # Absent /\ record.containerID \in Present =>
        LET pod == pods[record.containerID]
        IN /\ pod.phase # "Pending"
           /\ pod.phase = "Running" => pod.running = record.digest

\* The pod the next lookup finds has started.
IsNewest(p) ==
    p \in Active /\ (\A q \in Active \ {p} : isNewer(p, q)) /\ pods[p].phase = "Running"

Pending == NodeName \in queue.dirty \cup queue.delayed

\* Without news or another reconcile to come, what the worker knows is still
\* true and the newest pod is in sync when it has finished.
StageOK ==
    ~unseen /\ ~Pending =>
        \A p \in Present : IsNewest(p) =>
            /\ work.pc = "idle" => pods[p].running = config
            /\ work.pc \in {"load", "push"} => work.containerID = p
            /\ work.pc = "push" => work.snapshot = config

PushInv == TypeInv /\ HostPortsOK /\ LookupOK /\ RecordOK /\ StageOK

LEMMA PushInit == Init => PushInv
  <1> SUFFICES ASSUME Init PROVE PushInv
    OBVIOUS
  <1>1. TypeInv
    BY TypeInit
  <1>2. HostPortsOK
    BY DEF Init, HostPortsOK, Present
  <1>3. work = Idle /\ record = Absent /\ queue = Add(EmptyQueue, {NodeName})
    BY DEF Init
  <1>4. LookupOK
    BY <1>1, <1>3, IdleType, PodFacts DEF LookupOK, TypeInv, TypeOK, PodsOK
  <1>5. RecordOK /\ StageOK
    BY <1>3, StartQueueType DEF RecordOK, StageOK, Pending
  <1> QED BY <1>1, <1>2, <1>4, <1>5 DEF PushInv

\* A push reaches the pod that was looked up if that still runs.
LEMMA PushReaches ==
    ASSUME TypeInv, HostPortsOK, LookupOK, work.pc = "push", NEW p \in Reached,
           work.containerID \in Present, pods[work.containerID].phase = "Running"
    PROVE  p = work.containerID
  <1> DEFINE id == work.containerID
  <1>1. PodsOK /\ p \in Present /\ pods[p].phase = "Running" /\ PodIP(p) = PodIP(id)
    BY DEF TypeInv, TypeOK, PodsOK, Reached, LookupOK
  <1>2. p # 0 /\ id # 0
    BY <1>1, PodFacts
  <1>3. CASE UseHostNetwork(pods[id].template)
    <2>1. UseHostNetwork(pods[p].template)
      BY <1>1, <1>2, <1>3 DEF PodIP, NodeIP
    <2> QED BY <1>1, <1>3, <2>1 DEF HostPortsOK, OnHost
  <1>4. CASE ~UseHostNetwork(pods[id].template)
    BY <1>1, <1>2, <1>4 DEF PodIP, NodeIP
  <1> QED BY <1>3, <1>4

\* A step that leaves the pods alone.
LEMMA PodFrame ==
    ASSUME UNCHANGED pods
    PROVE  /\ UNCHANGED <<Present, Active>>
           /\ HostPortsOK' <=> HostPortsOK
           /\ \A p : (IsNewest(p)' <=> IsNewest(p)) /\ PodIP(p)' = PodIP(p)
  BY DEF Present, Active, HostPortsOK, OnHost, IsNewest, isNewer, PodIP

\* The worker's steps but for the push leave the pods alone.
LEMMA WorkerPush ==
    ASSUME PushInv, Worker PROVE HostPortsOK' /\ LookupOK' /\ RecordOK' /\ StageOK'
  <1> /\ TypeInv /\ TypeOK /\ WorkOK /\ BusyOK /\ PodsOK
      /\ HostPortsOK /\ LookupOK /\ RecordOK /\ StageOK
      /\ work \in Works /\ queue \in QueueOf({NodeName})
    BY DEF PushInv, TypeInv, TypeOK, PodsOK, Works
  <1>record. UNCHANGED <<pods, record>> => RecordOK'
    BY PodFrame DEF RecordOK
  <1>none. ASSUME work'.containerID = 0, UNCHANGED pods PROVE LookupOK'
    BY <1>none, PodFrame, PodFacts DEF LookupOK
  <1>idle. work' = Idle => work'.containerID = 0 /\ work'.pc = "idle"
    BY IdleType
  <1>apply. CASE ApplyCaddy
    <2>1. UNCHANGED <<pods, record>> /\ work.pc = "idle"
      BY <1>apply DEF ApplyCaddy, Ready, BusyOK
    <2> DEFINE taken == Get(queue, NodeName)
    <2>2. \/ Goes(taken, "find") \/ Goes(AddAfter(taken, NodeName), "find")
          \/ Finish(Retry(taken, NodeName))
      BY <1>apply DEF ApplyCaddy
    <2>3. taken \in QueueOf({NodeName})
      BY QueueType
    <2> HIDE DEF taken
    <2>4. CASE Finish(Retry(taken, NodeName))
      <3>1. Pending' /\ work' = Idle
        BY <2>3, <2>4, QueueFields DEF Finish, Pending
      <3> QED BY <2>1, <3>1, <1>record, <1>none, <1>idle, PodFrame DEF StageOK
    <2>5. CASE Goes(taken, "find") \/ Goes(AddAfter(taken, NodeName), "find")
      <3>1. work'.pc = "find" /\ work'.containerID = 0
        BY <2>1, <2>5 DEF Goes, Works, WorkOK
      <3> QED BY <2>1, <3>1, <1>record, <1>none, PodFrame DEF StageOK
    <2> QED BY <2>2, <2>4, <2>5
  <1>find. CASE FindActivePod
    <2>1. PICK list \in SetToSeqs(Present) :
            LET id == startedCaddyContainerID(selectNewestActivePod(list))
            IN work' = [work EXCEPT !.pc = "load", !.containerID = id,
                                    !.ip = IF id = 0 THEN NodeIP ELSE PodIP(id)]
      BY <1>find DEF FindActivePod
    <2> DEFINE id == startedCaddyContainerID(selectNewestActivePod(list))
               ip == IF id = 0 THEN NodeIP ELSE PodIP(id)
    <2>2. work' = [work EXCEPT !.pc = "load", !.containerID = id, !.ip = ip]
      BY <2>1
    <2>3. /\ id # 0 => id \in Active /\ pods[id].phase = "Running"
          /\ \A p \in Active : (\A q \in Active \ {p} : isNewer(p, q)) /\ pods[p].phase = "Running"
                                 => id = p
      BY LookupFacts
    <2>4. id # 0 => ip = PodIP(id)
      OBVIOUS
    <2> HIDE DEF id, ip
    <2>5. work'.pc = "load" /\ work'.containerID = id /\ work'.ip = ip
      BY <2>2 DEF Works
    <2>6. UNCHANGED <<pods, config, queue, record, unseen>>
      BY <1>find DEF FindActivePod, clusterVars
    <2>7. LookupOK'
      BY <2>3, <2>4, <2>5, <2>6, PodFrame, PodFacts DEF LookupOK
    <2>8. StageOK'
      BY <2>3, <2>5, <2>6, PodFrame DEF StageOK, IsNewest
    <2> QED BY <2>6, <2>7, <2>8, <1>record, PodFrame
  <1>load. CASE EnsureLoaded
    <2>1. UNCHANGED <<pods, config, record, unseen>> /\ work.pc = "load"
      BY <1>load DEF EnsureLoaded, clusterVars
    <2>2. CASE Finish(Done(queue, NodeName))
      <3>1. work' = Idle /\ (Pending' <=> Pending)
        BY <2>2, QueueFields DEF Finish, Pending
      <3>2. ASSUME ~unseen, ~Pending, NEW p \in Present, IsNewest(p) PROVE pods[p].running = config
        <4>1. work.containerID = p /\ p # 0
          BY <2>1, <3>2, PodFacts DEF StageOK
        <4>2. pushUpToDate(config, p)
          <5>1. CASE work' = [work EXCEPT !.pc = "push", !.snapshot = config]
            BY <3>1, <5>1, <1>idle DEF Works
          <5> QED BY <1>load, <4>1, <5>1 DEF EnsureLoaded
        <4>3. record = [digest |-> config, containerID |-> p] /\ config \in Config /\ p \in PodName
          BY <4>2, PodFacts DEF pushUpToDate, TypeOK
        <4>4. record \in PushRecords /\ record # Absent
          BY <4>3, SurgeAssumption DEF PushRecords
        <4> QED BY <3>2, <4>3, <4>4 DEF RecordOK, IsNewest
      <3>3. StageOK'
        BY <2>1, <3>1, <3>2, <1>idle, PodFrame DEF StageOK
      <3> QED BY <2>1, <3>1, <3>3, <1>record, <1>none, <1>idle, PodFrame
    <2>3. CASE ~Finish(Done(queue, NodeName))
      <3>1. work' = [work EXCEPT !.pc = "push", !.snapshot = config] /\ UNCHANGED queue
        BY <1>load, <2>3 DEF EnsureLoaded
      <3>2. /\ work'.pc = "push" /\ work'.snapshot = config
            /\ work'.containerID = work.containerID /\ work'.ip = work.ip
        BY <3>1 DEF Works
      <3>3. LookupOK'
        BY <2>1, <3>2, PodFrame DEF LookupOK
      <3>4. StageOK'
        BY <2>1, <3>1, <3>2, PodFrame DEF StageOK, Pending
      <3> QED BY <2>1, <3>3, <3>4, <1>record, PodFrame
    <2> QED BY <2>2, <2>3
  <1>push. CASE PushLoaded
    <2>1. PICK p \in Reached : pods' = [pods EXCEPT ![p].running = work.snapshot]
      BY <1>push DEF PushLoaded
    <2> DEFINE id == work.containerID
    <2>2. /\ p \in Present /\ p \in PodName /\ pods[p] \in Pods
          /\ work.snapshot \in Config /\ id \in PodName /\ work.pc = "push"
      BY <1>push, PodFacts DEF PushLoaded, Reached, WorkOK, Works
    <2>3. /\ record' = [digest |-> work.snapshot, containerID |-> id]
          /\ UNCHANGED <<config, unseen>> /\ work' = Idle /\ (Pending' <=> Pending)
      BY <1>push, QueueFields DEF PushLoaded, Finish, Pending
    <2>4. /\ \A q \in PodName \ {p} : pods'[q] = pods[q]
          /\ pods'[p] = [pods[p] EXCEPT !.running = work.snapshot]
      BY <2>1, <2>2 DEF PodsOK
    <2>5. /\ pods'[p] \in Pods /\ pods'[p].running = work.snapshot
          /\ pods'[p].created = pods[p].created /\ pods'[p].template = pods[p].template
          /\ pods'[p].deleting = pods[p].deleting /\ pods'[p].phase = pods[p].phase
      BY <2>2, <2>4 DEF Pods
    <2>6. pods'[p] # Absent
      BY <2>5, SurgeAssumption
    <2>7. Present' = Present
      BY <2>2, <2>4, <2>6 DEF Present
    <2>8. /\ \A q \in Present : /\ pods'[q].created = pods[q].created
                                /\ pods'[q].template = pods[q].template
                                /\ pods'[q].deleting = pods[q].deleting
                                /\ pods'[q].phase = pods[q].phase
          /\ Present \subseteq PodName
      BY <2>4, <2>5 DEF Present
    <2>9. HostPortsOK'
      BY <2>7, <2>8 DEF HostPortsOK, OnHost
    <2>10. Active' = Active
      BY <2>7, <2>8 DEF Active
    <2>11. Active \subseteq Present
      BY DEF Active
    <2>12. \A q \in Present : IsNewest(q)' => IsNewest(q)
      BY <2>8, <2>10, <2>11 DEF IsNewest, isNewer
    <2>13. id \in Present /\ pods[id].phase = "Running" => p = id
      BY <2>2, PushReaches
    <2>14. RecordOK'
      BY <2>3, <2>5, <2>7, <2>8, <2>13 DEF RecordOK, LookupOK
    <2>15. LookupOK'
      BY <2>3, <2>7, <1>idle, PodFacts DEF LookupOK
    <2>16. StageOK'
      <3> SUFFICES ASSUME ~unseen, ~Pending, NEW q \in Present, IsNewest(q)
                   PROVE  pods'[q].running = config
        BY <2>3, <2>7, <2>12, <1>idle DEF StageOK
      <3>1. id = q /\ work.snapshot = config
        BY <2>2 DEF StageOK
      <3>2. p = id
        BY <2>13, <3>1 DEF IsNewest
      <3> QED BY <2>5, <3>1, <3>2
    <2> QED BY <2>9, <2>14, <2>15, <2>16
  <1>fails. CASE FindActivePodFails \/ PushFails
    <2>1. Finish(Retry(queue, NodeName)) /\ UNCHANGED <<pods, record>>
      BY <1>fails DEF FindActivePodFails, PushFails, clusterVars
    <2>2. work' = Idle /\ Pending'
      BY <2>1, QueueFields DEF Finish, Pending
    <2> QED BY <2>1, <2>2, <1>record, <1>none, <1>idle, PodFrame DEF StageOK
  <1> QED BY <1>apply, <1>find, <1>load, <1>push, <1>fails DEF Worker

\* What may become of a pod that is there: it keeps its template, starts
\* once, and keeps its configuration until it fails.
PodGoesOn(p) ==
    pods'[p] # Absent =>
        /\ pods'[p].template = pods[p].template
        /\ pods'[p].phase = "Pending" => pods[p].phase = "Pending"
        /\ pods'[p].phase = "Running" /\ pods[p].phase # "Pending"
             => pods[p].phase = "Running" /\ pods'[p].running = pods[p].running

\* The cluster's steps, one pod at a time.
LEMMA PodSteps ==
    ASSUME TypeInv, NEW p \in PodName,
           CreatePod(p) \/ DeleteOldPod(p) \/ PodStarts(p) \/ PodGone(p) \/ PodLost(p)
    PROVE  /\ \A q \in PodName \ {p} : pods'[q] = pods[q]
           /\ \/ /\ p \notin Present /\ p # work.containerID
                 /\ record # Absent => p # record.containerID
                 /\ pods'[p].phase = "Pending"
              \/ /\ p \in Present /\ PodGoesOn(p)
                 /\ OnHost(p)' /\ pods'[p] # Absent =>
                      OnHost(p) \/ \A q \in Present \ {p} : ~OnHost(q)
  <1> TypeOK /\ PodsOK /\ IsFiniteSet(Present)
    BY DEF TypeInv, TypeOK, PodsOK
  <1>others. \A q \in PodName \ {p} : pods'[q] = pods[q]
    BY ClusterChange, PodChange
  <1>set. ASSUME NEW pod \in Pods \cup {Absent}, PodChanges(p, pod) PROVE pods'[p] = pod
    BY <1>set, PodChange
  <1>active. p \in Active => p \in Present /\ pods[p] \in Pods
    BY PodFacts DEF Active
  <1>create. CASE CreatePod(p)
    <2> DEFINE pod == [created |-> clock, template |-> applied, deleting |-> FALSE,
                       phase |-> "Pending", running |-> Absent]
    <2>1. /\ p \notin Present /\ p # work.containerID /\ (record # Absent => p # record.containerID)
          /\ PodChanges(p, pod) /\ pod \in Pods
      BY <1>create, NewPodType DEF CreatePod
    <2>2. pod.phase = "Pending"
      OBVIOUS
    <2> HIDE DEF pod
    <2>3. pods'[p] = pod
      BY <2>1, <1>set
    <2> QED BY <2>1, <2>2, <2>3, <1>others
  <1>mark. ASSUME p \in Active, PodChanges(p, [pods[p] EXCEPT !.deleting = TRUE])
           PROVE  p \in Present /\ PodGoesOn(p) /\ (OnHost(p)' /\ pods'[p] # Absent => OnHost(p))
    <2>1. pods'[p] = [pods[p] EXCEPT !.deleting = TRUE]
      BY <1>mark, <1>set, <1>active, PodUpdates
    <2>2. /\ pods'[p].template = pods[p].template /\ pods'[p].phase = pods[p].phase
          /\ pods'[p].running = pods[p].running
      BY <2>1, <1>mark, <1>active DEF Pods
    <2> QED BY <2>2, <1>mark, <1>active DEF PodGoesOn, OnHost
  <1>delete. CASE DeleteOldPod(p)
    BY <1>delete, <1>mark, <1>others DEF DeleteOldPod
  <1>starts. CASE PodStarts(p)
    <2>1. PICK c \in Config : PodChanges(p, [pods[p] EXCEPT !.phase = "Running", !.running = c])
      BY <1>starts DEF PodStarts
    <2>2. p \in Active /\ pods[p].phase = "Pending"
      BY <1>starts DEF PodStarts
    <2>3. pods'[p] = [pods[p] EXCEPT !.phase = "Running", !.running = c]
      BY <2>1, <2>2, <1>set, <1>active, PodUpdates
    <2>4. pods'[p].template = pods[p].template /\ pods'[p].phase = "Running"
      BY <2>2, <2>3, <1>active DEF Pods
    <2>5. OnHost(p)' => \A q \in Present \ {p} : ~OnHost(q)
      BY <1>starts, <2>4 DEF PodStarts, OnHost
    <2> QED BY <2>2, <2>4, <2>5, <1>active, <1>others DEF PodGoesOn
  <1>gone. CASE PodGone(p)
    BY <1>gone, <1>set, <1>others DEF PodGone, PodGoesOn
  <1>lost. CASE PodLost(p)
    <2>1. CASE PodChanges(p, [pods[p] EXCEPT !.deleting = TRUE])
      BY <1>lost, <2>1, <1>mark, <1>others DEF PodLost
    <2>2. CASE PodChanges(p, [pods[p] EXCEPT !.phase = "Failed", !.running = Absent])
      <3>0. p \in Active
        BY <1>lost DEF PodLost
      <3>1. pods'[p] = [pods[p] EXCEPT !.phase = "Failed", !.running = Absent]
        BY <2>2, <3>0, <1>set, <1>active, PodUpdates
      <3>2. pods'[p].template = pods[p].template /\ pods'[p].phase = "Failed"
        BY <3>0, <3>1, <1>active DEF Pods
      <3> QED BY <3>0, <3>2, <1>active, <1>others DEF PodGoesOn, OnHost
    <2> QED BY <1>lost, <2>1, <2>2 DEF PodLost
  <1> QED BY <1>create, <1>delete, <1>starts, <1>gone, <1>lost

\* Pods come and go without making the push record untrue.
LEMMA ClusterPush ==
    ASSUME PushInv, NEW p \in PodName,
           CreatePod(p) \/ DeleteOldPod(p) \/ PodStarts(p) \/ PodGone(p) \/ PodLost(p)
    PROVE  HostPortsOK' /\ LookupOK' /\ RecordOK' /\ StageOK'
  <1> /\ TypeInv /\ TypeOK /\ HostPortsOK /\ LookupOK /\ RecordOK /\ Present \subseteq PodName
    BY DEF PushInv, TypeInv, Present
  <1>1. /\ \A q \in PodName \ {p} : pods'[q] = pods[q]
        /\ \/ /\ p \notin Present /\ p # work.containerID
              /\ record # Absent => p # record.containerID
              /\ pods'[p].phase = "Pending"
           \/ /\ p \in Present /\ PodGoesOn(p)
              /\ OnHost(p)' /\ pods'[p] # Absent =>
                   OnHost(p) \/ \A q \in Present \ {p} : ~OnHost(q)
    BY PodSteps
  <1>2. UNCHANGED <<work, record>> /\ unseen' = TRUE
    BY ClusterChange DEF managerVars
  <1>3. \A q \in PodName \ {p} : /\ q \in Present' <=> q \in Present
                                 /\ (OnHost(q)' <=> OnHost(q)) /\ PodIP(q)' = PodIP(q)
    BY <1>1 DEF Present, OnHost, PodIP
  <1>4. Present' \subseteq PodName /\ \A q \in Present' : pods'[q] # Absent
    BY DEF Present
  <1>5. p \in Present /\ PodGoesOn(p) /\ p \in Present' => PodIP(p)' = PodIP(p)
    BY <1>4 DEF PodGoesOn, PodIP
  <1>6. HostPortsOK'
    <2>1. p \notin Present => ~OnHost(p)'
      BY <1>1 DEF OnHost
    <2>2. ASSUME NEW q \in Present', q # p, OnHost(p)', OnHost(q)', p \in Present' PROVE FALSE
      <3>1. q \in Present /\ OnHost(q) /\ p \in Present
        BY <1>3, <1>4, <2>1, <2>2
      <3>2. OnHost(p)
        BY <1>1, <1>4, <2>2, <3>1
      <3> QED BY <2>2, <3>1, <3>2 DEF HostPortsOK
    <2>3. ASSUME NEW q \in Present', NEW r \in Present', q # p, r # p, OnHost(q)', OnHost(r)'
          PROVE  q = r
      BY <1>3, <1>4, <2>3 DEF HostPortsOK
    <2> QED BY <2>2, <2>3 DEF HostPortsOK
  <1>7. LookupOK'
    <2> SUFFICES ASSUME NEW id, id = work.containerID, id \in Present'
                 PROVE  pods'[id].phase # "Pending" /\ work.ip = PodIP(id)'
      BY <1>2 DEF LookupOK, PodIP
    <2>1. CASE id # p
      BY <1>1, <1>3, <1>4, <2>1 DEF LookupOK
    <2>2. CASE id = p
      BY <1>1, <1>4, <1>5, <2>2 DEF LookupOK, PodGoesOn
    <2> QED BY <2>1, <2>2
  <1>8. RecordOK'
    <2> SUFFICES ASSUME record # Absent, record.containerID \in Present'
                 PROVE  LET pod == pods'[record.containerID]
                        IN /\ pod.phase # "Pending"
                           /\ pod.phase = "Running" => pod.running = record.digest
      BY <1>2 DEF RecordOK
    <2>1. CASE record.containerID # p
      BY <1>1, <1>3, <1>4, <2>1 DEF RecordOK
    <2>2. CASE record.containerID = p
      BY <1>1, <1>4, <2>2 DEF RecordOK, PodGoesOn
    <2> QED BY <2>1, <2>2
  <1> QED BY <1>2, <1>6, <1>7, <1>8 DEF StageOK

\* Every step keeps what the worker pushes in order.
LEMMA PushStep == PushInv /\ [Next]_vars => PushInv'
  <1> SUFFICES ASSUME PushInv, [Next]_vars
               PROVE  HostPortsOK' /\ LookupOK' /\ RecordOK' /\ StageOK'
    BY TypeStep DEF PushInv
  <1> /\ TypeInv /\ HostPortsOK /\ LookupOK /\ RecordOK /\ StageOK /\ PodsOK
      /\ queue \in QueueOf({NodeName})
    BY DEF PushInv, TypeInv, TypeOK, PodsOK
  <1>frame. ASSUME UNCHANGED <<pods, work, record>> PROVE HostPortsOK' /\ LookupOK' /\ RecordOK'
    BY <1>frame, PodFrame DEF LookupOK, RecordOK
  <1>worker. CASE Worker
    BY <1>worker, WorkerPush
  <1>informer. CASE Informer
    <2>1. Pending'
      BY <1>informer, QueueFields DEF Informer, DelayExpires, ObjectEvent, Pending
    <2>2. UNCHANGED <<pods, work, record>>
      BY <1>informer DEF Informer, DelayExpires, ObjectEvent, clusterVars
    <2> QED BY <2>1, <2>2, <1>frame DEF StageOK
  <1>edit. CASE EditConfig
    <2>1. Pending' /\ UNCHANGED <<pods, work, record>>
      BY <1>edit, QueueFields DEF EditConfig, Pending, clusterVars
    <2> QED BY <2>1, <1>frame DEF StageOK
  <1>restart. CASE Restart
    <2>1. work' = Idle /\ record' = Absent /\ Pending' /\ UNCHANGED pods
      BY <1>restart, StartQueueType DEF Restart, Pending, clusterVars
    <2>2. LookupOK'
      BY <2>1, IdleType, PodFrame, PodFacts DEF LookupOK
    <2> QED BY <2>1, <2>2, PodFrame DEF RecordOK, StageOK
  <1>cluster. ASSUME NEW p \in PodName,
                     CreatePod(p) \/ DeleteOldPod(p) \/ PodStarts(p) \/ PodGone(p) \/ PodLost(p)
              PROVE  HostPortsOK' /\ LookupOK' /\ RecordOK' /\ StageOK'
    BY <1>cluster, ClusterPush
  <1>still. CASE Tick \/ UNCHANGED vars
    <2>1. UNCHANGED <<pods, work, record, queue, unseen, config>>
      BY <1>still DEF Tick, vars, clusterVars, managerVars
    <2> QED BY <2>1, <1>frame, PodFrame DEF StageOK, Pending
  <1> QED BY <1>worker, <1>informer, <1>edit, <1>restart, <1>cluster, <1>still DEF Next, Cluster

\* FindActivePod, ensureLoaded and managedObjectHandler: however pods come and
\* go between the lookup, the push and its record, the pod that a lookup would
\* find is in sync once nothing is left to do.
THEOREM NewestPushedWhenQuiescent == Spec => []QuiescentMeansNewestPushed
  <1>1. PushInv => QuiescentMeansNewestPushed
    <2> SUFFICES ASSUME PushInv, IsIdle(queue, NodeName), ~unseen, NEW p \in Active,
                        \A q \in Active \ {p} : isNewer(p, q), pods[p].phase = "Running"
                 PROVE  pods[p].running = config
      BY DEF QuiescentMeansNewestPushed
    <2>1. StageOK /\ BusyOK
      BY DEF PushInv, TypeInv
    <2>2. ~Pending /\ work.pc = "idle"
      BY <2>1 DEF IsIdle, Pending, BusyOK
    <2>3. IsNewest(p) /\ p \in Present
      BY DEF IsNewest, Active
    <2> QED BY <2>1, <2>2, <2>3 DEF StageOK
  <1> QED BY <1>1, PushInit, PushStep, PTL DEF Spec
=============================================================================
