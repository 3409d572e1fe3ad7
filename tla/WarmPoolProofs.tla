--------------------------- MODULE WarmPoolProofs ---------------------------
(* Safety of the warm pool for every choice of the constants.               *)
EXTENDS WarmPool, TLAPS, FiniteSetTheorems

(* Only finitely many ids exist, so what the pool holds can be counted.     *)
LEMMA CountsAreNat ==
  ASSUME TypeOK
  PROVE  /\ \A k \in Key : Total(k) \in Nat /\ Len(idle[k]) \in Nat
         /\ \A S \in SUBSET SandboxId : IsFiniteSet(S) /\ Cardinality(S) \in Nat
<1>1. \A S \in SUBSET SandboxId : IsFiniteSet(S) /\ Cardinality(S) \in Nat
  BY PoolAssumption, FS_Subset, FS_CardinalityType
<1>2. ASSUME NEW k \in Key
      PROVE  Total(k) \in Nat /\ Len(idle[k]) \in Nat
  <2>1. idle[k] \in Seq(SandboxId) /\ active[k] \in SUBSET SandboxId
    BY DEF TypeOK
  <2>2. Len(idle[k]) \in Nat /\ Cardinality(active[k]) \in Nat
    BY <2>1, <1>1
  <2>. QED BY <2>2 DEF Total
<1>. QED BY <1>1, <1>2

(* What the reaper takes off a deque and what it leaves, element by element. *)
LEMMA SplitSequence ==
  ASSUME NEW S, NEW s \in Seq(S), NEW n \in Nat, n <= Len(s)
  PROVE  /\ SubSeq(s, n + 1, Len(s)) \in Seq(S) /\ SubSeq(s, 1, n) \in Seq(S)
         /\ Len(SubSeq(s, n + 1, Len(s))) = Len(s) - n /\ Len(SubSeq(s, 1, n)) = n
         /\ \A j \in 1 .. Len(s) - n : SubSeq(s, n + 1, Len(s))[j] = s[j + n]
         /\ \A j \in 1 .. n : SubSeq(s, 1, n)[j] = s[j]
<1>1. Len(s) \in Nat
  OBVIOUS
<1>2. /\ SubSeq(s, n + 1, Len(s)) \in Seq(S) /\ SubSeq(s, 1, n) \in Seq(S)
  BY <1>1
<1>3. Len(SubSeq(s, n + 1, Len(s))) = Len(s) - n /\ Len(SubSeq(s, 1, n)) = n
  BY <1>1
<1>4. \A j \in 1 .. Len(s) - n : SubSeq(s, n + 1, Len(s))[j] = s[j + n]
  BY <1>1
<1>5. \A j \in 1 .. n : SubSeq(s, 1, n)[j] = s[j]
  BY <1>1
<1>. QED BY <1>2, <1>3, <1>4, <1>5

LEMMA ElementsOf ==
  ASSUME NEW S, NEW s \in Seq(S)
  PROVE  Range(s) \subseteq S
BY DEF Range

DockerType ==
  /\ container \in [SandboxId -> {"unborn", "up", "stuck", "gone"}]
  /\ expires \in [SandboxId -> BOOLEAN]

(* Whatever the provider is asked to do, a container is in one state.       *)
LEMMA CreateType ==
  ASSUME DockerType, NEW i \in SandboxId, NEW ttl \in BOOLEAN, Create(i, ttl)
  PROVE  DockerType'
BY DEF DockerType, Create

LEMMA CreateFailsType ==
  ASSUME DockerType, NEW ttl \in BOOLEAN, CreateFails(ttl)
  PROVE  DockerType'
<1>1. CASE UNCHANGED dockerVars
  BY <1>1 DEF DockerType, dockerVars
<1>2. CASE \E i \in SandboxId : Leave(i, ttl)
  BY <1>2 DEF DockerType, Leave
<1>. QED BY <1>1, <1>2 DEF CreateFails

LEMMA DestroyType ==
  ASSUME DockerType, NEW S, Destroy(S)
  PROVE  DockerType'
BY DEF DockerType, Destroy

(* The pool's bookkeeping keeps its types: in particular todo never goes    *)
(* below zero and only existing ids are ever tracked.                       *)
THEOREM TypeCorrect == Spec => []TypeOK
<1> USE PoolAssumption
<1>1. Init => TypeOK
  BY DEF Init, TypeOK, RpcState, Warm
<1>2. TypeOK /\ [Next]_vars => TypeOK'
  <2> SUFFICES ASSUME TypeOK, [Next]_vars PROVE TypeOK'
    OBVIOUS
  <2> USE DEF TypeOK, RpcState, poolVars, dockerVars, loopVars, destroyVars
  <2>1. ASSUME NEW c \in Client, NEW k \in Key, AcquireHit(c, k) PROVE TypeOK'
    <3>1. idle[k] \in Seq(SandboxId) /\ idle[k] # <<>>
      BY <2>1 DEF AcquireHit
    <3>2. Head(idle[k]) \in SandboxId /\ Tail(idle[k]) \in Seq(SandboxId)
      BY <3>1
    <3>3. idle' \in [Key -> Seq(SandboxId)] /\ active' \in [Key -> SUBSET SandboxId]
      BY <2>1, <3>2 DEF AcquireHit
    <3>4. leases' \in [SandboxId -> Nat]
      <4>1. leases' = [leases EXCEPT ![Head(idle[k])] = @ + 1]
        BY <2>1 DEF AcquireHit, Reply
      <4>2. leases \in [SandboxId -> Nat]
        OBVIOUS
      <4> HIDE DEF TypeOK
      <4>. QED BY <3>2, <4>1, <4>2
    <3>. QED BY <2>1, <3>3, <3>4 DEF AcquireHit
  <2>2. ASSUME NEW c \in Client, NEW k \in Key, AcquireMiss(c, k) PROVE TypeOK'
    <3>1. PICK i \in SandboxId : /\ Create(i, TRUE) /\ Reply(i)
                                 /\ active' = [active EXCEPT ![k] = @ \cup {i}]
      BY <2>2 DEF AcquireMiss
    <3>2. DockerType'
      BY <3>1, CreateType DEF DockerType
    <3>3. leases' \in [SandboxId -> Nat]
      BY <3>1 DEF Reply
    <3>4. active' \in [Key -> SUBSET SandboxId]
      BY <3>1
    <3>. QED BY <2>2, <3>2, <3>3, <3>4 DEF AcquireMiss, DockerType
  <2>3. ASSUME NEW c \in Client, NEW k \in Key, AcquireMissFails(c, k) PROVE TypeOK'
    <3>1. DockerType'
      BY <2>3, CreateFailsType DEF AcquireMissFails, DockerType
    <3>. QED BY <2>3, <3>1 DEF AcquireMissFails, FallThrough, DockerType
  <2>4. ASSUME NEW c \in Client, NEW k \in Key, AcquireAtCapacity(c, k) PROVE TypeOK'
    BY <2>4 DEF AcquireAtCapacity, FallThrough
  <2>5. ASSUME NEW c \in Client, AcquireBypass(c) PROVE TypeOK'
    BY <2>5 DEF AcquireBypass, FallThrough
  <2>6. ASSUME NEW c \in Client, DirectCreate(c) \/ DirectCreateFails(c) PROVE TypeOK'
    <3>1. CASE DirectCreate(c)
      <4>1. PICK i \in SandboxId : Create(i, TRUE) /\ Reply(i)
        BY <3>1 DEF DirectCreate
      <4>2. DockerType'
        BY <4>1, CreateType DEF DockerType
      <4>3. leases' \in [SandboxId -> Nat]
        BY <4>1 DEF Reply
      <4>. QED BY <3>1, <4>2, <4>3 DEF DirectCreate, DockerType
    <3>2. CASE DirectCreateFails(c)
      BY <3>2, CreateFailsType DEF DirectCreateFails, DockerType
    <3>. QED BY <2>6, <3>1, <3>2
  <2>7. ASSUME NEW c \in Client, DestroyBegin(c) PROVE TypeOK'
    <3>1. PICK S \in (SUBSET Given) \cup (IF Tidy THEN {} ELSE {Exists}) :
            targets' = [targets EXCEPT ![c] = S]
      BY <2>7 DEF DestroyBegin
    <3>2. Given \subseteq SandboxId /\ Exists \subseteq SandboxId
      BY DEF Given, Exists
    <3>3. S \subseteq SandboxId
      <4> HIDE DEF TypeOK
      <4>. QED BY <3>2
    <3>. QED BY <2>7, <3>1, <3>3 DEF DestroyBegin
  <2>8. ASSUME NEW c \in Client, DestroyOne(c) PROVE TypeOK'
    <3>1. PICK i \in targets[c] \cap Exists :
            /\ container' = [container EXCEPT ![i] = "gone"]
            /\ targets' = [targets EXCEPT ![c] = @ \ {i}]
            /\ victim' = [victim EXCEPT ![c] = {i}]
      BY <2>8 DEF DestroyOne
    <3>2. i \in SandboxId
      BY DEF Exists
    <3>. QED BY <2>8, <3>1, <3>2 DEF DestroyOne
  <2>9. ASSUME NEW c \in Client, DestroySkip(c) PROVE TypeOK'
    BY <2>9 DEF DestroySkip, Resume
  <2>10. ASSUME NEW c \in Client, NEW k \in Key, OnDestroyActive(c, k) PROVE TypeOK'
    BY <2>10 DEF OnDestroyActive
  <2>11. ASSUME NEW c \in Client, OnDestroyOther(c) \/ NotifyOne(c) PROVE TypeOK'
    BY <2>11 DEF OnDestroyOther, NotifyOne, Resume
  <2>12. ASSUME NEW c \in Client, HangUp(c) PROVE TypeOK'
    BY <2>12 DEF HangUp
  <2>13. ASSUME NEW c \in Client, PoolWarmup(c) PROVE TypeOK'
    BY <2>13 DEF PoolWarmup
  <2>14. ASSUME NEW c \in Client, PoolDrain(c) PROVE TypeOK'
    BY <2>14 DEF PoolDrain, Drain, Destroy
  <2>15. ASSUME LoopStep PROVE TypeOK'
    <3>1. \A k \in Key : Deficit(k) \in Nat
      <4> HIDE DEF TypeOK
      <4>1. /\ MinIdle \in [Key -> Nat] /\ MaxTotal \in [Key -> Nat]
            /\ \A k \in Key : Total(k) \in Nat /\ Len(idle[k]) \in Nat
        BY CountsAreNat
      <4>. QED BY <4>1 DEF Deficit, Smaller, Monus
    <3>2. CASE \E k \in Key : Pick(k)
      BY <3>1, <3>2 DEF Pick
    <3>. QED
      BY <2>15, <3>2 DEF LoopStep, Wake, DrainPending, PickNone, BatchDone
  <2>16. ASSUME WorkerStep PROVE TypeOK'
    <3>1. CASE WorkerCreate
      BY <3>1 DEF WorkerCreate, Create
    <3>2. CASE WorkerCreateFails
      <4>1. DockerType'
        BY <3>2, CreateFailsType DEF WorkerCreateFails, DockerType
      <4>. QED BY <3>2, <4>1 DEF WorkerCreateFails, DockerType
    <3>3. CASE WorkerPush
      BY <3>3 DEF WorkerPush
    <3>. QED BY <2>16, <3>1, <3>2, <3>3 DEF WorkerStep
  <2>17. CASE ReapCollect
    <3> PICK n \in [Key -> 0 .. Cardinality(SandboxId)] :
          /\ \A k \in Key : n[k] \in Monus(Len(idle[k]), MaxIdle[k]) .. Len(idle[k])
          /\ idle' = [k \in Key |-> SubSeq(idle[k], n[k] + 1, Len(idle[k]))]
          /\ reaping' = UNION {Range(SubSeq(idle[k], 1, n[k])) : k \in Key}
      BY <2>17 DEF ReapCollect
    <3>1. Cardinality(SandboxId) \in Nat
      BY FS_CardinalityType
    <3>2. ASSUME NEW k \in Key
          PROVE  /\ SubSeq(idle[k], n[k] + 1, Len(idle[k])) \in Seq(SandboxId)
                 /\ SubSeq(idle[k], 1, n[k]) \in Seq(SandboxId)
      <4> HIDE DEF TypeOK
      <4>1. idle[k] \in Seq(SandboxId)
        BY DEF TypeOK
      <4>2. n[k] \in Nat /\ n[k] <= Len(idle[k])
        BY <3>1, <4>1 DEF Monus
      <4>. QED BY <4>1, <4>2, SplitSequence
    <3>3. idle' \in [Key -> Seq(SandboxId)]
      BY <3>2
    <3>4. reaping' \in SUBSET SandboxId
      <4>1. \A k \in Key : Range(SubSeq(idle[k], 1, n[k])) \subseteq SandboxId
        <5> HIDE DEF TypeOK
        <5>. QED BY <3>2, ElementsOf
      <4>2. reaping' = UNION {Range(SubSeq(idle[k], 1, n[k])) : k \in Key}
        OBVIOUS
      <4> HIDE DEF TypeOK
      <4>. QED BY <4>1, <4>2
    <3>. QED BY <2>17, <3>3, <3>4 DEF ReapCollect
  <2>18. CASE ReapDestroy
    BY <2>18 DEF ReapDestroy, Destroy
  <2>19. CASE GcStep
    BY <2>19 DEF GcStep, GcExpired, GcAll
  <2>20. CASE ProcessStep
    <3>1. CASE PoolShutdown
      BY <3>1 DEF PoolShutdown, Drain, Destroy
    <3>. QED BY <2>20, <3>1 DEF ProcessStep, CtrlC, Exit, IdleExit
  <2>21. CASE UNCHANGED vars
    BY <2>21 DEF vars
  <2>. QED
    BY <2>1, <2>2, <2>3, <2>4, <2>5, <2>6, <2>7, <2>8, <2>9, <2>10, <2>11, <2>12,
       <2>13, <2>14, <2>15, <2>16, <2>17, <2>18, <2>19, <2>20, <2>21
    DEF Next, ClientStep, ReaperStep
<1>. QED BY <1>1, <1>2, PTL DEF Spec

-----------------------------------------------------------------------------
(* A key waiting in pending_replenish always has a wake-up on its way to    *)
(* the replenish task, whatever the number of calls and pools.              *)
THEOREM WakeupKept == Spec => []NoLostWakeup
<1>1. Init => NoLostWakeup
  BY DEF Init, NoLostWakeup
<1>2. TypeOK /\ NoLostWakeup /\ [Next]_vars => NoLostWakeup'
  <2> SUFFICES ASSUME TypeOK, NoLostWakeup, [Next]_vars PROVE NoLostWakeup'
    OBVIOUS
  <2>1. rpc \in [Client -> RpcState]
    BY DEF TypeOK
  <2> USE <2>1 DEF NoLostWakeup, poolVars, dockerVars, loopVars, destroyVars
  <2>2. ASSUME NEW c \in Client, NEW k \in Key,
               AcquireHit(c, k) \/ AcquireMiss(c, k) \/ OnDestroyActive(c, k)
        PROVE  NoLostWakeup'
    BY <2>2 DEF AcquireHit, AcquireMiss, OnDestroyActive
  <2>3. ASSUME NEW c \in Client, PoolWarmup(c) PROVE NoLostWakeup'
    BY <2>3 DEF PoolWarmup
  <2>4. ASSUME NEW c \in Client, NotifyOne(c) PROVE NoLostWakeup'
    BY <2>4 DEF NotifyOne
  <2>5. ASSUME NEW c \in Client, NEW x \in RpcState, rpc[c] # "signal",
               rpc' = [rpc EXCEPT ![c] = x], UNCHANGED <<pending, permit, loop>>
        PROVE  NoLostWakeup'
    BY <2>5
  <2>6. ASSUME NEW c \in Client,
               \/ AcquireBypass(c)
               \/ \E k \in Key : AcquireMissFails(c, k) \/ AcquireAtCapacity(c, k)
        PROVE  NoLostWakeup'
    BY <2>6, <2>5 DEF AcquireMissFails, AcquireAtCapacity, AcquireBypass, FallThrough,
                      Serving, RpcState
  <2>7. ASSUME NEW c \in Client,
               \/ DirectCreate(c) \/ DirectCreateFails(c) \/ DestroyBegin(c)
               \/ DestroyOne(c) \/ OnDestroyOther(c) \/ HangUp(c)
        PROVE  NoLostWakeup'
    BY <2>7, <2>5 DEF DirectCreate, DirectCreateFails, DestroyBegin, DestroyOne, Serving,
                      OnDestroyOther, HangUp, Resume, RpcState
  <2>8. ASSUME NEW c \in Client, DestroySkip(c) PROVE NoLostWakeup'
    BY <2>8, <2>5 DEF DestroySkip, Resume, RpcState
  <2>9. CASE LoopStep
    <3>1. CASE Wake
      BY <3>1 DEF Wake
    <3>2. CASE DrainPending
      BY <3>2 DEF DrainPending
    <3>3. CASE UNCHANGED <<pending, permit, rpc>> /\ loop # "drain"
      BY <3>3
    <3>4. CASE PickNone \/ BatchDone
      BY <3>3, <3>4 DEF PickNone, BatchDone
    <3>5. ASSUME NEW k \in Key, Pick(k) PROVE NoLostWakeup'
      BY <3>3, <3>5 DEF Pick
    <3>. QED BY <2>9, <3>1, <3>2, <3>4, <3>5 DEF LoopStep
  <2>10. ASSUME UNCHANGED <<pending, permit, loop, rpc>> PROVE NoLostWakeup'
    BY <2>10
  <2>11. ASSUME NEW c \in Client, PoolDrain(c) PROVE NoLostWakeup'
    BY <2>10, <2>11 DEF PoolDrain
  <2>12. CASE WorkerStep
    BY <2>10, <2>12 DEF WorkerStep, WorkerCreate, WorkerCreateFails, WorkerPush
  <2>13. CASE ReaperStep
    BY <2>10, <2>13 DEF ReaperStep, ReapCollect, ReapDestroy
  <2>14. CASE GcStep
    BY <2>10, <2>14 DEF GcStep, GcExpired, GcAll
  <2>15. CASE ProcessStep
    BY <2>10, <2>15 DEF ProcessStep, CtrlC, PoolShutdown, Exit, IdleExit
  <2>16. CASE UNCHANGED vars
    BY <2>10, <2>16 DEF vars
  <2>17. ASSUME NEW c \in Client, ClientStep(c) PROVE NoLostWakeup'
    BY <2>17, <2>2, <2>3, <2>4, <2>6, <2>7, <2>8, <2>11 DEF ClientStep
  <2>. QED BY <2>9, <2>12, <2>13, <2>14, <2>15, <2>16, <2>17 DEF Next
<1>. QED BY <1>1, <1>2, TypeCorrect, PTL DEF Spec

-----------------------------------------------------------------------------
(* How many sandboxes a pool can come to hold.                              *)

(* Creations are under way only while the replenish task waits for them.    *)
BatchOnly == loop # "batch" => todo = 0 /\ made = {}

(* The two bounds for one pool, on the numbers they are about.              *)
Within(k, len, act, coming) ==
  /\ len + coming <= MinIdle[k]
  /\ len + act + coming <= MaxTotal[k] + MinIdle[k]

LEMMA BoundsPerKey ==
  ASSUME TypeOK
  PROVE  IdleBound /\ CapacityBound <=>
           \A k \in Key : Within(k, Len(idle[k]), Cardinality(active[k]), Coming(k))
BY DEF IdleBound, CapacityBound, Within, Total

(* Fewer is within the bounds, too.                                         *)
LEMMA FewerWithin ==
  ASSUME NEW k \in Key, NEW l \in Nat, NEW a \in Nat, NEW c \in Nat, Within(k, l, a, c),
         NEW l2 \in Nat, NEW a2 \in Nat, NEW c2 \in Nat, l2 <= l, a2 <= a, c2 <= c
  PROVE  Within(k, l2, a2, c2)
<1>1. MinIdle[k] \in Nat /\ MaxTotal[k] \in Nat
  BY PoolAssumption
<1>. QED BY <1>1 DEF Within

(* Handing an idle sandbox out moves it; a miss adds one below capacity.    *)
LEMMA MovedWithin ==
  ASSUME NEW k \in Key, NEW l \in Nat, NEW a \in Nat, NEW c \in Nat, Within(k, l, a, c),
         NEW l2 \in Nat, NEW a2 \in Nat, a2 <= a + 1, l2 = l - 1 \/ (l2 = l /\ l + a < MaxTotal[k])
  PROVE  Within(k, l2, a2, c)
<1>1. MinIdle[k] \in Nat /\ MaxTotal[k] \in Nat
  BY PoolAssumption
<1>. QED BY <1>1 DEF Within

(* A finished creation pushed to the deque was counted as coming.           *)
LEMMA PushedWithin ==
  ASSUME NEW k \in Key, NEW l \in Nat, NEW a \in Nat, NEW c \in Nat, Within(k, l, a, c),
         NEW l2 \in Nat, NEW c2 \in Nat, l2 = l + 1, c2 = c - 1
  PROVE  Within(k, l2, a, c2)
<1>1. MinIdle[k] \in Nat /\ MaxTotal[k] \in Nat
  BY PoolAssumption
<1>. QED BY <1>1 DEF Within

LEMMA OneMore ==
  ASSUME NEW S \in SUBSET SandboxId, NEW i
  PROVE  Cardinality(S \cup {i}) <= Cardinality(S) + 1
<1>1. IsFiniteSet(S) /\ Cardinality(S) \in Nat
  BY PoolAssumption, FS_Subset, FS_CardinalityType
<1>2. Cardinality(S \cup {i}) = IF i \in S THEN Cardinality(S) ELSE Cardinality(S) + 1
  BY <1>1, FS_AddElement
<1>. QED BY <1>1, <1>2

(* The numbers of one pool, before and after a step, are numbers.           *)
LEMMA NumbersType ==
  ASSUME TypeOK, TypeOK', NEW q \in Key
  PROVE  /\ Len(idle[q]) \in Nat /\ Cardinality(active[q]) \in Nat /\ Coming(q) \in Nat
         /\ Len(idle'[q]) \in Nat /\ Cardinality(active'[q]) \in Nat /\ Coming(q)' \in Nat
         /\ Cardinality(made) \in Nat /\ Cardinality(made') \in Nat
         /\ IsFiniteSet(made) /\ IsFiniteSet(active[q])
         /\ todo \in Nat /\ todo' \in Nat
         /\ MinIdle[q] \in Nat /\ MaxTotal[q] \in Nat
<1>1. /\ idle[q] \in Seq(SandboxId) /\ idle'[q] \in Seq(SandboxId)
      /\ active[q] \in SUBSET SandboxId /\ active'[q] \in SUBSET SandboxId
      /\ made \in SUBSET SandboxId /\ made' \in SUBSET SandboxId
      /\ todo \in Nat /\ todo' \in Nat
  BY DEF TypeOK
<1>2. \A S \in SUBSET SandboxId : IsFiniteSet(S) /\ Cardinality(S) \in Nat
  BY PoolAssumption, FS_Subset, FS_CardinalityType
<1>3. MinIdle[q] \in Nat /\ MaxTotal[q] \in Nat
  BY PoolAssumption
<1>. QED BY <1>1, <1>2, <1>3 DEF Coming

(* A step that shortens a deque, or leaves it alone, and adds neither       *)
(* active sandboxes nor creations keeps the bounds.                         *)
LEMMA ShrinkingKeeps ==
  ASSUME TypeOK, TypeOK', NEW q \in Key,
         Within(q, Len(idle[q]), Cardinality(active[q]), Coming(q)),
         Len(idle'[q]) <= Len(idle[q]), active'[q] \subseteq active[q],
         UNCHANGED <<cur, made>>, todo' <= todo
  PROVE  Within(q, Len(idle'[q]), Cardinality(active'[q]), Coming(q)')
<1>1. Cardinality(active'[q]) <= Cardinality(active[q])
  BY NumbersType, FS_Subset
<1>2. Coming(q)' <= Coming(q)
  BY NumbersType DEF Coming
<1>. QED BY <1>1, <1>2, NumbersType, FewerWithin

(* A pool never holds more than min_idle idle sandboxes, finished creations *)
(* included, and never more than max_total + min_idle sandboxes in all: the *)
(* batch in flight is what try_acquire cannot see.                          *)
THEOREM Bounded == Spec => [](IdleBound /\ CapacityBound)
<1> DEFINE Ok(q) == Within(q, Len(idle[q]), Cardinality(active[q]), Coming(q))
           Inv == BatchOnly /\ \A q \in Key : Ok(q)
<1>1. Init => Inv
  <2> SUFFICES ASSUME Init, NEW q \in Key PROVE BatchOnly /\ Ok(q)
    BY PoolAssumption
  <2>1. Len(idle[q]) = 0 /\ Cardinality(active[q]) = 0 /\ Coming(q) = 0
    BY FS_EmptySet DEF Init, Coming
  <2>2. MinIdle[q] \in Nat /\ MaxTotal[q] \in Nat
    BY PoolAssumption
  <2>. QED BY <2>1, <2>2 DEF Within, BatchOnly, Init
<1>2. TypeOK /\ TypeOK' /\ Inv /\ [Next]_vars => Inv'
  <2> SUFFICES ASSUME TypeOK, TypeOK', Inv, [Next]_vars, NEW q \in Key
               PROVE  BatchOnly' /\ Ok(q)'
    BY PoolAssumption
  <2>0. Ok(q)
    OBVIOUS
  <2> USE DEF poolVars, dockerVars, loopVars, destroyVars
  <2> HIDE DEF Ok
  <2>1. ASSUME UNCHANGED <<idle, active, loopVars>> PROVE BatchOnly' /\ Ok(q)'
    <3>1. Len(idle'[q]) <= Len(idle[q]) /\ todo' <= todo
      BY <2>1, NumbersType
    <3>2. Ok(q)'
      BY <2>0, <2>1, <3>1, ShrinkingKeeps DEF Ok
    <3>. QED BY <2>1, <3>2 DEF BatchOnly
  <2>2. ASSUME NEW c \in Client, NEW k \in Key, AcquireHit(c, k) PROVE BatchOnly' /\ Ok(q)'
    <3>1. BatchOnly' /\ UNCHANGED <<cur, made, todo>>
      BY <2>2 DEF AcquireHit, BatchOnly
    <3>2. CASE q = k
      <4>1. idle[q] \in Seq(SandboxId) /\ idle[q] # <<>> /\ idle'[q] = Tail(idle[q])
        BY <2>2, <3>2 DEF AcquireHit, TypeOK
      <4>2. Len(idle'[q]) = Len(idle[q]) - 1
        BY <4>1
      <4>3. active'[q] = active[q] \cup {Head(idle[q])}
        BY <2>2, <3>2 DEF AcquireHit, TypeOK
      <4>4. Cardinality(active'[q]) <= Cardinality(active[q]) + 1
        BY <4>3, OneMore DEF TypeOK
      <4>5. Coming(q)' = Coming(q)
        BY <3>1 DEF Coming
      <4>. QED BY <2>0, <3>1, <4>2, <4>4, <4>5, NumbersType, MovedWithin DEF Ok
    <3>3. CASE q # k
      <4>1. idle'[q] = idle[q] /\ active'[q] = active[q] /\ Coming(q)' = Coming(q)
        BY <2>2, <3>1, <3>3 DEF AcquireHit, TypeOK, Coming
      <4>. QED BY <2>0, <3>1, <4>1 DEF Ok
    <3>. QED BY <3>2, <3>3
  <2>3. ASSUME NEW c \in Client, NEW k \in Key, AcquireMiss(c, k) PROVE BatchOnly' /\ Ok(q)'
    <3>1. BatchOnly' /\ UNCHANGED <<idle, cur, made, todo>>
      BY <2>3 DEF AcquireMiss, BatchOnly
    <3>2. PICK i \in SandboxId : active' = [active EXCEPT ![k] = @ \cup {i}]
      BY <2>3 DEF AcquireMiss
    <3>3. Coming(q)' = Coming(q)
      BY <3>1 DEF Coming
    <3>4. CASE q = k
      <4>1. Len(idle[q]) + Cardinality(active[q]) < MaxTotal[q]
        BY <2>3, <3>4, NumbersType DEF AcquireMiss, AtCapacity, Total
      <4>2. active'[q] = active[q] \cup {i}
        BY <3>2, <3>4 DEF TypeOK
      <4>3. Cardinality(active'[q]) <= Cardinality(active[q]) + 1
        BY <4>2, OneMore DEF TypeOK
      <4>. QED BY <2>0, <3>1, <3>3, <4>1, <4>3, NumbersType, MovedWithin DEF Ok
    <3>5. CASE q # k
      BY <2>0, <3>1, <3>2, <3>3, <3>5 DEF Ok, TypeOK
    <3>. QED BY <3>4, <3>5
  <2>4. ASSUME NEW c \in Client, NEW k \in Key, OnDestroyActive(c, k)
        PROVE  BatchOnly' /\ Ok(q)'
    <3>1. BatchOnly' /\ UNCHANGED <<idle, cur, made, todo>>
      BY <2>4 DEF OnDestroyActive, BatchOnly
    <3>2. active'[q] \subseteq active[q]
      BY <2>4 DEF OnDestroyActive, TypeOK
    <3>3. Len(idle'[q]) <= Len(idle[q]) /\ todo' <= todo
      BY <3>1, NumbersType
    <3>. QED BY <2>0, <3>1, <3>2, <3>3, ShrinkingKeeps DEF Ok
  <2>5. ASSUME Drain, UNCHANGED <<active, loopVars>> PROVE BatchOnly' /\ Ok(q)'
    <3>1. Len(idle'[q]) <= Len(idle[q]) /\ todo' <= todo
      BY <2>5, NumbersType DEF Drain
    <3>2. Ok(q)'
      BY <2>0, <2>5, <3>1, ShrinkingKeeps DEF Ok
    <3>. QED BY <2>5, <3>2 DEF BatchOnly
  <2>6. ASSUME NEW c \in Client, ClientStep(c) PROVE BatchOnly' /\ Ok(q)'
    <3>1. CASE PoolDrain(c)
      BY <2>5, <3>1 DEF PoolDrain
    <3>2. CASE \E k \in Key : AcquireMissFails(c, k) \/ AcquireAtCapacity(c, k)
      BY <2>1, <3>2 DEF AcquireMissFails, AcquireAtCapacity, FallThrough
    <3>3. CASE AcquireBypass(c) \/ DirectCreate(c) \/ DirectCreateFails(c) \/ DestroyBegin(c)
      BY <2>1, <3>3 DEF AcquireBypass, FallThrough, DirectCreate, DirectCreateFails,
                        DestroyBegin
    <3>4. CASE \/ DestroyOne(c) \/ DestroySkip(c) \/ OnDestroyOther(c) \/ NotifyOne(c)
               \/ HangUp(c) \/ PoolWarmup(c)
      BY <2>1, <3>4 DEF DestroyOne, DestroySkip, OnDestroyOther, NotifyOne, HangUp, PoolWarmup
    <3>. QED BY <2>2, <2>3, <2>4, <2>6, <3>1, <3>2, <3>3, <3>4 DEF ClientStep
  <2>7. ASSUME NEW k \in Key, Pick(k) PROVE BatchOnly' /\ Ok(q)'
    <3>1. /\ todo = 0 /\ made = {} /\ cur' = k /\ todo' = Deficit(k)
          /\ loop' = IF Deficit(k) = 0 THEN "pick" ELSE "batch"
          /\ UNCHANGED <<idle, active, made>>
      BY <2>7 DEF Pick, BatchOnly
    <3>2. BatchOnly'
      BY <3>1 DEF BatchOnly
    <3>3. Cardinality(made) = 0
      BY <3>1, FS_EmptySet
    <3>4. Coming(q) = 0 /\ Coming(q)' = IF q = k THEN Deficit(k) ELSE 0
      BY <3>1, <3>3, NumbersType DEF Coming
    <3>5. CASE q = k
      <4> DEFINE l == Len(idle[q])
                 a == Cardinality(active[q])
      <4>1. Coming(q)' = Smaller(Monus(MinIdle[q], l), Monus(MaxTotal[q], l + a))
        BY <3>4, <3>5 DEF Deficit, Total
      <4>2. l \in Nat /\ a \in Nat /\ MinIdle[q] \in Nat /\ MaxTotal[q] \in Nat
        BY NumbersType
      <4>3. l + 0 <= MinIdle[q] /\ l + a + 0 <= MaxTotal[q] + MinIdle[q]
        BY <2>0, <3>4 DEF Ok, Within
      <4>4. Within(q, l, a, Coming(q)')
        <5> HIDE DEF l, a
        <5>. QED BY <4>1, <4>2, <4>3 DEF Within, Smaller, Monus
      <4>. QED BY <3>1, <3>2, <4>4 DEF Ok
    <3>6. CASE q # k
      BY <2>0, <3>1, <3>2, <3>4, <3>6 DEF Ok
    <3>. QED BY <3>5, <3>6
  <2>8. CASE LoopStep
    <3>1. CASE Wake \/ DrainPending \/ PickNone \/ BatchDone
      <4>1. UNCHANGED <<idle, active, cur, todo, made>>
        BY <3>1 DEF Wake, DrainPending, PickNone, BatchDone
      <4>2. BatchOnly'
        BY <3>1 DEF Wake, DrainPending, PickNone, BatchDone, BatchOnly
      <4>3. Ok(q)'
        BY <2>0, <4>1 DEF Ok, Coming
      <4>. QED BY <4>2, <4>3
    <3>. QED BY <2>7, <2>8, <3>1 DEF LoopStep
  <2>9. CASE WorkerCreate \/ WorkerCreateFails
    <3>1. /\ todo > 0 /\ todo' = todo - 1 /\ UNCHANGED <<idle, active, cur, loop>>
          /\ made' = made \/ \E i \in SandboxId : made' = made \cup {i}
      BY <2>9 DEF WorkerCreate, WorkerCreateFails
    <3>2. BatchOnly'
      BY <3>1, NumbersType DEF BatchOnly
    <3>3. Cardinality(made') <= Cardinality(made) + 1
      <4>1. made \in SUBSET SandboxId /\ Cardinality(made) \in Nat
        BY NumbersType DEF TypeOK
      <4>2. ASSUME NEW i \in SandboxId, made' = made \cup {i}
            PROVE  Cardinality(made') <= Cardinality(made) + 1
        <5>1. Cardinality(made \cup {i}) <= Cardinality(made) + 1
          BY <4>1, OneMore
        <5>. QED BY <4>2, <5>1
      <4>3. ASSUME made' = made PROVE Cardinality(made') <= Cardinality(made) + 1
        BY <4>1, <4>3
      <4>. QED BY <3>1, <4>2, <4>3
    <3>4. Coming(q)' <= Coming(q)
      BY <3>1, <3>3, NumbersType DEF Coming
    <3>5. Ok(q)'
      BY <2>0, <3>1, <3>4, NumbersType, FewerWithin DEF Ok
    <3>. QED BY <3>2, <3>5
  <2>10. CASE WorkerPush
    <3>1. PICK i \in made : /\ idle' = [idle EXCEPT ![cur] = Append(@, i)]
                            /\ made' = made \ {i}
      BY <2>10 DEF WorkerPush
    <3>2. UNCHANGED <<active, cur, todo, loop>>
      BY <2>10 DEF WorkerPush
    <3>3. BatchOnly'
      BY <3>1, <3>2 DEF BatchOnly
    <3>4. Cardinality(made') = Cardinality(made) - 1
      BY <3>1, NumbersType, FS_RemoveElement
    <3>5. CASE q = cur
      <4>1. Len(idle'[q]) = Len(idle[q]) + 1
        BY <3>1, <3>5 DEF TypeOK
      <4>2. Coming(q)' = Coming(q) - 1
        BY <3>2, <3>4, <3>5, NumbersType DEF Coming
      <4>3. Ok(q)'
        <5>1. Within(q, Len(idle'[q]), Cardinality(active'[q]), Coming(q)')
          BY <2>0, <3>2, <4>1, <4>2, NumbersType, PushedWithin DEF Ok
        <5>. QED BY <5>1 DEF Ok
      <4>. QED BY <3>3, <4>3
    <3>6. CASE q # cur
      BY <2>0, <3>1, <3>2, <3>3, <3>6 DEF Ok, Coming, TypeOK
    <3>. QED BY <3>5, <3>6
  <2>11. CASE ReapCollect
    <3>1. PICK n \in [Key -> 0 .. Cardinality(SandboxId)] :
            /\ \A k \in Key : n[k] \in Monus(Len(idle[k]), MaxIdle[k]) .. Len(idle[k])
            /\ idle' = [k \in Key |-> SubSeq(idle[k], n[k] + 1, Len(idle[k]))]
      BY <2>11 DEF ReapCollect
    <3>2. UNCHANGED <<active, loopVars>>
      BY <2>11 DEF ReapCollect
    <3>3. Cardinality(SandboxId) \in Nat /\ idle[q] \in Seq(SandboxId)
      BY PoolAssumption, FS_CardinalityType DEF TypeOK
    <3>4. n[q] \in Nat /\ n[q] <= Len(idle[q])
      BY <3>1, <3>3 DEF Monus
    <3>5. idle'[q] = SubSeq(idle[q], n[q] + 1, Len(idle[q]))
      BY <3>1
    <3>6. Len(idle'[q]) <= Len(idle[q])
      BY <3>3, <3>4, <3>5
    <3>7. todo' <= todo
      BY <3>2, NumbersType
    <3>8. Ok(q)'
      BY <2>0, <3>2, <3>6, <3>7, ShrinkingKeeps DEF Ok
    <3>. QED BY <3>2, <3>8 DEF BatchOnly
  <2>12. CASE ReapDestroy \/ GcStep \/ UNCHANGED vars
    BY <2>1, <2>12 DEF ReapDestroy, GcStep, GcExpired, GcAll, vars
  <2>13. CASE ProcessStep
    <3>1. CASE PoolShutdown
      BY <2>5, <3>1 DEF PoolShutdown
    <3>. QED BY <2>1, <2>13, <3>1 DEF ProcessStep, CtrlC, Exit, IdleExit
  <2>. QED
    BY <2>6, <2>8, <2>9, <2>10, <2>11, <2>12, <2>13 DEF Next, WorkerStep, ReaperStep
<1>3. TypeOK /\ Inv => IdleBound /\ CapacityBound
  BY BoundsPerKey
<1>. QED
  <2> HIDE DEF Inv
  <2>. QED BY <1>1, <1>2, <1>3, TypeCorrect, PTL DEF Spec

(* A pool never holds more than min_idle idle sandboxes, finished creations *)
(* included, whatever the calls, the replenish task and the reaper do.      *)
THEOREM IdleBounded == Spec => []IdleBound
BY Bounded, PTL
=============================================================================
