-------------------------- MODULE WarmPoolPromises --------------------------
(* What rests on custody: idle sandboxes run, containers that never expire  *)
(* are not lost, and the daemon implements SandboxLease.                    *)
EXTENDS WarmPoolCustody

(* The sandboxes on their way to a Create: idle, or about to be pushed.     *)
Vault == Shelved \cup made

(* Running, and out of the garbage collector's reach.                       *)
Safe == {i \in SandboxId : container[i] = "up" /\ ~expires[i]}

(* With tidy clients the pool offers only safe sandboxes, because what a    *)
(* Destroy call goes after was returned by Create and has left the pool.    *)
Guarded ==
  /\ Vault \subseteq Safe
  /\ \A c \in Client : targets[c] \subseteq Given

LEMMA VaultUnclaimed ==
  ASSUME Custody
  PROVE  Vault \subseteq Unclaimed /\ Vault \cap reaping = {} /\ Shelved \cap made = {}
BY DEF Custody, Vault, Shelved, Shelf

(* A container nobody has been given stays as it is, unless it is reaped,   *)
(* drained or collected; those that appear are new.                         *)
LEMMA VaultFrame ==
  ASSUME Vault \subseteq Safe, Vault' \subseteq Vault,
         \A i \in Vault' : container'[i] = container[i] /\ expires'[i] = expires[i]
  PROVE  (Vault \subseteq Safe)'
BY DEF Safe

LEMMA CreateSpares ==
  ASSUME TypeOK, Custody, NEW i \in SandboxId, NEW ttl \in BOOLEAN, Create(i, ttl)
  PROVE  /\ i \notin Vault
         /\ \A j \in Vault : container'[j] = container[j] /\ expires'[j] = expires[j]
<1>1. /\ container[i] = "unborn"
      /\ \A j \in SandboxId \ {i} : container'[j] = container[j] /\ expires'[j] = expires[j]
  BY CreateMakes
<1>2. Vault \subseteq SandboxId /\ i \notin Vault
  BY <1>1, VaultUnclaimed DEF Unclaimed
<1>. QED BY <1>1, <1>2

LEMMA CreateFailsSpares ==
  ASSUME TypeOK, Custody, NEW ttl \in BOOLEAN, CreateFails(ttl)
  PROVE  \A j \in Vault : container'[j] = container[j] /\ expires'[j] = expires[j]
<1>1. CASE UNCHANGED dockerVars
  BY <1>1 DEF dockerVars
<1>2. CASE \E i \in SandboxId : Leave(i, ttl)
  <2>1. PICK i \in SandboxId : Leave(i, ttl)
    BY <1>2
  <2>2. /\ container[i] = "unborn"
        /\ \A j \in SandboxId \ {i} : container'[j] = container[j] /\ expires'[j] = expires[j]
    BY <2>1, LeaveMakes
  <2>. QED BY <2>2, VaultUnclaimed DEF Unclaimed
<1>. QED BY <1>1, <1>2 DEF CreateFails

(* The targets of a tidy client are sandboxes Create has returned.          *)
LEMMA TargetsGiven ==
  ASSUME Tidy, TypeOK, \A c \in Client : targets[c] \subseteq Given, [Next]_vars
  PROVE  \A c \in Client : targets'[c] \subseteq Given'
<1> USE DEF poolVars, dockerVars, loopVars, destroyVars
<1>1. Given \subseteq Given'
  <2>1. ASSUME NEW i \in SandboxId, Reply(i) PROVE Given \subseteq Given'
    BY <2>1 DEF Given, Reply, TypeOK
  <2>2. ASSUME UNCHANGED leases PROVE Given \subseteq Given'
    BY <2>2 DEF Given
  <2>3. ASSUME NEW c \in Client, ClientStep(c) PROVE Given \subseteq Given'
    <3>1. CASE \E k \in Key : AcquireHit(c, k)
      <4>1. PICK k \in Key : AcquireHit(c, k)
        BY <3>1
      <4>2. idle[k] \in Seq(SandboxId) /\ idle[k] # <<>>
        BY <4>1 DEF AcquireHit, TypeOK
      <4>3. Head(idle[k]) \in SandboxId /\ Reply(Head(idle[k]))
        BY <4>1, <4>2 DEF AcquireHit
      <4>. QED BY <2>1, <4>3
    <3>2. CASE DirectCreate(c) \/ \E k \in Key : AcquireMiss(c, k)
      BY <2>1, <3>2 DEF DirectCreate, AcquireMiss
    <3>3. CASE \E k \in Key :
                 AcquireMissFails(c, k) \/ AcquireAtCapacity(c, k) \/ OnDestroyActive(c, k)
      BY <2>2, <3>3 DEF AcquireMissFails, AcquireAtCapacity, FallThrough, OnDestroyActive
    <3>4. CASE AcquireBypass(c) \/ DirectCreateFails(c) \/ DestroyBegin(c) \/ DestroyOne(c)
      BY <2>2, <3>4 DEF AcquireBypass, FallThrough, DirectCreateFails, DestroyBegin, DestroyOne
    <3>5. CASE \/ DestroySkip(c) \/ OnDestroyOther(c) \/ NotifyOne(c)
               \/ HangUp(c) \/ PoolWarmup(c) \/ PoolDrain(c)
      BY <2>2, <3>5 DEF DestroySkip, OnDestroyOther, NotifyOne, HangUp, PoolWarmup, PoolDrain
    <3>. QED BY <2>3, <3>1, <3>2, <3>3, <3>4, <3>5 DEF ClientStep
  <2>4. CASE LoopStep \/ WorkerStep
    BY <2>2, <2>4 DEF LoopStep, Wake, DrainPending, PickNone, BatchDone, Pick, WorkerStep,
                      WorkerCreate, WorkerCreateFails, WorkerPush
  <2>5. CASE ReaperStep \/ GcStep \/ ProcessStep \/ UNCHANGED vars
    BY <2>2, <2>5 DEF ReaperStep, ReapCollect, ReapDestroy, GcStep, GcExpired, GcAll,
                      ProcessStep, CtrlC, PoolShutdown, Exit, IdleExit, vars
  <2>. QED BY <2>3, <2>4, <2>5 DEF Next
<1>2. targets' = targets \/ \E c \in Client, S \in SUBSET Given : targets' = [targets EXCEPT ![c] = S]
  <2>1. ASSUME NEW c \in Client, ClientStep(c)
        PROVE  targets' = targets \/ \E S \in SUBSET Given : targets' = [targets EXCEPT ![c] = S]
    <3>1. CASE DestroyBegin(c)
      BY <3>1 DEF DestroyBegin
    <3>2. CASE DestroyOne(c) \/ DestroySkip(c)
      <4>1. PICK i : targets' = [targets EXCEPT ![c] = @ \ {i}]
        BY <3>2 DEF DestroyOne, DestroySkip
      <4>2. targets' = [targets EXCEPT ![c] = targets[c] \ {i}] /\ targets[c] \ {i} \in SUBSET Given
        BY <4>1
      <4>. QED BY <4>2
    <3>3. CASE HangUp(c)
      BY <3>3 DEF HangUp
    <3>4. CASE \E k \in Key : \/ AcquireHit(c, k) \/ AcquireMiss(c, k) \/ AcquireMissFails(c, k)
                              \/ AcquireAtCapacity(c, k) \/ OnDestroyActive(c, k)
      BY <3>4 DEF AcquireHit, AcquireMiss, AcquireMissFails, AcquireAtCapacity, FallThrough,
                  OnDestroyActive
    <3>5. CASE \/ AcquireBypass(c) \/ DirectCreate(c) \/ DirectCreateFails(c)
               \/ OnDestroyOther(c) \/ NotifyOne(c) \/ PoolWarmup(c) \/ PoolDrain(c)
      BY <3>5 DEF AcquireBypass, FallThrough, DirectCreate, DirectCreateFails, OnDestroyOther,
                  NotifyOne, PoolWarmup, PoolDrain
    <3>. QED BY <2>1, <3>1, <3>2, <3>3, <3>4, <3>5 DEF ClientStep
  <2>2. CASE LoopStep \/ WorkerStep
    BY <2>2 DEF LoopStep, Wake, DrainPending, PickNone, BatchDone, Pick, WorkerStep,
                WorkerCreate, WorkerCreateFails, WorkerPush
  <2>3. CASE ReaperStep \/ GcStep \/ ProcessStep \/ UNCHANGED vars
    BY <2>3 DEF ReaperStep, ReapCollect, ReapDestroy, GcStep, GcExpired, GcAll,
                ProcessStep, CtrlC, PoolShutdown, Exit, IdleExit, vars
  <2>. QED BY <2>1, <2>2, <2>3 DEF Next
<1>. QED BY <1>1, <1>2 DEF TypeOK

(* Every step keeps the pool's sandboxes safe from tidy clients.            *)
LEMMA GuardedStep ==
  ASSUME Tidy, TypeOK, Custody, Guarded, [Next]_vars
  PROVE  Guarded'
<1> SUFFICES (Vault \subseteq Safe)'
  BY TargetsGiven DEF Guarded
<1> USE DEF poolVars, dockerVars, loopVars, destroyVars
<1>1. Vault \subseteq Safe /\ Vault \subseteq Unclaimed /\ Vault \cap reaping = {}
  BY VaultUnclaimed DEF Guarded
<1>2. ASSUME UNCHANGED <<idle, made>>,
             \A j \in Vault : container'[j] = container[j] /\ expires'[j] = expires[j]
      PROVE  (Vault \subseteq Safe)'
  <2>1. Vault' = Vault
    BY <1>2 DEF Vault, Shelved
  <2>. QED BY <1>1, <1>2, <2>1, VaultFrame
<1>3. ASSUME UNCHANGED <<idle, made, container, expires>> PROVE (Vault \subseteq Safe)'
  BY <1>2, <1>3
<1>4. ASSUME Vault' \subseteq Vault, UNCHANGED dockerVars PROVE (Vault \subseteq Safe)'
  BY <1>1, <1>4, VaultFrame
<1>5. ASSUME NEW c \in Client, NEW k \in Key, AcquireHit(c, k) PROVE (Vault \subseteq Safe)'
  <2>1. idle[k] \in Seq(SandboxId) /\ idle[k] # <<>> /\ IsInjective(idle[k])
    BY <1>5 DEF AcquireHit, TypeOK, Custody
  <2>2. Range(Tail(idle[k])) \subseteq Range(idle[k])
    BY <2>1, TailLeaves
  <2>3. /\ idle' = [idle EXCEPT ![k] = Tail(idle[k])]
        /\ UNCHANGED <<made, container, expires>>
    BY <1>5 DEF AcquireHit
  <2>4. \A q \in Key : Range(idle'[q]) \subseteq Range(idle[q])
    BY <2>2, <2>3 DEF TypeOK
  <2>5. Vault' \subseteq Vault
    BY <2>3, <2>4 DEF Vault, Shelved
  <2>. QED BY <1>4, <2>3, <2>5
<1>6. ASSUME NEW c \in Client, DirectCreate(c) \/ \E k \in Key : AcquireMiss(c, k)
      PROVE  (Vault \subseteq Safe)'
  BY <1>2, <1>6, CreateSpares DEF DirectCreate, AcquireMiss
<1>7. ASSUME NEW c \in Client, DirectCreateFails(c) \/ \E k \in Key : AcquireMissFails(c, k)
      PROVE  (Vault \subseteq Safe)'
  BY <1>2, <1>7, CreateFailsSpares DEF DirectCreateFails, AcquireMissFails, FallThrough
<1>8. ASSUME NEW i \in SandboxId, i \notin Vault, container' = [container EXCEPT ![i] = "gone"],
             UNCHANGED <<idle, made, expires>>
      PROVE  (Vault \subseteq Safe)'
  BY <1>1, <1>2, <1>8 DEF TypeOK, Safe
<1>9. ASSUME NEW c \in Client, DestroyOne(c) PROVE (Vault \subseteq Safe)'
  <2>1. PICK i \in targets[c] \cap Exists : container' = [container EXCEPT ![i] = "gone"]
    BY <1>9 DEF DestroyOne
  <2>2. i \in SandboxId /\ leases[i] > 0
    BY <2>1 DEF Guarded, Given
  <2>3. i \notin Vault
    BY <1>1, <2>2 DEF Unclaimed
  <2>4. UNCHANGED <<idle, made, expires>>
    BY <1>9 DEF DestroyOne
  <2>. QED BY <1>8, <2>1, <2>2, <2>3, <2>4
<1>10. ASSUME Drain, UNCHANGED made PROVE (Vault \subseteq Safe)'
  <2>1. Vault' \subseteq made /\ made \subseteq Vault /\ made \cap Shelved = {}
    <3>1. \A k \in Key : Range(idle'[k]) = {}
      BY <1>10 DEF Drain, Range
    <3>. QED BY <1>10, <3>1, VaultUnclaimed DEF Vault, Shelved
  <2>2. \A j \in made : container'[j] = container[j] /\ expires'[j] = expires[j]
    <3>1. Destroy(Shelved)
      BY <1>10 DEF Drain, Shelved
    <3>. QED BY <2>1, <3>1, DestroyRemoves DEF TypeOK
  <2>. QED BY <1>1, <2>1, <2>2, VaultFrame
<1>11. ASSUME NEW c \in Client, ClientStep(c) PROVE (Vault \subseteq Safe)'
  <2>1. CASE PoolDrain(c)
    BY <1>10, <2>1 DEF PoolDrain
  <2>2. CASE AcquireBypass(c) \/ \E k \in Key : AcquireAtCapacity(c, k) \/ OnDestroyActive(c, k)
    BY <1>3, <2>2 DEF AcquireBypass, AcquireAtCapacity, FallThrough, OnDestroyActive
  <2>3. CASE \/ DestroyBegin(c) \/ DestroySkip(c) \/ OnDestroyOther(c) \/ NotifyOne(c)
             \/ HangUp(c) \/ PoolWarmup(c)
    BY <1>3, <2>3 DEF DestroyBegin, DestroySkip, OnDestroyOther, NotifyOne, HangUp, PoolWarmup
  <2>. QED BY <1>5, <1>6, <1>7, <1>9, <1>11, <2>1, <2>2, <2>3 DEF ClientStep
<1>12. CASE LoopStep
  BY <1>3, <1>12 DEF LoopStep, Wake, DrainPending, PickNone, BatchDone, Pick
<1>13. CASE WorkerCreate
  <2>1. PICK i \in SandboxId : Create(i, FALSE) /\ made' = made \cup {i}
    BY <1>13 DEF WorkerCreate
  <2>2. container'[i] = "up" /\ ~expires'[i]
    BY <2>1, CreateMakes
  <2>3. \A j \in Vault : container'[j] = container[j] /\ expires'[j] = expires[j]
    BY <2>1, CreateSpares
  <2>4. Vault' = Vault \cup {i}
    BY <1>13, <2>1 DEF WorkerCreate, Vault, Shelved
  <2>. QED BY <1>1, <2>2, <2>3, <2>4 DEF Safe
<1>14. CASE WorkerCreateFails
  BY <1>2, <1>14, CreateFailsSpares DEF WorkerCreateFails
<1>15. CASE WorkerPush
  <2>1. PICK i \in made : idle' = [idle EXCEPT ![cur] = Append(@, i)] /\ made' = made \ {i}
    BY <1>15 DEF WorkerPush
  <2>2. cur \in Key /\ idle[cur] \in Seq(SandboxId) /\ i \in SandboxId /\ idle \in [Key -> Seq(SandboxId)]
    BY DEF TypeOK
  <2>3. i \notin Range(idle[cur]) /\ IsInjective(idle[cur])
    BY <2>2 DEF Custody, Shelf
  <2>4. Range(idle'[cur]) = Range(idle[cur]) \cup {i}
    BY <2>1, <2>2, <2>3, AppendAdds
  <2>5. \A q \in Key \ {cur} : Range(idle'[q]) = Range(idle[q])
    BY <2>1, <2>2
  <2>6. Vault' \subseteq Vault
    BY <2>1, <2>4, <2>5 DEF Vault, Shelved
  <2>. QED BY <1>4, <1>15, <2>6 DEF WorkerPush
<1>16. CASE ReapCollect
  <2>1. PICK n \in [Key -> 0 .. Cardinality(SandboxId)] :
          /\ \A k \in Key : n[k] \in Monus(Len(idle[k]), MaxIdle[k]) .. Len(idle[k])
          /\ idle' = [k \in Key |-> SubSeq(idle[k], n[k] + 1, Len(idle[k]))]
    BY <1>16 DEF ReapCollect
  <2>2. ASSUME NEW k \in Key PROVE Range(idle'[k]) \subseteq Range(idle[k])
    <3>1. Cardinality(SandboxId) \in Nat /\ idle[k] \in Seq(SandboxId) /\ IsInjective(idle[k])
      BY PoolAssumption, FS_CardinalityType DEF TypeOK, Custody
    <3>2. n[k] \in Nat /\ n[k] <= Len(idle[k])
      BY <2>1, <3>1 DEF Monus
    <3>3. idle'[k] = SubSeq(idle[k], n[k] + 1, Len(idle[k]))
      BY <2>1
    <3>. QED BY <3>1, <3>2, <3>3, SplitApart
  <2>3. UNCHANGED <<made, container, expires>>
    BY <1>16 DEF ReapCollect
  <2>4. Vault' \subseteq Vault
    BY <2>2, <2>3 DEF Vault, Shelved
  <2>. QED BY <1>4, <2>3, <2>4
<1>17. CASE ReapDestroy
  <2>1. \A j \in Vault : container'[j] = container[j] /\ expires'[j] = expires[j]
    BY <1>1, <1>17, DestroyRemoves DEF ReapDestroy, Safe
  <2>. QED BY <1>2, <1>17, <2>1 DEF ReapDestroy
<1>18. CASE GcStep
  <2>1. PICK i \in SandboxId : GcExpired(i)
    BY <1>18 DEF GcStep, GcAll
  <2>2. i \notin Vault
    BY <1>1, <2>1 DEF GcExpired, Safe
  <2>. QED BY <1>8, <2>1, <2>2 DEF GcExpired
<1>19. CASE ProcessStep
  <2>1. CASE PoolShutdown
    BY <1>10, <2>1 DEF PoolShutdown
  <2>. QED BY <1>3, <1>19, <2>1 DEF ProcessStep, CtrlC, Exit, IdleExit
<1>20. CASE UNCHANGED vars
  BY <1>3, <1>20 DEF vars
<1>. QED
  BY <1>11, <1>12, <1>13, <1>14, <1>15, <1>16, <1>17, <1>18, <1>19, <1>20
  DEF Next, WorkerStep, ReaperStep

LEMMA GuardedInit ==
  ASSUME Init
  PROVE  Guarded
<1>1. \A k \in Key : Range(idle[k]) = {}
  BY DEF Init, Range
<1>2. Vault = {}
  BY <1>1 DEF Init, Vault, Shelved
<1>. QED BY <1>2 DEF Init, Guarded

(* With tidy clients a sandbox in the idle deque is a running container,    *)
(* whatever the garbage collector, the reaper and failures of Docker do.    *)
THEOREM OfferedAlive == Spec => []PooledAlive
<1> DEFINE Inv == Custody /\ GivenOnce /\ (Tidy => Guarded)
<1>1. Init => Inv
  BY CustodyInit, GuardedInit
<1>2. TypeOK /\ Inv /\ [Next]_vars => Inv'
  BY CustodyStep, GuardedStep
<1>3. Inv => PooledAlive
  BY DEF PooledAlive, Guarded, Vault, Safe, Exists
<1>. QED
  <2> HIDE DEF Inv
  <2>. QED BY <1>1, <1>2, <1>3, TypeCorrect, PTL DEF Spec

-----------------------------------------------------------------------------
(* The sandboxes the daemon can still find.                                 *)
Known == Shelved \cup made \cup reaping \cup UNION {active[k] : k \in Key}

Tracked == \A i \in SandboxId : container[i] = "up" => expires[i] \/ i \in Known

(* What a Destroy call reports to the pool has been removed.                *)
VictimsGone == \A c \in Client : \A i \in victim[c] : container[i] = "gone"

LEMMA VictimsStep ==
  ASSUME TypeOK, VictimsGone, [Next]_vars
  PROVE  VictimsGone'
<1> USE DEF poolVars, dockerVars, loopVars, destroyVars
<1>1. ASSUME victim' = victim \/ (\E c \in Client : victim' = [victim EXCEPT ![c] = {}]),
             \A i \in SandboxId : container[i] = "gone" => container'[i] = "gone"
      PROVE  VictimsGone'
  BY <1>1 DEF VictimsGone, TypeOK
<1>2. ASSUME NEW i \in SandboxId, NEW ttl \in BOOLEAN, Create(i, ttl)
      PROVE  \A j \in SandboxId : container[j] = "gone" => container'[j] = "gone"
  BY <1>2, CreateMakes
<1>3. ASSUME NEW ttl \in BOOLEAN, CreateFails(ttl)
      PROVE  \A j \in SandboxId : container[j] = "gone" => container'[j] = "gone"
  BY <1>3, LeaveMakes DEF CreateFails
<1>4. ASSUME NEW S, Destroy(S)
      PROVE  \A j \in SandboxId : container[j] = "gone" => container'[j] = "gone"
  BY <1>4, DestroyRemoves
<1>5. ASSUME NEW c \in Client, DestroyOne(c) PROVE VictimsGone'
  <2>1. PICK i \in targets[c] \cap Exists : /\ container' = [container EXCEPT ![i] = "gone"]
                                            /\ victim' = [victim EXCEPT ![c] = {i}]
    BY <1>5 DEF DestroyOne
  <2>. QED BY <2>1 DEF VictimsGone, TypeOK, Exists
<1>6. ASSUME NEW c \in Client, ClientStep(c) PROVE VictimsGone'
  <2>1. CASE PoolDrain(c)
    BY <1>1, <1>4, <2>1 DEF PoolDrain, Drain
  <2>2. CASE DirectCreate(c) \/ \E k \in Key : AcquireMiss(c, k)
    <3>1. victim' = victim /\ \E i \in SandboxId : Create(i, TRUE)
      BY <2>2 DEF DirectCreate, AcquireMiss
    <3>. QED BY <1>1, <1>2, <3>1
  <2>3. CASE DirectCreateFails(c) \/ \E k \in Key : AcquireMissFails(c, k)
    <3>1. victim' = victim /\ CreateFails(TRUE)
      BY <2>3 DEF DirectCreateFails, AcquireMissFails, FallThrough
    <3>. QED BY <1>1, <1>3, <3>1
  <2>4. CASE \/ AcquireBypass(c) \/ DestroyBegin(c) \/ DestroySkip(c) \/ NotifyOne(c)
             \/ PoolWarmup(c) \/ \E k \in Key : AcquireHit(c, k) \/ AcquireAtCapacity(c, k)
    BY <1>1, <2>4 DEF AcquireBypass, FallThrough, DestroyBegin, DestroySkip, NotifyOne,
                      PoolWarmup, AcquireHit, AcquireAtCapacity
  <2>5. CASE OnDestroyOther(c) \/ HangUp(c) \/ \E k \in Key : OnDestroyActive(c, k)
    BY <1>1, <2>5 DEF OnDestroyOther, HangUp, OnDestroyActive
  <2>. QED BY <1>5, <1>6, <2>1, <2>2, <2>3, <2>4, <2>5 DEF ClientStep
<1>7. CASE LoopStep
  BY <1>1, <1>7 DEF LoopStep, Wake, DrainPending, PickNone, BatchDone, Pick
<1>8. CASE WorkerStep
  BY <1>1, <1>2, <1>3, <1>8 DEF WorkerStep, WorkerCreate, WorkerCreateFails, WorkerPush
<1>9. CASE ReaperStep
  BY <1>1, <1>4, <1>9 DEF ReaperStep, ReapCollect, ReapDestroy
<1>10. CASE GcStep
  BY <1>1, <1>10 DEF GcStep, GcExpired, GcAll, TypeOK
<1>11. CASE ProcessStep
  BY <1>1, <1>4, <1>11 DEF ProcessStep, CtrlC, PoolShutdown, Drain, Exit, IdleExit
<1>12. CASE UNCHANGED vars
  BY <1>1, <1>12 DEF vars
<1>. QED BY <1>6, <1>7, <1>8, <1>9, <1>10, <1>11, <1>12 DEF Next

(* Every step keeps track of what never expires and no docker command       *)
(* failed on: a failed one leaves the container stuck as it is forgotten.   *)
LEMMA TrackedStep ==
  ASSUME TypeOK, Custody, VictimsGone, Tracked, [Next]_vars
  PROVE  Tracked'
<1> USE DEF poolVars, dockerVars, loopVars, destroyVars
<1>1. ASSUME \A i \in SandboxId : container'[i] = "up" =>
               \/ expires'[i]
               \/ i \in Known'
               \/ container[i] = "up" /\ expires'[i] = expires[i] /\ (i \in Known => i \in Known')
      PROVE  Tracked'
  BY <1>1 DEF Tracked
<1>2. ASSUME UNCHANGED <<idle, active, made, reaping>> PROVE Known' = Known
  BY <1>2 DEF Known, Shelved
<1>3. ASSUME UNCHANGED <<idle, active, made, reaping, container, expires>> PROVE Tracked'
  BY <1>1, <1>2, <1>3
<1>4. ASSUME NEW i \in SandboxId, container' = [container EXCEPT ![i] = "gone"],
             UNCHANGED <<idle, active, made, reaping, expires>>
      PROVE  Tracked'
  BY <1>1, <1>2, <1>4 DEF TypeOK
<1>5. ASSUME NEW i \in SandboxId, Create(i, TRUE), Known \subseteq Known' PROVE Tracked'
  BY <1>1, <1>5, CreateMakes
<1>6. ASSUME NEW ttl \in BOOLEAN, CreateFails(ttl), UNCHANGED <<idle, active, made, reaping>>
      PROVE  Tracked'
  BY <1>1, <1>2, <1>3, <1>6, LeaveMakes DEF CreateFails
<1>7. ASSUME NEW c \in Client, NEW k \in Key, AcquireHit(c, k) PROVE Tracked'
  <2>1. idle[k] \in Seq(SandboxId) /\ idle[k] # <<>> /\ IsInjective(idle[k])
    BY <1>7 DEF AcquireHit, TypeOK, Custody
  <2>2. Range(idle[k]) = Range(Tail(idle[k])) \cup {Head(idle[k])}
    BY <2>1, TailLeaves
  <2>3. /\ idle' = [idle EXCEPT ![k] = Tail(idle[k])]
        /\ active' = [active EXCEPT ![k] = active[k] \cup {Head(idle[k])}]
        /\ UNCHANGED <<made, reaping, container, expires>>
    BY <1>7 DEF AcquireHit
  <2>4. \A q \in Key : /\ active[q] \subseteq active'[q]
                       /\ Range(idle[q]) \subseteq Range(idle'[q]) \cup active'[q]
    BY <2>2, <2>3 DEF TypeOK
  <2>5. Known \subseteq Known'
    BY <2>3, <2>4 DEF Known, Shelved
  <2>. QED BY <1>1, <2>3, <2>5
<1>8. ASSUME NEW c \in Client, NEW k \in Key, AcquireMiss(c, k) PROVE Tracked'
  <2>1. PICK i \in SandboxId : Create(i, TRUE) /\ active' = [active EXCEPT ![k] = @ \cup {i}]
    BY <1>8 DEF AcquireMiss
  <2>2. UNCHANGED <<idle, made, reaping>> /\ \A q \in Key : active[q] \subseteq active'[q]
    BY <1>8, <2>1 DEF AcquireMiss, TypeOK
  <2>3. Known \subseteq Known'
    BY <2>2 DEF Known, Shelved
  <2>. QED BY <1>5, <2>1, <2>3
<1>9. ASSUME NEW c \in Client, DirectCreate(c) PROVE Tracked'
  BY <1>2, <1>5, <1>9 DEF DirectCreate
<1>10. ASSUME NEW c \in Client, DirectCreateFails(c) \/ \E k \in Key : AcquireMissFails(c, k)
       PROVE  Tracked'
  BY <1>6, <1>10 DEF DirectCreateFails, AcquireMissFails, FallThrough
<1>11. ASSUME NEW c \in Client, NEW k \in Key, OnDestroyActive(c, k) PROVE Tracked'
  <2>1. PICK i \in victim[c] \cap active[k] : active' = [active EXCEPT ![k] = @ \ {i}]
    BY <1>11 DEF OnDestroyActive
  <2>2. container[i] = "gone" /\ UNCHANGED <<idle, made, reaping, container, expires>>
    BY <1>11, <2>1 DEF VictimsGone, OnDestroyActive
  <2>3. \A q \in Key : active[q] \ {i} \subseteq active'[q]
    BY <2>1 DEF TypeOK
  <2>4. Known \ {i} \subseteq Known'
    BY <2>2, <2>3 DEF Known, Shelved
  <2>. QED BY <1>1, <2>2, <2>4
<1>12. ASSUME Drain, UNCHANGED <<active, made, reaping>> PROVE Tracked'
  <2>1. Destroy(Shelved)
    BY <1>12 DEF Drain, Shelved
  <2>2. \A i \in SandboxId : container'[i] = "up" =>
          container[i] = "up" /\ i \notin Shelved /\ expires'[i] = expires[i]
    BY <2>1, DestroyRemoves
  <2>3. Known \subseteq Known' \cup Shelved
    BY <1>12 DEF Known
  <2>. QED BY <1>1, <2>2, <2>3
<1>13. ASSUME NEW c \in Client, ClientStep(c) PROVE Tracked'
  <2>1. CASE PoolDrain(c)
    BY <1>12, <2>1 DEF PoolDrain
  <2>2. CASE DestroyOne(c)
    BY <1>4, <2>2 DEF DestroyOne, Exists
  <2>3. CASE AcquireBypass(c) \/ \E k \in Key : AcquireAtCapacity(c, k)
    BY <1>3, <2>3 DEF AcquireBypass, AcquireAtCapacity, FallThrough
  <2>4. CASE \/ DestroyBegin(c) \/ DestroySkip(c) \/ OnDestroyOther(c) \/ NotifyOne(c)
             \/ HangUp(c) \/ PoolWarmup(c)
    BY <1>3, <2>4 DEF DestroyBegin, DestroySkip, OnDestroyOther, NotifyOne, HangUp, PoolWarmup
  <2>. QED BY <1>7, <1>8, <1>9, <1>10, <1>11, <1>13, <2>1, <2>2, <2>3, <2>4 DEF ClientStep
<1>14. CASE LoopStep
  BY <1>3, <1>14 DEF LoopStep, Wake, DrainPending, PickNone, BatchDone, Pick
<1>15. CASE WorkerCreate
  <2>1. PICK i \in SandboxId : Create(i, FALSE) /\ made' = made \cup {i}
    BY <1>15 DEF WorkerCreate
  <2>2. Known \cup {i} \subseteq Known'
    BY <1>15, <2>1 DEF WorkerCreate, Known, Shelved
  <2>3. \A j \in SandboxId \ {i} : container'[j] = container[j] /\ expires'[j] = expires[j]
    BY <2>1, CreateMakes
  <2>. QED BY <1>1, <2>2, <2>3
<1>16. CASE WorkerCreateFails
  BY <1>6, <1>16 DEF WorkerCreateFails
<1>17. CASE WorkerPush
  <2>1. PICK i \in made : idle' = [idle EXCEPT ![cur] = Append(@, i)] /\ made' = made \ {i}
    BY <1>17 DEF WorkerPush
  <2>2. /\ cur \in Key /\ idle[cur] \in Seq(SandboxId) /\ i \in SandboxId
        /\ idle \in [Key -> Seq(SandboxId)]
    BY DEF TypeOK
  <2>3. i \notin Range(idle[cur]) /\ IsInjective(idle[cur])
    BY <2>2 DEF Custody, Shelf
  <2>4. Range(idle'[cur]) = Range(idle[cur]) \cup {i}
    BY <2>1, <2>2, <2>3, AppendAdds
  <2>5. \A q \in Key \ {cur} : Range(idle'[q]) = Range(idle[q])
    BY <2>1, <2>2
  <2>6. UNCHANGED <<active, reaping, container, expires>>
    BY <1>17 DEF WorkerPush
  <2>7. Shelved \cup {i} \subseteq Shelved'
    BY <2>2, <2>4, <2>5 DEF Shelved
  <2>8. Known \subseteq Known'
    BY <2>1, <2>6, <2>7 DEF Known
  <2>. QED BY <1>1, <2>6, <2>8
<1>18. CASE ReapCollect
  <2>1. PICK n \in [Key -> 0 .. Cardinality(SandboxId)] :
          /\ \A k \in Key : n[k] \in Monus(Len(idle[k]), MaxIdle[k]) .. Len(idle[k])
          /\ idle' = [k \in Key |-> SubSeq(idle[k], n[k] + 1, Len(idle[k]))]
          /\ reaping' = UNION {Range(SubSeq(idle[k], 1, n[k])) : k \in Key}
    BY <1>18 DEF ReapCollect
  <2>2. reaping = {} /\ UNCHANGED <<active, made, container, expires>>
    BY <1>18 DEF ReapCollect
  <2>3. ASSUME NEW k \in Key
        PROVE  Range(idle[k]) = Range(SubSeq(idle[k], 1, n[k])) \cup Range(idle'[k])
    <3>1. Cardinality(SandboxId) \in Nat /\ idle[k] \in Seq(SandboxId) /\ IsInjective(idle[k])
      BY PoolAssumption, FS_CardinalityType DEF TypeOK, Custody
    <3>2. n[k] \in Nat /\ n[k] <= Len(idle[k])
      BY <2>1, <3>1 DEF Monus
    <3>3. idle'[k] = SubSeq(idle[k], n[k] + 1, Len(idle[k]))
      BY <2>1
    <3>. QED BY <3>1, <3>2, <3>3, SplitApart
  <2>4. Shelved \subseteq Shelved' \cup reaping'
    <3> DEFINE Taken(k) == Range(SubSeq(idle[k], 1, n[k]))
    <3>1. reaping' = UNION {Taken(k) : k \in Key}
      BY <2>1
    <3>2. \A k \in Key : Range(idle[k]) \subseteq Taken(k) \cup Range(idle'[k])
      BY <2>3
    <3> HIDE DEF Taken
    <3>. QED BY <3>1, <3>2 DEF Shelved
  <2>5. Known \subseteq Known'
    BY <2>2, <2>4 DEF Known
  <2>. QED BY <1>1, <2>2, <2>5
<1>19. CASE ReapDestroy
  <2>1. UNCHANGED <<idle, active, made>> /\ Destroy(reaping)
    BY <1>19 DEF ReapDestroy
  <2>2. \A i \in SandboxId : container'[i] = "up" =>
          container[i] = "up" /\ i \notin reaping /\ expires'[i] = expires[i]
    BY <2>1, DestroyRemoves
  <2>3. Known \subseteq Known' \cup reaping
    BY <2>1 DEF Known, Shelved
  <2>. QED BY <1>1, <2>2, <2>3
<1>20. CASE GcStep
  BY <1>4, <1>20 DEF GcStep, GcExpired, GcAll
<1>21. CASE ProcessStep
  <2>1. CASE PoolShutdown
    BY <1>12, <2>1 DEF PoolShutdown
  <2>. QED BY <1>3, <1>21, <2>1 DEF ProcessStep, CtrlC, Exit, IdleExit
<1>22. CASE UNCHANGED vars
  BY <1>3, <1>22 DEF vars
<1>. QED
  BY <1>13, <1>14, <1>15, <1>16, <1>17, <1>18, <1>19, <1>20, <1>21, <1>22
  DEF Next, WorkerStep, ReaperStep

(* Whatever fails and whoever hangs up, while the daemon runs a container   *)
(* without an expiry label is idle, active, being pushed or being reaped,   *)
(* unless docker failed to start or to remove that very container.          *)
THEOREM NoneLost == Spec => []NoImmortalOrphan
<1> DEFINE Inv == Custody /\ GivenOnce /\ VictimsGone /\ Tracked
<1>1. Init => Inv
  BY CustodyInit DEF Init, VictimsGone, Tracked
<1>2. TypeOK /\ Inv /\ [Next]_vars => Inv'
  BY CustodyStep, VictimsStep, TrackedStep
<1>3. Inv => NoImmortalOrphan
  BY DEF NoImmortalOrphan, Tracked, Exists, Known
<1>. QED
  <2> HIDE DEF Inv
  <2>. QED BY <1>1, <1>2, <1>3, TypeCorrect, PTL DEF Spec

-----------------------------------------------------------------------------
(* Refinement: how each kind of step looks to the callers.                  *)

LEMMA StatusCases ==
  ASSUME TypeOK, NEW i \in SandboxId
  PROVE  /\ container[i] = "unborn" => Status(i) = "none"
         /\ container[i] = "gone" => Status(i) = "retired"
         /\ container[i] \in {"up", "stuck"} =>
              Status(i) = IF leases[i] = 0 THEN "pooled" ELSE "leased"
BY DEF Status

LEMMA StatusCasesNext ==
  ASSUME TypeOK', NEW i \in SandboxId
  PROVE  /\ container'[i] = "unborn" => Status(i)' = "none"
         /\ container'[i] = "gone" => Status(i)' = "retired"
         /\ container'[i] \in {"up", "stuck"} =>
              Status(i)' = IF leases'[i] = 0 THEN "pooled" ELSE "leased"
BY DEF Status

(* Bookkeeping is invisible.                                                *)
LEMMA SeenAsStutter ==
  ASSUME UNCHANGED <<container, leases>>
  PROVE  UNCHANGED Lease!vars
BY DEF Lease!vars, Status

(* A container nobody is given, made by a worker or left by a failure.      *)
LEMMA SeenAsMake ==
  ASSUME TypeOK, TypeOK', GivenOnce, NEW i \in SandboxId, NEW ttl \in BOOLEAN,
         Create(i, ttl) \/ Leave(i, ttl), UNCHANGED leases
  PROVE  Lease!Next
<1>1. /\ container[i] = "unborn" /\ container'[i] \in {"up", "stuck"} /\ leases[i] = 0
      /\ \A j \in SandboxId \ {i} : container'[j] = container[j]
  BY CreateMakes, LeaveMakes DEF GivenOnce
<1>2. Status(i) = "none" /\ Status(i)' = "pooled"
  BY <1>1, StatusCases, StatusCasesNext
<1>3. \A j \in SandboxId \ {i} : Status(j)' = Status(j)
  BY <1>1 DEF Status
<1>4. Lease!Make(i)
  BY <1>2, <1>3 DEF Lease!Make
<1>. QED BY <1>4 DEF Lease!Next

(* A sandbox returned by Create, fresh or running in the pool.              *)
LEMMA SeenAsLease ==
  ASSUME TypeOK, TypeOK', NEW i \in SandboxId, Reply(i), leases[i] = 0,
         container[i] # "gone", container'[i] = "up",
         \A j \in SandboxId \ {i} : container'[j] = container[j]
  PROVE  Lease!Next
<1>1. leases' = [leases EXCEPT ![i] = @ + 1] /\ leases \in [SandboxId -> Nat]
  BY DEF Reply, TypeOK
<1>2. leases'[i] = 1 /\ \A j \in SandboxId \ {i} : leases'[j] = leases[j]
  BY <1>1
<1>3. container[i] \in {"unborn", "up", "stuck"}
  BY DEF TypeOK
<1>4. Status(i) \in {"none", "pooled"} /\ Status(i)' = "leased"
  BY <1>2, <1>3, StatusCases, StatusCasesNext
<1>5. \A j \in SandboxId \ {i} : Status(j)' = Status(j)
  BY <1>2 DEF Status
<1>6. Lease!LeaseOne(i)
  BY <1>1, <1>4, <1>5 DEF Lease!LeaseOne
<1>. QED BY <1>6 DEF Lease!Next

(* Any number of containers removed at once.                                *)
LEMMA SeenAsRetire ==
  ASSUME TypeOK, TypeOK', UNCHANGED leases,
         \A i \in SandboxId : \/ container'[i] = container[i]
                              \/ /\ container[i] \in {"up", "stuck"}
                                 /\ container'[i] \in {"stuck", "gone"}
  PROVE  Lease!Next
<1> DEFINE S == {i \in SandboxId : container'[i] # container[i] /\ container'[i] = "gone"}
<1>1. /\ \A i \in S : container[i] \in {"up", "stuck"} /\ container'[i] = "gone"
      /\ \A i \in SandboxId \ S : \/ container'[i] = container[i]
                                  \/ container[i] \in {"up", "stuck"} /\ container'[i] = "stuck"
  OBVIOUS
<1>2. \A i \in S : Status(i) \in {"pooled", "leased"} /\ Status(i)' = "retired"
  BY <1>1, StatusCases, StatusCasesNext
<1>3. ASSUME NEW i \in SandboxId \ S PROVE Status(i)' = Status(i)
  <2>1. CASE container'[i] = container[i]
    BY <2>1 DEF Status
  <2>. QED BY <1>1, <2>1, StatusCases, StatusCasesNext
<1>4. S \in SUBSET SandboxId
  OBVIOUS
<1> HIDE DEF S
<1>5. Lease!Retire(S)
  BY <1>2, <1>3, <1>4 DEF Lease!Retire
<1>. QED BY <1>4, <1>5 DEF Lease!Next

LEMMA LeaseStep ==
  ASSUME Tidy, TypeOK, TypeOK', Custody, GivenOnce, Guarded, [Next]_vars
  PROVE  [Lease!Next]_(Lease!vars)
<1> USE DEF poolVars, dockerVars, loopVars, destroyVars
<1>1. ASSUME UNCHANGED <<container, leases>> PROVE UNCHANGED Lease!vars
  BY <1>1, SeenAsStutter
<1>2. ASSUME NEW c \in Client, NEW k \in Key, AcquireHit(c, k) PROVE Lease!Next
  <2> DEFINE i == Head(idle[k])
  <2>1. idle[k] \in Seq(SandboxId) /\ idle[k] # <<>> /\ IsInjective(idle[k])
    BY <1>2 DEF AcquireHit, TypeOK, Custody
  <2>2. i \in Range(idle[k])
    BY <2>1, TailLeaves
  <2>3. i \in Vault
    BY <2>2 DEF Vault, Shelved
  <2>4. i \in SandboxId /\ container[i] = "up" /\ leases[i] = 0
    BY <2>3, VaultUnclaimed DEF Guarded, Safe, Unclaimed
  <2>5. Reply(i) /\ UNCHANGED container
    BY <1>2 DEF AcquireHit
  <2> HIDE DEF i
  <2>. QED BY <2>4, <2>5, SeenAsLease
<1>3. ASSUME NEW i \in SandboxId, Create(i, TRUE), Reply(i) PROVE Lease!Next
  <2>1. /\ container[i] = "unborn" /\ container'[i] = "up" /\ leases[i] = 0
        /\ \A j \in SandboxId \ {i} : container'[j] = container[j]
    BY <1>3, CreateMakes DEF GivenOnce
  <2>. QED BY <1>3, <2>1, SeenAsLease
<1>4. ASSUME NEW ttl \in BOOLEAN, CreateFails(ttl), UNCHANGED leases
      PROVE  [Lease!Next]_(Lease!vars)
  <2>1. CASE UNCHANGED dockerVars
    BY <1>1, <1>4, <2>1
  <2>2. CASE \E i \in SandboxId : Leave(i, ttl)
    BY <1>4, <2>2, SeenAsMake
  <2>. QED BY <1>4, <2>1, <2>2 DEF CreateFails
<1>5. ASSUME NEW S, Destroy(S), UNCHANGED leases PROVE Lease!Next
  BY <1>5, DestroyRemoves, SeenAsRetire
<1>6. ASSUME NEW i \in Exists, container' = [container EXCEPT ![i] = "gone"], UNCHANGED leases
      PROVE  Lease!Next
  BY <1>6, SeenAsRetire DEF Exists, TypeOK
<1>7. ASSUME NEW c \in Client, ClientStep(c) PROVE [Lease!Next]_(Lease!vars)
  <2>1. CASE DirectCreate(c) \/ \E k \in Key : AcquireMiss(c, k)
    BY <1>3, <2>1 DEF DirectCreate, AcquireMiss
  <2>2. CASE DirectCreateFails(c) \/ \E k \in Key : AcquireMissFails(c, k)
    BY <1>4, <2>2 DEF DirectCreateFails, AcquireMissFails, FallThrough
  <2>3. CASE DestroyOne(c)
    BY <1>6, <2>3 DEF DestroyOne
  <2>4. CASE PoolDrain(c)
    BY <1>5, <2>4 DEF PoolDrain, Drain
  <2>5. CASE AcquireBypass(c) \/ \E k \in Key : AcquireAtCapacity(c, k) \/ OnDestroyActive(c, k)
    BY <1>1, <2>5 DEF AcquireBypass, AcquireAtCapacity, FallThrough, OnDestroyActive
  <2>6. CASE \/ DestroyBegin(c) \/ DestroySkip(c) \/ OnDestroyOther(c) \/ NotifyOne(c)
             \/ HangUp(c) \/ PoolWarmup(c)
    BY <1>1, <2>6 DEF DestroyBegin, DestroySkip, OnDestroyOther, NotifyOne, HangUp, PoolWarmup
  <2>. QED BY <1>2, <1>7, <2>1, <2>2, <2>3, <2>4, <2>5, <2>6 DEF ClientStep
<1>8. CASE LoopStep
  BY <1>1, <1>8 DEF LoopStep, Wake, DrainPending, PickNone, BatchDone, Pick
<1>9. CASE WorkerStep
  <2>1. CASE WorkerCreate
    BY <2>1, SeenAsMake DEF WorkerCreate
  <2>2. CASE WorkerCreateFails
    BY <1>4, <2>2 DEF WorkerCreateFails
  <2>3. CASE WorkerPush
    BY <1>1, <2>3 DEF WorkerPush
  <2>. QED BY <1>9, <2>1, <2>2, <2>3 DEF WorkerStep
<1>10. CASE ReaperStep
  BY <1>1, <1>5, <1>10 DEF ReaperStep, ReapCollect, ReapDestroy
<1>11. CASE GcStep
  BY <1>6, <1>11 DEF GcStep, GcExpired, GcAll
<1>12. CASE ProcessStep
  BY <1>1, <1>5, <1>12 DEF ProcessStep, CtrlC, PoolShutdown, Drain, Exit, IdleExit
<1>13. CASE UNCHANGED vars
  BY <1>1, <1>13 DEF vars
<1>. QED BY <1>7, <1>8, <1>9, <1>10, <1>11, <1>12, <1>13 DEF Next

(* With tidy clients the daemon, with its pool, tasks and failures, does    *)
(* what SandboxLease promises: a sandbox is leased at most once, while it   *)
(* runs, and never comes back.                                              *)
THEOREM Implements == ASSUME Tidy PROVE Spec => LeaseSpec
<1> DEFINE Inv == Custody /\ GivenOnce /\ Guarded
<1>1. Init => Inv
  BY CustodyInit, GuardedInit
<1>2. TypeOK /\ Inv /\ [Next]_vars => Inv'
  BY CustodyStep, GuardedStep
<1>3. Init => Lease!Init
  BY DEF Init, Lease!Init, Status
<1>4. TypeOK /\ TypeOK' /\ Inv /\ [Next]_vars => [Lease!Next]_(Lease!vars)
  BY LeaseStep
<1>. QED
  <2> HIDE DEF Inv
  <2>. QED BY <1>1, <1>2, <1>3, <1>4, TypeCorrect, PTL DEF Spec, LeaseSpec, Lease!Spec
=============================================================================
