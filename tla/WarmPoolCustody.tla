-------------------------- MODULE WarmPoolCustody ---------------------------
(* Who holds a sandbox, from its creation until Create returns it: the      *)
(* safety of the pool's hand-outs for every choice of the constants.        *)
EXTENDS WarmPoolProofs

Shelf(k) == Range(idle[k])

(* The ids Docker has known and no Create has returned.                     *)
Unclaimed == {i \in SandboxId : container[i] # "unborn" /\ leases[i] = 0}

(* An id made for the pool is in one place: one position of one deque, the  *)
(* hands of one worker, or the reaper's list, and nobody has been given it. *)
Custody ==
  /\ \A k \in Key : IsInjective(idle[k]) /\ Shelf(k) \subseteq Unclaimed
  /\ \A k, q \in Key : k # q => Shelf(k) \cap Shelf(q) = {}
  /\ \A k \in Key : Shelf(k) \cap (made \cup reaping) = {}
  /\ made \cap reaping = {}
  /\ made \cup reaping \subseteq Unclaimed

(* Create returns an id at most once, and none that was never made.         *)
GivenOnce ==
  \A i \in SandboxId : leases[i] <= 1 /\ (container[i] = "unborn" => leases[i] = 0)

-----------------------------------------------------------------------------
(* Sequences without repetition.                                            *)

LEMMA TailLeaves ==
  ASSUME NEW S, NEW s \in Seq(S), s # <<>>, IsInjective(s)
  PROVE  /\ IsInjective(Tail(s))
         /\ Head(s) \in Range(s)
         /\ Range(Tail(s)) = Range(s) \ {Head(s)}
<1>1. Len(s) \in Nat /\ Len(s) >= 1 /\ DOMAIN s = 1 .. Len(s)
  OBVIOUS
<1>2. Tail(s) \in Seq(S) /\ Len(Tail(s)) = Len(s) - 1 /\ DOMAIN Tail(s) = 1 .. Len(s) - 1
  BY <1>1
<1>3. \A j \in 1 .. Len(s) - 1 : Tail(s)[j] = s[j + 1]
  BY <1>1
<1>4. Head(s) = s[1]
  BY <1>1
<1>5. IsInjective(Tail(s))
  BY <1>1, <1>2, <1>3 DEF IsInjective
<1>6. Head(s) \in Range(s)
  BY <1>1, <1>4 DEF Range
<1>7. ASSUME NEW x \in Range(Tail(s)) PROVE x \in Range(s) \ {Head(s)}
  <2>1. PICK j \in 1 .. Len(s) - 1 : x = s[j + 1]
    BY <1>2, <1>3 DEF Range
  <2>2. j + 1 \in DOMAIN s /\ 1 \in DOMAIN s /\ j + 1 # 1
    BY <1>1
  <2>. QED BY <1>4, <2>1, <2>2 DEF Range, IsInjective
<1>8. ASSUME NEW x \in Range(s), x # Head(s) PROVE x \in Range(Tail(s))
  <2>1. PICK j \in 1 .. Len(s) : x = s[j]
    BY <1>1 DEF Range
  <2>2. j - 1 \in 1 .. Len(s) - 1 /\ Tail(s)[j - 1] = s[j]
    BY <1>1, <1>3, <1>4, <1>8, <2>1
  <2>. QED BY <1>2, <2>1, <2>2 DEF Range
<1>. QED BY <1>5, <1>6, <1>7, <1>8

LEMMA AppendAdds ==
  ASSUME NEW S, NEW s \in Seq(S), NEW x \in S, x \notin Range(s), IsInjective(s)
  PROVE  /\ IsInjective(Append(s, x))
         /\ Range(Append(s, x)) = Range(s) \cup {x}
<1>1. Len(s) \in Nat /\ DOMAIN s = 1 .. Len(s) /\ DOMAIN Append(s, x) = 1 .. Len(s) + 1
  OBVIOUS
<1>2. /\ \A j \in 1 .. Len(s) : Append(s, x)[j] = s[j]
      /\ Append(s, x)[Len(s) + 1] = x
  OBVIOUS
<1>3. \A j \in 1 .. Len(s) + 1 : j \in 1 .. Len(s) \/ j = Len(s) + 1
  BY <1>1
<1>4. \A j \in 1 .. Len(s) : s[j] # x
  BY <1>1 DEF Range
<1>5. IsInjective(Append(s, x))
  BY <1>1, <1>2, <1>3, <1>4 DEF IsInjective
<1>6. Range(Append(s, x)) \subseteq Range(s) \cup {x}
  BY <1>1, <1>2, <1>3 DEF Range
<1>7. Range(s) \cup {x} \subseteq Range(Append(s, x))
  <2>1. Range(s) \subseteq Range(Append(s, x))
    BY <1>1, <1>2 DEF Range
  <2>2. x \in Range(Append(s, x))
    BY <1>1, <1>2 DEF Range
  <2>. QED BY <2>1, <2>2
<1>. QED BY <1>5, <1>6, <1>7

LEMMA SplitApart ==
  ASSUME NEW S, NEW s \in Seq(S), NEW n \in Nat, n <= Len(s), IsInjective(s)
  PROVE  /\ IsInjective(SubSeq(s, n + 1, Len(s)))
         /\ Range(SubSeq(s, 1, n)) \cap Range(SubSeq(s, n + 1, Len(s))) = {}
         /\ Range(SubSeq(s, 1, n)) \cup Range(SubSeq(s, n + 1, Len(s))) = Range(s)
<1> DEFINE a == SubSeq(s, 1, n)
           b == SubSeq(s, n + 1, Len(s))
<1>1. Len(s) \in Nat /\ DOMAIN s = 1 .. Len(s)
  OBVIOUS
<1>2. /\ DOMAIN a = 1 .. n /\ DOMAIN b = 1 .. Len(s) - n
      /\ \A j \in 1 .. n : a[j] = s[j]
      /\ \A j \in 1 .. Len(s) - n : b[j] = s[j + n]
  <2>1. DOMAIN a = 1 .. Len(a) /\ DOMAIN b = 1 .. Len(b)
    BY SplitSequence
  <2>. QED BY <2>1, SplitSequence
<1> HIDE DEF a, b
<1>3. IsInjective(b)
  <2> SUFFICES ASSUME NEW j \in DOMAIN b, NEW m \in DOMAIN b, b[j] = b[m] PROVE j = m
    BY DEF IsInjective
  <2>1. j \in Int /\ m \in Int /\ j + n \in DOMAIN s /\ m + n \in DOMAIN s
    BY <1>1, <1>2
  <2>2. s[j + n] = s[m + n]
    BY <1>2
  <2>3. j + n = m + n
    BY <2>1, <2>2 DEF IsInjective
  <2>. QED BY <2>1, <2>3
<1>4. Range(a) \cap Range(b) = {}
  <2> SUFFICES ASSUME NEW j \in 1 .. n, NEW m \in 1 .. Len(s) - n PROVE a[j] # b[m]
    BY <1>2 DEF Range
  <2>1. j \in DOMAIN s /\ m + n \in DOMAIN s /\ j # m + n
    BY <1>1
  <2>. QED BY <1>2, <2>1 DEF IsInjective
<1>5. Range(a) \subseteq Range(s)
  BY <1>1, <1>2 DEF Range
<1>6. Range(b) \subseteq Range(s)
  <2> SUFFICES ASSUME NEW m \in 1 .. Len(s) - n PROVE b[m] \in Range(s)
    BY <1>2 DEF Range
  <2>1. m + n \in DOMAIN s
    BY <1>1
  <2>. QED BY <1>2, <2>1 DEF Range
<1>7. ASSUME NEW x \in Range(s) PROVE x \in Range(a) \cup Range(b)
  <2>1. PICK j \in 1 .. Len(s) : x = s[j]
    BY <1>1 DEF Range
  <2>2. CASE j <= n
    BY <1>2, <2>1, <2>2 DEF Range
  <2>3. CASE j > n
    <3>1. j - n \in 1 .. Len(s) - n /\ (j - n) + n = j
      BY <1>1, <2>3
    <3>. QED BY <1>2, <2>1, <3>1 DEF Range
  <2>. QED BY <1>1, <2>2, <2>3
<1>. QED BY <1>3, <1>4, <1>5, <1>6, <1>7 DEF a, b

-----------------------------------------------------------------------------
(* What a step does to Docker.                                              *)

(* No container is ever un-made.                                            *)
NoUnbirth == \A i \in SandboxId : container'[i] = "unborn" => container[i] = "unborn"

LEMMA CreateMakes ==
  ASSUME TypeOK, NEW i \in SandboxId, NEW ttl \in BOOLEAN, Create(i, ttl)
  PROVE  /\ NoUnbirth /\ container[i] = "unborn" /\ container'[i] = "up" /\ expires'[i] = ttl
         /\ \A j \in SandboxId \ {i} : container'[j] = container[j] /\ expires'[j] = expires[j]
BY DEF TypeOK, Create, Fresh, NoUnbirth

LEMMA LeaveMakes ==
  ASSUME TypeOK, NEW i \in SandboxId, NEW ttl \in BOOLEAN, Leave(i, ttl)
  PROVE  /\ NoUnbirth /\ container[i] = "unborn" /\ container'[i] = "stuck"
         /\ \A j \in SandboxId \ {i} : container'[j] = container[j] /\ expires'[j] = expires[j]
BY DEF TypeOK, Leave, Fresh, NoUnbirth

LEMMA CreateFailsMakes ==
  ASSUME TypeOK, NEW ttl \in BOOLEAN, CreateFails(ttl)
  PROVE  NoUnbirth
<1>1. CASE UNCHANGED dockerVars
  BY <1>1 DEF NoUnbirth, dockerVars
<1>2. CASE \E i \in SandboxId : Leave(i, ttl)
  BY <1>2, LeaveMakes
<1>. QED BY <1>1, <1>2 DEF CreateFails

LEMMA DestroyRemoves ==
  ASSUME NEW S, Destroy(S)
  PROVE  /\ NoUnbirth
         /\ \A i \in SandboxId : \/ container'[i] = container[i]
                                 \/ /\ i \in S /\ container[i] \in {"up", "stuck"}
                                    /\ container'[i] \in {"stuck", "gone"}
         /\ \A i \in SandboxId \cap S : container'[i] # "up"
         /\ UNCHANGED expires
<1>1. PICK kept \in IF Faults THEN SUBSET S ELSE {{}} :
        container' = [i \in SandboxId |->
                        IF i \notin S \cap Exists THEN container[i]
                        ELSE IF i \in kept THEN "stuck" ELSE "gone"]
  BY DEF Destroy
<1>2. \A i \in SandboxId : \/ container'[i] = container[i]
                           \/ /\ i \in S /\ container[i] \in {"up", "stuck"}
                              /\ container'[i] \in {"stuck", "gone"}
  BY <1>1 DEF Exists
<1>3. \A i \in SandboxId \cap S : container'[i] # "up"
  BY <1>1 DEF Exists
<1>. QED BY <1>2, <1>3 DEF NoUnbirth, Destroy

-----------------------------------------------------------------------------
(* Steps that leave deques, workers and reaper alone.                       *)

LEMMA QuietKeeps ==
  ASSUME Custody, GivenOnce, UNCHANGED <<idle, made, reaping, leases>>, NoUnbirth
  PROVE  Custody' /\ GivenOnce'
<1>1. Unclaimed \subseteq Unclaimed'
  BY DEF Unclaimed, NoUnbirth
<1>2. Custody'
  BY <1>1 DEF Custody, Shelf
<1>. QED BY <1>2 DEF GivenOnce, NoUnbirth

(* A sandbox returned as it is made was never in the pool's hands.          *)
LEMMA HandOutKeeps ==
  ASSUME TypeOK, Custody, GivenOnce, NEW i \in SandboxId, Create(i, TRUE), Reply(i),
         UNCHANGED <<idle, made, reaping>>
  PROVE  Custody' /\ GivenOnce'
<1>1. /\ container[i] = "unborn" /\ container'[i] = "up"
      /\ \A j \in SandboxId \ {i} : container'[j] = container[j]
  BY CreateMakes
<1>2. leases[i] = 0 /\ leases'[i] = 1 /\ \A j \in SandboxId \ {i} : leases'[j] = leases[j]
  BY <1>1 DEF GivenOnce, Reply, TypeOK
<1>3. Unclaimed \subseteq Unclaimed'
  BY <1>1, <1>2 DEF Unclaimed
<1>4. Custody'
  BY <1>3 DEF Custody, Shelf
<1>. QED BY <1>1, <1>2, <1>4 DEF GivenOnce

(* Every step keeps each id of the pool in one place.                       *)
LEMMA CustodyStep ==
  ASSUME TypeOK, Custody, GivenOnce, [Next]_vars
  PROVE  Custody' /\ GivenOnce'
<1> USE DEF poolVars, dockerVars, loopVars, destroyVars
<1>1. ASSUME NEW c \in Client, NEW k \in Key, AcquireHit(c, k) PROVE Custody' /\ GivenOnce'
  <2> DEFINE i == Head(idle[k])
  <2>1. idle[k] \in Seq(SandboxId) /\ idle[k] # <<>> /\ IsInjective(idle[k])
    BY <1>1 DEF AcquireHit, TypeOK, Custody
  <2>2. /\ IsInjective(Tail(idle[k])) /\ i \in Shelf(k)
        /\ Range(Tail(idle[k])) = Shelf(k) \ {i}
    BY <2>1, TailLeaves DEF Shelf
  <2>3. i \in SandboxId /\ i \in Unclaimed
    BY <2>2 DEF Custody, Unclaimed
  <2> HIDE DEF i
  <2>4. /\ UNCHANGED <<container, made, reaping>>
        /\ leases' = [leases EXCEPT ![i] = @ + 1]
        /\ idle' = [idle EXCEPT ![k] = Tail(@)]
    BY <1>1 DEF AcquireHit, Reply, i
  <2>5. leases'[i] = 1 /\ \A j \in SandboxId \ {i} : leases'[j] = leases[j]
    BY <2>3, <2>4 DEF TypeOK, Unclaimed
  <2>6. Unclaimed' = Unclaimed \ {i}
    BY <2>3, <2>4, <2>5 DEF Unclaimed
  <2>7. /\ Shelf(k)' = Shelf(k) \ {i} /\ IsInjective(idle'[k])
        /\ \A q \in Key \ {k} : Shelf(q)' = Shelf(q) /\ IsInjective(idle'[q])
    BY <2>2, <2>4 DEF TypeOK, Shelf, Custody
  <2>8. Custody'
    BY <2>2, <2>4, <2>6, <2>7 DEF Custody
  <2>9. GivenOnce'
    BY <2>3, <2>4, <2>5 DEF GivenOnce, Unclaimed
  <2>. QED BY <2>8, <2>9
<1>2. ASSUME NEW c \in Client, NEW k \in Key, AcquireMiss(c, k) PROVE Custody' /\ GivenOnce'
  BY <1>2, HandOutKeeps DEF AcquireMiss
<1>3. ASSUME NEW c \in Client, DirectCreate(c) PROVE Custody' /\ GivenOnce'
  BY <1>3, HandOutKeeps DEF DirectCreate
<1>4. ASSUME NEW c \in Client,
             (\E k \in Key : AcquireMissFails(c, k)) \/ DirectCreateFails(c)
      PROVE  Custody' /\ GivenOnce'
  BY <1>4, CreateFailsMakes, QuietKeeps DEF AcquireMissFails, FallThrough, DirectCreateFails
<1>5. ASSUME UNCHANGED <<idle, made, reaping, leases, container>> PROVE Custody' /\ GivenOnce'
  BY <1>5, QuietKeeps DEF NoUnbirth
<1>6. ASSUME NEW i \in SandboxId, container' = [container EXCEPT ![i] = "gone"],
             UNCHANGED <<idle, made, reaping, leases>>
      PROVE  Custody' /\ GivenOnce'
  BY <1>6, QuietKeeps DEF NoUnbirth, TypeOK
<1>7. ASSUME NEW c \in Client, DestroyOne(c) PROVE Custody' /\ GivenOnce'
  BY <1>6, <1>7 DEF DestroyOne, Exists
<1>8. ASSUME Drain, UNCHANGED <<made, reaping, leases>> PROVE Custody' /\ GivenOnce'
  <2>1. NoUnbirth
    BY <1>8, DestroyRemoves DEF Drain
  <2>2. Unclaimed \subseteq Unclaimed'
    BY <1>8, <2>1 DEF Unclaimed, NoUnbirth
  <2>3. \A k \in Key : idle'[k] = <<>> /\ Shelf(k)' = {} /\ IsInjective(idle'[k])
    BY <1>8 DEF Drain, Shelf, Range, IsInjective
  <2>4. Custody'
    BY <1>8, <2>2, <2>3 DEF Custody
  <2>. QED BY <1>8, <2>1, <2>4 DEF GivenOnce, NoUnbirth
<1>9. ASSUME NEW c \in Client, ClientStep(c) PROVE Custody' /\ GivenOnce'
  <2>1. CASE PoolDrain(c)
    BY <1>8, <2>1 DEF PoolDrain
  <2>2. CASE AcquireBypass(c) \/ \E k \in Key : AcquireAtCapacity(c, k) \/ OnDestroyActive(c, k)
    BY <1>5, <2>2 DEF AcquireBypass, AcquireAtCapacity, FallThrough, OnDestroyActive
  <2>3. CASE \/ DestroyBegin(c) \/ DestroySkip(c) \/ OnDestroyOther(c) \/ NotifyOne(c)
             \/ HangUp(c) \/ PoolWarmup(c)
    BY <1>5, <2>3 DEF DestroyBegin, DestroySkip, OnDestroyOther, NotifyOne, HangUp, PoolWarmup
  <2>. QED BY <1>1, <1>2, <1>3, <1>4, <1>7, <1>9, <2>1, <2>2, <2>3 DEF ClientStep
<1>10. CASE LoopStep
  BY <1>5, <1>10 DEF LoopStep, Wake, DrainPending, PickNone, BatchDone, Pick
<1>11. CASE WorkerCreate
  <2>1. PICK i \in SandboxId : Create(i, FALSE) /\ made' = made \cup {i}
    BY <1>11 DEF WorkerCreate
  <2>2. UNCHANGED <<idle, reaping, leases>>
    BY <1>11 DEF WorkerCreate
  <2>3. NoUnbirth /\ container[i] = "unborn" /\ container'[i] = "up"
    BY <2>1, CreateMakes
  <2>4. i \notin Unclaimed /\ leases[i] = 0
    BY <2>3 DEF Unclaimed, GivenOnce
  <2>5. Unclaimed \cup {i} \subseteq Unclaimed'
    BY <2>2, <2>3, <2>4 DEF Unclaimed, NoUnbirth
  <2>6. Custody'
    BY <2>1, <2>2, <2>4, <2>5 DEF Custody, Shelf
  <2>. QED BY <2>2, <2>3, <2>6 DEF GivenOnce, NoUnbirth
<1>12. CASE WorkerCreateFails
  BY <1>12, CreateFailsMakes, QuietKeeps DEF WorkerCreateFails
<1>13. CASE WorkerPush
  <2>1. PICK i \in made : /\ idle' = [idle EXCEPT ![cur] = Append(@, i)]
                          /\ made' = made \ {i}
    BY <1>13 DEF WorkerPush
  <2>2. UNCHANGED <<container, reaping, leases, cur>>
    BY <1>13 DEF WorkerPush
  <2>3. cur \in Key /\ idle[cur] \in Seq(SandboxId) /\ i \in SandboxId
    BY DEF TypeOK
  <2>4. i \notin Shelf(cur) /\ IsInjective(idle[cur])
    BY <2>3 DEF Custody
  <2>5. /\ Range(Append(idle[cur], i)) = Shelf(cur) \cup {i}
        /\ IsInjective(Append(idle[cur], i))
    BY <2>3, <2>4, AppendAdds DEF Shelf
  <2>6. /\ Shelf(cur)' = Shelf(cur) \cup {i} /\ IsInjective(idle'[cur])
        /\ \A q \in Key \ {cur} : Shelf(q)' = Shelf(q) /\ IsInjective(idle'[q])
    BY <2>1, <2>2, <2>3, <2>5 DEF TypeOK, Shelf, Custody
  <2>7. Unclaimed' = Unclaimed /\ GivenOnce'
    BY <2>2 DEF Unclaimed, GivenOnce
  <2>8. Custody'
    BY <2>1, <2>2, <2>3, <2>6, <2>7 DEF Custody
  <2>. QED BY <2>7, <2>8
<1>14. CASE ReapCollect
  <2>1. PICK n \in [Key -> 0 .. Cardinality(SandboxId)] :
          /\ \A k \in Key : n[k] \in Monus(Len(idle[k]), MaxIdle[k]) .. Len(idle[k])
          /\ idle' = [k \in Key |-> SubSeq(idle[k], n[k] + 1, Len(idle[k]))]
          /\ reaping' = UNION {Range(SubSeq(idle[k], 1, n[k])) : k \in Key}
    BY <1>14 DEF ReapCollect
  <2>2. UNCHANGED <<container, made, leases>> /\ reaping = {}
    BY <1>14 DEF ReapCollect
  <2> DEFINE Taken(k) == Range(SubSeq(idle[k], 1, n[k]))
  <2>3. ASSUME NEW k \in Key
        PROVE  /\ IsInjective(idle'[k])
               /\ Taken(k) \cap Shelf(k)' = {} /\ Taken(k) \cup Shelf(k)' = Shelf(k)
    <3>1. Cardinality(SandboxId) \in Nat /\ idle[k] \in Seq(SandboxId)
      BY PoolAssumption, FS_CardinalityType DEF TypeOK
    <3>2. n[k] \in Nat /\ n[k] <= Len(idle[k])
      BY <2>1, <3>1 DEF Monus
    <3>3. IsInjective(idle[k])
      BY DEF Custody
    <3>4. idle'[k] = SubSeq(idle[k], n[k] + 1, Len(idle[k]))
      BY <2>1
    <3>. QED BY <3>1, <3>2, <3>3, <3>4, SplitApart DEF Shelf
  <2>4. reaping' = UNION {Taken(k) : k \in Key}
    BY <2>1
  <2> HIDE DEF Taken
  <2>5. Unclaimed' = Unclaimed /\ GivenOnce'
    BY <2>2 DEF Unclaimed, GivenOnce
  <2>6. \A k, q \in Key : Taken(k) \cap Shelf(q)' = {}
    BY <2>3 DEF Custody
  <2>7. made \cap reaping' = {} /\ reaping' \subseteq Unclaimed
    BY <2>3, <2>4 DEF Custody
  <2>8. \A k \in Key : Shelf(k)' \cap (made \cup reaping') = {}
    BY <2>3, <2>4, <2>6 DEF Custody
  <2>9. Custody'
    BY <2>2, <2>3, <2>5, <2>7, <2>8 DEF Custody
  <2>. QED BY <2>5, <2>9
<1>15. CASE ReapDestroy
  <2>1. NoUnbirth /\ UNCHANGED <<idle, made, leases>> /\ reaping' = {}
    BY <1>15, DestroyRemoves DEF ReapDestroy
  <2>2. Unclaimed \subseteq Unclaimed'
    BY <2>1 DEF Unclaimed, NoUnbirth
  <2>3. Custody'
    BY <2>1, <2>2 DEF Custody, Shelf
  <2>. QED BY <2>1, <2>3 DEF GivenOnce, NoUnbirth
<1>16. CASE GcStep
  BY <1>6, <1>16 DEF GcStep, GcExpired, GcAll
<1>17. CASE ProcessStep
  <2>1. CASE PoolShutdown
    BY <1>8, <2>1 DEF PoolShutdown
  <2>. QED BY <1>5, <1>17, <2>1 DEF ProcessStep, CtrlC, Exit, IdleExit
<1>18. CASE UNCHANGED vars
  BY <1>5, <1>18 DEF vars
<1>. QED
  BY <1>9, <1>10, <1>11, <1>12, <1>13, <1>14, <1>15, <1>16, <1>17, <1>18
  DEF Next, WorkerStep, ReaperStep

LEMMA CustodyInit ==
  ASSUME Init
  PROVE  Custody /\ GivenOnce
<1>1. /\ idle = [k \in Key |-> <<>>] /\ made = {} /\ reaping = {}
      /\ leases = [i \in SandboxId |-> 0]
  BY DEF Init
<1>2. \A k \in Key : Shelf(k) = {} /\ IsInjective(idle[k])
  BY <1>1 DEF Shelf, Range, IsInjective
<1>3. Custody
  BY <1>1, <1>2 DEF Custody
<1>. QED BY <1>1, <1>3 DEF GivenOnce

(* However many Create calls, replenishing workers, reaper rounds, drains   *)
(* and failures of Docker there are, no sandbox is returned twice: the      *)
(* custody of an id is never split.                                         *)
THEOREM LeasedOnce == Spec => []NoDoubleLease
<1>1. Init => Custody /\ GivenOnce
  BY CustodyInit
<1>2. TypeOK /\ Custody /\ GivenOnce /\ [Next]_vars => Custody' /\ GivenOnce'
  BY CustodyStep
<1>3. GivenOnce => NoDoubleLease
  BY DEF GivenOnce, NoDoubleLease
<1>. QED BY <1>1, <1>2, <1>3, TypeCorrect, PTL DEF Spec
=============================================================================
