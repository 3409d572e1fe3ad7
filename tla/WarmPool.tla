------------------------------ MODULE WarmPool ------------------------------
(***************************************************************************)
(* The warm pool of roched: PoolManager (crates/roche-daemon/src/pool), its *)
(* replenish and reaper tasks, the garbage-collection task, and the RPC     *)
(* handlers of server.rs that create and destroy sandboxes, over the Docker *)
(* provider that owns the containers.                                       *)
(*                                                                          *)
(* Every critical section of the tokio Mutex around PoolManagerInner is one *)
(* step; whatever runs between two critical sections, or without the lock   *)
(* (destroy, gc, direct creation), is a step of its own.                    *)
(***************************************************************************)
EXTENDS Naturals, Sequences, FiniteSets, Functions

CONSTANTS
  Key,        (* PoolKey: the configured provider/image pairs               *)
  SandboxId,  (* container ids; bounds the number of creations of a run     *)
  Client,     (* concurrent Create and Destroy calls                        *)
  MinIdle,    (* PoolConfig.min_idle, per key                               *)
  MaxIdle,    (* PoolConfig.max_idle, per key                               *)
  MaxTotal,   (* PoolConfig.max_total, per key                              *)
  Faults,     (* whether Docker may fail and clients may hang up            *)
  Trims,      (* whether sandboxes outlive idle_timeout and clients call    *)
              (* pool_drain                                                 *)
  Tidy        (* whether clients destroy only what Create returned to them, *)
              (* and never use destroy --all or gc --all                    *)

ASSUME PoolAssumption ==
  /\ Key # {}
  /\ IsFiniteSet(SandboxId)
  /\ MinIdle \in [Key -> Nat]
  /\ MaxIdle \in [Key -> Nat]
  /\ MaxTotal \in [Key -> Nat]
  /\ Faults \in BOOLEAN
  /\ Trims \in BOOLEAN
  /\ Tidy \in BOOLEAN

VARIABLES
  idle,       (* SandboxPool.idle: oldest first                             *)
  active,     (* SandboxPool.active                                         *)
  pending,    (* PoolManagerInner.pending_replenish                         *)
  permit,     (* the permit stored in replenish_notify                      *)
  container,  (* Docker: each id is unborn, up, gone or stuck: there, but a *)
              (* docker command on it failed and its caller let go of it    *)
  expires,    (* Docker: whether it carries the roche.expires label         *)
  loop,       (* where run_replenish_loop stands                            *)
  work,       (* the drained keys it still has to look at                   *)
  cur,        (* the key whose batch is running                             *)
  todo,       (* spawned creations that have not called the provider        *)
  made,       (* created by a spawned task, not yet pushed on idle          *)
  reaping,    (* taken off idle by run_reaper_loop, not yet destroyed       *)
  rpc,        (* where each call stands                                     *)
  targets,    (* the ids a Destroy has still to visit                       *)
  victim,     (* the id it has removed and not yet told the pool about      *)
  phase,      (* the daemon process                                         *)
  leases      (* history: how often each id was returned by Create          *)

poolVars == <<idle, active, pending>>
dockerVars == <<container, expires>>
loopVars == <<loop, work, cur, todo, made>>
destroyVars == <<targets, victim>>
vars == <<poolVars, permit, dockerVars, loopVars, reaping, rpc,
          destroyVars, phase, leases>>

-----------------------------------------------------------------------------
Total(k) == Len(idle[k]) + Cardinality(active[k])

(* Mutant: the comparison is off by one.                                    *)
AtCapacityOffByOne(k) == Total(k) > MaxTotal[k]

AtCapacity(k) == Total(k) >= MaxTotal[k]

Smaller(m, n) == IF m < n THEN m ELSE n

(* usize::saturating_sub.                                                   *)
Monus(m, n) == IF m > n THEN m - n ELSE 0

(* Mutant: the sandboxes already idle are not subtracted.                   *)
DeficitForgetsIdle(k) == Smaller(MinIdle[k], Monus(MaxTotal[k], Total(k)))

(* How many sandboxes the replenish task decides to create for a pool.      *)
Deficit(k) == Smaller(Monus(MinIdle[k], Len(idle[k])),
                      Monus(MaxTotal[k], Total(k)))

(* Concurrent creations of one replenish batch: Semaphore::new(3).          *)
Permits == 3

Fresh == {i \in SandboxId : container[i] = "unborn"}
Exists == {i \in SandboxId : container[i] \in {"up", "stuck"}}
Given == {i \in SandboxId : leases[i] > 0}

(* The process runs; Serving: it accepts calls and c is free to make one.   *)
Up == phase \notin {"exited", "aborted"}
Serving(c) == phase = "serving" /\ rpc[c] = "none"

(* docker create + docker start; ttl: build_create_args writes the expiry   *)
(* label, which it does for a timeout above 0.                              *)
Create(i, ttl) ==
  /\ i \in Fresh
  /\ container' = [container EXCEPT ![i] = "up"]
  /\ expires' = [expires EXCEPT ![i] = ttl]

Leave(i, ttl) ==
  /\ i \in Fresh
  /\ container' = [container EXCEPT ![i] = "stuck"]
  /\ expires' = [expires EXCEPT ![i] = ttl]

(* A creation that fails: nothing was made, or docker start failed (or the  *)
(* caller hung up) and the container that docker create made stays behind   *)
(* under an id nobody knows. Docker also refuses when the ids, the model's  *)
(* bound, are used up.                                                      *)
CreateFails(ttl) ==
  \/ (Faults \/ Fresh = {}) /\ UNCHANGED dockerVars
  \/ Faults /\ \E i \in SandboxId : Leave(i, ttl)

(* docker rm -f on a set of ids: the missing ones are errors the callers    *)
(* log or skip, and a faulty Docker may keep any of the others, which the   *)
(* callers have forgotten by then.                                          *)
Destroy(S) ==
  \E kept \in IF Faults THEN SUBSET S ELSE {{}} :
    /\ container' = [i \in SandboxId |->
                       IF i \notin S \cap Exists THEN container[i]
                       ELSE IF i \in kept THEN "stuck" ELSE "gone"]
    /\ UNCHANGED expires

-----------------------------------------------------------------------------
(* initial_warmup has run by the time the server listens.                   *)
Warm == {k \in Key : MinIdle[k] > 0}

Init ==
  /\ idle = [k \in Key |-> <<>>]
  /\ active = [k \in Key |-> {}]
  /\ pending = Warm
  /\ permit = (Warm # {})
  /\ container = [i \in SandboxId |-> "unborn"]
  /\ expires = [i \in SandboxId |-> FALSE]
  /\ loop = "wait"
  /\ work = {}
  /\ cur = CHOOSE k \in Key : TRUE
  /\ todo = 0
  /\ made = {}
  /\ reaping = {}
  /\ rpc = [c \in Client |-> "none"]
  /\ targets = [c \in Client |-> {}]
  /\ victim = [c \in Client |-> {}]
  /\ phase = "serving"
  /\ leases = [i \in SandboxId |-> 0]

-----------------------------------------------------------------------------
(* Create RPC.                                                              *)

Reply(i) == leases' = [leases EXCEPT ![i] = @ + 1]

(* Mutant: the front of the deque is read and not popped.                   *)
AcquireHitPeeks(c, k) ==
  /\ Serving(c)
  /\ ~AtCapacity(k) /\ idle[k] # <<>>
  /\ active' = [active EXCEPT ![k] = @ \cup {Head(idle[k])}]
  /\ pending' = pending \cup {k}
  /\ rpc' = [rpc EXCEPT ![c] = "signal"]
  /\ Reply(Head(idle[k]))
  /\ UNCHANGED <<idle, permit, dockerVars, loopVars, reaping, destroyVars, phase>>

(* Mutant: the sandbox handed out is not entered as active.                 *)
AcquireHitUntracked(c, k) ==
  /\ Serving(c)
  /\ ~AtCapacity(k) /\ idle[k] # <<>>
  /\ idle' = [idle EXCEPT ![k] = Tail(@)]
  /\ pending' = pending \cup {k}
  /\ rpc' = [rpc EXCEPT ![c] = "signal"]
  /\ Reply(Head(idle[k]))
  /\ UNCHANGED <<active, permit, dockerVars, loopVars, reaping, destroyVars, phase>>

(* try_acquire: pool hit, the oldest idle sandbox is handed out.            *)
AcquireHit(c, k) ==
  /\ Serving(c)
  /\ ~AtCapacity(k) /\ idle[k] # <<>>
  /\ idle' = [idle EXCEPT ![k] = Tail(@)]
  /\ active' = [active EXCEPT ![k] = @ \cup {Head(idle[k])}]
  /\ pending' = pending \cup {k}
  /\ rpc' = [rpc EXCEPT ![c] = "signal"]
  /\ Reply(Head(idle[k]))
  /\ UNCHANGED <<permit, dockerVars, loopVars, reaping, destroyVars, phase>>

(* try_acquire: pool miss, created under the lock with the pool's own       *)
(* configuration and the caller's timeout, which is never 0.                *)
AcquireMiss(c, k) ==
  /\ Serving(c)
  /\ ~AtCapacity(k) /\ idle[k] = <<>>
  /\ \E i \in SandboxId :
       /\ Create(i, TRUE)
       /\ active' = [active EXCEPT ![k] = @ \cup {i}]
       /\ Reply(i)
  /\ pending' = pending \cup {k}
  /\ rpc' = [rpc EXCEPT ![c] = "signal"]
  /\ UNCHANGED <<idle, permit, loopVars, reaping, destroyVars, phase>>

(* try_acquire answers None and create goes on to the provider.             *)
FallThrough(c) ==
  /\ rpc' = [rpc EXCEPT ![c] = "direct"]
  /\ UNCHANGED <<poolVars, permit, loopVars, reaping, destroyVars, phase, leases>>

(* The creation of a miss fails.                                            *)
AcquireMissFails(c, k) ==
  /\ Serving(c)
  /\ ~AtCapacity(k) /\ idle[k] = <<>>
  /\ CreateFails(TRUE)
  /\ FallThrough(c)

(* A non-default configuration, or an image without a pool.                 *)
AcquireBypass(c) ==
  /\ Serving(c)
  /\ FallThrough(c)
  /\ UNCHANGED dockerVars

(* A pool at capacity, whether or not it has idle sandboxes.                *)
AcquireAtCapacity(c, k) ==
  /\ Serving(c)
  /\ AtCapacity(k)
  /\ FallThrough(c)
  /\ UNCHANGED dockerVars

(* replenish_notify.notify_one, after the lock is released: one permit at   *)
(* most is stored. The call then replies or goes on to its next target.     *)
Resume(T) == IF T = {} THEN "none" ELSE "destroy"

NotifyOne(c) ==
  /\ Up /\ rpc[c] = "signal"
  /\ permit' = TRUE
  /\ rpc' = [rpc EXCEPT ![c] = Resume(targets[c])]
  /\ UNCHANGED <<poolVars, dockerVars, loopVars, reaping, destroyVars, phase,
                 leases>>

(* create, after None: the provider is called without the pool's lock.      *)
DirectCreate(c) ==
  /\ Up /\ rpc[c] = "direct"
  /\ \E i \in SandboxId :
       /\ Create(i, TRUE)
       /\ Reply(i)
  /\ rpc' = [rpc EXCEPT ![c] = "none"]
  /\ UNCHANGED <<poolVars, permit, loopVars, reaping, destroyVars, phase>>

DirectCreateFails(c) ==
  /\ Up /\ rpc[c] = "direct"
  /\ CreateFails(TRUE)
  /\ rpc' = [rpc EXCEPT ![c] = "none"]
  /\ UNCHANGED <<poolVars, permit, loopVars, reaping, destroyVars, phase, leases>>

-----------------------------------------------------------------------------
(* Destroy RPC: for each target, remove the container, then tell the pool.  *)

(* The ids of the request, or with --all everything the provider lists.     *)
DestroyBegin(c) ==
  /\ Serving(c)
  /\ \E S \in (SUBSET Given) \cup (IF Tidy THEN {} ELSE {Exists}) :
       /\ S # {}
       /\ targets' = [targets EXCEPT ![c] = S]
  /\ rpc' = [rpc EXCEPT ![c] = "destroy"]
  /\ UNCHANGED <<poolVars, permit, dockerVars, loopVars, reaping, victim, phase,
                 leases>>

(* One provider.destroy that succeeds: only then is on_destroy called.      *)
DestroyOne(c) ==
  /\ Up /\ rpc[c] = "destroy"
  /\ \E i \in targets[c] \cap Exists :
       /\ container' = [container EXCEPT ![i] = "gone"]
       /\ targets' = [targets EXCEPT ![c] = @ \ {i}]
       /\ victim' = [victim EXCEPT ![c] = {i}]
  /\ rpc' = [rpc EXCEPT ![c] = "notify"]
  /\ UNCHANGED <<poolVars, permit, expires, loopVars, reaping, phase, leases>>

(* One that fails, as it does for an id Docker no longer knows.             *)
DestroySkip(c) ==
  /\ Up /\ rpc[c] = "destroy"
  /\ \E i \in IF Faults THEN targets[c] ELSE targets[c] \ Exists :
       /\ targets' = [targets EXCEPT ![c] = @ \ {i}]
       /\ rpc' = [rpc EXCEPT ![c] = Resume(targets[c] \ {i})]
  /\ UNCHANGED <<poolVars, permit, dockerVars, loopVars, reaping, victim, phase,
                 leases>>

(* Mutant: on_destroy inserts the key and notifies nobody.                  *)
OnDestroySilent(c, k) ==
  /\ Up /\ rpc[c] = "notify"
  /\ \E i \in victim[c] \cap active[k] :
       active' = [active EXCEPT ![k] = @ \ {i}]
  /\ pending' = pending \cup {k}
  /\ rpc' = [rpc EXCEPT ![c] = Resume(targets[c])]
  /\ victim' = [victim EXCEPT ![c] = {}]
  /\ UNCHANGED <<idle, permit, dockerVars, loopVars, reaping, targets, phase, leases>>

(* on_destroy of an id some pool holds as active.                           *)
OnDestroyActive(c, k) ==
  /\ Up /\ rpc[c] = "notify"
  /\ \E i \in victim[c] \cap active[k] :
       active' = [active EXCEPT ![k] = @ \ {i}]
  /\ pending' = pending \cup {k}
  /\ rpc' = [rpc EXCEPT ![c] = "signal"]
  /\ victim' = [victim EXCEPT ![c] = {}]
  /\ UNCHANGED <<idle, permit, dockerVars, loopVars, reaping, targets, phase, leases>>

(* on_destroy of any other id.                                              *)
OnDestroyOther(c) ==
  /\ Up /\ rpc[c] = "notify"
  /\ \A k \in Key : victim[c] \cap active[k] = {}
  /\ rpc' = [rpc EXCEPT ![c] = Resume(targets[c])]
  /\ victim' = [victim EXCEPT ![c] = {}]
  /\ UNCHANGED <<poolVars, permit, dockerVars, loopVars, reaping, targets, phase,
                 leases>>

(* The client hangs up: the handler's future is dropped where it waits, for *)
(* the provider or, in on_destroy, for the lock.                            *)
HangUp(c) ==
  /\ Faults /\ Up /\ rpc[c] \in {"direct", "destroy", "notify"}
  /\ rpc' = [rpc EXCEPT ![c] = "none"]
  /\ targets' = [targets EXCEPT ![c] = {}]
  /\ victim' = [victim EXCEPT ![c] = {}]
  /\ UNCHANGED <<poolVars, permit, dockerVars, loopVars, reaping, phase, leases>>

-----------------------------------------------------------------------------
(* Pool and garbage-collection calls.                                       *)

PoolWarmup(c) ==
  /\ Serving(c)
  /\ pending' = pending \cup Key
  /\ rpc' = [rpc EXCEPT ![c] = "signal"]
  /\ UNCHANGED <<idle, active, permit, dockerVars, loopVars, reaping, destroyVars,
                 phase, leases>>

Drain ==
  /\ idle' = [k \in Key |-> <<>>]
  /\ Destroy(UNION {Range(idle[k]) : k \in Key})

(* drain: nothing tells the replenish task.                                 *)
PoolDrain(c) ==
  /\ Trims /\ Serving(c)
  /\ Drain
  /\ UNCHANGED <<active, pending, permit, loopVars, reaping, rpc, destroyVars, phase,
                 leases>>

(* Mutant: a container without an expiry label counts as expired.           *)
GcUnlabelled(i) ==
  /\ Up /\ i \in Exists
  /\ container' = [container EXCEPT ![i] = "gone"]
  /\ UNCHANGED <<poolVars, permit, expires, loopVars, reaping, rpc, destroyVars, phase,
                 leases>>

(* run_gc_loop, and the gc call without --all: an expired container goes.   *)
GcExpired(i) ==
  /\ Up /\ i \in Exists /\ expires[i]
  /\ container' = [container EXCEPT ![i] = "gone"]
  /\ UNCHANGED <<poolVars, permit, expires, loopVars, reaping, rpc, destroyVars, phase,
                 leases>>

(* gc --all: the pool is not told.                                          *)
GcAll(i) ==
  /\ ~Tidy /\ phase = "serving" /\ i \in Exists
  /\ container' = [container EXCEPT ![i] = "gone"]
  /\ UNCHANGED <<poolVars, permit, expires, loopVars, reaping, rpc, destroyVars, phase,
                 leases>>

-----------------------------------------------------------------------------
(* run_replenish_loop.                                                      *)

Wake ==
  /\ Up /\ loop = "wait" /\ permit
  /\ permit' = FALSE
  /\ loop' = "drain"
  /\ UNCHANGED <<poolVars, dockerVars, work, cur, todo, made, reaping, rpc,
                 destroyVars, phase, leases>>

DrainPending ==
  /\ Up /\ loop = "drain"
  /\ work' = pending
  /\ pending' = {}
  /\ loop' = "pick"
  /\ UNCHANGED <<idle, active, permit, dockerVars, cur, todo, made, reaping, rpc,
                 destroyVars, phase, leases>>

(* Mutant: a pool with a sandbox left is taken to have enough.              *)
PickOnlyEmpty(k) ==
  /\ Up /\ loop = "pick" /\ k \in work
  /\ work' = work \ {k}
  /\ cur' = k
  /\ todo' = IF idle[k] = <<>> THEN Deficit(k) ELSE 0
  /\ loop' = IF todo' = 0 THEN "pick" ELSE "batch"
  /\ UNCHANGED <<poolVars, permit, dockerVars, made, reaping, rpc, destroyVars, phase,
                 leases>>

(* One drained key: nothing to do, or a batch of Deficit(k) spawned tasks.  *)
Pick(k) ==
  /\ Up /\ loop = "pick" /\ k \in work
  /\ work' = work \ {k}
  /\ cur' = k
  /\ todo' = Deficit(k)
  /\ loop' = IF Deficit(k) = 0 THEN "pick" ELSE "batch"
  /\ UNCHANGED <<poolVars, permit, dockerVars, made, reaping, rpc, destroyVars, phase,
                 leases>>

PickNone ==
  /\ Up /\ loop = "pick" /\ work = {}
  /\ loop' = "wait"
  /\ UNCHANGED <<poolVars, permit, dockerVars, work, cur, todo, made, reaping, rpc,
                 destroyVars, phase, leases>>

(* Mutant: the replenish task creates with the default timeout.             *)
WorkerCreateExpiring ==
  /\ Up /\ todo > 0 /\ Cardinality(made) < Permits
  /\ \E i \in SandboxId :
       /\ Create(i, TRUE)
       /\ made' = made \cup {i}
  /\ todo' = todo - 1
  /\ UNCHANGED <<poolVars, permit, loop, work, cur, reaping, rpc, destroyVars, phase,
                 leases>>

(* Mutant: the batch is spawned for 0..=deficit.                            *)
WorkerCreateOneMore ==
  /\ Up /\ loop = "batch" /\ todo >= 0 /\ Cardinality(made) < Permits
  /\ \E i \in SandboxId :
       /\ Create(i, FALSE)
       /\ made' = made \cup {i}
  /\ todo' = todo - 1
  /\ UNCHANGED <<poolVars, permit, loop, work, cur, reaping, rpc, destroyVars, phase,
                 leases>>

(* A spawned task holding a semaphore permit creates without a timeout, so  *)
(* without an expiry label, and lets go of the lock.                        *)
WorkerCreate ==
  /\ Up /\ todo > 0 /\ Cardinality(made) < Permits
  /\ \E i \in SandboxId :
       /\ Create(i, FALSE)
       /\ made' = made \cup {i}
  /\ todo' = todo - 1
  /\ UNCHANGED <<poolVars, permit, loop, work, cur, reaping, rpc, destroyVars, phase,
                 leases>>

WorkerCreateFails ==
  /\ Up /\ todo > 0 /\ Cardinality(made) < Permits
  /\ CreateFails(FALSE)
  /\ todo' = todo - 1
  /\ UNCHANGED <<poolVars, permit, loop, work, cur, made, reaping, rpc, destroyVars,
                 phase, leases>>

(* It takes the lock again and pushes what it made, whatever has happened   *)
(* to the pool since the deficit was computed.                              *)
WorkerPush ==
  /\ Up
  /\ \E i \in made :
       /\ idle' = [idle EXCEPT ![cur] = Append(@, i)]
       /\ made' = made \ {i}
  /\ UNCHANGED <<active, pending, permit, dockerVars, loop, work, cur, todo, reaping, rpc,
                 destroyVars, phase, leases>>

(* All join handles have been awaited.                                      *)
BatchDone ==
  /\ Up /\ loop = "batch" /\ todo = 0 /\ made = {}
  /\ loop' = "pick"
  /\ UNCHANGED <<poolVars, permit, dockerVars, work, cur, todo, made, reaping, rpc,
                 destroyVars, phase, leases>>

-----------------------------------------------------------------------------
(* run_reaper_loop. Time is abstract: created_at grows along the deque, so  *)
(* the expired sandboxes are a prefix, any n[k] of it; at least the excess  *)
(* over max_idle goes too, from the front.                                  *)
ReapCollect ==
  /\ Up /\ reaping = {}
  /\ \E n \in [Key -> 0 .. Cardinality(SandboxId)] :
       /\ \A k \in Key : n[k] \in Monus(Len(idle[k]), MaxIdle[k]) .. Len(idle[k])
       /\ Trims \/ \A k \in Key : n[k] = Monus(Len(idle[k]), MaxIdle[k])
       /\ \E k \in Key : n[k] > 0
       /\ idle' = [k \in Key |-> SubSeq(idle[k], n[k] + 1, Len(idle[k]))]
       /\ reaping' = UNION {Range(SubSeq(idle[k], 1, n[k])) : k \in Key}
  /\ UNCHANGED <<active, pending, permit, dockerVars, loopVars, rpc, destroyVars,
                 phase, leases>>

(* The lock is taken again and what was collected is destroyed.             *)
ReapDestroy ==
  /\ Up /\ reaping # {}
  /\ Destroy(reaping)
  /\ reaping' = {}
  /\ UNCHANGED <<poolVars, permit, loopVars, rpc, destroyVars, phase, leases>>

-----------------------------------------------------------------------------
(* main: after ctrl-c the server finishes the calls in flight, drains the   *)
(* pool, aborts the background tasks and returns. The tasks the replenish   *)
(* task spawned run until then.                                             *)
CtrlC ==
  /\ phase = "serving"
  /\ phase' = "stopping"
  /\ UNCHANGED <<poolVars, permit, dockerVars, loopVars, reaping, rpc, destroyVars,
                 leases>>

PoolShutdown ==
  /\ phase = "stopping" /\ \A c \in Client : rpc[c] = "none"
  /\ Drain
  /\ phase' = "drained"
  /\ UNCHANGED <<active, pending, permit, loopVars, reaping, rpc, destroyVars, leases>>

Exit ==
  /\ phase = "drained"
  /\ phase' = "exited"
  /\ UNCHANGED <<poolVars, permit, dockerVars, loopVars, reaping, rpc, destroyVars,
                 leases>>

(* The idle monitor: process::exit(0), whatever is going on.                *)
IdleExit ==
  /\ Up
  /\ phase' = "aborted"
  /\ UNCHANGED <<poolVars, permit, dockerVars, loopVars, reaping, rpc, destroyVars,
                 leases>>

-----------------------------------------------------------------------------
ClientStep(c) ==
  \/ \E k \in Key :
       \/ AcquireHit(c, k)
       \/ AcquireMiss(c, k)
       \/ AcquireMissFails(c, k)
       \/ AcquireAtCapacity(c, k)
  \/ AcquireBypass(c)
  \/ DirectCreate(c) \/ DirectCreateFails(c)
  \/ DestroyBegin(c) \/ DestroyOne(c) \/ DestroySkip(c)
  \/ (\E k \in Key : OnDestroyActive(c, k)) \/ OnDestroyOther(c)
  \/ NotifyOne(c) \/ HangUp(c)
  \/ PoolWarmup(c) \/ PoolDrain(c)

LoopStep ==
  \/ Wake \/ DrainPending \/ PickNone \/ BatchDone
  \/ \E k \in Key : Pick(k)

WorkerStep == WorkerCreate \/ WorkerCreateFails \/ WorkerPush

ReaperStep == ReapCollect \/ ReapDestroy

GcStep == \E i \in SandboxId : GcExpired(i) \/ GcAll(i)

ProcessStep == CtrlC \/ PoolShutdown \/ Exit \/ IdleExit

Next ==
  \/ \E c \in Client : ClientStep(c)
  \/ LoopStep \/ WorkerStep \/ ReaperStep \/ GcStep \/ ProcessStep

Spec == Init /\ [][Next]_vars

(* The tokio tasks run and the mutex is fair; a call that has begun to      *)
(* notify does so without waiting. Clients, timers and signals owe nothing. *)
Fairness ==
  /\ WF_vars(LoopStep)
  /\ WF_vars(WorkerStep)
  /\ \A c \in Client : WF_vars(NotifyOne(c))

FairSpec == Spec /\ Fairness

-----------------------------------------------------------------------------
RpcState == {"none", "direct", "signal", "destroy", "notify"}

TypeOK ==
  /\ idle \in [Key -> Seq(SandboxId)]
  /\ active \in [Key -> SUBSET SandboxId]
  /\ pending \in SUBSET Key
  /\ permit \in BOOLEAN
  /\ container \in [SandboxId -> {"unborn", "up", "stuck", "gone"}]
  /\ expires \in [SandboxId -> BOOLEAN]
  /\ loop \in {"wait", "drain", "pick", "batch"}
  /\ work \in SUBSET Key
  /\ cur \in Key
  /\ todo \in Nat
  /\ made \in SUBSET SandboxId
  /\ reaping \in SUBSET SandboxId
  /\ rpc \in [Client -> RpcState]
  /\ targets \in [Client -> SUBSET SandboxId]
  /\ victim \in [Client -> SUBSET SandboxId]
  /\ phase \in {"serving", "stopping", "drained", "exited", "aborted"}
  /\ leases \in [SandboxId -> Nat]

(* The sandboxes the running batch will still add to pool k.                *)
Coming(k) == IF k = cur THEN todo + Cardinality(made) ELSE 0

Shelved == UNION {Range(idle[k]) : k \in Key}

(* No two Create calls are ever answered with the same sandbox, whatever    *)
(* the interleaving of acquisitions, replenishing workers, reaper, drain    *)
(* and shutdown: an id is in one place only until it is handed out.         *)
NoDoubleLease == \A i \in SandboxId : leases[i] <= 1

(* max_total is checked against idle + active when a Create arrives and     *)
(* when a batch is sized, but nobody counts the batch in flight: the pool   *)
(* may pass max_total, and never by more than min_idle.                     *)
CapacityBound ==
  \A k \in Key : Total(k) + Coming(k) <= MaxTotal[k] + MinIdle[k]

(* However Create, Destroy, warmup and drain calls interleave with a batch, *)
(* the replenish task never overshoots min_idle.                            *)
IdleBound == \A k \in Key : Len(idle[k]) + Coming(k) <= MinIdle[k]

(* A key inserted in pending_replenish is never forgotten: the permit is    *)
(* stored, or about to be, or the replenish task is about to drain the set, *)
(* although insertion, notify_one and drain are three separate steps.       *)
NoLostWakeup ==
  pending # {} => permit \/ loop = "drain" \/ \E c \in Client : rpc[c] = "signal"

(* When clients destroy only what they were given, a sandbox in the idle    *)
(* deque is a running container: no garbage collection, no reaper round and *)
(* no Destroy call takes it away before it is handed out.                   *)
PooledAlive == Tidy => Shelved \cup made \subseteq Exists

(* As long as the daemon runs, it knows every container no garbage          *)
(* collection will ever take (it has no expiry label): as idle or active,   *)
(* about to be pushed or about to be reaped. The exceptions are those       *)
(* docker itself failed to start or to remove, which the daemon logs and    *)
(* forgets. Once the process has ended nobody knows any of them.            *)
NoImmortalOrphan ==
  Up => \A i \in Exists :
    \/ expires[i] \/ container[i] = "stuck"
    \/ i \in Shelved \cup made \cup reaping \cup UNION {active[k] : k \in Key}

(* When Docker does not fail and nothing is reaped or drained, a pool that  *)
(* was signalled gets its min_idle sandboxes, unless it reaches max_total   *)
(* first, the process exits or the ids of the model run out: no sequence of *)
(* Create and Destroy calls during a batch leaves it low for good.          *)
Full(k) == Len(idle[k]) >= MinIdle[k] \/ AtCapacity(k) \/ Fresh = {}
           \/ phase # "serving"

SignalledRefilled == \A k \in Key : k \in pending ~> Full(k)

(* What the replenish task's comment promises: a pool below min_idle is     *)
(* refilled. The reaper and pool_drain take idle sandboxes away and signal  *)
(* nothing.                                                                 *)
RefilledWhenLow == \A k \in Key : ~Full(k) ~> Full(k)

(* What the comment on shutdown promises: a graceful exit leaves no idle    *)
(* sandbox behind. A spawned worker still pushes after the drain.           *)
NoIdleAfterShutdown == phase = "exited" => Shelved \cap Exists = {}

(* What the protocol promises of timeout_secs: every sandbox Create returns *)
(* has a time to live. The one taken from the pool has none.                *)
LeasedExpires == \A i \in Given : expires[i]

(* What a client may rely on: see SandboxLease.                             *)
Status(i) ==
  CASE container[i] = "unborn" -> "none"
    [] container[i] = "gone" -> "retired"
    [] OTHER -> IF leases[i] = 0 THEN "pooled" ELSE "leased"

Lease == INSTANCE SandboxLease
           WITH status <- [i \in SandboxId |-> Status(i)], grants <- leases

(* When clients are tidy, every step is one of making, leasing or retiring  *)
(* sandboxes: none is leased twice, leased dead, or brought back.           *)
LeaseSpec == Lease!Spec
=============================================================================
