---------------------------- MODULE E2bProvider ----------------------------
(***************************************************************************)
(* The E2B provider (crates/roche-core/src/provider/e2b.rs): sandboxes live *)
(* in a cloud service, which ends them by a timeout of its own; the daemon  *)
(* keeps a cache of access tokens behind a RwLock. Every operation is an    *)
(* HTTP request in one step and what it does to the cache in another.       *)
(***************************************************************************)
EXTENDS ProviderCalls

VARIABLES
  cloud,    (* the sandbox at the service: none, up, paused, gone           *)
  cache,    (* sandboxes with an entry in the cache                         *)
  raced     (* history: sandboxes evicted while a call was about to insert  *)

e2bOwn == <<cloud, cache, raced>>
e2bVars == <<e2bOwn, sharedVars>>

E2bExists(b) == cloud[b] \in {"up", "paused"}
Inserting == {"store", "fetched", "resumed"}

E2bInit ==
  /\ cloud = [b \in Box |-> "none"]
  /\ cache = {} /\ raced = {}

(* create: the POST is answered, which decides that the client gets b.      *)
E2bCreate(c, b) ==
  /\ cloud[b] = "none"
  /\ cloud' = [cloud EXCEPT ![b] = "up"]
  /\ Answer(b)
  /\ Enter(c, b, "store")
  /\ UNCHANGED <<cache, raced, lost, due, faults>>

(* The answer is lost or cannot be parsed: nobody knows the sandbox's id.   *)
E2bCreateFails(c, b) ==
  /\ pc[c] = "idle" /\ cloud[b] = "none"
  /\ cloud' = [cloud EXCEPT ![b] = "up"]
  /\ FaultAt(b)
  /\ UNCHANGED <<cache, raced, callVars, toldVars, due>>

E2bStore(c) ==
  /\ pc[c] \in {"store", "resumed"}
  /\ cache' = cache \cup {box[c]}
  /\ Finish(c)
  /\ UNCHANGED <<cloud, raced, toldVars, lost, due, faults>>

(* get_meta of exec, copy_to and copy_from: a cache hit is not verified.    *)
E2bHit(c, b) ==
  /\ b \in cache
  /\ EnterExec(c, b, "exec")
  /\ UNCHANGED <<e2bOwn, toldVars, lost, due, faults>>

(* A miss asks the service, and caches what it says.                        *)
E2bMiss(c, b) ==
  /\ b \notin cache /\ E2bExists(b)
  /\ EnterExec(c, b, "fetched")
  /\ UNCHANGED <<e2bOwn, toldVars, lost, due, faults>>

E2bFetched(c) ==
  /\ pc[c] = "fetched"
  /\ cache' = cache \cup {box[c]}
  /\ Goto(c, "exec")
  /\ UNCHANGED <<cloud, raced, toldVars, lost, due, faults>>

(* envd in the sandbox carries the request out.                             *)
E2bRan(c) ==
  /\ Ran(c) /\ cloud[box[c]] = "up"
  /\ UNCHANGED <<e2bOwn, lost, due, faults>>

(* An error, a timeout, a stream that breaks off.                           *)
E2bExecFails(c) ==
  /\ pc[c] = "exec"
  /\ Finish(c)
  /\ UNCHANGED <<e2bOwn, toldVars, lost, due, faults>>

E2bListed == {b \in Box : E2bExists(b)}

(* destroy, destroy --all and gc --all; plain gc does nothing.              *)
E2bDestroy(c, S) ==
  /\ Sweep(c, S)
  /\ UNCHANGED <<e2bOwn, toldVars, lost, due, faults>>

E2bDelete(c, b) ==
  /\ E2bExists(b)
  /\ cloud' = [cloud EXCEPT ![b] = "gone"]
  /\ TakeUp(c, b, "evict")
  /\ UNCHANGED <<cache, raced, toldVars, lost, due, faults>>

(* 404: NotFound, and the cache entry stays.                                *)
E2bNotFound(c, b) ==
  /\ ~E2bExists(b)
  /\ TakeUp(c, b, "next")
  /\ UNCHANGED <<e2bOwn, toldVars, lost, due, faults>>

(* The request fails before or after the service has acted on it.           *)
E2bDeleteFails(c, b) ==
  /\ E2bExists(b)
  /\ \E s \in {cloud[b], "gone"} : cloud' = [cloud EXCEPT ![b] = s]
  /\ FaultAt(b)
  /\ TakeUp(c, b, "next")
  /\ UNCHANGED <<cache, raced, toldVars, due>>

(* Mutant: destroy leaves the cache alone.                                  *)
E2bEvictNot(c) ==
  /\ pc[c] = "evict"
  /\ Report(box[c])
  /\ LetGo(c)
  /\ UNCHANGED <<e2bOwn, lost, due, faults>>

E2bEvict(c) ==
  /\ pc[c] = "evict"
  /\ cache' = cache \ {box[c]}
  /\ raced' = IF \E d \in Call : box[d] = box[c] /\ pc[d] \in Inserting
              THEN raced \cup {box[c]} ELSE raced
  /\ Report(box[c])
  /\ LetGo(c)
  /\ UNCHANGED <<cloud, lost, due, faults>>

E2bSweepEnds(c) == SweepEnds(c) /\ UNCHANGED <<e2bOwn, toldVars, lost, due, faults>>

E2bPause(b) ==
  /\ cloud[b] = "up"
  /\ cloud' = [cloud EXCEPT ![b] = "paused"]
  /\ UNCHANGED <<cache, raced, sharedVars>>

(* unpause connects, which resumes the sandbox, and refreshes the cache.    *)
E2bUnpause(c, b) ==
  /\ E2bExists(b)
  /\ cloud' = [cloud EXCEPT ![b] = "up"]
  /\ Enter(c, b, "resumed")
  /\ UNCHANGED <<cache, raced, toldVars, lost, due, faults>>

(* The service's timeout ends a sandbox.                                    *)
E2bTimesOut(b) ==
  /\ E2bExists(b)
  /\ cloud' = [cloud EXCEPT ![b] = "gone"]
  /\ Expires(b)
  /\ UNCHANGED <<cache, raced, callVars, toldVars, lost, faults>>

E2bCutOff(c) ==
  /\ pc[c] # "idle" /\ Fault
  /\ lost' = IF box[c] \in Box THEN lost \cup {box[c]} ELSE lost
  /\ Finish(c)
  /\ UNCHANGED <<e2bOwn, toldVars, due>>

(* roched starts anew, with an empty cache.                                 *)
E2bRestart ==
  /\ Fault
  /\ cache' = {}
  /\ pc' = [c \in Call |-> "idle"] /\ box' = [c \in Call |-> NoBox]
  /\ todo' = [c \in Call |-> {}] /\ late' = [c \in Call |-> FALSE]
  /\ UNCHANGED <<cloud, raced, toldVars, lost, due>>

E2bNext ==
  \/ \E c \in Client :
       \/ \E b \in Box :
            \/ E2bCreate(c, b) \/ E2bCreateFails(c, b) \/ E2bHit(c, b) \/ E2bMiss(c, b)
            \/ cloud[b] # "none" /\ E2bDestroy(c, {b})
            \/ E2bDelete(c, b) \/ E2bNotFound(c, b) \/ E2bDeleteFails(c, b)
            \/ E2bUnpause(c, b)
       \/ E2bStore(c) \/ E2bFetched(c) \/ E2bRan(c) \/ E2bExecFails(c)
       \/ E2bDestroy(c, E2bListed) \/ E2bEvict(c) \/ E2bSweepEnds(c) \/ E2bCutOff(c)
  \/ \E b \in Box : E2bPause(b) \/ E2bTimesOut(b)
  \/ E2bRestart

E2bSpec == CallsInit /\ E2bInit /\ [][E2bNext]_e2bVars

-----------------------------------------------------------------------------
E2bTypeOK ==
  /\ CallsOK
  /\ pc \in [Call -> {"idle", "store", "fetched", "resumed", "exec", "next", "evict"}]
  /\ \A c \in Call : pc[c] \notin {"idle", "next"} => box[c] \in Box
  /\ cloud \in [Box -> {"none", "up", "paused", "gone"}]
  /\ cache \subseteq Box /\ raced \subseteq Box

(* The cache holds no sandbox that is gone, except one whose destroy has    *)
(* yet to evict it, one the service ended or a failure concealed, and one   *)
(* that a get_meta or unpause overlapping its destroy put back.             *)
E2bCacheFresh ==
  \A b \in cache :
    cloud[b] = "gone" => \/ \E c \in Call : box[c] = b /\ pc[c] = "evict"
                         \/ b \in due \cup lost \cup raced
=============================================================================
