---------------------------- MODULE K8sProvider ----------------------------
(***************************************************************************)
(* The Kubernetes provider (crates/roche-core/src/provider/k8s.rs): a Pod,  *)
(* and for network=false a deny-all NetworkPolicy, per sandbox; all state   *)
(* is the cluster's. Deleting a Pod only marks it: it keeps running for the *)
(* grace period, and a GET still says Running. exec and copies change no    *)
(* state of the provider's.                                                 *)
(***************************************************************************)
EXTENDS ProviderCalls

CONSTANT Networked   (* the sandboxes whose configuration says network=true  *)

VARIABLES
  pod,      (* the Pod's phase: none, pending, running, failed, gone        *)
  dying,    (* Pods marked for deletion                                     *)
  netpol,   (* sandboxes whose NetworkPolicy exists                         *)
  cut       (* history: Pods deleted while their create had yet to create   *)
            (* the policy                                                   *)

k8sOwn == <<pod, dying, netpol, cut>>
k8sVars == <<k8sOwn, sharedVars>>

K8sExists(b) == pod[b] \in {"pending", "running", "failed"}

K8sInit ==
  /\ pod = [b \in Box |-> "none"]
  /\ dying = {} /\ netpol = {} /\ cut = {}

(* create posts the Pod, built from the configuration by build_pod.         *)
K8sCreate(c, b) ==
  /\ pod[b] = "none"
  /\ pod' = [pod EXCEPT ![b] = "pending"]
  /\ Enter(c, b, IF b \in Networked THEN "poll" ELSE "policy")
  /\ UNCHANGED <<dying, netpol, cut, toldVars, lost, due, faults>>

(* Mutant: a sandbox is announced although its policy was refused.          *)
K8sPolicyFailsPolls(c) ==
  /\ pc[c] = "policy"
  /\ Fault
  /\ Goto(c, "poll")
  /\ UNCHANGED <<k8sOwn, toldVars, lost, due>>

K8sPolicy(c) ==
  /\ pc[c] = "policy"
  /\ netpol' = netpol \cup {box[c]}
  /\ Goto(c, "poll")
  /\ UNCHANGED <<pod, dying, cut, toldVars, lost, due, faults>>

(* create returns the error, and the Pod stays.                             *)
K8sPolicyFails(c) ==
  /\ pc[c] = "policy"
  /\ FaultAt(box[c])
  /\ Finish(c)
  /\ UNCHANGED <<k8sOwn, toldVars, due>>

(* Mutant: create answers without a look at the Pod's phase.                *)
K8sReadyUnchecked(c) ==
  /\ pc[c] = "poll"
  /\ Answer(box[c])
  /\ Finish(c)
  /\ UNCHANGED <<k8sOwn, lost, due, faults>>

K8sReady(c) ==
  /\ pc[c] = "poll" /\ pod[box[c]] = "running"
  /\ Answer(box[c])
  /\ Finish(c)
  /\ UNCHANGED <<k8sOwn, lost, due, faults>>

(* The Pod failed, is gone, is not there within 60 s, or cannot be asked    *)
(* about: create destroys it and ignores how that went.                     *)
K8sGivesUp(c) ==
  /\ pc[c] = "poll"
  /\ \/ pod[box[c]] # "running" /\ UNCHANGED faults
     \/ pod[box[c]] = "running" /\ Fault
  /\ Goto(c, "delpod")
  /\ UNCHANGED <<k8sOwn, toldVars, lost, due>>

K8sDestroy(c, S) ==
  /\ Sweep(c, S)
  /\ UNCHANGED <<k8sOwn, toldVars, lost, due, faults>>

K8sListed == {b \in Box : K8sExists(b)}

(* gc destroys those of them whose roche.expires has passed; which those    *)
(* are is left open.                                                        *)
K8sGc(c, expired) == expired \subseteq K8sListed /\ K8sDestroy(c, expired)

K8sTakeUp(c, b) ==
  /\ TakeUp(c, b, "delpod")
  /\ UNCHANGED <<k8sOwn, toldVars, lost, due, faults>>

K8sDeletePod(c) ==
  /\ pc[c] = "delpod" /\ K8sExists(box[c])
  /\ dying' = dying \cup {box[c]}
  /\ cut' = IF \E d \in Call : box[d] = box[c] /\ pc[d] = "policy"
            THEN cut \cup {box[c]} ELSE cut
  /\ Goto(c, "delpolicy")
  /\ UNCHANGED <<pod, netpol, toldVars, lost, due, faults>>

(* 404: destroy returns NotFound and does not look for the policy.          *)
K8sNoPod(c) ==
  /\ pc[c] = "delpod" /\ ~K8sExists(box[c])
  /\ LetGo(c)
  /\ UNCHANGED <<k8sOwn, toldVars, lost, due, faults>>

(* Mutant: the policy is not deleted.                                       *)
K8sDeletePolicyNot(c) ==
  /\ pc[c] = "delpolicy"
  /\ LetGo(c)
  /\ UNCHANGED <<k8sOwn, toldVars, lost, due, faults>>

(* It may be the Pod's second deletion, and not its last: not counted.      *)
K8sDeletePolicy(c) ==
  /\ pc[c] = "delpolicy"
  /\ netpol' = netpol \ {box[c]}
  /\ LetGo(c)
  /\ UNCHANGED <<pod, dying, cut, toldVars, lost, due, faults>>

K8sDeleteFails(c) ==
  /\ pc[c] \in {"delpod", "delpolicy"}
  /\ FaultAt(box[c])
  /\ LetGo(c)
  /\ UNCHANGED <<k8sOwn, toldVars, due>>

K8sSweepEnds(c) == SweepEnds(c) /\ UNCHANGED <<k8sOwn, toldVars, lost, due, faults>>

(* The client hangs up, or roched dies.                                     *)
K8sCutOff(c) ==
  /\ pc[c] # "idle" /\ Fault
  /\ lost' = IF box[c] \in Box THEN lost \cup {box[c]} ELSE lost
  /\ Finish(c)
  /\ UNCHANGED <<k8sOwn, toldVars, due>>

(* The cluster: it schedules, ends (activeDeadlineSeconds, eviction) and    *)
(* removes Pods; an operator deletes one.                                   *)
K8sCluster(b) ==
  /\ \/ pod[b] = "pending" /\ b \notin dying /\ pod' = [pod EXCEPT ![b] = "running"]
     \/ pod[b] = "running" /\ pod' = [pod EXCEPT ![b] = "failed"]
     \/ K8sExists(b) /\ b \in dying /\ pod' = [pod EXCEPT ![b] = "gone"]
  /\ UNCHANGED <<dying, netpol, cut, sharedVars>>

K8sDeletedByHand(b) ==
  /\ K8sExists(b)
  /\ FaultAt(b)
  /\ dying' = dying \cup {b}
  /\ UNCHANGED <<pod, netpol, cut, callVars, toldVars, due>>

K8sNext ==
  \/ \E c \in Client :
       \/ \E b \in Box : K8sCreate(c, b) \/ K8sTakeUp(c, b)
       \/ \E b \in Box : pod[b] # "none" /\ K8sDestroy(c, {b})
       \/ K8sPolicy(c) \/ K8sPolicyFails(c) \/ K8sReady(c) \/ K8sGivesUp(c)
       \/ K8sDestroy(c, K8sListed) \/ \E S \in SUBSET Box : K8sGc(c, S)
       \/ K8sDeletePod(c) \/ K8sNoPod(c) \/ K8sDeletePolicy(c) \/ K8sDeleteFails(c)
       \/ K8sSweepEnds(c) \/ K8sCutOff(c)
  \/ \E b \in Box : K8sCluster(b) \/ K8sDeletedByHand(b)

K8sSpec == CallsInit /\ K8sInit /\ [][K8sNext]_k8sVars

-----------------------------------------------------------------------------
K8sTypeOK ==
  /\ CallsOK
  /\ pc \in [Call -> {"idle", "policy", "poll", "next", "delpod", "delpolicy"}]
  /\ \A c \in Call : pc[c] \notin {"idle", "next"} => box[c] \in Box
  /\ pod \in [Box -> {"none", "pending", "running", "failed", "gone"}]
  /\ dying \subseteq Box /\ netpol \subseteq Box /\ cut \subseteq Box

(* A sandbox that was answered to a create with network=false runs behind   *)
(* its NetworkPolicy until its Pod is marked for deletion. (After that the  *)
(* policy is deleted at once and the Pod runs on without it.)               *)
K8sIsolated ==
  \A b \in Box :
    given[b] > 0 /\ b \notin Networked /\ pod[b] = "running" /\ b \notin dying => b \in netpol

(* No NetworkPolicy outlives its Pod once the handlers are done with it,    *)
(* unless a call to the cluster failed or was cut off, or the Pod was       *)
(* deleted between the two halves of its create.                            *)
K8sPolicyReleased ==
  \A b \in netpol : pod[b] = "gone" /\ HandlersOn(b) = {} => b \in lost \cup cut
=============================================================================
