----------------------------- MODULE Providers -----------------------------
(***************************************************************************)
(* roched in front of one of its providers. with_provider! hands every call *)
(* to the provider it names; the providers share no state, so a behaviour   *)
(* of the daemon on one of them is a behaviour of that provider alone, and  *)
(* the initial state picks which one is looked at. Docker is the provider   *)
(* of WarmPool.                                                             *)
(***************************************************************************)
EXTENDS FirecrackerProvider, K8sProvider, E2bProvider, WasmProvider

VARIABLE serving

fcOwn == <<fcDir, fcProc>>
vars == <<serving, fcOwn, k8sOwn, e2bOwn, wasmOwn, sharedVars>>

Init ==
  /\ serving \in {"firecracker", "k8s", "e2b", "wasm"}
  /\ CallsInit /\ FcInit /\ K8sInit /\ E2bInit /\ WasmInit

Next ==
  /\ \/ serving = "firecracker" /\ FcNext /\ UNCHANGED <<k8sOwn, e2bOwn, wasmOwn>>
     \/ serving = "k8s" /\ K8sNext /\ UNCHANGED <<fcOwn, e2bOwn, wasmOwn>>
     \/ serving = "e2b" /\ E2bNext /\ UNCHANGED <<fcOwn, k8sOwn, wasmOwn>>
     \/ serving = "wasm" /\ WasmNext /\ UNCHANGED <<fcOwn, k8sOwn, e2bOwn>>
  /\ UNCHANGED serving

Spec == Init /\ [][Next]_vars

(* As long as roched runs, its gc loop does, and every minute calls gc of   *)
(* Firecracker (and Docker, but of no other provider). FcStop ends it at    *)
(* any time, and nothing has to start another; no client, cluster or cloud  *)
(* owes anything.                                                           *)
FairSpec ==
  /\ Spec
  /\ WF_vars(/\ serving = "firecracker" /\ FcLoopStep
             /\ UNCHANGED <<serving, k8sOwn, e2bOwn, wasmOwn>>)

-----------------------------------------------------------------------------
TypeOK ==
  /\ serving = "firecracker" => FcTypeOK
  /\ serving = "k8s" => K8sTypeOK
  /\ serving = "e2b" => E2bTypeOK
  /\ serving = "wasm" => WasmTypeOK

(* A command that starts after a destroy of its sandbox has succeeded does  *)
(* not run on Firecracker, E2B or WASM, also where a stale cache lets it    *)
(* pass. (A Kubernetes Pod runs commands as long as it terminates.)         *)
NoGhostExec == ghosts = {}

(* However destroys, gcs and timeouts overlap, one of them at most removes  *)
(* a sandbox. (Two destroys of a dead VM both succeed, and so do two of a   *)
(* Pod that is terminating.)                                                *)
RemovedOnce == serving \in {"e2b", "wasm"} => \A b \in Box : reports[b] <= 1

(* What a provider's records say of a sandbox.                              *)
Held(b) == IF given[b] > 0 THEN "leased" ELSE "pooled"

FcStatus(b) == CASE fcDir[b] = "none" -> "none"
                 [] fcDir[b] = "fresh" -> "pooled"
                 [] fcDir[b] = "meta" -> "leased"
                 [] OTHER -> "retired"

Status(b) ==
  CASE serving = "firecracker" -> FcStatus(b)
    [] serving = "k8s" -> IF pod[b] = "none" THEN "none"
                          ELSE IF pod[b] = "gone" THEN "retired" ELSE Held(b)
    [] serving = "e2b" -> IF cloud[b] = "none" THEN "none"
                          ELSE IF cloud[b] = "gone" THEN "retired" ELSE Held(b)
    [] serving = "wasm" -> IF b \in registry THEN "leased"
                           ELSE IF given[b] = 0 THEN "none" ELSE "retired"

Lease == INSTANCE SandboxLease WITH
           SandboxId <- Box, status <- [b \in Box |-> Status(b)], grants <- given

(* Every provider keeps the promise the warm pool keeps: a sandbox is given *)
(* to one create at most, while it exists, and never comes back.            *)
LeaseSpec == Lease!Spec
=============================================================================
