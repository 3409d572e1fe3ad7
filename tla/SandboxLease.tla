---------------------------- MODULE SandboxLease ----------------------------
(***************************************************************************)
(* What Create and Destroy promise their callers, without pools, tasks or  *)
(* locks: a sandbox is made, leased to one caller at most while it runs,    *)
(* and retired for good. A sandbox may be leased as it is made, or retired  *)
(* before it ever was leased; several may be retired at once.               *)
(***************************************************************************)
EXTENDS Naturals

CONSTANT SandboxId

VARIABLES
  status,   (* none, pooled, leased or retired                              *)
  grants    (* how many callers have been given the sandbox                 *)

vars == <<status, grants>>

Init ==
  /\ status = [i \in SandboxId |-> "none"]
  /\ grants = [i \in SandboxId |-> 0]

Make(i) ==
  /\ status[i] = "none"
  /\ status' = [status EXCEPT ![i] = "pooled"]
  /\ UNCHANGED grants

LeaseOne(i) ==
  /\ status[i] \in {"none", "pooled"}
  /\ status' = [status EXCEPT ![i] = "leased"]
  /\ grants' = [grants EXCEPT ![i] = @ + 1]

Retire(S) ==
  /\ \A i \in S : status[i] \in {"pooled", "leased"}
  /\ status' = [i \in SandboxId |-> IF i \in S THEN "retired" ELSE status[i]]
  /\ UNCHANGED grants

Next ==
  \/ \E i \in SandboxId : Make(i) \/ LeaseOne(i)
  \/ \E S \in SUBSET SandboxId : Retire(S)

Spec == Init /\ [][Next]_vars
=============================================================================
