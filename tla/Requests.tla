------------------------------ MODULE Requests ------------------------------
(***************************************************************************)
(* What surrounds a call to a provider: the sandbox a request turns into    *)
(* (Confinement), the session it is recorded in (Permissions), the answer   *)
(* read off the provider's stream (ExecStreams). The three share no state   *)
(* in the code; the initial state picks which one moves.                    *)
(***************************************************************************)
EXTENDS Confinement, Permissions, ExecStreams

VARIABLE part

vars == <<part, confVars, permVars, streamVars>>

Init ==
  /\ part \in {"confinement", "permissions", "streams"}
  /\ ConfInit
  /\ IF part = "permissions" THEN PermInit ELSE PermInit /\ aspect = "network"
  /\ IF part = "streams" THEN StreamInit ELSE StreamInit /\ via = "k8s"

Next ==
  /\ \/ part = "confinement" /\ ConfNext /\ UNCHANGED <<permVars, streamVars>>
     \/ part = "permissions" /\ PermNext /\ UNCHANGED <<confVars, streamVars>>
     \/ part = "streams" /\ StreamNext /\ UNCHANGED <<confVars, permVars>>
  /\ UNCHANGED part

Spec == Init /\ [][Next]_vars

TypeOK == ConfTypeOK /\ PermTypeOK /\ StreamTypeOK
=============================================================================
