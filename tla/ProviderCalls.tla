--------------------------- MODULE ProviderCalls ---------------------------
(***************************************************************************)
(* What the provider models share: the handlers of roched that call a       *)
(* provider (with_provider! in crates/roche-daemon/src/server.rs), each at   *)
(* its own pace, and what their clients have been told. Destroy, destroy    *)
(* --all, gc and gc --all are sweeps: a set of sandboxes fixed in advance   *)
(* and destroyed one after the other, where a failure skips to the next.    *)
(* Ids are random names: a call names one that exists or did exist.         *)
(***************************************************************************)
EXTENDS Naturals, FiniteSets

CONSTANTS
  Box,        (* sandbox ids: fresh random names                            *)
  Client,     (* concurrent calls from clients                              *)
  Loop,       (* the daemon's own gc loop                                   *)
  NoBox,      (* a call that holds no sandbox                               *)
  MaxFaults   (* bound: failures of the environment in a behaviour          *)

ASSUME CallsAssumption == Loop \notin Client /\ NoBox \notin Box /\ MaxFaults \in Nat

VARIABLES
  pc,        (* where each call stands                                      *)
  box,       (* the sandbox it works on                                     *)
  todo,      (* the sandboxes a sweep has yet to destroy                    *)
  late,      (* history: its exec began after a destroy of its sandbox had   *)
             (* succeeded                                                   *)
  given,     (* history: how often a sandbox was answered to a create       *)
  reports,   (* history: how often a destroy of it succeeded, up to twice   *)
  ghosts,    (* history: sandboxes a late exec succeeded in                 *)
  lost,      (* history: sandboxes at which a step failed or was cut off    *)
  due,       (* sandboxes whose expiry time has passed                      *)
  faults     (* failures so far                                             *)

callVars == <<pc, box, todo, late>>
toldVars == <<given, reports, ghosts>>
sharedVars == <<callVars, toldVars, lost, due, faults>>

Call == Client \cup {Loop}
Ended == {b \in Box : reports[b] > 0}
HandlersOn(b) == {c \in Call : box[c] = b}

CallsInit ==
  /\ pc = [c \in Call |-> "idle"]
  /\ box = [c \in Call |-> NoBox]
  /\ todo = [c \in Call |-> {}]
  /\ late = [c \in Call |-> FALSE]
  /\ given = [b \in Box |-> 0]
  /\ reports = [b \in Box |-> 0]
  /\ ghosts = {} /\ lost = {} /\ due = {} /\ faults = 0

(* A call starts to work on b at step p, or moves on to it.                 *)
Enter(c, b, p) ==
  /\ pc[c] = "idle"
  /\ pc' = [pc EXCEPT ![c] = p]
  /\ box' = [box EXCEPT ![c] = b]
  /\ UNCHANGED <<todo, late>>

Goto(c, p) == pc' = [pc EXCEPT ![c] = p] /\ UNCHANGED <<box, todo, late>>

(* The call is over, whatever its answer.                                   *)
Finish(c) ==
  /\ pc' = [pc EXCEPT ![c] = "idle"]
  /\ box' = [box EXCEPT ![c] = NoBox]
  /\ todo' = [todo EXCEPT ![c] = {}]
  /\ late' = [late EXCEPT ![c] = FALSE]

(* An exec or a copy passes the provider's check of b, to go on at p.       *)
EnterExec(c, b, p) ==
  /\ pc[c] = "idle"
  /\ pc' = [pc EXCEPT ![c] = p]
  /\ box' = [box EXCEPT ![c] = b]
  /\ late' = [late EXCEPT ![c] = b \in Ended]
  /\ UNCHANGED todo

(* It has run in its sandbox.                                               *)
Ran(c) ==
  /\ pc[c] = "exec"
  /\ ghosts' = IF late[c] THEN ghosts \cup {box[c]} ELSE ghosts
  /\ Finish(c)
  /\ UNCHANGED <<given, reports>>

(* A sweep over S starts, takes up one of them, lets go of it, ends.        *)
Sweep(c, S) ==
  /\ pc[c] = "idle" /\ S # {}
  /\ pc' = [pc EXCEPT ![c] = "next"]
  /\ todo' = [todo EXCEPT ![c] = S]
  /\ UNCHANGED <<box, late>>

TakeUp(c, b, p) ==
  /\ pc[c] = "next" /\ b \in todo[c]
  /\ pc' = [pc EXCEPT ![c] = p]
  /\ box' = [box EXCEPT ![c] = IF p = "next" THEN NoBox ELSE b]
  /\ todo' = [todo EXCEPT ![c] = @ \ {b}]
  /\ UNCHANGED late

LetGo(c) ==
  /\ pc' = [pc EXCEPT ![c] = "next"]
  /\ box' = [box EXCEPT ![c] = NoBox]
  /\ UNCHANGED <<todo, late>>

SweepEnds(c) == pc[c] = "next" /\ todo[c] = {} /\ Finish(c)

Answer(b) == given' = [given EXCEPT ![b] = @ + 1] /\ UNCHANGED <<reports, ghosts>>
CountReport(n) == IF n < 2 THEN n + 1 ELSE 2
Report(b) == reports' = [reports EXCEPT ![b] = CountReport(@)] /\ UNCHANGED <<given, ghosts>>

Expires(b) == b \notin due /\ due' = due \cup {b}

Fault == faults < MaxFaults /\ faults' = faults + 1
FaultAt(b) == Fault /\ lost' = lost \cup {b}

CallsOK ==
  /\ box \in [Call -> Box \cup {NoBox}]
  /\ todo \in [Call -> SUBSET Box]
  /\ late \in [Call -> BOOLEAN]
  /\ given \in [Box -> Nat]
  /\ reports \in [Box -> 0 .. 2]
  /\ ghosts \subseteq Box /\ lost \subseteq Box /\ due \subseteq Box
  /\ faults \in 0 .. MaxFaults
=============================================================================
