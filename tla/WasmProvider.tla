---------------------------- MODULE WasmProvider ----------------------------
(***************************************************************************)
(* The WASM provider (crates/roche-core/src/provider/wasm): a registry of   *)
(* compiled modules behind a mutex, in the daemon's memory. An exec clones  *)
(* the module and runs it on a blocking thread, which nothing can stop.     *)
(***************************************************************************)
EXTENDS ProviderCalls

VARIABLES
  registry,   (* sandboxes in the map                                       *)
  runaway     (* per sandbox, threads whose exec has timed out              *)

wasmOwn == <<registry, runaway>>
wasmVars == <<wasmOwn, sharedVars>>

WasmInit == registry = {} /\ runaway = [b \in Box |-> 0]

WasmCreate(c, b) ==
  /\ pc[c] = "idle" /\ given[b] = 0
  /\ registry' = registry \cup {b}
  /\ Answer(b)
  /\ UNCHANGED <<runaway, callVars, lost, due, faults>>

(* Mutant: a module that was compiled once can always be run.               *)
WasmExecUnchecked(c, b) ==
  /\ given[b] > 0
  /\ EnterExec(c, b, "exec")
  /\ UNCHANGED <<wasmOwn, toldVars, lost, due, faults>>

(* get_module_and_config, then a thread of its own.                         *)
WasmExec(c, b) ==
  /\ b \in registry
  /\ EnterExec(c, b, "exec")
  /\ UNCHANGED <<wasmOwn, toldVars, lost, due, faults>>

WasmRan(c) ==
  /\ Ran(c)
  /\ UNCHANGED <<wasmOwn, lost, due, faults>>

(* It traps, or has no _start.                                              *)
WasmExecFails(c) ==
  /\ pc[c] = "exec"
  /\ Finish(c)
  /\ UNCHANGED <<wasmOwn, toldVars, lost, due, faults>>

(* The call times out, or its client hangs up; the thread goes on.          *)
WasmTimesOut(c) ==
  /\ pc[c] = "exec" /\ Fault
  /\ runaway' = [runaway EXCEPT ![box[c]] = @ + 1]
  /\ Finish(c)
  /\ UNCHANGED <<registry, toldVars, lost, due>>

WasmThreadEnds(b) ==
  /\ runaway[b] > 0
  /\ runaway' = [runaway EXCEPT ![b] = @ - 1]
  /\ UNCHANGED <<registry, sharedVars>>

WasmDestroy(c, S) ==
  /\ Sweep(c, S)
  /\ UNCHANGED <<wasmOwn, toldVars, lost, due, faults>>

(* Mutant: a sandbox that was not there is reported as removed.             *)
WasmRemoveBlind(c, b) ==
  /\ registry' = registry \ {b}
  /\ Report(b)
  /\ TakeUp(c, b, "next")
  /\ UNCHANGED <<runaway, lost, due, faults>>

WasmRemove(c, b) ==
  /\ b \in registry
  /\ registry' = registry \ {b}
  /\ Report(b)
  /\ TakeUp(c, b, "next")
  /\ UNCHANGED <<runaway, lost, due, faults>>

WasmNotFound(c, b) ==
  /\ b \notin registry
  /\ TakeUp(c, b, "next")
  /\ UNCHANGED <<wasmOwn, toldVars, lost, due, faults>>

WasmSweepEnds(c) == SweepEnds(c) /\ UNCHANGED <<wasmOwn, toldVars, lost, due, faults>>

(* gc removes all that has expired under one lock.                          *)
WasmGc(c) ==
  /\ pc[c] = "idle" /\ registry \cap due # {}
  /\ registry' = registry \ due
  /\ reports' = [b \in Box |-> IF b \in registry \cap due THEN CountReport(reports[b]) ELSE reports[b]]
  /\ UNCHANGED <<runaway, callVars, given, ghosts, lost, due, faults>>

WasmExpires(b) ==
  /\ b \in registry
  /\ Expires(b)
  /\ UNCHANGED <<wasmOwn, callVars, toldVars, lost, faults>>

(* roched starts anew and has forgotten every sandbox.                      *)
WasmRestart ==
  /\ Fault
  /\ registry' = {} /\ runaway' = [b \in Box |-> 0]
  /\ pc' = [c \in Call |-> "idle"] /\ box' = [c \in Call |-> NoBox]
  /\ todo' = [c \in Call |-> {}] /\ late' = [c \in Call |-> FALSE]
  /\ UNCHANGED <<toldVars, lost, due>>

WasmNext ==
  \/ \E c \in Client :
       \/ \E b \in Box : \/ WasmCreate(c, b) \/ WasmExec(c, b)
                         \/ given[b] > 0 /\ WasmDestroy(c, {b})
                         \/ WasmRemove(c, b) \/ WasmNotFound(c, b)
       \/ WasmRan(c) \/ WasmExecFails(c) \/ WasmTimesOut(c)
       \/ WasmDestroy(c, registry) \/ WasmSweepEnds(c) \/ WasmGc(c)
  \/ \E b \in Box : WasmThreadEnds(b) \/ WasmExpires(b)
  \/ WasmRestart

WasmSpec == CallsInit /\ WasmInit /\ [][WasmNext]_wasmVars

-----------------------------------------------------------------------------
WasmTypeOK ==
  /\ CallsOK
  /\ pc \in [Call -> {"idle", "exec", "next"}]
  /\ \A c \in Call : pc[c] = "exec" => box[c] \in Box
  /\ registry \subseteq Box
  /\ runaway \in [Box -> Nat]
=============================================================================
