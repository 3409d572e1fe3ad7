------------------------ MODULE FirecrackerProvider ------------------------
(***************************************************************************)
(* The Firecracker provider (crates/roche-core/src/provider/firecracker):   *)
(* one state directory and one firecracker process per sandbox. What it     *)
(* knows of a VM is metadata.json in that directory, written last; list, gc *)
(* and destroy see nothing else.                                            *)
(***************************************************************************)
EXTENDS ProviderCalls

VARIABLES
  fcDir,   (* the directory: none, fresh (no metadata yet), meta, ruin (its *)
           (* removal failed halfway), removed                              *)
  fcProc   (* the process: none, up, paused, dead                           *)

fcVars == <<fcDir, fcProc, sharedVars>>

(* A killed process is gone at once: the runtime reaps its children.        *)
FcAlive(b) == fcProc[b] \in {"up", "paused"}

FcInit ==
  /\ fcDir = [b \in Box |-> "none"]
  /\ fcProc = [b \in Box |-> "none"]

(* Mutant: metadata.json is written first, its pid to be filled in later.   *)
FcCreateRecorded(c, b) ==
  /\ fcDir[b] = "none"
  /\ fcDir' = [fcDir EXCEPT ![b] = "meta"]
  /\ Enter(c, b, "spawn")
  /\ UNCHANGED <<fcProc, toldVars, lost, due, faults>>

(* create: the directory is made and the root file system copied into it.   *)
FcCreate(c, b) ==
  /\ fcDir[b] = "none"
  /\ fcDir' = [fcDir EXCEPT ![b] = "fresh"]
  /\ Enter(c, b, "spawn")
  /\ UNCHANGED <<fcProc, toldVars, lost, due, faults>>

(* The copy fails: the directory stays, without metadata.                   *)
FcCopyFails(c) ==
  /\ pc[c] = "spawn"
  /\ Fault
  /\ Finish(c)
  /\ UNCHANGED <<fcDir, fcProc, toldVars, lost, due>>

FcSpawn(c) ==
  /\ pc[c] = "spawn"
  /\ fcProc' = [fcProc EXCEPT ![box[c]] = "up"]
  /\ Goto(c, "boot")
  /\ UNCHANGED <<fcDir, toldVars, lost, due, faults>>

FcSpawnFails(c) ==
  /\ pc[c] = "spawn"
  /\ Fault
  /\ fcDir' = [fcDir EXCEPT ![box[c]] = "removed"]
  /\ Finish(c)
  /\ UNCHANGED <<fcProc, toldVars, lost, due>>

(* The socket appears and the five API calls succeed.                       *)
FcBoot(c) ==
  /\ pc[c] = "boot" /\ FcAlive(box[c])
  /\ Goto(c, "record")
  /\ UNCHANGED <<fcDir, fcProc, toldVars, lost, due, faults>>

(* Mutant: cleans up without killing the process.                           *)
FcBootFailsAlive(c) ==
  /\ pc[c] = "boot"
  /\ (FcAlive(box[c]) /\ Fault) \/ (~FcAlive(box[c]) /\ UNCHANGED faults)
  /\ fcDir' = [fcDir EXCEPT ![box[c]] = "removed"]
  /\ Finish(c)
  /\ UNCHANGED <<fcProc, toldVars, lost, due>>

(* One of them does not: the process is killed and the directory removed.   *)
FcBootFails(c) ==
  /\ pc[c] = "boot"
  /\ (FcAlive(box[c]) /\ Fault) \/ (~FcAlive(box[c]) /\ UNCHANGED faults)
  /\ fcProc' = [fcProc EXCEPT ![box[c]] = "dead"]
  /\ fcDir' = [fcDir EXCEPT ![box[c]] = "removed"]
  /\ Finish(c)
  /\ UNCHANGED <<toldVars, lost, due>>

FcRecord(c) ==
  /\ pc[c] = "record"
  /\ fcDir' = [fcDir EXCEPT ![box[c]] = "meta"]
  /\ Answer(box[c])
  /\ Finish(c)
  /\ UNCHANGED <<fcProc, lost, due, faults>>

(* metadata.json cannot be written: create fails and leaves a running VM.   *)
FcRecordFails(c) ==
  /\ pc[c] = "record"
  /\ FaultAt(box[c])
  /\ Finish(c)
  /\ UNCHANGED <<fcDir, fcProc, toldVars, due>>

(* The client hangs up, or roched ends, while its call is under way.        *)
FcCutOff(c) ==
  /\ pc[c] # "idle"
  /\ Fault
  /\ lost' = IF pc[c] \in {"boot", "record"} THEN lost \cup {box[c]} ELSE lost
  /\ Finish(c)
  /\ UNCHANGED <<fcDir, fcProc, toldVars, due>>

(* roched ends, when idle for long, by ctrl-c or killed, and its gc loop    *)
(* with it, wherever that stands; another one may be started.               *)
FcStop ==
  /\ pc[Loop] # "stopped"
  /\ pc' = [pc EXCEPT ![Loop] = "stopped"]
  /\ box' = [box EXCEPT ![Loop] = NoBox]
  /\ todo' = [todo EXCEPT ![Loop] = {}]
  /\ UNCHANGED <<fcDir, fcProc, late, toldVars, lost, due, faults>>

FcStart ==
  /\ pc[Loop] = "stopped"
  /\ Goto(Loop, "idle")
  /\ UNCHANGED <<fcDir, fcProc, toldVars, lost, due, faults>>

FcVmDies(b) ==
  /\ FcAlive(b)
  /\ Fault
  /\ fcProc' = [fcProc EXCEPT ![b] = "dead"]
  /\ UNCHANGED <<fcDir, callVars, toldVars, lost, due>>

FcExpires(b) ==
  /\ fcDir[b] = "meta"
  /\ Expires(b)
  /\ UNCHANGED <<fcDir, fcProc, callVars, toldVars, lost, faults>>

FcVmIds == {b \in Box : fcDir[b] \in {"fresh", "meta", "ruin"}}

(* Mutant: sandboxes whose VM has stopped are left out.                     *)
FcListedRunning == {b \in FcVmIds : fcDir[b] = "meta" /\ FcAlive(b)}

(* list: a directory whose metadata cannot be read is skipped.              *)
FcListed == {b \in FcVmIds : fcDir[b] = "meta"}

(* destroy of one sandbox, and destroy --all.                               *)
FcDestroy(c, S) ==
  /\ Sweep(c, S)
  /\ UNCHANGED <<fcDir, fcProc, toldVars, lost, due, faults>>

(* gc: what is listed and expired; the gc loop calls it every minute.       *)
FcGc(c) == FcDestroy(c, FcListed \cap due)

(* destroy reads the metadata and asks whether the process is alive.        *)
FcCheck(c, b) ==
  /\ fcDir[b] = "meta"
  /\ TakeUp(c, b, IF FcAlive(b) THEN "kill" ELSE "remove")
  /\ UNCHANGED <<fcDir, fcProc, toldVars, lost, due, faults>>

FcNotFound(c, b) ==
  /\ fcDir[b] # "meta"
  /\ TakeUp(c, b, "next")
  /\ UNCHANGED <<fcDir, fcProc, toldVars, lost, due, faults>>

FcKill(c) ==
  /\ pc[c] = "kill" /\ FcAlive(box[c])
  /\ fcProc' = [fcProc EXCEPT ![box[c]] = "dead"]
  /\ Goto(c, "remove")
  /\ UNCHANGED <<fcDir, toldVars, lost, due, faults>>

(* It died since the check: the signal fails, and so does destroy.          *)
FcKillFails(c) ==
  /\ pc[c] = "kill" /\ ~FcAlive(box[c])
  /\ LetGo(c)
  /\ UNCHANGED <<fcDir, fcProc, toldVars, lost, due, faults>>

(* remove_vm_dir succeeds too when another destroy was faster.              *)
FcRemove(c) ==
  /\ pc[c] = "remove"
  /\ fcDir' = [fcDir EXCEPT ![box[c]] = "removed"]
  /\ Report(box[c])
  /\ LetGo(c)
  /\ UNCHANGED <<fcProc, lost, due, faults>>

(* Nothing, or metadata.json already, has been removed.                     *)
FcRemoveFails(c) ==
  /\ pc[c] = "remove" /\ fcDir[box[c]] = "meta"
  /\ Fault
  /\ \E d \in {"meta", "ruin"} : fcDir' = [fcDir EXCEPT ![box[c]] = d]
  /\ LetGo(c)
  /\ UNCHANGED <<fcProc, toldVars, lost, due>>

FcSweepEnds(c) == SweepEnds(c) /\ UNCHANGED <<fcDir, fcProc, toldVars, lost, due, faults>>

(* pause and unpause: metadata, a living process, one API call.             *)
FcPause(b) ==
  /\ fcDir[b] = "meta" /\ fcProc[b] = "up"
  /\ fcProc' = [fcProc EXCEPT ![b] = "paused"]
  /\ UNCHANGED <<fcDir, sharedVars>>

FcUnpause(b) ==
  /\ fcDir[b] = "meta" /\ fcProc[b] = "paused"
  /\ fcProc' = [fcProc EXCEPT ![b] = "up"]
  /\ UNCHANGED <<fcDir, sharedVars>>

FcExec(c, b) ==
  /\ fcDir[b] = "meta" /\ FcAlive(b)
  /\ EnterExec(c, b, "exec")
  /\ UNCHANGED <<fcDir, fcProc, toldVars, lost, due, faults>>

(* The agent in the guest answers over vsock.                               *)
FcRan(c) ==
  /\ Ran(c) /\ fcProc[box[c]] = "up"
  /\ UNCHANGED <<fcDir, fcProc, lost, due, faults>>

(* It does not, within the timeout: always so once the VM is gone.          *)
FcExecFails(c) ==
  /\ pc[c] = "exec"
  /\ Finish(c)
  /\ UNCHANGED <<fcDir, fcProc, toldVars, lost, due, faults>>

FcSweepStep(c) ==
  \/ \E b \in Box : FcCheck(c, b) \/ FcNotFound(c, b)
  \/ FcKill(c) \/ FcKillFails(c) \/ FcRemove(c) \/ FcRemoveFails(c)
  \/ FcSweepEnds(c)

FcLoopStep == FcGc(Loop) \/ FcSweepStep(Loop)

FcClientStep(c) ==
  \/ \E b \in Box : FcCreate(c, b) \/ FcExec(c, b)
  \/ \E b \in Box : fcDir[b] # "none" /\ FcDestroy(c, {b})
  \/ FcDestroy(c, FcListed) \/ FcGc(c) \/ FcSweepStep(c)
  \/ FcCopyFails(c) \/ FcSpawn(c) \/ FcSpawnFails(c)
  \/ FcBoot(c) \/ FcBootFails(c) \/ FcRecord(c) \/ FcRecordFails(c)
  \/ FcRan(c) \/ FcExecFails(c)

FcNext ==
  \/ FcLoopStep
  \/ \E c \in Client : FcClientStep(c)
  \/ \E c \in Client : FcCutOff(c)
  \/ FcStop \/ FcStart
  \/ \E b \in Box : FcVmDies(b) \/ FcExpires(b) \/ FcPause(b) \/ FcUnpause(b)

-----------------------------------------------------------------------------
(* Metadata, where there is any, names a process that was started.          *)
FcTypeOK ==
  /\ CallsOK
  /\ pc \in [Call -> {"idle", "spawn", "boot", "record", "next", "kill", "remove", "exec",
                      "stopped"}]
  /\ \A c \in Call : pc[c] \notin {"idle", "next", "stopped"} => box[c] \in Box
  /\ fcDir \in [Box -> {"none", "fresh", "meta", "ruin", "removed"}]
  /\ fcProc \in [Box -> {"none", "up", "paused", "dead"}]
  /\ \A b \in Box : fcDir[b] = "meta" => fcProc[b] # "none"
  /\ \A c \in Call : pc[c] \in {"boot", "record"} => fcProc[box[c]] # "none"

(* A VM that runs can be found and destroyed through its metadata, or the   *)
(* create that started it is still at work and will record or kill it; else *)
(* that create was cut off or could not write the metadata. No other path   *)
(* of create, destroy and gc, however many overlap, forgets a running VM.   *)
FcNoOrphan ==
  \A b \in Box :
    FcAlive(b) => \/ fcDir[b] = "meta"
                  \/ \E c \in Call : box[c] = b /\ pc[c] \in {"boot", "record"}
                  \/ b \in lost

(* A roched that keeps running stops the VM of every sandbox that has       *)
(* expired and removes its directory, also what failed halfway and what an  *)
(* earlier one left. Two things end that: roched does, or the removal fails *)
(* once metadata.json is gone, and the rest of the directory stays for good *)
(* where list and gc do not see it (the VM is dead even so).                *)
FcCollected ==
  \A b \in Box :
    fcDir[b] = "meta" /\ b \in due ~>
      \/ fcDir[b] = "removed" /\ ~FcAlive(b)
      \/ fcDir[b] = "ruin" /\ ~FcAlive(b)
      \/ pc[Loop] = "stopped"
=============================================================================
