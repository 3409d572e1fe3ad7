---------------------------- MODULE DaemonProofs ----------------------------
(***************************************************************************)
(* The safety of daemons and commands for any number of both, any ports and *)
(* timeouts. One inductive invariant, Sound, carries the three results: a   *)
(* command has done its work only when it is at its end; a pid in           *)
(* daemon.json, or read from it, is one that was started; and no handler    *)
(* has begun after its daemon's last_rpc_ms.                                *)
(***************************************************************************)
EXTENDS DaemonLifecycle, TLAPS

WorksAtEnd ==
  \A c \in Command : runs[c] = IF pc[c] \in {"rpc", "done"} THEN 1 ELSE 0

Started(d) == d # NoDaemon => proc[d] # "absent"

NamesStarted == Started(file) /\ \A c \in Command : Started(seen[c])

TouchedSince ==
  /\ \A c \in Command : pc[c] = "rpc" => began[c] <= last[server[c]]
  /\ \A d \in Daemon : last[d] <= clock /\ monitor[d] <= clock
  /\ \A c \in Command : began[c] <= clock

Sound == TypeOK /\ WorksAtEnd /\ NamesStarted /\ TouchedSince /\ LoneNamed

(* What the steps of the commands and of the daemons have in common.        *)
LEMMA LeaveKeeps ==
  ASSUME TypeOK, WorksAtEnd, NEW S, Leave(S)
  PROVE  /\ pc' \in [Command -> {"idle", "call", "start", "stop", "status", "connected", "rpc", "done"}]
         /\ seen' \in [Command -> Daemon \cup {NoDaemon}]
         /\ server' \in [Command -> Daemon \cup {NoDaemon}]
         /\ began' \in [Command -> 0 .. MaxTime]
         /\ runs' \in [Command -> Nat]
         /\ \A c \in Command : pc'[c] \in {"connected", "rpc"} => server'[c] \in Daemon
         /\ WorksAtEnd'
         /\ \A c \in Command : /\ seen'[c] \in {seen[c], NoDaemon}
                               /\ began'[c] \in {began[c], 0}
                               /\ pc'[c] = "rpc" =>
                                    c \notin S /\ pc[c] = "rpc" /\ server'[c] = server[c]
                                    /\ began'[c] = began[c]
  BY DaemonAssumption DEF TypeOK, WorksAtEnd, Leave

LEMMA SoundInit == Init => Sound
  BY DaemonAssumption DEF Init, Sound, TypeOK, WorksAtEnd, NamesStarted, Started, TouchedSince,
     LoneNamed, Running, Asleep

(* A process that ends leaves nobody with a connection to it.               *)
LEMMA EndsKeeps ==
  ASSUME Sound, NEW d \in Daemon, proc[d] # "absent",
         NEW S, Served(d) \subseteq S, Leave(S),
         proc' = [proc EXCEPT ![d] = "gone"],
         last' = [last EXCEPT ![d] = 0],
         monitor' = [monitor EXCEPT ![d] = Asleep],
         UNCHANGED <<port, haunted, clock>>, file' \in {file, NoDaemon}
  PROVE  Sound'
<1>1. TypeOK /\ WorksAtEnd /\ NamesStarted /\ TouchedSince /\ LoneNamed
  BY DEF Sound
<1>2. TypeOK' /\ WorksAtEnd'
  BY <1>1, LeaveKeeps, DaemonAssumption DEF TypeOK
<1>3. NamesStarted'
  BY <1>1, LeaveKeeps, DaemonAssumption DEF NamesStarted, Started, TypeOK
<1>4. TouchedSince'
  <2>1. \A c \in Command : pc'[c] = "rpc" => server[c] # d
    BY <1>1, LeaveKeeps DEF Served
  <2>2. \A e \in Daemon : last'[e] <= clock /\ monitor'[e] <= clock
    BY <1>1 DEF TouchedSince, TypeOK, Asleep
  <2> QED BY <1>1, <2>1, <2>2, LeaveKeeps DEF TouchedSince, TypeOK
<1>5. LoneNamed'
  BY <1>1 DEF LoneNamed, TypeOK, Running
<1> QED BY <1>2, <1>3, <1>4, <1>5 DEF Sound

(* A command that only leaves, or removes the file of a dead daemon.        *)
LEMMA LeavesKeeps ==
  ASSUME Sound, NEW S, Leave(S), UNCHANGED <<daemonVars, haunted, clock>>,
         \/ file' = file
         \/ /\ file' = NoDaemon
            /\ \E c \in Command : seen[c] # NoDaemon /\ ~Alive(seen[c])
  PROVE  Sound'
<1>1. /\ TypeOK /\ WorksAtEnd /\ NamesStarted /\ TouchedSince /\ LoneNamed
      /\ proc' = proc /\ port' = port /\ last' = last /\ monitor' = monitor
      /\ haunted' = haunted /\ clock' = clock
  BY DEF Sound, daemonVars
<1>2. TypeOK' /\ WorksAtEnd'
  BY <1>1, LeaveKeeps, DaemonAssumption DEF TypeOK
<1>3. NamesStarted'
  BY <1>1, LeaveKeeps DEF NamesStarted, Started
<1>4. TouchedSince'
  BY <1>1, LeaveKeeps DEF TouchedSince, TypeOK
<1>5. LoneNamed'
  <2>1. CASE file' = file
    BY <1>1, <2>1 DEF LoneNamed
  <2>2. ASSUME NEW c \in Command, seen[c] # NoDaemon, ~Alive(seen[c]) PROVE LoneNamed'
    <3>1. seen[c] \in Daemon /\ proc[seen[c]] \notin Running \cup {"absent"}
      BY <1>1, <2>2 DEF TypeOK, NamesStarted, Started, Alive
    <3> QED BY <1>1, <3>1 DEF LoneNamed, Running
  <2> QED BY <2>1, <2>2
<1> QED BY <1>2, <1>3, <1>4, <1>5 DEF Sound

(* A daemon moves on without touching the clock, the file or a command.     *)
LEMMA MovesKeeps ==
  ASSUME Sound, NEW d \in Daemon, NEW q \in Running, NEW t \in {Asleep, Panicked} \cup (0 .. clock),
         proc[d] \in {"written", "serving", "draining"}, q \in {"written", "serving", "draining"},
         proc' = [proc EXCEPT ![d] = q], monitor' = [monitor EXCEPT ![d] = t],
         UNCHANGED <<port, last, file, haunted, clock, commandVars>>
  PROVE  Sound'
<1> USE DaemonAssumption DEF Sound, commandVars
<1>1. TypeOK' /\ WorksAtEnd'
  BY DEF TypeOK, WorksAtEnd, Running, Asleep, Panicked
<1>2. NamesStarted'
  BY DEF NamesStarted, Started, TypeOK
<1>3. TouchedSince'
  BY DEF TouchedSince, TypeOK, Asleep, Panicked
<1>4. LoneNamed'
  BY DEF LoneNamed, TypeOK
<1> QED BY <1>1, <1>2, <1>3, <1>4

LEMMA DaemonKeeps == ASSUME Sound, NEW d \in Daemon, DaemonStep(d) PROVE Sound'
<1> TypeOK /\ TouchedSince
  BY DEF Sound
<1>1. ASSUME Ends(d), file' \in {file, NoDaemon}, proc[d] # "absent" PROVE Sound'
  BY <1>1, EndsKeeps DEF Ends
<1>2. CASE WriteInfo(d)
  <2>1. /\ proc[d] = "starting" /\ proc' = [proc EXCEPT ![d] = "written"] /\ file' = d
        /\ last' = [last EXCEPT ![d] = clock]
        /\ UNCHANGED <<port, monitor, haunted, clock, pc, seen, server, began, runs>>
    BY <1>2 DEF WriteInfo, commandVars
  <2>2. TypeOK' /\ WorksAtEnd'
    BY <2>1, DaemonAssumption DEF Sound, TypeOK, WorksAtEnd, Running
  <2>3. NamesStarted'
    BY <2>1 DEF Sound, NamesStarted, Started, TypeOK
  <2>4. TouchedSince'
    BY <2>1 DEF TouchedSince, TypeOK
  <2>5. LoneNamed'
    BY <2>1 DEF LoneNamed, TypeOK
  <2> QED BY <2>2, <2>3, <2>4, <2>5 DEF Sound
<1>3. CASE StartFails(d) \/ BindFails(d) \/ Crash(d)
  BY <1>1, <1>3 DEF StartFails, BindFails, Crash, Running
<1>4. CASE IdleExit(d) \/ Drained(d)
  BY <1>1, <1>4 DEF IdleExit, Drained
<1>5. monitor[d] \in {Asleep, Panicked} \cup (0 .. clock) /\ clock \in 0 .. clock
  BY DEF TypeOK, TouchedSince
<1>6. /\ monitor = [monitor EXCEPT ![d] = monitor[d]]
      /\ proc = [proc EXCEPT ![d] = proc[d]]
  BY DEF TypeOK
<1>7. CASE Bind(d)
  BY <1>5, <1>6, <1>7, MovesKeeps DEF Bind, Running
<1>8. CASE CtrlC(d)
  BY <1>5, <1>6, <1>8, MovesKeeps DEF CtrlC, Running
<1>9. CASE MonitorSample(d)
  BY <1>5, <1>6, <1>9, MovesKeeps DEF MonitorSample, Running
<1>10. CASE MonitorStays(d)
  BY <1>5, <1>6, <1>10, MovesKeeps DEF MonitorStays, Running
<1>11. CASE MonitorPanics(d)
  BY <1>5, <1>6, <1>11, MovesKeeps DEF MonitorPanics, Running
<1>12. CASE Haunt(d)
  BY <1>12 DEF Haunt, daemonVars, commandVars, Sound, TypeOK, WorksAtEnd, NamesStarted, Started,
     TouchedSince, LoneNamed
<1> QED BY <1>2, <1>3, <1>4, <1>7, <1>8, <1>9, <1>10, <1>11, <1>12 DEF DaemonStep

LEMMA CommandKeeps == ASSUME Sound, NEW c \in Command, CommandStep(c) PROVE Sound'
<1> TypeOK /\ WorksAtEnd /\ NamesStarted /\ TouchedSince /\ LoneNamed
  BY DEF Sound
<1>1. ASSUME NEW kind \in Kinds[c], ReadInfo(c, kind) PROVE Sound'
  <2>0. kind \in {"call", "start", "stop", "status"}
    BY DaemonAssumption
  <2>1. /\ pc[c] = "idle" /\ pc' = [pc EXCEPT ![c] = kind] /\ seen' = [seen EXCEPT ![c] = file]
        /\ UNCHANGED <<proc, port, last, monitor, file, haunted, clock, server, began, runs>>
    BY <1>1 DEF ReadInfo, daemonVars
  <2>2. TypeOK' /\ WorksAtEnd'
    BY <2>0, <2>1 DEF TypeOK, WorksAtEnd
  <2>3. NamesStarted'
    BY <2>1 DEF NamesStarted, Started, TypeOK
  <2>4. TouchedSince' /\ LoneNamed'
    BY <2>0, <2>1 DEF TouchedSince, LoneNamed, TypeOK
  <2> QED BY <2>2, <2>3, <2>4 DEF Sound
<1>2. CASE Connect(c)
  <2>1. PICK d \in Daemon : server' = [server EXCEPT ![c] = d]
    BY <1>2 DEF Connect, Reachable, Listening
  <2>2. /\ pc[c] = "call" /\ pc' = [pc EXCEPT ![c] = "connected"]
        /\ UNCHANGED <<proc, port, last, monitor, file, haunted, clock, seen, began, runs>>
    BY <1>2 DEF Connect, daemonVars
  <2>3. TypeOK' /\ WorksAtEnd'
    BY <2>1, <2>2 DEF TypeOK, WorksAtEnd
  <2>4. NamesStarted' /\ TouchedSince' /\ LoneNamed'
    BY <2>1, <2>2 DEF NamesStarted, Started, TouchedSince, LoneNamed, TypeOK
  <2> QED BY <2>3, <2>4 DEF Sound
<1>3. CASE Direct(c)
  <2>1. /\ pc[c] = "call" /\ pc' = [pc EXCEPT ![c] = "done"] /\ runs' = [runs EXCEPT ![c] = @ + 1]
        /\ UNCHANGED <<proc, port, last, monitor, file, haunted, clock, seen, server, began>>
    BY <1>3 DEF Direct, daemonVars
  <2>2. TypeOK' /\ WorksAtEnd'
    BY <2>1 DEF TypeOK, WorksAtEnd
  <2>3. NamesStarted' /\ TouchedSince' /\ LoneNamed'
    BY <2>1 DEF NamesStarted, Started, TouchedSince, LoneNamed, TypeOK
  <2> QED BY <2>2, <2>3 DEF Sound
<1>4. CASE Handle(c)
  <2>1. /\ pc[c] = "connected" /\ server[c] \in Daemon
        /\ pc' = [pc EXCEPT ![c] = "rpc"]
        /\ last' = [last EXCEPT ![server[c]] = clock]
        /\ began' = [began EXCEPT ![c] = clock]
        /\ runs' = [runs EXCEPT ![c] = @ + 1]
        /\ UNCHANGED <<proc, port, monitor, file, haunted, clock, seen, server>>
    BY <1>4 DEF Handle, TypeOK
  <2>2. TypeOK' /\ WorksAtEnd'
    BY <2>1 DEF TypeOK, WorksAtEnd
  <2>3. NamesStarted' /\ LoneNamed'
    BY <2>1 DEF NamesStarted, Started, LoneNamed
  <2>4. TouchedSince'
    BY <2>1 DEF TouchedSince, TypeOK
  <2> QED BY <2>2, <2>3, <2>4 DEF Sound
<1>5. CASE Return(c) \/ StartRefused(c) \/ StartBreaks(c) \/ Reports(c)
  BY <1>5, LeavesKeeps DEF Return, StartRefused, StartBreaks, Reports
<1>6. CASE CleansUp(c)
  BY <1>6, LeavesKeeps DEF CleansUp
<1>7. CASE StopKills(c)
  BY <1>7, EndsKeeps DEF StopKills, TypeOK, Running
<1>8. CASE StartSpawns(c)
  <2>1. PICK d \in Daemon : proc[d] = "absent" /\ proc' = [proc EXCEPT ![d] = "starting"]
    BY <1>8 DEF StartSpawns
  <2>2. Leave({c}) /\ UNCHANGED <<port, last, monitor, file, haunted, clock>>
    BY <1>8 DEF StartSpawns
  <2>3. TypeOK' /\ WorksAtEnd'
    BY <2>1, <2>2, LeaveKeeps DEF TypeOK, Running
  <2>4. NamesStarted'
    BY <2>1, <2>2, LeaveKeeps DEF NamesStarted, Started, TypeOK
  <2>5. TouchedSince'
    BY <2>1, <2>2, LeaveKeeps DEF TouchedSince, TypeOK
  <2>6. LoneNamed'
    BY <2>1, <2>2 DEF LoneNamed, TypeOK
  <2> QED BY <2>3, <2>4, <2>5, <2>6 DEF Sound
<1> QED BY <1>1, <1>2, <1>3, <1>4, <1>5, <1>6, <1>7, <1>8 DEF CommandStep

LEMMA SoundStep == Sound /\ [Next]_vars => Sound'
<1> SUFFICES ASSUME Sound, [Next]_vars PROVE Sound'
  OBVIOUS
<1>1. CASE Tick
  <2>1. /\ clock < MaxTime /\ clock' = clock + 1
        /\ UNCHANGED <<proc, port, last, monitor, file, haunted, pc, seen, server, began, runs>>
    BY <1>1 DEF Tick, daemonVars, commandVars
  <2>2. TypeOK'
    BY <2>1, DaemonAssumption DEF Sound, TypeOK
  <2>3. WorksAtEnd' /\ NamesStarted' /\ LoneNamed'
    BY <2>1 DEF Sound, WorksAtEnd, NamesStarted, Started, LoneNamed
  <2>4. TouchedSince'
    <3>1. \A d \in Daemon : last[d] <= clock + 1 /\ monitor[d] <= clock + 1
      BY DEF Sound, TouchedSince, TypeOK, Asleep, Panicked
    <3>2. \A c \in Command : began[c] <= clock + 1
      BY DEF Sound, TouchedSince, TypeOK
    <3> QED BY <2>1, <3>1, <3>2 DEF Sound, TouchedSince
  <2> QED BY <2>2, <2>3, <2>4 DEF Sound
<1>2. CASE UNCHANGED vars
  BY <1>2 DEF vars, daemonVars, commandVars, Sound, TypeOK, WorksAtEnd, NamesStarted, Started,
     TouchedSince, LoneNamed
<1> QED BY <1>1, <1>2, DaemonKeeps, CommandKeeps DEF Next

LEMMA AlwaysSound == Spec => []Sound
  BY SoundInit, SoundStep, PTL DEF Spec

-----------------------------------------------------------------------------
(* Processes, files, clocks and commands keep their types.                  *)
THEOREM LifecycleTyped == Spec => []TypeOK
<1>1. Sound => TypeOK
  BY DEF Sound
<1> QED BY <1>1, AlwaysSound, PTL

(* The fallback of the command line runs no command twice, for any number   *)
(* of commands, daemons and deaths.                                         *)
THEOREM NoneTwice == Spec => []ExecutedOnce
<1>1. Sound => ExecutedOnce
  BY DEF Sound, WorksAtEnd, ExecutedOnce
<1> QED BY <1>1, AlwaysSound, PTL

(* No start, stop or status command takes daemon.json from a first daemon.  *)
THEOREM FirstNamed == Spec => []LoneNamed
<1>1. Sound => LoneNamed
  BY DEF Sound
<1> QED BY <1>1, AlwaysSound, PTL

(* The idle monitor takes down no call that began within its timeout,       *)
(* unless the subtraction wrapped, for any word size and timeout.           *)
THEOREM IdleSpares == Spec => IdleExitSpares
<1> DEFINE Spares == \A d \in Daemon :
             IdleExit(d) /\ monitor[d] >= last[d] =>
               \A c \in Served(d) : pc[c] = "rpc" => clock - began[c] > Timeout[d]
<1>1. Sound => Spares
  <2> SUFFICES ASSUME Sound, NEW d \in Daemon, IdleExit(d), monitor[d] >= last[d],
                      NEW c \in Served(d), pc[c] = "rpc"
               PROVE  clock - began[c] > Timeout[d]
    OBVIOUS
  <2>1. /\ began[c] <= last[d] /\ monitor[d] <= clock
        /\ began[c] \in Nat /\ clock \in Nat /\ last[d] \in Nat /\ Timeout[d] \in Nat
        /\ monitor[d] \in 0 .. MaxTime
    BY DaemonAssumption DEF Sound, TouchedSince, Served, TypeOK, IdleExit, Asleep, Panicked
  <2>2. Elapsed(monitor[d], last[d]) = monitor[d] - last[d]
    <3>1. monitor[d] - last[d] \in 0 .. MaxTime
      BY <2>1, DaemonAssumption
    <3>2. \A x, n \in Nat : x < n => x % n = x
      OBVIOUS
    <3> QED BY <3>1, <3>2, DaemonAssumption DEF Elapsed
  <2>3. monitor[d] - last[d] > Timeout[d]
    BY <2>2 DEF IdleExit
  <2> QED BY <2>1, <2>3
<1>2. Sound /\ [Next]_vars => [Spares]_vars
  BY <1>1
<1> QED BY <1>2, AlwaysSound, PTL DEF Spec, IdleExitSpares
=============================================================================
