-------------------------- MODULE DaemonLifecycle ---------------------------
(***************************************************************************)
(* The life of roched processes (crates/roche-daemon/src/main.rs) and the   *)
(* commands that find, start, stop and use them (crates/roche-cli/src/      *)
(* main.rs). They share one file, daemon.json, with no lock: a daemon       *)
(* writes its pid there before it binds its port, and whoever exits or      *)
(* cleans up removes the file whatever it says by then.                     *)
(*                                                                          *)
(* A command reads the file in one step and acts on what it read in         *)
(* another; the idle monitor reads the clock in one step and last_rpc_ms in *)
(* another.                                                                 *)
(***************************************************************************)
EXTENDS Integers, FiniteSets

CONSTANTS
  Daemon,    (* roched processes: pids, which are handed out in order       *)
  Command,   (* invocations of the roche command line at one time           *)
  Kinds,     (* what each of them may be: call, start, stop, status         *)
  Ports,     (* the --port each daemon is given: a set of assignments       *)
  NoDaemon,  (* daemon.json does not exist                                  *)
  Timeout,   (* --idle-timeout of each daemon in ticks; 0 disables it       *)
  Width,     (* bits of the clock's integer: 64 in the code                 *)
  MaxTime,   (* bound: the clock stops here                                 *)
  LastStart  (* bound: daemons and calls start no later                     *)

ASSUME DaemonAssumption ==
  /\ Daemon \subseteq Nat /\ NoDaemon \notin Daemon
  /\ Kinds \in [Command -> SUBSET {"call", "start", "stop", "status"}]
  /\ \A p \in Ports : DOMAIN p = Daemon
  /\ Timeout \in [Daemon -> Nat] /\ MaxTime \in Nat /\ LastStart \in Nat
  /\ 2^Width \in Nat /\ MaxTime < 2^Width
  /\ \A d \in Daemon : LastStart + Timeout[d] < MaxTime

VARIABLES
  proc,      (* how far each roched has come                                *)
  port,      (* its --port                                                  *)
  file,      (* the pid in daemon.json                                      *)
  haunted,   (* pids of ended daemons that kill(pid, 0) still finds: reused *)
             (* by another process, or not reaped by the parent             *)
  clock,     (* SystemTime                                                  *)
  last,      (* last_rpc_ms of each daemon                                  *)
  monitor,   (* its idle monitor: asleep, holding a clock value, panicked   *)
  pc,        (* where each command stands                                   *)
  seen,      (* the pid it read from daemon.json                            *)
  server,    (* the daemon it is connected to                               *)
  began,     (* history: when the handler of its call started               *)
  runs       (* history: how often its work has been carried out            *)

daemonVars == <<proc, port, last, monitor>>
commandVars == <<pc, seen, server, began, runs>>
vars == <<daemonVars, file, haunted, clock, commandVars>>

Asleep == -1
Panicked == -2

Running == {"starting", "written", "serving", "draining"}
Listening(p) == {d \in Daemon : proc[d] = "serving" /\ port[d] = p}

(* is_process_alive: kill(pid, 0) succeeds.                                 *)
Alive(d) == proc[d] \in Running \/ d \in haunted

(* Commands with an open connection to d.                                   *)
Served(d) == {c \in Command : pc[c] \in {"connected", "rpc"} /\ server[c] = d}

(* The commands in S are over, and with them what they knew.                *)
Leave(S) ==
  /\ pc' = [c \in Command |-> IF c \in S THEN "idle" ELSE pc[c]]
  /\ seen' = [c \in Command |-> IF c \in S THEN NoDaemon ELSE seen[c]]
  /\ server' = [c \in Command |-> IF c \in S THEN NoDaemon ELSE server[c]]
  /\ began' = [c \in Command |-> IF c \in S THEN 0 ELSE began[c]]
  /\ runs' = [c \in Command |-> IF c \in S THEN 0 ELSE runs[c]]

(* Mutant: a call that breaks is dispatched again.                          *)
EndsAndRetries(d) ==
  /\ proc' = [proc EXCEPT ![d] = "gone"]
  /\ pc' = [c \in Command |-> IF c \in Served(d) THEN "call" ELSE pc[c]]
  /\ last' = [last EXCEPT ![d] = 0]
  /\ monitor' = [monitor EXCEPT ![d] = Asleep]
  /\ UNCHANGED <<port, haunted, clock, seen, server, began, runs>>

(* The process ends: open connections break, and run_via_grpc returns the   *)
(* transport error without falling back.                                    *)
Ends(d) ==
  /\ proc' = [proc EXCEPT ![d] = "gone"]
  /\ last' = [last EXCEPT ![d] = 0]
  /\ monitor' = [monitor EXCEPT ![d] = Asleep]
  /\ Leave(Served(d))
  /\ UNCHANGED <<port, haunted, clock>>

Init ==
  /\ proc = [d \in Daemon |-> "absent"]
  /\ port \in Ports
  /\ file = NoDaemon
  /\ haunted = {}
  /\ clock = 0
  /\ last = [d \in Daemon |-> 0]
  /\ monitor = [d \in Daemon |-> Asleep]
  /\ pc = [c \in Command |-> "idle"]
  /\ seen = [c \in Command |-> NoDaemon]
  /\ server = [c \in Command |-> NoDaemon]
  /\ began = [c \in Command |-> 0]
  /\ runs = [c \in Command |-> 0]

-----------------------------------------------------------------------------
(* roched                                                                   *)

(* The service is built, which sets last_rpc_ms, and daemon.json written.   *)
WriteInfo(d) ==
  /\ proc[d] = "starting" /\ clock <= LastStart
  /\ proc' = [proc EXCEPT ![d] = "written"]
  /\ file' = d
  /\ last' = [last EXCEPT ![d] = clock]
  /\ UNCHANGED <<port, monitor, haunted, clock, commandVars>>

(* A bad --pool argument or an unwritable directory.                        *)
StartFails(d) ==
  /\ proc[d] = "starting"
  /\ Ends(d)
  /\ UNCHANGED file

Bind(d) ==
  /\ proc[d] = "written"
  /\ Listening(port[d]) = {}
  /\ proc' = [proc EXCEPT ![d] = "serving"]
  /\ UNCHANGED <<port, last, monitor, file, haunted, clock, commandVars>>

(* The port is taken: main returns the error, and daemon.json stays.        *)
BindFails(d) ==
  /\ proc[d] = "written"
  /\ Listening(port[d]) # {}
  /\ Ends(d)
  /\ UNCHANGED file

(* The monitor wakes up and reads the clock.                                *)
MonitorSample(d) ==
  /\ Timeout[d] > 0 /\ proc[d] \in {"written", "serving", "draining"}
  /\ monitor[d] = Asleep
  /\ monitor' = [monitor EXCEPT ![d] = clock]
  /\ UNCHANGED <<proc, port, last, file, haunted, clock, commandVars>>

(* now_ms - last on unsigned integers, as a release build computes it.      *)
Elapsed(now, since) == (now - since) % 2^Width

(* Mutant: the monitor keeps the clock value it has.                        *)
MonitorStaysAwake(d) ==
  /\ proc[d] \in {"written", "serving", "draining"} /\ monitor[d] >= 0
  /\ Elapsed(monitor[d], last[d]) <= Timeout[d]
  /\ UNCHANGED vars

MonitorStays(d) ==
  /\ proc[d] \in {"written", "serving", "draining"} /\ monitor[d] >= 0
  /\ Elapsed(monitor[d], last[d]) <= Timeout[d]
  /\ monitor' = [monitor EXCEPT ![d] = Asleep]
  /\ UNCHANGED <<proc, port, last, file, haunted, clock, commandVars>>

(* The idle timeout has passed: remove daemon.json and exit, whatever the   *)
(* handlers are doing.                                                      *)
IdleExit(d) ==
  /\ proc[d] \in {"written", "serving", "draining"} /\ monitor[d] >= 0
  /\ Elapsed(monitor[d], last[d]) > Timeout[d]
  /\ Ends(d)
  /\ file' = NoDaemon

(* A build with overflow checks: the subtraction panics, which ends the     *)
(* monitor's task and nothing else.                                         *)
MonitorPanics(d) ==
  /\ proc[d] \in {"written", "serving", "draining"} /\ monitor[d] >= 0
  /\ monitor[d] < last[d]
  /\ monitor' = [monitor EXCEPT ![d] = Panicked]
  /\ UNCHANGED <<proc, port, last, file, haunted, clock, commandVars>>

(* SIGINT: stop listening and wait for the open calls.                      *)
CtrlC(d) ==
  /\ proc[d] = "serving"
  /\ proc' = [proc EXCEPT ![d] = "draining"]
  /\ UNCHANGED <<port, last, monitor, file, haunted, clock, commandVars>>

(* The calls have ended; drain the pool, remove daemon.json, return.        *)
Drained(d) ==
  /\ proc[d] = "draining"
  /\ Served(d) = {}
  /\ Ends(d)
  /\ file' = NoDaemon

(* Killed, or crashed; SIGINT before the handler is installed.              *)
Crash(d) ==
  /\ proc[d] \in Running
  /\ Ends(d)
  /\ UNCHANGED file

(* The operating system reuses the pid, or the parent has not reaped it.    *)
Haunt(d) ==
  /\ proc[d] = "gone" /\ d \notin haunted
  /\ haunted' = haunted \cup {d}
  /\ UNCHANGED <<daemonVars, file, clock, commandVars>>

Tick ==
  /\ clock < MaxTime
  /\ clock' = clock + 1
  /\ UNCHANGED <<daemonVars, file, haunted, commandVars>>

-----------------------------------------------------------------------------
(* The command line; a call is any sandbox or pool command.                 *)

(* read_daemon_info.                                                        *)
ReadInfo(c, kind) ==
  /\ pc[c] = "idle"
  /\ kind = "call" => clock <= LastStart
  /\ pc' = [pc EXCEPT ![c] = kind]
  /\ seen' = [seen EXCEPT ![c] = file]
  /\ UNCHANGED <<daemonVars, file, haunted, clock, server, began, runs>>

Reachable(c) ==
  IF seen[c] # NoDaemon /\ Alive(seen[c]) THEN Listening(port[seen[c]]) ELSE {}

(* Mutant: the command goes on although it has no connection.               *)
ConnectBlind(c) ==
  /\ pc[c] = "call" /\ Reachable(c) = {}
  /\ pc' = [pc EXCEPT ![c] = "connected"]
  /\ UNCHANGED <<daemonVars, file, haunted, clock, seen, server, began, runs>>

(* try_daemon_dispatch connects to whoever holds the port of the pid read.  *)
Connect(c) ==
  /\ pc[c] = "call"
  /\ \E d \in Reachable(c) : server' = [server EXCEPT ![c] = d]
  /\ pc' = [pc EXCEPT ![c] = "connected"]
  /\ UNCHANGED <<daemonVars, file, haunted, clock, seen, began, runs>>

(* No file, a dead pid, or nobody listening: the command runs on the        *)
(* provider in its own process.                                             *)
Direct(c) ==
  /\ pc[c] = "call" /\ Reachable(c) = {}
  /\ runs' = [runs EXCEPT ![c] = @ + 1]
  /\ pc' = [pc EXCEPT ![c] = "done"]
  /\ UNCHANGED <<daemonVars, file, haunted, clock, seen, server, began>>

(* Mutant: a handler that does not touch last_rpc_ms.                       *)
HandleUntouched(c) ==
  /\ pc[c] = "connected"
  /\ pc' = [pc EXCEPT ![c] = "rpc"]
  /\ began' = [began EXCEPT ![c] = clock]
  /\ runs' = [runs EXCEPT ![c] = @ + 1]
  /\ UNCHANGED <<daemonVars, file, haunted, clock, seen, server>>

(* A handler starts: touch_last_rpc is its first statement.                 *)
Handle(c) ==
  /\ pc[c] = "connected" /\ clock <= LastStart
  /\ pc' = [pc EXCEPT ![c] = "rpc"]
  /\ last' = [last EXCEPT ![server[c]] = clock]
  /\ began' = [began EXCEPT ![c] = clock]
  /\ runs' = [runs EXCEPT ![c] = @ + 1]
  /\ UNCHANGED <<proc, port, monitor, file, haunted, clock, seen, server>>

(* The call is answered, or its client gives up; the command exits.         *)
Return(c) ==
  /\ pc[c] \in {"connected", "rpc", "done"}
  /\ Leave({c})
  /\ UNCHANGED <<daemonVars, file, haunted, clock>>

(* daemon start: refused while the pid read is alive.                       *)
StartRefused(c) ==
  /\ pc[c] = "start" /\ seen[c] # NoDaemon /\ Alive(seen[c])
  /\ Leave({c})
  /\ UNCHANGED <<daemonVars, file, haunted, clock>>

StartSpawns(c) ==
  /\ pc[c] = "start" /\ (seen[c] # NoDaemon => ~Alive(seen[c]))
  /\ \E d \in Daemon : /\ proc[d] = "absent"
                       /\ \A e \in Daemon : e < d => proc[e] # "absent"
                       /\ proc' = [proc EXCEPT ![d] = "starting"]
  /\ Leave({c})
  /\ UNCHANGED <<port, last, monitor, file, haunted, clock>>

(* The spawn fails, or the model has no pid left.                           *)
StartBreaks(c) ==
  /\ pc[c] = "start" /\ (seen[c] # NoDaemon => ~Alive(seen[c]))
  /\ Leave({c})
  /\ UNCHANGED <<daemonVars, file, haunted, clock>>

(* daemon stop: SIGTERM, which roched does not handle.                      *)
StopKills(c) ==
  /\ pc[c] = "stop" /\ seen[c] # NoDaemon /\ proc[seen[c]] \in Running
  /\ proc' = [proc EXCEPT ![seen[c]] = "gone"]
  /\ last' = [last EXCEPT ![seen[c]] = 0]
  /\ monitor' = [monitor EXCEPT ![seen[c]] = Asleep]
  /\ Leave({c} \cup Served(seen[c]))
  /\ UNCHANGED <<port, file, haunted, clock>>

(* Mutant: status removes the file without asking whether the pid is alive. *)
CleansUpAlways(c) ==
  /\ pc[c] \in {"stop", "status"} /\ seen[c] # NoDaemon
  /\ file' = NoDaemon
  /\ Leave({c})
  /\ UNCHANGED <<daemonVars, haunted, clock>>

(* daemon stop and status clean up after a pid that is gone.                *)
CleansUp(c) ==
  /\ pc[c] \in {"stop", "status"} /\ seen[c] # NoDaemon /\ ~Alive(seen[c])
  /\ file' = NoDaemon
  /\ Leave({c})
  /\ UNCHANGED <<daemonVars, haunted, clock>>

(* Nothing to report, or a pid that is alive: stop then signals whatever    *)
(* process has it.                                                          *)
Reports(c) ==
  /\ \/ pc[c] \in {"stop", "status"} /\ seen[c] = NoDaemon
     \/ pc[c] = "status" /\ seen[c] # NoDaemon /\ Alive(seen[c])
     \/ pc[c] = "stop" /\ seen[c] \in haunted
  /\ Leave({c})
  /\ UNCHANGED <<daemonVars, file, haunted, clock>>

-----------------------------------------------------------------------------
MonitorStep(d) == MonitorSample(d) \/ MonitorStays(d) \/ IdleExit(d) \/ MonitorPanics(d)

DaemonStep(d) ==
  \/ WriteInfo(d) \/ StartFails(d) \/ Bind(d) \/ BindFails(d)
  \/ MonitorSample(d) \/ MonitorStays(d) \/ IdleExit(d) \/ MonitorPanics(d)
  \/ CtrlC(d) \/ Drained(d) \/ Crash(d) \/ Haunt(d)

CommandStep(c) ==
  \/ \E kind \in Kinds[c] : ReadInfo(c, kind)
  \/ Connect(c) \/ Direct(c) \/ Handle(c) \/ Return(c)
  \/ StartRefused(c) \/ StartSpawns(c) \/ StartBreaks(c)
  \/ StopKills(c) \/ CleansUp(c) \/ Reports(c)

Next ==
  \/ Tick
  \/ \E d \in Daemon : DaemonStep(d)
  \/ \E c \in Command : CommandStep(c)

Spec == Init /\ [][Next]_vars

(* Time passes and the runtime polls the idle monitor's task; nobody owes a *)
(* command, a signal or an answer.                                          *)
FairSpec == Spec /\ WF_vars(Tick) /\ \A d \in Daemon : WF_vars(MonitorStep(d))

-----------------------------------------------------------------------------
TypeOK ==
  /\ proc \in [Daemon -> Running \cup {"absent", "gone"}]
  /\ port \in Ports
  /\ file \in Daemon \cup {NoDaemon}
  /\ haunted \subseteq Daemon
  /\ clock \in 0 .. MaxTime
  /\ last \in [Daemon -> 0 .. MaxTime]
  /\ monitor \in [Daemon -> {Asleep, Panicked} \cup (0 .. MaxTime)]
  /\ pc \in [Command -> {"idle", "call", "start", "stop", "status", "connected", "rpc", "done"}]
  /\ seen \in [Command -> Daemon \cup {NoDaemon}]
  /\ server \in [Command -> Daemon \cup {NoDaemon}]
  /\ \A c \in Command : pc[c] \in {"connected", "rpc"} => server[c] \in Daemon
  /\ began \in [Command -> 0 .. MaxTime]
  /\ runs \in [Command -> Nat]

(* No command is carried out twice: the fallback to the direct provider is  *)
(* taken only before a daemon was given the request, whoever dies when.     *)
ExecutedOnce == \A c \in Command : runs[c] <= 1

(* The first daemon of a machine is the one daemon.json names for as long   *)
(* as it runs, whatever start, stop and status commands do meanwhile. (A    *)
(* later one can lose the file: see hazards.)                               *)
LoneNamed ==
  \A d \in Daemon :
    /\ \A e \in Daemon \ {d} : proc[e] = "absent"
    /\ proc[d] \in {"written", "serving", "draining"}
    => file = d

(* The idle monitor takes no call down that started within the timeout,     *)
(* unless the call started between its two reads and the difference         *)
(* wrapped.                                                                 *)
IdleExitSpares ==
  [][\A d \in Daemon :
       IdleExit(d) /\ monitor[d] >= last[d] =>
         \A c \in Served(d) : pc[c] = "rpc" => clock - began[c] > Timeout[d]]_vars

(* A daemon with an idle timeout exits once it is no longer called, unless  *)
(* its monitor panicked.                                                    *)
IdleEnds ==
  \A d \in Daemon :
    proc[d] = "serving" /\ Timeout[d] > 0 ~> proc[d] = "gone" \/ monitor[d] = Panicked
=============================================================================
