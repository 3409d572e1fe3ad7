------------------------------ MODULE MCDaemon ------------------------------
(* A small instance of DaemonLifecycle for TLC.                             *)
EXTENDS DaemonLifecycle

CONSTANT Caller   (* the commands that only make calls                      *)

(* All daemons on one port, or each on its own.                             *)
MCPorts == {[d \in Daemon |-> 0], [d \in Daemon |-> d]}

MCKinds == [c \in Command |-> IF c \in Caller THEN {"call"} ELSE {"start", "stop", "status"}]

(* roched started by an SDK with an idle timeout, the next one without.     *)
MCTimeout == [d \in Daemon |-> IF d = 1 THEN 1 ELSE 0]
=============================================================================
