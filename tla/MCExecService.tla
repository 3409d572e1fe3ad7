--------------------------- MODULE MCExecService ---------------------------
(* Small instances of ExecService for TLC.                                  *)
EXTENDS ExecService, TLC

MCMeter == {"execs", "bytes"}

(* A silent command and one that writes two units of output.                *)
MCCost == {[execs |-> 1, bytes |-> 0], [execs |-> 1, bytes |-> 2]}

MCMaxCost == [execs |-> 1, bytes |-> 2]

(* A limit on the number of commands, and one on their output.              *)
MCLimits == {[execs |-> 1, bytes |-> 0], [execs |-> 0, bytes |-> 1]}

Symmetry == Permutations(Client) \cup Permutations(Key)
=============================================================================
