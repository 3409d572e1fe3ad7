----------------------------- MODULE MCWarmPool -----------------------------
(* Small instances of WarmPool for TLC.                                     *)
EXTENDS WarmPool, TLC

CONSTANTS Low, High, Cap   (* min_idle, max_idle and max_total of every pool *)

MCMinIdle == [k \in Key |-> Low]
MCMaxIdle == [k \in Key |-> High]
MCMaxTotal == [k \in Key |-> Cap]

Symmetry == Permutations(SandboxId) \cup Permutations(Client)
=============================================================================
