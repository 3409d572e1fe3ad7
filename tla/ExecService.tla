---------------------------- MODULE ExecService ----------------------------
(***************************************************************************)
(* The exec path of roched: the exec handler of server.rs with the           *)
(* idempotency cache (idempotency.rs), the session budgets (SessionManager   *)
(* of roche-core) and the exec history it writes, next to the handlers that  *)
(* create and destroy sessions and destroy sandboxes.                        *)
(*                                                                           *)
(* The cache, the sessions and the history each have a mutex of their own,   *)
(* so a call is a sequence of steps: look up the cache, check the budget,    *)
(* wait for the provider, charge the session, fill the cache, write history. *)
(***************************************************************************)
EXTENDS Naturals, FiniteSets

CONSTANTS
  Client,     (* concurrent Exec calls                                      *)
  Key,        (* idempotency keys                                           *)
  NoKey,      (* a call without one                                         *)
  Session,    (* session ids; each is used once                             *)
  NoSession,  (* a call outside any session                                 *)
  Sandbox,    (* the sandboxes commands run in                              *)
  Meter,      (* what a budget limits: "execs", seconds, output bytes       *)
  Cost,       (* what one successful exec may use of each meter             *)
  Limits,     (* the budgets sessions are created with; 0 is unlimited      *)
  MaxCost,    (* the most one exec uses of each meter                       *)
  MaxEntries, (* MAX_ENTRIES of the cache                                   *)
  MaxCalls,   (* bound on the number of Exec calls of a run                 *)
  Ageing,     (* whether runs last longer than the cache's TTL              *)
  Faults,     (* whether the provider fails                                 *)
  HangUps     (* whether clients disconnect before they are answered        *)

ASSUME ExecAssumption ==
  /\ IsFiniteSet(Client) /\ Client # {}
  /\ Sandbox # {}
  /\ NoKey \notin Key
  /\ NoSession \notin Session
  /\ Cost \subseteq [Meter -> Nat]
  /\ Limits \subseteq [Meter -> Nat]
  /\ MaxCost \in [Meter -> Nat]
  /\ \A u \in Cost, m \in Meter : u[m] <= MaxCost[m]
  /\ "execs" \in Meter /\ \A u \in Cost : u["execs"] = 1
  /\ MaxEntries \in Nat /\ MaxCalls \in Nat
  /\ Ageing \in BOOLEAN /\ Faults \in BOOLEAN /\ HangUps \in BOOLEAN

VARIABLES
  cache,     (* IdempotencyCache.entries: absent, fresh or past the TTL     *)
  live,      (* the ids in SessionManager.sessions                          *)
  budget,    (* SessionState.budget                                         *)
  usage,     (* SessionState.usage                                          *)
  alive,     (* the sandboxes the provider still has                        *)
  log,       (* exec_log: the number of records of each sandbox             *)
  pc,        (* where each Exec call stands                                 *)
  call,      (* its request                                                 *)
  dropping,  (* sandboxes a Destroy call removed, history not yet dropped   *)
  calls,     (* Exec calls made so far                                      *)
  used,      (* history: the session ids handed out                         *)
  okRuns,    (* history: executions of each key, failed ones apart          *)
  ran,       (* history: executions of each session, failed ones apart      *)
  unkept,    (* history: those of each key whose client hung up before the  *)
             (* answer was kept                                             *)
  uncharged, (* history: those of each session whose client hung up before  *)
             (* they were charged                                           *)
  ages       (* history: how often an entry of each key reached the TTL     *)

sessionVars == <<live, budget, usage, used>>
sandboxVars == <<alive, dropping>>
countVars == <<okRuns, ran, unkept, uncharged, ages>>
vars == <<cache, sessionVars, sandboxVars, log, pc, call, calls, countVars>>

Request == [key : Key \cup {NoKey}, session : Session \cup {NoSession}, sandbox : Sandbox]

NoUsage == [m \in Meter |-> 0]

Add(u, v) == [m \in Meter |-> u[m] + v[m]]

(* Mutant: the limit itself is still allowed.                               *)
ExceededOffByOne(s) == \E m \in Meter : budget[s][m] > 0 /\ usage[s][m] > budget[s][m]

(* BudgetExceeded: a limit above 0 that the recorded usage has reached.     *)
Exceeded(s) == \E m \in Meter : budget[s][m] > 0 /\ usage[s][m] >= budget[s][m]

Entries == {k \in Key : cache[k] # "absent"}

Moves(c, from, to) ==
  /\ pc[c] = from
  /\ pc' = [pc EXCEPT ![c] = to]

-----------------------------------------------------------------------------
Init ==
  /\ cache = [k \in Key |-> "absent"]
  /\ live = {}
  /\ budget = [s \in Session |-> NoUsage]
  /\ usage = [s \in Session |-> NoUsage]
  /\ alive = Sandbox
  /\ log = [x \in Sandbox |-> 0]
  /\ pc = [c \in Client |-> "idle"]
  /\ call = [c \in Client |-> [key |-> NoKey, session |-> NoSession,
                               sandbox |-> CHOOSE x \in Sandbox : TRUE]]
  /\ dropping = {}
  /\ calls = 0
  /\ used = {}
  /\ okRuns = [k \in Key |-> 0]
  /\ ran = [s \in Session |-> 0]
  /\ unkept = [k \in Key |-> 0]
  /\ uncharged = [s \in Session |-> 0]
  /\ ages = [k \in Key |-> 0]

-----------------------------------------------------------------------------
(* The exec handler.                                                        *)

Receive(c) ==
  /\ calls < MaxCalls
  /\ Moves(c, "idle", "lookup")
  /\ \E r \in Request : call' = [call EXCEPT ![c] = r]
  /\ calls' = calls + 1
  /\ UNCHANGED <<cache, sessionVars, sandboxVars, log, countVars>>

(* IdempotencyCache::get finds an entry younger than the TTL: it is the     *)
(* answer, and nothing is executed, charged or logged.                      *)
LookupHit(c) ==
  /\ Moves(c, "lookup", "idle")
  /\ call[c].key \in Key /\ cache[call[c].key] = "fresh"
  /\ UNCHANGED <<cache, sessionVars, sandboxVars, log, call, calls, countVars>>

(* Mutant: get removes the entry whatever its age.                          *)
LookupMissAnyAge(c) ==
  /\ Moves(c, "lookup", "check")
  /\ cache' = [k \in Key |-> IF k = call[c].key THEN "absent" ELSE cache[k]]
  /\ UNCHANGED <<sessionVars, sandboxVars, log, call, calls, countVars>>

(* No key, no entry, or one past the TTL, which get removes.                *)
LookupMiss(c) ==
  /\ Moves(c, "lookup", "check")
  /\ call[c].key \in Key => cache[call[c].key] # "fresh"
  /\ cache' = [k \in Key |-> IF k = call[c].key THEN "absent" ELSE cache[k]]
  /\ UNCHANGED <<sessionVars, sandboxVars, log, call, calls, countVars>>

(* check_budget passes, or the call is outside any session.                 *)
CheckPass(c) ==
  /\ Moves(c, "check", "run")
  /\ call[c].session \in Session => call[c].session \in live /\ ~Exceeded(call[c].session)
  /\ UNCHANGED <<cache, sessionVars, sandboxVars, log, call, calls, countVars>>

(* check_budget answers NotFound or BudgetExceeded, and so does the call.   *)
CheckFail(c) ==
  /\ Moves(c, "check", "idle")
  /\ call[c].session \in Session
  /\ call[c].session \notin live \/ Exceeded(call[c].session)
  /\ UNCHANGED <<cache, sessionVars, sandboxVars, log, call, calls, countVars>>

(* One more for the key, or the session, of a call: none for a call without. *)
Bump(f, x) == [y \in DOMAIN f |-> IF y = x THEN f[y] + 1 ELSE f[y]]

(* The provider answers with an exit status. A non-zero one is an answer    *)
(* like any other, and so, from Docker, is that of a container that is gone. *)
RunOk(c) ==
  /\ Moves(c, "run", "charge")
  /\ okRuns' = Bump(okRuns, call[c].key)
  /\ ran' = Bump(ran, call[c].session)
  /\ UNCHANGED <<cache, sessionVars, sandboxVars, log, call, calls, unkept, uncharged, ages>>

(* The provider answers an error: the command timed out, the sandbox is     *)
(* paused, or it could not be run. Neither charged nor cached; history gets *)
(* a record without an exit code.                                           *)
RunErr(c) ==
  /\ Faults
  /\ Moves(c, "run", "idle")
  /\ log' = [log EXCEPT ![call[c].sandbox] = @ + 1]
  /\ UNCHANGED <<cache, sessionVars, sandboxVars, call, calls, countVars>>

(* The provider the request names is not configured in this daemon.         *)
Unavailable(c) ==
  /\ Faults
  /\ Moves(c, "run", "idle")
  /\ UNCHANGED <<cache, sessionVars, sandboxVars, log, call, calls, countVars>>

(* Mutant: only calls that carry an idempotency key are charged.            *)
ChargeKeyedOnly(c) ==
  /\ Moves(c, "charge", "put")
  /\ \E u \in Cost :
       usage' = [s \in Session |->
                   IF s = call[c].session /\ s \in live /\ call[c].key \in Key
                   THEN Add(usage[s], u) ELSE usage[s]]
  /\ UNCHANGED <<cache, live, budget, used, sandboxVars, log, call, calls, countVars>>

(* record_usage, with what the command used. NotFound is ignored.           *)
Charge(c) ==
  /\ Moves(c, "charge", "put")
  /\ \E u \in Cost :
       usage' = [s \in Session |->
                   IF s = call[c].session /\ s \in live THEN Add(usage[s], u) ELSE usage[s]]
  /\ UNCHANGED <<cache, live, budget, used, sandboxVars, log, call, calls, countVars>>

(* Mutant: a call without a key is cached too.                              *)
PutUnkeyed(c) ==
  /\ Moves(c, "put", "log")
  /\ cache' = [k \in Key \cup {call[c].key} |->
                 IF k = call[c].key THEN "fresh" ELSE cache[k]]
  /\ UNCHANGED <<sessionVars, sandboxVars, log, call, calls, countVars>>

(* IdempotencyCache::put: a cache at capacity first drops what is past the  *)
(* TTL, and takes the new entry whether or not that made room.              *)
Put(c) ==
  /\ Moves(c, "put", "log")
  /\ cache' = [k \in Key |->
                 IF k = call[c].key THEN "fresh"
                 ELSE IF call[c].key \in Key /\ Cardinality(Entries) >= MaxEntries
                         /\ cache[k] = "stale" THEN "absent"
                 ELSE cache[k]]
  /\ UNCHANGED <<sessionVars, sandboxVars, log, call, calls, countVars>>

Log(c) ==
  /\ Moves(c, "log", "idle")
  /\ log' = [log EXCEPT ![call[c].sandbox] = @ + 1]
  /\ UNCHANGED <<cache, sessionVars, sandboxVars, call, calls, countVars>>

(* The client hangs up and the handler's future is dropped where it awaits: *)
(* the provider, whose command runs on in the sandbox, or the trace         *)
(* collector after the command has run. Nothing is charged, kept or logged. *)
HangUp(c) ==
  /\ HangUps
  /\ pc[c] \in {"run", "charge"}
  /\ pc' = [pc EXCEPT ![c] = "idle"]
  /\ okRuns' = IF pc[c] = "run" THEN Bump(okRuns, call[c].key) ELSE okRuns
  /\ ran' = IF pc[c] = "run" THEN Bump(ran, call[c].session) ELSE ran
  /\ unkept' = Bump(unkept, call[c].key)
  /\ uncharged' = Bump(uncharged, call[c].session)
  /\ UNCHANGED <<cache, sessionVars, sandboxVars, log, call, calls, ages>>

(* Time passes: an entry reaches the TTL.                                   *)
Age(k) ==
  /\ Ageing /\ cache[k] = "fresh"
  /\ cache' = [cache EXCEPT ![k] = "stale"]
  /\ ages' = [ages EXCEPT ![k] = @ + 1]
  /\ UNCHANGED <<sessionVars, sandboxVars, log, pc, call, calls, okRuns, ran, unkept,
                 uncharged>>

-----------------------------------------------------------------------------
(* Sessions.                                                                *)

CreateSession(s) ==
  /\ s \in Session \ used
  /\ live' = live \cup {s}
  /\ used' = used \cup {s}
  /\ \E b \in Limits : budget' = [budget EXCEPT ![s] = b]
  /\ usage' = [usage EXCEPT ![s] = NoUsage]
  /\ UNCHANGED <<cache, sandboxVars, log, pc, call, calls, countVars>>

DestroySession(s) ==
  /\ s \in live
  /\ live' = live \ {s}
  /\ UNCHANGED <<cache, budget, usage, used, sandboxVars, log, pc, call, calls, countVars>>

-----------------------------------------------------------------------------
(* Destroy of a sandbox: the provider removes it, the pool is told, and     *)
(* only then is its history dropped.                                        *)

(* Mutant: history is dropped although the provider kept the sandbox.       *)
DestroySandboxUnchecked(x) ==
  /\ x \in alive
  /\ alive' \in {alive, alive \ {x}}
  /\ dropping' = dropping \cup {x}
  /\ UNCHANGED <<cache, sessionVars, log, pc, call, calls, countVars>>

DestroySandbox(x) ==
  /\ x \in alive
  /\ alive' = alive \ {x}
  /\ dropping' = dropping \cup {x}
  /\ UNCHANGED <<cache, sessionVars, log, pc, call, calls, countVars>>

DropHistory(x) ==
  /\ x \in dropping
  /\ dropping' = dropping \ {x}
  /\ log' = [log EXCEPT ![x] = 0]
  /\ UNCHANGED <<cache, sessionVars, alive, pc, call, calls, countVars>>

-----------------------------------------------------------------------------
ExecStep(c) ==
  \/ LookupHit(c) \/ LookupMiss(c) \/ CheckPass(c) \/ CheckFail(c)
  \/ RunOk(c) \/ RunErr(c) \/ Unavailable(c) \/ Charge(c) \/ Put(c) \/ Log(c)

Next ==
  \/ \E c \in Client : Receive(c) \/ ExecStep(c) \/ HangUp(c)
  \/ \E k \in Key : Age(k)
  \/ \E s \in Session : CreateSession(s) \/ DestroySession(s)
  \/ \E x \in Sandbox : DestroySandbox(x) \/ DropHistory(x)

Spec == Init /\ [][Next]_vars

-----------------------------------------------------------------------------
TypeOK ==
  /\ cache \in [Key -> {"absent", "fresh", "stale"}]
  /\ live \in SUBSET Session
  /\ budget \in [Session -> [Meter -> Nat]]
  /\ usage \in [Session -> [Meter -> Nat]]
  /\ alive \in SUBSET Sandbox
  /\ log \in [Sandbox -> Nat]
  /\ pc \in [Client -> {"idle", "lookup", "check", "run", "charge", "put", "log"}]
  /\ call \in [Client -> Request]
  /\ dropping \in SUBSET Sandbox
  /\ calls \in Nat
  /\ used \in SUBSET Session
  /\ okRuns \in [Key -> Nat]
  /\ ran \in [Session -> Nat]
  /\ unkept \in [Key -> Nat]
  /\ uncharged \in [Session -> Nat]
  /\ ages \in [Key -> Nat]

(* The budget is checked before the command runs and charged after it: with *)
(* n calls at once a session can pass each of its limits, and by less than  *)
(* what n commands use.                                                     *)
OvershootBound ==
  \A s \in Session, m \in Meter :
    s \in used /\ budget[s][m] > 0 =>
      usage[s][m] < budget[s][m] + Cardinality(Client) * MaxCost[m]

(* Every command of a live session that ran has been charged to it or is    *)
(* about to be, or its client hung up first: none is free otherwise and     *)
(* none is charged twice, cached answers and failed commands are not        *)
(* charged.                                                                 *)
AllCharged ==
  \A s \in live :
    ran[s] = usage[s]["execs"] + uncharged[s]
               + Cardinality({c \in Client : pc[c] = "charge" /\ call[c].session = s})

(* Within one TTL a key is executed again only by calls that were under way *)
(* when the first of them finished, and after clients that hung up: with n  *)
(* callers at most n executions for each TTL that passed and the present    *)
(* one, and one for each hang-up, whatever else fails or is evicted.        *)
KeyRunsBound ==
  \A k \in Key : okRuns[k] <= Cardinality(Client) * (ages[k] + 1) + unkept[k]

(* The history of a sandbox that exists never loses a record.               *)
HistoryKept == [][\A x \in alive' : log'[x] >= log[x]]_vars

(* What the cache's comment promises: a retry with the same key does not    *)
(* execute again.                                                           *)
RunsOnce == \A k \in Key : okRuns[k] <= 1
=============================================================================
