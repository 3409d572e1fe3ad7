------------------------- MODULE ExecServiceProofs --------------------------
(* Safety of the exec path for any number of callers, keys and sessions.    *)
EXTENDS ExecService, TLAPS, FiniteSetTheorems

(* One more for one key, or one session, and the same for every other.      *)
LEMMA Bumped ==
  ASSUME NEW S, NEW f \in [S -> Nat], NEW x
  PROVE  /\ Bump(f, x) \in [S -> Nat]
         /\ \A y \in S : Bump(f, x)[y] = IF y = x THEN f[y] + 1 ELSE f[y]
BY DEF Bump

(* The exec path keeps its types: no meter, counter or history is ever      *)
(* anything but a number, and only requests are in flight.                  *)
THEOREM TypeCorrect == Spec => []TypeOK
<1> USE ExecAssumption
<1>1. Init => TypeOK
  BY DEF Init, TypeOK, NoUsage, Request
<1>2. TypeOK /\ [Next]_vars => TypeOK'
  <2> SUFFICES ASSUME TypeOK, [Next]_vars PROVE TypeOK'
    OBVIOUS
  <2>0. /\ okRuns \in [Key -> Nat] /\ ran \in [Session -> Nat]
        /\ log \in [Sandbox -> Nat]
    BY DEF TypeOK
  <2> USE DEF TypeOK, Moves, sessionVars, sandboxVars, countVars
  <2>1. ASSUME NEW c \in Client, Receive(c) PROVE TypeOK'
    BY <2>1 DEF Receive
  <2>2. ASSUME NEW c \in Client, LookupHit(c) \/ LookupMiss(c) PROVE TypeOK'
    <3>1. CASE LookupHit(c)
      BY <3>1 DEF LookupHit
    <3>2. CASE LookupMiss(c)
      <4>1. cache' \in [Key -> {"absent", "fresh", "stale"}]
        BY <3>2 DEF LookupMiss
      <4>. QED BY <3>2, <4>1 DEF LookupMiss
    <3>. QED BY <2>2, <3>1, <3>2
  <2>3. ASSUME NEW c \in Client, CheckPass(c) \/ CheckFail(c) \/ Unavailable(c)
        PROVE  TypeOK'
    BY <2>3 DEF CheckPass, CheckFail, Unavailable
  <2>4. ASSUME NEW c \in Client, RunOk(c) \/ HangUp(c) PROVE TypeOK'
    <3>1. okRuns' \in [Key -> Nat] /\ ran' \in [Session -> Nat]
      <4>1. CASE RunOk(c)
        <5>1. okRuns' = Bump(okRuns, call[c].key) /\ ran' = Bump(ran, call[c].session)
          BY <4>1 DEF RunOk
        <5>. QED BY <5>1, Bumped
      <4>2. CASE HangUp(c)
        <5>1. /\ okRuns' \in {okRuns, Bump(okRuns, call[c].key)}
              /\ ran' \in {ran, Bump(ran, call[c].session)}
          BY <4>2 DEF HangUp
        <5>. HIDE DEF TypeOK
        <5>. QED BY <2>0, <5>1, Bumped
      <4>. QED BY <2>4, <4>1, <4>2
    <3>2. unkept' \in [Key -> Nat] /\ uncharged' \in [Session -> Nat]
      <4>1. CASE RunOk(c)
        BY <4>1 DEF RunOk
      <4>2. CASE HangUp(c)
        <5>1. unkept' = Bump(unkept, call[c].key) /\ uncharged' = Bump(uncharged, call[c].session)
          BY <4>2 DEF HangUp
        <5>. QED BY <5>1, Bumped
      <4>. QED BY <2>4, <4>1, <4>2
    <3>3. pc' \in [Client -> {"idle", "lookup", "check", "run", "charge", "put", "log"}]
      BY <2>4 DEF RunOk, HangUp
    <3>4. UNCHANGED <<cache, sessionVars, sandboxVars, log, call, calls, ages>>
      BY <2>4 DEF RunOk, HangUp
    <3>. QED BY <3>1, <3>2, <3>3, <3>4
  <2>5. ASSUME NEW c \in Client, RunErr(c) \/ Log(c) PROVE TypeOK'
    <3>1. call[c].sandbox \in Sandbox
      BY DEF Request
    <3>2. log' = [log EXCEPT ![call[c].sandbox] = @ + 1]
      BY <2>5 DEF RunErr, Log
    <3>3. log' \in [Sandbox -> Nat]
      BY <3>1, <3>2
    <3>. QED BY <2>5, <3>3 DEF RunErr, Log
  <2>6. ASSUME NEW c \in Client, Charge(c) PROVE TypeOK'
    <3>1. PICK u \in Cost :
            usage' = [s \in Session |->
                        IF s = call[c].session /\ s \in live
                        THEN Add(usage[s], u) ELSE usage[s]]
      BY <2>6 DEF Charge
    <3>2. u \in [Meter -> Nat]
      OBVIOUS
    <3>3. \A s \in Session : Add(usage[s], u) \in [Meter -> Nat]
      BY <3>2 DEF Add
    <3>4. usage' \in [Session -> [Meter -> Nat]]
      BY <3>1, <3>3
    <3>. QED BY <2>6, <3>4 DEF Charge
  <2>7. ASSUME NEW c \in Client, Put(c) PROVE TypeOK'
    BY <2>7 DEF Put
  <2>8. ASSUME NEW k \in Key, Age(k) PROVE TypeOK'
    BY <2>8 DEF Age
  <2>9. ASSUME NEW s \in Session, CreateSession(s) PROVE TypeOK'
    <3>1. PICK b \in Limits : budget' = [budget EXCEPT ![s] = b]
      BY <2>9 DEF CreateSession
    <3>2. b \in [Meter -> Nat] /\ NoUsage \in [Meter -> Nat]
      BY DEF NoUsage
    <3>. QED BY <2>9, <3>1, <3>2 DEF CreateSession
  <2>10. ASSUME NEW s \in Session, DestroySession(s) PROVE TypeOK'
    BY <2>10 DEF DestroySession
  <2>11. ASSUME NEW x \in Sandbox, DestroySandbox(x) \/ DropHistory(x) PROVE TypeOK'
    <3>1. log' = log \/ log' = [log EXCEPT ![x] = 0]
      BY <2>11 DEF DestroySandbox, DropHistory
    <3>2. log' \in [Sandbox -> Nat]
      <4>. HIDE DEF TypeOK
      <4>. QED BY <2>0, <3>1
    <3>. QED BY <2>11, <3>2 DEF DestroySandbox, DropHistory
  <2>12. CASE UNCHANGED vars
    BY <2>12 DEF vars
  <2>. QED
    BY <2>1, <2>2, <2>3, <2>4, <2>5, <2>6, <2>7, <2>8, <2>9, <2>10, <2>11, <2>12
    DEF Next, ExecStep
<1>. QED BY <1>1, <1>2, PTL DEF Spec

-----------------------------------------------------------------------------
(* Counting callers.                                                        *)

LEMMA CallersCounted ==
  ASSUME NEW S \in SUBSET Client
  PROVE  /\ IsFiniteSet(S) /\ Cardinality(S) \in Nat
         /\ Cardinality(Client) \in Nat /\ Cardinality(S) <= Cardinality(Client)
BY ExecAssumption, FS_Subset, FS_CardinalityType

LEMMA OneJoins ==
  ASSUME NEW S \in SUBSET Client, NEW c, c \notin S
  PROVE  Cardinality(S \cup {c}) = Cardinality(S) + 1
BY CallersCounted, FS_AddElement

LEMMA OneLeaves ==
  ASSUME NEW S \in SUBSET Client, NEW c \in S
  PROVE  Cardinality(S \ {c}) = Cardinality(S) - 1
BY CallersCounted, FS_RemoveElement

(* The callers at one of the stages P whose request satisfies nothing more  *)
(* than belonging to session s, or to key k.                                *)
InSession(s, P) == {c \in Client : pc[c] \in P /\ call[c].session = s}
OfKey(k, P) == {c \in Client : pc[c] \in P /\ call[c].key = k}

(* What a step of one caller does to such a set: everyone else stays.       *)
LEMMA SessionMoves ==
  ASSUME TypeOK, NEW s, NEW P, NEW c \in Client, NEW from, NEW to, Moves(c, from, to),
         UNCHANGED call
  PROVE  InSession(s, P)' = IF to \in P /\ call[c].session = s
                            THEN InSession(s, P) \cup {c} ELSE InSession(s, P) \ {c}
BY DEF TypeOK, Moves, InSession

LEMMA KeyMoves ==
  ASSUME TypeOK, NEW k, NEW P, NEW c \in Client, NEW from, NEW to, Moves(c, from, to),
         UNCHANGED call
  PROVE  OfKey(k, P)' = IF to \in P /\ call[c].key = k
                        THEN OfKey(k, P) \cup {c} ELSE OfKey(k, P) \ {c}
BY DEF TypeOK, Moves, OfKey

-----------------------------------------------------------------------------
(* History.                                                                 *)

(* Only what the provider has removed is waiting to lose its history.       *)
DroppingGone == dropping \cap alive = {}

(* No step takes a record of an existing sandbox's history away: history is *)
(* dropped only once the provider has removed the sandbox.                  *)
THEOREM HistorySafe == Spec => HistoryKept
<1>1. Init => DroppingGone
  BY DEF Init, DroppingGone
<1>2. DroppingGone /\ [Next]_vars => DroppingGone'
  <2> SUFFICES ASSUME DroppingGone, [Next]_vars PROVE DroppingGone'
    OBVIOUS
  <2> USE DEF DroppingGone, sandboxVars
  <2>1. CASE \E c \in Client : Receive(c) \/ ExecStep(c) \/ HangUp(c)
    BY <2>1 DEF Receive, ExecStep, HangUp, LookupHit, LookupMiss, CheckPass, CheckFail,
                RunOk, RunErr, Unavailable, Charge, Put, Log
  <2>2. CASE \/ \E k \in Key : Age(k)
             \/ \E s \in Session : CreateSession(s) \/ DestroySession(s)
    BY <2>2 DEF Age, CreateSession, DestroySession
  <2>3. CASE \E x \in Sandbox : DestroySandbox(x) \/ DropHistory(x)
    BY <2>3 DEF DestroySandbox, DropHistory
  <2>4. CASE UNCHANGED vars
    BY <2>4 DEF vars
  <2>. QED BY <2>1, <2>2, <2>3, <2>4 DEF Next
<1>3. TypeOK /\ DroppingGone /\ [Next]_vars => [\A x \in alive' : log'[x] >= log[x]]_vars
  <2> SUFFICES ASSUME TypeOK, DroppingGone, Next, NEW x \in alive' PROVE log'[x] >= log[x]
    OBVIOUS
  <2> USE DEF sandboxVars
  <2>1. log \in [Sandbox -> Nat] /\ alive \subseteq Sandbox
    BY DEF TypeOK
  <2>2. x \in alive
    <3>1. CASE \E c \in Client : Receive(c) \/ ExecStep(c) \/ HangUp(c)
      BY <3>1 DEF Receive, ExecStep, HangUp, LookupHit, LookupMiss, CheckPass, CheckFail,
                  RunOk, RunErr, Unavailable, Charge, Put, Log
    <3>2. CASE \/ \E k \in Key : Age(k)
               \/ \E s \in Session : CreateSession(s) \/ DestroySession(s)
      BY <3>2 DEF Age, CreateSession, DestroySession
    <3>3. CASE \E y \in Sandbox : DestroySandbox(y) \/ DropHistory(y)
      BY <3>3 DEF DestroySandbox, DropHistory
    <3>. QED BY <3>1, <3>2, <3>3 DEF Next
  <2>3. ASSUME NEW y, log' = [log EXCEPT ![y] = @ + 1] PROVE log'[x] >= log[x]
    BY <2>1, <2>2, <2>3
  <2>4. ASSUME UNCHANGED log PROVE log'[x] >= log[x]
    BY <2>1, <2>2, <2>4
  <2>5. CASE \E c \in Client : Receive(c) \/ ExecStep(c) \/ HangUp(c)
    BY <2>3, <2>4, <2>5 DEF Receive, ExecStep, HangUp, LookupHit, LookupMiss, CheckPass,
                            CheckFail, RunOk, RunErr, Unavailable, Charge, Put, Log
  <2>6. CASE \/ \E k \in Key : Age(k)
             \/ \E s \in Session : CreateSession(s) \/ DestroySession(s)
    BY <2>4, <2>6 DEF Age, CreateSession, DestroySession
  <2>7. CASE \E y \in Sandbox : DestroySandbox(y)
    BY <2>4, <2>7 DEF DestroySandbox
  <2>8. ASSUME NEW y \in Sandbox, DropHistory(y) PROVE log'[x] >= log[x]
    <3>1. x # y /\ log' = [log EXCEPT ![y] = 0]
      BY <2>2, <2>8 DEF DropHistory, DroppingGone
    <3>. QED BY <2>1, <2>2, <3>1
  <2>. QED BY <2>5, <2>6, <2>7, <2>8 DEF Next
<1>. QED BY <1>1, <1>2, <1>3, TypeCorrect, PTL DEF Spec, HistoryKept

-----------------------------------------------------------------------------
(* Budgets.                                                                 *)

Executing == {"run", "charge"}

(* Nothing runs in a session that has not been created.                     *)
Admitted ==
  /\ live \subseteq used
  /\ \A s \in Session \ used : /\ ran[s] = 0 /\ uncharged[s] = 0
                               /\ InSession(s, Executing) = {}

(* Each call that has passed the check may still add one command's worth.   *)
Headroom(s, m) ==
  s \in used /\ budget[s][m] > 0 =>
    usage[s][m] + Cardinality(InSession(s, Executing)) * MaxCost[m]
      < budget[s][m] + Cardinality(Client) * MaxCost[m]

Charged(s) ==
  s \in live => ran[s] = usage[s]["execs"] + uncharged[s]
                           + Cardinality(InSession(s, {"charge"}))

LEMMA Products ==
  ASSUME NEW u \in Nat, NEW v \in Nat, NEW m \in Nat, u <= v
  PROVE  u * m \in Nat /\ v * m \in Nat /\ u * m <= v * m /\ (v + 1) * m = v * m + m
<1>1. v * m = u * m + (v - u) * m /\ v - u \in Nat
  OBVIOUS
<1>2. (v - u) * m \in Nat /\ u * m \in Nat
  BY <1>1
<1>. QED BY <1>1, <1>2

LEMMA NatProduct ==
  ASSUME NEW u \in Nat, NEW m \in Nat
  PROVE  u * m \in Nat
OBVIOUS

(* One caller less in a product.                                            *)
LEMMA OneLess ==
  ASSUME NEW u \in Nat, NEW v \in Nat, NEW m \in Nat, v = u + 1
  PROVE  v * m = u * m + m
OBVIOUS

(* A bound that loses one share keeps holding when the meter gains at most  *)
(* that share: the arithmetic of charging one command.                      *)
LEMMA ShareSpent ==
  ASSUME NEW x \in Nat, NEW y \in Nat, NEW m \in Nat, NEW p \in Nat, NEW q \in Nat,
         NEW bound \in Nat, q = p + m, x + q < bound, y <= x + m
  PROVE  y + p < bound
OBVIOUS

(* The steps of a call that is not executing, before and after.             *)
LEMMA OutsideSame ==
  ASSUME TypeOK, NEW s, NEW P, NEW c \in Client, NEW from, NEW to, Moves(c, from, to),
         from \notin P, to \notin P, \A d \in Client \ {c} : call'[d] = call[d]
  PROVE  InSession(s, P)' = InSession(s, P)
BY DEF TypeOK, Moves, InSession

LEMMA SessionTypes ==
  ASSUME TypeOK, NEW s \in Session, NEW m \in Meter
  PROVE  /\ usage[s][m] \in Nat /\ budget[s][m] \in Nat /\ ran[s] \in Nat
         /\ MaxCost[m] \in Nat
         /\ usage \in [Session -> [Meter -> Nat]] /\ budget \in [Session -> [Meter -> Nat]]
BY ExecAssumption DEF TypeOK

LEMMA AdmittedStep ==
  ASSUME TypeOK, Admitted, [Next]_vars
  PROVE  Admitted'
<1> USE DEF sessionVars, sandboxVars, countVars
<1>1. ASSUME UNCHANGED <<live, used, ran, uncharged>>,
             \A s \in Session \ used : InSession(s, Executing)' \subseteq InSession(s, Executing)
      PROVE  Admitted'
  BY <1>1 DEF Admitted
<1>2. ASSUME UNCHANGED <<pc, call>>
      PROVE  \A s \in Session : InSession(s, Executing)' = InSession(s, Executing)
  BY <1>2 DEF InSession
<1>3. ASSUME NEW c \in Client, \/ Receive(c) \/ LookupHit(c) \/ LookupMiss(c) \/ CheckFail(c)
                              \/ Put(c) \/ Log(c)
      PROVE  Admitted'
  <2>1. UNCHANGED <<live, used, ran, uncharged>> /\ \A d \in Client \ {c} : call'[d] = call[d]
    BY <1>3 DEF Receive, LookupHit, LookupMiss, CheckFail, Put, Log, TypeOK
  <2>2. \E from, to : Moves(c, from, to) /\ from \notin Executing /\ to \notin Executing
    BY <1>3 DEF Receive, LookupHit, LookupMiss, CheckFail, Put, Log, Executing
  <2>. QED BY <1>1, <2>1, <2>2, OutsideSame
<1>4. ASSUME NEW c \in Client, CheckPass(c) PROVE Admitted'
  <2>1. UNCHANGED <<live, used, ran, uncharged, call>> /\ Moves(c, "check", "run")
    BY <1>4 DEF CheckPass
  <2>2. ASSUME NEW s \in Session \ used PROVE InSession(s, Executing)' \subseteq InSession(s, Executing)
    <3>1. call[c].session # s
      BY <1>4 DEF CheckPass, Admitted
    <3>. QED BY <2>1, <3>1, SessionMoves
  <2>. QED BY <1>1, <2>1, <2>2
<1>5. ASSUME NEW c \in Client, NEW from, NEW to, Moves(c, from, to), from \in Executing,
             UNCHANGED call
      PROVE  \A s \in Session : InSession(s, Executing)' \subseteq InSession(s, Executing)
  <2>1. ASSUME NEW s \in Session, call[c].session = s PROVE c \in InSession(s, Executing)
    BY <1>5, <2>1 DEF InSession, Moves
  <2>. QED BY <1>5, <2>1, SessionMoves
<1>6. ASSUME NEW c \in Client, RunOk(c) \/ HangUp(c) PROVE Admitted'
  <2>1. UNCHANGED <<live, used, call>>
    BY <1>6 DEF RunOk, HangUp
  <2>2. PICK from, to : from \in Executing /\ Moves(c, from, to)
    BY <1>6 DEF RunOk, HangUp, Moves, Executing
  <2>3. \A s \in Session : InSession(s, Executing)' \subseteq InSession(s, Executing)
    BY <1>5, <2>1, <2>2
  <2>4. c \in InSession(call[c].session, Executing)
    BY <2>2 DEF InSession, Moves
  <2>5. ASSUME NEW s \in Session \ used PROVE ran'[s] = 0 /\ uncharged'[s] = 0
    <3>1. s # call[c].session /\ ran[s] = 0 /\ uncharged[s] = 0
      BY <2>4 DEF Admitted
    <3>2. ran \in [Session -> Nat] /\ uncharged \in [Session -> Nat]
      BY DEF TypeOK
    <3>3. ran'[s] = ran[s] /\ uncharged'[s] = uncharged[s]
      BY <1>6, <3>1, <3>2, Bumped DEF RunOk, HangUp
    <3>. QED BY <3>1, <3>3
  <2>. QED BY <2>1, <2>3, <2>5 DEF Admitted
<1>7. ASSUME NEW c \in Client, RunErr(c) \/ Unavailable(c) \/ Charge(c) PROVE Admitted'
  <2>1. UNCHANGED <<live, used, ran, uncharged, call>>
    BY <1>7 DEF RunErr, Unavailable, Charge
  <2>2. \E from, to : Moves(c, from, to) /\ from \in Executing
    BY <1>7 DEF RunErr, Unavailable, Charge, Moves, Executing
  <2>. QED BY <1>1, <1>5, <2>1, <2>2
<1>8. ASSUME NEW s \in Session, CreateSession(s) PROVE Admitted'
  BY <1>2, <1>8 DEF CreateSession, Admitted
<1>9. ASSUME NEW s \in Session, DestroySession(s) PROVE Admitted'
  BY <1>2, <1>9 DEF DestroySession, Admitted
<1>10. CASE \/ \E k \in Key : Age(k)
            \/ \E x \in Sandbox : DestroySandbox(x) \/ DropHistory(x)
            \/ UNCHANGED vars
  BY <1>1, <1>2, <1>10 DEF Age, DestroySandbox, DropHistory, vars
<1>. QED BY <1>3, <1>4, <1>6, <1>7, <1>8, <1>9, <1>10 DEF Next, ExecStep

(* One session and one meter: no step uses up more headroom than there is.  *)
LEMMA HeadroomStep ==
  ASSUME TypeOK, TypeOK', Admitted, NEW s \in Session, NEW m \in Meter, Headroom(s, m), [Next]_vars
  PROVE  Headroom(s, m)'
<1> USE DEF sessionVars, sandboxVars, countVars
<1> DEFINE E == InSession(s, Executing)
           N == Cardinality(Client)
<1>1. /\ E \in SUBSET Client /\ Cardinality(E) \in Nat /\ Cardinality(E) <= N
      /\ E' \in SUBSET Client /\ Cardinality(E') \in Nat /\ Cardinality(E') <= N
      /\ N \in Nat /\ IsFiniteSet(E)
  BY CallersCounted DEF InSession
<1>2. /\ usage[s][m] \in Nat /\ budget[s][m] \in Nat /\ MaxCost[m] \in Nat
      /\ usage'[s][m] \in Nat /\ budget'[s][m] \in Nat
  BY SessionTypes, ExecAssumption DEF TypeOK
<1>3. ASSUME E' \subseteq E, UNCHANGED <<used, budget, usage>> PROVE Headroom(s, m)'
  <2>1. Cardinality(E') <= Cardinality(E)
    BY <1>1, <1>3, FS_Subset
  <2>2. Cardinality(E') * MaxCost[m] <= Cardinality(E) * MaxCost[m]
    BY <1>1, <1>2, <2>1, Products
  <2>3. /\ Cardinality(E') * MaxCost[m] \in Nat /\ Cardinality(E) * MaxCost[m] \in Nat
        /\ N * MaxCost[m] \in Nat
    BY <1>1, <1>2, Products
  <2>. QED BY <1>2, <1>3, <2>2, <2>3 DEF Headroom
<1>4. ASSUME usage'[s][m] < budget'[s][m] PROVE Headroom(s, m)'
  <2>1. /\ Cardinality(E') * MaxCost[m] <= N * MaxCost[m]
        /\ Cardinality(E') * MaxCost[m] \in Nat /\ N * MaxCost[m] \in Nat
    BY <1>1, <1>2, Products
  <2>. QED BY <1>2, <1>4, <2>1 DEF Headroom
<1>5. ASSUME UNCHANGED <<pc, call>> PROVE E' = E
  BY <1>5 DEF InSession
<1>6. ASSUME NEW c \in Client, \/ Receive(c) \/ LookupHit(c) \/ LookupMiss(c) \/ CheckFail(c)
                              \/ Put(c) \/ Log(c)
      PROVE  Headroom(s, m)'
  <2>1. UNCHANGED <<used, budget, usage>> /\ \A d \in Client \ {c} : call'[d] = call[d]
    BY <1>6 DEF Receive, LookupHit, LookupMiss, CheckFail, Put, Log, TypeOK
  <2>2. \E from, to : Moves(c, from, to) /\ from \notin Executing /\ to \notin Executing
    BY <1>6 DEF Receive, LookupHit, LookupMiss, CheckFail, Put, Log, Executing
  <2>3. E' = E
    BY <2>1, <2>2, OutsideSame
  <2>. QED BY <1>3, <2>1, <2>3
<1>7. ASSUME NEW c \in Client, CheckPass(c) PROVE Headroom(s, m)'
  <2>1. UNCHANGED <<used, budget, usage, call>> /\ Moves(c, "check", "run")
    BY <1>7 DEF CheckPass
  <2>2. CASE call[c].session = s
    <3>1. ~Exceeded(s)
      BY <1>7, <2>2 DEF CheckPass
    <3>2. budget[s][m] > 0 => usage[s][m] < budget[s][m]
      BY <1>2, <3>1 DEF Exceeded
    <3>3. CASE budget[s][m] > 0
      BY <1>4, <2>1, <3>2, <3>3
    <3>4. CASE ~(budget[s][m] > 0)
      BY <2>1, <3>4 DEF Headroom
    <3>. QED BY <3>3, <3>4
  <2>3. CASE call[c].session # s
    <3>1. E' \subseteq E
      BY <2>1, <2>3, SessionMoves
    <3>. QED BY <1>3, <2>1, <3>1
  <2>. QED BY <2>2, <2>3
<1>8. ASSUME NEW c \in Client, NEW from, NEW to, Moves(c, from, to), from \in Executing,
             UNCHANGED call
      PROVE  E' \subseteq E
  <2>1. call[c].session = s => c \in E
    BY <1>8 DEF InSession, Moves
  <2>. QED BY <1>8, <2>1, SessionMoves
<1>9. ASSUME NEW c \in Client, RunOk(c) \/ RunErr(c) \/ Unavailable(c) \/ HangUp(c) PROVE Headroom(s, m)'
  <2>1. UNCHANGED <<used, budget, usage, call>>
    BY <1>9 DEF RunOk, RunErr, Unavailable, HangUp
  <2>2. \E from, to : Moves(c, from, to) /\ from \in Executing
    BY <1>9 DEF RunOk, RunErr, Unavailable, HangUp, Moves, Executing
  <2>. QED BY <1>3, <1>8, <2>1, <2>2
<1>10. ASSUME NEW c \in Client, Charge(c) PROVE Headroom(s, m)'
  <2>1. UNCHANGED <<used, budget, call>> /\ Moves(c, "charge", "put")
    BY <1>10 DEF Charge
  <2>2. PICK u \in Cost :
          usage' = [t \in Session |->
                      IF t = call[c].session /\ t \in live
                      THEN Add(usage[t], u) ELSE usage[t]]
    BY <1>10 DEF Charge
  <2>3. u[m] \in Nat /\ u[m] <= MaxCost[m]
    BY ExecAssumption
  <2>4. CASE call[c].session = s
    <3>1. c \in E /\ E' = E \ {c}
      <4>1. c \in E
        BY <2>1, <2>4 DEF Executing, InSession, Moves
      <4>2. "put" \notin Executing
        BY DEF Executing
      <4>. QED BY <2>1, <4>1, <4>2, SessionMoves
    <3>2. Cardinality(E') = Cardinality(E) - 1
      BY <1>1, <3>1, OneLeaves
    <3>3. usage'[s][m] <= usage[s][m] + MaxCost[m]
      BY <1>2, <2>2, <2>3 DEF Add
    <3>4. Cardinality(E) = Cardinality(E') + 1
      BY <1>1, <3>2
    <3>5. Cardinality(E) * MaxCost[m] = Cardinality(E') * MaxCost[m] + MaxCost[m]
      <4> HIDE DEF E, N
      <4>. QED BY <1>1, <1>2, <3>4, OneLess
    <3>6. /\ Cardinality(E') * MaxCost[m] \in Nat /\ Cardinality(E) * MaxCost[m] \in Nat
          /\ N * MaxCost[m] \in Nat
      <4> HIDE DEF E, N
      <4>. QED BY <1>1, <1>2, NatProduct
    <3>7. s \in used /\ budget[s][m] > 0 =>
            usage[s][m] + Cardinality(E) * MaxCost[m] < budget[s][m] + N * MaxCost[m]
      BY DEF Headroom
    <3>8. s \in used /\ budget[s][m] > 0 =>
            usage'[s][m] + Cardinality(E') * MaxCost[m] < budget[s][m] + N * MaxCost[m]
      <4> HIDE DEF E, N
      <4>1. budget[s][m] + N * MaxCost[m] \in Nat
        BY <1>2, <3>6
      <4>. QED BY <1>2, <3>3, <3>5, <3>6, <3>7, <4>1, ShareSpent
    <3>. QED BY <2>1, <3>8 DEF Headroom
  <2>5. CASE call[c].session # s
    <3>1. E' \subseteq E /\ usage'[s] = usage[s]
      BY <2>1, <2>2, <2>5, SessionMoves
    <3>2. Cardinality(E') <= Cardinality(E)
      BY <1>1, <3>1, FS_Subset
    <3>3. /\ Cardinality(E') * MaxCost[m] <= Cardinality(E) * MaxCost[m]
          /\ Cardinality(E') * MaxCost[m] \in Nat /\ Cardinality(E) * MaxCost[m] \in Nat
          /\ N * MaxCost[m] \in Nat
      BY <1>1, <1>2, <3>2, Products
    <3>. QED BY <1>2, <2>1, <3>1, <3>3 DEF Headroom
  <2>. QED BY <2>4, <2>5
<1>11. ASSUME NEW t \in Session, CreateSession(t) PROVE Headroom(s, m)'
  <2>1. UNCHANGED <<pc, call>> /\ used' = used \cup {t}
    BY <1>11 DEF CreateSession
  <2>2. CASE s = t
    <3>1. usage'[s][m] = 0
      BY <1>11, <2>2 DEF CreateSession, TypeOK, NoUsage
    <3>2. CASE budget'[s][m] > 0
      BY <1>4, <3>1, <3>2
    <3>3. CASE ~(budget'[s][m] > 0)
      BY <3>3 DEF Headroom
    <3>. QED BY <3>2, <3>3
  <2>3. CASE s # t
    <3>1. usage'[s] = usage[s] /\ budget'[s] = budget[s]
      BY <1>11, <2>3 DEF CreateSession, TypeOK
    <3>. QED BY <1>5, <2>1, <2>3, <3>1 DEF Headroom
  <2>. QED BY <2>2, <2>3
<1>12. CASE \/ \E k \in Key : Age(k)
            \/ \E t \in Session : DestroySession(t)
            \/ \E x \in Sandbox : DestroySandbox(x) \/ DropHistory(x)
            \/ UNCHANGED vars
  <2>1. UNCHANGED <<pc, call, used, budget, usage>>
    BY <1>12 DEF Age, DestroySession, DestroySandbox, DropHistory, vars
  <2>. QED BY <1>3, <1>5, <2>1
<1>. QED BY <1>6, <1>7, <1>9, <1>10, <1>11, <1>12 DEF Next, ExecStep

(* Any number of calls at once pass each limit of their session by less     *)
(* than what that many commands can use.                                    *)
THEOREM OvershootBounded == Spec => []OvershootBound
<1> DEFINE Inv == Admitted /\ \A s \in Session, m \in Meter : Headroom(s, m)
<1>1. Init => Inv
  BY DEF Init, Admitted, Headroom, InSession, Executing
<1>2. TypeOK /\ TypeOK' /\ Inv /\ [Next]_vars => Inv'
  BY AdmittedStep, HeadroomStep, ExecAssumption
<1>3. TypeOK /\ Inv => OvershootBound
  <2> SUFFICES ASSUME TypeOK, Inv, NEW s \in Session, NEW m \in Meter,
                      s \in used, budget[s][m] > 0
               PROVE  usage[s][m] < budget[s][m] + Cardinality(Client) * MaxCost[m]
    BY DEF OvershootBound
  <2> DEFINE u == Cardinality(InSession(s, Executing))
  <2>1. u \in Nat /\ Cardinality(Client) \in Nat /\ u <= Cardinality(Client)
    BY CallersCounted DEF InSession
  <2>2. usage[s][m] \in Nat /\ budget[s][m] \in Nat /\ MaxCost[m] \in Nat
    BY SessionTypes
  <2>3. u * MaxCost[m] \in Nat /\ Cardinality(Client) * MaxCost[m] \in Nat
    BY <2>1, <2>2, Products
  <2>4. usage[s][m] + u * MaxCost[m] < budget[s][m] + Cardinality(Client) * MaxCost[m]
    BY DEF Headroom
  <2>. QED BY <2>2, <2>3, <2>4
<1>. QED
  <2> HIDE DEF Inv
  <2>. QED BY <1>1, <1>2, <1>3, TypeCorrect, PTL DEF Spec

(* A step keeps the account of a live session: each command that has run in *)
(* it is charged, about to be, or was given up by its client.               *)
LEMMA ChargedStep ==
  ASSUME TypeOK, TypeOK', Admitted, NEW s \in Session, Charged(s), [Next]_vars
  PROVE  Charged(s)'
<1> USE DEF sessionVars, sandboxVars, countVars
<1> DEFINE E == InSession(s, {"charge"})
<1>1. /\ E \in SUBSET Client /\ Cardinality(E) \in Nat
      /\ E' \in SUBSET Client /\ Cardinality(E') \in Nat
  BY CallersCounted DEF InSession
<1>2. /\ "execs" \in Meter /\ usage[s]["execs"] \in Nat /\ usage'[s]["execs"] \in Nat
      /\ ran[s] \in Nat /\ ran'[s] \in Nat
      /\ uncharged[s] \in Nat /\ uncharged'[s] \in Nat
      /\ ran \in [Session -> Nat] /\ uncharged \in [Session -> Nat]
  BY ExecAssumption DEF TypeOK
<1>3. ASSUME E' = E, live' \subseteq live, UNCHANGED <<usage, ran, uncharged>> PROVE Charged(s)'
  BY <1>3 DEF Charged
<1>4. ASSUME UNCHANGED <<pc, call>> PROVE E' = E
  BY <1>4 DEF InSession
<1>5. ASSUME NEW c \in Client, \/ Receive(c) \/ LookupHit(c) \/ LookupMiss(c) \/ CheckFail(c)
                              \/ CheckPass(c) \/ RunErr(c) \/ Unavailable(c) \/ Put(c) \/ Log(c)
      PROVE  Charged(s)'
  <2>1. UNCHANGED <<live, usage, ran, uncharged>> /\ \A d \in Client \ {c} : call'[d] = call[d]
    BY <1>5 DEF Receive, LookupHit, LookupMiss, CheckFail, CheckPass, RunErr, Unavailable, Put, Log, TypeOK
  <2>2. \E from, to : Moves(c, from, to) /\ from \notin {"charge"} /\ to \notin {"charge"}
    BY <1>5 DEF Receive, LookupHit, LookupMiss, CheckFail, CheckPass, RunErr, Unavailable, Put, Log
  <2>3. E' = E
    BY <2>1, <2>2, OutsideSame
  <2>. QED BY <1>3, <2>1, <2>3
<1>6. ASSUME NEW c \in Client, RunOk(c) PROVE Charged(s)'
  <2>1. UNCHANGED <<live, usage, uncharged, call>> /\ Moves(c, "run", "charge")
    BY <1>6 DEF RunOk
  <2>2. ran'[s] = IF s = call[c].session THEN ran[s] + 1 ELSE ran[s]
    BY <1>2, <1>6, Bumped DEF RunOk
  <2>3. c \notin E
    BY <2>1 DEF InSession, Moves
  <2>4. CASE call[c].session = s
    <3>1. E' = E \cup {c}
      BY <2>1, <2>4, SessionMoves
    <3>2. Cardinality(E') = Cardinality(E) + 1
      BY <1>1, <2>3, <3>1, OneJoins
    <3>3. ran'[s] = ran[s] + 1
      BY <2>2, <2>4
    <3>4. s \in live => ran[s] = usage[s]["execs"] + uncharged[s] + Cardinality(E)
      BY DEF Charged
    <3>5. s \in live => ran'[s] = usage[s]["execs"] + uncharged[s] + Cardinality(E')
      <4> HIDE DEF E
      <4>. QED BY <1>1, <1>2, <3>2, <3>3, <3>4
    <3>. QED BY <2>1, <3>5 DEF Charged
  <2>5. CASE call[c].session # s
    <3>1. E' = E
      <4>1. E' = E \ {c}
        BY <2>1, <2>5, SessionMoves
      <4> HIDE DEF E
      <4>. QED BY <2>3, <4>1
    <3>2. ran'[s] = ran[s]
      BY <2>2, <2>5
    <3>. QED BY <2>1, <3>1, <3>2 DEF Charged
  <2>. QED BY <2>4, <2>5
<1>7. ASSUME NEW c \in Client, Charge(c) PROVE Charged(s)'
  <2>1. UNCHANGED <<live, ran, uncharged, call>> /\ Moves(c, "charge", "put")
    BY <1>7 DEF Charge
  <2>2. PICK u \in Cost :
          usage' = [t \in Session |->
                      IF t = call[c].session /\ t \in live
                      THEN Add(usage[t], u) ELSE usage[t]]
    BY <1>7 DEF Charge
  <2>3. u["execs"] = 1
    BY ExecAssumption
  <2>4. CASE call[c].session = s /\ s \in live
    <3>1. c \in E
      BY <2>1, <2>4 DEF InSession, Moves
    <3>2. E' = E \ {c}
      BY <2>1, SessionMoves
    <3>3. Cardinality(E') = Cardinality(E) - 1
      BY <1>1, <3>1, <3>2, OneLeaves
    <3>4. usage'[s]["execs"] = usage[s]["execs"] + 1
      BY <1>2, <2>2, <2>3, <2>4 DEF Add
    <3>. QED BY <1>1, <1>2, <2>1, <3>3, <3>4 DEF Charged
  <2>5. CASE call[c].session # s /\ s \in live
    <3>1. c \notin E
      BY <2>5 DEF InSession
    <3>2. E' = E
      <4>1. E' = E \ {c}
        BY <2>1, SessionMoves
      <4> HIDE DEF E
      <4>. QED BY <3>1, <4>1
    <3>3. usage'[s] = usage[s]
      BY <2>2, <2>5
    <3>. QED BY <2>1, <3>2, <3>3 DEF Charged
  <2>6. CASE s \notin live
    BY <2>1, <2>6 DEF Charged
  <2>. QED BY <2>4, <2>5, <2>6
<1>8. ASSUME NEW c \in Client, HangUp(c) PROVE Charged(s)'
  <2>1. UNCHANGED <<live, usage, call>> /\ Moves(c, pc[c], "idle") /\ pc[c] \in Executing
    BY <1>8 DEF HangUp, Moves, Executing
  <2>2. E' = E \ {c}
    BY <2>1, SessionMoves
  <2>3. CASE call[c].session # s
    <3>1. c \notin E
      BY <2>3 DEF InSession
    <3>2. E' = E
      <4> HIDE DEF E
      <4>. QED BY <2>2, <3>1
    <3>3. ran'[s] = ran[s] /\ uncharged'[s] = uncharged[s]
      BY <1>2, <1>8, <2>3, Bumped DEF HangUp
    <3>. QED BY <2>1, <3>2, <3>3 DEF Charged
  <2>4. CASE call[c].session = s /\ pc[c] = "run"
    <3>1. c \notin E
      BY <2>4 DEF InSession
    <3>2. E' = E
      <4> HIDE DEF E
      <4>. QED BY <2>2, <3>1
    <3>3. ran'[s] = ran[s] + 1 /\ uncharged'[s] = uncharged[s] + 1
      BY <1>2, <1>8, <2>4, Bumped DEF HangUp
    <3>4. s \in live => ran[s] = usage[s]["execs"] + uncharged[s] + Cardinality(E)
      BY DEF Charged
    <3>5. s \in live => ran'[s] = usage[s]["execs"] + uncharged'[s] + Cardinality(E)
      <4> HIDE DEF E
      <4>. QED BY <1>1, <1>2, <3>3, <3>4
    <3>. QED BY <2>1, <3>2, <3>5 DEF Charged
  <2>5. CASE call[c].session = s /\ pc[c] = "charge"
    <3>1. c \in E
      BY <2>5 DEF InSession
    <3>2. Cardinality(E') = Cardinality(E) - 1
      BY <1>1, <2>2, <3>1, OneLeaves
    <3>3. ran'[s] = ran[s] /\ uncharged'[s] = uncharged[s] + 1
      BY <1>2, <1>8, <2>5, Bumped DEF HangUp
    <3>4. s \in live => ran[s] = usage[s]["execs"] + uncharged[s] + Cardinality(E)
      BY DEF Charged
    <3>5. s \in live => ran'[s] = usage[s]["execs"] + uncharged'[s] + Cardinality(E')
      <4> HIDE DEF E
      <4>. QED BY <1>1, <1>2, <3>2, <3>3, <3>4
    <3>. QED BY <2>1, <3>5 DEF Charged
  <2>. QED BY <2>1, <2>3, <2>4, <2>5 DEF Executing
<1>9. ASSUME NEW t \in Session, CreateSession(t) PROVE Charged(s)'
  <2>1. UNCHANGED <<pc, call, ran, uncharged>> /\ live' = live \cup {t} /\ t \notin used
    BY <1>9 DEF CreateSession
  <2>2. CASE s = t
    <3>1. ran[s] = 0 /\ uncharged[s] = 0 /\ InSession(s, Executing) = {}
      BY <2>1, <2>2 DEF Admitted
    <3>2. E' = {}
      BY <1>4, <2>1, <3>1 DEF InSession, Executing
    <3>3. usage'[s]["execs"] = 0
      BY <1>2, <1>9, <2>2 DEF CreateSession, TypeOK, NoUsage
    <3>4. Cardinality(E') = 0
      BY <3>2, FS_EmptySet
    <3>. QED BY <2>1, <3>1, <3>3, <3>4 DEF Charged
  <2>3. CASE s # t
    <3>1. usage'[s] = usage[s]
      BY <1>9, <2>3 DEF CreateSession, TypeOK
    <3>. QED BY <1>4, <2>1, <2>3, <3>1 DEF Charged
  <2>. QED BY <2>2, <2>3
<1>10. CASE \/ \E k \in Key : Age(k)
            \/ \E t \in Session : DestroySession(t)
            \/ \E x \in Sandbox : DestroySandbox(x) \/ DropHistory(x)
            \/ UNCHANGED vars
  <2>1. UNCHANGED <<pc, call, usage, ran, uncharged>> /\ live' \subseteq live
    BY <1>10 DEF Age, DestroySession, DestroySandbox, DropHistory, vars
  <2>. QED BY <1>3, <1>4, <2>1
<1>. QED BY <1>5, <1>6, <1>7, <1>8, <1>9, <1>10 DEF Next, ExecStep

(* However many calls share a live session, no command that ran in it is    *)
(* charged twice, and none is free but those whose clients hung up.         *)
THEOREM ChargedOnce == Spec => []AllCharged
<1> DEFINE Inv == Admitted /\ \A s \in Session : Charged(s)
<1>1. Init => Inv
  BY DEF Init, Admitted, Charged, InSession, Executing
<1>2. TypeOK /\ TypeOK' /\ Inv /\ [Next]_vars => Inv'
  BY AdmittedStep, ChargedStep
<1>3. TypeOK /\ Inv => AllCharged
  <2> SUFFICES ASSUME TypeOK, Inv, NEW s \in live
               PROVE  ran[s] = usage[s]["execs"] + uncharged[s]
                        + Cardinality({c \in Client : pc[c] = "charge" /\ call[c].session = s})
    BY DEF AllCharged
  <2>1. s \in Session
    BY DEF TypeOK
  <2>2. InSession(s, {"charge"}) = {c \in Client : pc[c] = "charge" /\ call[c].session = s}
    BY DEF InSession
  <2>. QED BY <2>1, <2>2 DEF Charged
<1>. QED
  <2> HIDE DEF Inv
  <2>. QED BY <1>1, <1>2, <1>3, TypeCorrect, PTL DEF Spec

-----------------------------------------------------------------------------
(* Idempotency keys.                                                        *)

(* The calls of k that have missed the cache and may still run, and those   *)
(* that have run and not yet filled it.                                     *)
Before(k) == OfKey(k, {"check", "run"})
Finishing(k) == OfKey(k, {"charge", "put"})

(* What the TTLs that have passed and the clients that hung up account for. *)
Past(k) == ages[k] * Cardinality(Client) + unkept[k]

(* As long as the cache has no entry for k, every further execution belongs *)
(* to a call that is about to fill it; once it has one no call joins        *)
(* Before(k), and only those already there can execute. An entry that       *)
(* reaches the TTL hands its callers over to the past.                      *)
OnePerCaller(k) ==
  /\ cache[k] = "absent" => okRuns[k] <= Past(k) + Cardinality(Finishing(k))
  /\ cache[k] = "stale" => okRuns[k] + Cardinality(Before(k)) <= Past(k)
  /\ cache[k] = "fresh" => okRuns[k] + Cardinality(Before(k)) <= Past(k) + Cardinality(Client)

LEMMA PastCounted ==
  ASSUME TypeOK, NEW k \in Key
  PROVE  /\ Past(k) \in Nat
         /\ Cardinality(Client) * (ages[k] + 1) + unkept[k] = Past(k) + Cardinality(Client)
<1>1. ages[k] \in Nat /\ unkept[k] \in Nat
  BY DEF TypeOK
<1>2. Cardinality(Client) \in Nat
  BY ExecAssumption, FS_CardinalityType
<1>3. ages[k] * Cardinality(Client) \in Nat
  BY <1>1, <1>2, NatProduct
<1>4. Cardinality(Client) * (ages[k] + 1) = ages[k] * Cardinality(Client) + Cardinality(Client)
  BY <1>1, <1>2
<1>. QED BY <1>1, <1>2, <1>3, <1>4 DEF Past

LEMMA KeyOutside ==
  ASSUME TypeOK, NEW k, NEW P, NEW c \in Client, NEW from, NEW to, Moves(c, from, to),
         from \notin P, to \notin P, \A d \in Client \ {c} : call'[d] = call[d]
  PROVE  OfKey(k, P)' = OfKey(k, P)
BY DEF TypeOK, Moves, OfKey

LEMMA KeyWithin ==
  ASSUME TypeOK, NEW k, NEW P, NEW c \in Client, NEW from, NEW to, Moves(c, from, to),
         from \in P, to \in P, UNCHANGED call
  PROVE  OfKey(k, P)' = OfKey(k, P)
BY DEF TypeOK, Moves, OfKey

LEMMA OnePerCallerStep ==
  ASSUME TypeOK, TypeOK', NEW k \in Key, OnePerCaller(k), [Next]_vars
  PROVE  OnePerCaller(k)'
<1> USE DEF sessionVars, sandboxVars, countVars
<1> DEFINE B == Before(k)
           F == Finishing(k)
           N == Cardinality(Client)
           A == Past(k)
<1>1. /\ B \in SUBSET Client /\ Cardinality(B) \in Nat /\ IsFiniteSet(B)
      /\ F \in SUBSET Client /\ Cardinality(F) \in Nat /\ IsFiniteSet(F)
      /\ B' \in SUBSET Client /\ Cardinality(B') \in Nat /\ N \in Nat
      /\ F' \in SUBSET Client /\ Cardinality(F') \in Nat
  BY CallersCounted DEF Before, Finishing, OfKey
<1>2. /\ okRuns[k] \in Nat /\ okRuns'[k] \in Nat /\ cache[k] \in {"absent", "fresh", "stale"}
      /\ okRuns \in [Key -> Nat] /\ unkept \in [Key -> Nat]
  BY DEF TypeOK
<1>2a. A \in Nat /\ A' \in Nat
  <2>1. /\ ages[k] \in Nat /\ unkept[k] \in Nat /\ ages'[k] \in Nat /\ unkept'[k] \in Nat
        /\ N \in Nat
    BY <1>1 DEF TypeOK
  <2>2. ages[k] * N \in Nat /\ ages'[k] * N \in Nat
    <3> HIDE DEF N
    <3>. QED BY <2>1, NatProduct
  <2>. QED BY <2>1, <2>2 DEF Past
<1>2b. ASSUME UNCHANGED <<unkept, ages>> PROVE A' = A
  BY <1>2b DEF Past
<1>3. ASSUME B' \subseteq B, F' = F, cache'[k] = cache[k], okRuns'[k] = okRuns[k], A' = A
      PROVE  OnePerCaller(k)'
  <2>1. Cardinality(B') <= Cardinality(B)
    BY <1>1, <1>3, FS_Subset
  <2>. QED BY <1>1, <1>2, <1>2a, <1>3, <2>1 DEF OnePerCaller
<1>4. ASSUME UNCHANGED <<pc, call>> PROVE B' = B /\ F' = F
  BY <1>4 DEF Before, Finishing, OfKey
<1>5. ASSUME NEW c \in Client, Receive(c) \/ LookupHit(c) \/ Log(c) PROVE OnePerCaller(k)'
  <2>1. UNCHANGED <<cache, okRuns, unkept, ages>> /\ \A d \in Client \ {c} : call'[d] = call[d]
    BY <1>5 DEF Receive, LookupHit, Log, TypeOK
  <2>2. PICK from, to : /\ Moves(c, from, to)
                        /\ from \notin {"check", "run", "charge", "put"}
                        /\ to \notin {"check", "run", "charge", "put"}
    BY <1>5 DEF Receive, LookupHit, Log
  <2>3. B' = B /\ F' = F
    BY <2>1, <2>2, KeyOutside DEF Before, Finishing
  <2>. QED BY <1>2b, <1>3, <2>1, <2>3
<1>6. ASSUME NEW c \in Client, LookupMiss(c) PROVE OnePerCaller(k)'
  <2>1. /\ UNCHANGED <<okRuns, unkept, ages, call>> /\ Moves(c, "lookup", "check")
        /\ cache' = [j \in Key |-> IF j = call[c].key THEN "absent" ELSE cache[j]]
        /\ call[c].key \in Key => cache[call[c].key] # "fresh"
    BY <1>6 DEF LookupMiss
  <2>2. F' = F
    BY <2>1, KeyOutside DEF Finishing
  <2>3. CASE call[c].key = k
    <3>1. cache[k] \in {"absent", "stale"} /\ cache'[k] = "absent"
      BY <1>2, <2>1, <2>3
    <3>2. okRuns[k] <= A + Cardinality(F)
      BY <1>1, <1>2, <1>2a, <3>1 DEF OnePerCaller
    <3>. QED BY <1>2b, <2>1, <2>2, <3>1, <3>2 DEF OnePerCaller
  <2>4. CASE call[c].key # k
    <3>1. B' \subseteq B
      BY <2>1, <2>4, KeyMoves DEF Before
    <3>2. cache'[k] = cache[k]
      BY <2>1, <2>4
    <3>. QED BY <1>2b, <1>3, <2>1, <2>2, <3>1, <3>2
  <2>. QED BY <2>3, <2>4
<1>7. ASSUME NEW c \in Client, CheckPass(c) PROVE OnePerCaller(k)'
  <2>1. UNCHANGED <<cache, okRuns, unkept, ages, call>> /\ Moves(c, "check", "run")
    BY <1>7 DEF CheckPass
  <2>2. B' = B
    BY <2>1, KeyWithin DEF Before
  <2>3. F' = F
    BY <2>1, KeyOutside DEF Finishing
  <2>. QED BY <1>2b, <1>3, <2>1, <2>2, <2>3
<1>8. ASSUME NEW c \in Client, CheckFail(c) \/ RunErr(c) \/ Unavailable(c) PROVE OnePerCaller(k)'
  <2>1. UNCHANGED <<cache, okRuns, unkept, ages, call>>
    BY <1>8 DEF CheckFail, RunErr, Unavailable
  <2>2. PICK from \in {"check", "run"} : Moves(c, from, "idle")
    BY <1>8 DEF CheckFail, RunErr, Unavailable
  <2>3. B' \subseteq B
    BY <2>1, <2>2, KeyMoves DEF Before
  <2>4. F' = F
    BY <2>1, <2>2, KeyOutside DEF Finishing
  <2>. QED BY <1>2b, <1>3, <2>1, <2>3, <2>4
<1>9. ASSUME NEW c \in Client, RunOk(c) PROVE OnePerCaller(k)'
  <2>1. /\ UNCHANGED <<cache, unkept, ages, call>> /\ Moves(c, "run", "charge")
        /\ okRuns'[k] = IF k = call[c].key THEN okRuns[k] + 1 ELSE okRuns[k]
    BY <1>2, <1>9, Bumped DEF RunOk
  <2>2. CASE call[c].key = k
    <3>1. c \in B /\ c \notin F
      BY <2>1, <2>2 DEF Before, Finishing, OfKey, Moves
    <3>2. B' = B \ {c}
      BY <2>1, KeyMoves DEF Before
    <3>3. F' = F \cup {c}
      BY <2>1, <2>2, KeyMoves DEF Finishing
    <3>4. Cardinality(B') = Cardinality(B) - 1 /\ Cardinality(F') = Cardinality(F) + 1
      BY <1>1, <3>1, <3>2, <3>3, OneJoins, OneLeaves
    <3>5. okRuns'[k] = okRuns[k] + 1
      BY <2>1, <2>2
    <3>. QED BY <1>1, <1>2, <1>2a, <1>2b, <2>1, <3>4, <3>5 DEF OnePerCaller
  <2>3. CASE call[c].key # k
    <3>1. c \notin F
      BY <2>3 DEF Finishing, OfKey
    <3>2. B' \subseteq B /\ F' = F
      <4>1. B' = B \ {c} /\ F' = F \ {c}
        BY <2>1, <2>3, KeyMoves DEF Before, Finishing
      <4> HIDE DEF B, F
      <4>. QED BY <3>1, <4>1
    <3>3. okRuns'[k] = okRuns[k]
      BY <2>1, <2>3
    <3>. QED BY <1>2b, <1>3, <2>1, <3>2, <3>3
  <2>. QED BY <2>2, <2>3
<1>10. ASSUME NEW c \in Client, Charge(c) PROVE OnePerCaller(k)'
  <2>1. UNCHANGED <<cache, okRuns, unkept, ages, call>> /\ Moves(c, "charge", "put")
    BY <1>10 DEF Charge
  <2>2. F' = F
    BY <2>1, KeyWithin DEF Finishing
  <2>3. B' = B
    BY <2>1, KeyOutside DEF Before
  <2>. QED BY <1>2b, <1>3, <2>1, <2>2, <2>3
<1>11. ASSUME NEW c \in Client, Put(c) PROVE OnePerCaller(k)'
  <2>1. UNCHANGED <<okRuns, unkept, ages, call>> /\ Moves(c, "put", "log")
    BY <1>11 DEF Put
  <2>2. B' = B
    BY <2>1, KeyOutside DEF Before
  <2>3. CASE call[c].key = k
    <3>1. cache'[k] = "fresh"
      BY <1>11, <2>3 DEF Put
    <3>2. okRuns[k] + Cardinality(B) <= A + N
      <4>1. CASE cache[k] = "absent"
        <5>1. B \cap F = {} /\ B \cup F \in SUBSET Client
          BY <1>1 DEF Before, Finishing, OfKey
        <5>2. Cardinality(B \cup F) <= N
          BY <5>1, CallersCounted
        <5>3. Cardinality(B \cup F) = Cardinality(B) + Cardinality(F)
          <6>1. Cardinality(B \cap F) = 0
            BY <5>1, FS_EmptySet
          <6>2. Cardinality(B \cup F) = Cardinality(B) + Cardinality(F) - Cardinality(B \cap F)
            BY <1>1, FS_Union
          <6>. QED BY <1>1, <6>1, <6>2
        <5>. QED BY <1>1, <1>2, <1>2a, <4>1, <5>2, <5>3 DEF OnePerCaller
      <4>2. CASE cache[k] = "stale"
        BY <1>1, <1>2, <1>2a, <4>2 DEF OnePerCaller
      <4>. QED BY <1>2, <4>1, <4>2 DEF OnePerCaller
    <3>. QED BY <1>2b, <2>1, <2>2, <3>1, <3>2 DEF OnePerCaller
  <2>4. CASE call[c].key # k
    <3>1. c \notin F
      BY <2>4 DEF Finishing, OfKey
    <3>2. F' = F \ {c}
      BY <2>1, KeyMoves DEF Finishing
    <3>3. cache'[k] = cache[k] \/ (cache[k] = "stale" /\ cache'[k] = "absent")
      <4>1. cache' = [j \in Key |->
                        IF j = call[c].key THEN "fresh"
                        ELSE IF call[c].key \in Key /\ Cardinality(Entries) >= MaxEntries
                                /\ cache[j] = "stale" THEN "absent"
                        ELSE cache[j]]
        BY <1>11 DEF Put
      <4>. QED BY <2>4, <4>1
    <3>4. F' = F
      BY <3>1, <3>2
    <3>5. CASE cache'[k] = cache[k]
      BY <1>2b, <1>3, <2>1, <2>2, <3>4, <3>5
    <3>6. CASE cache[k] = "stale" /\ cache'[k] = "absent"
      <4>1. okRuns[k] <= A + Cardinality(F)
        BY <1>1, <1>2, <1>2a, <3>6 DEF OnePerCaller
      <4>. QED BY <1>2b, <2>1, <3>4, <3>6, <4>1 DEF OnePerCaller
    <3>. QED BY <3>3, <3>5, <3>6
  <2>. QED BY <2>3, <2>4
<1>12. ASSUME NEW c \in Client, HangUp(c) PROVE OnePerCaller(k)'
  <2>1. /\ UNCHANGED <<cache, ages, call>> /\ Moves(c, pc[c], "idle")
        /\ pc[c] \in {"run", "charge"}
    BY <1>12 DEF HangUp, Moves
  <2>2. B' = B \ {c} /\ F' = F \ {c}
    BY <2>1, KeyMoves DEF Before, Finishing
  <2>3. CASE call[c].key # k
    <3>1. c \notin F /\ c \notin B
      BY <2>3 DEF Before, Finishing, OfKey
    <3>2. okRuns'[k] = okRuns[k] /\ unkept'[k] = unkept[k]
      BY <1>2, <1>12, <2>3, Bumped DEF HangUp
    <3>3. B' = B /\ F' = F
      BY <2>2, <3>1
    <3>4. A' = A
      BY <2>1, <3>2 DEF Past
    <3>. QED BY <1>3, <2>1, <3>2, <3>3, <3>4
  <2>4. CASE call[c].key = k
    <3>1. unkept'[k] = unkept[k] + 1
      BY <1>2, <1>12, <2>4, Bumped DEF HangUp
    <3>2. A' = A + 1
      <4>1. ages[k] * N \in Nat /\ unkept[k] \in Nat
        BY <1>1, NatProduct DEF TypeOK
      <4>. QED BY <2>1, <3>1, <4>1 DEF Past
    <3>3. CASE pc[c] = "run"
      <4>1. c \in B /\ c \notin F
        BY <2>4, <3>3 DEF Before, Finishing, OfKey
      <4>2. F' = F /\ Cardinality(B') = Cardinality(B) - 1
        BY <1>1, <2>2, <4>1, OneLeaves
      <4>3. okRuns'[k] = okRuns[k] + 1
        BY <1>2, <1>12, <2>4, <3>3, Bumped DEF HangUp
      <4>. QED BY <1>1, <1>2, <1>2a, <2>1, <3>2, <4>2, <4>3 DEF OnePerCaller
    <3>4. CASE pc[c] = "charge"
      <4>1. c \in F /\ c \notin B
        BY <2>4, <3>4 DEF Before, Finishing, OfKey
      <4>2. B' = B /\ Cardinality(F') = Cardinality(F) - 1
        BY <1>1, <2>2, <4>1, OneLeaves
      <4>3. okRuns'[k] = okRuns[k]
        BY <1>2, <1>12, <3>4 DEF HangUp
      <4>. QED BY <1>1, <1>2, <1>2a, <2>1, <3>2, <4>2, <4>3 DEF OnePerCaller
    <3>. QED BY <2>1, <3>3, <3>4
  <2>. QED BY <2>3, <2>4
<1>12a. ASSUME NEW j \in Key, Age(j) PROVE OnePerCaller(k)'
  <2>1. /\ UNCHANGED <<pc, call, okRuns, unkept>> /\ cache[j] = "fresh"
        /\ cache' = [cache EXCEPT ![j] = "stale"] /\ ages' = [ages EXCEPT ![j] = @ + 1]
    BY <1>12a DEF Age
  <2>2. cache \in [Key -> {"absent", "fresh", "stale"}] /\ ages \in [Key -> Nat]
    BY DEF TypeOK
  <2>3. CASE j # k
    <3>1. cache'[k] = cache[k] /\ ages'[k] = ages[k]
      BY <2>1, <2>2, <2>3
    <3>. QED BY <1>3, <1>4, <2>1, <3>1 DEF Past
  <2>4. CASE j = k
    <3>1. cache'[k] = "stale" /\ ages'[k] = ages[k] + 1
      BY <2>1, <2>2, <2>4
    <3>2. ages'[k] * N = ages[k] * N + N
      <4> HIDE DEF N
      <4>. QED BY <1>1, <2>2, <3>1, OneLess
    <3>3. A' = A + N
      <4>1. ages[k] * N \in Nat /\ unkept[k] \in Nat
        BY <1>1, <2>2, NatProduct DEF TypeOK
      <4>. QED BY <1>1, <2>1, <3>2, <4>1 DEF Past
    <3>4. okRuns[k] + Cardinality(B) <= A + N
      BY <2>1, <2>4 DEF OnePerCaller
    <3>. QED BY <1>4, <2>1, <3>1, <3>3, <3>4 DEF OnePerCaller
  <2>. QED BY <2>3, <2>4
<1>13. CASE \/ \E t \in Session : CreateSession(t) \/ DestroySession(t)
            \/ \E x \in Sandbox : DestroySandbox(x) \/ DropHistory(x)
            \/ UNCHANGED vars
  <2>1. UNCHANGED <<pc, call, cache, okRuns, unkept, ages>>
    BY <1>13 DEF CreateSession, DestroySession, DestroySandbox, DropHistory, vars
  <2>. QED BY <1>2b, <1>3, <1>4, <2>1
<1>. QED
  BY <1>5, <1>6, <1>7, <1>8, <1>9, <1>10, <1>11, <1>12, <1>12a, <1>13 DEF Next, ExecStep

(* For each TTL that passes a key is executed at most once per concurrent   *)
(* caller, and once more for each client that hangs up, whatever fails or   *)
(* is evicted: the cache bounds repetition although nothing marks a key as  *)
(* being executed.                                                          *)
THEOREM KeyRunsBounded == Spec => []KeyRunsBound
<1> DEFINE Inv == \A k \in Key : OnePerCaller(k)
<1>1. TypeOK /\ Init => Inv
  <2> SUFFICES ASSUME TypeOK, Init, NEW k \in Key PROVE OnePerCaller(k)
    OBVIOUS
  <2>1. Past(k) \in Nat /\ Cardinality(Finishing(k)) \in Nat
    BY PastCounted, CallersCounted DEF Finishing, OfKey
  <2>. QED BY <2>1 DEF Init, OnePerCaller
<1>2. TypeOK /\ TypeOK' /\ Inv /\ [Next]_vars => Inv'
  BY OnePerCallerStep
<1>3. TypeOK /\ Inv => KeyRunsBound
  <2> SUFFICES ASSUME TypeOK, Inv, NEW k \in Key
               PROVE  okRuns[k] <= Cardinality(Client) * (ages[k] + 1) + unkept[k]
    BY DEF KeyRunsBound
  <2>1. /\ Cardinality(Before(k)) \in Nat /\ Cardinality(Finishing(k)) \in Nat
        /\ Cardinality(Client) \in Nat /\ Cardinality(Finishing(k)) <= Cardinality(Client)
    BY CallersCounted DEF Before, Finishing, OfKey
  <2>2. okRuns[k] \in Nat /\ cache[k] \in {"absent", "fresh", "stale"}
    BY DEF TypeOK
  <2>3. /\ Past(k) \in Nat
        /\ Cardinality(Client) * (ages[k] + 1) + unkept[k] = Past(k) + Cardinality(Client)
    BY PastCounted
  <2>. QED BY <2>1, <2>2, <2>3 DEF OnePerCaller
<1>. QED
  <2> HIDE DEF Inv
  <2>. QED BY <1>1, <1>2, <1>3, TypeCorrect, PTL DEF Spec
=============================================================================
