-------------------------- MODULE ProvidersProofs --------------------------
(***************************************************************************)
(* What roched shows of its providers, for any number of sandboxes, calls   *)
(* and failures. Each provider has an inductive invariant of its own, kept  *)
(* by its own steps; the daemon serves through one of them at a time, so    *)
(* the composition adds a case split.                                       *)
(***************************************************************************)
EXTENDS Providers, TLAPS

(* Kubernetes. A create that polls has made its policy unless the Pod is    *)
(* being deleted; who deletes a policy has marked the Pod before; a Pod     *)
(* marked under a create that has yet to make its policy is in cut.         *)
PollsIsolated ==
  \A c \in Call : pc[c] = "poll" /\ box[c] \notin Networked \cup dying => box[c] \in netpol

MarksFirst == \A c \in Call : pc[c] = "delpolicy" => box[c] \in dying

AnsweredIsolated == \A b \in Box : given[b] > 0 /\ b \notin Networked \cup dying => b \in netpol

MarkedUnderCreate ==
  \A c \in Call : pc[c] = "policy" /\ box[c] \in dying => box[c] \in lost \cup cut

MarkedReleased ==
  \A b \in netpol \cap dying :
    b \in lost \cup cut \/ \E c \in Call : box[c] = b /\ pc[c] = "delpolicy"

(* The create of a sandbox is alone with it, and answers it once.           *)
CreatesOnce ==
  /\ \A c \in Call : pc[c] \in {"policy", "poll"} => pod[box[c]] # "none" /\ given[box[c]] = 0
  /\ \A c, d \in Call :
       pc[c] \in {"policy", "poll"} /\ pc[d] \in {"policy", "poll"} /\ box[c] = box[d] => c = d
  /\ \A b \in Box : pod[b] = "none" => given[b] = 0

MarkedMade == \A b \in dying : pod[b] # "none"
GoneMarked == \A b \in Box : pod[b] = "gone" => b \in dying

K8sInv ==
  /\ K8sTypeOK /\ PollsIsolated /\ MarksFirst /\ AnsweredIsolated
  /\ MarkedUnderCreate /\ MarkedReleased /\ MarkedMade /\ GoneMarked /\ CreatesOnce
  /\ ghosts = {}

LEMMA K8sInitially == CallsInit /\ K8sInit => K8sInv
  BY CallsAssumption DEF CallsInit, K8sInit, K8sInv, K8sTypeOK, CallsOK, PollsIsolated,
     MarksFirst, AnsweredIsolated, MarkedUnderCreate, MarkedReleased, MarkedMade, GoneMarked,
     CreatesOnce

LEMMA K8sTypes == K8sTypeOK /\ [K8sNext]_k8sVars => K8sTypeOK'
<1> SUFFICES ASSUME K8sTypeOK, [K8sNext]_k8sVars PROVE K8sTypeOK'
  OBVIOUS
<1> USE CallsAssumption DEF K8sTypeOK, CallsOK, k8sOwn, callVars, toldVars, sharedVars
<1>1. ASSUME NEW c \in Client, NEW b \in Box, K8sCreate(c, b) PROVE K8sTypeOK'
  BY <1>1 DEF K8sCreate, Enter, Call
<1>2. ASSUME NEW c \in Client, NEW b \in Box, K8sTakeUp(c, b) PROVE K8sTypeOK'
  BY <1>2 DEF K8sTakeUp, TakeUp, Call
<1>3. ASSUME NEW c \in Client, NEW S \in SUBSET Box, K8sDestroy(c, S) PROVE K8sTypeOK'
  BY <1>3 DEF K8sDestroy, Sweep, Call
<1>4. ASSUME NEW c \in Client, K8sPolicy(c) PROVE K8sTypeOK'
  BY <1>4 DEF K8sPolicy, Goto, Call
<1>15. ASSUME NEW c \in Client, K8sGivesUp(c) PROVE K8sTypeOK'
  <2>1. faults' \in 0 .. MaxFaults
    BY <1>15 DEF K8sGivesUp, Fault
  <2> QED BY <1>15, <2>1 DEF K8sGivesUp, Goto, Call
<1>5. ASSUME NEW c \in Client, K8sPolicyFails(c) PROVE K8sTypeOK'
  BY <1>5 DEF K8sPolicyFails, Fault, FaultAt, Finish, Call
<1>16. ASSUME NEW c \in Client, K8sCutOff(c) PROVE K8sTypeOK'
  BY <1>16 DEF K8sCutOff, Fault, Finish, Call
<1>6. ASSUME NEW c \in Client, K8sReady(c) PROVE K8sTypeOK'
  BY <1>6 DEF K8sReady, Answer, Finish, Call
<1>7. ASSUME NEW c \in Client, K8sDeletePod(c) PROVE K8sTypeOK'
  BY <1>7 DEF K8sDeletePod, Goto, Call
<1>8. ASSUME NEW c \in Client, K8sNoPod(c) \/ K8sDeletePolicy(c) \/ K8sDeleteFails(c)
      PROVE K8sTypeOK'
  BY <1>8 DEF K8sNoPod, K8sDeletePolicy, K8sDeleteFails, LetGo, Fault, FaultAt, Call
<1>9. ASSUME NEW c \in Client, K8sSweepEnds(c) PROVE K8sTypeOK'
  BY <1>9 DEF K8sSweepEnds, SweepEnds, Finish, Call
<1>10. ASSUME NEW b \in Box, K8sCluster(b) \/ K8sDeletedByHand(b) PROVE K8sTypeOK'
  BY <1>10 DEF K8sCluster, K8sDeletedByHand, Fault, FaultAt
<1>11. CASE UNCHANGED k8sVars
  BY <1>11 DEF k8sVars
<1>12. \A c \in Client, S \in SUBSET Box : K8sGc(c, S) => K8sTypeOK'
  BY <1>3 DEF K8sGc
<1>13. ASSUME NEW c \in Client, NEW b \in Box, K8sDestroy(c, {b}) PROVE K8sTypeOK'
  BY <1>3, <1>13
<1>14. ASSUME NEW c \in Client, K8sDestroy(c, K8sListed) PROVE K8sTypeOK'
  BY <1>3, <1>14 DEF K8sListed
<1> QED BY <1>1, <1>2, <1>4, <1>5, <1>6, <1>7, <1>8, <1>9, <1>10, <1>11, <1>12, <1>13, <1>14,
           <1>15, <1>16 DEF K8sNext

LEMMA K8sKeeps == K8sInv /\ [K8sNext]_k8sVars => K8sInv'
<1> SUFFICES ASSUME K8sInv, [K8sNext]_k8sVars PROVE K8sInv'
  OBVIOUS
<1> K8sTypeOK /\ K8sTypeOK'
  BY K8sTypes DEF K8sInv
<1> USE CallsAssumption DEF K8sInv, PollsIsolated, MarksFirst, AnsweredIsolated,
        MarkedUnderCreate, MarkedReleased, MarkedMade, GoneMarked, CreatesOnce,
        k8sOwn, callVars, toldVars, sharedVars
<1>1. ASSUME NEW c \in Client, NEW b \in Box, K8sCreate(c, b) PROVE K8sInv'
  BY <1>1 DEF K8sCreate, Enter, Call, K8sTypeOK, CallsOK
<1>2. ASSUME NEW c \in Client, NEW b \in Box, K8sTakeUp(c, b) PROVE K8sInv'
  BY <1>2 DEF K8sTakeUp, TakeUp, Call, K8sTypeOK, CallsOK
<1>3. ASSUME NEW c \in Client, NEW S, K8sDestroy(c, S) PROVE K8sInv'
  BY <1>3 DEF K8sDestroy, Sweep, Call, K8sTypeOK, CallsOK
<1>4. ASSUME NEW c \in Client, K8sPolicy(c) PROVE K8sInv'
  BY <1>4 DEF K8sPolicy, Goto, Call, K8sTypeOK, CallsOK
<1>5. ASSUME NEW c \in Client, K8sGivesUp(c) PROVE K8sInv'
  BY <1>5 DEF K8sGivesUp, Goto, Call, K8sTypeOK, CallsOK
<1>6. ASSUME NEW c \in Client, K8sPolicyFails(c) PROVE K8sInv'
  BY <1>6 DEF K8sPolicyFails, FaultAt, Finish, Call, K8sTypeOK, CallsOK
<1>7. ASSUME NEW c \in Client, K8sCutOff(c) PROVE K8sInv'
  BY <1>7 DEF K8sCutOff, Finish, Call, K8sTypeOK, CallsOK
<1>8. ASSUME NEW c \in Client, K8sReady(c) PROVE K8sInv'
  BY <1>8 DEF K8sReady, Answer, Finish, Call, K8sTypeOK, CallsOK
<1>9. ASSUME NEW c \in Client, K8sDeletePod(c) PROVE K8sInv'
  BY <1>9 DEF K8sDeletePod, K8sExists, Goto, Call, K8sTypeOK, CallsOK
<1>10. ASSUME NEW c \in Client, K8sNoPod(c) PROVE K8sInv'
  BY <1>10 DEF K8sNoPod, LetGo, Call, K8sTypeOK, CallsOK
<1>11. ASSUME NEW c \in Client, K8sDeletePolicy(c) PROVE K8sInv'
  BY <1>11 DEF K8sDeletePolicy, LetGo, Call, K8sTypeOK, CallsOK
<1>12. ASSUME NEW c \in Client, K8sDeleteFails(c) PROVE K8sInv'
  BY <1>12 DEF K8sDeleteFails, LetGo, FaultAt, Call, K8sTypeOK, CallsOK
<1>13. ASSUME NEW c \in Client, K8sSweepEnds(c) PROVE K8sInv'
  BY <1>13 DEF K8sSweepEnds, SweepEnds, Finish, Call, K8sTypeOK, CallsOK
<1>14. ASSUME NEW b \in Box, K8sCluster(b) PROVE K8sInv'
  BY <1>14 DEF K8sCluster, K8sExists, K8sTypeOK, CallsOK
<1>15. ASSUME NEW b \in Box, K8sDeletedByHand(b) PROVE K8sInv'
  BY <1>15 DEF K8sDeletedByHand, K8sExists, FaultAt, K8sTypeOK, CallsOK
<1>16. CASE UNCHANGED k8sVars
  BY <1>16 DEF k8sVars
<1>17. \A c \in Client, S \in SUBSET Box : K8sGc(c, S) => K8sInv'
  BY <1>3 DEF K8sGc
<1> QED BY <1>1, <1>2, <1>3, <1>4, <1>5, <1>6, <1>7, <1>8, <1>9, <1>10, <1>11, <1>12, <1>13,
           <1>14, <1>15, <1>16, <1>17 DEF K8sNext
-----------------------------------------------------------------------------
(* E2B. A call that will insert into the cache a sandbox that is gone is     *)
(* excused; a sandbox is deleted once, by the call that then evicts it.     *)
Excused(b) ==
  b \in due \cup lost \cup raced \/ \E c \in Call : box[c] = b /\ pc[c] = "evict"

InsertsExcused ==
  \A c \in Call : pc[c] \in Inserting /\ cloud[box[c]] = "gone" => Excused(box[c])

CachedExcused == \A b \in cache : cloud[b] = "gone" => Excused(b)

EvictsOnce ==
  /\ \A c \in Call : pc[c] = "evict" => cloud[box[c]] = "gone" /\ reports[box[c]] = 0
  /\ \A c, d \in Call : pc[c] = "evict" /\ pc[d] = "evict" /\ box[c] = box[d] => c = d

EndedGone ==
  \A b \in Box : /\ reports[b] <= 1
                 /\ reports[b] > 0 => cloud[b] = "gone"
                 /\ cloud[b] = "none" => given[b] = 0

LateGone == \A c \in Call : late[c] => pc[c] = "exec" /\ cloud[box[c]] = "gone"

E2bInv ==
  /\ E2bTypeOK /\ InsertsExcused /\ CachedExcused /\ EvictsOnce
  /\ EndedGone /\ LateGone /\ ghosts = {}

LEMMA E2bInitially == CallsInit /\ E2bInit => E2bInv
  BY CallsAssumption DEF CallsInit, E2bInit, E2bInv, E2bTypeOK, CallsOK, InsertsExcused,
     CachedExcused, EvictsOnce, EndedGone, LateGone, Excused, Inserting

LEMMA E2bTypes == E2bTypeOK /\ [E2bNext]_e2bVars => E2bTypeOK'
<1> SUFFICES ASSUME E2bTypeOK, [E2bNext]_e2bVars PROVE E2bTypeOK'
  OBVIOUS
<1> USE CallsAssumption DEF E2bTypeOK, CallsOK, e2bOwn, callVars, toldVars, sharedVars
<1>1. ASSUME NEW c \in Client, NEW b \in Box, E2bCreate(c, b) PROVE E2bTypeOK'
  BY <1>1 DEF E2bCreate, Answer, Enter, Call
<1>2. ASSUME NEW c \in Client, NEW b \in Box, E2bCreateFails(c, b) PROVE E2bTypeOK'
  BY <1>2 DEF E2bCreateFails, FaultAt, Fault
<1>3. ASSUME NEW c \in Client, NEW b \in Box, E2bHit(c, b) PROVE E2bTypeOK'
  BY <1>3 DEF E2bHit, EnterExec, Ended, Call
<1>4. ASSUME NEW c \in Client, NEW b \in Box, E2bMiss(c, b) PROVE E2bTypeOK'
  BY <1>4 DEF E2bMiss, EnterExec, Ended, Call
<1>5. ASSUME NEW c \in Client, NEW S \in SUBSET Box, E2bDestroy(c, S) PROVE E2bTypeOK'
  BY <1>5 DEF E2bDestroy, Sweep, Call
<1>6. ASSUME NEW c \in Client, NEW b \in Box, E2bDelete(c, b) PROVE E2bTypeOK'
  BY <1>6 DEF E2bDelete, TakeUp, Call
<1>7. ASSUME NEW c \in Client, NEW b \in Box, E2bNotFound(c, b) PROVE E2bTypeOK'
  BY <1>7 DEF E2bNotFound, TakeUp, Call
<1>8. ASSUME NEW c \in Client, NEW b \in Box, E2bDeleteFails(c, b) PROVE E2bTypeOK'
  BY <1>8 DEF E2bDeleteFails, TakeUp, FaultAt, Fault, Call
<1>9. ASSUME NEW c \in Client, NEW b \in Box, E2bUnpause(c, b) PROVE E2bTypeOK'
  BY <1>9 DEF E2bUnpause, Enter, Call
<1>10. ASSUME NEW c \in Client, E2bStore(c) PROVE E2bTypeOK'
  BY <1>10 DEF E2bStore, Finish, Call
<1>11. ASSUME NEW c \in Client, E2bFetched(c) PROVE E2bTypeOK'
  BY <1>11 DEF E2bFetched, Goto, Call
<1>12. ASSUME NEW c \in Client, E2bRan(c) PROVE E2bTypeOK'
  BY <1>12 DEF E2bRan, Ran, Finish, Call
<1>13. ASSUME NEW c \in Client, E2bExecFails(c) PROVE E2bTypeOK'
  BY <1>13 DEF E2bExecFails, Finish, Call
<1>14. ASSUME NEW c \in Client, E2bEvict(c) PROVE E2bTypeOK'
  BY <1>14 DEF E2bEvict, Report, CountReport, LetGo, Call
<1>15. ASSUME NEW c \in Client, E2bSweepEnds(c) PROVE E2bTypeOK'
  BY <1>15 DEF E2bSweepEnds, SweepEnds, Finish, Call
<1>16. ASSUME NEW c \in Client, E2bCutOff(c) PROVE E2bTypeOK'
  BY <1>16 DEF E2bCutOff, Fault, Finish, Call
<1>17. ASSUME NEW b \in Box, E2bPause(b) \/ E2bTimesOut(b) PROVE E2bTypeOK'
  BY <1>17 DEF E2bPause, E2bTimesOut, Expires
<1>18. CASE E2bRestart
  BY <1>18 DEF E2bRestart, Fault
<1>19. CASE UNCHANGED e2bVars
  BY <1>19 DEF e2bVars
<1>20. ASSUME NEW c \in Client, NEW b \in Box, E2bDestroy(c, {b}) PROVE E2bTypeOK'
  BY <1>5, <1>20
<1>21. ASSUME NEW c \in Client, E2bDestroy(c, E2bListed) PROVE E2bTypeOK'
  BY <1>5, <1>21 DEF E2bListed
<1> QED BY <1>1, <1>2, <1>3, <1>4, <1>6, <1>7, <1>8, <1>9, <1>10, <1>11, <1>12, <1>13, <1>14,
           <1>15, <1>16, <1>17, <1>18, <1>19, <1>20, <1>21 DEF E2bNext

LEMMA E2bKeeps == E2bInv /\ [E2bNext]_e2bVars => E2bInv'
<1> SUFFICES ASSUME E2bInv, [E2bNext]_e2bVars PROVE E2bInv'
  OBVIOUS
<1> E2bTypeOK /\ E2bTypeOK'
  BY E2bTypes DEF E2bInv
<1> USE CallsAssumption DEF E2bInv, InsertsExcused, CachedExcused, EvictsOnce, EndedGone,
        LateGone, Excused, Inserting, E2bExists, e2bOwn, callVars, toldVars, sharedVars
<1>1. ASSUME NEW c \in Client, NEW b \in Box, E2bCreate(c, b) PROVE E2bInv'
  BY <1>1 DEF E2bCreate, Answer, Enter, Call, E2bTypeOK, CallsOK
<1>2. ASSUME NEW c \in Client, NEW b \in Box, E2bCreateFails(c, b) PROVE E2bInv'
  BY <1>2 DEF E2bCreateFails, FaultAt, E2bTypeOK, CallsOK
<1>3. ASSUME NEW c \in Client, NEW b \in Box, E2bHit(c, b) PROVE E2bInv'
  BY <1>3 DEF E2bHit, EnterExec, Ended, Call, E2bTypeOK, CallsOK
<1>4. ASSUME NEW c \in Client, NEW b \in Box, E2bMiss(c, b) PROVE E2bInv'
  BY <1>4 DEF E2bMiss, EnterExec, Ended, Call, E2bTypeOK, CallsOK
<1>5. ASSUME NEW c \in Client, NEW S, E2bDestroy(c, S) PROVE E2bInv'
  BY <1>5 DEF E2bDestroy, Sweep, Call, E2bTypeOK, CallsOK
<1>6. ASSUME NEW c \in Client, NEW b \in Box, E2bDelete(c, b) PROVE E2bInv'
  BY <1>6 DEF E2bDelete, TakeUp, Call, E2bTypeOK, CallsOK
<1>7. ASSUME NEW c \in Client, NEW b \in Box, E2bNotFound(c, b) PROVE E2bInv'
  BY <1>7 DEF E2bNotFound, TakeUp, Call, E2bTypeOK, CallsOK
<1>8. ASSUME NEW c \in Client, NEW b \in Box, E2bDeleteFails(c, b) PROVE E2bInv'
  BY <1>8 DEF E2bDeleteFails, TakeUp, FaultAt, Call, E2bTypeOK, CallsOK
<1>9. ASSUME NEW c \in Client, NEW b \in Box, E2bUnpause(c, b) PROVE E2bInv'
  BY <1>9 DEF E2bUnpause, Enter, Call, E2bTypeOK, CallsOK
<1>10. ASSUME NEW c \in Client, E2bStore(c) PROVE E2bInv'
  BY <1>10 DEF E2bStore, Finish, Call, E2bTypeOK, CallsOK
<1>11. ASSUME NEW c \in Client, E2bFetched(c) PROVE E2bInv'
  BY <1>11 DEF E2bFetched, Goto, Call, E2bTypeOK, CallsOK
<1>12. ASSUME NEW c \in Client, E2bRan(c) PROVE E2bInv'
  BY <1>12 DEF E2bRan, Ran, Finish, Call, E2bTypeOK, CallsOK
<1>13. ASSUME NEW c \in Client, E2bExecFails(c) PROVE E2bInv'
  BY <1>13 DEF E2bExecFails, Finish, Call, E2bTypeOK, CallsOK
<1>14. ASSUME NEW c \in Client, E2bEvict(c) PROVE E2bInv'
  BY <1>14 DEF E2bEvict, Report, CountReport, LetGo, Call, E2bTypeOK, CallsOK
<1>15. ASSUME NEW c \in Client, E2bSweepEnds(c) PROVE E2bInv'
  BY <1>15 DEF E2bSweepEnds, SweepEnds, Finish, Call, E2bTypeOK, CallsOK
<1>16. ASSUME NEW c \in Client, E2bCutOff(c) PROVE E2bInv'
  BY <1>16 DEF E2bCutOff, Finish, Call, E2bTypeOK, CallsOK
<1>17. ASSUME NEW b \in Box, E2bPause(b) PROVE E2bInv'
  BY <1>17 DEF E2bPause, E2bTypeOK, CallsOK
<1>18. ASSUME NEW b \in Box, E2bTimesOut(b) PROVE E2bInv'
  BY <1>18 DEF E2bTimesOut, Expires, E2bTypeOK, CallsOK
<1>19. CASE E2bRestart
  BY <1>19 DEF E2bRestart, E2bTypeOK, CallsOK
<1>20. CASE UNCHANGED e2bVars
  BY <1>20 DEF e2bVars
<1> QED BY <1>1, <1>2, <1>3, <1>4, <1>5, <1>6, <1>7, <1>8, <1>9, <1>10, <1>11, <1>12, <1>13,
           <1>14, <1>15, <1>16, <1>17, <1>18, <1>19, <1>20 DEF E2bNext
-----------------------------------------------------------------------------
(* WASM. What was removed is not in the registry and was created once.      *)
WasmInv ==
  /\ WasmTypeOK /\ ghosts = {}
  /\ \A c \in Call : ~late[c]
  /\ \A b \in Box : /\ reports[b] <= 1
                    /\ reports[b] > 0 => given[b] > 0 /\ b \notin registry
                    /\ b \in registry => given[b] > 0

LEMMA WasmInitially == CallsInit /\ WasmInit => WasmInv
  BY CallsAssumption DEF CallsInit, WasmInit, WasmInv, WasmTypeOK, CallsOK

LEMMA WasmKeeps == WasmInv /\ [WasmNext]_wasmVars => WasmInv'
<1> SUFFICES ASSUME WasmInv, [WasmNext]_wasmVars PROVE WasmInv'
  OBVIOUS
<1> USE CallsAssumption DEF WasmInv, WasmTypeOK, CallsOK, wasmOwn, callVars, toldVars, sharedVars
<1>1. ASSUME NEW c \in Client, NEW b \in Box, WasmCreate(c, b) PROVE WasmInv'
  BY <1>1 DEF WasmCreate, Answer, Call
<1>2. ASSUME NEW c \in Client, NEW b \in Box, WasmExec(c, b) PROVE WasmInv'
  BY <1>2 DEF WasmExec, EnterExec, Ended, Call
<1>3. ASSUME NEW c \in Client, NEW S \in SUBSET Box, WasmDestroy(c, S) PROVE WasmInv'
  BY <1>3 DEF WasmDestroy, Sweep, Call
<1>4. ASSUME NEW c \in Client, NEW b \in Box, WasmRemove(c, b) PROVE WasmInv'
  BY <1>4 DEF WasmRemove, Report, CountReport, TakeUp, Call
<1>5. ASSUME NEW c \in Client, NEW b \in Box, WasmNotFound(c, b) PROVE WasmInv'
  BY <1>5 DEF WasmNotFound, TakeUp, Call
<1>6. ASSUME NEW c \in Client, WasmRan(c) PROVE WasmInv'
  BY <1>6 DEF WasmRan, Ran, Finish, Call
<1>7. ASSUME NEW c \in Client, WasmExecFails(c) PROVE WasmInv'
  BY <1>7 DEF WasmExecFails, Finish, Call
<1>8. ASSUME NEW c \in Client, WasmTimesOut(c) PROVE WasmInv'
  BY <1>8 DEF WasmTimesOut, Fault, Finish, Call
<1>9. ASSUME NEW c \in Client, WasmSweepEnds(c) PROVE WasmInv'
  BY <1>9 DEF WasmSweepEnds, SweepEnds, Finish, Call
<1>10. ASSUME NEW c \in Client, WasmGc(c) PROVE WasmInv'
  BY <1>10 DEF WasmGc, CountReport
<1>11. ASSUME NEW b \in Box, WasmThreadEnds(b) PROVE WasmInv'
  BY <1>11 DEF WasmThreadEnds
<1>12. ASSUME NEW b \in Box, WasmExpires(b) PROVE WasmInv'
  BY <1>12 DEF WasmExpires, Expires
<1>13. CASE WasmRestart
  BY <1>13 DEF WasmRestart, Fault
<1>14. CASE UNCHANGED wasmVars
  BY <1>14 DEF wasmVars
<1>15. ASSUME NEW c \in Client, NEW b \in Box, WasmDestroy(c, {b}) PROVE WasmInv'
  BY <1>3, <1>15
<1>16. ASSUME NEW c \in Client, WasmDestroy(c, registry) PROVE WasmInv'
  BY <1>3, <1>16
<1> QED BY <1>1, <1>2, <1>4, <1>5, <1>6, <1>7, <1>8, <1>9, <1>10, <1>11, <1>12, <1>13, <1>14,
           <1>15, <1>16 DEF WasmNext

-----------------------------------------------------------------------------
(* Firecracker. The argument is custody of the state directory: a directory *)
(* without metadata belongs to the one create that made it, and no destroy  *)
(* gets past metadata it has not read, so a VM is started and given up by   *)
(* its own create only; a directory is removed by a destroy only after its  *)
(* VM has been seen dead, and no step starts a VM again.                    *)
Creating(c) == pc[c] \in {"spawn", "boot", "record"}

CreatesFresh == \A c \in Call : Creating(c) => fcDir[box[c]] = "fresh"

LoopOnlySweeps == pc[Loop] \in {"idle", "next", "kill", "remove", "stopped"}

CreatesAlone == \A c, d \in Call : Creating(c) /\ Creating(d) /\ box[c] = box[d] => c = d

SpawnsOnce == \A c \in Call : pc[c] = "spawn" => fcProc[box[c]] = "none"

DestroysRecorded ==
  \A c \in Call : pc[c] \in {"kill", "remove"} => fcDir[box[c]] \in {"meta", "ruin", "removed"}

RemovesDead == \A c \in Call : pc[c] = "remove" => ~FcAlive(box[c])

Unborn == \A b \in Box : fcDir[b] = "none" => fcProc[b] = "none"

GoneDead == \A b \in Box : fcDir[b] \in {"ruin", "removed"} => ~FcAlive(b)

Custody ==
  /\ LoopOnlySweeps /\ CreatesFresh /\ CreatesAlone /\ SpawnsOnce
  /\ DestroysRecorded /\ RemovesDead /\ Unborn /\ GoneDead /\ FcNoOrphan

LEMMA FcTypeInit == CallsInit /\ FcInit => FcTypeOK
  BY CallsAssumption DEF CallsInit, FcInit, FcTypeOK, CallsOK

(* Handlers of the calls keep their types at any of this provider's steps.  *)
LEMMA FcTypes == FcTypeOK /\ [FcNext]_fcVars => FcTypeOK'
<1> SUFFICES ASSUME FcTypeOK, [FcNext]_fcVars PROVE FcTypeOK'
  OBVIOUS
<1> USE CallsAssumption DEF FcTypeOK, CallsOK, callVars, toldVars, sharedVars
<1>1. ASSUME NEW c \in Call, FcSweepStep(c) PROVE FcTypeOK'
  <2>1. ASSUME NEW b \in Box, FcCheck(c, b) \/ FcNotFound(c, b) PROVE FcTypeOK'
    BY <2>1 DEF FcCheck, FcNotFound, TakeUp
  <2>2. CASE FcKill(c)
    BY <2>2 DEF FcKill, Goto
  <2>3. CASE FcKillFails(c)
    BY <2>3 DEF FcKillFails, LetGo
  <2>4. CASE FcRemove(c)
    BY <2>4 DEF FcRemove, Report, CountReport, LetGo
  <2>5. CASE FcRemoveFails(c)
    BY <2>5 DEF FcRemoveFails, Fault, LetGo
  <2>6. CASE FcSweepEnds(c)
    BY <2>6 DEF FcSweepEnds, SweepEnds, Finish
  <2> QED BY <1>1, <2>1, <2>2, <2>3, <2>4, <2>5, <2>6 DEF FcSweepStep
<1>2. ASSUME NEW c \in Call, NEW T \in SUBSET Box, FcDestroy(c, T) PROVE FcTypeOK'
  BY <1>2 DEF FcDestroy, Sweep
<1>3. ASSUME NEW c \in Client, FcClientStep(c) PROVE FcTypeOK'
  <2> c \in Call
    BY DEF Call
  <2>1. ASSUME NEW b \in Box, FcCreate(c, b) PROVE FcTypeOK'
    BY <2>1 DEF FcCreate, Enter
  <2>2. ASSUME NEW b \in Box, FcExec(c, b) PROVE FcTypeOK'
    BY <2>2 DEF FcExec, EnterExec
  <2>3. CASE FcCopyFails(c)
    BY <2>3 DEF FcCopyFails, Fault, Finish
  <2>4. CASE FcSpawn(c)
    BY <2>4 DEF FcSpawn, Goto
  <2>5. CASE FcSpawnFails(c)
    BY <2>5 DEF FcSpawnFails, Fault, Finish
  <2>6. CASE FcBoot(c)
    BY <2>6 DEF FcBoot, Goto
  <2>7. CASE FcBootFails(c)
    BY <2>7 DEF FcBootFails, Fault, Finish
  <2>8. CASE FcRecord(c)
    BY <2>8 DEF FcRecord, Answer, Finish
  <2>9. CASE FcRecordFails(c)
    BY <2>9 DEF FcRecordFails, FaultAt, Fault, Finish
  <2>10. CASE FcRan(c)
    BY <2>10 DEF FcRan, Ran, Finish
  <2>11. CASE FcExecFails(c)
    BY <2>11 DEF FcExecFails, Finish
  <2>12. FcDestroy(c, FcListed) \/ FcGc(c) => FcTypeOK'
    BY <1>2 DEF FcGc, FcListed, FcVmIds
  <2>13. ASSUME NEW b \in Box, FcDestroy(c, {b}) PROVE FcTypeOK'
    BY <1>2, <2>13
  <2> QED BY <1>1, <1>3, <2>1, <2>2, <2>3, <2>4, <2>5, <2>6, <2>7, <2>8, <2>9, <2>10, <2>11,
             <2>12, <2>13 DEF FcClientStep
<1>4. ASSUME NEW c \in Client, FcCutOff(c) PROVE FcTypeOK'
  BY <1>4 DEF FcCutOff, Fault, Finish, Call
<1>8. CASE FcStop \/ FcStart
  BY <1>8 DEF FcStop, FcStart, Goto, Call
<1>5. ASSUME NEW b \in Box, FcVmDies(b) \/ FcExpires(b) \/ FcPause(b) \/ FcUnpause(b) PROVE FcTypeOK'
  BY <1>5 DEF FcVmDies, Fault, FcExpires, Expires, FcPause, FcUnpause
<1>6. CASE UNCHANGED fcVars
  BY <1>6 DEF fcVars
<1>7. CASE FcLoopStep
  BY <1>1, <1>2, <1>7 DEF FcLoopStep, FcGc, FcListed, FcVmIds, Call
<1> QED BY <1>3, <1>4, <1>5, <1>6, <1>7, <1>8 DEF FcNext

LEMMA CustodyInit == CallsInit /\ FcInit => Custody
  BY CallsAssumption DEF Call, CallsInit, FcInit, Custody, LoopOnlySweeps, CreatesFresh, CreatesAlone, SpawnsOnce,
     DestroysRecorded, RemovesDead, Unborn, GoneDead, FcNoOrphan, Creating, FcAlive

(* Every step keeps custody.                                                *)
LEMMA CustodyStep == FcTypeOK /\ Custody /\ [FcNext]_fcVars => Custody'
<1> SUFFICES ASSUME FcTypeOK, Custody, [FcNext]_fcVars PROVE Custody'
  OBVIOUS
<1> USE CallsAssumption DEF FcTypeOK, CallsOK, Custody, LoopOnlySweeps, CreatesFresh, CreatesAlone, SpawnsOnce,
        DestroysRecorded, RemovesDead, Unborn, GoneDead, FcNoOrphan, Creating, FcAlive,
        callVars, toldVars, sharedVars
<1>1. ASSUME NEW c \in Call, FcSweepStep(c) PROVE Custody'
  <2>1. ASSUME NEW b \in Box, FcCheck(c, b) PROVE Custody'
    BY <2>1 DEF FcCheck, TakeUp
  <2>2. ASSUME NEW b \in Box, FcNotFound(c, b) PROVE Custody'
    BY <2>2 DEF FcNotFound, TakeUp
  <2>3. CASE FcKill(c)
    BY <2>3 DEF FcKill, Goto
  <2>4. CASE FcKillFails(c)
    BY <2>4 DEF FcKillFails, LetGo
  <2>5. CASE FcRemove(c)
    BY <2>5 DEF FcRemove, LetGo
  <2>6. CASE FcRemoveFails(c)
    BY <2>6 DEF FcRemoveFails, LetGo
  <2>7. CASE FcSweepEnds(c)
    BY <2>7 DEF FcSweepEnds, SweepEnds, Finish
  <2> QED BY <1>1, <2>1, <2>2, <2>3, <2>4, <2>5, <2>6, <2>7 DEF FcSweepStep
<1>2. ASSUME NEW c \in Call, NEW T, FcDestroy(c, T) PROVE Custody'
  BY <1>2 DEF FcDestroy, Sweep
<1>3. ASSUME NEW c \in Client, FcClientStep(c) PROVE Custody'
  <2> c \in Call /\ c # Loop
    BY DEF Call
  <2>1. ASSUME NEW b \in Box, FcCreate(c, b) PROVE Custody'
    <3>1. fcDir[b] = "none" /\ fcDir'[b] = "fresh" /\ fcProc'[b] = "none"
      BY <2>1 DEF FcCreate
    <3>2. /\ pc[c] = "idle" /\ pc'[c] = "spawn" /\ box'[c] = b
          /\ \A d \in Call \ {c} : pc'[d] = pc[d] /\ box'[d] = box[d]
      BY <2>1 DEF FcCreate, Enter
    <3>3. \A d \in Call \ {c} : Creating(d) => box[d] # b
      BY <3>1
    <3>0. LoopOnlySweeps'
      BY <3>2 DEF Call
    <3>4. CreatesFresh' /\ CreatesAlone' /\ SpawnsOnce'
      BY <2>1, <3>1, <3>2, <3>3 DEF FcCreate
    <3>5. DestroysRecorded' /\ RemovesDead' /\ Unborn' /\ GoneDead'
      BY <2>1, <3>1, <3>2 DEF FcCreate
    <3>6. FcNoOrphan'
      BY <2>1, <3>1, <3>2 DEF FcCreate
    <3> QED BY <3>0, <3>4, <3>5, <3>6
  <2>2. ASSUME NEW b \in Box, FcExec(c, b) PROVE Custody'
    BY <2>2 DEF FcExec, EnterExec
  <2>3. CASE FcCopyFails(c)
    BY <2>3 DEF FcCopyFails, Finish
  <2>4. CASE FcSpawn(c)
    BY <2>4 DEF FcSpawn, Goto
  <2>5. CASE FcSpawnFails(c)
    BY <2>5 DEF FcSpawnFails, Finish
  <2>6. CASE FcBoot(c)
    BY <2>6 DEF FcBoot, Goto
  <2>7. CASE FcBootFails(c)
    BY <2>7 DEF FcBootFails, Finish
  <2>8. CASE FcRecord(c)
    BY <2>8 DEF FcRecord, Finish
  <2>9. CASE FcRecordFails(c)
    BY <2>9 DEF FcRecordFails, FaultAt, Finish
  <2>10. CASE FcRan(c)
    BY <2>10 DEF FcRan, Ran, Finish
  <2>11. CASE FcExecFails(c)
    BY <2>11 DEF FcExecFails, Finish
  <2>12. FcDestroy(c, FcListed) \/ FcGc(c) => Custody'
    BY <1>2 DEF FcGc
  <2>13. ASSUME NEW b \in Box, FcDestroy(c, {b}) PROVE Custody'
    BY <1>2, <2>13
  <2> QED BY <1>1, <1>3, <2>1, <2>2, <2>3, <2>4, <2>5, <2>6, <2>7, <2>8, <2>9, <2>10, <2>11,
             <2>12, <2>13 DEF FcClientStep
<1>4. ASSUME NEW c \in Client, FcCutOff(c) PROVE Custody'
  <2>1. c # Loop /\ c \in Call
    BY DEF Call
  <2> QED BY <1>4, <2>1 DEF FcCutOff, Finish
<1>8. CASE FcStop \/ FcStart
  BY <1>8 DEF FcStop, FcStart, Goto, Call
<1>5. ASSUME NEW b \in Box, FcVmDies(b) \/ FcExpires(b) \/ FcPause(b) \/ FcUnpause(b) PROVE Custody'
  BY <1>5 DEF FcVmDies, FcExpires, FcPause, FcUnpause
<1>6. CASE UNCHANGED fcVars
  BY <1>6 DEF fcVars
<1>7. CASE FcLoopStep
  BY <1>1, <1>2, <1>7 DEF FcLoopStep, FcGc, Call
<1> QED BY <1>3, <1>4, <1>5, <1>6, <1>7, <1>8 DEF FcNext

(* A destroy that succeeded has removed the directory, which no step makes  *)
(* again: an exec does not find it.                                         *)
FcInv ==
  /\ FcTypeOK /\ Custody /\ ghosts = {}
  /\ \A c \in Call : ~late[c]
  /\ \A b \in Ended : fcDir[b] = "removed"

LEMMA FcInitially == CallsInit /\ FcInit => FcInv
  BY FcTypeInit, CustodyInit DEF CallsInit, FcInit, FcInv, Ended

LEMMA FcKeeps == FcInv /\ [FcNext]_fcVars => FcInv'
<1> SUFFICES ASSUME FcInv, [FcNext]_fcVars PROVE FcInv'
  OBVIOUS
<1>1. FcTypeOK /\ FcTypeOK' /\ Custody /\ Custody'
  BY FcTypes, CustodyStep DEF FcInv
<1>2. CreatesFresh
  BY <1>1 DEF Custody
<1> USE <1>1, CallsAssumption DEF FcInv, Ended, FcTypeOK, CallsOK, callVars, toldVars, sharedVars
<1>3. ASSUME NEW c \in Call, FcSweepStep(c) PROVE FcInv'
  <2>1. ASSUME NEW b \in Box, FcCheck(c, b) \/ FcNotFound(c, b) PROVE FcInv'
    BY <2>1 DEF FcCheck, FcNotFound, TakeUp
  <2>2. CASE FcKill(c) \/ FcKillFails(c)
    BY <2>2 DEF FcKill, FcKillFails, Goto, LetGo
  <2>3. CASE FcRemove(c)
    BY <2>3 DEF FcRemove, Report, CountReport, LetGo
  <2>4. CASE FcRemoveFails(c)
    BY <2>4 DEF FcRemoveFails, LetGo
  <2>5. CASE FcSweepEnds(c)
    BY <2>5 DEF FcSweepEnds, SweepEnds, Finish
  <2> QED BY <1>3, <2>1, <2>2, <2>3, <2>4, <2>5 DEF FcSweepStep
<1>4. ASSUME NEW c \in Call, NEW T, FcDestroy(c, T) PROVE FcInv'
  BY <1>4 DEF FcDestroy, Sweep
<1>5. ASSUME NEW c \in Client, FcClientStep(c) PROVE FcInv'
  <2> c \in Call
    BY DEF Call
  <2>1. ASSUME NEW b \in Box, FcCreate(c, b) PROVE FcInv'
    BY <2>1 DEF FcCreate, Enter
  <2>2. ASSUME NEW b \in Box, FcExec(c, b) PROVE FcInv'
    BY <2>2 DEF FcExec, EnterExec
  <2>3. CASE FcCopyFails(c)
    BY <2>3 DEF FcCopyFails, Finish
  <2>4. CASE FcSpawn(c) \/ FcBoot(c)
    BY <2>4 DEF FcSpawn, FcBoot, Goto
  <2>5. CASE FcSpawnFails(c)
    BY <2>5 DEF FcSpawnFails, Finish
  <2>6. CASE FcBootFails(c)
    BY <2>6 DEF FcBootFails, Finish
  <2>7. CASE FcRecord(c)
    BY <1>2, <2>7 DEF FcRecord, Answer, Finish, CreatesFresh, Creating
  <2>8. CASE FcRecordFails(c)
    BY <2>8 DEF FcRecordFails, Finish
  <2>9. CASE FcRan(c)
    BY <2>9 DEF FcRan, Ran, Finish
  <2>10. CASE FcExecFails(c)
    BY <2>10 DEF FcExecFails, Finish
  <2>11. FcDestroy(c, FcListed) \/ FcGc(c) \/ (\E b \in Box : FcDestroy(c, {b})) => FcInv'
    BY <1>4 DEF FcGc
  <2> QED BY <1>3, <1>5, <2>1, <2>2, <2>3, <2>4, <2>5, <2>6, <2>7, <2>8, <2>9, <2>10, <2>11
          DEF FcClientStep
<1>6. ASSUME NEW c \in Client, FcCutOff(c) PROVE FcInv'
  BY <1>6 DEF FcCutOff, Finish, Call
<1>10. CASE FcStop \/ FcStart
  BY <1>10 DEF FcStop, FcStart, Goto, Call
<1>7. ASSUME NEW b \in Box, FcVmDies(b) \/ FcExpires(b) \/ FcPause(b) \/ FcUnpause(b) PROVE FcInv'
  BY <1>7 DEF FcVmDies, FcExpires, FcPause, FcUnpause
<1>8. CASE UNCHANGED fcVars
  BY <1>8 DEF fcVars
<1>9. CASE FcLoopStep
  BY <1>3, <1>4, <1>9 DEF FcLoopStep, FcGc, Call
<1> QED BY <1>5, <1>6, <1>7, <1>8, <1>9, <1>10 DEF FcNext

-----------------------------------------------------------------------------
(* The daemon: one of the four invariants, and the others' state untouched. *)
Idle(p) ==
  /\ p # "firecracker" => FcInit
  /\ p # "k8s" => K8sInit
  /\ p # "e2b" => E2bInit
  /\ p # "wasm" => WasmInit

ServingInv ==
  /\ serving \in {"firecracker", "k8s", "e2b", "wasm"}
  /\ serving = "firecracker" => FcInv
  /\ serving = "k8s" => K8sInv
  /\ serving = "e2b" => E2bInv
  /\ serving = "wasm" => WasmInv
  /\ Idle(serving)

LEMMA ServingInit == Init => ServingInv
  BY FcInitially, K8sInitially, E2bInitially, WasmInitially DEF Init, ServingInv, Idle

LEMMA ServingStep == ServingInv /\ [Next]_vars => ServingInv'
<1> SUFFICES ASSUME ServingInv, [Next]_vars PROVE ServingInv'
  OBVIOUS
<1>0. serving' = serving
  BY DEF Next, vars
<1> USE <1>0 DEF ServingInv, Idle, Next, vars, FcInit, K8sInit, E2bInit, WasmInit,
        fcOwn, k8sOwn, e2bOwn, wasmOwn
<1>1. CASE serving = "firecracker"
  BY <1>1, FcKeeps DEF fcVars
<1>2. CASE serving = "k8s"
  BY <1>2, K8sKeeps DEF k8sVars
<1>3. CASE serving = "e2b"
  BY <1>3, E2bKeeps DEF e2bVars
<1>4. CASE serving = "wasm"
  BY <1>4, WasmKeeps DEF wasmVars
<1> QED BY <1>1, <1>2, <1>3, <1>4

LEMMA Serves == Spec => []ServingInv
  BY ServingInit, ServingStep, PTL DEF Spec
(* Every provider keeps its types, whatever calls overlap and fail.         *)
THEOREM ProvidersTyped == Spec => []TypeOK
<1>1. ServingInv => TypeOK
  BY DEF ServingInv, TypeOK, FcInv, K8sInv, E2bInv, WasmInv
<1> QED BY <1>1, Serves, PTL

(* create with network=false announces a Pod only behind its NetworkPolicy, *)
(* and only the destroy that has marked the Pod takes the policy away.      *)
THEOREM PodsIsolated == Spec => []K8sIsolated
<1>1. ServingInv => K8sIsolated
  BY DEF ServingInv, Idle, K8sInit, K8sInv, AnsweredIsolated, K8sIsolated
<1> QED BY <1>1, Serves, PTL

(* destroy leaves no policy behind but on the paths K8sPolicyReleased names. *)
THEOREM PoliciesReleased == Spec => []K8sPolicyReleased
<1>1. ServingInv => K8sPolicyReleased
  BY DEF ServingInv, Idle, K8sInit, K8sInv, MarkedReleased, GoneMarked, K8sPolicyReleased,
     HandlersOn, K8sTypeOK
<1> QED BY <1>1, Serves, PTL

(* The token cache is stale only in the ways E2bCacheFresh names.           *)
THEOREM CacheFresh == Spec => []E2bCacheFresh
<1>1. ServingInv => E2bCacheFresh
  BY DEF ServingInv, Idle, E2bInit, E2bInv, CachedExcused, Excused, E2bCacheFresh
<1> QED BY <1>1, Serves, PTL

(* No path of Firecracker's create, destroy and gc forgets a running VM but *)
(* the two that FcNoOrphan names, however many calls overlap.               *)
THEOREM NoneForgotten == Spec => []FcNoOrphan
<1>1. ServingInv => FcNoOrphan
  <2> SUFFICES ASSUME ServingInv PROVE FcNoOrphan
    OBVIOUS
  <2>1. CASE serving = "firecracker"
    BY <2>1 DEF ServingInv, FcInv, Custody
  <2>2. CASE serving # "firecracker"
    BY <2>2 DEF ServingInv, Idle, FcInit, FcNoOrphan, FcAlive
  <2> QED BY <2>1, <2>2
<1> QED BY <1>1, Serves, PTL

(* No command that starts after a successful destroy runs, and no sandbox   *)
(* of E2B or WASM is removed twice, for any number of overlapping calls.    *)
THEOREM NoGhosts == Spec => []NoGhostExec
<1>1. ServingInv => NoGhostExec
  BY DEF ServingInv, FcInv, K8sInv, E2bInv, WasmInv, NoGhostExec
<1> QED BY <1>1, Serves, PTL

(* However destroys and gcs overlap, one of them removes a sandbox.         *)
THEOREM OneRemoves == Spec => []RemovedOnce
<1>1. ServingInv => RemovedOnce
  BY DEF ServingInv, E2bInv, EndedGone, WasmInv, RemovedOnce
<1> QED BY <1>1, Serves, PTL

-----------------------------------------------------------------------------
(* The providers implement SandboxLease. A step of it, from what it does to *)
(* the status and the grants of each sandbox.                               *)
Still == given' = given /\ \A b \in Box : Status(b)' = Status(b)

Retires(b) == Status(b) \in {"pooled", "leased"} /\ Status(b)' = "retired"

LEMMA StillStep == Still => UNCHANGED Lease!vars
  BY DEF Still, Lease!vars

LEMMA MakeStep ==
  ASSUME NEW b \in Box, Status(b) = "none", Status(b)' = "pooled", given' = given,
         \A a \in Box \ {b} : Status(a)' = Status(a)
  PROVE  Lease!Next
<1>1. Lease!Make(b)
  BY DEF Lease!Make
<1> QED BY <1>1 DEF Lease!Next

LEMMA GrantStep ==
  ASSUME NEW b \in Box, Status(b) \in {"none", "pooled"}, Status(b)' = "leased",
         given' = [given EXCEPT ![b] = @ + 1],
         \A a \in Box \ {b} : Status(a)' = Status(a)
  PROVE  Lease!Next
<1>1. Lease!LeaseOne(b)
  BY DEF Lease!LeaseOne
<1> QED BY <1>1 DEF Lease!Next

LEMMA RetireStep ==
  ASSUME given' = given,
         \A b \in Box : Status(b)' = Status(b) \/ Retires(b)
  PROVE  Lease!Next
<1> DEFINE S == {b \in Box : Status(b)' # Status(b)}
<1>1. Lease!Retire(S)
  BY DEF Lease!Retire, Retires
<1> QED BY <1>1 DEF Lease!Next

Leases == Lease!Next \/ UNCHANGED Lease!vars

LEMMA FcLeases ==
  ASSUME serving = "firecracker", serving' = serving, FcInv, [FcNext]_fcVars
  PROVE  Leases
<1> CreatesFresh /\ DestroysRecorded /\ FcTypeOK
  BY DEF FcInv, Custody
<1>0. \A b \in Box : Status(b) = FcStatus(b) /\ Status(b)' = FcStatus(b)'
  BY DEF Status
<1> USE <1>0 DEF FcStatus, Retires, Still, Leases, FcTypeOK, CallsOK, callVars, toldVars, sharedVars
<1>1. CASE given' = given /\ fcDir' = fcDir
  BY <1>1, StillStep
<1>2. ASSUME NEW c \in Call, FcRemove(c) PROVE Leases
  <2>1. /\ given' = given
        /\ fcDir[box[c]] \in {"meta", "ruin", "removed"}
        /\ fcDir' = [fcDir EXCEPT ![box[c]] = "removed"]
    BY <1>2 DEF FcRemove, Report, DestroysRecorded
  <2>2. \A b \in Box : Status(b)' = Status(b) \/ Retires(b)
    BY <2>1
  <2> QED BY <2>1, <2>2, RetireStep
<1>3. ASSUME NEW c \in Call, FcRemoveFails(c) PROVE Leases
  <2>1. /\ given' = given /\ fcDir[box[c]] = "meta"
        /\ \E d \in {"meta", "ruin"} : fcDir' = [fcDir EXCEPT ![box[c]] = d]
    BY <1>3 DEF FcRemoveFails
  <2>2. \A b \in Box : Status(b)' = Status(b) \/ Retires(b)
    BY <2>1
  <2> QED BY <2>1, <2>2, RetireStep
<1>4. ASSUME NEW c \in Call, FcSweepStep(c) PROVE Leases
  <2>1. FcRemove(c) \/ FcRemoveFails(c) \/ (given' = given /\ fcDir' = fcDir)
    BY <1>4 DEF FcSweepStep, FcCheck, FcNotFound, FcKill, FcKillFails, FcSweepEnds
  <2> QED BY <1>1, <1>2, <1>3, <2>1
<1>5. ASSUME NEW c \in Client, NEW b \in Box, FcCreate(c, b) PROVE Leases
  <2>1. Status(b) = "none" /\ Status(b)' = "pooled" /\ \A a \in Box \ {b} : Status(a)' = Status(a)
    BY <1>5 DEF FcCreate
  <2> QED BY <1>5, <2>1, MakeStep DEF FcCreate
<1>6. ASSUME NEW c \in Client, FcSpawnFails(c) \/ FcBootFails(c) PROVE Leases
  <2>1. /\ given' = given /\ fcDir[box[c]] = "fresh"
        /\ fcDir' = [fcDir EXCEPT ![box[c]] = "removed"]
    BY <1>6 DEF FcSpawnFails, FcBootFails, CreatesFresh, Creating, Call
  <2>2. \A b \in Box : Status(b)' = Status(b) \/ Retires(b)
    BY <2>1
  <2> QED BY <2>1, <2>2, RetireStep
<1>7. ASSUME NEW c \in Client, FcRecord(c) PROVE Leases
  <2>1. /\ box[c] \in Box /\ fcDir[box[c]] = "fresh"
        /\ given' = [given EXCEPT ![box[c]] = @ + 1]
        /\ fcDir' = [fcDir EXCEPT ![box[c]] = "meta"]
    BY <1>7 DEF FcRecord, Answer, CreatesFresh, Creating, Call
  <2>2. /\ Status(box[c]) = "pooled"
        /\ \A b \in Box : Status(b)' = IF b = box[c] THEN "leased" ELSE Status(b)
    BY <2>1
  <2> QED BY <2>1, <2>2, GrantStep
<1>8. ASSUME NEW c \in Client, FcClientStep(c) PROVE Leases
  <2>1. \/ FcSweepStep(c) \/ \E b \in Box : FcCreate(c, b)
        \/ FcSpawnFails(c) \/ FcBootFails(c) \/ FcRecord(c)
        \/ given' = given /\ fcDir' = fcDir
    BY <1>8 DEF FcClientStep, FcExec, FcDestroy, FcGc, FcCopyFails, FcSpawn, FcBoot,
       FcRecordFails, FcRan, Ran, FcExecFails
  <2> QED BY <1>1, <1>4, <1>5, <1>6, <1>7, <2>1 DEF Call
<1>9. \/ FcLoopStep \/ \E c \in Client : FcClientStep(c)
      \/ given' = given /\ fcDir' = fcDir
  BY DEF FcNext, fcVars, FcCutOff, FcStop, FcStart, FcVmDies, FcExpires, FcPause, FcUnpause
<1>10. FcLoopStep => FcSweepStep(Loop) \/ (given' = given /\ fcDir' = fcDir)
  BY DEF FcLoopStep, FcGc, FcDestroy
<1> QED BY <1>1, <1>4, <1>8, <1>9, <1>10 DEF Call

LEMMA K8sLeases ==
  ASSUME serving = "k8s", serving' = serving, K8sInv, [K8sNext]_k8sVars
  PROVE  Leases
<1> CreatesOnce /\ K8sTypeOK
  BY DEF K8sInv
<1> DEFINE St(p, g) == IF p = "none" THEN "none"
                       ELSE IF p = "gone" THEN "retired" ELSE IF g > 0 THEN "leased" ELSE "pooled"
<1>0. \A b \in Box : Status(b) = St(pod[b], given[b]) /\ Status(b)' = St(pod'[b], given'[b])
  BY DEF Status, Held
<1> USE <1>0 DEF Retires, Still, Leases, K8sTypeOK, CallsOK, k8sOwn, callVars, toldVars, sharedVars
<1>1. CASE given' = given /\ pod' = pod
  BY <1>1, StillStep
<1>2. ASSUME NEW c \in Client, NEW b \in Box, K8sCreate(c, b) PROVE Leases
  <2>1. pod[b] = "none" /\ given[b] = 0 /\ pod' = [pod EXCEPT ![b] = "pending"] /\ given' = given
    BY <1>2 DEF K8sCreate, CreatesOnce
  <2>2. Status(b) = "none" /\ Status(b)' = "pooled" /\ \A a \in Box \ {b} : Status(a)' = Status(a)
    BY <2>1
  <2> QED BY <2>1, <2>2, MakeStep
<1>3. ASSUME NEW c \in Client, K8sReady(c) PROVE Leases
  <2>1. /\ box[c] \in Box /\ pod[box[c]] = "running" /\ given[box[c]] = 0
        /\ given' = [given EXCEPT ![box[c]] = @ + 1] /\ pod' = pod
    BY <1>3 DEF K8sReady, Answer, CreatesOnce, Call
  <2>2. /\ Status(box[c]) = "pooled"
        /\ \A b \in Box : Status(b)' = IF b = box[c] THEN "leased" ELSE Status(b)
    BY <2>1
  <2> QED BY <2>1, <2>2, GrantStep
<1>4. ASSUME NEW b \in Box, K8sCluster(b) PROVE Leases
  <2>1. /\ given' = given /\ pod[b] \notin {"none", "gone"}
        /\ \E q \in {"running", "failed", "gone"} : pod' = [pod EXCEPT ![b] = q]
    BY <1>4 DEF K8sCluster, K8sExists
  <2>2. \A a \in Box : Status(a)' = Status(a) \/ Retires(a)
    BY <2>1
  <2> QED BY <2>1, <2>2, RetireStep
<1>5. \/ \E c \in Client : K8sReady(c) \/ \E b \in Box : K8sCreate(c, b)
      \/ \E b \in Box : K8sCluster(b)
      \/ given' = given /\ pod' = pod
  BY DEF K8sNext, k8sVars, K8sTakeUp, K8sDestroy, K8sPolicy, K8sPolicyFails, K8sGivesUp, K8sGc,
     K8sDeletePod, K8sNoPod, K8sDeletePolicy, K8sDeleteFails, K8sSweepEnds, K8sCutOff,
     K8sDeletedByHand
<1> QED BY <1>1, <1>2, <1>3, <1>4, <1>5

LEMMA E2bLeases ==
  ASSUME serving = "e2b", serving' = serving, E2bInv, [E2bNext]_e2bVars
  PROVE  Leases
<1> EndedGone /\ E2bTypeOK
  BY DEF E2bInv
<1> DEFINE St(p, g) == IF p = "none" THEN "none"
                       ELSE IF p = "gone" THEN "retired" ELSE IF g > 0 THEN "leased" ELSE "pooled"
<1>0. \A b \in Box : Status(b) = St(cloud[b], given[b]) /\ Status(b)' = St(cloud'[b], given'[b])
  BY DEF Status, Held
<1> USE <1>0 DEF Retires, Still, Leases, E2bTypeOK, CallsOK, E2bExists, e2bOwn, callVars, toldVars,
        sharedVars
<1>1. CASE given' = given /\ cloud' = cloud
  BY <1>1, StillStep
<1>2. ASSUME NEW c \in Client, NEW b \in Box, E2bCreate(c, b) PROVE Leases
  <2>1. /\ cloud[b] = "none" /\ given[b] = 0
        /\ given' = [given EXCEPT ![b] = @ + 1] /\ cloud' = [cloud EXCEPT ![b] = "up"]
    BY <1>2 DEF E2bCreate, Answer, EndedGone
  <2>2. Status(b) = "none" /\ \A a \in Box : Status(a)' = IF a = b THEN "leased" ELSE Status(a)
    BY <2>1
  <2> QED BY <2>1, <2>2, GrantStep
<1>3. ASSUME NEW c \in Client, NEW b \in Box, E2bCreateFails(c, b) PROVE Leases
  <2>1. /\ cloud[b] = "none" /\ given[b] = 0
        /\ given' = given /\ cloud' = [cloud EXCEPT ![b] = "up"]
    BY <1>3 DEF E2bCreateFails, EndedGone
  <2>2. Status(b) = "none" /\ Status(b)' = "pooled" /\ \A a \in Box \ {b} : Status(a)' = Status(a)
    BY <2>1
  <2> QED BY <2>1, <2>2, MakeStep
<1>7. ASSUME NEW b \in Box, given' = given, E2bExists(b),
             \E q \in {"up", "paused", "gone"} : cloud' = [cloud EXCEPT ![b] = q]
      PROVE  Leases
  <2>1. \A a \in Box : Status(a)' = Status(a) \/ Retires(a)
    BY <1>7
  <2> QED BY <1>7, <2>1, RetireStep
<1>4. ASSUME NEW b \in Box, E2bTimesOut(b) \/ E2bPause(b) PROVE Leases
  BY <1>4, <1>7 DEF E2bTimesOut, E2bPause
<1>5. ASSUME NEW c \in Client, NEW b \in Box,
             E2bDelete(c, b) \/ E2bDeleteFails(c, b) \/ E2bUnpause(c, b)
      PROVE  Leases
  BY <1>5, <1>7 DEF E2bDelete, E2bDeleteFails, E2bUnpause
<1>6. \/ \E c \in Client, b \in Box :
           \/ E2bCreate(c, b) \/ E2bCreateFails(c, b)
           \/ E2bDelete(c, b) \/ E2bDeleteFails(c, b) \/ E2bUnpause(c, b)
      \/ \E b \in Box : E2bTimesOut(b) \/ E2bPause(b)
      \/ given' = given /\ cloud' = cloud
  <2>1. ASSUME NEW c \in Client, NEW b \in Box, E2bHit(c, b) \/ E2bMiss(c, b) \/ E2bNotFound(c, b)
        PROVE  given' = given /\ cloud' = cloud
    BY <2>1 DEF E2bHit, E2bMiss, E2bNotFound
  <2>2. ASSUME NEW c \in Client, NEW S, E2bDestroy(c, S) PROVE given' = given /\ cloud' = cloud
    BY <2>2 DEF E2bDestroy
  <2>3. ASSUME NEW c \in Client, E2bStore(c) \/ E2bFetched(c) \/ E2bRan(c) \/ E2bExecFails(c)
        PROVE  given' = given /\ cloud' = cloud
    BY <2>3 DEF E2bStore, E2bFetched, E2bRan, Ran, E2bExecFails
  <2>4. ASSUME NEW c \in Client, E2bEvict(c) \/ E2bSweepEnds(c) \/ E2bCutOff(c)
        PROVE  given' = given /\ cloud' = cloud
    BY <2>4 DEF E2bEvict, Report, E2bSweepEnds, E2bCutOff
  <2>5. E2bRestart \/ UNCHANGED e2bVars => given' = given /\ cloud' = cloud
    BY DEF E2bRestart, e2bVars
  <2> QED BY <2>1, <2>2, <2>3, <2>4, <2>5 DEF E2bNext
<1> QED BY <1>1, <1>2, <1>3, <1>4, <1>5, <1>6

LEMMA WasmLeases ==
  ASSUME serving = "wasm", serving' = serving, WasmInv, [WasmNext]_wasmVars
  PROVE  Leases
<1>0. \A b \in Box :
        /\ Status(b) = IF b \in registry THEN "leased" ELSE IF given[b] = 0 THEN "none" ELSE "retired"
        /\ Status(b)' = IF b \in registry' THEN "leased"
                        ELSE IF given'[b] = 0 THEN "none" ELSE "retired"
  BY DEF Status
<1> USE <1>0 DEF WasmInv, Retires, Still, Leases, WasmTypeOK, CallsOK, wasmOwn, callVars, toldVars,
        sharedVars
<1>1. CASE given' = given /\ registry' \subseteq registry
  <2>1. \A b \in Box : Status(b)' = Status(b) \/ Retires(b)
    BY <1>1
  <2> QED BY <1>1, <2>1, RetireStep
<1>2. ASSUME NEW c \in Client, NEW b \in Box, WasmCreate(c, b) PROVE Leases
  <2>1. /\ given[b] = 0 /\ b \notin registry /\ registry' = registry \cup {b}
        /\ given' = [given EXCEPT ![b] = @ + 1]
    BY <1>2 DEF WasmCreate, Answer
  <2>2. Status(b) = "none" /\ \A a \in Box : Status(a)' = IF a = b THEN "leased" ELSE Status(a)
    BY <2>1
  <2> QED BY <2>1, <2>2, GrantStep
<1>3. \/ \E c \in Client, b \in Box : WasmCreate(c, b)
      \/ given' = given /\ registry' \subseteq registry
  BY DEF WasmNext, wasmVars, WasmExec, WasmDestroy, WasmRemove, Report, WasmNotFound, WasmRan, Ran,
     WasmExecFails, WasmTimesOut, WasmSweepEnds, WasmGc, WasmThreadEnds, WasmExpires, WasmRestart
<1> QED BY <1>1, <1>2, <1>3

(* create, destroy and gc of every provider implement SandboxLease: no id   *)
(* is answered to two creates and none comes back after it is gone.         *)
THEOREM ProvidersImplement == Spec => LeaseSpec
<1>1. Init => Lease!Init
  BY DEF Init, CallsInit, FcInit, K8sInit, E2bInit, WasmInit, Lease!Init, Status, FcStatus
<1>2. ServingInv /\ [Next]_vars => [Lease!Next]_Lease!vars
  <2> SUFFICES ASSUME ServingInv, [Next]_vars PROVE Leases
    BY DEF Leases
  <2>0. serving' = serving
    BY DEF Next, vars
  <2> USE <2>0 DEF ServingInv, Next, vars, fcOwn, k8sOwn, e2bOwn, wasmOwn
  <2>1. CASE serving = "firecracker"
    BY <2>1, FcLeases DEF fcVars
  <2>2. CASE serving = "k8s"
    BY <2>2, K8sLeases DEF k8sVars
  <2>3. CASE serving = "e2b"
    BY <2>3, E2bLeases DEF e2bVars
  <2>4. CASE serving = "wasm"
    BY <2>4, WasmLeases DEF wasmVars
  <2> QED BY <2>1, <2>2, <2>3, <2>4
<1> QED BY <1>1, <1>2, Serves, PTL DEF Spec, LeaseSpec, Lease!Spec
=============================================================================
