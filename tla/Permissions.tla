---------------------------- MODULE Permissions ----------------------------
(***************************************************************************)
(* SessionManager: sessions by id, the permissions each records and the     *)
(* agents that share it. The map is behind a mutex, so every call is one    *)
(* step, but the id of a new session is the clock in nanoseconds, read      *)
(* outside of it: two calls on two threads can read the same time, and the  *)
(* clock can be set back. Budgets are ExecService's.                        *)
(*                                                                         *)
(* DynamicPermissions is a switch and a list twice, network with its hosts  *)
(* and writable with its paths; the two are independent fields, and a       *)
(* behaviour looks at one of them. A list is asked whether it is empty and  *)
(* holds a name, it is appended to and filtered by name: its order is never *)
(* looked at, so it is the number of times each name occurs in it.          *)
(***************************************************************************)
EXTENDS Naturals

CONSTANTS
  Name,       (* hosts, or paths                                            *)
  Caller,     (* each creates one session and keeps its id                  *)
  Agent,
  MaxTime,    (* bound: the last reading of the clock                       *)
  MaxList,    (* bound: how often a list a session is created with repeats  *)
              (* a name                                                     *)
  NoSession

VARIABLES
  aspect,     (* "network" or "files"                                       *)
  clock,
  sessions,   (* id -> record; the ids are readings of the clock            *)
  ids,        (* the id each caller was given                               *)
  read,       (* history: the readings creations have taken                 *)
  reused,     (* history: some reading has been taken twice                 *)
  revoked     (* history: the names each caller denied and did not allow    *)

permVars == <<aspect, clock, sessions, ids, read, reused, revoked>>

Time == 0 .. MaxTime

Perms(counts) == [on : BOOLEAN, list : [Name -> counts]]
Session == [owner : Caller, perms : Perms(Nat), agents : SUBSET Agent]

ASSUME PermissionsAssumption ==
  /\ MaxTime \in Nat /\ MaxList \in Nat
  /\ NoSession \notin Time /\ NoSession \notin Session

Holds(list, n) == list[n] > 0
Empty(list) == \A n \in Name : ~Holds(list, n)

Known(c) == ids[c] # NoSession /\ sessions[ids[c]] # NoSession
Mine(c) == sessions[ids[c]].perms

(* "Empty + enabled = unrestricted", for hosts and for paths.               *)
Grants(p, n) == p.on /\ (Empty(p.list) \/ Holds(p.list, n))

PermInit ==
  /\ aspect \in {"network", "files"}
  /\ clock = 0
  /\ sessions = [t \in Time |-> NoSession]
  /\ ids = [c \in Caller |-> NoSession]
  /\ read = {} /\ reused = FALSE
  /\ revoked = [c \in Caller |-> {}]

(* The clock advances, or is set back.                                      *)
Tick ==
  /\ \E t \in Time \ {clock} : clock' = t
  /\ UNCHANGED <<aspect, sessions, ids, read, reused, revoked>>

(* Mutant: the id is taken from a coarser clock.                            *)
NewIdCoarse == 2 * (clock \div 2)

(* uuid_v4_short.                                                           *)
NewId == clock

(* create: inserts the session under its id, whatever is there.             *)
CreateSession(c, p) ==
  /\ ids[c] = NoSession
  /\ sessions' = [sessions EXCEPT ![NewId] = [owner |-> c, perms |-> p, agents |-> {}]]
  /\ ids' = [ids EXCEPT ![c] = NewId]
  /\ read' = read \cup {clock}
  /\ reused' = (reused \/ clock \in read)
  /\ UNCHANGED <<aspect, clock, revoked>>

(* change_permissions, on a session that is found.                          *)
Change(c, p) ==
  /\ Known(c)
  /\ sessions' = [sessions EXCEPT ![ids[c]].perms = p]
  /\ UNCHANGED <<aspect, clock, ids, read, reused>>

Push(list, n) == IF Holds(list, n) THEN list ELSE [list EXCEPT ![n] = @ + 1]

(* retain(|h| h != name).                                                   *)
Retain(list, n) == [list EXCEPT ![n] = 0]

(* AllowHost, AllowPath.                                                    *)
Allow(c, n) ==
  /\ Change(c, [on |-> TRUE, list |-> Push(Mine(c).list, n)])
  /\ revoked' = [revoked EXCEPT ![c] = @ \ {n}]

(* DenyHost, DenyPath: the switch stays as it is.                           *)
Deny(c, n) ==
  /\ Change(c, [Mine(c) EXCEPT !.list = Retain(@, n)])
  /\ revoked' = [revoked EXCEPT ![c] = @ \cup {n}]

EnableNetwork(c) ==
  /\ aspect = "network"
  /\ Change(c, [Mine(c) EXCEPT !.on = TRUE])
  /\ UNCHANGED revoked

DisableNetwork(c) ==
  /\ aspect = "network"
  /\ Change(c, [on |-> FALSE, list |-> [n \in Name |-> 0]])
  /\ UNCHANGED revoked

(* join_session, leave_session.                                             *)
Share(c, a) ==
  /\ Known(c)
  /\ \E set \in {sessions[ids[c]].agents \cup {a}, sessions[ids[c]].agents \ {a}} :
       sessions' = [sessions EXCEPT ![ids[c]].agents = set]
  /\ UNCHANGED <<aspect, clock, ids, read, reused, revoked>>

(* destroy: whoever has the id removes what is there.                       *)
DestroySession(c) ==
  /\ Known(c)
  /\ sessions' = [sessions EXCEPT ![ids[c]] = NoSession]
  /\ UNCHANGED <<aspect, clock, ids, read, reused, revoked>>

PermNext ==
  \/ Tick
  \/ \E c \in Caller :
       \/ \E p \in Perms(0 .. MaxList) : CreateSession(c, p)
       \/ \E n \in Name : Allow(c, n) \/ Deny(c, n)
       \/ EnableNetwork(c) \/ DisableNetwork(c)
       \/ \E a \in Agent : Share(c, a)
       \/ DestroySession(c)

-----------------------------------------------------------------------------
PermTypeOK ==
  /\ aspect \in {"network", "files"}
  /\ clock \in Time /\ read \subseteq Time /\ reused \in BOOLEAN
  /\ ids \in [Caller -> Time \cup {NoSession}]
  /\ revoked \in [Caller -> SUBSET Name]
  /\ sessions \in [Time -> Session \cup {NoSession}]

(* While no two creations read the same time, the session an id stands for  *)
(* is the one its holder created: nobody else's creation replaces it, no    *)
(* other holder changes or destroys it.                                     *)
SessionKept == ~reused => \A c \in Caller : Known(c) => sessions[ids[c]].owner = c

(* A host or path a caller revoked and did not allow again is not granted   *)
(* by its session: "Revoke network access to a host". It is, once the list  *)
(* has run empty: denying the last host of an enabled network grants all.   *)
RevokedGone ==
  ~reused => \A c \in Caller : Known(c) => \A n \in revoked[c] : ~Grants(Mine(c), n)
=============================================================================
