--------------------------- MODULE RequestsProofs ---------------------------
(***************************************************************************)
(* The properties of Requests, for any hosts, paths, keyword paths,         *)
(* registries, names, callers, agents, exit codes and lengths of clock and  *)
(* output.                                                                 *)
(*                                                                         *)
(* Each part has an inductive invariant, kept by its own steps. Made says   *)
(* of each stage of a request which request is being served and how its     *)
(* sandbox was set up; the properties of Confinement follow from it by      *)
(* looking at the capability table, row by row. PermInv ties the ids of     *)
(* sessions to the readings of the clock. StreamInv is ExecStreamsProofs'.  *)
(***************************************************************************)
EXTENDS Requests, ExecStreamsProofs

Home == DefaultProvider(request.provider)

Listed == request.network /\ request.network_allowlist # {}

(* How a finished sandbox relates to its request: it comes from a Docker    *)
(* pool, or it was set up for the request, its reach filtered or not.       *)
FromPool == /\ Home = "docker" /\ ~Bypassed(request)
            /\ box.writes = {} /\ box.reach = {}

SetUp == /\ Valid(request, Caps[Home])
         /\ box.writes = Writes(Home, request)
         /\ \/ box.reach = Reach(Home, request)
            \/ Home = "docker" /\ Listed /\ box.reach \subseteq Left(request.network_allowlist)
         /\ Home = "docker" /\ Listed /\ box.filtered
              => box.reach \subseteq Left(request.network_allowlist)

Derived == code \in Code /\ request = FromIntent(code)

Made ==
  /\ stage \in {"none", "asked", "filter", "made", "refused"}
  /\ stage = "none" => code = NoCode
  /\ stage # "none" => request \in Config /\ transport \in {"grpc", "cli"}
  /\ code # NoCode => Derived
  /\ stage # "made" => answer = "none"
  /\ answer \in {"none", "ran", "lost"}
  /\ stage = "filter" =>
       /\ Home = "docker" /\ Valid(request, Caps["docker"]) /\ Listed
       /\ box = Sandbox("docker", request)
  /\ stage = "made" => box.provider = Home /\ (FromPool \/ SetUp)
  /\ stage = "refused" => ~Sendable \/ ~Valid(request, Caps[Home])
  /\ RunsWhereMade

-----------------------------------------------------------------------------
(* run() always ends up with Docker: WASM is never found available.         *)
LEMMA RunsOnDocker == \A t : RunProvider(t) = "docker"
  BY DEF RunProvider, Hint, Available

LEMMA HostsAreHosts == ASSUME NEW t \in Code PROVE Hosts(t) \in SUBSET Host
<1>1. Registry["pip"] \in SUBSET Host /\ \A m \in Managers : Registry[m] \in SUBSET Host
  BY ConfinementAssumption DEF Managers
<1>2. Packages(t) \in SUBSET Managers
  BY DEF Packages, Code, Managers, Manager
<1>3. Registries(t) \in SUBSET Host
  BY <1>1, <1>2 DEF Registries
<1> QED BY <1>3 DEF Hosts, Code

(* The request run() derives from code is a configuration.                  *)
LEMMA IntentConfig ==
  ASSUME NEW t \in Code
  PROVE  FromIntent(t) \in Config
<1>1. Hosts(t) \in SUBSET Host
  BY HostsAreHosts
<1>2. Paths(t) \in SUBSET (Path \cup {Root})
  BY ConfinementAssumption DEF Paths, Spotted, Code
<1>3. NeedsNetwork(t) \in BOOLEAN /\ t.write \in BOOLEAN /\ Memory(t) \in BOOLEAN
  BY DEF NeedsNetwork, Memory, Code
<1>4. {} \in MountSet /\ RunProvider(t) \in Provider
  BY RunsOnDocker DEF MountSet, Provider
<1> QED BY <1>1, <1>2, <1>3, <1>4 DEF FromIntent, Config

LEMMA HomeProvider == ASSUME request \in Config PROVE Home \in Provider
  BY DEF Home, DefaultProvider, Config, Provider

(* Whatever the code, Docker accepts the request.                           *)
LEMMA IntentValid == \A t : Valid(FromIntent(t), Caps["docker"])
  BY DEF Valid, FromIntent, Caps, Row, S, N, R, U

(* Only a Docker pool can make the configuration of the pool: Firecracker   *)
(* requires a kernel.                                                       *)
LEMMA PoolIsDocker ==
  ASSUME NEW p \in {"docker", "firecracker"}, Valid(Pooled(p), Caps[p])
  PROVE  p = "docker"
  BY DEF Valid, Pooled, Caps, Row, S, N, R, U

LEMMA DerivedNamed == ASSUME Derived PROVE request.provider = "docker" /\ Home = "docker"
  BY RunsOnDocker DEF Derived, FromIntent, Home, DefaultProvider

LEMMA MadeInit == ConfInit => Made
  BY DEF ConfInit, Made, RunsWhereMade

(* Every step keeps Made.                                                   *)
LEMMA MadeStep == Made /\ [ConfNext]_confVars => Made'
<1> SUFFICES ASSUME Made, [ConfNext]_confVars PROVE Made'
  OBVIOUS
<1>1. ASSUME stage = "none", NEW by \in {"grpc", "cli"}, NEW c \in Config, Ask(c, by)
      PROVE  Made'
  BY <1>1 DEF Ask, Made, RunsWhereMade
<1>2. ASSUME stage = "none", NEW by \in {"grpc", "cli"}, NEW t \in Code, RunCode(t, by)
      PROVE  Made'
  <2>1. request' \in Config /\ Derived'
    BY <1>2, IntentConfig DEF RunCode, Derived
  <2> QED BY <1>2, <2>1 DEF RunCode, Made, RunsWhereMade
<1>3. CASE PoolHit
  <2>1. Home = "docker" /\ box' = Sandbox("docker", Pooled("docker"))
    BY <1>3, PoolIsDocker DEF PoolHit, Make, Home
  <2>2. box'.provider = "docker" /\ box'.writes = {} /\ box'.reach = {}
    BY <2>1 DEF Sandbox, Writes, DockerWrites, ReadOnlyRoot, Tmpfs, Mounted, Reach, Pooled
  <2>3. UNCHANGED <<transport, request, code, answer>> /\ stage' = "made" /\ stage = "asked"
    BY <1>3 DEF PoolHit, Make
  <2>4. FromPool'
    BY <1>3, <2>1, <2>2, <2>3 DEF PoolHit, FromPool, Home
  <2> QED BY <2>1, <2>2, <2>3, <2>4 DEF Made, Derived, Home, RunsWhereMade
<1>4. CASE Refuse
  BY <1>4 DEF Refuse, Make, Made, Derived, Home, Sendable, RunsWhereMade
<1>5. CASE CreateDocker
  <2>1. /\ UNCHANGED <<transport, request, code, answer>> /\ stage = "asked"
        /\ Home = "docker" /\ Valid(request, Caps["docker"])
        /\ box' = Sandbox("docker", request)
        /\ stage' = IF Listed THEN "filter" ELSE "made"
    BY <1>5 DEF CreateDocker, Created, Make, Home, Listed
  <2>2. /\ box'.provider = "docker" /\ box'.writes = Writes("docker", request)
        /\ box'.reach = Reach("docker", request)
    BY <2>1 DEF Sandbox
  <2>3. Home' = "docker" /\ (Listed' <=> Listed)
    BY <2>1 DEF Home, Listed
  <2>4. stage' = "made" => SetUp'
    BY <2>1, <2>2, <2>3 DEF SetUp
  <2> QED BY <2>1, <2>2, <2>3, <2>4 DEF Made, Derived, RunsWhereMade
<1>6. CASE CreateOther
  <2> PICK p \in Provider \ {"docker"} : Created(p) /\ Make("made", Sandbox(p, request))
    BY <1>6 DEF CreateOther
  <2>1. /\ UNCHANGED <<transport, request, code, answer>> /\ stage = "asked" /\ stage' = "made"
        /\ Home = p /\ Home' = p /\ Valid(request, Caps[p])
        /\ box' = Sandbox(p, request)
    BY DEF Created, Make, Home
  <2>2. box'.provider = p /\ box'.writes = Writes(p, request) /\ box'.reach = Reach(p, request)
    BY <2>1 DEF Sandbox
  <2>3. SetUp'
    BY <2>1, <2>2 DEF SetUp
  <2> QED BY <2>1, <2>2, <2>3 DEF Made, Derived, RunsWhereMade
<1>7. CASE Filter
  <2>1. /\ UNCHANGED <<transport, request, code, answer>> /\ stage = "filter" /\ stage' = "made"
        /\ Home = "docker" /\ Home' = "docker" /\ Listed /\ Listed'
        /\ Valid(request, Caps["docker"]) /\ box = Sandbox("docker", request)
    BY <1>7 DEF Filter, Make, Made, Home, Listed
  <2>2. /\ box.provider = "docker" /\ box.writes = Writes("docker", request)
        /\ box.reach = Reach("docker", request)
    BY <2>1 DEF Sandbox
  <2>3. /\ box'.provider = "docker" /\ box'.writes = box.writes
        /\ \/ box'.reach = box.reach /\ box'.filtered = FALSE
           \/ box'.reach = Host \X {"ip6"}
           \/ \E open \in SUBSET request.network_allowlist : box'.reach = Left(open)
    BY <1>7, <2>1 DEF Filter, Make, Sandbox
  <2>4. /\ Host \X {"ip6"} \subseteq Left(request.network_allowlist)
        /\ \A open \in SUBSET request.network_allowlist :
             Left(open) \subseteq Left(request.network_allowlist)
    BY DEF Left
  <2>5. \/ box'.reach = Reach("docker", request) /\ box'.filtered = FALSE
        \/ box'.reach \subseteq Left(request.network_allowlist)
    BY <2>2, <2>3, <2>4
  <2>6. SetUp'
    BY <2>1, <2>2, <2>3, <2>5 DEF SetUp
  <2> QED BY <2>1, <2>3, <2>6 DEF Made, Derived, RunsWhereMade
<1>8. ASSUME NEW by \in {"object", "id"}, Exec(by)
      PROVE  Made'
  <2>1. /\ UNCHANGED <<stage, transport, request, code, box>>
        /\ stage = "made" /\ transport \in {"grpc", "cli"} /\ sender' = by
        /\ code # NoCode => by = "object"
    BY <1>8 DEF Exec, Made
  <2>2. PICK p \in Named(by), inline \in BOOLEAN, hint \in {"docker", "wasm"} :
          answer' = IF Resolve(p, inline, hint) = box.provider THEN "ran" ELSE "lost"
    BY <1>8 DEF Exec
  <2>3. box.provider = Home
    BY <2>1 DEF Made
  <2>4. RunsWhereMade'
    <3>1. CASE transport = "cli"
      <4>1. p = "docker"
        BY <3>1 DEF Named
      <4>2. answer' = "lost" => box.provider # "docker"
        BY <2>2, <4>1 DEF Resolve
      <4>3. code # NoCode => box.provider = "docker"
        BY <2>3, DerivedNamed DEF Made
      <4> QED BY <2>1, <3>1, <4>2, <4>3 DEF RunsWhereMade
    <3>2. CASE transport = "grpc" /\ by = "object"
      <4>1. p = request.provider
        BY <3>2 DEF Named
      <4>2. answer' = "lost" => request.provider = "" /\ box.provider = "docker"
        BY <2>2, <2>3, <4>1 DEF Resolve, Home, DefaultProvider
      <4>3. code # NoCode => request.provider = "docker"
        BY DerivedNamed DEF Made
      <4> QED BY <2>1, <3>2, <4>2, <4>3 DEF RunsWhereMade
    <3>3. CASE transport = "grpc" /\ by = "id"
      BY <2>1, <3>3 DEF RunsWhereMade
    <3> QED BY <2>1, <3>1, <3>2, <3>3
  <2> QED BY <2>1, <2>2, <2>4 DEF Made, Derived, Home, Listed, FromPool, SetUp
<1>9. CASE Done
  BY <1>9 DEF Done, Made, RunsWhereMade
<1>10. CASE UNCHANGED confVars
  BY <1>10 DEF confVars, Made, Derived, Home, Listed, FromPool, SetUp, Sendable, RunsWhereMade
<1> QED
  BY <1>1, <1>2, <1>3, <1>4, <1>5, <1>6, <1>7, <1>8, <1>9, <1>10 DEF ConfNext

(* A step of the whole is a step of the part that moves, and none of the    *)
(* others'.                                                                 *)
LEMMA PartStep ==
  [Next]_vars => /\ [ConfNext]_confVars /\ [PermNext]_permVars /\ [StreamNext]_streamVars
<1> SUFFICES ASSUME [Next]_vars
             PROVE  [ConfNext]_confVars /\ [PermNext]_permVars /\ [StreamNext]_streamVars
  OBVIOUS
<1>1. CASE UNCHANGED vars
  BY <1>1 DEF vars
<1>2. CASE Next
  BY <1>2 DEF Next
<1> QED BY <1>1, <1>2

LEMMA PartInit == Init => ConfInit /\ PermInit /\ StreamInit
  BY DEF Init

LEMMA AlwaysMade == Spec => []Made
<1>1. Init => Made
  BY PartInit, MadeInit
<1>2. Made /\ [Next]_vars => Made'
  BY PartStep, MadeStep
<1> QED BY <1>1, <1>2, PTL DEF Spec

-----------------------------------------------------------------------------
(* Docker's own mechanism, tmpfs over a read-only root and volumes on top,  *)
(* gives a request no file it did not ask for.                              *)
LEMMA DockerFiles ==
  ASSUME NEW c \in Config
  PROVE  DockerWrites(c) \subseteq AskedWrites(c)
<1>1. c.fs_paths \in SUBSET (Path \cup {Root})
  BY DEF Config
<1>2. Tmpfs(c) \subseteq IF Root \in c.fs_paths THEN Path ELSE c.fs_paths
  BY <1>1 DEF Tmpfs
<1> QED BY <1>2 DEF DockerWrites, ReadOnlyRoot, AskedWrites

(* No sandbox exceeds its request but by a list or a mount its provider     *)
(* declares ignored, an iptables script that failed at its first rule, the  *)
(* DNS port and the IPv6 addresses the script leaves open, or a Pod's       *)
(* scratch directory.                                                       *)
THEOREM NeverWider == Spec => []Confined
<1>1. Made => Confined
  <2> SUFFICES ASSUME Made, stage = "made" PROVE Confined
    BY DEF Confined
  <2>1. Home \in Provider /\ box.provider = Home /\ request \in Config
    BY HomeProvider DEF Made
  <2>2. CASE FromPool
    BY <2>1, <2>2 DEF FromPool, Confined
  <2>3. CASE SetUp
    <3>1. CASE Home = "docker"
      <4>1. box.writes \subseteq AskedWrites(request)
        BY <2>1, <2>3, <3>1, DockerFiles DEF SetUp, Writes
      <4>2. CASE ~Listed
        <5>1. box.reach = AskedReach(request)
          BY <2>3, <3>1, <4>2 DEF SetUp, Listed, Reach, AskedReach
        <5> QED BY <2>1, <3>1, <4>1, <5>1 DEF Confined
      <4>3. CASE Listed
        <5>1. Left(request.network_allowlist)
                \subseteq AskedReach(request) \cup (Host \X {"dns", "ip6"})
          BY <4>3 DEF Left, Listed, AskedReach
        <5>2. ~box.filtered \/ box.reach \subseteq AskedReach(request) \cup (Host \X {"dns", "ip6"})
          BY <2>3, <3>1, <4>3, <5>1 DEF SetUp
        <5> QED BY <2>1, <3>1, <4>1, <4>3, <5>2 DEF Confined, Listed
      <4> QED BY <4>2, <4>3
    <3>2. CASE Home # "docker"
      <4>1. \/ box.reach \subseteq AskedReach(request)
            \/ Listed /\ Caps[Home].network_allowlist = N
        BY <2>1, <2>3, <3>2
           DEF SetUp, Listed, Reach, AskedReach, Provider, Valid, Caps, Row, S, N, R, U
      <4>2. CASE Home = "firecracker"
        BY <2>1, <2>3, <4>1, <4>2
           DEF SetUp, Confined, Listed, Writes, AskedWrites, Mounted, Caps, Row, S, N, R, U
      <4>3. CASE Home = "k8s"
        BY <2>1, <2>3, <4>1, <4>3
           DEF SetUp, Confined, Listed, Writes, AskedWrites, Mounted, Valid, Caps, Row, S, N, R, U
      <4>4. CASE Home = "e2b"
        BY <2>1, <2>3, <4>1, <4>4
           DEF SetUp, Confined, Listed, Writes, AskedWrites, Mounted, Valid, Caps, Row, S, N, R, U
      <4>5. CASE Home = "wasm"
        BY <2>1, <2>3, <4>1, <4>5 DEF SetUp, Confined, Listed, Writes, AskedWrites
      <4> QED BY <2>1, <3>2, <4>2, <4>3, <4>4, <4>5 DEF Provider
    <3> QED BY <3>1, <3>2
  <2> QED BY <2>2, <2>3 DEF Made
<1> QED BY <1>1, AlwaysMade, PTL

(* Every command of run() reaches its sandbox, over either transport, and   *)
(* every other one but the CLI's outside Docker, one sent by id with the    *)
(* sender's own default, and one with no provider named.                    *)
THEOREM ReachesHome == Spec => []RunsWhereMade
<1>1. Made => RunsWhereMade
  BY DEF Made
<1> QED BY <1>1, AlwaysMade, PTL

(* What a derived request asks for.                                         *)
LEMMA IntentAsks ==
  ASSUME Derived
  PROVE  /\ request.network = (NeedsNetwork(code) \/ Hosts(code) # {})
         /\ request.network_allowlist = Hosts(code)
         /\ request.fs_paths = Paths(code)
         /\ AskedWrites(request) = Paths(code)
         /\ DockerWrites(request) = Paths(code)
         /\ code.write => Bypassed(request)
<1>1. /\ request.network = (NeedsNetwork(code) \/ Hosts(code) # {})
      /\ request.network_allowlist = Hosts(code)
      /\ request.writable = (code.write \/ Paths(code) # {})
      /\ request.fs_paths = Paths(code) /\ request.mounts = {}
  BY DEF Derived, FromIntent
<1>2. Paths(code) \in SUBSET Path /\ Root \notin Path
  BY ConfinementAssumption DEF Derived, Paths, Spotted, Code
<1>3. code.write <=> Paths(code) # {}
  BY DEF Paths
<1>4. AskedWrites(request) = Paths(code)
  BY <1>1, <1>2, <1>3 DEF AskedWrites, Mounted
<1>5. DockerWrites(request) = Paths(code)
  BY <1>1, <1>2, <1>3 DEF DockerWrites, ReadOnlyRoot, Tmpfs, Mounted
<1> QED BY <1>1, <1>4, <1>5 DEF Bypassed

(* The request made for a piece of code is accepted, unless the CLI cannot  *)
(* pass its lists on, and serves the code.                                  *)
THEOREM CodeServed == Spec => []IntentServed
<1>1. Made => IntentServed
  <2> SUFFICES ASSUME Made, code # NoCode PROVE IntentServed
    BY DEF IntentServed
  <2>1. Derived /\ stage # "none" /\ code \in Code /\ Home = "docker"
    BY DerivedNamed DEF Made, Derived
  <2>2. ASSUME stage = "refused"
        PROVE  /\ transport = "cli"
               /\ code.write \/ code.hosts # {} \/ code.heavy \/ code.installs # {}
    <3>1. ~Sendable
      BY <2>1, <2>2, IntentValid DEF Made, Derived
    <3>2. transport = "cli" /\ (Hosts(code) # {} \/ Paths(code) # {})
      BY <2>1, <3>1, IntentAsks DEF Sendable
    <3>3. ~code.heavy /\ code.installs = {} => Registries(code) = {}
      BY DEF Registries, Packages
    <3> QED BY <3>2, <3>3 DEF Hosts, Paths
  <2>3. code.hosts \X Channel \subseteq AskedReach(request)
    <3>1. code.hosts \subseteq Hosts(code) /\ code.hosts \in SUBSET Host
      BY <2>1 DEF Hosts, Code
    <3> QED BY <2>1, <3>1, IntentAsks DEF AskedReach, NeedsNetwork
  <2>4. ASSUME code.write, stage = "made"
        PROVE  /\ box.writes # {} /\ code.paths \cap KwPath \subseteq box.writes
               /\ code.language = "python" /\ code.parses => code.paths \subseteq box.writes
    <3>1. box.writes = Paths(code)
      BY <2>1, <2>4, IntentAsks DEF Made, FromPool, SetUp, Writes
    <3>2. Paths(code) # {} /\ Spotted(code) \subseteq Paths(code)
      BY <2>4 DEF Paths
    <3>3. /\ code.paths \cap KwPath \subseteq Spotted(code)
          /\ code.language = "python" /\ code.parses => Spotted(code) = code.paths
      BY DEF Spotted, Ast
    <3> QED BY <3>1, <3>2, <3>3
  <2> QED BY <2>2, <2>3, <2>4 DEF IntentServed
<1> QED BY <1>1, AlwaysMade, PTL

(* The request made for a piece of code asks for no more than it needs, but *)
(* for the network of code that names no host and no registry is known for. *)
THEOREM CodeFrugal == Spec => []IntentFrugal
<1>1. Made => IntentFrugal
  <2> SUFFICES ASSUME Made, code # NoCode PROVE IntentFrugal
    BY DEF IntentFrugal
  <2>1. Derived /\ code \in Code
    BY DEF Made, Derived
  <2> DEFINE used == code.installs \cup (IF code.heavy THEN {"pip"} ELSE {})
             own == code.hosts \cup UNION {Registry[m] : m \in used}
  <2>2. Hosts(code) \subseteq own
    <3>1. Registries(code) \subseteq UNION {Registry[m] : m \in used}
      BY DEF Registries, Packages
    <3> QED BY <3>1 DEF Hosts
  <2>3. CASE Hosts(code) # {} \/ ~NeedsNetwork(code)
    <3>1. AskedReach(request) \subseteq own \X Channel
      BY <2>1, <2>2, <2>3, IntentAsks DEF AskedReach
    <3>2. AskedWrites(request) \subseteq code.paths \cup {Tmp}
      BY <2>1, IntentAsks DEF Paths, Spotted
    <3>3. ~code.write => AskedWrites(request) = {}
      BY <2>1, IntentAsks DEF Paths
    <3> QED BY <3>1, <3>2, <3>3 DEF IntentFrugal
  <2>4. CASE Hosts(code) = {} /\ NeedsNetwork(code)
    <3>1. code.hosts = {} /\ (code.net \/ Packages(code) # {}) /\ Registries(code) = {}
      BY <2>4 DEF Hosts, NeedsNetwork
    <3>2. code.language = "python" /\ code.parses => ~code.heavy
      BY <3>1, ConfinementAssumption DEF Registries, Ast
    <3>3. code.net \/ code.installs # {}
      <4> SUFFICES ASSUME ~code.net, code.installs = {} PROVE FALSE
        OBVIOUS
      <4>1. code.heavy /\ "pip" \in Packages(code) /\ ~Ast(code)
        BY <3>1, <3>2 DEF Packages, Ast
      <4>2. Registry["pip"] \subseteq Registries(code)
        BY <4>1 DEF Registries
      <4> QED BY <3>1, <4>2, ConfinementAssumption
    <3>4. AskedWrites(request) \subseteq code.paths \cup {Tmp}
      BY <2>1, IntentAsks DEF Paths, Spotted
    <3>5. ~code.write => AskedWrites(request) = {}
      BY <2>1, IntentAsks DEF Paths
    <3> QED BY <3>1, <3>2, <3>3, <3>4, <3>5 DEF IntentFrugal
  <2> QED BY <2>3, <2>4
<1> QED BY <1>1, AlwaysMade, PTL

-----------------------------------------------------------------------------
(* Sessions. An id that has been given out was read from the clock, so a    *)
(* second creation under it is a reading taken twice.                       *)
PermInv ==
  /\ PermTypeOK
  /\ \A c \in Caller : ids[c] # NoSession => ids[c] \in read
  /\ SessionKept

LEMMA PermInitially == PermInit => PermInv
<1> SUFFICES ASSUME PermInit PROVE PermInv
  OBVIOUS
<1>1. 0 \in Time
  <2>1. MaxTime \in Nat
    BY PermissionsAssumption
  <2> QED BY <2>1 DEF Time
<1>2. PermTypeOK
  BY <1>1 DEF PermInit, PermTypeOK
<1> QED BY <1>2 DEF PermInit, PermInv, SessionKept, Known

(* What a caller's own session is, once it is known.                        *)
LEMMA KnownSession ==
  ASSUME PermInv, NEW c \in Caller, Known(c)
  PROVE  /\ ids[c] \in Time /\ sessions[ids[c]] \in Session
         /\ Mine(c) \in Perms(Nat) /\ Mine(c).list \in [Name -> Nat] /\ Mine(c).on \in BOOLEAN
<1>1. ids[c] \in Time /\ sessions[ids[c]] \in Session
  BY DEF PermInv, PermTypeOK, Known
<1>2. Mine(c) \in Perms(Nat)
  BY <1>1 DEF Mine, Session
<1> QED BY <1>1, <1>2 DEF Perms

(* The permissions of a known session are replaced: every other session is  *)
(* another caller's, unless a reading was taken twice.                      *)
LEMMA ChangeKeeps ==
  ASSUME PermInv, NEW c \in Caller, NEW p \in Perms(Nat), Change(c, p),
         revoked' \in [Caller -> SUBSET Name]
  PROVE  PermInv'
<1>1. ids[c] \in Time /\ ids[c] # NoSession /\ sessions[ids[c]] \in Session
      /\ sessions[ids[c]] # NoSession
  BY KnownSession DEF Change, Known
<1>2. UNCHANGED <<aspect, clock, ids, read, reused>>
  BY DEF Change
<1> DEFINE new == [sessions[ids[c]] EXCEPT !.perms = p]
<1>3. new \in Session /\ new.owner = sessions[ids[c]].owner
  BY <1>1 DEF Session
<1>4. sessions' = [sessions EXCEPT ![ids[c]] = new]
  BY DEF Change
<1>5. sessions \in [Time -> Session \cup {NoSession}]
  BY DEF PermInv, PermTypeOK
<1> HIDE DEF new
<1>6. new # NoSession
  BY <1>3, PermissionsAssumption
<1>7. PermTypeOK'
  BY <1>1, <1>2, <1>3, <1>4, <1>5 DEF PermInv, PermTypeOK
<1>8. sessions'[ids[c]] = new /\ \A t \in Time \ {ids[c]} : sessions'[t] = sessions[t]
  BY <1>1, <1>4, <1>5
<1>9. \A d \in Caller : Known(d)' <=> Known(d)
  BY <1>1, <1>2, <1>6, <1>8 DEF Known, PermInv, PermTypeOK
<1>10. SessionKept'
  <2> SUFFICES ASSUME ~reused, NEW d \in Caller, Known(d)
               PROVE  sessions'[ids[d]].owner = d
    BY <1>2, <1>9 DEF SessionKept
  <2>1. sessions[ids[d]].owner = d /\ ids[d] \in Time
    BY KnownSession DEF PermInv, SessionKept
  <2> QED BY <1>3, <1>8, <2>1
<1> QED BY <1>2, <1>7, <1>10 DEF PermInv

LEMMA CreateKeeps ==
  ASSUME PermInv, NEW c \in Caller, NEW p \in Perms(Nat), CreateSession(c, p)
  PROVE  PermInv'
<1> DEFINE new == [owner |-> c, perms |-> p, agents |-> {}]
<1>1. new \in Session /\ new.owner = c
  BY DEF Session
<1>2. /\ sessions' = [sessions EXCEPT ![clock] = new] /\ ids' = [ids EXCEPT ![c] = clock]
      /\ ids[c] = NoSession /\ revoked' = revoked
      /\ read' = read \cup {clock}
      /\ UNCHANGED <<aspect, clock>>
  BY DEF CreateSession, NewId
<1>3. reused' = (reused \/ clock \in read)
  BY DEF CreateSession
<1>4. PermTypeOK
  BY DEF PermInv
<1> HIDE DEF new
<1>5. PermTypeOK'
  <2>1. reused' \in BOOLEAN
    BY <1>3
  <2> QED BY <1>1, <1>2, <1>4, <2>1 DEF PermTypeOK
<1>6. ids'[c] = clock /\ sessions'[clock] = new
  BY <1>2, <1>4 DEF PermTypeOK, PermInv
<1>7. \A d \in Caller \ {c} : ids'[d] = ids[d]
  BY <1>2, <1>4 DEF PermTypeOK
(* A caller that already has the reading has taken it before.               *)
<1>8. ~reused' => ~reused /\ \A d \in Caller \ {c} : ids[d] # clock
  <2> SUFFICES ASSUME ~reused', NEW d \in Caller \ {c}, ids[d] = clock PROVE FALSE
    BY <1>3
  <2>1. clock \notin read
    BY <1>3
  <2> QED BY <1>4, <2>1, PermissionsAssumption DEF PermInv, PermTypeOK
<1>9. ASSUME ~reused', NEW d \in Caller \ {c}, Known(d)'
      PROVE  Known(d) /\ sessions'[ids'[d]] = sessions[ids[d]]
  <2>1. ids[d] # clock /\ ids'[d] = ids[d] /\ ids[d] # NoSession
    BY <1>7, <1>8, <1>9 DEF Known
  <2>2. ids[d] \in Time
    BY <1>4, <2>1 DEF PermTypeOK
  <2>3. sessions'[ids[d]] = sessions[ids[d]]
    BY <1>2, <1>4, <2>1, <2>2 DEF PermTypeOK
  <2> QED BY <1>9, <2>1, <2>3 DEF Known
<1>10. SessionKept'
  <2> SUFFICES ASSUME ~reused', NEW d \in Caller, Known(d)'
               PROVE  sessions'[ids'[d]].owner = d
    BY DEF SessionKept
  <2>1. CASE d = c
    BY <1>1, <1>6, <2>1
  <2>2. CASE d # c
    BY <1>8, <1>9, <2>2 DEF PermInv, SessionKept
  <2> QED BY <2>1, <2>2
<1>11. \A d \in Caller : ids'[d] # NoSession => ids'[d] \in read'
  BY <1>2, <1>6, <1>7 DEF PermInv
<1> QED BY <1>5, <1>10, <1>11 DEF PermInv

(* Every call keeps PermInv; no call of a caller without an id finds a      *)
(* session.                                                                 *)
LEMMA PermStep == PermInv /\ [PermNext]_permVars => PermInv'
<1> SUFFICES ASSUME PermInv, [PermNext]_permVars PROVE PermInv'
  OBVIOUS
<1>0. revoked \in [Caller -> SUBSET Name]
  BY DEF PermInv, PermTypeOK
<1>1. CASE UNCHANGED permVars
  BY <1>1 DEF permVars, PermInv, PermTypeOK, SessionKept, Known
<1>2. CASE Tick
  BY <1>2 DEF Tick, PermInv, PermTypeOK, SessionKept, Known
<1>3. ASSUME NEW c \in Caller, NEW p \in Perms(0 .. MaxList), CreateSession(c, p)
      PROVE  PermInv'
  <2>1. p \in Perms(Nat)
    BY PermissionsAssumption DEF Perms
  <2> QED BY <1>3, <2>1, CreateKeeps
<1>4. ASSUME NEW c \in Caller, NEW n \in Name, Allow(c, n)
      PROVE  PermInv'
  <2> DEFINE p == [on |-> TRUE, list |-> Push(Mine(c).list, n)]
  <2>1. Known(c) /\ Change(c, p) /\ revoked' = [revoked EXCEPT ![c] = @ \ {n}]
    BY <1>4 DEF Allow, Change
  <2>2. Mine(c).list \in [Name -> Nat]
    BY <2>1, KnownSession
  <2>3. Push(Mine(c).list, n) \in [Name -> Nat]
    BY <2>2 DEF Push
  <2>4. p \in Perms(Nat) /\ revoked' \in [Caller -> SUBSET Name]
    BY <1>0, <2>1, <2>3 DEF Perms
  <2> HIDE DEF p
  <2> QED BY <2>1, <2>4, ChangeKeeps
<1>5. ASSUME NEW c \in Caller, NEW n \in Name, Deny(c, n)
      PROVE  PermInv'
  <2> DEFINE p == [Mine(c) EXCEPT !.list = Retain(@, n)]
  <2>1. Known(c) /\ Change(c, p) /\ revoked' = [revoked EXCEPT ![c] = @ \cup {n}]
    BY <1>5 DEF Deny, Change
  <2>2. Mine(c) \in Perms(Nat) /\ Mine(c).list \in [Name -> Nat]
    BY <2>1, KnownSession
  <2>3. Retain(Mine(c).list, n) \in [Name -> Nat]
    BY <2>2 DEF Retain
  <2>4. p \in Perms(Nat) /\ revoked' \in [Caller -> SUBSET Name]
    BY <1>0, <2>1, <2>2, <2>3 DEF Perms
  <2> HIDE DEF p
  <2> QED BY <2>1, <2>4, ChangeKeeps
<1>6. ASSUME NEW c \in Caller, EnableNetwork(c)
      PROVE  PermInv'
  <2> DEFINE p == [Mine(c) EXCEPT !.on = TRUE]
  <2>1. Known(c) /\ Change(c, p) /\ revoked' = revoked
    BY <1>6 DEF EnableNetwork, Change
  <2>2. p \in Perms(Nat)
    BY <2>1, KnownSession DEF Perms
  <2> HIDE DEF p
  <2> QED BY <1>0, <2>1, <2>2, ChangeKeeps
<1>7. ASSUME NEW c \in Caller, DisableNetwork(c)
      PROVE  PermInv'
  <2> DEFINE p == [on |-> FALSE, list |-> [n \in Name |-> 0]]
  <2>1. Change(c, p) /\ revoked' = revoked
    BY <1>7 DEF DisableNetwork
  <2>2. p \in Perms(Nat)
    BY DEF Perms
  <2> HIDE DEF p
  <2> QED BY <1>0, <2>1, <2>2, ChangeKeeps
<1>8. ASSUME NEW c \in Caller, NEW a \in Agent, Share(c, a)
      PROVE  PermInv'
  <2>1. Known(c) /\ UNCHANGED <<aspect, clock, ids, read, reused, revoked>>
    BY <1>8 DEF Share
  <2>2. PICK set \in {sessions[ids[c]].agents \cup {a}, sessions[ids[c]].agents \ {a}} :
               sessions' = [sessions EXCEPT ![ids[c]].agents = set]
    BY <1>8 DEF Share
  <2>3. ids[c] \in Time /\ sessions[ids[c]] \in Session
    BY <2>1, KnownSession
  <2> DEFINE new == [sessions[ids[c]] EXCEPT !.agents = set]
  <2>4. set \in SUBSET Agent
    BY <2>3 DEF Session
  <2>5. new \in Session /\ new.owner = sessions[ids[c]].owner
    BY <2>3, <2>4 DEF Session
  <2>6. sessions' = [sessions EXCEPT ![ids[c]] = new]
    BY <2>2
  <2> HIDE DEF new
  <2>7. PermTypeOK'
    BY <2>1, <2>3, <2>5, <2>6 DEF PermInv, PermTypeOK
  <2>8. new # NoSession
    BY <2>5, PermissionsAssumption
  <2>9. ASSUME NEW d \in Caller, ids[d] # NoSession
        PROVE  /\ sessions'[ids[d]] = NoSession <=> sessions[ids[d]] = NoSession
               /\ sessions[ids[d]] # NoSession => sessions'[ids[d]].owner = sessions[ids[d]].owner
    <3>1. ids[d] \in Time /\ sessions \in [Time -> Session \cup {NoSession}]
      BY <2>9 DEF PermInv, PermTypeOK
    <3> QED BY <2>1, <2>3, <2>5, <2>6, <2>8, <3>1 DEF Known
  <2>10. SessionKept'
    BY <2>1, <2>9 DEF SessionKept, Known, PermInv
  <2> QED BY <2>1, <2>7, <2>10 DEF PermInv
<1>9. ASSUME NEW c \in Caller, DestroySession(c)
      PROVE  PermInv'
  <2>1. /\ Known(c) /\ UNCHANGED <<aspect, clock, ids, read, reused, revoked>>
        /\ sessions' = [sessions EXCEPT ![ids[c]] = NoSession]
    BY <1>9 DEF DestroySession
  <2>2. PermTypeOK'
    BY <2>1 DEF PermInv, PermTypeOK
  <2>3. \A d \in Caller : Known(d)' => Known(d) /\ sessions'[ids[d]] = sessions[ids[d]]
    BY <2>1 DEF Known, PermInv, PermTypeOK
  <2>4. SessionKept'
    BY <2>1, <2>3 DEF SessionKept, PermInv
  <2> QED BY <2>1, <2>2, <2>4 DEF PermInv
<1> QED BY <1>1, <1>2, <1>3, <1>4, <1>5, <1>6, <1>7, <1>8, <1>9 DEF PermNext

-----------------------------------------------------------------------------
(* A request keeps its types: whatever a provider makes of a configuration, *)
(* it reaches hosts and writes paths.                                       *)
BoxType == [provider : Provider \cup {"none"}, reach : SUBSET (Host \X Channel),
            writes : SUBSET Path, filtered : BOOLEAN]

LEMMA SandboxTyped ==
  ASSUME NEW p \in Provider, NEW c \in Config
  PROVE  Sandbox(p, c) \in BoxType
<1>1. c.mounts \in MountSet /\ c.fs_paths \in SUBSET (Path \cup {Root})
  BY DEF Config
<1>2. Mounted(c, "rw") \in SUBSET Path
  BY <1>1 DEF Mounted, MountSet, Mount
<1>3. DockerWrites(c) \in SUBSET Path
  BY <1>1, <1>2 DEF DockerWrites, Tmpfs
<1>4. Writes(p, c) \in SUBSET Path
  BY <1>2, <1>3, ConfinementAssumption DEF Writes, Provider
<1>5. Reach(p, c) \in SUBSET (Host \X Channel)
  BY DEF Reach
<1> QED BY <1>4, <1>5 DEF Sandbox, BoxType

LEMMA PooledConfig == \A p \in Provider : Pooled(p) \in Config
  BY DEF Pooled, Config, MountSet

LEMMA ConfTypeStep == Made /\ ConfTypeOK /\ [ConfNext]_confVars => ConfTypeOK'
<1> SUFFICES ASSUME Made, ConfTypeOK, [ConfNext]_confVars PROVE ConfTypeOK'
  OBVIOUS
<1>1. NoBox \in BoxType
  BY DEF NoBox, BoxType
<1>2. ASSUME NEW by \in {"grpc", "cli"}, NEW c \in Config, Ask(c, by) PROVE ConfTypeOK'
  BY <1>2 DEF Ask, ConfTypeOK
<1>3. ASSUME NEW by \in {"grpc", "cli"}, NEW t \in Code, RunCode(t, by) PROVE ConfTypeOK'
  BY <1>3, IntentConfig DEF RunCode, ConfTypeOK
<1>4. CASE PoolHit
  <2>1. /\ box' = Sandbox("docker", Pooled("docker")) /\ stage' = "made"
        /\ UNCHANGED <<transport, request, code, sender, answer>>
    BY <1>4, PoolIsDocker DEF PoolHit, Make
  <2>2. box' \in BoxType
    BY <2>1, SandboxTyped, PooledConfig DEF Provider
  <2> QED BY <2>1, <2>2 DEF ConfTypeOK, BoxType
<1>5. CASE Refuse
  BY <1>1, <1>5 DEF Refuse, Make, ConfTypeOK, BoxType
<1>6. ASSUME NEW p \in Provider, NEW s \in {"filter", "made"}, stage = "asked",
             Make(s, Sandbox(p, request))
      PROVE  ConfTypeOK'
  <2>1. request \in Config
    BY <1>6 DEF Made
  <2>2. box' \in BoxType
    BY <1>6, <2>1, SandboxTyped DEF Make
  <2> QED BY <1>6, <2>2 DEF Make, ConfTypeOK, BoxType
<1>7. CASE CreateDocker
  BY <1>6, <1>7 DEF CreateDocker, Created, Provider
<1>8. CASE CreateOther
  BY <1>6, <1>8 DEF CreateOther, Created
<1>9. CASE Filter
  <2>1. request.network_allowlist \in SUBSET Host
    BY <1>9 DEF Filter, Made, Config
  <2>2. /\ Host \X {"ip6"} \in SUBSET (Host \X Channel)
        /\ \A open \in SUBSET request.network_allowlist : Left(open) \in SUBSET (Host \X Channel)
    BY <2>1 DEF Left, Channel
  <2>3. box \in BoxType
    BY DEF ConfTypeOK, BoxType
  <2>4. \A r \in SUBSET (Host \X Channel) :
          [box EXCEPT !.reach = r] \in BoxType /\ [box EXCEPT !.filtered = FALSE] \in BoxType
    BY <2>3 DEF BoxType
  <2>5. \/ box' = [box EXCEPT !.filtered = FALSE]
        \/ \E r \in SUBSET (Host \X Channel) : box' = [box EXCEPT !.reach = r]
    BY <1>9, <2>2 DEF Filter, Make
  <2>6. box' \in BoxType
    BY <2>4, <2>5
  <2> QED BY <1>9, <2>6 DEF Filter, Make, ConfTypeOK, BoxType
<1>10. ASSUME NEW by \in {"object", "id"}, Exec(by) PROVE ConfTypeOK'
  BY <1>10 DEF Exec, ConfTypeOK
<1>11. CASE Done
  BY <1>1, <1>11 DEF Done, ConfTypeOK, BoxType
<1>12. CASE UNCHANGED confVars
  BY <1>12 DEF confVars, ConfTypeOK
<1> QED BY <1>2, <1>3, <1>4, <1>5, <1>7, <1>8, <1>9, <1>10, <1>11, <1>12 DEF ConfNext

LEMMA AlwaysPerm == Spec => []PermInv
<1>1. Init => PermInv
  BY PartInit, PermInitially
<1>2. PermInv /\ [Next]_vars => PermInv'
  BY PartStep, PermStep
<1> QED BY <1>1, <1>2, PTL DEF Spec

LEMMA AlwaysStream == Spec => []StreamInv
<1>1. Init => StreamInv
  BY PartInit, StreamInitially
<1>2. StreamInv /\ [Next]_vars => StreamInv'
  BY PartStep, StreamStep
<1> QED BY <1>1, <1>2, PTL DEF Spec

(* Requests, sessions and streams keep their types, and every stream has    *)
(* its output before its end.                                               *)
THEOREM RequestsTyped == Spec => []TypeOK
<1>1. Init => ConfTypeOK
  <2>1. NoBox \in BoxType
    BY DEF NoBox, BoxType
  <2> QED BY <2>1, PartInit DEF ConfInit, ConfTypeOK, BoxType
<1>2. Made /\ ConfTypeOK /\ [Next]_vars => ConfTypeOK'
  BY PartStep, ConfTypeStep
<1>3. Spec => []ConfTypeOK
  BY <1>1, <1>2, AlwaysMade, PTL DEF Spec
<1>4. ConfTypeOK /\ PermInv /\ StreamInv => TypeOK
  BY StreamPromises DEF TypeOK, PermInv
<1> QED BY <1>3, <1>4, AlwaysPerm, AlwaysStream, PTL

(* SessionManager keeps a caller's session its own as long as no reading of *)
(* the clock is taken twice, however it is set.                             *)
THEOREM OwnSession == Spec => []SessionKept
<1>1. PermInv => SessionKept
  BY DEF PermInv
<1> QED BY <1>1, AlwaysPerm, PTL

(* parse_exit_sentinel, parse_process_stream and exec_via_vsock tell the    *)
(* truth about a stream of any length, whatever the command prints and      *)
(* wherever the stream is cut, but for a marker the command itself printed. *)
THEOREM ExitsHonest == Spec => []ExitHonest
  BY AlwaysStream, StreamPromises, PTL
=============================================================================
