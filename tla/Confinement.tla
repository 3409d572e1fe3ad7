---------------------------- MODULE Confinement ----------------------------
(***************************************************************************)
(* From a request to what the sandbox made for it can really do: the Python *)
(* SDK's analysis that turns code into a request (run.py and its intent.py), *)
(* the way the request is sent, over gRPC or through the CLI, the pool that *)
(* may answer it, validate_config against the capability table of the       *)
(* provider, the isolation each provider sets up, and the provider a later  *)
(* exec is sent to: nobody remembers who made a sandbox, every call says so *)
(* again or leaves it to a default.                                         *)
(*                                                                         *)
(* Hosts and paths are model values. memory and cpus are one field, which   *)
(* every table treats alike, and so are kernel and rootfs.                  *)
(***************************************************************************)

CONSTANTS
  Host, Path,
  KwPath,     (* the paths the keyword analysis looks for                   *)
  Root,       (* a listed path that is only slashes and stars               *)
  Registry,   (* package manager -> the hosts its packages come from        *)
  Tmp,        (* "/tmp"                                                     *)
  NoCode, NoRequest

Managers == {"pip", "npm", "apt"}

ASSUME ConfinementAssumption ==
  /\ KwPath \subseteq Path /\ Tmp \in KwPath /\ Root \notin Path
  /\ Registry \in [Managers -> SUBSET Host] /\ Registry["pip"] # {}

VARIABLES
  stage,      (* "none", "asked", "filter", "made", "refused"               *)
  transport,  (* of the request: "none", "grpc", "cli"                      *)
  request,    (* the SandboxConfig                                          *)
  code,       (* the code it was derived from                               *)
  box,        (* the sandbox: where it is and what it can do                *)
  sender,     (* of the exec: "none", "object" (the sandbox object create   *)
              (* returned), "id" (a client that was handed the id)          *)
  answer      (* of that exec: "none", "ran", "lost"                        *)

confVars == <<stage, transport, request, code, box, sender, answer>>

Provider == {"docker", "firecracker", "k8s", "e2b", "wasm"}
Mount == Path \X {"ro", "rw"}
MountSet == {{}} \cup {{m} : m \in Mount}

Config == [provider : Provider \cup {""}, network : BOOLEAN, network_allowlist : SUBSET Host,
           writable : BOOLEAN, fs_paths : SUBSET (Path \cup {Root}),
           mounts : MountSet,
           limits : BOOLEAN, kernel : BOOLEAN]

(* What a program holds, as the analysis of its language would recognise    *)
(* it: a network library or command, data libraries (heavy ones, and those  *)
(* that take memory), the managers it installs packages with, a write, and  *)
(* the hosts and paths it names. A Python program may not parse.            *)
Code == [language : {"python", "node", "bash"}, parses : BOOLEAN,
         net : BOOLEAN, heavy : BOOLEAN, memory : BOOLEAN, write : BOOLEAN,
         installs : SUBSET Managers, hosts : SUBSET Host, paths : SUBSET Path]

(* How a host can be talked to: over IPv4, to its UDP port 53, over IPv6.   *)
Channel == {"ip", "dns", "ip6"}

NoBox == [provider |-> "none", reach |-> {}, writes |-> {}, filtered |-> TRUE]

DefaultProvider(p) == IF p = "" THEN "docker" ELSE p

-----------------------------------------------------------------------------
(* ProviderCapabilities.                                                    *)

S == "Supported"
N == "NotApplicable"
R == "Required"
U == "Unsupported"

Row(wt, wf, mounts, limits, kernel, allowlist, paths) ==
  [writable_true |-> wt, writable_false |-> wf, mounts |-> mounts, limits |-> limits,
   kernel |-> kernel, network_allowlist |-> allowlist, fs_paths |-> paths]

Caps ==
  [docker      |-> Row(S, S, S, S, N, S, S), firecracker |-> Row(S, S, N, S, R, N, N),
   k8s         |-> Row(S, S, U, S, N, N, N), e2b         |-> Row(S, U, U, U, N, U, U),
   wasm        |-> Row(S, S, S, N, N, N, N)]

(* Mutant: a read-only file system is taken to be supported everywhere.     *)
ValidAssumesReadOnly(c, caps) ==
  /\ c.writable => caps.writable_true # U
  /\ c.mounts # {} => caps.mounts # U
  /\ c.limits => caps.limits # U
  /\ caps.kernel = R => c.kernel
  /\ c.network_allowlist # {} => caps.network_allowlist # U
  /\ c.fs_paths # {} => caps.fs_paths # U

(* validate_config.                                                         *)
Valid(c, caps) ==
  /\ IF c.writable THEN caps.writable_true # U ELSE caps.writable_false # U
  /\ c.mounts # {} => caps.mounts # U
  /\ c.limits => caps.limits # U
  /\ caps.kernel = R => c.kernel
  /\ c.network_allowlist # {} => caps.network_allowlist # U
  /\ c.fs_paths # {} => caps.fs_paths # U

-----------------------------------------------------------------------------
(* What a configuration asks for, as SandboxConfig documents its fields.    *)

AskedReach(c) == (IF ~c.network THEN {}
                  ELSE IF c.network_allowlist = {} THEN Host ELSE c.network_allowlist) \X Channel

Mounted(c, mode) == {m[1] : m \in {x \in c.mounts : x[2] = mode}}

AskedWrites(c) ==
  LET listed == IF Root \in c.fs_paths THEN Path ELSE c.fs_paths
      free == IF c.fs_paths # {} THEN listed ELSE IF c.writable THEN Path ELSE {}
  IN Mounted(c, "rw") \cup (free \ Mounted(c, "ro"))

-----------------------------------------------------------------------------
(* What a provider makes of it: build_create_args, build_pod and its        *)
(* NetworkPolicy, the drive of the VM (which has no network interface),     *)
(* allow_internet_access, the preopened directories.                        *)
Reach(p, c) == (IF p \in {"docker", "k8s", "e2b"} /\ c.network THEN Host ELSE {}) \X Channel

(* docker create: --read-only, the tmpfs of each listed path that is more   *)
(* than the root, and the volumes on top.                                   *)
ReadOnlyRoot(c) == c.fs_paths # {} \/ ~c.writable

(* Mutant: a path that is empty once trimmed is mounted like the others.    *)
TmpfsUntrimmed(c) == c.fs_paths

Tmpfs(c) == c.fs_paths \ {Root}

DockerWrites(c) ==
  LET base == IF ReadOnlyRoot(c) THEN Tmpfs(c) ELSE Path
  IN (base \ Mounted(c, "ro")) \cup Mounted(c, "rw")

Writes(p, c) ==
  CASE p = "docker" -> DockerWrites(c)
    [] p = "k8s" -> IF c.writable THEN Path ELSE {Tmp}
    [] p = "firecracker" -> IF c.writable THEN Path ELSE {}
    [] p = "e2b" -> Path
    [] p = "wasm" -> Mounted(c, "rw")

Sandbox(p, c) == [provider |-> p, reach |-> Reach(p, c), writes |-> Writes(p, c), filtered |-> TRUE]

-----------------------------------------------------------------------------
(* intent.py's analyze. Python that parses is read as a syntax tree, the    *)
(* rest is searched for the keywords of its language.                       *)

Ast(t) == t.language = "python" /\ t.parses

Manager == [python |-> "pip", node |-> "npm", bash |-> "apt"]

(* The managers whose use is a sign of packages. An import of a heavy       *)
(* library counts as one of pip.                                            *)
Packages(t) == (t.installs \cup (IF t.heavy THEN {"pip"} ELSE {}))
                 \cap (IF Ast(t) THEN {"pip", "apt"} ELSE {Manager[t.language]})

(* In the tree the import alone adds the registry: an install started as a  *)
(* subprocess adds none.                                                    *)
Registries(t) == IF Ast(t) THEN (IF t.heavy THEN Registry["pip"] ELSE {})
                 ELSE UNION {Registry[m] : m \in Packages(t)}

Hosts(t) == t.hosts \cup Registries(t)
NeedsNetwork(t) == t.net \/ Packages(t) # {} \/ t.hosts # {}

(* The libraries that take memory are among the heavy ones of the tree; as  *)
(* keywords they count in any language.                                     *)
Memory(t) == t.memory /\ (Ast(t) => t.heavy)

Spotted(t) == IF Ast(t) THEN t.paths ELSE t.paths \cap KwPath

(* Mutant: no fallback when the code names no path.                         *)
PathsNamedOnly(t) == IF t.write THEN Spotted(t) ELSE {}

Paths(t) == IF ~t.write THEN {}
            ELSE IF Spotted(t) = {} THEN {Tmp} ELSE Spotted(t)

(* _determine_provider.                                                     *)
Hint(t) == IF NeedsNetwork(t) \/ t.write THEN "docker" ELSE "wasm"

(* Mutant: the WASM runtime is found.                                       *)
AvailableWasm(p) == p \in {"docker", "wasm"}

(* _check_provider_available: there is a test for Docker only.              *)
Available(p) == p = "docker"

RunProvider(t) == IF Hint(t) = "wasm" /\ ~Available("wasm") THEN "docker" ELSE Hint(t)

(* _run_code: the request made for the code when the caller sets nothing.   *)
FromIntent(t) ==
  [provider |-> RunProvider(t),
   network |-> NeedsNetwork(t) \/ Hosts(t) # {}, network_allowlist |-> Hosts(t),
   writable |-> t.write \/ Paths(t) # {}, fs_paths |-> Paths(t),
   mounts |-> {}, limits |-> Memory(t), kernel |-> FALSE]

-----------------------------------------------------------------------------
ConfInit ==
  /\ stage = "none" /\ transport = "none" /\ request = NoRequest /\ code = NoCode
  /\ box = NoBox /\ sender = "none" /\ answer = "none"

(* A client sends a configuration of its own. The CLI always has a provider. *)
Ask(c, by) ==
  /\ by = "cli" => c.provider # ""
  /\ stage' = "asked" /\ request' = c /\ transport' = by
  /\ UNCHANGED <<code, box, sender, answer>>

(* run(): the code is analysed and its request sent, over gRPC where a      *)
(* daemon answers and through the CLI where none does.                      *)
RunCode(t, by) ==
  /\ code' = t /\ request' = FromIntent(t)
  /\ stage' = "asked" /\ transport' = by
  /\ UNCHANGED <<box, sender, answer>>

Make(s, b) ==
  /\ stage' = s /\ box' = b
  /\ UNCHANGED <<transport, request, code, sender, answer>>

(* The CLI transport passes --network-allow and --fs-path, which `roche     *)
(* create` does not know.                                                   *)
Sendable == transport = "cli" => request.network_allowlist = {} /\ request.fs_paths = {}

(* Mutant: writable requests are not kept from the pool.                    *)
BypassedButWritable(c) == c.network \/ c.mounts # {} \/ c.limits

Bypassed(c) == c.network \/ c.writable \/ c.mounts # {} \/ c.limits

(* The configuration of the sandboxes try_acquire and replenish make.       *)
Pooled(p) == [provider |-> p, network |-> FALSE, network_allowlist |-> {}, writable |-> FALSE,
              fs_paths |-> {}, mounts |-> {}, limits |-> FALSE, kernel |-> FALSE]

(* try_acquire: a request without the fields it looks at may be given a     *)
(* sandbox of a Docker or Firecracker pool, whatever else it asks for.      *)
PoolHit ==
  /\ stage = "asked" /\ Sendable /\ ~Bypassed(request)
  /\ LET p == DefaultProvider(request.provider) IN
       /\ p \in {"docker", "firecracker"} /\ Valid(Pooled(p), Caps[p])
       /\ Make("made", Sandbox(p, Pooled(p)))

Refuse ==
  /\ stage = "asked"
  /\ ~Sendable \/ ~Valid(request, Caps[DefaultProvider(request.provider)])
  /\ Make("refused", NoBox)

Created(p) ==
  /\ stage = "asked" /\ Sendable
  /\ DefaultProvider(request.provider) = p /\ Valid(request, Caps[p])

(* A Docker container with an allowlist runs before the list is applied.    *)
CreateDocker ==
  /\ Created("docker")
  /\ LET more == request.network /\ request.network_allowlist # {} IN
       Make(IF more THEN "filter" ELSE "made", Sandbox("docker", request))

CreateOther ==
  \E p \in Provider \ {"docker"} : Created(p) /\ Make("made", Sandbox(p, request))

(* The iptables script: it stops at the first rule that fails. If that is   *)
(* the one that drops everything, or the script cannot run, nothing is      *)
(* filtered; else what is left over IPv4 is nothing, or, once the rule for  *)
(* UDP port 53 is in, that port of every host and a part of the list. IPv6  *)
(* has no rule. The create succeeds all the same.                           *)
Left(open) == (Host \X {"dns", "ip6"}) \cup (open \X Channel)

Filter ==
  /\ stage = "filter"
  /\ \/ Make("made", [box EXCEPT !.filtered = FALSE])
     \/ Make("made", [box EXCEPT !.reach = Host \X {"ip6"}])
     \/ \E open \in SUBSET request.network_allowlist :
          Make("made", [box EXCEPT !.reach = Left(open)])

(* resolve_provider: an explicit name first, then, for inline Python or     *)
(* Node code, the provider its intent hints at, else Docker.                *)
Resolve(p, inline, hint) == IF p # "" THEN p ELSE IF inline THEN hint ELSE "docker"

(* The provider an exec names: `roche exec` always says Docker, and the CLI *)
(* transport drops what it is given; over gRPC a sandbox object repeats the *)
(* provider of its create, and a client that is given an id sends its own   *)
(* default.                                                                 *)
Named(by) == IF transport = "cli" THEN {"docker"}
             ELSE IF by = "object" THEN {request.provider} ELSE Provider

(* exec; run() uses the object it created.                                  *)
Exec(by) ==
  /\ stage = "made" /\ answer = "none"
  /\ code # NoCode => by = "object"
  /\ sender' = by
  /\ \E p \in Named(by), inline \in BOOLEAN, hint \in {"docker", "wasm"} :
       answer' = IF Resolve(p, inline, hint) = box.provider THEN "ran" ELSE "lost"
  /\ UNCHANGED <<stage, transport, request, code, box>>

(* The caller destroys it, or reads the refusal, and the next request comes. *)
Done ==
  /\ stage \in {"made", "refused"}
  /\ stage' = "none" /\ transport' = "none" /\ request' = NoRequest /\ code' = NoCode
  /\ box' = NoBox /\ sender' = "none" /\ answer' = "none"

ConfNext ==
  \/ \E by \in {"grpc", "cli"} :
       /\ stage = "none"
       /\ (\E c \in Config : Ask(c, by)) \/ (\E t \in Code : RunCode(t, by))
  \/ PoolHit \/ Refuse \/ CreateDocker \/ CreateOther \/ Filter
  \/ (\E by \in {"object", "id"} : Exec(by)) \/ Done

-----------------------------------------------------------------------------
ConfTypeOK ==
  /\ stage \in {"none", "asked", "filter", "made", "refused"}
  /\ transport \in {"none", "grpc", "cli"}
  /\ request \in Config \cup {NoRequest}
  /\ code \in Code \cup {NoCode}
  /\ box \in [provider : Provider \cup {"none"}, reach : SUBSET (Host \X Channel),
              writes : SUBSET Path, filtered : BOOLEAN]
  /\ sender \in {"none", "object", "id"}
  /\ answer \in {"none", "ran", "lost"}

(* A sandbox never reaches a host or writes a path its request did not ask  *)
(* for, whichever provider makes it, however the request was sent and       *)
(* whether it comes from the pool or not. With the network off there is no  *)
(* exception, and with it on these: a list the provider's table declares    *)
(* ignored, a Docker list whose script failed at its first rule, and, with  *)
(* a list in force, UDP port 53 and IPv6 of every host. For files: a list   *)
(* or a mount the table declares ignored, on a request that is writable,    *)
(* and the scratch directory of a read-only Pod.                            *)
Confined ==
  stage = "made" =>
    LET caps == Caps[box.provider]
        listed == request.network /\ request.network_allowlist # {}
        leaks == IF listed /\ box.provider = "docker" THEN Host \X {"dns", "ip6"} ELSE {}
        scratch == IF box.provider = "k8s" THEN {Tmp} ELSE {}
    IN
    /\ \/ box.reach \subseteq AskedReach(request) \cup leaks
       \/ listed /\ (caps.network_allowlist = N \/ ~box.filtered)
    /\ \/ box.writes \subseteq AskedWrites(request) \cup scratch
       \/ /\ request.writable
          /\ \/ request.fs_paths # {} /\ caps.fs_paths = N
             \/ request.mounts # {} /\ caps.mounts = N

(* A command reaches the sandbox it is meant for: always when run() sends   *)
(* it, and otherwise but in three cases: the CLI execs in a sandbox that is *)
(* not Docker's, a client that was handed the id has another default, or    *)
(* the provider was left open, in create and in exec, and inline code that  *)
(* needs nothing is sent to WASM.                                           *)
RunsWhereMade ==
  answer = "lost" =>
    /\ code = NoCode
    /\ \/ transport = "cli" /\ box.provider # "docker"
       \/ transport = "grpc" /\ sender = "id"
       \/ transport = "grpc" /\ request.provider = "" /\ box.provider = "docker"

(* A request derived from code is refused only for the lists the CLI cannot *)
(* pass on, asks for every host the code names, and the sandbox made for it *)
(* can write every path the analysis looks for that the code names, and     *)
(* some path when the code writes at all (no pool sandbox is slipped in).   *)
IntentServed ==
  code # NoCode =>
    /\ stage = "refused" =>
         /\ transport = "cli"
         /\ code.write \/ code.hosts # {} \/ code.heavy \/ code.installs # {}
    /\ code.hosts \X Channel \subseteq AskedReach(request)
    /\ code.write /\ stage = "made"
         => /\ box.writes # {}
            /\ code.paths \cap KwPath \subseteq box.writes
            /\ code.language = "python" /\ code.parses => code.paths \subseteq box.writes

(* It asks for no more than that. Every host is opened only to code that    *)
(* names none and has a network library or an install in it, and imports no *)
(* heavy library if it is Python that parses: a subprocess install opens    *)
(* everything. Else only named hosts and the registries of the managers the *)
(* code uses are, and nothing without a sign. The only path asked for that  *)
(* the code does not name is /tmp, and none is if it does not write.        *)
IntentFrugal ==
  code # NoCode =>
    LET used == code.installs \cup (IF code.heavy THEN {"pip"} ELSE {})
        own == code.hosts \cup UNION {Registry[m] : m \in used}
        tree == code.language = "python" /\ code.parses
    IN
    /\ \/ AskedReach(request) \subseteq own \X Channel
       \/ /\ code.hosts = {} /\ (code.net \/ code.installs # {})
          /\ tree => ~code.heavy
    /\ AskedWrites(request) \subseteq code.paths \cup {Tmp}
    /\ ~code.write => AskedWrites(request) = {}
=============================================================================
