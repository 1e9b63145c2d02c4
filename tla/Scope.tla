--------------------------------- MODULE Scope ---------------------------------
(***************************************************************************)
(* The scope gate (src/halgate/scope.py) and the shell guard in front of   *)
(* its shell check (guardrails/shell_guard.py): which tool calls an        *)
(* engagement authorizes, in the world as it is at that instant.           *)
(*                                                                         *)
(* A tool call is a record of what the gate reads out of its arguments:    *)
(* URLs, hosts, addresses, address blocks and paths.  A path is the        *)
(* sequence of its components, resolved through the symbolic links of the  *)
(* world the way pathlib does.  The world also says what names resolve to. *)
(***************************************************************************)
EXTENDS Naturals, FiniteSets, SequencesExt

CONSTANTS
    Addrs,      \* IP addresses
    Names,      \* host names
    NoHost,     \* a URL without a host
    Blocks,     \* address blocks in CIDR notation
    BlockOf,    \* the addresses of a block
    Engs,       \* engagement ids
    Target,     \* Engagement.target
    Package,    \* the ScopePackage an engagement refers to
    Scratch,    \* Engagement.scratch_dir, provisioned for every engagement
    Cwd,        \* working directory of the process
    ShellWorkdir, \* shell.workdir of the configuration
    DefaultPorts, \* the ports of a scan that names none, 1-1024
    OperatorTools, \* ScopeGate._overrides: tool |-> BOOLEAN
    NetworkClients, Structured, Forbidden, ExecWrappers, \* sets of programs
    NoProgram,  \* an empty or unparsable command line
    MaxPort,    \* 65535
    Worlds      \* what names, links and directories may be like

ASSUME ScopeAssumption ==
    /\ Addrs \cap Names = {} /\ NoHost \notin Addrs \cup Names
    /\ Blocks \cap (Addrs \cup Names) = {}
    /\ BlockOf \in [Blocks -> SUBSET Addrs]
    /\ \A e \in Engs : /\ Target[e].kind = "net" => Target[e].block \in Blocks
                       /\ Target[e].kind = "name" => Target[e].name \in Names
    /\ \A w \in Worlds : w.dns \in [Names -> SUBSET Addrs]

VARIABLES
    world,    \* name resolution, symbolic links, directories that are gone
    members,  \* engagements of the live session
    active,   \* those with status active
    choice    \* tool_overrides of an engagement: tool |-> BOOLEAN

scopeVars == <<world, members, active, choice>>
-----------------------------------------------------------------------------
(* Paths *)

\* Path.resolve: links are followed as they are met, ".." leaves the place
\* reached so far.
ResolveIn(links, path) ==
    LET step(at, name) ==
            IF name = ".." THEN (IF at = <<>> THEN at ELSE Front(at))
            ELSE LET next == Append(at, name) IN
                 IF next \in DOMAIN links THEN links[next] ELSE next
    IN FoldLeft(step, <<>>, path)
Resolve(path) == ResolveIn(world.links, path)

\* A root that does not exist contains nothing.
PathWithin(root, path) ==
    /\ Resolve(root) \notin world.gone
    /\ IsPrefix(Resolve(root), Resolve(path))

\* An absolute path argument, or one relative to the scratch directory.
PathOf(e, arg) == IF arg.abs THEN arg.parts ELSE Scratch[e] \o arg.parts

\* The working directory of a pane is relative to that of the process.
WorkdirOf(arg) == IF arg.abs THEN arg.parts ELSE Cwd \o arg.parts

MatchesPath(e, path) ==
    Target[e].kind = "path" /\ PathWithin(Target[e].path, path)

CheckPath(e, path) == PathWithin(Scratch[e], path) \/ MatchesPath(e, path)
-----------------------------------------------------------------------------
(* Hosts and addresses *)

\* matches_target of an address, block or name given as text.  Text that is
\* no address equals the target or does not match; a path target takes any
\* text for a path below the working directory.
MatchesTarget(e, ref) ==
    LET t == Target[e] IN
    \/ t.kind = "net" /\ (ref = t.block \/ ref \in BlockOf[t.block])
    \/ t.kind = "name" /\ ref = t.name
    \/ t.kind = "path" /\ PathWithin(t.path, Append(Cwd, ref))

Dns(host) == IF host \in Addrs THEN {host} ELSE world.dns[host]

UrlInScope_AnyAddress(e, url, addresses) ==
    LET t == Target[e] IN
    /\ url.scheme \in {"http", "https"} /\ url.host # NoHost /\ ~url.userinfo
    /\ addresses # {}
    /\ \/ t.kind = "net" /\ addresses \cap BlockOf[t.block] # {}
       \/ t.kind = "name" /\ url.host = t.name

\* url_in_scope with the resolver's answer: every address must lie in the
\* network of the engagement.
UrlInScope(e, url, addresses) ==
    LET t == Target[e] IN
    /\ url.scheme \in {"http", "https"} /\ url.host # NoHost /\ ~url.userinfo
    /\ addresses # {}
    /\ \/ t.kind = "net" /\ addresses \subseteq BlockOf[t.block]
       \/ t.kind = "name" /\ url.host = t.name

CheckUrl(e, url) ==
    url.host # NoHost /\ UrlInScope(e, url, Dns(url.host))

Plain(host) == [scheme |-> "http", host |-> host, userinfo |-> FALSE]

ValidPorts(ports) ==
    \A i \in DOMAIN ports : ports[i][1] <= ports[i][2] /\ ports[i][2] <= MaxPort

\* _count_ports of a list of ranges; no ports stands for the list ["80"].
CountPorts(ports) ==
    LET count[n \in 0..Len(ports)] ==
            IF n = 0 THEN 0 ELSE count[n - 1] + (ports[n][2] - ports[n][1] + 1)
    IN IF ports = <<>> THEN 1 ELSE count[Len(ports)]

CheckScan(e, call) ==
    LET t == Target[e] IN
    /\ Package[e].scan
    /\ call.targets # {}
    /\ Cardinality(call.targets) <= Package[e].maxTargets
    /\ ValidPorts(call.ports)
    /\ CountPorts(call.ports) <= Package[e].maxPorts
    /\ \A ref \in call.targets :
        IF ref \in Blocks
        THEN t.kind = "net" /\ BlockOf[ref] \subseteq BlockOf[t.block]
        ELSE MatchesTarget(e, ref)
-----------------------------------------------------------------------------
(* Commands *)

\* ShellGuard.check: deny patterns and shell syntax, programs that are never
\* run, then the allowlist of the package, where an empty one allows all.
GuardAllows(e, cmd) ==
    /\ ~cmd.denied
    /\ cmd.program \notin {NoProgram} \cup Structured \cup Forbidden \cup ExecWrappers
    /\ Package[e].allowlist # {} => cmd.program \in Package[e].allowlist

\* Dotted operands of a program that opens connections, without the values of
\* output options and the names of files given by an absolute path.
NetworkHosts(cmd) ==
    IF cmd.program \in NetworkClients
    THEN (cmd.operands \cup cmd.addrs) \ {Last(path) : path \in cmd.paths}
    ELSE {}

CheckShell(e, cmd) ==
    /\ GuardAllows(e, cmd)
    /\ \A url \in cmd.urls : CheckUrl(e, url)
    /\ \A host \in NetworkHosts(cmd) : CheckUrl(e, Plain(host))
    /\ \A ref \in cmd.addrs \cup cmd.blocks : MatchesTarget(e, ref)
    /\ \A path \in cmd.paths : MatchesPath(e, path) \/ PathWithin(Scratch[e], path)
-----------------------------------------------------------------------------
(* Tools *)

HttpTools  == {"http", "http_replay", "http_session", "auth_session", "multipart_upload"}
FileTools  == {"read_file", "write_file", "glob", "grep"}
LanTools   == {"mdns_browse", "packet_capture"}

\* ScopePackage.permits: pane tools follow `process', jwt_sign its section.
Permits(pkg, tool) ==
    LET set(key, default) == IF key \in DOMAIN pkg.tools THEN pkg.tools[key] ELSE default IN
    CASE tool = "pane_spawn" -> set(tool, set("process", FALSE))
      [] tool = "jwt_sign"   -> set(tool, pkg.sign \/ pkg.unsigned)
      [] OTHER               -> set(tool, FALSE)

\* check_tool: the engagement's choice, else the operator's, else the package.
CheckTool(e, tool) ==
    /\ e \in active
    /\ IF tool \in DOMAIN choice[e] THEN choice[e][tool]
       ELSE IF tool \in DOMAIN OperatorTools THEN OperatorTools[tool]
       ELSE Permits(Package[e], tool)

CheckJwtSign(e, call) ==
    /\ call.wellFormed
    /\ IF call.algorithm = "none" THEN Package[e].unsigned
       ELSE call.algorithm \in Package[e].algorithms /\ Package[e].sign

\* save_as is relative and stays in the scratch directory.
CheckSaveAs(e, arg) == ~arg.abs /\ PathWithin(Scratch[e], PathOf(e, arg))

\* _authorize_target_args
ArgsInScope(e, call) ==
    \/ /\ call.tool \in HttpTools
       /\ call.method \in Package[e].methods
       /\ CheckUrl(e, call.url)
       /\ call.tool = "multipart_upload" => PathWithin(Scratch[e], PathOf(e, call.path))
       /\ call.tool = "http" => \A arg \in call.save : CheckSaveAs(e, arg)
    \/ /\ call.tool = "websocket"
       /\ call.url.scheme \in {"ws", "wss"}
       /\ CheckUrl(e, [call.url EXCEPT !.scheme = "http"])
    \/ /\ call.tool = "tcp_probe"
       /\ call.port \in 1 .. MaxPort
       /\ CheckUrl(e, Plain(call.host))
    \/ call.tool \in LanTools /\ Target[e].kind # "path"
    \/ call.tool = "scan" /\ CheckScan(e, call)
    \/ call.tool = "jwt_sign" /\ CheckJwtSign(e, call)
    \/ call.tool = "shell" /\ CheckShell(e, call)
    \/ call.tool \in FileTools /\ CheckPath(e, PathOf(e, call.path))
    \/ call.tool = "read_source_code" /\ PathWithin(Scratch[e], PathOf(e, call.path))
    \* Pane tools are checked by their handlers, the others have no target.
    \/ call.tool \in {"pane_spawn", "memory_forget"}

Authorized(e, call) == CheckTool(e, call.tool) /\ ArgsInScope(e, call)
-----------------------------------------------------------------------------
(* What a call may reach, and what an engagement owns: the reference the     *)
(* checks above are compared with.                                           *)

\* Hosts and blocks that a call names where the gate looks for them.
Hosts(call) ==
    CASE call.tool \in HttpTools \cup {"websocket"} -> {call.url.host}
      [] call.tool = "tcp_probe" -> {call.host}
      [] call.tool = "scan" -> call.targets
      [] call.tool \in {"shell", "pane_spawn"} ->
             {url.host : url \in call.urls} \cup call.addrs \cup call.blocks \cup NetworkHosts(call)
      [] OTHER -> {}

\* Hosts it names elsewhere: in scan_type, which becomes an argument of nmap as
\* it is, or by a word of a command that is neither dotted nor an IPv4 address.
UnreadHosts(call) ==
    CASE call.tool = "scan" -> call.type
      [] call.tool \in {"shell", "pane_spawn"} -> call.unread
      [] OTHER -> {}

\* Addresses, or names of a scan, that a source tree around the working
\* directory of the process admits as paths: the gate takes "192.0.2.1" for a
\* file of the directory.
TakenForPaths(e, call) ==
    LET refs == CASE call.tool = "scan" -> call.targets \ Blocks
                  [] call.tool \in {"shell", "pane_spawn"} -> call.addrs \cup call.blocks
                  [] OTHER -> {}
    IN {ref \in refs : MatchesPath(e, Append(Cwd, ref))}

\* Connections a call may make: the name it uses and the address behind it.
Reach(ref) == {<<ref, a>> : a \in IF ref \in Blocks THEN BlockOf[ref] ELSE Dns(ref)}
Connections(call) == UNION {Reach(ref) : ref \in Hosts(call) \cup UnreadHosts(call)}

\* Where a program runs: a pane without a directory in the source tree of its
\* engagement, or in the directory of the configuration.
Workdirs(e, call) ==
    CASE call.tool = "shell" -> {Scratch[e]}
      [] call.tool = "pane_spawn" /\ call.workdir # {} -> {WorkdirOf(arg) : arg \in call.workdir}
      [] OTHER -> IF Target[e].kind = "path" THEN {Target[e].path} ELSE {}
ConfiguredWorkdir(e, call) == IF Workdirs(e, call) = {} THEN {ShellWorkdir} ELSE {}

\* The files of a walk; glob leaves out those that the gate does not admit.
Walked(e, call) == {PathOf(e, call.path) \o file : file \in call.walk}

\* Files a call works on, as places in the file system, which the gate or the
\* handler has looked at.
CheckedPlaces(e, call) ==
    CASE call.tool = "glob" ->
             {Resolve(path) : path \in {PathOf(e, call.path)}
                                       \cup {p \in Walked(e, call) : CheckPath(e, p)}}
      [] call.tool \in (FileTools \ {"glob"}) \cup {"read_source_code", "multipart_upload"} ->
             {Resolve(PathOf(e, call.path))}
      [] call.tool = "http" -> {Resolve(PathOf(e, arg)) : arg \in call.save}
      [] call.tool \in {"shell", "pane_spawn"} ->
             {Resolve(path) : path \in call.paths \cup Workdirs(e, call)}
      [] OTHER -> {}

\* And those that nobody looks at: what grep walks through, files that a command
\* names relative to where it runs, and the directory of the configuration.
UncheckedPlaces(e, call) ==
    CASE call.tool = "grep" -> {Resolve(path) : path \in Walked(e, call)}
      [] call.tool \in {"shell", "pane_spawn"} ->
             {Resolve(dir) : dir \in ConfiguredWorkdir(e, call)}
             \cup {Resolve(dir \o file) : file \in call.files,
                       dir \in Workdirs(e, call) \cup ConfiguredWorkdir(e, call)}
      [] OTHER -> {}

Places(e, call) == CheckedPlaces(e, call) \cup UncheckedPlaces(e, call)

OwnsConnection(e, c) ==
    LET t == Target[e] IN
    \/ t.kind = "net" /\ c[2] \in BlockOf[t.block]
    \/ t.kind = "name" /\ c[1] = t.name

OwnsPlace(e, place) ==
    \E root \in {Scratch[e]} \cup (IF Target[e].kind = "path" THEN {Target[e].path} ELSE {}) :
        place = Resolve(root) \/ IsPrefix(Resolve(root), place)

WithinTerritory(e, call) ==
    /\ \A c \in Connections(call) :
        c[1] \in Hosts(call) \ TakenForPaths(e, call) => OwnsConnection(e, c)
    /\ \A place \in Places(e, call) : OwnsPlace(e, place) \/ place \in UncheckedPlaces(e, call)
=============================================================================
