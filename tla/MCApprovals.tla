------------------------------ MODULE MCApprovals ------------------------------
(* A TLC instance of approvals: one engagement of each kind of target, a call *)
(* that tries every request, and two that compete for the same engagement.    *)
EXTENDS Approvals

MCBlockOf == [b \in Blocks |->
    CASE b = "A" -> {"a1", "a2"} [] b = "A1" -> {"a1"} [] b = "AB" -> Addrs]

MCTarget == [e \in Engs |->
    CASE e = "n" -> [kind |-> "net", block |-> "A"]
      [] e = "d" -> [kind |-> "name", name |-> "hd"]
      [] e = "p" -> [kind |-> "path", path |-> <<"src">>]]

MCScratch == [e \in Engs |-> <<"s", e>>]
\* The process was started in a directory of the source tree it tests.
MCCwd == <<"src", "w">>
MCShellWorkdir == <<"home">>

MCPackage == [e \in Engs |->
    [tools |-> [tool \in HttpTools \cup FileTools \cup LanTools \cup
                  {"websocket", "tcp_probe", "scan", "shell", "read_source_code", "process"}
                    |-> TRUE],
     methods |-> {"GET"}, allowlist |-> IF e = "d" THEN {"nmap"} ELSE {},
     scan |-> e # "d", maxTargets |-> 2, maxPorts |-> 3,
     algorithms |-> {"HS256"}, sign |-> e = "n", unsigned |-> FALSE, process |-> TRUE]]

\* The host ha moves out of the network, hd resolves to nothing; a link in the
\* scratch directory of n comes to point outside; a source tree goes away.
World(ha, hd, links, gone) ==
    [dns |-> [h \in Names |-> IF h = "ha" THEN ha ELSE hd], links |-> links, gone |-> gone]
Linked == [path \in {<<"s", "n", "l">>} |-> <<"etc">>]
MCWorlds == {World({"a1"}, {"b1"}, [path \in {} |-> <<>>], {}),
             World({"a1", "b1"}, {}, Linked, {<<"s", "p">>, <<"src">>})}

UrlOf(scheme, host) == [scheme |-> scheme, host |-> host, userinfo |-> FALSE]
Login == [scheme |-> "http", host |-> "ha", userinfo |-> TRUE]
Abs(parts) == [abs |-> TRUE, parts |-> parts]
Rel(parts) == [abs |-> FALSE, parts |-> parts]

Http(url, save) == [tool |-> "http", method |-> "GET", url |-> url, save |-> save]
Upload(arg) == [tool |-> "multipart_upload", method |-> "GET",
                url |-> UrlOf("http", "ha"), path |-> arg]
Scan(targets, ports) == [tool |-> "scan", targets |-> targets, ports |-> ports, type |-> {}]
File(tool, arg) == [tool |-> tool, path |-> arg]
Walk(tool, files) == [tool |-> tool, path |-> Rel(<<>>), walk |-> files]
Jwt(algorithm) == [tool |-> "jwt_sign", algorithm |-> algorithm, wellFormed |-> TRUE]
Cmd(program, urls, operands, addrs, blocks, paths) ==
    [tool |-> "shell", denied |-> FALSE, program |-> program, urls |-> urls,
     operands |-> operands, outputs |-> {}, addrs |-> addrs, blocks |-> blocks, paths |-> paths,
     unread |-> {}, files |-> {}]
Spawn(cmd, arg) == [field \in DOMAIN cmd \cup {"workdir"} |->
    IF field = "workdir" THEN arg ELSE IF field = "tool" THEN "pane_spawn" ELSE cmd[field]]

MCRequests ==
    {Http(UrlOf("http", h), {}) : h \in {"ha", "hd", "b1"}}
    \cup {Http(Login, {}), Http(UrlOf("file", NoHost), {}),
          [Http(UrlOf("http", "a1"), {}) EXCEPT !.method = "PUT"]}
    \cup {Http(UrlOf("http", "ha"), {arg}) :
            arg \in {Rel(<<"f">>), Rel(<<"l", "f">>), Rel(<<"..", "f">>), Abs(<<"s", "n", "f">>)}}
    \cup {Upload(Rel(<<"f">>)), Upload(Rel(<<"l", "..", "f">>))}
    \cup {[tool |-> "websocket", url |-> UrlOf("ws", "ha")],
          [tool |-> "tcp_probe", host |-> "hd", port |-> 1],
          [tool |-> "tcp_probe", host |-> "a2", port |-> 0]}
    \cup {Scan({"A1"}, <<<<1, 3>>>>), Scan({"AB"}, <<>>), Scan({"a1", "a2"}, <<<<1, 4>>>>),
          Scan({"a2"}, <<<<1, 2>>, <<2, 2>>>>), Scan({"a1", "a2", "b1"}, <<>>),
          [Scan({"a1"}, <<>>) EXCEPT !.type = {"b1"}]}
    \cup {Jwt("HS256"), Jwt("none")}
    \cup {Cmd("nmap", {}, {"ha"}, {}, {}, {}), Cmd("nmap", {}, {"hd"}, {"a1"}, {}, {}),
          Cmd("nmap", {}, {}, {}, {"A1"}, {}), Cmd("nmap", {UrlOf("http", "a1")}, {}, {"a1"}, {}, {}),
          Cmd("dig", {UrlOf("http", "a1")}, {"ha"}, {}, {}, {}), Cmd("bash", {}, {}, {}, {}, {}),
          Cmd("cat", {}, {}, {"a1"}, {}, {<<"s", "n", "f">>}),
          Cmd("cat", {}, {}, {}, {}, {<<"s", "n", "l", "f">>}),
          [Cmd("nmap", {}, {"a1"}, {"a1"}, {}, {}) EXCEPT !.unread = {"b1"}, !.files = {<<"..", "f">>}]}
    \cup {Spawn(Cmd("cat", {}, {}, {}, {}, {<<"src", "f">>}), arg) :
            arg \in {{}, {Rel(<<"f">>)}, {Rel(<<"..", "..", "s">>)}}}
    \cup {Walk(tool, {<<"f">>, <<"l", "f">>}) : tool \in {"glob", "grep"}}
    \cup {Walk("glob", {<<"..", "f">>})}
    \cup {File(tool, arg) : tool \in {"read_file", "write_file", "read_source_code"},
            arg \in {Rel(<<"f">>), Rel(<<"..", "p", "f">>), Abs(<<"src", "f">>)}}
    \cup {File("read_file", Rel(<<"l", "f">>)), [tool |-> "mdns_browse"], [tool |-> "memory_forget"]}

MCAsked == [c \in Calls |->
    CASE c = "c1" -> MCRequests
      [] OTHER -> {Jwt("HS256")}]
MCEngsOf == [c \in Calls |-> IF c = "c1" THEN Engs ELSE {"n"}]

MCOperatorTools == [tool \in {"memory_forget", "mdns_browse"} |-> tool = "memory_forget"]
MCSelections == {[tool \in {} |-> FALSE], [tool \in {"http"} |-> FALSE]}
MCSessions == {[members |-> {"n"}, active |-> {"n"}],
               [members |-> Engs, active |-> Engs], [members |-> Engs, active |-> {"d", "p"}]}
MCNoCall == [tool |-> "none"]
=============================================================================
