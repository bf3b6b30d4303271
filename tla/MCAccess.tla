------------------------------ MODULE MCAccess ------------------------------
(* Instances of Access for TLC: ports 1 to 4, two agents that may have tags *)
(* x and y, labels that disable tools and narrow arguments in different     *)
(* ways, some with a port or a limit that is not valid, tokens with and     *)
(* without restrictions.                                                    *)
EXTENDS Access, TLC

CONSTANTS a1, a2

x == <<"tag", "x">>
y == <<"tag", "y">>

CodeDefaults ==
  [f \in RuntimeField |-> CASE f = "count" -> 10 [] f = "hops" -> 30 [] f = "step" -> 1
     [] f = "max_tool" -> 300 [] f = "http" -> 5 [] f = "dns" -> 5 [] f = "resolve" -> 3
     [] f = "attempts" -> 3 [] f = "health" -> 300]
Count(n) == [f \in RuntimeField |-> IF f = "count" THEN n ELSE 0]

On(args)   == [enabled |-> TRUE, args |-> args]
Off        == [enabled |-> FALSE, args |-> Nil]
Cfg(tools, runtime) == [tools |-> tools, runtime |-> runtime]
PortRule(r) == "port" :> r

Configs == {
  <<>>,
  (<<"agent">> :> Cfg("ping" :> On(PortRule({<<1, 3>>}) @@ "protocol" :> {"icmp", "tcp"}), Count(5)))
    @@ (x :> Cfg("ping" :> On(PortRule({<<2, 2>>, <<3, 4>>}) @@ "protocol" :> {"tcp"}) @@ "mtr" :> Off, Count(20))),
  (<<"agent">> :> Cfg("mtr" :> Off @@ "port" :> On(PortRule({<<1, 1>>, <<3, 4>>})), Nil))
    @@ (x :> Cfg("mtr" :> On(Nil) @@ "port" :> On(PortRule({<<1, 3>>})), Count(-1)))
    @@ (y :> Cfg("ping" :> On(PortRule({<<2, 5>>}) @@ "protocol" :> {"icmp", "tcp"}), Nil)),
  (x :> Cfg("port" :> Off, Nil)) @@ (y :> Cfg("port" :> On(PortRule({})) @@ "ping" :> On("protocol" :> {"icmp"}), Count(3)))
    @@ (<<"id", a1>> :> Cfg("mtr" :> On("protocol" :> {"tcp"}), Nil))}

Rec(transport, tags, caps, protocols, enabled, online) ==
  [transport |-> transport, tags |-> tags, caps |-> caps, protocols |-> protocols,
   enabled |-> enabled, online |-> online]
Agents == {
  Rec("agent:grpc", <<x, y>>, {"ping", "port", "mtr"}, {}, TRUE, TRUE),
  Rec("agent:http", <<x>>, {"ping", "port"}, {4}, TRUE, TRUE),
  Rec("agent:grpc", <<>>, {"ping", "mtr"}, {6}, TRUE, TRUE),
  Rec("agent:grpc", <<y>>, {"ping", "port"}, {4, 6}, TRUE, FALSE),
  Rec("agent:grpc", <<>>, {"ping", "port"}, {}, FALSE, TRUE)}

ToolScope(args, onAgent, versions) == [args |-> args, onAgent |-> onAgent, versions |-> versions]
Token(agents0, denied, tags, deniedTags, tools) ==
  [all |-> FALSE, agents |-> agents0, denied |-> denied, tags |-> tags, deniedTags |-> deniedTags, tools |-> tools]
Scopes == {
  [Token({"*"}, {}, {}, {}, "ping" :> ToolScope("protocol" :> {"icmp"}, TRUE, {4})) EXCEPT !.all = TRUE],
  Token({}, {}, {x}, {y}, "ping" :> ToolScope("protocol" :> {"icmp"}, Nil, {}) @@ "port" :> ToolScope(Nil, FALSE, {0, 4})),
  Token({}, {a2}, {}, {y}, "ping" :> ToolScope(PortRule({<<2, 4>>}) @@ "protocol" :> {"icmp", "tcp"}, Nil, {}) @@ "mtr" :> ToolScope(Nil, Nil, {4, 6}))}

Req(tool, args, agent, target, version, onAgent) ==
  [tool |-> tool, args |-> args, agent |-> agent, target |-> target, version |-> version, onAgent |-> onAgent]
Requests == {
  Req("ping", <<>>, Nil, 0, 0, FALSE),
  Req("ping", "protocol" :> "tcp" @@ "port" :> 3, Nil, 0, 0, TRUE),
  Req("ping", "protocol" :> "icmp" @@ "count" :> 99, Nil, 4, 4, FALSE),
  Req("ping", "protocol" :> "tcp" @@ "port" :> 4, a1, 0, 6, FALSE),
  Req("ping", <<>>, a2, 6, 0, TRUE),
  Req("port", "port" :> 3, Nil, 0, 4, TRUE),
  Req("port", "port" :> 2, a1, 0, 0, FALSE),
  Req("port", "port" :> 1, a1, 4, 0, TRUE),
  Req("port", <<>>, a1, 0, 0, FALSE),
  Req("mtr", <<>>, a1, 0, 0, FALSE),
  Req("mtr", "protocol" :> "tcp", a1, 0, 6, TRUE),
  Req("mtr", <<>>, Nil, 0, 0, FALSE)}
=============================================================================
