------------------------------- MODULE Access -------------------------------
(***************************************************************************)
(* Who may run what where (internal/api/server.go and authz.go): the        *)
(* handler createJob, from the request to the jobs that are stored, while   *)
(* managers edit labels and agents. The handler reads the policies, the     *)
(* labels and the agents anew for each of its checks.                       *)
(***************************************************************************)
EXTENDS Policies, Targets, FiniteSetsExt, Functions

CONSTANTS
  Agent,        \* ids of the agents
  Argument,     \* names of arguments
  Value,        \* their values, but for ports
  AgentChoice,  \* records an agent may have
  ConfigChoice, \* label configurations a manager may save
  Scope,        \* scopes of API tokens
  Request,      \* requests for jobs
  MaxEdits      \* bound: edits

VARIABLES
  configs,  \* labelConfigs of the server
  agents,   \* agent records as agentsWithManagedLabels returns them
  call,     \* the handler
  edits,    \* number of edits so far
  edited    \* history: something was edited while the handler was at work

vars == <<configs, agents, call, edits, edited>>

(* What is known of the inputs: allowed arguments are rules or absent, and  *)
(* limits are numbers, but neither need be valid; a request names a tool.   *)
(* Its ip_version is one the type IPVersion names: the server does not      *)
(* check it, and a request with another number is left out.                 *)
Rule == (SUBSET (Int \X Int)) \cup (SUBSET Value)
AllowedArgs(args) ==
  \E keys \in SUBSET Argument :
    args \in [keys -> Rule] /\ ("port" \in keys => args["port"] \subseteq Int \X Int)
ASSUME AccessAssumption ==
  /\ Nil \notin Agent /\ ~AllowedArgs(Nil) /\ MaxEdits \in Nat
  /\ {"protocol", "port", "method", "type"} \subseteq Argument
  /\ {"icmp", "tcp", "GET", "HEAD", "A", "AAAA", "CNAME", "MX", "TXT", "NS"} \subseteq Value
  /\ \A r \in AgentChoice : r.protocols \subseteq Family /\ r.tags \in Seq(Range(r.tags))
  /\ \A c \in ConfigChoice : \A l \in DOMAIN c :
       /\ c[l].runtime \in [RuntimeField -> Int] \cup {Nil}
       /\ \A t \in DOMAIN c[l].tools :
            c[l].tools[t].enabled \in BOOLEAN /\ (c[l].tools[t].args = Nil \/ AllowedArgs(c[l].tools[t].args))
  /\ \A s \in Scope : /\ s.all \in BOOLEAN
                     /\ \A t \in DOMAIN s.tools : s.tools[t].args = Nil \/ AllowedArgs(s.tools[t].args)
  /\ Request \subseteq [tool : Tool, args : {q.args : q \in Request}, agent : Agent \cup {Nil},
                       target : Version, version : Version, onAgent : BOOLEAN]

AllLabels == <<<<"agent">>>>
(* NormalizeAgentLabels                                                     *)
Labels(a) ==
  <<<<"agent">>, <<agents[a].transport>>, <<"id", a>>>> \o agents[a].tags

NoCall == [pc |-> "new", scope |-> Nil, req |-> Nil, options |-> <<>>, jobs |-> {}]
Refuse == call' = [call EXCEPT !.pc = "refused"]
At(pc) == call' = [call EXCEPT !.pc = pc]

TypeOK ==
  /\ configs \in ConfigChoice /\ agents \in [Agent -> AgentChoice]
  /\ call.pc \in {"new", "policies", "authorize", "options", "targets", "refused", "failed", "created"}
  /\ call.scope \in Scope \cup {Nil}
  /\ call.pc = "new" \/ call.req.tool \in Tool
  /\ \A i \in DOMAIN call.options : call.options[i] \in [ok : {TRUE}, version : Version, resolved : Version]
  /\ call.jobs \subseteq [agent : Agent \cup {Nil}, version : Version, resolved : Version]
  /\ edits \in 0..MaxEdits /\ edited \in BOOLEAN

Init ==
  /\ configs \in ConfigChoice /\ agents \in [Agent -> AgentChoice]
  /\ call = NoCall /\ edits = 0 /\ edited = FALSE

-----------------------------------------------------------------------------
(* Scopes of tokens *)

(* scopeAllowsAgent, scopeAllowsAllAgents                                   *)
ScopeAllowsAgent(s, a) ==
  /\ s.all \/ "*" \in s.agents \/ s.agents = {} \/ a \in s.agents
  /\ a \notin s.denied

(* Mutant: a denied tag counts only for a scope that names tags.            *)
ScopeAllowsAgentRecordLoose(s, a) ==
  /\ ScopeAllowsAgent(s, a)
  /\ s.tags = {} \/ (Range(Labels(a)) \cap s.tags # {} /\ Range(Labels(a)) \cap s.deniedTags = {})

(* scopeAllowsAgentRecord                                                   *)
ScopeAllowsAgentRecord(s, a) ==
  /\ ScopeAllowsAgent(s, a)
  /\ Range(Labels(a)) \cap s.deniedTags = {}
  /\ s.tags = {} \/ Range(Labels(a)) \cap s.tags # {}

(* effectiveArgs: the defaults of arguments that are not given.             *)
EffectiveArgs(req) ==
  LET given == DOMAIN req.args \ ServerOwned
      key == CASE req.tool \in {"ping", "traceroute", "mtr"} -> {"protocol"}
               [] req.tool = "http" -> {"method"}
               [] req.tool = "dns" -> {"type"}
               [] OTHER -> {}
  IN  [k \in given \cup key |->
         IF k \in given THEN req.args[k]
         ELSE CASE k = "protocol" -> "icmp" [] k = "method" -> "GET" [] OTHER -> "A"]

LabelsOfRequest(req) == IF req.agent = Nil THEN AllLabels ELSE Labels(req.agent)

(* authorizeJob                                                             *)
AuthorizeJob(s, req) ==
  \/ s.all
  \/ LET policies == PoliciesForLabels(configs, LabelsOfRequest(req))
     IN  /\ req.tool \in DOMAIN s.tools /\ req.tool \in DOMAIN policies
         /\ s.tools[req.tool].versions = {} \/ req.version \in s.tools[req.tool].versions
         /\ s.tools[req.tool].onAgent \in {Nil, req.onAgent}
         /\ req.agent # Nil => ScopeAllowsAgentRecord(s, req.agent)
         /\ s.tools[req.tool].args # Nil =>
              LET allowed == IntersectAllowedArgs(policies[req.tool], s.tools[req.tool].args)
                  args == EffectiveArgs(req)
              IN  \A k \in DOMAIN args : k \in DOMAIN allowed /\ ArgAllowed(k, allowed[k], args[k])

(* permissionsForPolicies with permissionArgs and permissionIPVersions      *)
Permissions(policies, s) ==
  [t \in {u \in DOMAIN policies : s.all \/ u \in DOMAIN s.tools} |->
     [args |-> IF s.all \/ s.tools[t].args = Nil THEN policies[t]
               ELSE IntersectAllowedArgs(policies[t], s.tools[t].args),
      onAgent |-> IF t \in DOMAIN s.tools THEN s.tools[t].onAgent ELSE Nil,
      versions |-> IF s.all \/ s.tools[t].versions = {} THEN Version ELSE s.tools[t].versions]]

(* Mutant: an agent is listed with what the token alone allows.             *)
AgentToolPermissionsOfToken(a, s) ==
  [t \in {u \in DOMAIN Permissions(BasePolicies, s) : u \in agents[a].caps} |->
     Permissions(BasePolicies, s)[t]]

(* agentToolPermissions: what the list of agents shows for one of them.     *)
AgentToolPermissions(a, s) ==
  LET shared == DOMAIN PoliciesForLabels(configs, AllLabels)
      offered == Permissions(PoliciesForLabels(configs, Labels(a)), s)
      usable(t) == {v \in offered[t].versions : Supports(agents[a].protocols, v)}
      shown == {t \in DOMAIN offered : /\ s.all \/ t \in shared
                                       /\ t \in agents[a].caps
                                       /\ offered[t].args # <<>> /\ usable(t) # {}}
  IN  [t \in shown |-> [offered[t] EXCEPT !.versions = usable(t)]]

-----------------------------------------------------------------------------
(* createJob *)

(* A request has passed auth; decoding or AllowTool may still refuse it.    *)
Arrive(s, req) ==
  /\ call.pc = "new"
  /\ call' = [call EXCEPT !.pc = "policies", !.scope = s, !.req = req]
  /\ UNCHANGED <<configs, agents, edits, edited>>

(* policiesForJob, ServerArgs, Validate                                     *)
CheckPolicies ==
  LET labels == LabelsOfRequest(call.req)
      args == ServerArgs(call.req.tool, call.req.args, RuntimeForLabels(configs, labels, Default))
      req == [call.req EXCEPT !.args = args]
  IN  /\ call.pc = "policies"
      /\ IF Validate(PoliciesForLabels(configs, labels), req, TRUE)
           THEN call' = [call EXCEPT !.pc = "authorize", !.req = req]
           ELSE Refuse
      /\ UNCHANGED <<configs, agents, edits, edited>>

Authorize ==
  /\ call.pc = "authorize"
  /\ IF AuthorizeJob(call.scope, call.req) THEN At("options") ELSE Refuse
  /\ UNCHANGED <<configs, agents, edits, edited>>

Options(dns) ==
  LET options == DispatchOptions(call.req.target, call.req.version, call.req.onAgent, dns)
  IN  /\ call.pc = "options"
      /\ IF options = <<>> THEN Refuse
         ELSE call' = [call EXCEPT !.pc = "targets", !.options = options]
      /\ UNCHANGED <<configs, agents, edits, edited>>

(* The job an agent is given.                                               *)
JobFor(a, t) == [agent |-> a, version |-> t.version, resolved |-> t.resolved]

(* fanoutDispatchTargets: the agents a fan-out goes to.                     *)
FanoutAgents ==
  {a \in Agent :
     /\ ScopeAllowsAgentRecord(call.scope, a)
     /\ agents[a].enabled
     /\ Validate(PoliciesForLabels(configs, Labels(a)), [call.req EXCEPT !.agent = a], TRUE)
     /\ agents[a].online /\ call.req.tool \in agents[a].caps
     /\ SelectDispatchTarget(agents[a].protocols, call.options).ok}

(* The parent is the job without an agent; CreateJobs stores them together. *)
Fanout ==
  LET targets == {JobFor(a, SelectDispatchTarget(agents[a].protocols, call.options)) : a \in FanoutAgents}
  IN  /\ call.pc = "targets" /\ call.req.agent = Nil
      /\ IF FanoutAgents = {} THEN Refuse
         ELSE call' = [call EXCEPT !.pc = "created",
                         !.jobs = targets \cup {JobFor(Nil, ParentDispatchTarget(targets))}]
      /\ UNCHANGED <<configs, agents, edits, edited>>

(* pinnedDispatchTarget: an error for an agent that is disabled or offline, *)
(* a job that has failed for one that cannot run it, or a queued job.       *)
Pinned ==
  LET a == call.req.agent
      capable == /\ call.req.tool \in DOMAIN PoliciesForLabels(configs, Labels(a))
                 /\ call.req.tool \in agents[a].caps
                 /\ SelectDispatchTarget(agents[a].protocols, call.options).ok
  IN  /\ call.pc = "targets" /\ a # Nil
      /\ IF ~agents[a].enabled \/ (~agents[a].online /\ call.req.tool \in DOMAIN PoliciesForLabels(configs, Labels(a)))
           THEN Refuse
         ELSE IF ~capable THEN call' = [call EXCEPT !.pc = "failed"]
         ELSE call' = [call EXCEPT !.pc = "created",
                !.jobs = {JobFor(a, SelectDispatchTarget(agents[a].protocols, call.options))}]
      /\ UNCHANGED <<configs, agents, edits, edited>>

(* A manager saves labels, or an agent or its record changes.               *)
Edit ==
  /\ edits < MaxEdits /\ edits' = edits + 1
  /\ edited' = (call.pc \in {"policies", "authorize", "options", "targets"} \/ edited)
  /\ call.pc \notin {"refused", "failed", "created"}
  /\ \/ configs' \in ConfigChoice /\ UNCHANGED agents
     \/ \E a \in Agent, r \in AgentChoice : agents' = [agents EXCEPT ![a] = r] /\ UNCHANGED configs
  /\ UNCHANGED call

Next ==
  \/ \E s \in Scope, req \in Request : Arrive(s, req)
  \/ CheckPolicies \/ Authorize \/ (\E dns \in SUBSET Family : Options(dns)) \/ Fanout \/ Pinned
  \/ Edit

Spec == Init /\ [][Next]_vars

-----------------------------------------------------------------------------
(* Reference definitions *)

(* A rule admits a value; an argument without a rule is not admitted, and a *)
(* rule that is not valid admits none.                                      *)
Admits(args, k, v) ==
  /\ k \in DOMAIN args
  /\ IF k = "port" THEN ValidPortRule(ParsePortRanges(args[k])) /\ v \in Ports(ParsePortRanges(args[k]))
                   ELSE v \in args[k]

(* An agent with these labels may run the tool with the arguments: the base *)
(* policies admit them, and so does every configuration of every label.     *)
Permits(labels, tool, args) ==
  LET cfgs == {configs[l].tools : l \in {m \in Range(labels) : m \in DOMAIN configs}}
      rules == {c[tool] : c \in {d \in cfgs : tool \in DOMAIN d}}
  IN  /\ \A r \in rules : r.enabled
      /\ \A k \in DOMAIN args \ ServerOwned :
           /\ Admits(BaseArgs(tool), k, args[k])
           /\ \A r \in rules : r.args # Nil => Admits(r.args, k, args[k])

(* The limits the labels set for a field of the runtime.                    *)
LimitsOf(labels, f) ==
  {DefaultRuntimeValues(configs[l].runtime)[f] :
     l \in {m \in Range(labels) : m \in DOMAIN configs /\ configs[m].runtime # Nil}}

(* A token may use the tool with the arguments on the agent.                *)
TokenPermits(s, req, a) ==
  \/ s.all
  \/ /\ a \notin s.denied /\ \A l \in Range(Labels(a)) : l \notin s.deniedTags
     /\ s.agents = {} \/ "*" \in s.agents \/ a \in s.agents
     /\ s.tags = {} \/ \E l \in Range(Labels(a)) : l \in s.tags
     /\ req.tool \in DOMAIN s.tools
     /\ s.tools[req.tool].args # Nil =>
          \A k \in DOMAIN EffectiveArgs(req) :
            Admits(s.tools[req.tool].args, k, EffectiveArgs(req)[k])

-----------------------------------------------------------------------------
(* Properties *)

(* Properties of the settings alone are looked at before a request comes.   *)
Settled == call.pc = "new"

(* Labels only take away, whatever their order: merged rule by rule and     *)
(* label by label, the policies of an agent allow exactly what the base     *)
(* policies and each of its labels allow, and each limit is the least       *)
(* positive one that is set (intersectConfigPolicies, WithIntersection,     *)
(* IntersectPortRules and minRuntime against sets of admitted arguments).   *)
PoliciesAreConjunction ==
  Settled => \A a \in Agent :
    /\ \A req \in Request :
         Validate(PoliciesForLabels(configs, Labels(a)), [req EXCEPT !.agent = a], TRUE)
           <=> /\ Permits(Labels(a), req.tool, req.args)
               /\ req.tool = "port" => "port" \in DOMAIN req.args
    /\ \A f \in RuntimeField :
         RuntimeForLabels(configs, Labels(a), Default)[f] =
           Min({Default[f]} \cup {v \in LimitsOf(Labels(a), f) : v > 0})

(* What is stored was allowed: every job of a request that no edit has      *)
(* overtaken is on an enabled agent that is online and has the tool, and    *)
(* labels and token allow it there; the children of a fan-out, too, though  *)
(* the request was checked against the shared label only (createJob).       *)
CreatedIsAllowed ==
  call.pc = "created" /\ ~edited =>
    \A j \in call.jobs : j.agent # Nil =>
      /\ agents[j.agent].enabled /\ agents[j.agent].online
      /\ call.req.tool \in agents[j.agent].caps
      /\ Permits(Labels(j.agent), call.req.tool, call.req.args)
      /\ TokenPermits(call.scope, call.req, j.agent)

(* The list of agents keeps its promises: a request for a listed tool with  *)
(* arguments, version and resolution as shown is accepted, and one with     *)
(* arguments that are not shown is not (agentToolPermissions against        *)
(* Validate and authorizeJob).                                              *)
ShownIsAccepted ==
  Settled => \A a \in Agent, s \in Scope, q \in Request :
    LET req == [q EXCEPT !.agent = a]
        shown == AgentToolPermissions(a, s)
        within(args) == \A k \in DOMAIN args \ ServerOwned :
          k \in DOMAIN shown[q.tool].args /\ ArgAllowed(k, shown[q.tool].args[k], args[k])
        accepted == /\ Validate(PoliciesForLabels(configs, Labels(a)), req, TRUE)
                    /\ AuthorizeJob(s, req)
    IN  (ScopeAllowsAgentRecord(s, a) /\ q.tool \in DOMAIN shown) =>
          /\ /\ within(EffectiveArgs(req)) /\ req.version \in shown[q.tool].versions
             /\ shown[q.tool].onAgent \in {Nil, req.onAgent}
             /\ q.tool = "port" => "port" \in DOMAIN q.args
             => accepted
          /\ accepted => within(q.args)

(* An agent does not turn down for its protocol what the server has sent    *)
(* it, and runs it in the version that was asked for, whatever its own      *)
(* look-ups find (selectDispatchTarget, then resolveAgentTarget).           *)
AgentAgrees ==
  \A j \in call.jobs : j.agent # Nil =>
    \A dns \in SUBSET Family :
      LET mask == agents[j.agent].protocols
          got == ResolveAgentTarget(call.req.target, j.resolved, j.version, call.req.onAgent, mask, dns)
      IN  /\ got # Unsupported
          /\ got.ok => /\ Supports(mask, got.version)
                       /\ call.req.version # 0 => got.version = call.req.version
=============================================================================
