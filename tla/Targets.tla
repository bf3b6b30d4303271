------------------------------ MODULE Targets ------------------------------
(***************************************************************************)
(* Which address of a target a job is run against: the server chooses an    *)
(* option for an agent (dispatchOptions, selectDispatchTarget in            *)
(* internal/api/server.go), the agent checks it or resolves the name itself *)
(* (resolveAgentTarget in cmd/agent/main.go).                               *)
(*                                                                         *)
(* A target is a literal address, 4 or 6, or a name, 0; a version asked for *)
(* is 4, 6 or 0 for either. dns is the set of families in which a look-up   *)
(* of the name succeeds with addresses that are allowed. A literal address  *)
(* that is not allowed is refused everywhere alike and left out. A mask is  *)
(* the set of an agent's protocols; the empty set stands for both.          *)
(***************************************************************************)
EXTENDS Integers, Sequences, FiniteSetsExt

Family  == {4, 6}
Version == {0} \cup Family
Failed  == [ok |-> FALSE, version |-> 0, resolved |-> 0]
Found(version, resolved) == [ok |-> TRUE, version |-> version, resolved |-> resolved]

Protocols(mask) == IF mask = {} THEN Family ELSE mask
(* RequiredProtocol and validateAgentProtocol                               *)
Supports(mask, version) == version = 0 \/ version \in Protocols(mask)

(* validateIPVersion                                                        *)
Matches(literal, version) == version = 0 \/ literal = version

(* ResolveTargetWithRuntime, for the versions it is called with.            *)
ResolveTarget(target, version, dns) ==
  IF target # 0 THEN IF Matches(target, version) THEN Found(target, target) ELSE Failed
  ELSE IF version \in dns THEN Found(version, version) ELSE Failed

-----------------------------------------------------------------------------
(* The server *)

(* dispatchOptions: the targets an agent may be given, in order of          *)
(* preference; <<>> for a request that is refused.                          *)
DispatchOptions(target, version, onAgent, dns) ==
  LET resolved(v) == ResolveTarget(target, v, dns)
      one(v) == IF resolved(v).ok THEN <<resolved(v)>> ELSE <<>>
  IN  IF target # 0
        THEN IF ~Matches(target, version) THEN <<>>
             ELSE IF onAgent THEN <<Found(target, 0)>> ELSE one(target)
      ELSE IF onAgent THEN <<Found(version, 0)>>
      ELSE IF version # 0 THEN one(version)
      ELSE one(6) \o one(4)

(* Mutant: the preferred option is taken whatever the agent supports.       *)
SelectDispatchTargetFirst(mask, options) == options[1]

(* selectDispatchTargetWithFailure, once the agent has the tool: the first  *)
(* option the agent's protocols allow, or unsupported_protocol.             *)
SelectDispatchTarget(mask, options) ==
  LET usable == {i \in DOMAIN options : Supports(mask, options[i].version)}
  IN  IF usable = {} THEN Failed ELSE options[Min(usable)]

(* parentDispatchTarget: what all targets have in common.                   *)
ParentDispatchTarget(targets) ==
  LET common(f) == IF \A t, u \in targets : t[f] = u[f] THEN (CHOOSE t \in targets : TRUE)[f] ELSE 0
  IN  Found(common("version"), common("resolved"))

-----------------------------------------------------------------------------
(* The agent *)

Unsupported == [Failed EXCEPT !.version = 1]      \* unsupported_protocol
Blocked     == Failed                             \* target_blocked

(* agentTargetVersions: the versions to try, 6 before 4.                    *)
AgentTargetVersions(version, mask) ==
  (IF version = 0 THEN Family ELSE {version}) \cap Protocols(mask)

(* agentExecutionVersion                                                    *)
AgentExecutionVersion(version, mask) ==
  IF version # 0 THEN IF Supports(mask, version) THEN Found(version, 0) ELSE Unsupported
  ELSE IF Protocols(mask) = Family THEN Found(0, 0)
  ELSE Found(CHOOSE v \in Protocols(mask) : TRUE, 0)

(* resolveAgentTarget: resolve on the agent, check what the server has      *)
(* resolved, or leave the look-up to the tool.                              *)
ResolveAgentTarget(target, resolved, version, onAgent, mask, dns) ==
  IF onAgent
    THEN IF target # 0 /\ ~Matches(target, version) THEN Blocked
         ELSE IF target # 0 /\ ~Supports(mask, target) THEN Unsupported
         ELSE LET candidates == AgentTargetVersions(version, mask)
                  good == {v \in candidates : ResolveTarget(target, v, dns).ok}
                  first == ResolveTarget(target, Max(good), dns)
              IN  IF candidates = {} THEN Unsupported
                  ELSE IF good = {} THEN Blocked
                  ELSE IF Supports(mask, first.version) THEN first ELSE Unsupported
  ELSE IF resolved # 0
    THEN IF ~Matches(resolved, version) THEN Blocked
         ELSE IF Supports(mask, resolved) THEN Found(resolved, resolved) ELSE Unsupported
  ELSE IF target # 0
    THEN IF ~Matches(target, version) THEN Blocked
         ELSE IF Supports(mask, target) THEN Found(target, 0) ELSE Unsupported
  ELSE AgentExecutionVersion(version, mask)
=============================================================================
