------------------------------ MODULE Policies ------------------------------
(***************************************************************************)
(* Tool policies and runtime limits (internal/policy/policy.go and the      *)
(* label helpers of internal/api/server.go). Every agent has a set of        *)
(* labels, every label may have a configuration, and what an agent may do    *)
(* is what the base policies and all of its labels allow.                    *)
(*                                                                         *)
(* A rule is the set of the items of a comma-separated list, whose order     *)
(* does not matter: ranges <<first, last>> for the argument "port", values   *)
(* for any other. Allowed arguments are a function from arguments to rules,  *)
(* or Nil.                                                                   *)
(***************************************************************************)
EXTENDS Integers, Sequences

CONSTANTS
  MaxPort,   \* the last port (65535)
  Default,   \* DefaultRuntime: the value of each runtime field
  Nil        \* a map that is not there

RuntimeField == {"count", "hops", "step", "max_tool", "http", "dns", "resolve",
                 "attempts", "health"}
Tool == {"ping", "traceroute", "mtr", "http", "dns", "port"}

ASSUME PoliciesAssumption ==
  MaxPort \in Nat \ {0} /\ Default \in [RuntimeField -> Nat \ {0}]

-----------------------------------------------------------------------------
(* Runtime limits *)

MinPositive(left, right) ==
  IF left <= 0 THEN right ELSE IF right <= 0 THEN left ELSE IF right < left THEN right ELSE left

(* DefaultRuntimeValues fills in what is zero, normalizeRuntime what is not *)
(* positive.                                                                *)
DefaultRuntimeValues(r) == [f \in RuntimeField |-> IF r[f] = 0 THEN Default[f] ELSE r[f]]
NormalizeRuntime(r) == [f \in RuntimeField |-> IF r[f] <= 0 THEN Default[f] ELSE r[f]]

MinRuntime(base, next) ==
  [f \in RuntimeField |-> MinPositive(DefaultRuntimeValues(base)[f], DefaultRuntimeValues(next)[f])]

(* Mutant: the seconds between two pings are left out.                      *)
TimeoutForJobNoInterval(tool, runtime) ==
  LET r == NormalizeRuntime(runtime)
      need == CASE tool = "ping" -> r["count"] * r["step"]
                [] tool = "mtr" -> r["count"] * r["hops"] * r["step"]
                [] OTHER -> r["hops"] * r["step"]
  IN  IF need > r["max_tool"] THEN r["max_tool"] ELSE need

(* TimeoutForJobWithRuntime: what a run may need, and no more than the limit. *)
Needed(tool, r) ==
  CASE tool = "ping" -> r["count"] * r["step"] + (r["count"] - 1)
    [] tool = "traceroute" -> r["hops"] * r["step"]
    [] tool = "mtr" -> r["count"] * r["hops"] * r["step"]
    [] tool = "http" -> r["http"]
    [] tool = "dns" -> r["dns"]
    [] OTHER -> r["step"]

TimeoutForJob(tool, runtime) ==
  LET r == NormalizeRuntime(runtime)
  IN  IF Needed(tool, r) > r["max_tool"] THEN r["max_tool"] ELSE Needed(tool, r)

(* ServerArgsWithRuntime: arguments the server owns are dropped and set.    *)
ServerOwned == {"count", "max_hops", "max_hop"}
ServerArgs(tool, args, runtime) ==
  LET r == NormalizeRuntime(runtime)
      own == CASE tool = "ping" -> [k \in {"count"} |-> r["count"]]
               [] tool = "traceroute" -> [k \in {"max_hops"} |-> r["hops"]]
               [] tool = "mtr" -> [k \in {"count", "max_hops"} |->
                                     IF k = "count" THEN r["count"] ELSE r["hops"]]
               [] OTHER -> <<>>
  IN  [k \in (DOMAIN args \ ServerOwned) \cup DOMAIN own |->
         IF k \in DOMAIN own THEN own[k] ELSE args[k]]

-----------------------------------------------------------------------------
(* Rules *)

Ports(rule) == UNION {r[1]..r[2] : r \in rule}
DefaultPortRange == {<<1, MaxPort>>}

(* parsePortRanges: an empty rule stands for every port; a range that is    *)
(* empty or out of bounds makes the whole rule invalid.                     *)
ParsePortRanges(rule) == IF rule = {} THEN DefaultPortRange ELSE rule
ValidPortRule(rule) == \A r \in rule : 1 <= r[1] /\ r[1] <= r[2] /\ r[2] <= MaxPort

Overlap(x, y) == <<IF x[1] > y[1] THEN x[1] ELSE y[1], IF x[2] < y[2] THEN x[2] ELSE y[2]>>

(* Mutant: a range ends before its last port.                               *)
OverlapShort(x, y) ==
  <<IF x[1] > y[1] THEN x[1] ELSE y[1], (IF x[2] < y[2] THEN x[2] ELSE y[2]) - 1>>
IntersectPortRulesShort(left, right) ==
  {r \in {OverlapShort(x, y) : x \in ParsePortRanges(left), y \in ParsePortRanges(right)} : r[1] <= r[2]}

(* IntersectPortRules: the ranges that every pair of ranges has in common;  *)
(* {} for a rule that is invalid or an intersection that is empty.          *)
IntersectPortRules(left, right) ==
  LET a == ParsePortRanges(left)
      b == ParsePortRanges(right)
  IN  IF ~ValidPortRule(a) \/ ~ValidPortRule(b) THEN {}
      ELSE {r \in {Overlap(x, y) : x \in a, y \in b} : r[1] <= r[2]}

(* IntersectAllowedArgs: an argument stays if both allow it and have a      *)
(* value in common.                                                         *)
IntersectAllowedArgs(base, limit) ==
  IF base = Nil THEN limit
  ELSE IF limit = Nil THEN base
  ELSE LET rule(k) == IF k = "port" THEN IntersectPortRules(base[k], limit[k])
                                    ELSE base[k] \cap limit[k]
       IN  [k \in {l \in DOMAIN base \cap DOMAIN limit : rule(l) # {}} |-> rule(k)]

(* ValidatePortAllowed, AllowedArgContains                                  *)
ArgAllowed(k, rule, v) ==
  IF k = "port" THEN v \in 1..MaxPort /\ ValidPortRule(ParsePortRanges(rule))
                       /\ v \in Ports(ParsePortRanges(rule))
                ELSE rule = {} \/ v \in rule

-----------------------------------------------------------------------------
(* Policies of labels. A configured policy is [enabled, args]; a policy set *)
(* is a function from the enabled tools to their allowed arguments.         *)

(* PoliciesWithRuntime                                                      *)
BaseArgs(tool) ==
  CASE tool \in {"ping", "traceroute", "mtr"} ->
         [k \in {"protocol", "port"} |-> IF k = "port" THEN DefaultPortRange ELSE {"icmp", "tcp"}]
    [] tool = "http" -> [k \in {"method"} |-> {"GET", "HEAD"}]
    [] tool = "dns" -> [k \in {"type"} |-> {"A", "AAAA", "CNAME", "MX", "TXT", "NS"}]
    [] tool = "port" -> [k \in {"port"} |-> DefaultPortRange]

BasePolicies == [t \in Tool |-> BaseArgs(t)]

(* intersectConfigPolicies                                                  *)
IntersectConfigPolicies(left, right) ==
  [t \in DOMAIN left \cup DOMAIN right |->
     IF t \notin DOMAIN right THEN left[t]
     ELSE IF ~right[t].enabled \/ t \notin DOMAIN left THEN right[t]
     ELSE IF ~left[t].enabled \/ right[t].args = Nil THEN left[t]
     ELSE [enabled |-> TRUE, args |-> IntersectAllowedArgs(left[t].args, right[t].args)]]

(* toolPoliciesForLabels: the policies of an agent's labels, merged from    *)
(* left to right; labels without a configuration are passed over            *)
(* (labelConfigsForLabels).                                                 *)
MergedPolicies(configs, labels) ==
  LET merged[i \in 0..Len(labels)] ==
        IF i = 0 THEN <<>>
        ELSE IF labels[i] \in DOMAIN configs
          THEN IntersectConfigPolicies(merged[i - 1], configs[labels[i]].tools)
          ELSE merged[i - 1]
  IN  merged

ToolPoliciesForLabels(configs, labels) == MergedPolicies(configs, labels)[Len(labels)]

(* WithIntersection                                                         *)
WithIntersection(policies, cfg) ==
  LET disabled == {t \in DOMAIN cfg : ~cfg[t].enabled}
  IN  [t \in DOMAIN policies \ disabled |->
         IF t \in DOMAIN cfg /\ cfg[t].args # Nil
           THEN IntersectAllowedArgs(policies[t], cfg[t].args)
           ELSE policies[t]]

(* policiesForLabels: the policies and the runtime limits of a set of labels. *)
PoliciesForLabels(configs, labels) ==
  WithIntersection(BasePolicies, ToolPoliciesForLabels(configs, labels))

MergedRuntime(configs, labels, base) ==
  LET merged[i \in 0..Len(labels)] ==
        IF i = 0 THEN base
        ELSE IF labels[i] \in DOMAIN configs /\ configs[labels[i]].runtime # Nil
          THEN MinRuntime(merged[i - 1], configs[labels[i]].runtime)
          ELSE merged[i - 1]
  IN  merged

RuntimeForLabels(configs, labels, base) == MergedRuntime(configs, labels, base)[Len(labels)]

(* validate: the tool is enabled, a traceroute or MTR is pinned, a port     *)
(* probe has a port, and every argument of the request is allowed.          *)
Validate(policies, req, requirePinned) ==
  /\ req.tool \in DOMAIN policies
  /\ requirePinned /\ req.tool \in {"traceroute", "mtr"} => req.agent # Nil
  /\ req.tool = "port" => "port" \in DOMAIN req.args
  /\ \A k \in DOMAIN req.args \ ServerOwned :
       /\ k \in DOMAIN policies[req.tool]
       /\ ArgAllowed(k, policies[req.tool][k], req.args[k])
=============================================================================
