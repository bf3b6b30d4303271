---------------------------- MODULE AccessProofs ----------------------------
(***************************************************************************)
(* What holds of policies, permissions and the handler createJob (Access)   *)
(* for any number of labels in any order, any rules, tokens and requests.   *)
(***************************************************************************)
EXTENDS Access, WellFoundedInduction, TLAPS

-----------------------------------------------------------------------------
(* Induction: a set of natural numbers has a least element *)

LEMMA Least ==
  ASSUME NEW S, S \subseteq Nat, S # {}
  PROVE  \E m \in S : \A n \in S : m <= n
<1> DEFINE less == {ss \in Nat \X Nat : ss[1] < ss[2]}
<1>1. OpToRel(<, Nat) = less
  BY DEF OpToRel
<1>2. IsWellFoundedOn(less, Nat)
  BY <1>1, NatLessThanWellFounded
<1>3. PICK m \in S : \A n \in S : ~(<<n, m>> \in less)
  BY <1>2, WFMin, Zenon
<1>4. \A n \in S : ~(n < m)
  <2>1. SUFFICES ASSUME NEW n \in S, n < m PROVE FALSE
    OBVIOUS
  <2>2. <<n, m>> \in Nat \X Nat /\ <<n, m>>[1] = n /\ <<n, m>>[2] = m
    OBVIOUS
  <2> QED BY <1>3, <2>1, <2>2
<1>5. \A n \in S : m <= n
  BY <1>4
<1> QED BY <1>5

(* What holds of 0, and of i if it holds of i - 1, holds up to n.           *)
LEMMA UpTo ==
  ASSUME NEW n \in Nat, NEW S, 0 \in S, \A i \in 1..n : i - 1 \in S => i \in S
  PROVE  \A i \in 0..n : i \in S
<1> DEFINE bad == {i \in 0..n : i \notin S}
<1>1. SUFFICES ASSUME bad # {} PROVE FALSE
  OBVIOUS
<1>2. bad \subseteq Nat
  OBVIOUS
<1>3. PICK m \in bad : \A i \in bad : m <= i
  BY <1>1, <1>2, Least
<1>4. m \in 1..n
  BY <1>3
<1>5. m - 1 \in 0..n /\ ~(m <= m - 1)
  BY <1>4
<1>6. m - 1 \in S
  BY <1>3, <1>5
<1> QED BY <1>3, <1>4, <1>6

-----------------------------------------------------------------------------
(* Rules *)

PortRule == SUBSET (Int \X Int)

LEMMA DefaultRange ==
  /\ DefaultPortRange \in PortRule /\ DefaultPortRange # {} /\ ValidPortRule(DefaultPortRange)
  /\ Ports(DefaultPortRange) = 1..MaxPort
<1>1. MaxPort \in Nat \ {0}
  BY PoliciesAssumption
<1>2. <<1, MaxPort>> \in Int \X Int /\ <<1, MaxPort>>[1] = 1 /\ <<1, MaxPort>>[2] = MaxPort
  BY <1>1
<1>3. ValidPortRule(DefaultPortRange)
  BY <1>1, <1>2 DEF ValidPortRule, DefaultPortRange
<1>4. Ports(DefaultPortRange) = 1..MaxPort
  BY <1>2 DEF Ports, DefaultPortRange
<1> QED BY <1>2, <1>3, <1>4 DEF DefaultPortRange, PortRule

LEMMA Parsed ==
  ASSUME NEW rule \in PortRule
  PROVE  ParsePortRanges(rule) \in PortRule /\ ParsePortRanges(rule) # {}
BY DefaultRange DEF ParsePortRanges

(* A value is in a rule if it is in one of its ranges.                      *)
LEMMA InPorts ==
  ASSUME NEW rule \in PortRule, NEW v
  PROVE  v \in Ports(rule) <=> \E r \in rule : v \in r[1]..r[2]
BY DEF Ports

LEMMA ValidIn ==
  ASSUME NEW rule \in PortRule, ValidPortRule(rule), NEW v \in Ports(rule)
  PROVE  v \in 1..MaxPort
<1>1. PICK r \in rule : v \in r[1]..r[2]
  BY InPorts
<1>2. r[1] \in Int /\ r[2] \in Int /\ 1 <= r[1] /\ r[2] <= MaxPort
  BY DEF PortRule, ValidPortRule
<1> QED BY <1>1, <1>2, PoliciesAssumption

(* The overlap of two ranges is what they have in common.                   *)
LEMMA OverlapIs ==
  ASSUME NEW x \in Int \X Int, NEW y \in Int \X Int
  PROVE  /\ Overlap(x, y) \in Int \X Int
         /\ \A v : v \in Overlap(x, y)[1]..Overlap(x, y)[2] <=> (v \in x[1]..x[2] /\ v \in y[1]..y[2])
         /\ \A n \in Int : (x[1] >= 1 /\ x[2] <= n) => (Overlap(x, y)[1] >= 1 /\ Overlap(x, y)[2] <= n)
<1> DEFINE lo == IF x[1] > y[1] THEN x[1] ELSE y[1]
           hi == IF x[2] < y[2] THEN x[2] ELSE y[2]
<1>1. x[1] \in Int /\ x[2] \in Int /\ y[1] \in Int /\ y[2] \in Int
  OBVIOUS
<1>2. lo \in Int /\ hi \in Int /\ Overlap(x, y) = <<lo, hi>>
  BY <1>1 DEF Overlap
<1>3. Overlap(x, y)[1] = lo /\ Overlap(x, y)[2] = hi
  BY <1>2
<1>4. \A v : v \in lo..hi <=> (v \in x[1]..x[2] /\ v \in y[1]..y[2])
  BY <1>1
<1>5. \A n \in Int : (x[1] >= 1 /\ x[2] <= n) => (lo >= 1 /\ hi <= n)
  BY <1>1
<1> HIDE DEF lo, hi
<1> QED BY <1>2, <1>3, <1>4, <1>5

(* IntersectPortRules yields the ports that both rules allow, and nothing   *)
(* for a rule that is not valid.                                            *)
LEMMA PortsInCommon ==
  ASSUME NEW left \in PortRule, NEW right \in PortRule
  PROVE  LET both == IntersectPortRules(left, right)
             a == ParsePortRanges(left)
             b == ParsePortRanges(right)
         IN  /\ both \in PortRule /\ ValidPortRule(both)
             /\ \A v : v \in Ports(both) <=>
                  (ValidPortRule(a) /\ ValidPortRule(b) /\ v \in Ports(a) /\ v \in Ports(b))
<1> DEFINE both == IntersectPortRules(left, right)
           a == ParsePortRanges(left)
           b == ParsePortRanges(right)
<1>1. a \in PortRule /\ b \in PortRule
  BY Parsed
<1>2. CASE ~ValidPortRule(a) \/ ~ValidPortRule(b)
  <2>1. both = {}
    BY <1>2 DEF IntersectPortRules
  <2>2. both \in PortRule /\ ValidPortRule(both) /\ Ports(both) = {}
    BY <2>1 DEF PortRule, ValidPortRule, Ports
  <2> QED BY <1>2, <2>2
<1>3. CASE ValidPortRule(a) /\ ValidPortRule(b)
  <2>1. both = {r \in {Overlap(x, y) : x \in a, y \in b} : r[1] <= r[2]}
    BY <1>3 DEF IntersectPortRules
  <2> HIDE DEF both, a, b
  <2>2. \A r \in both : \E x \in a, y \in b : r = Overlap(x, y) /\ r[1] <= r[2]
    BY <2>1
  <2>3. \A x \in a : \A y \in b : x \in Int \X Int /\ y \in Int \X Int
    BY <1>1 DEF PortRule
  <2>4. both \in PortRule
    BY <2>2, <2>3, OverlapIs DEF PortRule
  <2>5. ValidPortRule(both)
    <3>1. SUFFICES ASSUME NEW r \in both
                   PROVE  1 <= r[1] /\ r[1] <= r[2] /\ r[2] <= MaxPort
      BY DEF ValidPortRule
    <3>2. PICK x \in a, y \in b : r = Overlap(x, y) /\ r[1] <= r[2]
      BY <2>2
    <3>3. x[1] >= 1 /\ x[2] <= MaxPort /\ MaxPort \in Int /\ x[1] \in Int
      BY <1>3, <2>3, PoliciesAssumption DEF ValidPortRule
    <3>4. r[1] >= 1 /\ r[2] <= MaxPort
      BY <2>3, <3>2, <3>3, OverlapIs
    <3>5. r[1] \in Int
      BY <2>4, <3>1 DEF PortRule
    <3> QED BY <3>2, <3>4, <3>5
  <2>6. ASSUME NEW v \in Ports(both) PROVE v \in Ports(a) /\ v \in Ports(b)
    <3>1. PICK r \in both : v \in r[1]..r[2]
      BY <2>4, <2>6, InPorts
    <3>2. PICK x \in a, y \in b : r = Overlap(x, y)
      BY <2>2
    <3>3. v \in x[1]..x[2] /\ v \in y[1]..y[2]
      BY <2>3, <3>1, <3>2, OverlapIs
    <3> QED BY <1>1, <3>3, InPorts
  <2>7. ASSUME NEW v \in Ports(a), v \in Ports(b) PROVE v \in Ports(both)
    <3>1. PICK x \in a : v \in x[1]..x[2]
      BY <1>1, <2>7, InPorts
    <3>2. PICK y \in b : v \in y[1]..y[2]
      BY <1>1, <2>7, InPorts
    <3>3. v \in Overlap(x, y)[1]..Overlap(x, y)[2]
      BY <2>3, <3>1, <3>2, OverlapIs
    <3>4. Overlap(x, y)[1] <= Overlap(x, y)[2]
      <4>1. Overlap(x, y)[1] \in Int /\ Overlap(x, y)[2] \in Int
        BY <2>3, OverlapIs
      <4> QED BY <3>3, <4>1
    <3>5. Overlap(x, y) \in both
      BY <2>1, <3>4
    <3> QED BY <2>4, <3>3, <3>5, InPorts
  <2>8. \A v : v \in Ports(both) <=>
          (ValidPortRule(a) /\ ValidPortRule(b) /\ v \in Ports(a) /\ v \in Ports(b))
    BY <1>3, <2>6, <2>7
  <2> QED BY <2>4, <2>5, <2>8 DEF both, a, b
<1> QED BY <1>2, <1>3

-----------------------------------------------------------------------------
(* Allowed arguments *)

(* A rule that is left over allows something.                               *)
Full(args) == \A k \in DOMAIN args : args[k] # {}

LEMMA PortOf ==
  ASSUME NEW args, AllowedArgs(args), "port" \in DOMAIN args
  PROVE  args["port"] \in PortRule
BY DEF AllowedArgs, PortRule

(* IntersectAllowedArgs allows what both allow.                             *)
LEMMA InCommon ==
  ASSUME NEW base, NEW limit, AllowedArgs(base), AllowedArgs(limit)
  PROVE  LET both == IntersectAllowedArgs(base, limit)
         IN  /\ AllowedArgs(both) /\ Full(both)
             /\ \A k, v : Admits(both, k, v) <=> (Admits(base, k, v) /\ Admits(limit, k, v))
<1> DEFINE rule(k) == IF k = "port" THEN IntersectPortRules(base[k], limit[k]) ELSE base[k] \cap limit[k]
           kept == {l \in DOMAIN base \cap DOMAIN limit : rule(l) # {}}
           both == IntersectAllowedArgs(base, limit)
<1>1. base # Nil /\ limit # Nil
  BY AccessAssumption
<1>2. both = [k \in kept |-> rule(k)]
  BY <1>1 DEF IntersectAllowedArgs
<1>3. PICK keys \in SUBSET Argument :
        base \in [keys -> Rule] /\ ("port" \in keys => base["port"] \subseteq Int \X Int)
  BY DEF AllowedArgs
<1>4. PICK more \in SUBSET Argument :
        limit \in [more -> Rule] /\ ("port" \in more => limit["port"] \subseteq Int \X Int)
  BY DEF AllowedArgs
<1>5. ("port" \in DOMAIN base \cap DOMAIN limit) =>
        base["port"] \in PortRule /\ limit["port"] \in PortRule
  BY <1>3, <1>4 DEF PortRule
<1>6. ("port" \in DOMAIN base \cap DOMAIN limit) => rule("port") \in PortRule
  BY <1>5, PortsInCommon
<1>7. \A k \in DOMAIN base \cap DOMAIN limit : rule(k) \in Rule
  <2>1. SUFFICES ASSUME NEW k \in DOMAIN base \cap DOMAIN limit PROVE rule(k) \in Rule
    OBVIOUS
  <2>2. CASE k = "port"
    BY <1>6, <2>2 DEF PortRule, Rule
  <2>3. CASE k # "port"
    <3>1. base[k] \in Rule /\ rule(k) \subseteq base[k]
      BY <1>3, <2>3
    <3> QED BY <3>1 DEF Rule
  <2> QED BY <2>2, <2>3
<1>8. AllowedArgs(both)
  <2>1. kept \in SUBSET Argument /\ kept \subseteq DOMAIN base \cap DOMAIN limit
    BY <1>3
  <2>2. both \in [kept -> Rule]
    BY <1>2, <1>7, <2>1
  <2>3. "port" \in kept => both["port"] \subseteq Int \X Int
    BY <1>2, <1>6, <2>1 DEF PortRule
  <2> QED BY <2>1, <2>2, <2>3 DEF AllowedArgs
<1>9. Full(both)
  BY <1>2 DEF Full
<1>10. ASSUME NEW k, NEW v
       PROVE  Admits(both, k, v) <=> (Admits(base, k, v) /\ Admits(limit, k, v))
  <2>1. CASE k \notin DOMAIN base \cap DOMAIN limit
    <3>1. k \notin DOMAIN both
      BY <1>2, <2>1
    <3> QED BY <2>1, <3>1 DEF Admits
  <2>2. CASE k \in DOMAIN base \cap DOMAIN limit /\ k # "port"
    <3>1. k \in DOMAIN both <=> base[k] \cap limit[k] # {}
      BY <1>2, <2>2
    <3>2. k \in DOMAIN both => both[k] = base[k] \cap limit[k]
      BY <1>2, <2>2
    <3> QED BY <2>2, <3>1, <3>2 DEF Admits
  <2>3. CASE k \in DOMAIN base \cap DOMAIN limit /\ k = "port"
    <3> DEFINE c == IntersectPortRules(base["port"], limit["port"])
               a == ParsePortRanges(base["port"])
               b == ParsePortRanges(limit["port"])
    <3>1. /\ c \in PortRule /\ ValidPortRule(c)
          /\ v \in Ports(c) <=> (ValidPortRule(a) /\ ValidPortRule(b) /\ v \in Ports(a) /\ v \in Ports(b))
      BY <1>5, <2>3, PortsInCommon
    <3>2. "port" \in DOMAIN both <=> c # {}
      BY <1>2, <2>3
    <3>3. "port" \in DOMAIN both => both["port"] = c
      BY <1>2, <2>3
    <3> HIDE DEF c
    <3>4. c # {} => ParsePortRanges(c) = c
      BY DEF ParsePortRanges
    <3>5. c = {} => v \notin Ports(c)
      BY DEF Ports
    <3>6. Admits(both, k, v) <=> v \in Ports(c)
      BY <2>3, <3>1, <3>2, <3>3, <3>4, <3>5 DEF Admits
    <3> QED BY <2>3, <3>1, <3>6 DEF Admits
  <2> QED BY <2>1, <2>2, <2>3
<1> QED BY <1>8, <1>9, <1>10

(* The check of an argument against a rule that is left over.               *)
LEMMA ChecksAdmitted ==
  ASSUME NEW args, AllowedArgs(args), Full(args), NEW k, NEW v
  PROVE  (k \in DOMAIN args /\ ArgAllowed(k, args[k], v)) <=> Admits(args, k, v)
<1>1. CASE k # "port"
  BY <1>1 DEF ArgAllowed, Admits, Full
<1>2. CASE k = "port"
  <2>1. "port" \in DOMAIN args => args["port"] \in PortRule
    BY PortOf
  <2>2. "port" \in DOMAIN args => ParsePortRanges(args["port"]) \in PortRule
    BY <2>1, Parsed
  <2>3. Admits(args, k, v) => v \in 1..MaxPort
    BY <1>2, <2>2, ValidIn DEF Admits
  <2> QED BY <1>2, <2>3 DEF ArgAllowed, Admits
<1> QED BY <1>1, <1>2

(* The base policies.                                                       *)
LEMMA BaseIs ==
  ASSUME NEW t \in Tool
  PROVE  AllowedArgs(BaseArgs(t)) /\ Full(BaseArgs(t))
<1>1. DefaultPortRange \in Rule /\ DefaultPortRange # {} /\ DefaultPortRange \subseteq Int \X Int
  BY DefaultRange DEF Rule, PortRule
<1>2. {"protocol", "port", "method", "type"} \subseteq Argument
  BY AccessAssumption
<1>3. {"icmp", "tcp"} \in Rule /\ {"GET", "HEAD"} \in Rule /\ {"A", "AAAA", "CNAME", "MX", "TXT", "NS"} \in Rule
  <2>1. {"icmp", "tcp", "GET", "HEAD", "A", "AAAA", "CNAME", "MX", "TXT", "NS"} \subseteq Value
    BY AccessAssumption
  <2>2. {"icmp", "tcp"} \in SUBSET Value /\ {"GET", "HEAD"} \in SUBSET Value
    BY <2>1
  <2>3. {"A", "AAAA", "CNAME", "MX", "TXT", "NS"} \in SUBSET Value
    BY <2>1
  <2>4. \A S \in SUBSET Value : S \in Rule
    BY DEF Rule
  <2>5. {"icmp", "tcp"} \in Rule /\ {"GET", "HEAD"} \in Rule
    BY <2>2, <2>4
  <2>6. {"A", "AAAA", "CNAME", "MX", "TXT", "NS"} \in Rule
    BY <2>3, <2>4
  <2> QED BY <2>5, <2>6
<1>4. CASE t \in {"ping", "traceroute", "mtr"}
  <2> DEFINE f == [k \in {"protocol", "port"} |-> IF k = "port" THEN DefaultPortRange ELSE {"icmp", "tcp"}]
  <2>1. BaseArgs(t) = f
    BY <1>4 DEF BaseArgs
  <2>2. f \in [{"protocol", "port"} -> Rule] /\ f["port"] = DefaultPortRange /\ Full(f)
    BY <1>1, <1>3 DEF Full
  <2>3. {"protocol", "port"} \in SUBSET Argument
    BY <1>2
  <2> HIDE DEF f
  <2> QED BY <1>1, <2>1, <2>2, <2>3 DEF AllowedArgs
<1>5. CASE t = "http"
  <2> DEFINE f == [k \in {"method"} |-> {"GET", "HEAD"}]
  <2>1. BaseArgs(t) = f
    BY <1>5 DEF BaseArgs
  <2>2. f \in [{"method"} -> Rule] /\ Full(f) /\ {"method"} \in SUBSET Argument /\ "port" \notin {"method"}
    BY <1>2, <1>3 DEF Full
  <2> HIDE DEF f
  <2> QED BY <2>1, <2>2 DEF AllowedArgs
<1>6. CASE t = "dns"
  <2> DEFINE f == [k \in {"type"} |-> {"A", "AAAA", "CNAME", "MX", "TXT", "NS"}]
  <2>1. BaseArgs(t) = f
    BY <1>6 DEF BaseArgs
  <2>2. f \in [{"type"} -> Rule] /\ Full(f) /\ {"type"} \in SUBSET Argument /\ "port" \notin {"type"}
    BY <1>2, <1>3 DEF Full
  <2> HIDE DEF f
  <2> QED BY <2>1, <2>2 DEF AllowedArgs
<1>7. CASE t = "port"
  <2> DEFINE f == [k \in {"port"} |-> DefaultPortRange]
  <2>1. BaseArgs(t) = f
    BY <1>7 DEF BaseArgs
  <2>2. f \in [{"port"} -> Rule] /\ f["port"] = DefaultPortRange /\ Full(f) /\ {"port"} \in SUBSET Argument
    BY <1>1, <1>2 DEF Full
  <2> HIDE DEF f
  <2> QED BY <1>1, <2>1, <2>2 DEF AllowedArgs
<1> QED BY <1>4, <1>5, <1>6, <1>7 DEF Tool

-----------------------------------------------------------------------------
(* The policies of labels, merged one after the other *)

(* The recursion of MergedPolicies has a solution.                          *)
LEMMA MergedDefined ==
  ASSUME NEW labels, Len(labels) \in Nat
  PROVE  MergedPolicies(configs, labels) =
           [i \in 0..Len(labels) |->
              IF i = 0 THEN <<>>
              ELSE IF labels[i] \in DOMAIN configs
                THEN IntersectConfigPolicies(MergedPolicies(configs, labels)[i - 1], configs[labels[i]].tools)
                ELSE MergedPolicies(configs, labels)[i - 1]]
<1> DEFINE next(g, i) == IF labels[i] \in DOMAIN configs
                           THEN IntersectConfigPolicies(g[i - 1], configs[labels[i]].tools)
                           ELSE g[i - 1]
           Good(g, n) == g = [i \in 0..n |-> IF i = 0 THEN <<>> ELSE next(g, i)]
           S == {n \in Nat : \E g : Good(g, n)}
<1>1. 0 \in S
  <2> DEFINE g == [i \in 0..0 |-> <<>>]
  <2>1. g = [i \in 0..0 |-> IF i = 0 THEN <<>> ELSE next(g, i)]
    OBVIOUS
  <2>2. Good(g, 0)
    BY <2>1, Zenon
  <2> QED BY <2>2
<1>2. ASSUME NEW m \in 1..Len(labels), m - 1 \in S PROVE m \in S
  <2>1. PICK g : Good(g, m - 1)
    BY <1>2
  <2>2. \A i \in 0..(m - 1) : g[i] = IF i = 0 THEN <<>> ELSE next(g, i)
    BY <2>1
  <2> DEFINE h == [i \in 0..m |-> IF i = m THEN next(g, m) ELSE g[i]]
  <2>3. \A i \in 0..m : h[i] = IF i = 0 THEN <<>> ELSE next(h, i)
    <3>1. SUFFICES ASSUME NEW i \in 0..m PROVE h[i] = IF i = 0 THEN <<>> ELSE next(h, i)
      OBVIOUS
    <3>2. CASE i = 0
      <4>1. i \in 0..(m - 1) /\ i # m
        BY <3>2
      <4> QED BY <2>2, <3>2, <4>1
    <3>3. CASE i # 0
      <4>1. i - 1 \in 0..m /\ i - 1 # m
        BY <3>3
      <4>2. h[i - 1] = g[i - 1]
        BY <4>1
      <4> HIDE DEF h
      <4>3. next(h, i) = next(g, i)
        BY <4>2
      <4>4. h[i] = IF i = m THEN next(g, m) ELSE g[i]
        BY DEF h
      <4>5. CASE i = m
        BY <3>3, <4>3, <4>4, <4>5
      <4>6. CASE i # m
        <5>1. i \in 0..(m - 1)
          BY <4>6
        <5> QED BY <2>2, <3>3, <4>3, <4>4, <4>6, <5>1
      <4> QED BY <4>5, <4>6
    <3> QED BY <3>2, <3>3
  <2>4. h = [i \in 0..m |-> h[i]]
    OBVIOUS
  <2> HIDE DEF h
  <2>5. Good(h, m)
    BY <2>3, <2>4
  <2> QED BY <2>5
<1>3. Len(labels) \in S
  <2> HIDE DEF S
  <2>1. \A i \in 0..Len(labels) : i \in S
    BY <1>1, <1>2, UpTo
  <2> QED BY <2>1
<1>4. PICK g : Good(g, Len(labels))
  BY <1>3
<1>5. MergedPolicies(configs, labels) = CHOOSE f : Good(f, Len(labels))
  BY DEF MergedPolicies
<1> HIDE DEF Good
<1>6. Good(CHOOSE f : Good(f, Len(labels)), Len(labels))
  BY <1>4, Zenon
<1>7. Good(MergedPolicies(configs, labels), Len(labels))
  BY <1>5, <1>6, Zenon
<1> QED BY <1>7 DEF Good

(* The rules for a tool that the first labels have.                         *)
RulesTo(labels, i, t) ==
  {configs[labels[j]].tools[t] :
     j \in {m \in 1..i : labels[m] \in DOMAIN configs /\ t \in DOMAIN configs[labels[m]].tools}}

(* A merged policy set stands for the rules it is merged from.              *)
Configured(p) == p.enabled \in BOOLEAN /\ (p.args = Nil \/ AllowedArgs(p.args))
Lets(p, k, v) == p.args # Nil => Admits(p.args, k, v)
StandsFor(merged, rules, t) ==
  /\ t \in DOMAIN merged <=> rules # {}
  /\ t \in DOMAIN merged =>
       /\ Configured(merged[t])
       /\ merged[t].enabled <=> \A r \in rules : r.enabled
       /\ merged[t].enabled =>
            \A k, v : Lets(merged[t], k, v) <=> \A r \in rules : Lets(r, k, v)

(* One more label: intersectConfigPolicies.                                 *)
LEMMA OneMoreLabel ==
  ASSUME NEW left, NEW right, NEW rules, NEW t, StandsFor(left, rules, t),
         t \in DOMAIN right => Configured(right[t]), \A r \in rules : Configured(r)
  PROVE  StandsFor(IntersectConfigPolicies(left, right),
                   IF t \in DOMAIN right THEN rules \cup {right[t]} ELSE rules, t)
<1> DEFINE both == IntersectConfigPolicies(left, right)
           more == IF t \in DOMAIN right THEN rules \cup {right[t]} ELSE rules
<1>1. DOMAIN both = DOMAIN left \cup DOMAIN right
  BY DEF IntersectConfigPolicies
<1>2. t \in DOMAIN both =>
        both[t] = (IF t \notin DOMAIN right THEN left[t]
                   ELSE IF ~right[t].enabled \/ t \notin DOMAIN left THEN right[t]
                   ELSE IF ~left[t].enabled \/ right[t].args = Nil THEN left[t]
                   ELSE [enabled |-> TRUE, args |-> IntersectAllowedArgs(left[t].args, right[t].args)])
  BY DEF IntersectConfigPolicies
<1> HIDE DEF both
<1>3. t \in DOMAIN both <=> more # {}
  BY <1>1 DEF StandsFor
<1>4. CASE t \notin DOMAIN both
  BY <1>3, <1>4 DEF StandsFor, both
<1>5. CASE t \in DOMAIN both /\ t \notin DOMAIN right
  BY <1>1, <1>2, <1>5 DEF StandsFor, both
<1>6. CASE t \in DOMAIN right /\ ~right[t].enabled
  <2>1. both[t] = right[t] /\ ~(\A r \in more : r.enabled) /\ t \in DOMAIN both
    BY <1>1, <1>2, <1>6
  <2> QED BY <1>3, <1>6, <2>1 DEF StandsFor, both
<1>7. CASE t \in DOMAIN right /\ right[t].enabled /\ t \notin DOMAIN left
  <2>1. both[t] = right[t] /\ rules = {} /\ more = {right[t]} /\ t \in DOMAIN both
    BY <1>1, <1>2, <1>7 DEF StandsFor
  <2> QED BY <1>3, <1>7, <2>1 DEF StandsFor, both
<1>8. CASE t \in DOMAIN right /\ right[t].enabled /\ t \in DOMAIN left /\ ~left[t].enabled
  <2>1. both[t] = left[t] /\ more = rules \cup {right[t]} /\ t \in DOMAIN both
    BY <1>1, <1>2, <1>8
  <2> QED BY <1>3, <1>8, <2>1 DEF StandsFor, both
<1>9. CASE t \in DOMAIN right /\ right[t].enabled /\ t \in DOMAIN left /\ left[t].enabled
  <2>1. more = rules \cup {right[t]} /\ t \in DOMAIN both /\ \A r \in more : r.enabled
    BY <1>1, <1>9 DEF StandsFor
  <2>2. \A k, v : Lets(left[t], k, v) <=> \A r \in rules : Lets(r, k, v)
    BY <1>9 DEF StandsFor
  <2>3. Configured(left[t]) /\ Configured(right[t])
    BY <1>9 DEF StandsFor
  <2>4. CASE right[t].args = Nil
    <3>1. both[t] = left[t]
      BY <1>2, <1>9, <2>1, <2>4
    <3>2. \A k, v : Lets(right[t], k, v)
      BY <2>4 DEF Lets
    <3>3. \A k, v : Lets(both[t], k, v) <=> \A r \in more : Lets(r, k, v)
      BY <2>1, <2>2, <3>1, <3>2
    <3> QED BY <1>3, <1>9, <2>1, <2>3, <3>1, <3>3 DEF StandsFor, both
  <2>5. CASE right[t].args # Nil
    <3> DEFINE args == IntersectAllowedArgs(left[t].args, right[t].args)
    <3>1. both[t] = [enabled |-> TRUE, args |-> args]
      BY <1>2, <1>9, <2>1, <2>5
    <3>2. both[t].enabled = TRUE /\ both[t].args = args
      BY <3>1
    <3>3. AllowedArgs(args) /\ args # Nil
          /\ \A k, v : Admits(args, k, v) <=> (Lets(left[t], k, v) /\ Lets(right[t], k, v))
      <4>1. CASE left[t].args = Nil
        <5>1. args = right[t].args
          BY <4>1 DEF IntersectAllowedArgs
        <5> QED BY <2>3, <2>5, <4>1, <5>1 DEF Configured, Lets
      <4>2. CASE left[t].args # Nil
        <5>1. AllowedArgs(left[t].args) /\ AllowedArgs(right[t].args)
          BY <2>3, <2>5, <4>2 DEF Configured
        <5>2. AllowedArgs(args)
              /\ \A k, v : Admits(args, k, v) <=> (Admits(left[t].args, k, v) /\ Admits(right[t].args, k, v))
          BY <5>1, InCommon
        <5>3. args # Nil
          BY <5>2, AccessAssumption
        <5> QED BY <2>5, <4>2, <5>2, <5>3 DEF Lets
      <4> QED BY <4>1, <4>2
    <3>4. \A k, v : Lets(both[t], k, v) <=> \A r \in more : Lets(r, k, v)
      <4>1. \A k, v : Lets(both[t], k, v) <=> Admits(args, k, v)
        BY <3>2, <3>3 DEF Lets
      <4> HIDE DEF args
      <4> QED BY <2>1, <2>2, <3>3, <4>1
    <3>5. Configured(both[t]) /\ both[t].enabled
      BY <3>2, <3>3 DEF Configured
    <3> QED BY <1>3, <1>9, <2>1, <3>4, <3>5 DEF StandsFor, both
  <2> QED BY <2>4, <2>5
<1> QED BY <1>1, <1>4, <1>5, <1>6, <1>7, <1>8, <1>9

LEMMA ConfiguredTools ==
  ASSUME configs \in ConfigChoice, NEW l \in DOMAIN configs, NEW t \in DOMAIN configs[l].tools
  PROVE  Configured(configs[l].tools[t])
BY AccessAssumption DEF Configured

LEMMA RulesToNext ==
  ASSUME NEW labels, NEW i \in Nat \ {0}, NEW t
  PROVE  RulesTo(labels, i, t) =
           IF labels[i] \in DOMAIN configs /\ t \in DOMAIN configs[labels[i]].tools
             THEN RulesTo(labels, i - 1, t) \cup {configs[labels[i]].tools[t]}
             ELSE RulesTo(labels, i - 1, t)
<1>1. 1..i = (1..(i - 1)) \cup {i}
  OBVIOUS
<1> QED BY <1>1 DEF RulesTo

(* The policies of labels stand for the rules of all of them.               *)
LEMMA MergedStandsFor ==
  ASSUME configs \in ConfigChoice, NEW labels, Len(labels) \in Nat, NEW t
  PROVE  StandsFor(ToolPoliciesForLabels(configs, labels), RulesTo(labels, Len(labels), t), t)
<1> DEFINE M == MergedPolicies(configs, labels)
           S == {i \in Nat : StandsFor(M[i], RulesTo(labels, i, t), t)}
<1>1. \A i \in 0..Len(labels) :
        M[i] = IF i = 0 THEN <<>>
               ELSE IF labels[i] \in DOMAIN configs
                 THEN IntersectConfigPolicies(M[i - 1], configs[labels[i]].tools)
                 ELSE M[i - 1]
  <2> DEFINE f == [i \in 0..Len(labels) |->
              IF i = 0 THEN <<>>
              ELSE IF labels[i] \in DOMAIN configs
                THEN IntersectConfigPolicies(M[i - 1], configs[labels[i]].tools)
                ELSE M[i - 1]]
  <2>1. M = f
    BY MergedDefined
  <2>2. \A i \in 0..Len(labels) : f[i] = IF i = 0 THEN <<>>
               ELSE IF labels[i] \in DOMAIN configs
                 THEN IntersectConfigPolicies(M[i - 1], configs[labels[i]].tools)
                 ELSE M[i - 1]
    OBVIOUS
  <2> HIDE DEF f, M
  <2> QED BY <2>1, <2>2
<1> HIDE DEF M
<1>2. 0 \in S
  <2>1. M[0] = <<>> /\ DOMAIN <<>> = {}
    BY <1>1
  <2>2. RulesTo(labels, 0, t) = {}
    BY DEF RulesTo
  <2> QED BY <2>1, <2>2 DEF StandsFor
<1>3. ASSUME NEW i \in 1..Len(labels), i - 1 \in S PROVE i \in S
  <2>1. StandsFor(M[i - 1], RulesTo(labels, i - 1, t), t)
    BY <1>3
  <2>2. \A r \in RulesTo(labels, i - 1, t) : Configured(r)
    BY ConfiguredTools DEF RulesTo
  <2>3. M[i] = IF labels[i] \in DOMAIN configs
                 THEN IntersectConfigPolicies(M[i - 1], configs[labels[i]].tools)
                 ELSE M[i - 1]
    BY <1>1
  <2>4. CASE labels[i] \in DOMAIN configs
    <3> DEFINE right == configs[labels[i]].tools
    <3>1. t \in DOMAIN right => Configured(right[t])
      BY <2>4, ConfiguredTools
    <3>2. RulesTo(labels, i, t) =
            IF t \in DOMAIN right THEN RulesTo(labels, i - 1, t) \cup {right[t]} ELSE RulesTo(labels, i - 1, t)
      BY <2>4, RulesToNext
    <3>3. M[i] = IntersectConfigPolicies(M[i - 1], right)
      BY <2>3, <2>4
    <3> HIDE DEF right
    <3>4. StandsFor(IntersectConfigPolicies(M[i - 1], right),
            IF t \in DOMAIN right THEN RulesTo(labels, i - 1, t) \cup {right[t]} ELSE RulesTo(labels, i - 1, t), t)
      BY <2>1, <2>2, <3>1, OneMoreLabel
    <3>5. StandsFor(M[i], RulesTo(labels, i, t), t)
      BY <3>2, <3>3, <3>4
    <3> QED BY <3>5
  <2>5. CASE labels[i] \notin DOMAIN configs
    <3>1. M[i] = M[i - 1] /\ RulesTo(labels, i, t) = RulesTo(labels, i - 1, t)
      BY <2>3, <2>5, RulesToNext
    <3> QED BY <2>1, <3>1
  <2> QED BY <2>4, <2>5
<1>4. Len(labels) \in S
  <2> HIDE DEF S
  <2>1. \A i \in 0..Len(labels) : i \in S
    BY <1>2, <1>3, UpTo
  <2> QED BY <2>1
<1> QED BY <1>4 DEF ToolPoliciesForLabels, M

(* The rules for a tool, as the reference definition collects them.         *)
RulesFor(labels, t) ==
  {c[t] : c \in {d \in {configs[l].tools : l \in {m \in Range(labels) : m \in DOMAIN configs}} : t \in DOMAIN d}}

LEMMA AllRules ==
  ASSUME NEW X, NEW labels \in Seq(X), NEW t
  PROVE  RulesTo(labels, Len(labels), t) = RulesFor(labels, t) /\ Len(labels) \in Nat
<1>1. DOMAIN labels = 1..Len(labels) /\ Len(labels) \in Nat
  OBVIOUS
<1>2. RulesTo(labels, Len(labels), t) \subseteq RulesFor(labels, t)
  <2>1. SUFFICES ASSUME NEW j \in 1..Len(labels), labels[j] \in DOMAIN configs,
                        t \in DOMAIN configs[labels[j]].tools
                 PROVE  configs[labels[j]].tools[t] \in RulesFor(labels, t)
    BY DEF RulesTo
  <2>2. labels[j] \in {m \in Range(labels) : m \in DOMAIN configs}
    BY <1>1, <2>1 DEF Range
  <2>3. configs[labels[j]].tools \in {configs[l].tools : l \in {m \in Range(labels) : m \in DOMAIN configs}}
    BY <2>2
  <2> QED BY <2>1, <2>3 DEF RulesFor
<1>3. RulesFor(labels, t) \subseteq RulesTo(labels, Len(labels), t)
  <2>1. SUFFICES ASSUME NEW l \in Range(labels), l \in DOMAIN configs, t \in DOMAIN configs[l].tools
                 PROVE  configs[l].tools[t] \in RulesTo(labels, Len(labels), t)
    BY DEF RulesFor
  <2>2. PICK j \in 1..Len(labels) : l = labels[j]
    BY <1>1 DEF Range
  <2> QED BY <2>1, <2>2 DEF RulesTo
<1> QED BY <1>1, <1>2, <1>3

(* policiesForLabels: a tool is there if no label disables it, and allows   *)
(* what the base policies and all labels allow.                             *)
LEMMA PoliciesAre ==
  ASSUME configs \in ConfigChoice, NEW X, NEW labels \in Seq(X), NEW t \in Tool
  PROVE  LET P == PoliciesForLabels(configs, labels)
         IN  /\ t \in DOMAIN P <=> \A r \in RulesFor(labels, t) : r.enabled
             /\ t \in DOMAIN P =>
                  /\ AllowedArgs(P[t]) /\ Full(P[t])
                  /\ \A k, v : Admits(P[t], k, v) <=>
                       (Admits(BaseArgs(t), k, v) /\ \A r \in RulesFor(labels, t) : Lets(r, k, v))
<1> DEFINE P == PoliciesForLabels(configs, labels)
           M == ToolPoliciesForLabels(configs, labels)
           rules == RulesFor(labels, t)
<1>1. StandsFor(M, rules, t)
  BY AllRules, MergedStandsFor
<1>2. BasePolicies[t] = BaseArgs(t) /\ DOMAIN BasePolicies = Tool
  BY DEF BasePolicies
<1>3. DOMAIN P = Tool \ {u \in DOMAIN M : ~M[u].enabled}
  BY <1>2 DEF PoliciesForLabels, WithIntersection
<1>4. t \in DOMAIN P => P[t] = (IF t \in DOMAIN M /\ M[t].args # Nil
                                  THEN IntersectAllowedArgs(BaseArgs(t), M[t].args) ELSE BaseArgs(t))
  BY <1>2 DEF PoliciesForLabels, WithIntersection
<1> HIDE DEF P, M, rules
<1>5. t \in DOMAIN P <=> \A r \in rules : r.enabled
  BY <1>1, <1>3 DEF StandsFor
<1>6. ASSUME t \in DOMAIN P
      PROVE  /\ AllowedArgs(P[t]) /\ Full(P[t])
             /\ \A k, v : Admits(P[t], k, v) <=> (Admits(BaseArgs(t), k, v) /\ \A r \in rules : Lets(r, k, v))
  <2>1. AllowedArgs(BaseArgs(t)) /\ Full(BaseArgs(t))
    BY BaseIs
  <2>2. CASE t \in DOMAIN M
    <3>1. Configured(M[t]) /\ M[t].enabled
          /\ \A k, v : Lets(M[t], k, v) <=> \A r \in rules : Lets(r, k, v)
      BY <1>1, <1>3, <1>6, <2>2 DEF StandsFor
    <3>2. CASE M[t].args = Nil
      <4>1. P[t] = BaseArgs(t) /\ \A k, v : Lets(M[t], k, v)
        BY <1>4, <1>6, <3>2 DEF Lets
      <4> QED BY <2>1, <3>1, <4>1
    <3>3. CASE M[t].args # Nil
      <4>1. P[t] = IntersectAllowedArgs(BaseArgs(t), M[t].args) /\ AllowedArgs(M[t].args)
        BY <1>4, <1>6, <2>2, <3>1, <3>3 DEF Configured
      <4>2. /\ AllowedArgs(P[t]) /\ Full(P[t])
            /\ \A k, v : Admits(P[t], k, v) <=> (Admits(BaseArgs(t), k, v) /\ Admits(M[t].args, k, v))
        BY <2>1, <4>1, InCommon
      <4>3. \A k, v : Lets(M[t], k, v) <=> Admits(M[t].args, k, v)
        BY <3>3 DEF Lets
      <4> QED BY <3>1, <4>2, <4>3
    <3> QED BY <3>2, <3>3
  <2>3. CASE t \notin DOMAIN M
    <3>1. P[t] = BaseArgs(t) /\ rules = {}
      BY <1>1, <1>4, <1>6, <2>3 DEF StandsFor
    <3> QED BY <2>1, <3>1
  <2> QED BY <2>2, <2>3
<1> QED BY <1>5, <1>6 DEF P, rules

(* validate accepts what the reference definition permits.                  *)
LEMMA ValidIsPermitted ==
  ASSUME configs \in ConfigChoice, NEW X, NEW labels \in Seq(X), NEW req, req.tool \in Tool
  PROVE  Validate(PoliciesForLabels(configs, labels), req, TRUE)
           <=> /\ Permits(labels, req.tool, req.args)
               /\ req.tool = "port" => "port" \in DOMAIN req.args
               /\ req.tool \in {"traceroute", "mtr"} => req.agent # Nil
<1> DEFINE P == PoliciesForLabels(configs, labels)
           rules == RulesFor(labels, req.tool)
           keys == DOMAIN req.args \ ServerOwned
<1>1. Permits(labels, req.tool, req.args) <=>
        /\ \A r \in rules : r.enabled
        /\ \A k \in keys : Admits(BaseArgs(req.tool), k, req.args[k]) /\ \A r \in rules : Lets(r, k, req.args[k])
  BY DEF Permits, RulesFor, Lets
<1>2. /\ req.tool \in DOMAIN P <=> \A r \in rules : r.enabled
      /\ req.tool \in DOMAIN P =>
           /\ AllowedArgs(P[req.tool]) /\ Full(P[req.tool])
           /\ \A k, v : Admits(P[req.tool], k, v) <=>
                (Admits(BaseArgs(req.tool), k, v) /\ \A r \in rules : Lets(r, k, v))
  BY PoliciesAre
<1>3. Validate(P, req, TRUE) <=>
        /\ req.tool \in DOMAIN P
        /\ req.tool \in {"traceroute", "mtr"} => req.agent # Nil
        /\ req.tool = "port" => "port" \in DOMAIN req.args
        /\ \A k \in keys : k \in DOMAIN P[req.tool] /\ ArgAllowed(k, P[req.tool][k], req.args[k])
  BY DEF Validate
<1> HIDE DEF P, rules, keys
<1>4. req.tool \in DOMAIN P =>
        \A k, v : (k \in DOMAIN P[req.tool] /\ ArgAllowed(k, P[req.tool][k], v)) <=> Admits(P[req.tool], k, v)
  BY <1>2, ChecksAdmitted
<1>5. Validate(P, req, TRUE)
        <=> /\ Permits(labels, req.tool, req.args)
            /\ req.tool = "port" => "port" \in DOMAIN req.args
            /\ req.tool \in {"traceroute", "mtr"} => req.agent # Nil
  BY <1>1, <1>2, <1>3, <1>4
<1> QED BY <1>5 DEF P

-----------------------------------------------------------------------------
(* The limits of labels, merged one after the other *)

LEMMA LeastIs ==
  ASSUME NEW S \in SUBSET Int, NEW m \in S, \A n \in S : m <= n
  PROVE  Min(S) = m
<1>1. \E x \in S : \A y \in S : x =< y
  OBVIOUS
<1>2. Min(S) \in S /\ \A y \in S : Min(S) =< y
  BY <1>1 DEF Min
<1> DEFINE least == Min(S)
<1> HIDE DEF least
<1>3. least \in S /\ least =< m
  BY <1>2 DEF least
<1>4. least \in Int /\ m \in Int /\ m <= least
  BY <1>3
<1>5. least = m
  BY <1>3, <1>4
<1> QED BY <1>5 DEF least

(* The recursion of MergedRuntime has a solution.                           *)
LEMMA LimitsDefined ==
  ASSUME NEW labels, Len(labels) \in Nat
  PROVE  MergedRuntime(configs, labels, Default) =
           [i \in 0..Len(labels) |->
              IF i = 0 THEN Default
              ELSE IF labels[i] \in DOMAIN configs /\ configs[labels[i]].runtime # Nil
                THEN MinRuntime(MergedRuntime(configs, labels, Default)[i - 1], configs[labels[i]].runtime)
                ELSE MergedRuntime(configs, labels, Default)[i - 1]]
<1> DEFINE next(g, i) == IF labels[i] \in DOMAIN configs /\ configs[labels[i]].runtime # Nil
                           THEN MinRuntime(g[i - 1], configs[labels[i]].runtime)
                           ELSE g[i - 1]
           Good(g, n) == g = [i \in 0..n |-> IF i = 0 THEN Default ELSE next(g, i)]
           S == {n \in Nat : \E g : Good(g, n)}
<1>1. 0 \in S
  <2> DEFINE g == [i \in 0..0 |-> Default]
  <2>1. g = [i \in 0..0 |-> IF i = 0 THEN Default ELSE next(g, i)]
    OBVIOUS
  <2>2. Good(g, 0)
    BY <2>1, Zenon
  <2> QED BY <2>2
<1>2. ASSUME NEW m \in 1..Len(labels), m - 1 \in S PROVE m \in S
  <2>1. PICK g : Good(g, m - 1)
    BY <1>2
  <2>2. \A i \in 0..(m - 1) : g[i] = IF i = 0 THEN Default ELSE next(g, i)
    BY <2>1
  <2> DEFINE h == [i \in 0..m |-> IF i = m THEN next(g, m) ELSE g[i]]
  <2>3. \A i \in 0..m : h[i] = IF i = 0 THEN Default ELSE next(h, i)
    <3>1. SUFFICES ASSUME NEW i \in 0..m PROVE h[i] = IF i = 0 THEN Default ELSE next(h, i)
      OBVIOUS
    <3>2. CASE i = 0
      <4>1. i \in 0..(m - 1) /\ i # m
        BY <3>2
      <4> QED BY <2>2, <3>2, <4>1
    <3>3. CASE i # 0
      <4>1. i - 1 \in 0..m /\ i - 1 # m
        BY <3>3
      <4>2. h[i - 1] = g[i - 1]
        BY <4>1
      <4> HIDE DEF h
      <4>3. next(h, i) = next(g, i)
        BY <4>2
      <4>4. h[i] = IF i = m THEN next(g, m) ELSE g[i]
        BY DEF h
      <4>5. CASE i = m
        BY <3>3, <4>3, <4>4, <4>5
      <4>6. CASE i # m
        <5>1. i \in 0..(m - 1)
          BY <4>6
        <5> QED BY <2>2, <3>3, <4>3, <4>4, <4>6, <5>1
      <4> QED BY <4>5, <4>6
    <3> QED BY <3>2, <3>3
  <2>4. h = [i \in 0..m |-> h[i]]
    OBVIOUS
  <2> HIDE DEF h
  <2>5. Good(h, m)
    BY <2>3, <2>4
  <2> QED BY <2>5
<1>3. Len(labels) \in S
  <2> HIDE DEF S
  <2>1. \A i \in 0..Len(labels) : i \in S
    BY <1>1, <1>2, UpTo
  <2> QED BY <2>1
<1>4. PICK g : Good(g, Len(labels))
  BY <1>3
<1>5. MergedRuntime(configs, labels, Default) = CHOOSE f : Good(f, Len(labels))
  BY DEF MergedRuntime
<1> HIDE DEF Good
<1>6. Good(CHOOSE f : Good(f, Len(labels)), Len(labels))
  BY <1>4, Zenon
<1>7. Good(MergedRuntime(configs, labels, Default), Len(labels))
  BY <1>5, <1>6, Zenon
<1> QED BY <1>7 DEF Good

(* The limits the first labels set, with the default; the least of them.    *)
LimitsTo(labels, i, f) ==
  {DefaultRuntimeValues(configs[labels[j]].runtime)[f] :
     j \in {m \in 1..i : labels[m] \in DOMAIN configs /\ configs[labels[m]].runtime # Nil}}
Set(limits, f) == {Default[f]} \cup {v \in limits : v > 0}
LeastOf(runtime, labels, i) ==
  \A f \in RuntimeField :
    /\ runtime[f] \in Nat \ {0} /\ runtime[f] \in Set(LimitsTo(labels, i, f), f)
    /\ \A v \in Set(LimitsTo(labels, i, f), f) : runtime[f] <= v

LEMMA LimitsToNext ==
  ASSUME NEW labels, NEW i \in Nat \ {0}, NEW f
  PROVE  LimitsTo(labels, i, f) =
           IF labels[i] \in DOMAIN configs /\ configs[labels[i]].runtime # Nil
             THEN LimitsTo(labels, i - 1, f) \cup {DefaultRuntimeValues(configs[labels[i]].runtime)[f]}
             ELSE LimitsTo(labels, i - 1, f)
<1>1. 1..i = (1..(i - 1)) \cup {i}
  OBVIOUS
<1> QED BY <1>1 DEF LimitsTo

LEMMA LimitsAreInts ==
  ASSUME configs \in ConfigChoice, NEW l \in DOMAIN configs, configs[l].runtime # Nil, NEW f \in RuntimeField
  PROVE  DefaultRuntimeValues(configs[l].runtime)[f] \in Int
<1>1. configs[l].runtime \in [RuntimeField -> Int]
  BY AccessAssumption
<1>2. Default[f] \in Int /\ configs[l].runtime[f] \in Int
  BY <1>1, PoliciesAssumption
<1> QED BY <1>2 DEF DefaultRuntimeValues

(* minRuntime with one more label.                                          *)
LEMMA OneMoreLimit ==
  ASSUME configs \in ConfigChoice, NEW labels, NEW i \in Nat \ {0}, NEW runtime,
         LeastOf(runtime, labels, i - 1),
         labels[i] \in DOMAIN configs, configs[labels[i]].runtime # Nil
  PROVE  LeastOf(MinRuntime(runtime, configs[labels[i]].runtime), labels, i)
<1> DEFINE next == configs[labels[i]].runtime
           least == MinRuntime(runtime, next)
<1>1. SUFFICES ASSUME NEW f \in RuntimeField
               PROVE  /\ least[f] \in Nat \ {0} /\ least[f] \in Set(LimitsTo(labels, i, f), f)
                      /\ \A v \in Set(LimitsTo(labels, i, f), f) : least[f] <= v
  BY DEF LeastOf
<1> DEFINE before == Set(LimitsTo(labels, i - 1, f), f)
           n == DefaultRuntimeValues(next)[f]
<1>2. /\ runtime[f] \in Nat \ {0} /\ runtime[f] \in before
      /\ \A v \in before : runtime[f] <= v
  BY DEF LeastOf
<1>3. n \in Int
  BY LimitsAreInts
<1>4. Set(LimitsTo(labels, i, f), f) = IF n > 0 THEN before \cup {n} ELSE before
  BY LimitsToNext DEF Set
<1>5. least[f] = MinPositive(runtime[f], n)
  BY <1>2 DEF MinRuntime, DefaultRuntimeValues
<1>6. before \subseteq Int
  <2>1. \A j \in 1..(i - 1) : (labels[j] \in DOMAIN configs /\ configs[labels[j]].runtime # Nil) =>
          DefaultRuntimeValues(configs[labels[j]].runtime)[f] \in Int
    BY LimitsAreInts
  <2> QED BY <2>1, PoliciesAssumption DEF Set, LimitsTo
<1> HIDE DEF before, n, least
<1>7. CASE n > 0
  <2>1. least[f] = IF n < runtime[f] THEN n ELSE runtime[f]
    BY <1>2, <1>3, <1>5, <1>7 DEF MinPositive
  <2>2. \A v \in before \cup {n} : least[f] <= v
    BY <1>2, <1>3, <1>6, <2>1
  <2>3. least[f] \in Nat \ {0} /\ least[f] \in before \cup {n}
    BY <1>2, <1>3, <1>7, <2>1
  <2> QED BY <1>4, <1>7, <2>2, <2>3
<1>8. CASE ~(n > 0)
  <2>1. least[f] = runtime[f]
    BY <1>2, <1>3, <1>5, <1>8 DEF MinPositive
  <2> QED BY <1>2, <1>4, <1>8, <2>1
<1> QED BY <1>7, <1>8

(* runtimeForLabels: each limit is the least positive one that is set.      *)
LEMMA LimitsAre ==
  ASSUME configs \in ConfigChoice, NEW X, NEW labels \in Seq(X), NEW f \in RuntimeField
  PROVE  RuntimeForLabels(configs, labels, Default)[f] =
           Min({Default[f]} \cup {v \in LimitsOf(labels, f) : v > 0})
<1> DEFINE M == MergedRuntime(configs, labels, Default)
           S == {i \in Nat : LeastOf(M[i], labels, i)}
<1>0. Len(labels) \in Nat /\ DOMAIN labels = 1..Len(labels)
  OBVIOUS
<1>1. \A i \in 0..Len(labels) :
        M[i] = IF i = 0 THEN Default
               ELSE IF labels[i] \in DOMAIN configs /\ configs[labels[i]].runtime # Nil
                 THEN MinRuntime(M[i - 1], configs[labels[i]].runtime)
                 ELSE M[i - 1]
  <2> DEFINE g == [i \in 0..Len(labels) |->
              IF i = 0 THEN Default
              ELSE IF labels[i] \in DOMAIN configs /\ configs[labels[i]].runtime # Nil
                THEN MinRuntime(M[i - 1], configs[labels[i]].runtime)
                ELSE M[i - 1]]
  <2>1. M = g
    BY <1>0, LimitsDefined
  <2>2. \A i \in 0..Len(labels) : g[i] = IF i = 0 THEN Default
               ELSE IF labels[i] \in DOMAIN configs /\ configs[labels[i]].runtime # Nil
                 THEN MinRuntime(M[i - 1], configs[labels[i]].runtime)
                 ELSE M[i - 1]
    OBVIOUS
  <2> HIDE DEF g, M
  <2> QED BY <2>1, <2>2
<1> HIDE DEF M
<1>2. 0 \in S
  <2>1. M[0] = Default /\ \A h \in RuntimeField : LimitsTo(labels, 0, h) = {}
    BY <1>0, <1>1 DEF LimitsTo
  <2>2. \A h \in RuntimeField : Default[h] \in Nat \ {0}
    BY PoliciesAssumption
  <2> QED BY <2>1, <2>2 DEF LeastOf, Set
<1>3. ASSUME NEW i \in 1..Len(labels), i - 1 \in S PROVE i \in S
  <2>1. LeastOf(M[i - 1], labels, i - 1)
    BY <1>3
  <2>2. i \in Nat \ {0} /\ i \in 0..Len(labels)
    BY <1>0, <1>3
  <2>3. CASE labels[i] \in DOMAIN configs /\ configs[labels[i]].runtime # Nil
    <3>1. M[i] = MinRuntime(M[i - 1], configs[labels[i]].runtime)
      BY <1>1, <2>2, <2>3
    <3>2. LeastOf(M[i], labels, i)
      BY <2>1, <2>2, <2>3, <3>1, OneMoreLimit
    <3> QED BY <2>2, <3>2
  <2>4. CASE ~(labels[i] \in DOMAIN configs /\ configs[labels[i]].runtime # Nil)
    <3>1. M[i] = M[i - 1] /\ \A h : LimitsTo(labels, i, h) = LimitsTo(labels, i - 1, h)
      BY <1>1, <2>2, <2>4, LimitsToNext
    <3> QED BY <2>1, <2>2, <3>1 DEF LeastOf
  <2> QED BY <2>3, <2>4
<1>4. LeastOf(M[Len(labels)], labels, Len(labels))
  <2> HIDE DEF S
  <2>1. \A i \in 0..Len(labels) : i \in S
    BY <1>0, <1>2, <1>3, UpTo
  <2>2. Len(labels) \in S
    BY <1>0, <2>1
  <2> QED BY <2>2 DEF S
<1>5. LimitsTo(labels, Len(labels), f) = LimitsOf(labels, f)
  <2>1. LimitsTo(labels, Len(labels), f) \subseteq LimitsOf(labels, f)
    BY <1>0 DEF LimitsTo, LimitsOf, Range
  <2>2. LimitsOf(labels, f) \subseteq LimitsTo(labels, Len(labels), f)
    BY <1>0 DEF LimitsTo, LimitsOf, Range
  <2> QED BY <2>1, <2>2
<1>6. LimitsOf(labels, f) \subseteq Int
  BY LimitsAreInts DEF LimitsOf
<1>7. Set(LimitsOf(labels, f), f) \in SUBSET Int
  BY <1>6, PoliciesAssumption DEF Set
<1>8. Min(Set(LimitsOf(labels, f), f)) = M[Len(labels)][f]
  BY <1>4, <1>5, <1>7, LeastIs DEF LeastOf
<1> QED BY <1>8 DEF RuntimeForLabels, M, Set

-----------------------------------------------------------------------------
(* The inductive invariant *)

(* The settings, and the handler's record.                                  *)
SettingsOK == configs \in ConfigChoice /\ agents \in [Agent -> AgentChoice]
CallOK ==
  /\ DOMAIN call = {"pc", "scope", "req", "options", "jobs"}
  /\ edited \in BOOLEAN /\ edits \in 0..MaxEdits
  /\ call.pc \in {"new", "policies", "authorize", "options", "targets", "refused", "failed", "created"}
  /\ call.pc = "new" => call = NoCall
  /\ call.pc # "created" => call.jobs = {}
RequestOK ==
  call.pc # "new" =>
    /\ call.scope \in Scope
    /\ DOMAIN call.req = {"tool", "args", "agent", "target", "version", "onAgent"}
    /\ call.req.tool \in Tool /\ call.req.agent \in Agent \cup {Nil}
    /\ call.req.target \in Version /\ call.req.version \in Version /\ call.req.onAgent \in BOOLEAN

(* What each check has established, until a setting is edited.              *)
CheckedOK ==
  /\ (call.pc \in {"authorize", "options", "targets"} /\ ~edited) =>
       Validate(PoliciesForLabels(configs, LabelsOfRequest(call.req)), call.req, TRUE)
  /\ (call.pc \in {"options", "targets"} /\ ~edited) => AuthorizeJob(call.scope, call.req)

(* The options are those of some look-up, and a job is for the option that  *)
(* its agent supports.                                                      *)
OptionsOK ==
  \/ call.options = <<>>
  \/ /\ call.pc # "new"
     /\ \E dns \in SUBSET Family :
          call.options = DispatchOptions(call.req.target, call.req.version, call.req.onAgent, dns)
JobsOK ==
  /\ call.jobs \subseteq [agent : Agent \cup {Nil}, version : Version, resolved : Version]
  /\ \A j \in call.jobs : j.agent # Nil =>
       /\ SelectDispatchTarget(agents[j.agent].protocols, call.options).ok
       /\ j = JobFor(j.agent, SelectDispatchTarget(agents[j.agent].protocols, call.options))

AccessInv ==
  SettingsOK /\ CallOK /\ RequestOK /\ CheckedOK /\ OptionsOK /\ JobsOK /\ CreatedIsAllowed

-----------------------------------------------------------------------------
(* Properties of the settings *)

LEMMA LabelsAre ==
  ASSUME SettingsOK, NEW a \in Agent
  PROVE  \E X : Labels(a) \in Seq(X)
<1> DEFINE tags == agents[a].tags
           three == <<<<"agent">>, <<agents[a].transport>>, <<"id", a>>>>
           X == Range(tags) \cup {<<"agent">>, <<agents[a].transport>>, <<"id", a>>}
<1>1. tags \in Seq(Range(tags))
  <2>1. agents[a] \in AgentChoice
    BY DEF SettingsOK
  <2> QED BY <2>1, AccessAssumption
<1>2. Labels(a) = three \o tags
  BY DEF Labels
<1>3. three \in Seq(X)
  <2>1. <<"agent">> \in X /\ <<agents[a].transport>> \in X /\ <<"id", a>> \in X
    OBVIOUS
  <2> HIDE DEF X
  <2> QED BY <2>1
<1>4. tags \in Seq(X)
  <2>1. DOMAIN tags = 1..Len(tags) /\ Len(tags) \in Nat /\ \A i \in 1..Len(tags) : tags[i] \in Range(tags)
    BY <1>1
  <2>2. \A i \in 1..Len(tags) : tags[i] \in X
    BY <2>1
  <2>3. tags = [i \in 1..Len(tags) |-> tags[i]]
    BY <1>1
  <2> HIDE DEF X, tags
  <2> QED BY <2>1, <2>2, <2>3
<1> HIDE DEF X, tags, three
<1>5. three \o tags \in Seq(X)
  BY <1>3, <1>4
<1> QED BY <1>2, <1>5

LEMMA LabelsOfRequestAre ==
  ASSUME SettingsOK, NEW req, req.agent \in Agent \cup {Nil}
  PROVE  \E X : LabelsOfRequest(req) \in Seq(X)
<1>1. CASE req.agent = Nil
  <2>1. LabelsOfRequest(req) = <<<<"agent">>>>
    BY <1>1 DEF LabelsOfRequest, AllLabels
  <2>2. <<<<"agent">>>> \in Seq({<<"agent">>})
    OBVIOUS
  <2> QED BY <2>1, <2>2
<1>2. CASE req.agent # Nil
  BY <1>2, LabelsAre DEF LabelsOfRequest
<1> QED BY <1>1, <1>2

(* A request of the set, sent to an agent.                                  *)
LEMMA SentTo ==
  ASSUME NEW req \in Request, NEW a
  PROVE  LET q == [req EXCEPT !.agent = a]
         IN  q.tool = req.tool /\ q.args = req.args /\ q.agent = a /\ req.tool \in Tool
             /\ q.version = req.version /\ q.onAgent = req.onAgent
             /\ req.version \in Version
<1>1. PICK A : req \in [tool : Tool, args : A, agent : Agent \cup {Nil},
                       target : Version, version : Version, onAgent : BOOLEAN]
  BY AccessAssumption
<1> QED BY <1>1

LEMMA Conjunction ==
  ASSUME SettingsOK
  PROVE  PoliciesAreConjunction
<1>1. SUFFICES ASSUME NEW a \in Agent
        PROVE  /\ \A req \in Request :
                    Validate(PoliciesForLabels(configs, Labels(a)), [req EXCEPT !.agent = a], TRUE)
                      <=> /\ Permits(Labels(a), req.tool, req.args)
                          /\ req.tool = "port" => "port" \in DOMAIN req.args
               /\ \A f \in RuntimeField :
                    RuntimeForLabels(configs, Labels(a), Default)[f] =
                      Min({Default[f]} \cup {v \in LimitsOf(Labels(a), f) : v > 0})
  BY DEF PoliciesAreConjunction
<1>2. PICK X : Labels(a) \in Seq(X)
  BY LabelsAre
<1>3. configs \in ConfigChoice
  BY DEF SettingsOK
<1>4. a # Nil
  BY AccessAssumption
<1>5. ASSUME NEW req \in Request
      PROVE  Validate(PoliciesForLabels(configs, Labels(a)), [req EXCEPT !.agent = a], TRUE)
               <=> /\ Permits(Labels(a), req.tool, req.args)
                   /\ req.tool = "port" => "port" \in DOMAIN req.args
  <2> DEFINE q == [req EXCEPT !.agent = a]
  <2>1. q.tool = req.tool /\ q.args = req.args /\ q.agent = a /\ req.tool \in Tool
    BY SentTo
  <2> HIDE DEF q
  <2>2. Validate(PoliciesForLabels(configs, Labels(a)), q, TRUE)
          <=> /\ Permits(Labels(a), q.tool, q.args)
              /\ q.tool = "port" => "port" \in DOMAIN q.args
              /\ q.tool \in {"traceroute", "mtr"} => q.agent # Nil
    BY <1>2, <1>3, <2>1, ValidIsPermitted
  <2> QED BY <1>4, <2>1, <2>2 DEF q
<1>6. \A f \in RuntimeField :
        RuntimeForLabels(configs, Labels(a), Default)[f] =
          Min({Default[f]} \cup {v \in LimitsOf(Labels(a), f) : v > 0})
  BY <1>2, <1>3, LimitsAre
<1> QED BY <1>5, <1>6

(* The defaults add arguments, and leave the ones that are given.           *)
LEMMA EffectiveAre ==
  ASSUME NEW req
  PROVE  /\ DOMAIN EffectiveArgs(req) \cap ServerOwned = {}
         /\ \A k \in DOMAIN req.args \ ServerOwned :
              k \in DOMAIN EffectiveArgs(req) /\ EffectiveArgs(req)[k] = req.args[k]
<1> DEFINE given == DOMAIN req.args \ ServerOwned
           key == CASE req.tool \in {"ping", "traceroute", "mtr"} -> {"protocol"}
                    [] req.tool = "http" -> {"method"}
                    [] req.tool = "dns" -> {"type"}
                    [] OTHER -> {}
<1>1. key \cap ServerOwned = {}
  BY DEF ServerOwned
<1>2. DOMAIN EffectiveArgs(req) = given \cup key
  BY DEF EffectiveArgs
<1>3. \A k \in given : EffectiveArgs(req)[k] = req.args[k]
  BY DEF EffectiveArgs
<1> QED BY <1>1, <1>2, <1>3

(* What a token leaves of a tool's arguments.                               *)
LEMMA TokenNarrows ==
  ASSUME NEW s \in Scope, NEW policy, AllowedArgs(policy), Full(policy), NEW t \in DOMAIN s.tools,
         s.tools[t].args # Nil
  PROVE  LET left == IntersectAllowedArgs(policy, s.tools[t].args)
         IN  /\ AllowedArgs(left) /\ Full(left)
             /\ \A k, v : Admits(left, k, v) <=> (Admits(policy, k, v) /\ Admits(s.tools[t].args, k, v))
<1>1. AllowedArgs(s.tools[t].args)
  BY AccessAssumption
<1> QED BY <1>1, InCommon

LEMMA Shown ==
  ASSUME SettingsOK
  PROVE  ShownIsAccepted
<1>1. SUFFICES ASSUME NEW a \in Agent, NEW s \in Scope, NEW q \in Request,
                      ScopeAllowsAgentRecord(s, a), q.tool \in DOMAIN AgentToolPermissions(a, s)
        PROVE  LET req == [q EXCEPT !.agent = a]
                   shown == AgentToolPermissions(a, s)
                   within(args) == \A k \in DOMAIN args \ ServerOwned :
                     k \in DOMAIN shown[q.tool].args /\ ArgAllowed(k, shown[q.tool].args[k], args[k])
                   accepted == /\ Validate(PoliciesForLabels(configs, Labels(a)), req, TRUE)
                               /\ AuthorizeJob(s, req)
               IN  /\ /\ within(EffectiveArgs(req)) /\ req.version \in shown[q.tool].versions
                      /\ shown[q.tool].onAgent \in {Nil, req.onAgent}
                      /\ q.tool = "port" => "port" \in DOMAIN q.args
                      => accepted
                   /\ accepted => within(q.args)
  BY ZenonT(90) DEF ShownIsAccepted
<1> DEFINE req == [q EXCEPT !.agent = a]
           t == q.tool
           shown == AgentToolPermissions(a, s)
           P == PoliciesForLabels(configs, Labels(a))
           offered == Permissions(P, s)
           A == IF s.all \/ s.tools[t].args = Nil THEN P[t] ELSE IntersectAllowedArgs(P[t], s.tools[t].args)
<1>2. /\ req.tool = t /\ req.args = q.args /\ req.agent = a /\ t \in Tool
      /\ req.version = q.version /\ req.onAgent = q.onAgent /\ q.version \in Version
  BY SentTo
<1>3. a # Nil /\ s.all \in BOOLEAN
  BY AccessAssumption
<1>4. t \in DOMAIN offered /\ shown[t].args = offered[t].args /\ shown[t].onAgent = offered[t].onAgent
      /\ shown[t].versions \subseteq offered[t].versions
  <2> DEFINE usable(u) == {v \in offered[u].versions : Supports(agents[a].protocols, v)}
  <2>1. t \in DOMAIN offered /\ shown[t] = [offered[t] EXCEPT !.versions = usable(t)]
    BY <1>1 DEF AgentToolPermissions
  <2>2. DOMAIN offered[t] = {"args", "onAgent", "versions"}
    BY <2>1 DEF Permissions
  <2> HIDE DEF offered, shown, t
  <2> QED BY <2>1, <2>2
<1>5. /\ t \in DOMAIN P /\ (s.all \/ t \in DOMAIN s.tools)
      /\ offered[t].args = A
      /\ offered[t].onAgent = IF t \in DOMAIN s.tools THEN s.tools[t].onAgent ELSE Nil
      /\ offered[t].versions = IF s.all \/ s.tools[t].versions = {} THEN Version ELSE s.tools[t].versions
  BY <1>4 DEF Permissions
<1>6. PICK X : Labels(a) \in Seq(X)
  BY LabelsAre
<1>7. AllowedArgs(P[t]) /\ Full(P[t])
  BY <1>2, <1>5, <1>6, PoliciesAre DEF SettingsOK
<1>8. /\ AllowedArgs(A) /\ Full(A)
      /\ \A k, v : Admits(A, k, v) => Admits(P[t], k, v)
      /\ (s.all \/ s.tools[t].args = Nil) => A = P[t]
  <2>1. CASE s.all \/ s.tools[t].args = Nil
    BY <1>7, <2>1
  <2>2. CASE ~(s.all \/ s.tools[t].args = Nil)
    <3>1. t \in DOMAIN s.tools /\ s.tools[t].args # Nil /\ A = IntersectAllowedArgs(P[t], s.tools[t].args)
      BY <1>5, <2>2
    <3> HIDE DEF A, P, t
    <3> QED BY <1>7, <2>2, <3>1, TokenNarrows
  <2> QED BY <2>1, <2>2
<1>9. LabelsOfRequest(req) = Labels(a)
  BY <1>2, <1>3 DEF LabelsOfRequest
<1>10. AuthorizeJob(s, req) <=>
         \/ s.all
         \/ /\ t \in DOMAIN s.tools /\ t \in DOMAIN P
            /\ s.tools[t].versions = {} \/ req.version \in s.tools[t].versions
            /\ s.tools[t].onAgent \in {Nil, req.onAgent}
            /\ a # Nil => ScopeAllowsAgentRecord(s, a)
            /\ s.tools[t].args # Nil =>
                 \A k \in DOMAIN EffectiveArgs(req) :
                   /\ k \in DOMAIN IntersectAllowedArgs(P[t], s.tools[t].args)
                   /\ ArgAllowed(k, IntersectAllowedArgs(P[t], s.tools[t].args)[k], EffectiveArgs(req)[k])
  <2> HIDE DEF req
  <2> QED BY <1>2, <1>9 DEF AuthorizeJob
<1>11. Validate(P, req, TRUE) <=>
         /\ t \in DOMAIN P
         /\ t \in {"traceroute", "mtr"} => a # Nil
         /\ t = "port" => "port" \in DOMAIN q.args
         /\ \A k \in DOMAIN q.args \ ServerOwned : k \in DOMAIN P[t] /\ ArgAllowed(k, P[t][k], q.args[k])
  <2> HIDE DEF req, P
  <2> QED BY <1>2 DEF Validate
<1>12. /\ \A k, v : (k \in DOMAIN A /\ ArgAllowed(k, A[k], v)) <=> Admits(A, k, v)
       /\ \A k, v : (k \in DOMAIN P[t] /\ ArgAllowed(k, P[t][k], v)) <=> Admits(P[t], k, v)
  <2> HIDE DEF A, P, t
  <2> QED BY <1>7, <1>8, ChecksAdmitted
<1>13. /\ DOMAIN EffectiveArgs(req) \cap ServerOwned = {}
       /\ \A k \in DOMAIN q.args \ ServerOwned :
            k \in DOMAIN EffectiveArgs(req) /\ EffectiveArgs(req)[k] = q.args[k]
  <2> HIDE DEF req
  <2> QED BY <1>2, EffectiveAre
<1>14. ~(s.all \/ s.tools[t].args = Nil) => A = IntersectAllowedArgs(P[t], s.tools[t].args)
  OBVIOUS
<1> DEFINE E == EffectiveArgs(req)
           within(args) == \A k \in DOMAIN args \ ServerOwned :
             k \in DOMAIN shown[t].args /\ ArgAllowed(k, shown[t].args[k], args[k])
<1>15. \A args : within(args) <=> \A k \in DOMAIN args \ ServerOwned : Admits(A, k, args[k])
  <2> HIDE DEF A, P, t, shown, offered
  <2> QED BY <1>4, <1>5, <1>12
<1> HIDE DEF A, P, t, shown, offered, req, E
<1>16. ASSUME within(E), req.version \in shown[t].versions, shown[t].onAgent \in {Nil, req.onAgent},
              t = "port" => "port" \in DOMAIN q.args
       PROVE  Validate(P, req, TRUE) /\ AuthorizeJob(s, req)
  <2>1. \A k \in DOMAIN E : Admits(A, k, E[k])
    BY <1>13, <1>15, <1>16 DEF E
  <2>2. \A k \in DOMAIN q.args \ ServerOwned : Admits(P[t], k, q.args[k])
    BY <1>8, <1>13, <2>1 DEF E
  <2>3. Validate(P, req, TRUE)
    BY <1>3, <1>5, <1>11, <1>12, <1>16, <2>2
  <2>4. CASE s.all
    BY <1>10, <2>3, <2>4
  <2>5. CASE ~s.all
    <3>1. t \in DOMAIN s.tools /\ t \in DOMAIN P /\ s.tools[t].onAgent \in {Nil, req.onAgent}
          /\ (s.tools[t].versions = {} \/ req.version \in s.tools[t].versions)
      BY <1>4, <1>5, <1>16, <2>5
    <3>2. s.tools[t].args # Nil =>
            \A k \in DOMAIN E : k \in DOMAIN A /\ ArgAllowed(k, A[k], E[k])
      BY <1>12, <2>1
    <3> QED BY <1>1, <1>10, <1>14, <2>3, <2>5, <3>1, <3>2 DEF E
  <2> QED BY <1>3, <2>4, <2>5
<1>17. ASSUME Validate(P, req, TRUE), AuthorizeJob(s, req) PROVE within(q.args)
  <2>1. SUFFICES ASSUME NEW k \in DOMAIN q.args \ ServerOwned PROVE Admits(A, k, q.args[k])
    BY <1>15
  <2>2. Admits(P[t], k, q.args[k])
    BY <1>11, <1>12, <1>17, <2>1
  <2>3. CASE s.all \/ s.tools[t].args = Nil
    BY <1>8, <2>2, <2>3
  <2>4. CASE ~(s.all \/ s.tools[t].args = Nil)
    <3>1. k \in DOMAIN A /\ ArgAllowed(k, A[k], E[k])
      BY <1>10, <1>13, <1>14, <1>17, <2>1, <2>4 DEF E
    <3>2. E[k] = q.args[k]
      BY <1>13, <2>1 DEF E
    <3> QED BY <1>12, <3>1, <3>2
  <2> QED BY <2>3, <2>4
<1> QED BY <1>16, <1>17 DEF E, req, t, shown, P

-----------------------------------------------------------------------------
(* Targets *)

(* The options for a request: a literal address is kept, and the server's   *)
(* look-up or the agent's is of the version asked for.                      *)
OptionFor(target, version, onAgent, t) ==
  /\ t = Found(t.version, t.resolved) /\ t.version \in Version /\ t.resolved \in Version
  /\ target # 0 => Matches(target, version) /\ t.version = target
  /\ target = 0 /\ onAgent => t.version = version
  /\ target = 0 /\ ~onAgent => t.version # 0 /\ (version # 0 => t.version = version)
  /\ t.resolved = IF onAgent THEN 0 ELSE t.version

LEMMA OptionsAre ==
  ASSUME NEW target \in Version, NEW version \in Version, NEW onAgent \in BOOLEAN, NEW dns \in SUBSET Family
  PROVE  LET options == DispatchOptions(target, version, onAgent, dns)
         IN  /\ DOMAIN options \subseteq Nat
             /\ \A i \in DOMAIN options : OptionFor(target, version, onAgent, options[i])
<1> DEFINE resolved(v) == ResolveTarget(target, v, dns)
           one(v) == IF resolved(v).ok THEN <<resolved(v)>> ELSE <<>>
           options == DispatchOptions(target, version, onAgent, dns)
<1>1. options = IF target # 0
                  THEN IF ~Matches(target, version) THEN <<>>
                       ELSE IF onAgent THEN <<Found(target, 0)>> ELSE one(target)
                ELSE IF onAgent THEN <<Found(version, 0)>>
                ELSE IF version # 0 THEN one(version)
                ELSE one(6) \o one(4)
  BY DEF DispatchOptions
<1>2. \A v, r \in Version : /\ Found(v, r).ok = TRUE
                            /\ Found(v, r).version = v /\ Found(v, r).resolved = r
  BY DEF Found
<1>3. Failed.ok = FALSE
  BY DEF Failed
<1>4. \A x : DOMAIN <<x>> = {1} /\ <<x>>[1] = x
  OBVIOUS
<1>5. DOMAIN <<>> = {}
  OBVIOUS
<1>6. CASE target # 0 /\ ~Matches(target, version)
  BY <1>1, <1>5, <1>6
<1>7. CASE target # 0 /\ Matches(target, version)
  <2>1. resolved(target) = Found(target, target)
    BY <1>7 DEF ResolveTarget, Matches
  <2>2. options = <<Found(target, IF onAgent THEN 0 ELSE target)>>
    BY <1>1, <1>2, <1>7, <2>1
  <2>3. OptionFor(target, version, onAgent, Found(target, IF onAgent THEN 0 ELSE target))
    <3>1. 0 \in Version
      BY DEF Version
    <3> QED BY <1>2, <1>7, <3>1 DEF OptionFor
  <2> HIDE DEF options
  <2>4. DOMAIN options \subseteq Nat /\ \A i \in DOMAIN options : OptionFor(target, version, onAgent, options[i])
    BY <1>4, <2>2, <2>3
  <2> QED BY <2>4 DEF options
<1>8. CASE target = 0 /\ onAgent
  <2>1. options = <<Found(version, 0)>> /\ 0 \in Version
    BY <1>1, <1>8 DEF Version
  <2>2. OptionFor(target, version, onAgent, Found(version, 0))
    BY <1>2, <1>8, <2>1 DEF OptionFor
  <2> HIDE DEF options
  <2>3. DOMAIN options \subseteq Nat /\ \A i \in DOMAIN options : OptionFor(target, version, onAgent, options[i])
    BY <1>4, <2>1, <2>2
  <2> QED BY <2>3 DEF options
<1>9. CASE target = 0 /\ ~onAgent
  <2>1. ASSUME NEW v \in Family, version = 0 \/ v = version
        PROVE  one(v) = <<>> \/ (one(v) = <<Found(v, v)>> /\ OptionFor(target, version, onAgent, Found(v, v)))
    <3>1. v \in Version /\ v # 0
      BY DEF Family, Version
    <3>2. resolved(v) = Found(v, v) \/ resolved(v) = Failed
      BY <1>9 DEF ResolveTarget
    <3>3. one(v) = <<>> \/ one(v) = <<Found(v, v)>>
      BY <1>2, <1>3, <3>1, <3>2
    <3>4. OptionFor(target, version, onAgent, Found(v, v))
      BY <1>2, <1>9, <2>1, <3>1 DEF OptionFor
    <3> QED BY <3>3, <3>4
  <2>2. CASE version # 0
    <3>1. version \in Family /\ options = one(version)
      BY <1>1, <1>9, <2>2 DEF Version
    <3>2. options = <<>> \/ (options = <<Found(version, version)>>
            /\ OptionFor(target, version, onAgent, Found(version, version)))
      BY <2>1, <3>1
    <3> HIDE DEF options
    <3>3. DOMAIN options \subseteq Nat /\ \A i \in DOMAIN options : OptionFor(target, version, onAgent, options[i])
      BY <1>4, <1>5, <3>2
    <3> QED BY <3>3 DEF options
  <2>3. CASE version = 0
    <3>1. 4 \in Family /\ 6 \in Family
      BY DEF Family
    <3>2. options = one(6) \o one(4)
      BY <1>1, <1>9, <2>3
    <3>3. one(6) = <<>> \/ (one(6) = <<Found(6, 6)>> /\ OptionFor(target, version, onAgent, Found(6, 6)))
      BY <2>1, <2>3, <3>1
    <3>4. one(4) = <<>> \/ (one(4) = <<Found(4, 4)>> /\ OptionFor(target, version, onAgent, Found(4, 4)))
      BY <2>1, <2>3, <3>1
    <3> HIDE DEF options, one, resolved
    <3> DEFINE Good == {t \in {Found(6, 6), Found(4, 4)} : OptionFor(target, version, onAgent, t)}
    <3>5. one(6) \in Seq(Good) /\ one(4) \in Seq(Good)
      <4>1. \A t \in Good : <<t>> \in Seq(Good)
        OBVIOUS
      <4>2. <<>> \in Seq(Good)
        OBVIOUS
      <4> QED BY <3>3, <3>4, <4>1, <4>2
    <3>6. options \in Seq(Good)
      BY <3>2, <3>5
    <3>7. DOMAIN options \subseteq Nat /\ \A i \in DOMAIN options : OptionFor(target, version, onAgent, options[i])
      <4>1. DOMAIN options = 1..Len(options) /\ Len(options) \in Nat
        BY <3>6
      <4>2. \A i \in DOMAIN options : options[i] \in Good
        BY <3>6, <4>1
      <4> QED BY <4>1, <4>2
    <3> QED BY <3>7 DEF options
  <2> QED BY <2>2, <2>3
<1> QED BY <1>6, <1>7, <1>8, <1>9

(* What the server picks for an agent is an option the agent supports.      *)
LEMMA ChosenIs ==
  ASSUME NEW target \in Version, NEW version \in Version, NEW onAgent \in BOOLEAN, NEW dns \in SUBSET Family,
         NEW mask \in SUBSET Family,
         SelectDispatchTarget(mask, DispatchOptions(target, version, onAgent, dns)).ok
  PROVE  LET t == SelectDispatchTarget(mask, DispatchOptions(target, version, onAgent, dns))
         IN  OptionFor(target, version, onAgent, t) /\ Supports(mask, t.version)
<1> DEFINE options == DispatchOptions(target, version, onAgent, dns)
           usable == {i \in DOMAIN options : Supports(mask, options[i].version)}
<1>1. usable \subseteq Nat /\ \A i \in DOMAIN options : OptionFor(target, version, onAgent, options[i])
  BY OptionsAre
<1>2. usable # {} /\ SelectDispatchTarget(mask, options) = options[Min(usable)]
  <2>1. SelectDispatchTarget(mask, options) = IF usable = {} THEN Failed ELSE options[Min(usable)]
    BY DEF SelectDispatchTarget
  <2>2. Failed.ok = FALSE
    BY DEF Failed
  <2> QED BY <2>1, <2>2
<1>3. Min(usable) \in usable
  <2> HIDE DEF usable
  <2>1. \E m \in usable : \A n \in usable : m =< n
    BY <1>1, <1>2, Least
  <2> QED BY <2>1 DEF Min
<1> HIDE DEF options
<1>4. OptionFor(target, version, onAgent, options[Min(usable)]) /\ Supports(mask, options[Min(usable)].version)
  BY <1>1, <1>3
<1> QED BY <1>2, <1>4 DEF options

(* resolveAgentTarget accepts such an option.                               *)
Accepts(target, version, onAgent, mask, dns, t) ==
  LET got == ResolveAgentTarget(target, t.resolved, t.version, onAgent, mask, dns)
  IN  /\ got # Unsupported
      /\ got.ok => Supports(mask, got.version) /\ (version # 0 => got.version = version)
LEMMA AgentAccepts ==
  ASSUME NEW target \in Version, NEW version \in Version, NEW onAgent \in BOOLEAN, NEW dns \in SUBSET Family,
         NEW mask \in SUBSET Family, NEW t, OptionFor(target, version, onAgent, t), Supports(mask, t.version)
  PROVE  Accepts(target, version, onAgent, mask, dns, t)
<1> DEFINE got == ResolveAgentTarget(target, t.resolved, t.version, onAgent, mask, dns)
<1>1. \A v, r : Found(v, r).ok = TRUE /\ Found(v, r).version = v /\ Found(v, r) # Unsupported
  BY DEF Found, Unsupported, Failed
<1>2. Blocked # Unsupported /\ Blocked.ok = FALSE /\ Failed.ok = FALSE
  BY DEF Blocked, Unsupported, Failed
<1>3. SUFFICES \/ got = Blocked
               \/ \E v, r : got = Found(v, r) /\ Supports(mask, v) /\ (version # 0 => v = version)
  <2>1. CASE got = Blocked
    BY <1>2, <2>1 DEF Accepts
  <2>2. CASE \E v, r : got = Found(v, r) /\ Supports(mask, v) /\ (version # 0 => v = version)
    <3>1. PICK v, r : got = Found(v, r) /\ Supports(mask, v) /\ (version # 0 => v = version)
      BY <2>2
    <3> QED BY <1>1, <3>1 DEF Accepts
  <2> HIDE DEF got
  <2> QED BY <1>3, <2>1, <2>2 DEF got
<1>4. CASE ~onAgent
  <2>1. t.resolved = t.version /\ t.version # 0
    BY <1>4 DEF OptionFor
  <2>2. got = Found(t.resolved, t.resolved)
    BY <1>4, <2>1 DEF ResolveAgentTarget, Matches
  <2>3. version # 0 => t.version = version
    BY <1>4 DEF OptionFor, Matches
  <2> QED BY <2>1, <2>2, <2>3
<1>5. CASE onAgent
  <2> DEFINE candidates == AgentTargetVersions(t.version, mask)
             good == {v \in candidates : ResolveTarget(target, v, dns).ok}
             first == ResolveTarget(target, Max(good), dns)
  <2>1. target # 0 => (t.version = target /\ Matches(target, t.version) /\ Supports(mask, target))
    BY DEF OptionFor, Matches
  <2>2. candidates # {} /\ candidates \subseteq Family
    <3>1. Protocols(mask) # {} /\ Protocols(mask) \subseteq Family
      BY DEF Protocols, Family
    <3>2. t.version \in Version
      BY DEF OptionFor
    <3> QED BY <3>1, <3>2 DEF AgentTargetVersions, Supports, Version
  <2>3. got = IF good = {} THEN Blocked
              ELSE IF Supports(mask, first.version) THEN first ELSE Unsupported
    BY <1>5, <2>1, <2>2 DEF ResolveAgentTarget
  <2>4. CASE good = {}
    BY <2>3, <2>4
  <2>5. CASE good # {}
    <3>1. good \subseteq {4, 6}
      BY <2>2 DEF Family
    <3>2. Max(good) \in good
      <4> HIDE DEF good
      <4>1. CASE 6 \in good
        <5>1. \A n \in good : 6 >= n
          BY <3>1
        <5>2. \E m \in good : \A n \in good : m >= n
          BY <4>1, <5>1
        <5> QED BY <5>2 DEF Max
      <4>2. CASE 6 \notin good
        <5>1. good = {4}
          BY <2>5, <3>1, <4>2
        <5> QED BY <5>1 DEF Max
      <4> QED BY <4>1, <4>2
    <3> DEFINE m == Max(good)
    <3>3. m \in candidates /\ ResolveTarget(target, m, dns).ok /\ first = ResolveTarget(target, m, dns)
      BY <3>2
    <3> HIDE DEF m, good, candidates, first
    <3>4. m # 0 /\ m \in Protocols(mask) /\ (t.version # 0 => m = t.version)
      BY <2>2, <3>3 DEF candidates, AgentTargetVersions, Family
    <3>5. CASE target # 0
      <4>1. m = target
        BY <2>1, <3>4, <3>5
      <4>2. first = Found(target, target)
        BY <3>3, <3>5, <4>1 DEF ResolveTarget, Matches
      <4>3. version # 0 => target = version
        BY <3>5 DEF OptionFor, Matches
      <4> QED BY <1>1, <2>1, <2>3, <2>5, <3>5, <4>2, <4>3
    <3>6. CASE target = 0
      <4>1. first = Found(m, m)
        BY <1>2, <3>3, <3>6 DEF ResolveTarget
      <4>2. Supports(mask, m)
        BY <3>4 DEF Supports
      <4>3. version # 0 => m = version
        BY <1>5, <3>4, <3>6 DEF OptionFor
      <4> QED BY <1>1, <2>3, <2>5, <4>1, <4>2, <4>3
    <3> QED BY <3>5, <3>6
  <2> QED BY <2>4, <2>5
<1> QED BY <1>4, <1>5

(* What an agent is given is an option of the request.                      *)
LEMMA GivenIs ==
  ASSUME SettingsOK, RequestOK, OptionsOK, NEW a \in Agent, call.pc # "new",
         SelectDispatchTarget(agents[a].protocols, call.options).ok
  PROVE  LET t == SelectDispatchTarget(agents[a].protocols, call.options)
         IN  /\ OptionFor(call.req.target, call.req.version, call.req.onAgent, t)
             /\ Supports(agents[a].protocols, t.version)
             /\ agents[a].protocols \in SUBSET Family
<1>1. agents[a].protocols \in SUBSET Family
  <2>1. agents[a] \in AgentChoice
    BY DEF SettingsOK
  <2> QED BY <2>1, AccessAssumption
<1>2. call.options # <<>>
  <2>1. SelectDispatchTarget(agents[a].protocols, <<>>) = Failed /\ Failed.ok = FALSE
    BY DEF SelectDispatchTarget, Failed
  <2> QED BY <2>1
<1>3. PICK dns \in SUBSET Family :
        call.options = DispatchOptions(call.req.target, call.req.version, call.req.onAgent, dns)
  BY <1>2 DEF OptionsOK
<1>4. call.req.target \in Version /\ call.req.version \in Version /\ call.req.onAgent \in BOOLEAN
  BY DEF RequestOK
<1> QED BY <1>1, <1>3, <1>4, ChosenIs

LEMMA Agrees ==
  ASSUME SettingsOK, CallOK, RequestOK, OptionsOK, JobsOK
  PROVE  AgentAgrees
<1>1. SUFFICES ASSUME NEW j \in call.jobs, j.agent # Nil, NEW dns \in SUBSET Family
        PROVE  LET mask == agents[j.agent].protocols
                   got == ResolveAgentTarget(call.req.target, j.resolved, j.version, call.req.onAgent, mask, dns)
               IN  /\ got # Unsupported
                   /\ got.ok => /\ Supports(mask, got.version)
                                /\ call.req.version # 0 => got.version = call.req.version
  BY DEF AgentAgrees
<1> DEFINE t == SelectDispatchTarget(agents[j.agent].protocols, call.options)
<1>2. call.pc # "new" /\ j.agent \in Agent /\ t.ok /\ j = JobFor(j.agent, t)
  BY <1>1 DEF CallOK, JobsOK
<1>3. /\ OptionFor(call.req.target, call.req.version, call.req.onAgent, t)
      /\ Supports(agents[j.agent].protocols, t.version)
      /\ agents[j.agent].protocols \in SUBSET Family
  BY <1>2, GivenIs
<1>4. call.req.target \in Version /\ call.req.version \in Version /\ call.req.onAgent \in BOOLEAN
  BY <1>2 DEF RequestOK
<1>5. j.resolved = t.resolved /\ j.version = t.version
  <2> DEFINE job == JobFor(j.agent, t)
  <2>1. job.resolved = t.resolved /\ job.version = t.version
    BY DEF JobFor
  <2> HIDE DEF t, job
  <2> QED BY <1>2, <2>1 DEF job
<1> DEFINE mask == agents[j.agent].protocols
           got == ResolveAgentTarget(call.req.target, t.resolved, t.version, call.req.onAgent, mask, dns)
<1> HIDE DEF t
<1>6. /\ got # Unsupported
      /\ got.ok => Supports(mask, got.version) /\ (call.req.version # 0 => got.version = call.req.version)
  <2> DEFINE target == call.req.target
             version == call.req.version
             onAgent == call.req.onAgent
  <2>1. /\ target \in Version /\ version \in Version /\ onAgent \in BOOLEAN /\ mask \in SUBSET Family
        /\ OptionFor(target, version, onAgent, t) /\ Supports(mask, t.version)
    BY <1>3, <1>4
  <2> HIDE DEF target, version, onAgent, mask
  <2>2. Accepts(target, version, onAgent, mask, dns, t)
    BY <2>1, AgentAccepts
  <2> QED BY <2>2 DEF Accepts, target, version, onAgent, mask
<1>7. got = ResolveAgentTarget(call.req.target, j.resolved, j.version, call.req.onAgent, mask, dns)
  BY <1>5
<1> HIDE DEF got
<1> QED BY <1>6, <1>7

LEMMA Types ==
  ASSUME SettingsOK, CallOK, RequestOK, OptionsOK, JobsOK
  PROVE  TypeOK
<1>1. call.scope \in Scope \cup {Nil} /\ (call.pc = "new" \/ call.req.tool \in Tool)
  BY DEF CallOK, RequestOK, NoCall
<1>2. \A i \in DOMAIN call.options : call.options[i] \in [ok : {TRUE}, version : Version, resolved : Version]
  <2>1. CASE call.options = <<>>
    BY <2>1
  <2>2. CASE call.options # <<>>
    <3>1. PICK dns \in SUBSET Family :
            call.options = DispatchOptions(call.req.target, call.req.version, call.req.onAgent, dns)
      BY <2>2 DEF OptionsOK
    <3>2. call.req.target \in Version /\ call.req.version \in Version /\ call.req.onAgent \in BOOLEAN
      BY <2>2 DEF OptionsOK, RequestOK
    <3>3. \A i \in DOMAIN call.options :
            OptionFor(call.req.target, call.req.version, call.req.onAgent, call.options[i])
      BY <3>1, <3>2, OptionsAre
    <3>4. \A t : OptionFor(call.req.target, call.req.version, call.req.onAgent, t) =>
                   t \in [ok : {TRUE}, version : Version, resolved : Version]
      <4>1. \A v, r \in Version : Found(v, r) \in [ok : {TRUE}, version : Version, resolved : Version]
        BY DEF Found
      <4>2. SUFFICES ASSUME NEW t, OptionFor(call.req.target, call.req.version, call.req.onAgent, t)
                     PROVE  t \in [ok : {TRUE}, version : Version, resolved : Version]
        OBVIOUS
      <4>3. t = Found(t.version, t.resolved) /\ t.version \in Version /\ t.resolved \in Version
        BY <4>2 DEF OptionFor
      <4> QED BY <4>1, <4>3
    <3> QED BY <3>3, <3>4
  <2> QED BY <2>1, <2>2
<1> QED BY <1>1, <1>2 DEF TypeOK, SettingsOK, CallOK, JobsOK

-----------------------------------------------------------------------------
(* The steps of the handler *)

LEMMA InitInv == Init => AccessInv
<1>1. SUFFICES ASSUME Init PROVE AccessInv
  OBVIOUS
<1>2. /\ call.pc = "new" /\ call.jobs = {} /\ call.options = <<>> /\ call = NoCall
      /\ DOMAIN call = {"pc", "scope", "req", "options", "jobs"}
  BY <1>1 DEF Init, NoCall
<1>3. SettingsOK
  BY <1>1 DEF Init, SettingsOK
<1>4. CallOK
  <2>1. MaxEdits \in Nat
    BY AccessAssumption
  <2>2. edits \in 0..MaxEdits
    BY <1>1, <2>1 DEF Init
  <2>3. edited \in BOOLEAN
    BY <1>1, Zenon DEF Init
  <2> QED BY <1>2, <2>2, <2>3 DEF CallOK
<1>5. RequestOK /\ CheckedOK /\ OptionsOK /\ JobsOK
  BY <1>2 DEF RequestOK, CheckedOK, OptionsOK, JobsOK
<1>6. CreatedIsAllowed
  BY <1>2 DEF CreatedIsAllowed
<1> QED BY <1>3, <1>4, <1>5, <1>6 DEF AccessInv

LEMMA StepArrive ==
  ASSUME AccessInv, NEW s \in Scope, NEW req \in Request, Arrive(s, req)
  PROVE  AccessInv'
<1>1. DOMAIN call = {"pc", "scope", "req", "options", "jobs"} /\ call.pc = "new"
      /\ call.jobs = {} /\ call.options = <<>>
  BY DEF AccessInv, CallOK, Arrive, NoCall
<1>2. /\ call'.pc = "policies" /\ call'.scope = s /\ call'.req = req
      /\ call'.jobs = {} /\ call'.options = <<>>
      /\ DOMAIN call' = {"pc", "scope", "req", "options", "jobs"}
  BY <1>1 DEF Arrive
<1>3. configs' = configs /\ agents' = agents /\ edits' = edits /\ edited' = edited
  BY DEF Arrive
<1>4. PICK A : req \in [tool : Tool, args : A, agent : Agent \cup {Nil},
                       target : Version, version : Version, onAgent : BOOLEAN]
  BY AccessAssumption
<1>5. SettingsOK'
  BY <1>3 DEF AccessInv, SettingsOK
<1>6. CallOK'
  BY <1>2, <1>3 DEF AccessInv, CallOK
<1>7. RequestOK'
  BY <1>2, <1>4 DEF RequestOK
<1>8. CheckedOK' /\ OptionsOK' /\ JobsOK'
  BY <1>2 DEF CheckedOK, OptionsOK, JobsOK
<1>9. CreatedIsAllowed'
  BY <1>2 DEF CreatedIsAllowed
<1> QED BY <1>5, <1>6, <1>7, <1>8, <1>9 DEF AccessInv

(* Refuse, and a job that is stored as failed.                              *)
LEMMA StepEnd ==
  ASSUME AccessInv, NEW pc \in {"refused", "failed"}, call.pc \notin {"new", "created"},
         At(pc), UNCHANGED <<configs, agents, edits, edited>>
  PROVE  AccessInv'
<1>1. DOMAIN call = {"pc", "scope", "req", "options", "jobs"} /\ call.jobs = {}
  BY DEF AccessInv, CallOK
<1>2. /\ call'.pc = pc /\ call'.scope = call.scope /\ call'.req = call.req
      /\ call'.jobs = {} /\ call'.options = call.options
      /\ DOMAIN call' = {"pc", "scope", "req", "options", "jobs"}
  BY <1>1 DEF At
<1>3. SettingsOK'
  BY DEF AccessInv, SettingsOK
<1>4. CallOK'
  BY <1>2 DEF AccessInv, CallOK
<1>5. RequestOK'
  BY <1>2 DEF AccessInv, RequestOK
<1>6. OptionsOK'
  BY <1>2 DEF AccessInv, OptionsOK
<1>7. CheckedOK' /\ JobsOK'
  BY <1>2 DEF CheckedOK, JobsOK
<1>8. CreatedIsAllowed'
  BY <1>2 DEF CreatedIsAllowed
<1> QED BY <1>3, <1>4, <1>5, <1>6, <1>7, <1>8 DEF AccessInv

LEMMA StepCheckPolicies ==
  ASSUME AccessInv, CheckPolicies
  PROVE  AccessInv'
<1> DEFINE labels == LabelsOfRequest(call.req)
           args == ServerArgs(call.req.tool, call.req.args, RuntimeForLabels(configs, labels, Default))
           req == [call.req EXCEPT !.args = args]
<1>1. call.pc = "policies" /\ UNCHANGED <<configs, agents, edits, edited>>
  BY DEF CheckPolicies
<1>2. CASE Validate(PoliciesForLabels(configs, labels), req, TRUE)
  <2>1. call' = [call EXCEPT !.pc = "authorize", !.req = req]
    BY <1>2 DEF CheckPolicies
  <2>2. DOMAIN call = {"pc", "scope", "req", "options", "jobs"} /\ call.jobs = {}
    BY <1>1 DEF AccessInv, CallOK
  <2>3. /\ call.scope \in Scope
        /\ DOMAIN call.req = {"tool", "args", "agent", "target", "version", "onAgent"}
        /\ call.req.tool \in Tool /\ call.req.agent \in Agent \cup {Nil}
        /\ call.req.target \in Version /\ call.req.version \in Version /\ call.req.onAgent \in BOOLEAN
    BY <1>1 DEF AccessInv, RequestOK
  <2>4. /\ DOMAIN req = {"tool", "args", "agent", "target", "version", "onAgent"}
        /\ req.tool = call.req.tool /\ req.agent = call.req.agent /\ req.target = call.req.target
        /\ req.version = call.req.version /\ req.onAgent = call.req.onAgent
    <3> HIDE DEF args
    <3> QED BY <2>3
  <2>5. LabelsOfRequest(req) = labels
    <3> HIDE DEF req
    <3> QED BY <2>4 DEF LabelsOfRequest
  <2> HIDE DEF req, labels
  <2>6. /\ call'.pc = "authorize" /\ call'.scope = call.scope /\ call'.req = req
        /\ call'.jobs = {} /\ call'.options = call.options
        /\ DOMAIN call' = {"pc", "scope", "req", "options", "jobs"}
    BY <2>1, <2>2
  <2>7. SettingsOK'
    BY <1>1 DEF AccessInv, SettingsOK
  <2>8. CallOK'
    BY <1>1, <2>6 DEF AccessInv, CallOK
  <2>9. RequestOK'
    BY <2>3, <2>4, <2>6 DEF RequestOK
  <2>10. OptionsOK'
    BY <1>1, <2>4, <2>6 DEF AccessInv, OptionsOK
  <2>11. CheckedOK'
    <3>1. LabelsOfRequest(call.req)' = LabelsOfRequest(req)
      BY <1>1, <2>6 DEF LabelsOfRequest, Labels
    <3> QED BY <1>1, <1>2, <2>5, <2>6, <3>1 DEF CheckedOK
  <2>12. JobsOK' /\ CreatedIsAllowed'
    BY <2>6 DEF JobsOK, CreatedIsAllowed
  <2> QED BY <2>7, <2>8, <2>9, <2>10, <2>11, <2>12 DEF AccessInv
<1>3. CASE ~Validate(PoliciesForLabels(configs, labels), req, TRUE)
  <2>1. At("refused")
    BY <1>3 DEF CheckPolicies, Refuse, At
  <2> QED BY <1>1, <2>1, StepEnd
<1> QED BY <1>2, <1>3

LEMMA StepAuthorize ==
  ASSUME AccessInv, Authorize
  PROVE  AccessInv'
<1>1. call.pc = "authorize" /\ UNCHANGED <<configs, agents, edits, edited>>
  BY DEF Authorize
<1>2. CASE AuthorizeJob(call.scope, call.req)
  <2>1. call' = [call EXCEPT !.pc = "options"]
    BY <1>2 DEF Authorize, At
  <2>2. DOMAIN call = {"pc", "scope", "req", "options", "jobs"} /\ call.jobs = {}
    BY <1>1 DEF AccessInv, CallOK
  <2>3. /\ call'.pc = "options" /\ call'.scope = call.scope /\ call'.req = call.req
        /\ call'.jobs = {} /\ call'.options = call.options
        /\ DOMAIN call' = {"pc", "scope", "req", "options", "jobs"}
    BY <2>1, <2>2
  <2>4. SettingsOK' /\ RequestOK' /\ OptionsOK'
    BY <1>1, <2>3 DEF AccessInv, SettingsOK, RequestOK, OptionsOK
  <2>5. CallOK'
    BY <1>1, <2>3 DEF AccessInv, CallOK
  <2>6. CheckedOK'
    <3>1. LabelsOfRequest(call.req)' = LabelsOfRequest(call.req)
      BY <1>1, <2>3 DEF LabelsOfRequest, Labels
    <3>2. AuthorizeJob(call.scope, call.req)' <=> AuthorizeJob(call.scope, call.req)
      BY <1>1, <2>3, <3>1 DEF AuthorizeJob, ScopeAllowsAgentRecord, ScopeAllowsAgent, Labels
    <3>3. ~edited => Validate(PoliciesForLabels(configs, LabelsOfRequest(call.req)), call.req, TRUE)
      BY <1>1 DEF AccessInv, CheckedOK
    <3> QED BY <1>1, <1>2, <2>3, <3>1, <3>2, <3>3 DEF CheckedOK
  <2>7. JobsOK' /\ CreatedIsAllowed'
    BY <2>3 DEF JobsOK, CreatedIsAllowed
  <2> QED BY <2>4, <2>5, <2>6, <2>7 DEF AccessInv
<1>3. CASE ~AuthorizeJob(call.scope, call.req)
  <2>1. At("refused")
    BY <1>3 DEF Authorize, Refuse, At
  <2> QED BY <1>1, <2>1, StepEnd
<1> QED BY <1>2, <1>3

LEMMA StepOptions ==
  ASSUME AccessInv, NEW dns \in SUBSET Family, Options(dns)
  PROVE  AccessInv'
<1> DEFINE options == DispatchOptions(call.req.target, call.req.version, call.req.onAgent, dns)
<1>1. call.pc = "options" /\ UNCHANGED <<configs, agents, edits, edited>>
  BY DEF Options
<1>2. CASE options = <<>>
  <2>1. At("refused")
    BY <1>2 DEF Options, Refuse, At
  <2> QED BY <1>1, <2>1, StepEnd
<1>3. CASE options # <<>>
  <2>1. call' = [call EXCEPT !.pc = "targets", !.options = options]
    BY <1>3 DEF Options
  <2>2. DOMAIN call = {"pc", "scope", "req", "options", "jobs"} /\ call.jobs = {}
    BY <1>1 DEF AccessInv, CallOK
  <2> HIDE DEF options
  <2>3. /\ call'.pc = "targets" /\ call'.scope = call.scope /\ call'.req = call.req
        /\ call'.jobs = {} /\ call'.options = options
        /\ DOMAIN call' = {"pc", "scope", "req", "options", "jobs"}
    BY <2>1, <2>2
  <2>4. SettingsOK' /\ RequestOK'
    BY <1>1, <2>3 DEF AccessInv, SettingsOK, RequestOK
  <2>5. CallOK'
    BY <1>1, <2>3 DEF AccessInv, CallOK
  <2>6. OptionsOK'
    BY <2>3 DEF OptionsOK, options
  <2>7. CheckedOK'
    <3>1. LabelsOfRequest(call.req)' = LabelsOfRequest(call.req)
      BY <1>1, <2>3 DEF LabelsOfRequest, Labels
    <3>2. AuthorizeJob(call.scope, call.req)' <=> AuthorizeJob(call.scope, call.req)
      BY <1>1, <2>3, <3>1 DEF AuthorizeJob, ScopeAllowsAgentRecord, ScopeAllowsAgent, Labels
    <3>3. ~edited => /\ Validate(PoliciesForLabels(configs, LabelsOfRequest(call.req)), call.req, TRUE)
                     /\ AuthorizeJob(call.scope, call.req)
      BY <1>1 DEF AccessInv, CheckedOK
    <3> QED BY <1>1, <2>3, <3>1, <3>2, <3>3 DEF CheckedOK
  <2>8. JobsOK' /\ CreatedIsAllowed'
    BY <2>3 DEF JobsOK, CreatedIsAllowed
  <2> QED BY <2>4, <2>5, <2>6, <2>7, <2>8 DEF AccessInv
<1> QED BY <1>2, <1>3

(* The token's check of the request holds on any agent the token allows.    *)
LEMMA TokenAllows ==
  ASSUME AccessInv, call.pc = "targets", ~edited, NEW a \in Agent,
         call.scope.all \/ ScopeAllowsAgentRecord(call.scope, a)
  PROVE  TokenPermits(call.scope, call.req, a)
<1> DEFINE s == call.scope
           t == call.req.tool
           P == PoliciesForLabels(configs, LabelsOfRequest(call.req))
           E == EffectiveArgs(call.req)
<1>1. AuthorizeJob(s, call.req) /\ s \in Scope /\ t \in Tool /\ call.req.agent \in Agent \cup {Nil} /\ SettingsOK
  BY DEF AccessInv, CheckedOK, RequestOK
<1>2. CASE s.all
  BY <1>2 DEF TokenPermits
<1>3. CASE ~s.all
  <2>1. /\ t \in DOMAIN s.tools /\ t \in DOMAIN P
        /\ s.tools[t].args # Nil =>
             \A k \in DOMAIN E : /\ k \in DOMAIN IntersectAllowedArgs(P[t], s.tools[t].args)
                                 /\ ArgAllowed(k, IntersectAllowedArgs(P[t], s.tools[t].args)[k], E[k])
    BY <1>1, <1>3 DEF AuthorizeJob
  <2>2. PICK X : LabelsOfRequest(call.req) \in Seq(X)
    BY <1>1, LabelsOfRequestAre
  <2>3. AllowedArgs(P[t]) /\ Full(P[t])
    BY <1>1, <2>1, <2>2, PoliciesAre DEF SettingsOK
  <2> HIDE DEF s, t, P, E
  <2>4. s.tools[t].args # Nil => \A k \in DOMAIN E : Admits(s.tools[t].args, k, E[k])
    <3>1. SUFFICES ASSUME s.tools[t].args # Nil, NEW k \in DOMAIN E
                   PROVE  Admits(s.tools[t].args, k, E[k])
      OBVIOUS
    <3> DEFINE left == IntersectAllowedArgs(P[t], s.tools[t].args)
    <3>2. /\ AllowedArgs(left) /\ Full(left)
          /\ \A l, v : Admits(left, l, v) <=> (Admits(P[t], l, v) /\ Admits(s.tools[t].args, l, v))
      BY <1>1, <2>1, <2>3, <3>1, TokenNarrows
    <3>3. k \in DOMAIN left /\ ArgAllowed(k, left[k], E[k])
      BY <2>1, <3>1
    <3> HIDE DEF left
    <3>4. Admits(left, k, E[k])
      BY <3>2, <3>3, ChecksAdmitted
    <3> QED BY <3>2, <3>4
  <2>5. ScopeAllowsAgentRecord(s, a)
    BY <1>3 DEF s
  <2>6. /\ a \notin s.denied /\ \A l \in Range(Labels(a)) : l \notin s.deniedTags
        /\ s.agents = {} \/ "*" \in s.agents \/ a \in s.agents
        /\ s.tags = {} \/ \E l \in Range(Labels(a)) : l \in s.tags
    BY <1>3, <2>5 DEF ScopeAllowsAgentRecord, ScopeAllowsAgent
  <2> QED BY <2>1, <2>4, <2>6 DEF TokenPermits, s, t, E
<1> QED BY <1>2, <1>3

(* A step that stores jobs for agents that run them.                        *)
LEMMA StepCreate ==
  ASSUME AccessInv, call.pc = "targets", UNCHANGED <<configs, agents, edits, edited>>,
         NEW jobs, call' = [call EXCEPT !.pc = "created", !.jobs = jobs],
         jobs \subseteq [agent : Agent \cup {Nil}, version : Version, resolved : Version],
         \A j \in jobs : j.agent # Nil =>
           /\ SelectDispatchTarget(agents[j.agent].protocols, call.options).ok
           /\ j = JobFor(j.agent, SelectDispatchTarget(agents[j.agent].protocols, call.options))
           /\ agents[j.agent].enabled /\ agents[j.agent].online /\ call.req.tool \in agents[j.agent].caps
           /\ ~edited => /\ Permits(Labels(j.agent), call.req.tool, call.req.args)
                         /\ TokenPermits(call.scope, call.req, j.agent)
  PROVE  AccessInv'
<1>1. DOMAIN call = {"pc", "scope", "req", "options", "jobs"}
  BY DEF AccessInv, CallOK
<1>2. /\ call'.pc = "created" /\ call'.scope = call.scope /\ call'.req = call.req
      /\ call'.jobs = jobs /\ call'.options = call.options
      /\ DOMAIN call' = {"pc", "scope", "req", "options", "jobs"}
  BY <1>1
<1>3. SettingsOK' /\ RequestOK' /\ OptionsOK'
  BY <1>2 DEF AccessInv, SettingsOK, RequestOK, OptionsOK
<1>4. CallOK'
  BY <1>2 DEF AccessInv, CallOK
<1>5. CheckedOK'
  BY <1>2 DEF CheckedOK
<1>6. JobsOK'
  BY <1>2 DEF JobsOK
<1>7. CreatedIsAllowed'
  <2>1. SUFFICES ASSUME ~edited, NEW j \in jobs, j.agent # Nil
          PROVE  /\ agents[j.agent].enabled' /\ agents[j.agent].online'
                 /\ (call.req.tool \in agents[j.agent].caps)'
                 /\ Permits(Labels(j.agent), call.req.tool, call.req.args)'
                 /\ TokenPermits(call.scope, call.req, j.agent)'
    BY <1>2 DEF CreatedIsAllowed
  <2>2. Permits(Labels(j.agent), call.req.tool, call.req.args)
        /\ TokenPermits(call.scope, call.req, j.agent)
    BY <2>1
  <2>3. Labels(j.agent)' = Labels(j.agent)
    BY DEF Labels
  <2>4. Permits(Labels(j.agent), call.req.tool, call.req.args)'
    BY <1>2, <2>2, <2>3 DEF Permits
  <2>5. TokenPermits(call.scope, call.req, j.agent)'
    BY <1>2, <2>2, <2>3 DEF TokenPermits
  <2> QED BY <1>2, <2>1, <2>4, <2>5
<1> QED BY <1>3, <1>4, <1>5, <1>6, <1>7 DEF AccessInv

(* The job of an agent that supports an option has its version.             *)
LEMMA JobIs ==
  ASSUME AccessInv, call.pc = "targets", NEW a \in Agent,
         SelectDispatchTarget(agents[a].protocols, call.options).ok
  PROVE  LET job == JobFor(a, SelectDispatchTarget(agents[a].protocols, call.options))
         IN  /\ job \in [agent : Agent \cup {Nil}, version : Version, resolved : Version]
             /\ job.agent = a
<1> DEFINE t == SelectDispatchTarget(agents[a].protocols, call.options)
<1>1. OptionFor(call.req.target, call.req.version, call.req.onAgent, t)
  BY GivenIs DEF AccessInv
<1>2. t.version \in Version /\ t.resolved \in Version
  BY <1>1 DEF OptionFor
<1> HIDE DEF t
<1>3. /\ JobFor(a, t) \in [agent : Agent \cup {Nil}, version : Version, resolved : Version]
      /\ JobFor(a, t).agent = a
  BY <1>2 DEF JobFor
<1> QED BY <1>3 DEF t

LEMMA StepFanout ==
  ASSUME AccessInv, Fanout
  PROVE  AccessInv'
<1> DEFINE T(a) == SelectDispatchTarget(agents[a].protocols, call.options)
           targets == {JobFor(a, T(a)) : a \in FanoutAgents}
           parent == JobFor(Nil, ParentDispatchTarget(targets))
           Job == [agent : Agent \cup {Nil}, version : Version, resolved : Version]
<1>1. call.pc = "targets" /\ call.req.agent = Nil /\ UNCHANGED <<configs, agents, edits, edited>>
  BY DEF Fanout
<1>2. CASE FanoutAgents = {}
  <2>1. At("refused")
    BY <1>2 DEF Fanout, Refuse, At
  <2> QED BY <1>1, <2>1, StepEnd
<1>3. CASE FanoutAgents # {}
  <2>1. call' = [call EXCEPT !.pc = "created", !.jobs = targets \cup {parent}]
    BY <1>3 DEF Fanout
  <2>2. ASSUME NEW a \in FanoutAgents
        PROVE  /\ a \in Agent /\ T(a).ok /\ JobFor(a, T(a)) \in Job /\ JobFor(a, T(a)).agent = a
               /\ agents[a].enabled /\ agents[a].online /\ call.req.tool \in agents[a].caps
               /\ ~edited => /\ Permits(Labels(a), call.req.tool, call.req.args)
                             /\ TokenPermits(call.scope, call.req, a)
    <3>1. /\ a \in Agent /\ T(a).ok /\ agents[a].enabled /\ agents[a].online
          /\ call.req.tool \in agents[a].caps /\ ScopeAllowsAgentRecord(call.scope, a)
          /\ Validate(PoliciesForLabels(configs, Labels(a)), [call.req EXCEPT !.agent = a], TRUE)
      BY <2>2 DEF FanoutAgents
    <3>2. JobFor(a, T(a)) \in Job /\ JobFor(a, T(a)).agent = a
      BY <1>1, <3>1, JobIs
    <3>3. ~edited => TokenPermits(call.scope, call.req, a)
      BY <1>1, <3>1, TokenAllows
    <3>4. Permits(Labels(a), call.req.tool, call.req.args)
      <4> DEFINE q == [call.req EXCEPT !.agent = a]
      <4>1. DOMAIN call.req = {"tool", "args", "agent", "target", "version", "onAgent"}
            /\ call.req.tool \in Tool /\ configs \in ConfigChoice /\ SettingsOK
        BY <1>1 DEF AccessInv, RequestOK, SettingsOK
      <4>2. q.tool = call.req.tool /\ q.args = call.req.args
        BY <4>1
      <4>3. PICK X : Labels(a) \in Seq(X)
        BY <3>1, <4>1, LabelsAre
      <4>4. Validate(PoliciesForLabels(configs, Labels(a)), q, TRUE)
        BY <3>1
      <4> HIDE DEF q
      <4> QED BY <4>1, <4>2, <4>3, <4>4, ValidIsPermitted
    <3> QED BY <3>1, <3>2, <3>3, <3>4
  <2>3. targets \subseteq Job /\ targets # {}
    BY <1>3, <2>2
  <2>4. parent \in Job /\ parent.agent = Nil
    <3> HIDE DEF targets
    <3> DEFINE common(f) == IF \A t, u \in targets : t[f] = u[f] THEN (CHOOSE t \in targets : TRUE)[f] ELSE 0
    <3>1. (CHOOSE t \in targets : TRUE) \in targets
      BY <2>3
    <3>2. common("version") \in Version /\ common("resolved") \in Version
      <4>1. 0 \in Version
        BY DEF Version
      <4>2. \A t \in Job : t["version"] \in Version /\ t["resolved"] \in Version
        OBVIOUS
      <4> QED BY <2>3, <3>1, <4>1, <4>2
    <3>3. ParentDispatchTarget(targets) = Found(common("version"), common("resolved"))
      BY DEF ParentDispatchTarget
    <3> HIDE DEF common
    <3> QED BY <3>2, <3>3 DEF JobFor, Found
  <2>5. targets \cup {parent} \subseteq Job
    BY <2>3, <2>4
  <2>6. ASSUME NEW j \in targets \cup {parent}, j.agent # Nil
        PROVE  /\ T(j.agent).ok /\ j = JobFor(j.agent, T(j.agent))
               /\ agents[j.agent].enabled /\ agents[j.agent].online /\ call.req.tool \in agents[j.agent].caps
               /\ ~edited => /\ Permits(Labels(j.agent), call.req.tool, call.req.args)
                             /\ TokenPermits(call.scope, call.req, j.agent)
    <3>1. j \in targets
      BY <2>4, <2>6
    <3>2. PICK a \in FanoutAgents : j = JobFor(a, T(a))
      BY <3>1
    <3>3. j.agent = a
      BY <2>2, <3>2
    <3> HIDE DEF targets, parent, T
    <3> QED BY <2>2, <3>2, <3>3
  <2> DEFINE jobs == targets \cup {parent}
  <2> HIDE DEF targets, parent, jobs
  <2>7. call' = [call EXCEPT !.pc = "created", !.jobs = jobs]
    BY <2>1 DEF jobs
  <2>8. jobs \subseteq Job
    BY <2>5 DEF jobs
  <2>9. \A j \in jobs : j.agent # Nil =>
          /\ T(j.agent).ok /\ j = JobFor(j.agent, T(j.agent))
          /\ agents[j.agent].enabled /\ agents[j.agent].online /\ call.req.tool \in agents[j.agent].caps
          /\ ~edited => /\ Permits(Labels(j.agent), call.req.tool, call.req.args)
                        /\ TokenPermits(call.scope, call.req, j.agent)
    BY <2>6 DEF jobs
  <2> QED BY <1>1, <2>7, <2>8, <2>9, StepCreate
<1> QED BY <1>2, <1>3

LEMMA StepPinned ==
  ASSUME AccessInv, Pinned
  PROVE  AccessInv'
<1> DEFINE a == call.req.agent
           t == SelectDispatchTarget(agents[a].protocols, call.options)
           allowed == call.req.tool \in DOMAIN PoliciesForLabels(configs, Labels(a))
           capable == allowed /\ call.req.tool \in agents[a].caps /\ t.ok
           gone == ~agents[a].enabled \/ (~agents[a].online /\ allowed)
<1>1. call.pc = "targets" /\ a # Nil /\ UNCHANGED <<configs, agents, edits, edited>>
  BY DEF Pinned
<1>2. /\ a \in Agent /\ call.req.tool \in Tool /\ configs \in ConfigChoice /\ SettingsOK
  BY <1>1 DEF AccessInv, RequestOK, SettingsOK
<1>3. CASE gone
  <2>1. At("refused")
    BY <1>3 DEF Pinned, Refuse, At
  <2> QED BY <1>1, <2>1, StepEnd
<1>4. CASE ~gone /\ ~capable
  <2>1. At("failed")
    BY <1>4 DEF Pinned, At
  <2> QED BY <1>1, <2>1, StepEnd
<1>5. CASE ~gone /\ capable
  <2> DEFINE jobs == {JobFor(a, t)}
  <2>1. call' = [call EXCEPT !.pc = "created", !.jobs = jobs]
    BY <1>5 DEF Pinned
  <2>2. t.ok /\ agents[a].enabled /\ agents[a].online /\ call.req.tool \in agents[a].caps
    BY <1>5
  <2>3. JobFor(a, t) \in [agent : Agent \cup {Nil}, version : Version, resolved : Version] /\ JobFor(a, t).agent = a
    BY <1>1, <1>2, <2>2, JobIs
  <2>4. ~edited => Permits(Labels(a), call.req.tool, call.req.args)
    <3>1. SUFFICES ASSUME ~edited PROVE Permits(Labels(a), call.req.tool, call.req.args)
      OBVIOUS
    <3>2. Validate(PoliciesForLabels(configs, LabelsOfRequest(call.req)), call.req, TRUE)
      BY <1>1, <3>1 DEF AccessInv, CheckedOK
    <3>3. LabelsOfRequest(call.req) = Labels(a)
      BY <1>1 DEF LabelsOfRequest
    <3>4. PICK X : Labels(a) \in Seq(X)
      BY <1>2, LabelsAre
    <3> HIDE DEF a
    <3> QED BY <1>2, <3>2, <3>3, <3>4, ValidIsPermitted
  <2>5. ~edited => TokenPermits(call.scope, call.req, a)
    <3>1. SUFFICES ASSUME ~edited PROVE TokenPermits(call.scope, call.req, a)
      OBVIOUS
    <3>2. AuthorizeJob(call.scope, call.req)
      BY <1>1, <3>1 DEF AccessInv, CheckedOK
    <3>3. call.scope.all \/ ScopeAllowsAgentRecord(call.scope, a)
      BY <1>1, <3>2 DEF AuthorizeJob
    <3> QED BY <1>1, <1>2, <3>1, <3>3, TokenAllows
  <2>6. \A j \in jobs : j = JobFor(a, t) /\ j.agent = a
    BY <2>3
  <2>7. jobs \subseteq [agent : Agent \cup {Nil}, version : Version, resolved : Version]
    BY <2>3
  <2> HIDE DEF a, jobs
  <2>8. \A j \in jobs : j.agent # Nil =>
          /\ SelectDispatchTarget(agents[j.agent].protocols, call.options).ok
          /\ j = JobFor(j.agent, SelectDispatchTarget(agents[j.agent].protocols, call.options))
          /\ agents[j.agent].enabled /\ agents[j.agent].online /\ call.req.tool \in agents[j.agent].caps
          /\ ~edited => /\ Permits(Labels(j.agent), call.req.tool, call.req.args)
                        /\ TokenPermits(call.scope, call.req, j.agent)
    BY <2>2, <2>4, <2>5, <2>6
  <2> QED BY <1>1, <2>1, <2>7, <2>8, StepCreate
<1> QED BY <1>3, <1>4, <1>5

LEMMA StepEdit ==
  ASSUME AccessInv, Edit
  PROVE  AccessInv'
<1>1. /\ call' = call /\ call.pc \notin {"refused", "failed", "created"} /\ edits < MaxEdits /\ edits' = edits + 1
      /\ edited' = (call.pc \in {"policies", "authorize", "options", "targets"} \/ edited)
  BY DEF Edit
<1>2. call.jobs = {} /\ edited \in BOOLEAN /\ edits \in 0..MaxEdits /\ MaxEdits \in Nat
  BY <1>1, AccessAssumption DEF AccessInv, CallOK
<1>3. SettingsOK'
  <2>1. CASE configs' \in ConfigChoice /\ UNCHANGED agents
    BY <2>1 DEF AccessInv, SettingsOK
  <2>2. CASE \E a \in Agent, r \in AgentChoice : agents' = [agents EXCEPT ![a] = r] /\ UNCHANGED configs
    BY <2>2 DEF AccessInv, SettingsOK
  <2> QED BY <2>1, <2>2 DEF Edit
<1>4. edited' \in BOOLEAN
  BY <1>1, <1>2, Zenon
<1>5. edits' \in 0..MaxEdits
  BY <1>1, <1>2
<1>6. CallOK'
  BY <1>1, <1>4, <1>5 DEF AccessInv, CallOK
<1>7. RequestOK' /\ OptionsOK'
  BY <1>1 DEF AccessInv, RequestOK, OptionsOK
<1>8. CheckedOK'
  BY <1>1 DEF CheckedOK
<1>9. JobsOK' /\ CreatedIsAllowed'
  BY <1>1, <1>2 DEF JobsOK, CreatedIsAllowed
<1> QED BY <1>3, <1>6, <1>7, <1>8, <1>9 DEF AccessInv

LEMMA StepNone ==
  ASSUME AccessInv, UNCHANGED vars
  PROVE  AccessInv'
<1>1. call' = call /\ configs' = configs /\ agents' = agents /\ edits' = edits /\ edited' = edited
  BY DEF vars
<1>2. SettingsOK' /\ CallOK' /\ RequestOK' /\ OptionsOK' /\ JobsOK'
  BY <1>1 DEF AccessInv, SettingsOK, CallOK, RequestOK, OptionsOK, JobsOK
<1>3. CheckedOK'
  <2>1. LabelsOfRequest(call.req)' = LabelsOfRequest(call.req)
    BY <1>1 DEF LabelsOfRequest, Labels
  <2>2. AuthorizeJob(call.scope, call.req)' <=> AuthorizeJob(call.scope, call.req)
    BY <1>1, <2>1 DEF AuthorizeJob, ScopeAllowsAgentRecord, ScopeAllowsAgent, Labels
  <2> QED BY <1>1, <2>1, <2>2 DEF AccessInv, CheckedOK
<1>4. CreatedIsAllowed'
  BY <1>1 DEF AccessInv, CreatedIsAllowed, Permits, TokenPermits, Labels
<1> QED BY <1>2, <1>3, <1>4 DEF AccessInv

LEMMA StepInv == AccessInv /\ [Next]_vars => AccessInv'
<1>1. SUFFICES ASSUME AccessInv, [Next]_vars PROVE AccessInv'
  OBVIOUS
<1>2. CASE \E s \in Scope, req \in Request : Arrive(s, req)
  BY <1>1, <1>2, StepArrive
<1>3. CASE CheckPolicies
  BY <1>1, <1>3, StepCheckPolicies
<1>4. CASE Authorize
  BY <1>1, <1>4, StepAuthorize
<1>5. CASE \E dns \in SUBSET Family : Options(dns)
  BY <1>1, <1>5, StepOptions
<1>6. CASE Fanout
  BY <1>1, <1>6, StepFanout
<1>7. CASE Pinned
  BY <1>1, <1>7, StepPinned
<1>8. CASE Edit
  BY <1>1, <1>8, StepEdit
<1>9. CASE UNCHANGED vars
  BY <1>1, <1>9, StepNone
<1> QED BY <1>1, <1>2, <1>3, <1>4, <1>5, <1>6, <1>7, <1>8, <1>9 DEF Next

(* The checks of createJob stay good from one to the next until a setting   *)
(* is edited, and the options stay those of the request.                    *)
THEOREM AccessInvariant == Spec => []AccessInv
BY InitInv, StepInv, PTL DEF Spec

-----------------------------------------------------------------------------
(* Theorems *)

(* Types: the handler's record, the options and the stored jobs are what    *)
(* the code declares (createJob).                                           *)
THEOREM AccessTypes == Spec => []TypeOK
<1>1. AccessInv => TypeOK
  BY Types DEF AccessInv
<1> QED BY <1>1, AccessInvariant, PTL

(* Labels only take away: for any labels in any order, any rules and any    *)
(* limits, valid or not, the merged policies allow what the base policies   *)
(* and every label allow, and a limit is the least positive one that is set *)
(* (toolPoliciesForLabels, WithIntersection, minRuntime).                   *)
THEOREM LabelsNarrow == Spec => []PoliciesAreConjunction
<1>1. AccessInv => PoliciesAreConjunction
  BY Conjunction DEF AccessInv
<1> QED BY <1>1, AccessInvariant, PTL

(* A job that is stored while no setting is edited is one that labels and   *)
(* token allow on its agent, for a pinned job and for every child of a      *)
(* fan-out (createJob).                                                     *)
THEOREM StoredIsAllowed == Spec => []CreatedIsAllowed
<1>1. AccessInv => CreatedIsAllowed
  BY DEF AccessInv
<1> QED BY <1>1, AccessInvariant, PTL

(* What the list of agents shows for a token is what a request with it may  *)
(* do (agentToolPermissions against Validate and authorizeJob).             *)
THEOREM ListIsHonest == Spec => []ShownIsAccepted
<1>1. AccessInv => ShownIsAccepted
  BY Shown DEF AccessInv
<1> QED BY <1>1, AccessInvariant, PTL

(* An agent runs what the server has chosen for it, in the version that was *)
(* asked for, whatever either look-up finds (selectDispatchTarget,          *)
(* resolveAgentTarget).                                                     *)
THEOREM AgentRunsChoice == Spec => []AgentAgrees
<1>1. AccessInv => AgentAgrees
  BY Agrees DEF AccessInv
<1> QED BY <1>1, AccessInvariant, PTL
=============================================================================
