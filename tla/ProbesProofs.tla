---------------------------- MODULE ProbesProofs ----------------------------
(***************************************************************************)
(* What holds of every run of a tool (Probes): it ends in time, it is never *)
(* cut short, it reports what it sent, and the path of an MTR ends at the   *)
(* target.                                                                  *)
(***************************************************************************)
EXTENDS Probes, FiniteSetTheorems, SequenceTheorems, TLAPS

(* A probe as it is recorded.                                               *)
Measured == [cycle : Nat \ {0}, seq : Nat \ {0}, answered : BOOLEAN, reached : BOOLEAN]

(* A run is divided into slots, one for each probe it may send: Slots have  *)
(* been used, out of Total, of Unit seconds each. The last slot of a ping   *)
(* has no interval (Slack).                                                 *)
Ping  == job.tool = "ping"
Unit  == IF Ping THEN R["step"] + 1 ELSE R["step"]
Slack == IF Ping THEN 1 ELSE 0
Slots == IF job.tool = "mtr" THEN (cycle - 1) * R["hops"] + seq ELSE seq
Total == IF Ping THEN R["count"] ELSE IF job.tool = "mtr" THEN R["count"] * R["hops"] ELSE R["hops"]
Top   == IF Ping THEN R["count"] ELSE limit
Hit(h) == {i \in DOMAIN sent : sent[i].seq = h}

Looping == {"check", "probing", "interval"}

(* Where the loops are.                                                     *)
Placed ==
  /\ pc \in {"resolve", "start"} =>
       cycle = 1 /\ seq = 0 /\ limit = R["hops"] /\ sent = <<>> /\ metrics = <<>>
  /\ pc \in Looping => job.tool \in {"ping"} \cup Trace
  /\ pc = "single" => job.tool \in {"http", "dns", "port"}
  /\ pc \in {"check", "interval"} => seq < Top
  /\ pc = "probing" => seq \in 1..Top
  /\ pc = "interval" => Ping
  /\ job.tool # "mtr" => cycle = 1 /\ limit = R["hops"]

(* How late it may be.                                                      *)
Budget == job.lookups * R["resolve"]
Clock ==
  /\ pc = "resolve" => /\ look \in 1..job.lookups /\ now <= till
                       /\ till <= (job.lookups - look + 1) * R["resolve"]
  /\ pc = "start" => now <= Budget
  /\ pc \in Looping \cup {"single"} => now <= end /\ end <= Budget + Timeout
  /\ pc = "probing" => now <= till /\ till <= end /\ till <= now + R["step"]
  /\ pc = "done" => now <= Budget + Timeout
  /\ cancel # Nil => /\ cancel <= now /\ now <= cancel + R["step"]
                     /\ pc = "probing" => till <= cancel + R["step"]

(* Before its time is up, a run that nobody cancels is ahead of its slots.  *)
Affordable == cancel = Nil /\ Needed(job.tool, R) <= R["max_tool"]
Paced ==
  Affordable =>
    /\ pc = "check" => now + Timeout <= end + Slots * Unit
    /\ pc = "probing" => till + Timeout + Slack <= end + Slots * Unit
    /\ pc = "interval" => now <= till /\ till + Timeout <= end + Slots * Unit
    /\ pc = "done" /\ job.tool \in {"ping"} \cup Trace => result.kind # "cut"

(* The last probe is the one under way.                                     *)
Numbered ==
  /\ sent \in Seq(Measured)
  /\ pc = "probing" => Len(sent) > 0 /\ sent[Len(sent)].cycle = cycle /\ sent[Len(sent)].seq = seq

(* What a ping has counted.                                                 *)
Metered ==
  Ping =>
    /\ Len(sent) = seq /\ \A i \in DOMAIN metrics : metrics[i] = i
    /\ pc \notin {"probing", "done"} => Len(metrics) = seq
    /\ pc = "probing" => Len(metrics) + 1 = seq
    /\ pc = "done" /\ result.kind \in {"complete", "cut"} =>
         result.transmitted = seq /\ Len(metrics) \in {seq, seq + 1}

(* How often an MTR has probed each hop.                                    *)
Counted ==
  job.tool = "mtr" =>
    /\ pc # "done" => \A h \in 1..limit :
         Cardinality(Hit(h)) = (cycle - 1) + (IF h <= seq THEN 1 ELSE 0)
    /\ pc = "done" /\ result.kind = "complete" =>
         \A h \in 1..result.hops : Cardinality(Hit(h)) = R["count"]
    /\ pc = "done" /\ result.kind \in {"cut", "error"} /\ cycle > 1 =>
         \A h \in 1..result.hops : Cardinality(Hit(h)) = IF h <= seq THEN cycle ELSE cycle - 1

(* The limit of an MTR is the least number of hops to the target it has     *)
(* seen in a whole trace, and the report ends there. A trace that reaches   *)
(* the target sends nothing more.                                           *)
Aimed ==
  job.tool = "mtr" =>
    /\ \A i \in DOMAIN sent : sent[i].reached => limit <= sent[i].seq
    /\ limit = R["hops"] \/ \E i \in DOMAIN sent : sent[i].reached /\ sent[i].seq = limit
    /\ pc = "probing" => ~sent[Len(sent)].reached
    /\ pc = "done" /\ (result.kind = "complete" \/ cycle > 1) => result.hops = limit

ProbesInv == TypeOK /\ Placed /\ Clock /\ Paced /\ Numbered /\ Metered /\ Counted /\ Aimed

-----------------------------------------------------------------------------
(* The limits of a job *)

LEMMA Limits ==
  ASSUME job \in Job
  PROVE  /\ R \in [RuntimeField -> Nat \ {0}]
         /\ job.tool \in Tool /\ job.mode \in {"icmp", "tcp"} /\ job.lookups \in 0..2
<1>1. job \in [tool : Tool, mode : {"icmp", "tcp"}, runtime : [RuntimeField -> Int], lookups : 0..2]
  BY ProbesAssumption
<1>2. job.runtime \in [RuntimeField -> Int] /\ job.tool \in Tool /\ job.mode \in {"icmp", "tcp"}
      /\ job.lookups \in 0..2
  BY <1>1
<1>3. \A f \in RuntimeField : (IF job.runtime[f] <= 0 THEN Default[f] ELSE job.runtime[f]) \in Nat \ {0}
  BY <1>2, PoliciesAssumption
<1>4. R \in [RuntimeField -> Nat \ {0}]
  BY <1>3 DEF R, NormalizeRuntime
<1> QED BY <1>2, <1>4

LEMMA Fields ==
  ASSUME job \in Job
  PROVE  /\ R["count"] \in Nat \ {0} /\ R["hops"] \in Nat \ {0} /\ R["step"] \in Nat \ {0}
         /\ R["resolve"] \in Nat \ {0} /\ R["max_tool"] \in Nat \ {0}
         /\ R["http"] \in Nat \ {0} /\ R["dns"] \in Nat \ {0}
BY Limits DEF RuntimeField

LEMMA TimesPositive ==
  ASSUME NEW a \in Nat \ {0}, NEW b \in Nat \ {0}
  PROVE  a * b \in Nat \ {0}
OBVIOUS

LEMMA TimesMonotone ==
  ASSUME NEW a \in Nat, NEW b \in Nat, NEW u \in Nat, a <= b
  PROVE  /\ a * u \in Nat /\ b * u \in Nat /\ (a + 1) * u \in Nat
         /\ a * u <= b * u /\ (a + 1) * u = a * u + u
<1>1. PICK k \in Nat : b = a + k
  <2>1. b - a \in Nat /\ b = a + (b - a)
    OBVIOUS
  <2> QED BY <2>1
<1>2. b * u = a * u + k * u
  BY <1>1
<1>3. k * u \in Nat /\ a * u \in Nat
  OBVIOUS
<1>4. (a + 1) * u = a * u + u
  OBVIOUS
<1> QED BY <1>2, <1>3, <1>4

(* The time-out of a run is what it needs, or the limit.                    *)
LEMMA TimeoutType ==
  ASSUME job \in Job
  PROVE  /\ Needed(job.tool, R) \in Nat \ {0} /\ Timeout \in Nat \ {0}
         /\ Needed(job.tool, R) <= R["max_tool"] => Timeout = Needed(job.tool, R)
<1>1. R["count"] * R["step"] \in Nat \ {0} /\ R["hops"] * R["step"] \in Nat \ {0}
      /\ R["count"] * R["hops"] \in Nat \ {0}
  BY Fields, TimesPositive
<1>2. R["count"] * R["hops"] * R["step"] \in Nat \ {0}
  BY <1>1, Fields, TimesPositive
<1>3. R["count"] * R["step"] + (R["count"] - 1) \in Nat \ {0}
  BY <1>1, Fields
<1>4. Needed(job.tool, R) \in Nat \ {0}
  BY <1>1, <1>2, <1>3, Fields DEF Needed
<1>5. Timeout = IF Needed(job.tool, R) > R["max_tool"] THEN R["max_tool"] ELSE Needed(job.tool, R)
  BY DEF Timeout, TimeoutForJob, R
<1> QED BY <1>4, <1>5, Fields

LEMMA Numbers ==
  ASSUME job \in Job
  PROVE  /\ Unit \in Nat \ {0} /\ Slack \in {0, 1} /\ Total \in Nat \ {0} /\ Budget \in Nat
         /\ Unit >= R["step"] + Slack
<1>1. R["count"] * R["hops"] \in Nat \ {0} /\ job.lookups * R["resolve"] \in Nat
  BY Fields, Limits, TimesPositive
<1> QED BY <1>1, Fields DEF Unit, Slack, Total, Budget

(* The slots of a run are what it needs.                                    *)
LEMMA SlotsNeeded ==
  ASSUME job \in Job, job.tool \in {"ping"} \cup Trace
  PROVE  Needed(job.tool, R) + Slack = Total * Unit
<1>1. CASE job.tool = "ping"
  <2> DEFINE c == R["count"]
             p == R["step"]
  <2>1. c \in Nat /\ p \in Nat
    BY Fields
  <2>2. Needed(job.tool, R) = c * p + (c - 1) /\ Slack = 1 /\ Total = c /\ Unit = p + 1
    BY <1>1 DEF Needed, Slack, Total, Unit, Ping
  <2> HIDE DEF c, p
  <2>3. c * (p + 1) = c * p + c /\ c * p \in Nat
    BY <2>1
  <2> QED BY <2>1, <2>2, <2>3
<1>2. CASE job.tool = "traceroute"
  <2>1. Needed(job.tool, R) = R["hops"] * R["step"] /\ Slack = 0 /\ Total = R["hops"] /\ Unit = R["step"]
    BY <1>2 DEF Needed, Slack, Total, Unit, Ping
  <2> QED BY <2>1, TimeoutType
<1>3. CASE job.tool = "mtr"
  <2>1. Needed(job.tool, R) = R["count"] * R["hops"] * R["step"] /\ Slack = 0
        /\ Total = R["count"] * R["hops"] /\ Unit = R["step"]
    BY <1>3 DEF Needed, Slack, Total, Unit, Ping
  <2> QED BY <2>1, TimeoutType
<1> QED BY <1>1, <1>2, <1>3 DEF Trace

LEMMA SameJob ==
  ASSUME UNCHANGED job
  PROVE  /\ R' = R /\ Timeout' = Timeout /\ Budget' = Budget /\ Unit' = Unit /\ Slack' = Slack
         /\ Total' = Total /\ Ping' = Ping
BY DEF R, Timeout, Budget, Unit, Slack, Total, Ping, R

-----------------------------------------------------------------------------
(* Slots *)

LEMMA SlotsType ==
  ASSUME TypeOK
  PROVE  Slots \in Nat /\ Slots * Unit \in Nat
<1>1. cycle - 1 \in Nat /\ seq \in Nat /\ R["hops"] \in Nat
  BY Fields DEF TypeOK
<1>2. (cycle - 1) * R["hops"] \in Nat
  BY <1>1
<1>3. Slots \in Nat
  BY <1>1, <1>2 DEF Slots
<1> QED BY <1>3, Numbers DEF TypeOK

(* While the loop goes on, a slot is left.                                  *)
LEMMA SlotLeft ==
  ASSUME TypeOK, Placed, pc \in {"check", "interval"}
  PROVE  Slots + 1 <= Total
<1>1. job \in Job /\ seq < Top /\ job.tool \in {"ping", "traceroute", "mtr"} /\ seq \in Nat
  BY Fields DEF TypeOK, Placed, Looping, Trace
<1>2. CASE job.tool # "mtr"
  BY <1>1, <1>2, Fields DEF Slots, Total, Top, Ping, Placed
<1>3. CASE job.tool = "mtr"
  <2>1. PICK c \in Nat : c = cycle - 1
    BY Fields DEF TypeOK
  <2>2. c + 1 <= R["count"] /\ seq < limit /\ limit \in 1..R["hops"]
    BY <1>1, <1>3, <2>1, Fields DEF TypeOK, Top, Ping
  <2>3. c * R["hops"] \in Nat /\ (c + 1) * R["hops"] <= R["count"] * R["hops"]
        /\ (c + 1) * R["hops"] = c * R["hops"] + R["hops"] /\ R["count"] * R["hops"] \in Nat
    <3>1. c + 1 \in Nat /\ R["count"] \in Nat /\ R["hops"] \in Nat
      BY <1>1, <2>1, Fields
    <3>2. (c + 1) * R["hops"] <= R["count"] * R["hops"] /\ R["count"] * R["hops"] \in Nat
      BY <2>2, <3>1, TimesMonotone
    <3>3. c * R["hops"] \in Nat /\ (c + 1) * R["hops"] = c * R["hops"] + R["hops"]
      BY <2>1, <3>1, TimesMonotone
    <3> QED BY <3>2, <3>3
  <2>4. Slots = c * R["hops"] + seq /\ Total = R["count"] * R["hops"]
    BY <1>3, <2>1 DEF Slots, Total, Ping
  <2> QED BY <1>1, <2>2, <2>3, <2>4, Fields
<1> QED BY <1>2, <1>3

(* A run ahead of its slots has time left.                                  *)
LEMMA TimeLeft ==
  ASSUME TypeOK, Placed, pc \in {"check", "interval"}, Affordable,
         NEW t \in Nat, t + Timeout <= end + Slots * Unit
  PROVE  t < end
<1>1. job \in Job /\ end \in Nat /\ job.tool \in {"ping"} \cup Trace
  BY DEF TypeOK, Placed, Looping
<1>2. Timeout + Slack = Total * Unit /\ Timeout \in Nat
  BY <1>1, TimeoutType, SlotsNeeded DEF Affordable
<1>3. Slots \in Nat /\ Total \in Nat /\ Unit \in Nat /\ Slots + 1 <= Total
  BY <1>1, SlotsType, SlotLeft, Numbers
<1>4. (Slots + 1) * Unit = Slots * Unit + Unit /\ Slots * Unit \in Nat
  BY <1>3, TimesMonotone
<1>5. (Slots + 1) * Unit <= Total * Unit /\ Total * Unit \in Nat
  <2>1. Slots + 1 \in Nat
    BY <1>3
  <2> QED BY <1>3, <2>1, TimesMonotone
<1>6. Slack \in {0, 1} /\ Unit >= R["step"] + Slack /\ R["step"] \in Nat \ {0}
  BY <1>1, Numbers, Fields
<1> QED BY <1>1, <1>2, <1>3, <1>4, <1>5, <1>6

-----------------------------------------------------------------------------
(* The initial states *)

LEMMA InitInv ==
  ASSUME Init
  PROVE  ProbesInv
<1>1. job \in Job /\ job.lookups \in 0..2 /\ look = job.lookups /\ now = 0 /\ cancel = Nil /\ end = 0
      /\ cycle = 1 /\ seq = 0 /\ limit = R["hops"] /\ sent = <<>> /\ metrics = <<>> /\ result = Nil
      /\ pc = (IF look = 0 THEN "start" ELSE "resolve")
      /\ till = (IF look = 0 THEN 0 ELSE R["resolve"])
  BY Limits DEF Init
<1>2. TypeOK
  <2>1. 1 \in 1..R["count"] /\ R["hops"] \in 1..R["hops"] /\ 0 \in 0..R["count"] /\ 0 \in 0..R["hops"]
        /\ till \in Nat
    BY <1>1, Fields
  <2>2. metrics \in Seq(Nat \ {0}) /\ DOMAIN sent = {}
    BY <1>1
  <2>3. pc \in {"resolve", "start"} /\ seq \in 0..(IF job.tool = "ping" THEN R["count"] ELSE R["hops"])
    BY <1>1, <2>1
  <2> QED BY <1>1, <2>1, <2>2, <2>3 DEF TypeOK
<1>3. Placed
  BY <1>1 DEF Placed, Looping
<1>4. Clock
  <2>1. CASE look = 0
    BY <1>1, <2>1, Numbers DEF Clock, Looping
  <2>2. CASE look # 0
    <3>1. look \in 1..job.lookups /\ pc = "resolve" /\ till = R["resolve"]
          /\ (job.lookups - look + 1) = 1
      BY <1>1, <2>2
    <3> QED BY <1>1, <3>1, Fields DEF Clock, Looping
  <2> QED BY <2>1, <2>2
<1>5. Paced
  BY <1>1 DEF Paced
<1>6. Numbered
  <2>1. sent \in Seq(Measured) /\ DOMAIN sent = {}
    BY <1>1
  <2> QED BY <1>1, <2>1 DEF Numbered
<1>7. Metered
  <2>1. Len(sent) = 0 /\ Len(metrics) = 0 /\ DOMAIN metrics = {}
    BY <1>1
  <2> QED BY <1>1, <2>1 DEF Metered
<1>8. Counted
  <2>1. SUFFICES ASSUME NEW h \in 1..limit
                 PROVE  Cardinality(Hit(h)) = (cycle - 1) + (IF h <= seq THEN 1 ELSE 0)
    BY <1>1 DEF Counted
  <2>2. Hit(h) = {}
    BY <1>1 DEF Hit
  <2>3. ~(h <= seq) /\ cycle - 1 = 0
    BY <1>1, Fields
  <2> QED BY <2>2, <2>3, FS_EmptySet
<1>9. Aimed
  <2>1. DOMAIN sent = {} /\ pc \notin {"probing", "done"}
    BY <1>1
  <2> QED BY <1>1, <2>1 DEF Aimed
<1> QED BY <1>2, <1>3, <1>4, <1>5, <1>6, <1>7, <1>8, <1>9 DEF ProbesInv

-----------------------------------------------------------------------------
(* Steps that send nothing *)

LEMMA SameLoop ==
  ASSUME UNCHANGED <<job, loop, sent>>
  PROVE  Slots' = Slots /\ Top' = Top /\ \A h : Hit(h)' = Hit(h)
BY SameJob DEF Slots, Top, Hit, loop, R, Ping

LEMMA QuietStep ==
  ASSUME ProbesInv, UNCHANGED <<job, loop, out>>,
         pc' = pc \/ (pc \notin {"probing", "done"} /\ pc' \notin {"probing", "done"})
  PROVE  Numbered' /\ Metered' /\ Counted' /\ Aimed'
<1>1. UNCHANGED <<job, cycle, seq, limit, sent, metrics, result>>
  BY DEF loop, out
<1>2. Numbered'
  BY <1>1 DEF ProbesInv, Numbered
<1>3. Metered'
  BY <1>1, SameJob DEF ProbesInv, Metered, Ping
<1>4. Counted'
  <2>1. \A h : Cardinality(Hit(h))' = Cardinality(Hit(h))
    BY <1>1 DEF Hit
  <2>2. R' = R /\ job' = job
    BY <1>1, SameJob
  <2> QED BY <1>1, <2>1, <2>2 DEF ProbesInv, Counted
<1>5. Aimed'
  BY <1>1, SameJob DEF ProbesInv, Aimed
<1> QED BY <1>2, <1>3, <1>4, <1>5

(* No run is ever late.                                                     *)
LEMMA NeverLate ==
  ASSUME TypeOK, Clock
  PROVE  now <= Budget + Timeout
<1>1. job \in Job /\ now \in Nat /\ till \in Nat /\ end \in Nat /\ Budget \in Nat /\ Timeout \in Nat
  BY Numbers, TimeoutType DEF TypeOK
<1>2. CASE pc = "resolve"
  <2>1. look \in 1..job.lookups /\ now <= till /\ till <= (job.lookups - look + 1) * R["resolve"]
        /\ job.lookups \in 0..2 /\ R["resolve"] \in Nat
    BY <1>1, <1>2, Limits, Fields DEF Clock
  <2>2. job.lookups - look + 1 \in Nat /\ job.lookups \in Nat /\ job.lookups - look + 1 <= job.lookups
    BY <2>1
  <2>3. (job.lookups - look + 1) * R["resolve"] <= Budget /\ (job.lookups - look + 1) * R["resolve"] \in Nat
    BY <2>1, <2>2, TimesMonotone DEF Budget
  <2> QED BY <1>1, <2>1, <2>3
<1>3. CASE pc = "start"
  BY <1>1, <1>3 DEF Clock
<1>4. CASE pc \in Looping \cup {"single"}
  BY <1>1, <1>4 DEF Clock
<1>5. CASE pc = "done"
  BY <1>5 DEF Clock
<1> QED BY <1>2, <1>3, <1>4, <1>5 DEF TypeOK, Looping

(* A run ends with a result that claims nothing more than was sent.         *)
LEMMA EndStep ==
  ASSUME ProbesInv, UNCHANGED <<job, now, end, cancel, loop, sent>>, pc # "done", pc' = "done",
         till' \in Nat, look' \in 0..2, metrics' \in Seq(Nat \ {0}),
         result'.kind \in {"complete", "cut", "error", "rejected"},
         (Affordable /\ job.tool \in {"ping"} \cup Trace) => result'.kind # "cut",
         job.tool = "mtr" => result'.kind # "complete",
         (job.tool = "mtr" /\ cycle > 1) => result'.hops = limit,
         Metered'
  PROVE  ProbesInv'
<1>1. UNCHANGED <<job, now, end, cancel, cycle, seq, limit, sent>> /\ R' = R
  BY SameJob DEF loop
<1>2. TypeOK'
  BY <1>1 DEF ProbesInv, TypeOK
<1>3. Placed'
  BY <1>1 DEF ProbesInv, Placed, Looping
<1>4. Clock'
  <2>1. now <= Budget + Timeout /\ Budget' = Budget /\ Timeout' = Timeout
    BY <1>1, NeverLate, SameJob DEF ProbesInv
  <2> QED BY <1>1, <2>1 DEF ProbesInv, Clock, Looping
<1>5. Paced'
  <2>1. Affordable' = Affordable
    BY <1>1 DEF Affordable
  <2> QED BY <1>1, <2>1 DEF Paced
<1>6. Numbered'
  BY <1>1 DEF ProbesInv, Numbered
<1>7. Counted'
  <2>1. SUFFICES ASSUME job.tool = "mtr", cycle > 1, NEW h \in 1..limit
                 PROVE  Cardinality(Hit(h)) = IF h <= seq THEN cycle ELSE cycle - 1
    <3>1. Hit(0)' = Hit(0) /\ \A h : Cardinality(Hit(h))' = Cardinality(Hit(h))
      BY <1>1 DEF Hit
    <3> QED BY <1>1, <2>1, <3>1 DEF Counted
  <2>2. Cardinality(Hit(h)) = (cycle - 1) + (IF h <= seq THEN 1 ELSE 0)
    BY <2>1 DEF ProbesInv, Counted
  <2>3. cycle \in Nat
    BY Fields DEF ProbesInv, TypeOK
  <2> QED BY <2>2, <2>3
<1>8. Aimed'
  BY <1>1 DEF ProbesInv, Aimed
<1> QED BY <1>2, <1>3, <1>4, <1>5, <1>6, <1>7, <1>8 DEF ProbesInv

(* A ping that ends with an error, or without having begun, counts nothing. *)
LEMMA EndMetered ==
  ASSUME ProbesInv, UNCHANGED <<job, loop, sent, metrics>>, pc # "done",
         Ping => result'.kind \notin {"complete", "cut"}, pc' = "done"
  PROVE  Metered' /\ metrics' \in Seq(Nat \ {0})
<1>1. UNCHANGED <<seq, job, sent, metrics>> /\ Ping' = Ping
  BY SameJob DEF loop
<1>2. Metered'
  BY <1>1 DEF ProbesInv, Metered
<1> QED BY <1>1, <1>2 DEF ProbesInv, TypeOK

LEMMA StepTick ==
  ASSUME ProbesInv, Tick
  PROVE  ProbesInv'
<1>1. /\ pc \in {"resolve", "probing", "interval", "single"} /\ now < till
      /\ now' = now + 1 /\ UNCHANGED <<job, pc, till, end, cancel, look, loop, out>>
      /\ (pc # "probing" \/ job.mode = "tcp") => (cancel = Nil /\ (pc = "resolve" \/ ~(now >= end)))
  BY DEF Tick, Waiting, Heeds, CtxDone
<1>2. UNCHANGED <<job, cycle, seq, limit, sent, metrics, result>>
  BY <1>1 DEF loop, out
<1>3. now \in Nat /\ till \in Nat /\ end \in Nat /\ cancel \in Nat \cup {Nil}
  BY DEF ProbesInv, TypeOK
<1>4. R' = R /\ Budget' = Budget /\ Timeout' = Timeout /\ Slack' = Slack /\ Unit' = Unit /\ Slots' = Slots
      /\ Ping' = Ping /\ Top' = Top
  BY <1>1, <1>2, SameJob, SameLoop
<1>5. TypeOK'
  <2>1. now' \in Nat
    BY <1>1, <1>3
  <2> QED BY <1>1, <1>2, <1>4, <2>1 DEF ProbesInv, TypeOK
<1>6. Placed'
  BY <1>1, <1>2, <1>4 DEF ProbesInv, Placed
<1>7. Clock'
  <2>1. R["step"] \in Nat /\ job \in Job
    BY Fields DEF ProbesInv, TypeOK
  <2>2. pc = "resolve" => now' <= till
    BY <1>1, <1>3
  <2>3. pc \in Looping \cup {"single"} => now' <= end
    <3>1. CASE pc = "probing"
      BY <1>1, <1>3, <3>1 DEF ProbesInv, Clock
    <3>2. CASE pc # "probing"
      BY <1>1, <1>3, <3>2 DEF Looping
    <3> QED BY <3>1, <3>2
  <2>4. pc = "probing" => now' <= till /\ till <= now' + R["step"] /\ till <= end
    BY <1>1, <1>3, <2>1 DEF ProbesInv, Clock
  <2>5. cancel # Nil => cancel <= now' /\ now' <= cancel + R["step"]
    BY <1>1, <1>3, <2>1 DEF ProbesInv, Clock
  <2> QED BY <1>1, <1>2, <1>4, <2>2, <2>3, <2>4, <2>5 DEF ProbesInv, Clock
<1>8. Paced'
  <2>1. Affordable' = Affordable
    BY <1>1, <1>4 DEF Affordable
  <2>2. pc = "interval" => now' <= till
    BY <1>1, <1>3
  <2> QED BY <1>1, <1>2, <1>4, <2>1, <2>2 DEF ProbesInv, Paced
<1>9. Numbered' /\ Metered' /\ Counted' /\ Aimed'
  BY <1>1, QuietStep
<1> QED BY <1>5, <1>6, <1>7, <1>8, <1>9 DEF ProbesInv

LEMMA StepCancel ==
  ASSUME ProbesInv, Cancel
  PROVE  ProbesInv'
<1>1. cancel = Nil /\ pc # "done" /\ cancel' = now
      /\ UNCHANGED <<job, now, pc, till, end, look, loop, out>>
  BY DEF Cancel
<1>2. UNCHANGED <<job, cycle, seq, limit, sent, metrics, result>>
  BY <1>1 DEF loop, out
<1>3. now \in Nat /\ till \in Nat /\ R["step"] \in Nat
  BY Fields DEF ProbesInv, TypeOK
<1>4. R' = R /\ Budget' = Budget /\ Timeout' = Timeout /\ Ping' = Ping /\ Top' = Top
      /\ Slots' = Slots /\ Slack' = Slack /\ Unit' = Unit
  BY <1>1, <1>2, SameJob, SameLoop
<1>5. TypeOK'
  BY <1>1, <1>2, <1>3, <1>4 DEF ProbesInv, TypeOK
<1>6. Placed'
  BY <1>1, <1>2, <1>4 DEF ProbesInv, Placed
<1>7. Clock'
  <2>1. now <= now /\ now <= now + R["step"]
    BY <1>3
  <2> QED BY <1>1, <1>2, <1>4, <2>1 DEF ProbesInv, Clock
<1>8. Paced'
  <2>1. Affordable' => Affordable
    BY <1>1, <1>4 DEF Affordable
  <2> QED BY <1>1, <1>2, <1>4, <2>1 DEF ProbesInv, Paced
<1>9. Numbered' /\ Metered' /\ Counted' /\ Aimed'
  BY <1>1, QuietStep
<1> QED BY <1>5, <1>6, <1>7, <1>8, <1>9 DEF ProbesInv

(* The agent looks up the target, one version after the other.              *)
LEMMA StepLookupWorks ==
  ASSUME ProbesInv, LookupWorks
  PROVE  ProbesInv'
<1>1. pc = "resolve" /\ cancel = Nil /\ pc' = "start"
      /\ UNCHANGED <<job, now, till, end, cancel, look, loop, out>>
  BY DEF LookupWorks
<1>2. UNCHANGED <<job, cycle, seq, limit, sent, metrics, result>>
  BY <1>1 DEF loop, out
<1>3. R' = R /\ Budget' = Budget /\ Timeout' = Timeout
  BY <1>1, SameJob
<1>4. TypeOK'
  BY <1>1, <1>2, <1>3 DEF ProbesInv, TypeOK
<1>5. Placed'
  BY <1>1, <1>2, <1>3 DEF ProbesInv, Placed, Looping
<1>6. Clock'
  <2>1. now <= Budget
    <3>1. /\ look \in 1..job.lookups /\ now <= till /\ till <= (job.lookups - look + 1) * R["resolve"]
          /\ job.lookups \in 0..2 /\ R["resolve"] \in Nat /\ now \in Nat /\ till \in Nat
      BY <1>1, Limits, Fields DEF ProbesInv, TypeOK, Clock
    <3>2. job.lookups - look + 1 \in Nat /\ job.lookups \in Nat /\ job.lookups - look + 1 <= job.lookups
      BY <3>1
    <3>3. /\ (job.lookups - look + 1) * R["resolve"] <= Budget
          /\ (job.lookups - look + 1) * R["resolve"] \in Nat /\ Budget \in Nat
      BY <3>1, <3>2, TimesMonotone DEF Budget
    <3> QED BY <3>1, <3>3
  <2> QED BY <1>1, <1>3, <2>1 DEF Clock, Looping
<1>7. Paced'
  BY <1>1 DEF Paced
<1>8. Numbered' /\ Metered' /\ Counted' /\ Aimed'
  BY <1>1, QuietStep
<1> QED BY <1>4, <1>5, <1>6, <1>7, <1>8 DEF ProbesInv

LEMMA StepLookupFails ==
  ASSUME ProbesInv, LookupFails
  PROVE  ProbesInv'
<1>1. pc = "resolve" /\ look' = look - 1 /\ UNCHANGED <<job, now, end, cancel, loop>>
  BY DEF LookupFails
<1>2. /\ now \in Nat /\ till \in Nat /\ look \in 1..job.lookups /\ job.lookups \in 0..2
      /\ R["resolve"] \in Nat /\ now <= till /\ till <= (job.lookups - look + 1) * R["resolve"]
  BY <1>1, Limits, Fields DEF ProbesInv, TypeOK, Clock
<1>3. look' \in 0..2
  BY <1>1, <1>2
<1>4. CASE look > 1 /\ till' = now + R["resolve"] /\ UNCHANGED <<pc, out>>
  <2>1. UNCHANGED <<job, now, end, cancel, pc, cycle, seq, limit, sent, metrics, result>>
    BY <1>1, <1>4 DEF loop, out
  <2>2. R' = R /\ Budget' = Budget /\ Timeout' = Timeout
    BY <1>1, SameJob
  <2>3. till' \in Nat
    BY <1>2, <1>4
  <2>4. TypeOK'
    BY <1>3, <2>1, <2>2, <2>3 DEF ProbesInv, TypeOK
  <2>5. Placed'
    BY <1>1, <2>1, <2>2 DEF ProbesInv, Placed, Looping
  <2>6. Clock'
    <3>1. PICK n \in Nat : n = job.lookups - look + 1
      BY <1>2
    <3>2. look' \in 1..job.lookups /\ job.lookups - look' + 1 = n + 1
      BY <1>1, <1>2, <1>4, <3>1
    <3>3. (n + 1) * R["resolve"] = n * R["resolve"] + R["resolve"] /\ n * R["resolve"] \in Nat
      BY <1>2, <3>1, TimesMonotone
    <3>4. now <= till' /\ till' <= (n + 1) * R["resolve"]
      BY <1>2, <1>4, <3>1, <3>3
    <3>5. cancel # Nil => cancel <= now /\ now <= cancel + R["step"]
      BY DEF ProbesInv, Clock
    <3> QED BY <1>1, <2>1, <2>2, <3>2, <3>4, <3>5 DEF Clock, Looping
  <2>7. Paced'
    BY <1>1, <2>1 DEF Paced
  <2>8. Numbered' /\ Metered' /\ Counted' /\ Aimed'
    BY <1>1, <1>4, QuietStep
  <2> QED BY <2>4, <2>5, <2>6, <2>7, <2>8 DEF ProbesInv
<1>5. CASE look = 1 /\ End([kind |-> "rejected"]) /\ UNCHANGED <<till, sent, metrics>>
  <2>1. pc' = "done" /\ result'.kind = "rejected" /\ UNCHANGED <<job, loop, sent, metrics>> /\ till' \in Nat
    BY <1>1, <1>2, <1>5 DEF End
  <2>2. Metered' /\ metrics' \in Seq(Nat \ {0})
    BY <1>1, <2>1, EndMetered
  <2>3. ~(cycle > 1)
    BY <1>1 DEF ProbesInv, Placed
  <2> QED BY <1>1, <1>3, <2>1, <2>2, <2>3, EndStep
<1> QED BY <1>4, <1>5 DEF LookupFails

(* The deadline of the run is set.                                          *)
LEMMA StepStart ==
  ASSUME ProbesInv, Start
  PROVE  ProbesInv'
<1>1. pc = "start" /\ end' = now + Timeout /\ UNCHANGED <<job, now, cancel, look, loop, out>>
  BY DEF Start
<1>2. UNCHANGED <<job, cycle, seq, limit, sent, metrics, result>>
  BY <1>1 DEF loop, out
<1>3. R' = R /\ Budget' = Budget /\ Timeout' = Timeout /\ Unit' = Unit /\ Slots' = Slots /\ Top' = Top
      /\ Ping' = Ping
  BY <1>1, <1>2, SameJob, SameLoop
<1>4. job \in Job /\ now \in Nat /\ Timeout \in Nat \ {0} /\ Budget \in Nat /\ end' \in Nat /\ till \in Nat
      /\ now <= Budget /\ job.tool \in Tool
  BY <1>1, TimeoutType, Numbers, Limits DEF ProbesInv, TypeOK, Clock
<1>5. /\ pc' = (IF job.tool \in {"http", "dns", "port"} THEN "single" ELSE "check")
      /\ till' \in Nat
  BY <1>1, <1>4 DEF Start
<1>6. TypeOK'
  BY <1>1, <1>2, <1>3, <1>4, <1>5 DEF ProbesInv, TypeOK
<1>7. Placed'
  <2>1. cycle = 1 /\ seq = 0 /\ limit = R["hops"]
    BY <1>1 DEF ProbesInv, Placed
  <2>2. 0 < Top
    BY <1>4, <2>1, Fields DEF Top
  <2>3. pc' = "check" => job.tool \in {"ping"} \cup Trace
    BY <1>4, <1>5 DEF Tool, Trace
  <2> QED BY <1>2, <1>3, <1>5, <2>1, <2>2, <2>3 DEF Placed, Looping
<1>8. Clock'
  <2>1. now <= end' /\ end' <= Budget + Timeout
    BY <1>1, <1>4
  <2>2. cancel # Nil => cancel <= now /\ now <= cancel + R["step"]
    BY DEF ProbesInv, Clock
  <2> QED BY <1>1, <1>3, <1>5, <2>1, <2>2 DEF Clock, Looping
<1>9. Paced'
  <2>1. Slots * Unit \in Nat
    BY SlotsType DEF ProbesInv
  <2>2. now + Timeout <= end' + Slots * Unit
    BY <1>1, <1>4, <2>1
  <2> QED BY <1>1, <1>3, <1>5, <2>2 DEF Paced
<1>10. Numbered' /\ Metered' /\ Counted' /\ Aimed'
  BY <1>1, <1>5, QuietStep
<1> QED BY <1>6, <1>7, <1>8, <1>9, <1>10 DEF ProbesInv

LEMMA StepListenFails ==
  ASSUME ProbesInv, ListenFails
  PROVE  ProbesInv'
<1>1. /\ pc = "check" /\ pc' = "done" /\ result'.kind = "error"
      /\ (cycle > 1) => (result'.hops = limit)
      /\ UNCHANGED <<job, now, till, end, cancel, look, loop, sent, metrics>>
  <2>1. cycle \in Nat
    BY Fields DEF ProbesInv, TypeOK
  <2> QED BY <2>1 DEF ListenFails, End
<1>2. Metered' /\ metrics' \in Seq(Nat \ {0})
  BY <1>1, EndMetered
<1>3. till' \in Nat /\ look' \in 0..2
  BY <1>1 DEF ProbesInv, TypeOK
<1> QED BY <1>1, <1>2, <1>3, EndStep

LEMMA StepSingle ==
  ASSUME ProbesInv, Single
  PROVE  ProbesInv'
<1>1. /\ pc = "single" /\ pc' = "done" /\ result'.kind \in {"cut", "complete"}
      /\ UNCHANGED <<job, now, till, end, cancel, look, loop, sent, metrics>>
  BY DEF Single, End
<1>2. job.tool \notin {"ping"} \cup Trace
  BY <1>1 DEF ProbesInv, Placed, Trace
<1>3. Metered' /\ metrics' \in Seq(Nat \ {0})
  BY <1>1, <1>2, EndMetered DEF Ping
<1>4. till' \in Nat /\ look' \in 0..2
  BY <1>1 DEF ProbesInv, TypeOK
<1>5. job.tool # "mtr"
  BY <1>2 DEF Trace
<1> QED BY <1>1, <1>2, <1>3, <1>4, <1>5, EndStep

-----------------------------------------------------------------------------
(* The loops *)

(* At the top of its loop, a run that nobody cancels has time left.         *)
LEMMA NotDone ==
  ASSUME ProbesInv, pc \in {"check", "interval"}, Affordable
  PROVE  ~CtxDone
<1>1. now \in Nat /\ end \in Nat /\ till \in Nat /\ cancel = Nil
  BY DEF ProbesInv, TypeOK, Affordable
<1>2. now < end
  <2>1. CASE pc = "check"
    BY <1>1, <2>1, TimeLeft DEF ProbesInv, Paced
  <2>2. CASE pc = "interval"
    <3>1. till < end /\ now <= till
      BY <1>1, <2>2, TimeLeft DEF ProbesInv, Paced
    <3> QED BY <1>1, <3>1
  <2> QED BY <2>1, <2>2
<1> QED BY <1>1, <1>2 DEF CtxDone

LEMMA StepPingCut ==
  ASSUME ProbesInv, PingCut
  PROVE  ProbesInv'
<1>1. /\ Ping /\ pc \in {"check", "interval"} /\ CtxDone /\ pc' = "done" /\ result' = Pinged("cut", seq)
      /\ metrics' = metrics \/ metrics' = Append(metrics, seq + 1)
      /\ UNCHANGED <<job, now, till, end, cancel, look, loop, sent>>
  BY DEF PingCut, Ping, End
<1>2. ~Affordable
  BY <1>1, NotDone
<1>3. result'.kind = "cut" /\ result'.transmitted = seq
  BY <1>1 DEF Pinged
<1>4. /\ metrics \in Seq(Nat \ {0}) /\ seq \in Nat /\ Len(metrics) = seq /\ Len(sent) = seq
      /\ \A i \in DOMAIN metrics : metrics[i] = i
  BY <1>1, Fields DEF ProbesInv, TypeOK, Metered
<1>5. /\ metrics' \in Seq(Nat \ {0}) /\ Len(metrics') \in {seq, seq + 1}
      /\ \A i \in DOMAIN metrics' : metrics'[i] = i
  <2>1. CASE metrics' = metrics
    BY <1>4, <2>1
  <2>2. CASE metrics' = Append(metrics, seq + 1)
    BY <1>4, <2>2
  <2> QED BY <1>1, <2>1, <2>2
<1>6. Metered'
  <2>1. UNCHANGED <<seq, sent>> /\ Ping' = Ping
    BY <1>1, SameJob DEF loop
  <2> QED BY <1>1, <1>3, <1>4, <1>5, <2>1 DEF Metered
<1>7. till' \in Nat /\ look' \in 0..2 /\ job.tool # "mtr"
  BY <1>1 DEF ProbesInv, TypeOK, Ping
<1> QED BY <1>1, <1>2, <1>3, <1>5, <1>6, <1>7, EndStep

LEMMA StepTraceCut ==
  ASSUME ProbesInv, TraceCut
  PROVE  ProbesInv'
<1>1. /\ job.tool \in Trace /\ pc = "check" /\ CtxDone /\ pc' = "done" /\ result'.kind = "cut"
      /\ (job.tool = "mtr" /\ cycle > 1) => result'.hops = limit
      /\ UNCHANGED <<job, now, till, end, cancel, look, loop, sent, metrics>>
  BY DEF TraceCut, End, Cut, loop
<1>2. ~Affordable
  BY <1>1, NotDone
<1>3. Metered' /\ metrics' \in Seq(Nat \ {0})
  BY <1>1, EndMetered DEF Ping, Trace
<1>4. till' \in Nat /\ look' \in 0..2
  BY <1>1 DEF ProbesInv, TypeOK
<1> QED BY <1>1, <1>2, <1>3, <1>4, EndStep

LEMMA StepInterval ==
  ASSUME ProbesInv, Interval
  PROVE  ProbesInv'
<1>1. pc = "interval" /\ now >= till /\ pc' = "check"
      /\ UNCHANGED <<job, now, till, end, cancel, look, loop, out>>
  BY DEF Interval
<1>2. UNCHANGED <<job, cycle, seq, limit, sent, metrics, result>>
  BY <1>1 DEF loop, out
<1>3. R' = R /\ Budget' = Budget /\ Timeout' = Timeout /\ Unit' = Unit /\ Slots' = Slots /\ Top' = Top
      /\ Ping' = Ping
  BY <1>1, <1>2, SameJob, SameLoop
<1>4. TypeOK'
  BY <1>1, <1>2, <1>3 DEF ProbesInv, TypeOK
<1>5. Placed'
  BY <1>1, <1>2, <1>3 DEF ProbesInv, Placed, Looping
<1>6. Clock'
  BY <1>1, <1>3 DEF ProbesInv, Clock, Looping
<1>7. Paced'
  <2>1. Affordable => now + Timeout <= end + Slots * Unit
    <3>1. now \in Nat /\ till \in Nat
      BY DEF ProbesInv, TypeOK
    <3>2. Affordable => now = till /\ till + Timeout <= end + Slots * Unit
      BY <1>1, <3>1 DEF ProbesInv, Paced
    <3> QED BY <3>2
  <2>2. Affordable' = Affordable
    BY <1>1, <1>3 DEF Affordable
  <2> QED BY <1>1, <1>3, <2>1, <2>2 DEF Paced
<1>8. Numbered' /\ Metered' /\ Counted' /\ Aimed'
  BY <1>1, QuietStep
<1> QED BY <1>4, <1>5, <1>6, <1>7, <1>8 DEF ProbesInv

LEMMA OneSlot ==
  ASSUME NEW t \in Nat, NEW n \in Nat, NEW d \in Nat, NEW k \in Nat, NEW e \in Nat, NEW a \in Nat,
         NEW u \in Nat, NEW p \in Nat, n + d <= e + a, t <= n + p, u >= p + k
  PROVE  t + d + k <= e + (a + u)
OBVIOUS

(* A probe is sent: the last of the probes, in the next slot.               *)
LEMMA StepProbe ==
  ASSUME ProbesInv, Probe
  PROVE  ProbesInv'
<1> DEFINE p == [cycle |-> cycle, seq |-> seq + 1, answered |-> FALSE, reached |-> FALSE]
<1>1. /\ pc = "check" /\ ~CtxDone /\ seq' = seq + 1 /\ sent' = Append(sent, p) /\ pc' = "probing"
      /\ till' = ProbeTill /\ UNCHANGED <<job, now, end, cancel, look, cycle, limit, metrics, result>>
  BY DEF Probe
<1>2. /\ now \in Nat /\ end \in Nat /\ job \in Job /\ cycle \in Nat \ {0} /\ seq \in Nat
      /\ R["step"] \in Nat \ {0} /\ limit \in Nat /\ sent \in Seq(Measured)
  BY Fields DEF ProbesInv, TypeOK, Numbered
<1>3. p \in Measured /\ p.cycle = cycle /\ p.seq = seq + 1 /\ p.reached = FALSE
  BY <1>2 DEF Measured
<1> HIDE DEF p
<1>4. cancel = Nil /\ now < end
  BY <1>1, <1>2 DEF CtxDone
<1>5. till' \in Nat /\ now <= till' /\ till' <= end /\ till' <= now + R["step"]
  BY <1>1, <1>2, <1>4 DEF ProbeTill
<1>6. /\ sent' \in Seq(Measured) /\ Len(sent') = Len(sent) + 1 /\ sent'[Len(sent) + 1] = p
      /\ DOMAIN sent' = DOMAIN sent \cup {Len(sent) + 1} /\ Len(sent) + 1 \notin DOMAIN sent
      /\ \A i \in DOMAIN sent : sent'[i] = sent[i]
  BY <1>1, <1>2, <1>3
<1>7. R' = R /\ Budget' = Budget /\ Timeout' = Timeout /\ Unit' = Unit /\ Ping' = Ping /\ Slack' = Slack
  BY <1>1, SameJob
<1>8. Top' = Top /\ seq < Top /\ Top \in Nat
  BY <1>1, <1>2, <1>7, Fields DEF ProbesInv, Placed, Top
<1>9. TypeOK'
  <2>1. seq' \in 0..(IF job.tool = "ping" THEN R["count"] ELSE R["hops"])
    BY <1>1, <1>2, <1>8, Fields DEF ProbesInv, TypeOK, Top, Ping
  <2>2. \A i \in DOMAIN sent' : sent'[i].cycle \in 1..cycle /\ sent'[i].seq \in Nat \ {0}
    <3>1. p.cycle \in 1..cycle /\ p.seq \in Nat \ {0}
      BY <1>2, <1>3
    <3> QED BY <1>6, <3>1 DEF ProbesInv, TypeOK
  <2> QED BY <1>1, <1>5, <1>7, <2>1, <2>2 DEF ProbesInv, TypeOK
<1>10. Placed'
  <2>1. seq' \in 1..Top
    BY <1>1, <1>2, <1>8
  <2> QED BY <1>1, <1>7, <1>8, <2>1 DEF ProbesInv, Placed, Looping
<1>11. Clock'
  <2>1. now <= end /\ end <= Budget + Timeout
    BY <1>1 DEF ProbesInv, Clock, Looping
  <2> QED BY <1>1, <1>4, <1>5, <1>7, <2>1 DEF Clock, Looping
<1>12. Paced'
  <2>1. SUFFICES ASSUME Affordable
                 PROVE  till' + Timeout + Slack <= end + Slots' * Unit
    <3>1. Affordable' = Affordable
      BY <1>1, <1>7 DEF Affordable
    <3> QED BY <1>1, <1>7, <3>1 DEF Paced
  <2>2. Slots' = Slots + 1
    <3>1. (cycle - 1) * R["hops"] \in Int
      <4>1. cycle - 1 \in Nat /\ R["hops"] \in Nat
        BY <1>2, Fields
      <4> QED BY <4>1
    <3> QED BY <1>1, <1>2, <1>7, <3>1 DEF Slots
  <2>3. now + Timeout <= end + Slots * Unit
    BY <1>1, <2>1 DEF ProbesInv, Paced
  <2>4. Slots \in Nat /\ Unit \in Nat /\ Unit >= R["step"] + Slack /\ Slack \in Nat /\ Timeout \in Nat
    BY <1>2, SlotsType, Numbers, TimeoutType DEF ProbesInv
  <2>5. (Slots + 1) * Unit = Slots * Unit + Unit /\ Slots * Unit \in Nat
    BY <2>4, TimesMonotone
  <2>6. PICK a \in Nat : a = Slots * Unit
    BY <2>5
  <2>7. Slots' * Unit = a + Unit
    BY <2>2, <2>5, <2>6
  <2>8. till' + Timeout + Slack <= end + (a + Unit)
    <3>1. now + Timeout <= end + a
      BY <2>3, <2>6
    <3>2. till' <= now + R["step"] /\ till' \in Nat /\ R["step"] \in Nat /\ now \in Nat /\ end \in Nat
      BY <1>2, <1>5
    <3> QED BY <2>4, <3>1, <3>2, OneSlot
  <2> QED BY <2>7, <2>8
<1>13. Numbered'
  <2>1. Len(sent') > 0 /\ sent'[Len(sent')].cycle = cycle /\ sent'[Len(sent')].seq = seq'
    BY <1>1, <1>2, <1>3, <1>6
  <2> QED BY <1>1, <1>6, <2>1 DEF Numbered
<1>14. Metered'
  <2>1. Ping => Len(sent) = seq /\ Len(metrics) = seq /\ \A i \in DOMAIN metrics : metrics[i] = i
    BY <1>1 DEF ProbesInv, Metered
  <2> QED BY <1>1, <1>6, <1>7, <2>1 DEF Metered
<1>15. Counted'
  <2>1. SUFFICES ASSUME job.tool = "mtr", NEW h \in 1..limit
                 PROVE  Cardinality(Hit(h))' = (cycle - 1) + (IF h <= seq' THEN 1 ELSE 0)
    BY <1>1 DEF Counted
  <2>2. Cardinality(Hit(h)) = (cycle - 1) + (IF h <= seq THEN 1 ELSE 0)
    BY <1>1, <2>1 DEF ProbesInv, Counted
  <2>3. IsFiniteSet(Hit(h))
    <3>1. DOMAIN sent = 1..Len(sent) /\ Len(sent) \in Nat
      BY <1>2
    <3>2. IsFiniteSet(1..Len(sent))
      BY <3>1, FS_Interval
    <3> QED BY <3>1, <3>2, FS_Subset DEF Hit
  <2>4. CASE h = seq + 1
    <3>1. Hit(h)' = Hit(h) \cup {Len(sent) + 1} /\ Len(sent) + 1 \notin Hit(h)
      BY <1>3, <1>6, <2>4 DEF Hit
    <3>2. Cardinality(Hit(h)') = Cardinality(Hit(h)) + 1
      BY <2>3, <3>1, FS_AddElement
    <3>3. ~(h <= seq) /\ h <= seq'
      BY <1>1, <1>2, <2>4
    <3> QED BY <1>2, <2>2, <3>2, <3>3
  <2>5. CASE h # seq + 1
    <3>1. Hit(h)' = Hit(h)
      BY <1>3, <1>6, <2>5 DEF Hit
    <3>2. (h <= seq) <=> (h <= seq')
      BY <1>1, <1>2, <2>5
    <3> QED BY <2>2, <3>1, <3>2
  <2> QED BY <2>4, <2>5
<1>16. Aimed'
  <2>1. SUFFICES ASSUME job.tool = "mtr"
                 PROVE  /\ \A i \in DOMAIN sent' : sent'[i].reached => limit <= sent'[i].seq
                        /\ limit = R["hops"] \/ \E i \in DOMAIN sent' : sent'[i].reached /\ sent'[i].seq = limit
                        /\ ~sent'[Len(sent')].reached
    BY <1>1, <1>7 DEF Aimed
  <2>2. /\ \A i \in DOMAIN sent : sent[i].reached => limit <= sent[i].seq
        /\ limit = R["hops"] \/ \E i \in DOMAIN sent : sent[i].reached /\ sent[i].seq = limit
    BY <2>1 DEF ProbesInv, Aimed
  <2>3. ~sent'[Len(sent')].reached /\ ~sent'[Len(sent) + 1].reached
    BY <1>3, <1>6
  <2> QED BY <1>6, <2>2, <2>3
<1> QED BY <1>9, <1>10, <1>11, <1>12, <1>13, <1>14, <1>15, <1>16 DEF ProbesInv

-----------------------------------------------------------------------------
(* The outcome of a probe *)

(* An answer, or none, changes nothing but the answer of the last probe.    *)
SameProbes ==
  /\ sent' \in Seq(Measured) /\ Len(sent') = Len(sent)
  /\ \A i \in DOMAIN sent :
       /\ sent'[i].cycle = sent[i].cycle /\ sent'[i].seq = sent[i].seq
       /\ i # Len(sent) => sent'[i].reached = sent[i].reached

LEMMA Answered ==
  ASSUME ProbesInv, NEW reached \in BOOLEAN, Answer(reached)
  PROVE  SameProbes
<1>1. /\ pc = "probing"
      /\ sent' = [sent EXCEPT ![Len(sent)].answered = TRUE, ![Len(sent)].reached = reached]
  BY DEF Answer
<1>2. /\ sent \in Seq(Measured) /\ Len(sent) \in Nat \ {0} /\ sent[Len(sent)].cycle = cycle
      /\ sent[Len(sent)].seq = seq
  BY <1>1 DEF ProbesInv, Numbered
<1>3. Len(sent) \in DOMAIN sent /\ sent \in [1..Len(sent) -> Measured] /\ DOMAIN sent = 1..Len(sent)
  BY <1>2
<1>4. PICK q \in Measured : q = sent[Len(sent)]
  BY <1>3
<1> DEFINE p == [q EXCEPT !.answered = TRUE, !.reached = reached]
<1>5. p \in Measured /\ p.cycle = q.cycle /\ p.seq = q.seq
  BY DEF Measured
<1>6. sent' = [sent EXCEPT ![Len(sent)] = p]
  BY <1>1, <1>3, <1>4
<1> HIDE DEF p
<1>7. sent' \in Seq(Measured) /\ Len(sent') = Len(sent) /\ DOMAIN sent' = DOMAIN sent
      /\ sent'[Len(sent)] = p /\ \A i \in DOMAIN sent : i # Len(sent) => sent'[i] = sent[i]
  BY <1>2, <1>3, <1>5, <1>6
<1> QED BY <1>4, <1>5, <1>7 DEF SameProbes

LEMMA Unanswered ==
  ASSUME ProbesInv, UNCHANGED sent
  PROVE  SameProbes
BY DEF ProbesInv, Numbered, SameProbes

(* Before the outcome of its last probe, an MTR has reached the target in   *)
(* whole traces only; the outcome adds the last probe at most.              *)
LEMMA Aiming ==
  ASSUME ProbesInv, pc = "probing", SameProbes, job.tool = "mtr"
  PROVE  /\ \A i \in DOMAIN sent' :
              sent'[i].reached => limit <= sent'[i].seq \/ (Reached /\ i = Len(sent) /\ sent'[i].seq = seq)
         /\ limit = R["hops"] \/ \E i \in DOMAIN sent' : sent'[i].reached /\ sent'[i].seq = limit
         /\ Reached => \E i \in DOMAIN sent' : sent'[i].reached /\ sent'[i].seq = seq
<1>1. /\ sent \in Seq(Measured) /\ Len(sent) \in Nat \ {0} /\ sent[Len(sent)].seq = seq
      /\ sent' \in Seq(Measured) /\ Len(sent') = Len(sent)
  BY DEF ProbesInv, Numbered, SameProbes
<1>2. DOMAIN sent' = DOMAIN sent /\ Len(sent) \in DOMAIN sent
  BY <1>1
<1>3. /\ \A i \in DOMAIN sent : sent[i].reached => limit <= sent[i].seq
      /\ limit = R["hops"] \/ \E i \in DOMAIN sent : sent[i].reached /\ sent[i].seq = limit
      /\ ~sent[Len(sent)].reached
  BY DEF ProbesInv, Aimed
<1>4. \A i \in DOMAIN sent : /\ sent'[i].seq = sent[i].seq
                             /\ i # Len(sent) => sent'[i].reached = sent[i].reached
  BY DEF SameProbes
<1>5. Reached = sent'[Len(sent)].reached
  BY <1>1 DEF Reached
<1>6. \A i \in DOMAIN sent' :
        sent'[i].reached => limit <= sent'[i].seq \/ (Reached /\ i = Len(sent) /\ sent'[i].seq = seq)
  BY <1>1, <1>2, <1>3, <1>4, <1>5
<1>7. limit = R["hops"] \/ \E i \in DOMAIN sent' : sent'[i].reached /\ sent'[i].seq = limit
  BY <1>2, <1>3, <1>4
<1>8. Reached => \E i \in DOMAIN sent' : sent'[i].reached /\ sent'[i].seq = seq
  BY <1>1, <1>2, <1>4, <1>5
<1> QED BY <1>6, <1>7, <1>8

LEMMA SameHits ==
  ASSUME ProbesInv, SameProbes
  PROVE  \A h : Hit(h)' = Hit(h)
<1>1. DOMAIN sent' = DOMAIN sent
  BY DEF ProbesInv, Numbered, SameProbes
<1> QED BY <1>1 DEF Hit, SameProbes

(* What holds after any outcome.                                            *)
LEMMA Afterwards ==
  ASSUME ProbesInv, pc = "probing", SameProbes, After
  PROVE  /\ UNCHANGED <<job, now, end, cancel, look>>
         /\ R' = R /\ Timeout' = Timeout /\ Unit' = Unit /\ Slack' = Slack /\ Ping' = Ping
         /\ seq \in 1..Top /\ job.tool \in {"ping"} \cup Trace
         /\ pc' \in {"check", "interval", "done"} => Clock' /\ Numbered'
         /\ Affordable' = Affordable
         /\ Affordable => now + Timeout + Slack <= end + Slots * Unit
<1>1. UNCHANGED <<job, now, end, cancel, look>>
  BY DEF After
<1>2. R' = R /\ Timeout' = Timeout /\ Unit' = Unit /\ Slack' = Slack /\ Ping' = Ping /\ Budget' = Budget
  BY <1>1, SameJob
<1>3. seq \in 1..Top /\ job.tool \in {"ping"} \cup Trace
  BY DEF ProbesInv, Placed, Looping
<1>4. ASSUME pc' \in {"check", "interval", "done"} PROVE Clock' /\ Numbered'
  <2>1. now <= end /\ end <= Budget + Timeout /\ now <= Budget + Timeout
    BY NeverLate DEF ProbesInv, Clock, Looping
  <2>2. cancel # Nil => cancel <= now /\ now <= cancel + R["step"]
    BY DEF ProbesInv, Clock
  <2>3. Clock'
    BY <1>1, <1>2, <1>4, <2>1, <2>2 DEF Clock, Looping
  <2>4. Numbered'
    BY <1>4 DEF Numbered, SameProbes
  <2> QED BY <2>3, <2>4
<1>5. Affordable' = Affordable
  BY <1>1, <1>2 DEF Affordable
<1>6. ASSUME Affordable PROVE now + Timeout + Slack <= end + Slots * Unit
  <2>1. now <= till /\ till + Timeout + Slack <= end + Slots * Unit
    BY <1>6 DEF ProbesInv, Clock, Paced
  <2>2. PICK a \in Nat : a = Slots * Unit
    BY SlotsType DEF ProbesInv
  <2>3. till + Timeout + Slack <= end + a
    BY <2>1, <2>2
  <2>4. now \in Nat /\ till \in Nat /\ end \in Nat /\ Timeout \in Nat /\ Slack \in Nat
    BY TimeoutType, Numbers DEF ProbesInv, TypeOK
  <2>5. now + Timeout + Slack <= end + a
    BY <2>1, <2>3, <2>4
  <2> QED BY <2>2, <2>5
<1> QED BY <1>1, <1>2, <1>3, <1>4, <1>5, <1>6

(* A ping goes on after the interval, or has sent all its probes.           *)
LEMMA PingAfter ==
  ASSUME ProbesInv, pc = "probing", SameProbes, After, Ping
  PROVE  ProbesInv'
<1>1. /\ metrics' = Append(metrics, seq) /\ UNCHANGED <<job, now, end, cancel, look, cycle, seq, limit>>
      /\ R' = R /\ Timeout' = Timeout /\ Unit' = Unit /\ Slack' = Slack /\ Ping' = Ping
      /\ Affordable' = Affordable
  BY Afterwards DEF After, AfterPing, loop, Ping
<1>2. \/ seq < R["count"] /\ pc' = "interval" /\ till' = now + 1 /\ UNCHANGED result
      \/ /\ ~(seq < R["count"]) /\ pc' = "done" /\ UNCHANGED till
         /\ result'.kind = "complete" /\ result'.transmitted = R["count"]
  BY DEF After, AfterPing, Ping
<1>3. /\ Top' = Top /\ Slots' = Slots /\ Top = R["count"] /\ seq \in 1..R["count"] /\ R["count"] \in Nat
      /\ job \in Job /\ now \in Nat /\ till \in Nat /\ end \in Nat
  <2>1. Top = R["count"] /\ Top' = Top
    BY <1>1 DEF Top
  <2>2. seq \in 1..R["count"]
    BY <2>1, Afterwards
  <2> QED BY <1>1, <2>1, <2>2, Fields DEF ProbesInv, TypeOK, Slots
<1>4. till' \in Nat
  BY <1>2, <1>3
<1>5. metrics \in Seq(Nat \ {0}) /\ Len(metrics) + 1 = seq /\ Len(sent) = seq
      /\ \A i \in DOMAIN metrics : metrics[i] = i
  BY DEF ProbesInv, TypeOK, Metered
<1>6. metrics' \in Seq(Nat \ {0}) /\ Len(metrics') = seq /\ \A i \in DOMAIN metrics' : metrics'[i] = i
  BY <1>1, <1>3, <1>5
<1>7. TypeOK'
  <2>1. \A i \in DOMAIN sent' : sent'[i].cycle \in 1..cycle /\ sent'[i].seq \in Nat \ {0}
    <3>1. DOMAIN sent' = DOMAIN sent
      BY DEF ProbesInv, Numbered, SameProbes
    <3> QED BY <3>1 DEF ProbesInv, TypeOK, SameProbes
  <2> QED BY <1>1, <1>2, <1>4, <1>6, <2>1 DEF ProbesInv, TypeOK
<1>8. Placed'
  BY <1>1, <1>2, <1>3 DEF ProbesInv, Placed, Looping, Ping
<1>9. Clock' /\ Numbered'
  BY <1>2, Afterwards
<1>10. Paced'
  <2>1. CASE pc' = "interval"
    <3>1. SUFFICES ASSUME Affordable
                   PROVE  now <= till' /\ till' + Timeout <= end + Slots * Unit
      BY <1>1, <1>3, <2>1 DEF Paced
    <3>2. till' = now + 1 /\ Slack = 1
      BY <1>2, <2>1 DEF Slack
    <3>3. now + Timeout + Slack <= end + Slots * Unit
      BY <3>1, Afterwards
    <3>4. till' + Timeout = now + Timeout + Slack /\ now <= till'
      BY <1>3, <3>2, TimeoutType
    <3> QED BY <3>3, <3>4
  <2>2. CASE pc' = "done"
    BY <1>2, <2>2 DEF Paced
  <2> QED BY <1>2, <2>1, <2>2
<1>11. Metered'
  <2>1. Len(sent') = seq'
    BY <1>1, <1>5 DEF SameProbes
  <2>2. pc' = "done" => result'.transmitted = seq'
    BY <1>1, <1>2, <1>3
  <2> QED BY <1>1, <1>2, <1>6, <2>1, <2>2 DEF Metered
<1>12. Counted' /\ Aimed'
  BY <1>1 DEF Counted, Aimed, Ping
<1> QED BY <1>7, <1>8, <1>9, <1>10, <1>11, <1>12 DEF ProbesInv

(* A trace goes on to the next hop.                                         *)
LEMMA NextHop ==
  ASSUME ProbesInv, pc = "probing", SameProbes, After, job.tool \in Trace,
         seq < limit, ~Reached, pc' = "check", UNCHANGED <<till, loop, result, metrics>>
  PROVE  ProbesInv'
<1>1. /\ UNCHANGED <<job, now, end, cancel, look, cycle, seq, limit, till, result, metrics>>
      /\ R' = R /\ Timeout' = Timeout /\ Unit' = Unit /\ Slack' = Slack /\ Ping' = Ping
      /\ Affordable' = Affordable /\ ~Ping /\ Slack = 0
  BY Afterwards DEF loop, Ping, Trace, Slack
<1>2. Slots' = Slots /\ Top' = Top /\ Top = limit
  BY <1>1 DEF Slots, Top
<1>3. TypeOK'
  <2>1. \A i \in DOMAIN sent' : sent'[i].cycle \in 1..cycle /\ sent'[i].seq \in Nat \ {0}
    <3>1. DOMAIN sent' = DOMAIN sent
      BY DEF ProbesInv, Numbered, SameProbes
    <3> QED BY <3>1 DEF ProbesInv, TypeOK, SameProbes
  <2> QED BY <1>1, <2>1 DEF ProbesInv, TypeOK
<1>4. Placed'
  BY <1>1, <1>2 DEF ProbesInv, Placed, Looping
<1>5. Clock' /\ Numbered'
  BY Afterwards
<1>6. Paced'
  <2>1. Affordable => now + Timeout <= end + Slots * Unit
    <3>1. now + Timeout + 0 = now + Timeout
      BY TimeoutType DEF ProbesInv, TypeOK
    <3> QED BY <1>1, <3>1, Afterwards
  <2> QED BY <1>1, <1>2, <2>1 DEF Paced
<1>7. Metered'
  BY <1>1 DEF Metered
<1>8. Counted'
  <2>1. \A h : Cardinality(Hit(h))' = Cardinality(Hit(h))
    BY SameHits
  <2> QED BY <1>1, <2>1 DEF ProbesInv, Counted
<1>9. Aimed'
  <2>1. CASE job.tool = "mtr"
    BY <1>1, <2>1, Aiming DEF Aimed
  <2> QED BY <1>1, <2>1 DEF Aimed
<1> QED BY <1>3, <1>4, <1>5, <1>6, <1>7, <1>8, <1>9 DEF ProbesInv

(* A trace ends: at its last hop or at the target.                          *)
LEMMA TraceEnds ==
  ASSUME ProbesInv, pc = "probing", SameProbes, After, job.tool \in Trace,
         pc' = "done", result'.kind = "complete", UNCHANGED <<till, metrics, cycle, seq>>,
         limit' \in 1..R["hops"], job.tool # "mtr" => limit' = limit,
         job.tool = "mtr" => \A h \in 1..result'.hops : Cardinality(Hit(h)) = R["count"],
         Aimed'
  PROVE  ProbesInv'
<1>1. /\ UNCHANGED <<job, now, end, cancel, look>> /\ R' = R /\ ~Ping /\ Ping' = Ping
  BY Afterwards DEF Ping, Trace
<1>2. TypeOK'
  <2>1. \A i \in DOMAIN sent' : sent'[i].cycle \in 1..cycle /\ sent'[i].seq \in Nat \ {0}
    <3>1. DOMAIN sent' = DOMAIN sent
      BY DEF ProbesInv, Numbered, SameProbes
    <3> QED BY <3>1 DEF ProbesInv, TypeOK, SameProbes
  <2> QED BY <1>1, <2>1 DEF ProbesInv, TypeOK
<1>3. Placed'
  BY <1>1 DEF ProbesInv, Placed, Looping
<1>4. Clock' /\ Numbered'
  BY Afterwards
<1>5. Paced'
  BY DEF Paced
<1>6. Metered'
  BY <1>1 DEF Metered
<1>7. Counted'
  <2>1. \A h : Cardinality(Hit(h))' = Cardinality(Hit(h))
    BY SameHits
  <2> QED BY <1>1, <2>1 DEF Counted
<1> QED BY <1>2, <1>3, <1>4, <1>5, <1>6, <1>7 DEF ProbesInv

(* An MTR after a trace: the hops of the report are those of the shortest   *)
(* trace so far, and each has been probed once per cycle.                   *)
LEMMA MTRAfter ==
  ASSUME ProbesInv, pc = "probing", SameProbes, After, job.tool = "mtr",
         seq = limit \/ Reached, NextCycle, UNCHANGED metrics
  PROVE  ProbesInv'
<1>1. /\ UNCHANGED <<job, now, end, cancel, look, till, metrics>> /\ R' = R /\ Timeout' = Timeout
      /\ Unit' = Unit /\ Slack' = Slack /\ Ping' = Ping /\ Affordable' = Affordable /\ ~Ping /\ Slack = 0
  BY Afterwards DEF NextCycle, Ping, Slack
<1>2. /\ limit \in 1..R["hops"] /\ seq \in 1..limit /\ cycle \in 1..R["count"] /\ R["count"] \in Nat
      /\ R["hops"] \in Nat /\ job \in Job
  <2>1. Top = limit
    BY <1>1 DEF Top
  <2> QED BY <2>1, Afterwards, Fields DEF ProbesInv, TypeOK
<1>3. limit' = seq
  BY <1>2 DEF NextCycle
<1>4. \A h \in 1..seq : Cardinality(Hit(h)) = cycle
  <2>1. SUFFICES ASSUME NEW h \in 1..seq PROVE Cardinality(Hit(h)) = cycle
    OBVIOUS
  <2>2. h \in 1..limit /\ h <= seq
    BY <1>2
  <2>3. Cardinality(Hit(h)) = (cycle - 1) + 1
    BY <2>2 DEF ProbesInv, Counted
  <2> QED BY <1>2, <2>3
<1>9. /\ \A i \in DOMAIN sent' : sent'[i].reached => limit' <= sent'[i].seq
      /\ limit' = R["hops"] \/ \E i \in DOMAIN sent' : sent'[i].reached /\ sent'[i].seq = limit'
  <2>1. DOMAIN sent' = DOMAIN sent /\ \A i \in DOMAIN sent' : sent'[i].seq \in Nat
    BY DEF ProbesInv, TypeOK, Numbered, SameProbes
  <2>2. \A i \in DOMAIN sent' : sent'[i].reached => seq <= sent'[i].seq
    BY <1>2, <2>1, Aiming
  <2>3. seq = R["hops"] \/ \E i \in DOMAIN sent' : sent'[i].reached /\ sent'[i].seq = seq
    <3>1. CASE Reached
      BY <3>1, Aiming
    <3>2. CASE seq = limit
      BY <3>2, Aiming
    <3> QED BY <3>1, <3>2
  <2> QED BY <1>3, <2>2, <2>3
<1>5. CASE cycle < R["count"]
  <2>1. pc' = "check" /\ cycle' = cycle + 1 /\ seq' = 0 /\ UNCHANGED result
    BY <1>5 DEF NextCycle
  <2>2. TypeOK'
    <3>1. \A i \in DOMAIN sent' : sent'[i].cycle \in 1..cycle' /\ sent'[i].seq \in Nat \ {0}
      <4>1. DOMAIN sent' = DOMAIN sent
        BY DEF ProbesInv, Numbered, SameProbes
      <4>2. \A i \in DOMAIN sent : sent[i].cycle \in 1..cycle /\ sent[i].seq \in Nat \ {0}
        BY DEF ProbesInv, TypeOK
      <4>3. \A c \in 1..cycle : c \in 1..cycle'
        BY <1>2, <2>1
      <4> QED BY <4>1, <4>2, <4>3 DEF SameProbes
    <3>2. cycle' \in 1..R["count"] /\ limit' \in 1..R["hops"] /\ seq' \in 0..R["hops"]
      BY <1>2, <1>3, <1>5, <2>1
    <3> QED BY <1>1, <2>1, <3>1, <3>2 DEF ProbesInv, TypeOK
  <2>3. Placed'
    <3>1. Top' = seq /\ 0 < seq
      BY <1>1, <1>2, <1>3 DEF Top
    <3> QED BY <1>1, <2>1, <3>1 DEF ProbesInv, Placed, Looping, Trace
  <2>4. Clock' /\ Numbered'
    BY <2>1, Afterwards
  <2>5. Paced'
    <3>1. SUFFICES ASSUME Affordable
                   PROVE  now + Timeout <= end + Slots' * Unit
      BY <1>1, <2>1 DEF Paced
    <3>2. PICK c \in Nat : cycle = c + 1
      <4>1. cycle - 1 \in Nat /\ cycle = (cycle - 1) + 1
        BY <1>2
      <4> QED BY <4>1
    <3>3. Slots = c * R["hops"] + seq
      <4>1. cycle - 1 = c
        BY <3>2
      <4> QED BY <4>1 DEF Slots
    <3>4. Slots' = (c + 1) * R["hops"]
      <4>1. cycle' - 1 = c + 1
        BY <1>2, <2>1, <3>2
      <4>2. Slots' = (c + 1) * R["hops"] + 0
        BY <1>1, <2>1, <4>1 DEF Slots
      <4> QED BY <1>2, <3>2, <4>2
    <3>5. (c + 1) * R["hops"] = c * R["hops"] + R["hops"] /\ c * R["hops"] \in Nat
      <4>1. c \in Nat /\ R["hops"] \in Nat /\ c <= c
        BY <1>2, <3>2
      <4> QED BY <4>1, TimesMonotone
    <3>6. Slots \in Nat /\ Slots' \in Nat /\ Slots <= Slots' /\ Unit \in Nat
      BY <1>2, <3>3, <3>4, <3>5, Numbers
    <3>7. Slots * Unit <= Slots' * Unit /\ Slots * Unit \in Nat /\ Slots' * Unit \in Nat
      BY <3>6, TimesMonotone
    <3>8. PICK a \in Nat, b \in Nat : a = Slots * Unit /\ b = Slots' * Unit
      BY <3>7
    <3>9. now \in Nat /\ Timeout \in Nat /\ end \in Nat
      BY TimeoutType DEF ProbesInv, TypeOK
    <3>10. now + Timeout <= end + a
      <4>1. now + Timeout + 0 = now + Timeout
        BY <3>9
      <4> QED BY <1>1, <3>1, <3>8, <4>1, Afterwards
    <3>11. a <= b
      BY <3>7, <3>8
    <3>12. now + Timeout <= end + b
      BY <3>9, <3>10, <3>11
    <3> QED BY <3>8, <3>12
  <2>6. Metered'
    BY <1>1 DEF Metered
  <2>7. Counted'
    <3>1. \A h : Cardinality(Hit(h))' = Cardinality(Hit(h))
      BY SameHits
    <3>2. SUFFICES ASSUME NEW h \in 1..seq
                   PROVE  Cardinality(Hit(h))' = (cycle' - 1) + (IF h <= seq' THEN 1 ELSE 0)
      BY <1>1, <1>3, <2>1 DEF Counted
    <3>3. ~(h <= seq') /\ cycle' - 1 = cycle /\ cycle \in Nat
      BY <1>2, <2>1
    <3> QED BY <1>4, <3>1, <3>3
  <2>8. Aimed'
    BY <1>1, <1>9, <2>1 DEF Aimed
  <2> QED BY <2>2, <2>3, <2>4, <2>5, <2>6, <2>7, <2>8 DEF ProbesInv
<1>6. CASE ~(cycle < R["count"])
  <2>1. pc' = "done" /\ result' = Traced(limit') /\ UNCHANGED <<cycle, seq, till>>
    BY <1>6 DEF NextCycle, End
  <2>2. result'.kind = "complete" /\ result'.hops = seq
    BY <1>3, <2>1 DEF Traced
  <2>3. cycle = R["count"] /\ seq \in 1..R["hops"]
    BY <1>2, <1>6
  <2>4. \A h \in 1..result'.hops : Cardinality(Hit(h)) = R["count"]
    BY <1>4, <2>2, <2>3
  <2>5. Aimed'
    BY <1>1, <1>3, <1>9, <2>1, <2>2 DEF Aimed
  <2> QED BY <1>1, <1>3, <2>1, <2>2, <2>3, <2>4, <2>5, TraceEnds DEF Trace
<1> QED BY <1>5, <1>6

LEMMA StepAfter ==
  ASSUME ProbesInv, pc = "probing", SameProbes, After
  PROVE  ProbesInv'
<1>1. CASE Ping
  BY <1>1, PingAfter
<1>2. CASE ~Ping
  <2>1. AfterTrace /\ job.tool \in Trace /\ UNCHANGED metrics
    BY <1>2, Afterwards DEF After, AfterTrace, Ping
  <2>2. CASE seq < limit /\ ~Reached /\ pc' = "check" /\ UNCHANGED <<till, loop, result>>
    BY <2>1, <2>2, NextHop
  <2>3. CASE /\ seq = limit \/ Reached
             /\ IF job.tool = "mtr" THEN NextCycle ELSE End(Traced(seq)) /\ UNCHANGED <<loop, till>>
    <3>1. CASE job.tool = "mtr"
      BY <2>1, <2>3, <3>1, MTRAfter
    <3>2. CASE job.tool # "mtr"
      <4>1. pc' = "done" /\ result'.kind = "complete" /\ UNCHANGED <<till, cycle, seq, limit>>
        BY <2>3, <3>2 DEF End, Traced, loop
      <4>2. limit' \in 1..R["hops"]
        BY <4>1 DEF ProbesInv, TypeOK
      <4>3. Aimed'
        BY <3>2, Afterwards DEF Aimed
      <4> QED BY <2>1, <3>2, <4>1, <4>2, <4>3, TraceEnds
    <3> QED BY <3>1, <3>2
  <2> QED BY <2>1, <2>2, <2>3 DEF AfterTrace
<1> QED BY <1>1, <1>2

-----------------------------------------------------------------------------
(* Theorems *)

LEMMA StepInv ==
  ASSUME ProbesInv, [Next]_vars
  PROVE  ProbesInv'
<1>1. ASSUME UNCHANGED vars PROVE ProbesInv'
  <2>1. UNCHANGED <<job, now, pc, till, end, cancel, look, cycle, seq, limit, sent, metrics, result>>
    BY <1>1 DEF vars
  <2>2. UNCHANGED <<job, loop, sent, out>>
    BY <2>1 DEF loop, out
  <2>3. R' = R /\ Budget' = Budget /\ Timeout' = Timeout /\ Unit' = Unit /\ Slack' = Slack
        /\ Slots' = Slots /\ Top' = Top /\ Ping' = Ping /\ Affordable' = Affordable
    BY <2>1, <2>2, SameJob, SameLoop DEF Affordable
  <2>4. TypeOK' /\ Placed'
    BY <2>1, <2>3 DEF ProbesInv, TypeOK, Placed
  <2>5. Clock' /\ Paced'
    BY <2>1, <2>3 DEF ProbesInv, Clock, Paced
  <2>6. Numbered' /\ Metered' /\ Counted' /\ Aimed'
    BY <2>1, <2>2, QuietStep
  <2> QED BY <2>4, <2>5, <2>6 DEF ProbesInv
<1>2. ASSUME NEW reached \in BOOLEAN, Answer(reached)
      PROVE  ProbesInv'
  <2>1. pc = "probing" /\ After
    BY <1>2 DEF Answer
  <2> QED BY <1>2, <2>1, Answered, StepAfter
<1>3. ASSUME NoAnswer PROVE ProbesInv'
  BY <1>3, Unanswered, StepAfter DEF NoAnswer
<1>4. ASSUME Done PROVE UNCHANGED vars
  BY <1>4 DEF Done
<1> QED
  BY <1>1, <1>2, <1>3, <1>4, StepTick, StepCancel, StepLookupWorks, StepLookupFails, StepStart,
     StepListenFails, StepSingle, StepProbe, StepPingCut, StepTraceCut, StepInterval DEF Next

(* The state of a run is well formed: its loops stay within the limits of   *)
(* the job (runBuiltinPingWithTimeout, runTrace, runBuiltinMTRWithTimeout). *)
THEOREM ProbesTypes == Spec => []TypeOK
<1>1. ProbesInv => TypeOK
  BY DEF ProbesInv
<1> QED BY <1>1, InitInv, StepInv, PTL DEF Spec

(* An agent is free again in time, whatever the limits of the job and       *)
(* whatever the replies: after a cancel within the time-out of one probe,   *)
(* and in any case within the look-ups and the time-out of the run.         *)
THEOREM FreeInTime == Spec => []EndsInTime
<1>1. ProbesInv => EndsInTime
  <2>1. SUFFICES ASSUME ProbesInv PROVE EndsInTime
    OBVIOUS
  <2> QED BY <2>1, NeverLate DEF ProbesInv, Clock, EndsInTime, Budget
<1> QED BY <1>1, InitInv, StepInv, PTL DEF Spec

(* The time-out the server computes is enough for every number of probes,   *)
(* hops and cycles and every time-out of a probe (TimeoutForJobWithRuntime  *)
(* against the loops of the runner).                                        *)
THEOREM TimeEnough == Spec => []NotCutShort
<1>1. ProbesInv => NotCutShort
  BY DEF ProbesInv, Paced, Affordable, NotCutShort
<1> QED BY <1>1, InitInv, StepInv, PTL DEF Spec

(* The path of an MTR ends at the target: for every limit of hops, however  *)
(* the path grows or shrinks between the cycles and wherever the run is cut *)
(* (maxHops in runBuiltinMTRWithTimeout).                                   *)
THEOREM PathEndsAtTarget == Spec => []EndsAtTarget
<1>1. ProbesInv => EndsAtTarget
  BY DEF ProbesInv, Aimed, EndsAtTarget
<1> QED BY <1>1, InitInv, StepInv, PTL DEF Spec

(* A report claims the probes that were sent: each hop of an MTR once per   *)
(* cycle, or up to where it was cut, each probe of a ping, with its metric. *)
THEOREM ReportsWhatWasSent == Spec => []SentCounts
<1>1. ProbesInv => SentCounts
  <2>1. SUFFICES ASSUME ProbesInv PROVE SentCounts
    OBVIOUS
  <2>2. (pc = "done" /\ job.tool = "mtr" /\ result.kind = "complete") =>
          \A h \in 1..result.hops : Cardinality({i \in DOMAIN sent : sent[i].seq = h}) = R["count"]
    BY <2>1 DEF ProbesInv, Counted, Hit
  <2>3. (pc = "done" /\ job.tool = "mtr" /\ result.kind \in {"cut", "error"} /\ cycle > 1) =>
          \A h \in 1..result.hops :
            Cardinality({i \in DOMAIN sent : sent[i].seq = h}) = IF h <= seq THEN cycle ELSE cycle - 1
    BY <2>1 DEF ProbesInv, Counted, Hit
  <2>4. (pc = "done" /\ job.tool = "ping" /\ result.kind \in {"complete", "cut"}) =>
          /\ result.transmitted = Len(sent) /\ Len(metrics) \in {Len(sent), Len(sent) + 1}
          /\ \A i \in DOMAIN metrics : metrics[i] = i
    BY <2>1 DEF ProbesInv, Metered, Ping
  <2> QED BY <2>2, <2>3, <2>4 DEF SentCounts
<1> QED BY <1>1, InitInv, StepInv, PTL DEF Spec
=============================================================================
