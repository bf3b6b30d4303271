------------------------------- MODULE Probes -------------------------------
(***************************************************************************)
(* One run of a tool on an agent (internal/runner/runner.go, builtin.go):   *)
(* the look-ups that precede it, the deadline of RunStream, and the loops   *)
(* of ping, traceroute and MTR, or the single wait of http, dns and port.   *)
(*                                                                         *)
(* Time is in seconds since the agent took the job. It passes only where    *)
(* the code waits; computing takes none, and a deadline that coincides with *)
(* the end of a wait counts as expired. Whether a probe is answered, and    *)
(* from where, is open: a late reply that passes for its answer, too.       *)
(***************************************************************************)
EXTENDS Policies, FiniteSets

CONSTANTS
  Job      \* jobs: [tool, mode, runtime, lookups]

(* A job names a tool and a way to probe; its limits are as the server sent *)
(* them, positive or not, and at most both versions are looked up.          *)
ASSUME ProbesAssumption ==
  Job \subseteq [tool : Tool, mode : {"icmp", "tcp"}, runtime : [RuntimeField -> Int], lookups : 0..2]

VARIABLES
  job,     \* the job
  now,     \* the time
  pc,      \* where the run is
  till,    \* when the current wait ends
  end,     \* deadline of the run, once it has started
  cancel,  \* when the job was cancelled, or Nil
  look,    \* versions still to be looked up
  cycle,   \* cycle of an MTR
  seq,     \* probes of a ping, hops of a trace
  limit,   \* maxHops
  sent,    \* the probes in order: [cycle, seq, answered, reached]
  metrics, \* sequence numbers of the metrics of a ping
  result   \* the result, or Nil

vars == <<job, now, pc, till, end, cancel, look, cycle, seq, limit, sent, metrics, result>>
loop == <<cycle, seq, limit>>
out  == <<sent, metrics, result>>

R == NormalizeRuntime(job.runtime)
Timeout == TimeoutForJob(job.tool, job.runtime)
Trace == {"traceroute", "mtr"}

TypeOK ==
  /\ job \in Job /\ now \in Nat /\ till \in Nat /\ end \in Nat
  /\ pc \in {"resolve", "start", "check", "probing", "interval", "single", "done"}
  /\ cancel \in Nat \cup {Nil} /\ look \in 0..2
  /\ cycle \in 1..R["count"] /\ limit \in 1..R["hops"]
  /\ seq \in 0..(IF job.tool = "ping" THEN R["count"] ELSE R["hops"])
  /\ \A i \in DOMAIN sent : sent[i].cycle \in 1..cycle /\ sent[i].seq \in Nat \ {0}
  /\ metrics \in Seq(Nat \ {0})
  /\ result = Nil \/ result.kind \in {"complete", "cut", "error", "rejected"}

Init ==
  /\ job \in Job /\ now = 0 /\ cancel = Nil /\ look = job.lookups
  /\ pc = IF look = 0 THEN "start" ELSE "resolve"
  /\ till = (IF look = 0 THEN 0 ELSE R["resolve"]) /\ end = 0
  /\ cycle = 1 /\ seq = 0 /\ limit = R["hops"]
  /\ sent = <<>> /\ metrics = <<>> /\ result = Nil

-----------------------------------------------------------------------------
(* Time and cancellation *)

(* ctx.Done: the job is cancelled or, once it runs, its deadline is over.   *)
CtxDone == cancel # Nil \/ (pc # "resolve" /\ now >= end)

(* An ICMP probe reads from its socket until its own deadline; every other  *)
(* wait is on the context, too.                                             *)
Waiting == pc \in {"resolve", "probing", "interval", "single"}
Heeds   == pc # "probing" \/ job.mode = "tcp"

Tick ==
  /\ Waiting /\ now < till /\ ~(Heeds /\ CtxDone)
  /\ now' = now + 1
  /\ UNCHANGED <<job, pc, till, end, cancel, look, loop, out>>

(* A cancel message, the end of the session, or of the HTTP request.        *)
Cancel ==
  /\ cancel = Nil /\ pc # "done"
  /\ cancel' = now
  /\ UNCHANGED <<job, now, pc, till, end, look, loop, out>>

End(r) == pc' = "done" /\ result' = r

-----------------------------------------------------------------------------
(* Before the run: resolveAgentTarget on the agent *)

(* A version resolves, before its time-out.                                 *)
LookupWorks ==
  /\ pc = "resolve" /\ cancel = Nil
  /\ pc' = "start"
  /\ UNCHANGED <<job, now, till, end, cancel, look, loop, out>>

(* It fails, by an answer, by its time-out or by the cancel: the next       *)
(* version is tried, and after the last the job is turned down.             *)
LookupFails ==
  /\ pc = "resolve" /\ look' = look - 1
  /\ \/ look > 1 /\ till' = now + R["resolve"] /\ UNCHANGED <<pc, out>>
     \/ look = 1 /\ End([kind |-> "rejected"]) /\ UNCHANGED <<till, sent, metrics>>
  /\ UNCHANGED <<job, now, end, cancel, loop>>

-----------------------------------------------------------------------------
(* RunStream *)

Start ==
  /\ pc = "start"
  /\ end' = now + Timeout
  /\ IF job.tool \in {"http", "dns", "port"}
       THEN pc' = "single" /\ till' = end'
       ELSE pc' = "check" /\ UNCHANGED till
  /\ UNCHANGED <<job, now, cancel, look, loop, out>>

(* listenICMP fails: the ping or the trace returns the error; an MTR that   *)
(* has a cycle behind it reports what it has.                               *)
ListenFails ==
  /\ pc = "check" /\ seq = 0 /\ job.mode = "icmp"
  /\ End([kind |-> "error", exit |-> -1, hops |-> IF cycle = 1 THEN 0 ELSE limit])
  /\ UNCHANGED <<job, now, till, end, cancel, look, loop, sent, metrics>>

(* runBuiltinHTTP, runBuiltinDNS, runBuiltinPort: an answer or an error, or *)
(* the context ends.                                                        *)
Single ==
  /\ pc = "single"
  /\ End([kind |-> IF CtxDone THEN "cut" ELSE "complete"])
  /\ UNCHANGED <<job, now, till, end, cancel, look, loop, sent, metrics>>

-----------------------------------------------------------------------------
(* Probes *)

(* Mutant: a probe may outlast the run.                                     *)
ProbeTillLong == now + R["step"]
(* icmpProbe, traceOnce, tcpProbeWithTimeout: until when a probe waits.     *)
ProbeTill == IF end < now + R["step"] THEN end ELSE now + R["step"]

(* The top of the loop of a ping or a trace: one more probe.                *)
Probe ==
  /\ pc = "check" /\ ~CtxDone
  /\ seq' = seq + 1
  /\ sent' = Append(sent, [cycle |-> cycle, seq |-> seq + 1, answered |-> FALSE, reached |-> FALSE])
  /\ pc' = "probing" /\ till' = ProbeTill
  /\ UNCHANGED <<job, now, end, cancel, look, cycle, limit, metrics, result>>

Cut(hops) == [kind |-> "cut", exit |-> -1, hops |-> hops]
Pinged(kind, n) ==
  [kind |-> kind, transmitted |-> n, received |-> Cardinality({i \in DOMAIN sent : sent[i].answered})]

(* The context of a ping ends: at the top of the loop, where a deadline     *)
(* also makes a metric (genericErrorStatus), or in the interval.            *)
PingCut ==
  /\ job.tool = "ping"
  /\ \/ /\ pc = "check" /\ metrics' = (IF now >= end /\ (cancel = Nil \/ cancel >= end) THEN Append(metrics, seq + 1) ELSE metrics)
     \/ pc = "interval" /\ UNCHANGED metrics
  /\ CtxDone /\ End(Pinged("cut", seq))
  /\ UNCHANGED <<job, now, till, end, cancel, look, loop, sent>>

(* Mutant: a report ends where the last trace was cut.                      *)
TraceCutLast ==
  /\ job.tool \in Trace /\ pc = "check" /\ CtxDone /\ End(Cut(seq))
  /\ UNCHANGED <<job, now, till, end, cancel, look, cycle, seq, limit, sent, metrics>>

(* The context of a trace ends: an MTR after its first cycle reports the    *)
(* hops of all cycles, anything else those of this one, with the error.     *)
TraceCut ==
  /\ job.tool \in Trace /\ pc = "check" /\ CtxDone
  /\ End(IF job.tool = "mtr" /\ cycle > 1 THEN Cut(limit) ELSE Cut(seq))
  /\ UNCHANGED <<job, now, till, end, cancel, look, cycle, seq, limit, sent, metrics>>

-----------------------------------------------------------------------------
(* The outcome of a probe *)

(* What follows a probe of a ping: its metric, then the interval, or the    *)
(* summary after the last.                                                  *)
AfterPing ==
  /\ metrics' = Append(metrics, seq)
  /\ IF seq < R["count"] THEN pc' = "interval" /\ till' = now + 1 /\ UNCHANGED result
     ELSE pc' = "done" /\ UNCHANGED till
          /\ result' = [kind |-> "complete", transmitted |-> R["count"],
                        received |-> Cardinality({i \in DOMAIN sent' : sent'[i].answered})]
  /\ UNCHANGED loop

Interval ==
  /\ pc = "interval" /\ now >= till
  /\ pc' = "check"
  /\ UNCHANGED <<job, now, till, end, cancel, look, loop, out>>

Reached == sent'[Len(sent')].reached
Traced(hops) == [kind |-> "complete", exit |-> IF Reached THEN 0 ELSE 1, hops |-> hops]

(* Mutant: an MTR goes on looking for hops behind the target.               *)
NextCycleWide ==
  /\ IF cycle < R["count"] THEN pc' = "check" /\ cycle' = cycle + 1 /\ seq' = 0 /\ UNCHANGED result
     ELSE End(Traced(limit)) /\ UNCHANGED <<cycle, seq>>
  /\ UNCHANGED <<limit, till>>

(* runBuiltinMTRWithTimeout, after a trace: a trace that reached the target *)
(* sets the number of hops of the next cycles and of the report.            *)
NextCycle ==
  /\ limit' = IF Reached THEN seq ELSE limit
  /\ IF cycle < R["count"] THEN pc' = "check" /\ cycle' = cycle + 1 /\ seq' = 0 /\ UNCHANGED result
     ELSE End(Traced(limit')) /\ UNCHANGED <<cycle, seq>>
  /\ UNCHANGED till

(* runTrace, after a probe: the next hop, unless the target has answered or *)
(* the hops are at their limit.                                             *)
AfterTrace ==
  /\ \/ /\ seq < limit /\ ~Reached
        /\ pc' = "check" /\ UNCHANGED <<till, loop, result>>
     \/ /\ seq = limit \/ Reached
        /\ IF job.tool = "mtr" THEN NextCycle ELSE End(Traced(seq)) /\ UNCHANGED <<loop, till>>
  /\ UNCHANGED metrics

After ==
  /\ IF job.tool = "ping" THEN AfterPing ELSE AfterTrace
  /\ UNCHANGED <<job, now, end, cancel, look>>

(* A reply counts as the answer if it carries the identifier of the trace,  *)
(* drawn at random, and the number of the probe (icmpProbe, traceOnce,      *)
(* timeExceededMatches); it comes from a hop or from the target. A ping     *)
(* waits for the target, and a TCP probe is answered by it only.            *)
Answer(reached) ==
  /\ pc = "probing" /\ now <= till /\ ~(Heeds /\ CtxDone)
  /\ job.tool = "ping" \/ job.mode = "tcp" => reached
  /\ sent' = [sent EXCEPT ![Len(sent)].answered = TRUE, ![Len(sent)].reached = reached]
  /\ After

(* The time of the probe is up, its socket fails, or its dial is cancelled. *)
NoAnswer ==
  /\ pc = "probing"
  /\ UNCHANGED sent
  /\ After

Done == pc = "done" /\ UNCHANGED vars

Next ==
  \/ Tick \/ Cancel \/ LookupWorks \/ LookupFails
  \/ Start \/ ListenFails \/ Single
  \/ Probe \/ PingCut \/ TraceCut \/ Interval
  \/ \E reached \in BOOLEAN : Answer(reached)
  \/ NoAnswer \/ Done

Spec == Init /\ [][Next]_vars

-----------------------------------------------------------------------------
(* Properties *)

(* A run has the time it needs: one that nobody cancels and whose need is   *)
(* below the limit of the settings sends every probe, even if none is       *)
(* answered; the deadline never cuts it (TimeoutForJobWithRuntime against   *)
(* the loops of ping, traceroute and MTR).                                  *)
NotCutShort ==
  (pc = "done" /\ cancel = Nil /\ Needed(job.tool, R) <= R["max_tool"]
     /\ job.tool \in {"ping"} \cup Trace)
  => result.kind # "cut"

(* A report does not claim probes that were not sent. An MTR that ran all   *)
(* its cycles has probed each hop it reports once per cycle, though the     *)
(* path may grow or shrink between them; one that was cut after its first   *)
(* has probed it in each cycle behind it, and in the last up to the cut     *)
(* (maxHops and the accumulator of runBuiltinMTRWithTimeout). A ping has    *)
(* transmitted what it counts, cut or not, with a metric for each probe in  *)
(* order and at most one more, for the deadline                             *)
(* (runBuiltinPingWithTimeout).                                             *)
SentCounts ==
  /\ (pc = "done" /\ job.tool = "mtr" /\ result.kind = "complete") =>
       \A h \in 1..result.hops :
         Cardinality({i \in DOMAIN sent : sent[i].seq = h}) = R["count"]
  /\ (pc = "done" /\ job.tool = "mtr" /\ result.kind \in {"cut", "error"} /\ cycle > 1) =>
       \A h \in 1..result.hops :
         Cardinality({i \in DOMAIN sent : sent[i].seq = h}) = IF h <= seq THEN cycle ELSE cycle - 1
  /\ (pc = "done" /\ job.tool = "ping" /\ result.kind \in {"complete", "cut"}) =>
       /\ result.transmitted = Len(sent) /\ Len(metrics) \in {Len(sent), Len(sent) + 1}
       /\ \A i \in DOMAIN metrics : metrics[i] = i

(* The path of an MTR ends at the target: a report, of all cycles or cut    *)
(* after the first, holds no hop behind one from which the target has       *)
(* answered in any cycle, and stops before the limit of hops only where the *)
(* target was (maxHops in runBuiltinMTRWithTimeout, the trace under way     *)
(* when the context ends or the next socket fails included).                *)
EndsAtTarget ==
  (pc = "done" /\ job.tool = "mtr" /\ (result.kind = "complete" \/ cycle > 1)) =>
    /\ \A i \in DOMAIN sent : sent[i].reached => result.hops <= sent[i].seq
    /\ \/ result.hops = R["hops"]
       \/ \E i \in DOMAIN sent : sent[i].reached /\ sent[i].seq = result.hops

(* An agent is free again in time: a cancelled run ends within the time-out *)
(* of the probe under way, and no run takes longer than its look-ups and    *)
(* its time-out, whatever the replies (the deadlines of RunStream,          *)
(* ResolveTargetWithRuntime and the probes).                                *)
EndsInTime ==
  /\ cancel # Nil => now <= cancel + R["step"]
  /\ now <= job.lookups * R["resolve"] + Timeout
=============================================================================
