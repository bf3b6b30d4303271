------------------------------ MODULE MCProbes ------------------------------
(* Instances of Probes for TLC: every tool, ICMP and TCP, time-outs of one  *)
(* and two seconds, look-ups of both versions, and limits that cap a run.   *)
EXTENDS Probes

Settings(count, hops, step, max) ==
  [f \in RuntimeField |->
     CASE f = "count" -> count [] f = "hops" -> hops [] f = "step" -> step
       [] f = "max_tool" -> max [] f = "http" -> 2 [] f = "dns" -> 1 [] f = "resolve" -> 2
       [] OTHER -> 0]
Defaults == [Settings(3, 3, 1, 20) EXCEPT !["attempts"] = 3, !["health"] = 300]
Of(tool, mode, runtime, lookups) ==
  [tool |-> tool, mode |-> mode, runtime |-> runtime, lookups |-> lookups]

Jobs == {
  Of("ping", "icmp", Settings(3, 0, 2, 0), 1), Of("ping", "tcp", Settings(0, 0, 1, 0), 0),
  Of("ping", "icmp", Settings(3, 0, 2, 4), 0),
  Of("traceroute", "icmp", Settings(0, 3, 2, 0), 2), Of("traceroute", "tcp", Settings(0, 3, 2, 3), 0),
  Of("mtr", "icmp", Settings(3, 3, 1, 0), 0), Of("mtr", "icmp", Settings(2, 3, 2, 5), 0),
  Of("mtr", "tcp", Settings(2, 3, 1, 0), 1),
  Of("http", "tcp", Settings(0, 0, 0, 0), 2), Of("dns", "tcp", Settings(0, 0, 0, 0), 0),
  Of("port", "tcp", Settings(0, 0, 1, 0), 1)}
=============================================================================
