------------------------------- MODULE MCHub -------------------------------
(* Instances of Hub for TLC: one agent, one or two streams, and requests    *)
(* made in the order j1, j2: a fan-out j1 over c1 (and c2), or pinned jobs. *)
EXTENDS HubInductive, TLC

CONSTANTS a1, s1, s2, j1, j2, c1, c2

FanoutParent  == [j \in Job |-> IF j \in {c1, c2} THEN j1 ELSE None]
FanoutAgentOf == [j \in Job |-> IF j = j1 THEN None ELSE a1]

PinnedParent  == [j \in Job |-> None]
PinnedAgentOf == [j \in Job |-> a1]

Created       == [j \in Job |-> IF j = j2 THEN 2 ELSE 1]
Streams       == [s \in Session |-> a1]

Siblings      == Permutations({c1, c2})
=============================================================================
