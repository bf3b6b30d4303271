---------------------------- MODULE MCSchedules ----------------------------
(* Instances of Schedules for TLC: requests that differ in the interval, in *)
(* the allowed agents, in the labels, or that disable the schedule.         *)
EXTENDS SchedulesInductive, TLC

CONSTANTS a1, a2, l1, l2, d1

Body(on, pick) == [enabled |-> on, def |-> d1, pick |-> pick]
One(i, A)      == [l \in Label |-> IF l = l1 THEN [every |-> i, allow |-> A] ELSE None]
Two(i, k)      == [l \in Label |-> [every |-> IF l = l1 THEN i ELSE k, allow |-> {a1}]]

(* One target: another interval, another allowlist, disabled.               *)
OneTarget  == {Body(TRUE, One(1, {a1})), Body(TRUE, One(2, {a1})),
               Body(TRUE, One(1, {a2})), Body(FALSE, One(1, {a1}))}
(* Two targets with rhythms of their own, one target, disabled.             *)
Mixed      == {Body(TRUE, Two(1, 2)), Body(TRUE, One(2, {a1})), Body(FALSE, Two(1, 2))}
=============================================================================
