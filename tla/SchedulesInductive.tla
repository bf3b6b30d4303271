------------------------- MODULE SchedulesInductive -------------------------
(* The inductive invariant of Schedules, in named parts.                    *)
EXTENDS Schedules

(* What every row is like, stored or copied: its time is the first of its   *)
(* targets' and no target is due at the time of its last run.               *)
FirstIsNext(r) ==
  /\ \A l \in Named(r.targets) : r.next <= r.targets[l].next
  /\ \E l \in Named(r.targets) : r.next = r.targets[l].next
LastIsPast(r) ==
  \A l \in Named(r.targets) :
    r.targets[l].last # None => r.targets[l].last < r.targets[l].next
Good(r) == FirstIsNext(r) /\ LastIsPast(r)

RowsGood ==
  /\ \A s \in Schedule : row[s] # None => Good(row[s])
  /\ \A s \in Schedule : snap[s] # None => Good(snap[s])
  /\ \A m \in Manager : mgr[m] # Resting => Good(mgr[m].old)

(* Rows are created before they are copied, run or deleted.                 *)
Known(s) == row[s] # None \/ s \in deleted
KnownOK ==
  /\ \A s \in deleted : row[s] = None
  /\ \A s \in Schedule : snap[s] # None => Known(s) /\ snap[s].next <= at
  /\ \A m \in Manager : mgr[m] # Resting => Known(mgr[m].sched)
  /\ \A x \in ran : x.sched \in Schedule /\ Known(x.sched) /\ x.rev \in Nat
  /\ pc = "idle" => \A s \in Schedule : snap[s] = None
  /\ pc # "idle" => at <= now
  /\ pc \in {"idle", "pick"} => cur = None

(* Without overlap a copy is as good as the row.                            *)
CopiesOK == ~overlap =>
  /\ \A s \in Schedule : snap[s] # None => row[s] \in {snap[s], None}
  /\ \A m \in Manager : mgr[m] # Resting => row[mgr[m].sched] \in {mgr[m].old, None}

(* The runs so far are of revisions up to that of the row, and those of its *)
(* revision have its definition.                                            *)
Continues(s, r) == \A x \in ran : x.sched = s =>
  x.rev <= r.rev /\ (x.rev = r.rev => x.plan = Plan(r))
HistoryOK == ~overlap =>
  /\ \A s \in Schedule : row[s] # None => Continues(s, row[s])
  /\ \A s \in Schedule : snap[s] # None => Continues(s, snap[s])
  /\ OneDefinitionPerRevision

(* Which due times may have been served already: only those of the schedule *)
(* that is about to be advanced.                                            *)
Advancing(s) == pc = "advance" /\ cur = s
ServedOK == ~overlap /\ ~Faulty =>
  /\ ~repeated
  /\ \A x \in served : /\ x \in Schedule \X Label \X Nat
                       /\ Known(x[1]) /\ x[3] <= now
                       /\ pc # "idle" => x[3] <= at
  /\ \A s \in Schedule : row[s] # None => \A l \in Named(row[s].targets) :
       <<s, l, row[s].targets[l].next>> \in served => Advancing(s)
  /\ \A s \in Schedule : snap[s] # None /\ ~Advancing(s) =>
       \A l \in Named(snap[s].targets) : <<s, l, snap[s].targets[l].next>> \notin served
  /\ \A m \in Manager : mgr[m] # Resting => \A l \in Label :
       /\ row[mgr[m].sched] # None
       /\ <<mgr[m].sched, l, mgr[m].at>> \in served
       => snap[mgr[m].sched] # None

SchedInv ==
  TypeOK /\ RowsGood /\ KnownOK /\ CopiesOK /\ EditsKept /\ HistoryOK /\ ServedOK
=============================================================================
