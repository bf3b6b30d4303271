-------------------------- MODULE SchedulesProofs --------------------------
(***************************************************************************)
(* Proofs about Schedules. SchedInv is inductive; the properties of the     *)
(* rows hold always, the others until two writers of one row overlap.       *)
(***************************************************************************)
EXTENDS SchedulesInductive, WellFoundedInduction, TLAPS

-----------------------------------------------------------------------------
(* Rows *)

(* A set of due times has a first one.                                      *)
LEMMA HasFirst ==
  ASSUME NEW S \in SUBSET Nat, S # {}
  PROVE  \E t \in S : \A u \in S : t <= u
<1>1. PICK t \in S : \A u \in S : ~(<<u, t>> \in OpToRel(<, Nat))
  BY NatLessThanWellFounded, WFMin, Zenon
<1>2. \A u \in S : ~(u < t)
  <2> SUFFICES ASSUME NEW u \in S, u < t PROVE FALSE
    OBVIOUS
  <2>3. <<u, t>> \in OpToRel(<, Nat)
    BY DEF OpToRel
  <2> QED BY <1>1, <2>3
<1> QED BY <1>2

(* EarliestRun is the first of the next runs.                               *)
LEMMA Earliest ==
  ASSUME NEW ts \in Targets
  PROVE  /\ EarliestRun(ts) \in Nat
         /\ \A l \in Named(ts) : EarliestRun(ts) <= ts[l].next
         /\ \E l \in Named(ts) : EarliestRun(ts) = ts[l].next
<1>1. NextRuns(ts) \in SUBSET Nat /\ NextRuns(ts) # {}
  BY DEF NextRuns, Targets, Target, Named
<1>2. \E t \in NextRuns(ts) : \A u \in NextRuns(ts) : t <= u
  BY <1>1, HasFirst
<1>3. /\ EarliestRun(ts) \in NextRuns(ts)
      /\ \A u \in NextRuns(ts) : EarliestRun(ts) <= u
  BY <1>2 DEF EarliestRun
<1> QED BY <1>1, <1>3 DEF NextRuns

(* A row of a request is a row whose time is right.                         *)
LEMMA NewRowOK ==
  ASSUME NEW rev \in Nat \ {0}, NEW req \in Request, NEW ts \in Targets
  PROVE  /\ NewRow(rev, req, ts) \in Row
         /\ FirstIsNext(NewRow(rev, req, ts))
<1>1. EarliestRun(ts) \in Nat
  BY Earliest
<1>2. NewRow(rev, req, ts) \in Row
  BY <1>1, SchedulesAssumption DEF NewRow, Row
<1>3. FirstIsNext(NewRow(rev, req, ts))
  BY Earliest DEF FirstIsNext, NewRow
<1> QED BY <1>2, <1>3

LEMMA FreshOK ==
  ASSUME NEW req \in Request, NEW t \in Nat
  PROVE  LET ts == FreshTargets(req.pick, t) IN
         /\ ts \in Targets
         /\ Named(ts) = Named(req.pick)
         /\ \A l \in Named(ts) : ts[l].next = t /\ ts[l].last = None
         /\ Selection(ts) = Selection(req.pick) /\ Rhythm(ts) = Rhythm(req.pick)
<1> DEFINE ts == FreshTargets(req.pick, t)
<1>1. req.pick \in Choices
  BY SchedulesAssumption
<1>2. \A l \in Label : req.pick[l] # None =>
        /\ ts[l] \in Target /\ ts[l] # None
        /\ ts[l].next = t /\ ts[l].last = None
        /\ ts[l].allow = req.pick[l].allow /\ ts[l].every = req.pick[l].every
  BY <1>1, NoneAssumption DEF FreshTargets, Choices, Choice, Target
<1>3. \A l \in Label : req.pick[l] = None => ts[l] = None
  BY DEF FreshTargets
<1>4. Named(ts) = Named(req.pick)
  BY <1>2, <1>3 DEF Named
<1>5. ts \in Targets
  <2>1. ts \in [Label -> Target \cup {None}]
    BY <1>2, <1>3 DEF FreshTargets
  <2> QED BY <2>1, <1>1, <1>4 DEF Targets, Choices
<1>6. Selection(ts) = Selection(req.pick) /\ Rhythm(ts) = Rhythm(req.pick)
  BY <1>2, <1>3 DEF Selection, Rhythm
<1> HIDE DEF ts
<1>7. \A l \in Named(ts) : ts[l].next = t /\ ts[l].last = None
  BY <1>2, <1>4 DEF Named
<1> QED BY <1>4, <1>5, <1>6, <1>7 DEF ts

(* createSchedule stores a good row, due at once.                           *)
LEMMA CreatedOK ==
  ASSUME NEW req \in Request, NEW t \in Nat
  PROVE  LET r == CreatedRow(req, t) IN
         /\ r \in Row /\ Good(r)
         /\ \A l \in Named(r.targets) : r.targets[l].next = t
<1> DEFINE ts == FreshTargets(req.pick, t)
<1>1. CreatedRow(req, t).targets = ts
  BY DEF CreatedRow, NewRow
<1>2. CreatedRow(req, t) \in Row /\ FirstIsNext(CreatedRow(req, t))
  BY FreshOK, NewRowOK DEF CreatedRow
<1>3. \A l \in Named(ts) : ts[l].next = t /\ ts[l].last = None
  BY FreshOK
<1> QED BY <1>1, <1>2, <1>3 DEF Good, LastIsPast

(* updateSchedule stores a good row that says what the request says. Its    *)
(* revision moves unless its definition stays, and the due time of a target *)
(* is the time of the request or what it was.                               *)
LEMMA EditedOK ==
  ASSUME NEW old \in Row, Good(old), NEW req \in Request, NEW t \in Nat
  PROVE  LET r == EditedRow(old, req, t) IN
         /\ r \in Row /\ Good(r)
         /\ r.enabled = req.enabled /\ r.def = req.def
         /\ Selection(r.targets) = Selection(req.pick)
         /\ Rhythm(r.targets) = Rhythm(req.pick)
         /\ r.rev = old.rev + 1 \/ (r.rev = old.rev /\ Plan(r) = Plan(old))
         /\ \A l \in Named(r.targets) :
              \/ r.targets[l].next = t
              \/ l \in Named(old.targets) /\ r.targets[l].next = old.targets[l].next
<1> DEFINE r  == EditedRow(old, req, t)
           ts == mergeScheduleTargetRunState(old, req, t)
           rev == IF scheduleDefinitionChanged(old, req) THEN old.rev + 1 ELSE old.rev
<1>1. /\ ts \in Targets
      /\ Selection(ts) = Selection(req.pick) /\ Rhythm(ts) = Rhythm(req.pick)
      /\ \A l \in Named(ts) :
           \/ ts[l].next = t /\ ts[l].last = None
           \/ /\ l \in Named(old.targets) /\ ts[l].next = old.targets[l].next
              /\ ts[l].last = old.targets[l].last
  <2>1. CASE \/ scheduleDefinitionChanged(old, req)
             \/ scheduleIntervalsChanged(old, req)
             \/ ~old.enabled
    <3>1. ts = FreshTargets(req.pick, t)
      BY <2>1 DEF mergeScheduleTargetRunState
    <3> HIDE DEF ts
    <3> QED BY <3>1, FreshOK
  <2>2. CASE ~(\/ scheduleDefinitionChanged(old, req)
               \/ scheduleIntervalsChanged(old, req)
               \/ ~old.enabled)
    <3>1. ts = [l \in Label |-> IF req.pick[l] = None THEN None
                 ELSE [every |-> req.pick[l].every, allow |-> req.pick[l].allow,
                       next |-> old.targets[l].next, last |-> old.targets[l].last]]
      BY <2>2 DEF mergeScheduleTargetRunState
    <3>2. req.pick \in Choices /\ old.targets \in Targets
      BY SchedulesAssumption DEF Row
    <3>3. \A l \in Label : req.pick[l] # None => old.targets[l] \in Target
      BY <2>2, <3>2 DEF scheduleIntervalsChanged, Named, Targets
    <3>4. \A l \in Label : req.pick[l] # None =>
            /\ ts[l] \in Target /\ ts[l] # None /\ l \in Named(old.targets)
            /\ ts[l].next = old.targets[l].next /\ ts[l].last = old.targets[l].last
            /\ ts[l].allow = req.pick[l].allow /\ ts[l].every = req.pick[l].every
      <4> SUFFICES ASSUME NEW l \in Label, req.pick[l] # None
                   PROVE  /\ ts[l] \in Target /\ ts[l] # None /\ l \in Named(old.targets)
                          /\ ts[l].next = old.targets[l].next
                          /\ ts[l].last = old.targets[l].last
                          /\ ts[l].allow = req.pick[l].allow
                          /\ ts[l].every = req.pick[l].every
        OBVIOUS
      <4>1. old.targets[l] \in Target /\ l \in Named(old.targets)
        BY <3>3, NoneAssumption DEF Named
      <4>2. req.pick[l] \in Choice
        BY <3>2 DEF Choices
      <4>3. ts[l] = [every |-> req.pick[l].every, allow |-> req.pick[l].allow,
                     next |-> old.targets[l].next, last |-> old.targets[l].last]
        BY <3>1
      <4> HIDE DEF ts
      <4> QED BY <4>1, <4>2, <4>3, NoneAssumption DEF Choice, Target
    <3>5. \A l \in Label : req.pick[l] = None => ts[l] = None
      BY <3>1
    <3>6. Named(ts) = Named(req.pick)
      <4> HIDE DEF ts
      <4> QED BY <3>4, <3>5 DEF Named
    <3>7. ts \in Targets
      <4>1. ts \in [Label -> Target \cup {None}]
        <5>1. \A l \in Label : ts[l] \in Target \cup {None}
          BY <3>4, <3>5
        <5>2. ts = [l \in Label |-> ts[l]]
          BY <3>1
        <5> HIDE DEF ts
        <5> QED BY <5>1, <5>2
      <4> HIDE DEF ts
      <4> QED BY <4>1, <3>2, <3>6 DEF Targets, Choices
    <3>8. Selection(ts) = Selection(req.pick) /\ Rhythm(ts) = Rhythm(req.pick)
      <4> HIDE DEF ts
      <4> QED BY <3>4, <3>5 DEF Selection, Rhythm
    <3> HIDE DEF ts
    <3> QED BY <3>4, <3>6, <3>7, <3>8 DEF Named
  <2> QED BY <2>1, <2>2
<1> HIDE DEF ts
<1>2. r = NewRow(rev, req, ts)
  BY DEF EditedRow, ts
<1>3. rev \in Nat \ {0}
  BY DEF Row
<1>4. r \in Row /\ FirstIsNext(r)
  BY <1>1, <1>2, <1>3, NewRowOK
<1>5. r.targets = ts /\ r.enabled = req.enabled /\ r.def = req.def /\ r.rev = rev
  BY <1>2 DEF NewRow
<1>6. LastIsPast(r)
  BY <1>1, <1>5 DEF Good, LastIsPast
<1>7. r.rev = old.rev + 1 \/ (r.rev = old.rev /\ Plan(r) = Plan(old))
  BY <1>1, <1>5 DEF scheduleDefinitionChanged, Plan
<1> HIDE DEF r
<1>8. /\ r \in Row /\ Good(r)
      /\ r.enabled = req.enabled /\ r.def = req.def
      /\ Selection(r.targets) = Selection(req.pick)
      /\ Rhythm(r.targets) = Rhythm(req.pick)
      /\ r.rev = old.rev + 1 \/ (r.rev = old.rev /\ Plan(r) = Plan(old))
      /\ \A l \in Named(r.targets) :
           \/ r.targets[l].next = t
           \/ l \in Named(old.targets) /\ r.targets[l].next = old.targets[l].next
  BY <1>1, <1>4, <1>5, <1>6, <1>7 DEF Good
<1> QED BY <1>8 DEF r

(* Advancing a row that was run at t: nothing is due at t any more, and     *)
(* nothing else changes.                                                    *)
LEMMA AdvancedOK ==
  ASSUME NEW r \in Row, Good(r), NEW t \in Nat
  PROVE  LET a == Advanced(r, t) IN
         /\ a \in Row /\ Good(a)
         /\ a.rev = r.rev /\ a.enabled = r.enabled /\ a.def = r.def
         /\ Selection(a.targets) = Selection(r.targets)
         /\ Rhythm(a.targets) = Rhythm(r.targets)
         /\ \A l \in Named(a.targets) : a.targets[l].next > t
<1> DEFINE due == dueScheduleTargets(r, t)
           ts == advanceScheduleTargets(r.targets, due, t)
           a == Advanced(r, t)
<1>1. r.targets \in Targets
  BY DEF Row
<1>2. \A l \in Label : r.targets[l] # None =>
        /\ r.targets[l] \in Target
        /\ ts[l] \in Target /\ ts[l] # None /\ ts[l].next > t
        /\ ts[l].last # None => ts[l].last < ts[l].next
        /\ ts[l].allow = r.targets[l].allow /\ ts[l].every = r.targets[l].every
  <2> SUFFICES ASSUME NEW l \in Label, r.targets[l] # None
               PROVE  /\ r.targets[l] \in Target
                      /\ ts[l] \in Target /\ ts[l] # None /\ ts[l].next > t
                      /\ ts[l].last # None => ts[l].last < ts[l].next
                      /\ ts[l].allow = r.targets[l].allow
                      /\ ts[l].every = r.targets[l].every
    OBVIOUS
  <2>1. r.targets[l] \in Target /\ l \in Named(r.targets)
    BY <1>1 DEF Targets, Named
  <2>2. CASE l \in due
    <3> DEFINE n == nextScheduleTargetRun(r.targets[l], t)
    <3>1. n \in Nat /\ n > t
      BY <2>1 DEF nextScheduleTargetRun, Target
    <3>2. ts[l] = [r.targets[l] EXCEPT !.last = t, !.next = n]
      BY <2>2 DEF advanceScheduleTargets
    <3> HIDE DEF n, ts
    <3> QED BY <2>1, <3>1, <3>2, NoneAssumption DEF Target
  <2>3. CASE l \notin due
    <3>1. ts[l] = r.targets[l]
      BY <2>3 DEF advanceScheduleTargets
    <3>2. r.targets[l].next > t
      BY <2>1, <2>3 DEF dueScheduleTargets, Target
    <3>3. r.targets[l].last # None => r.targets[l].last < r.targets[l].next
      BY <2>1 DEF Good, LastIsPast
    <3> HIDE DEF ts
    <3> QED BY <2>1, <3>1, <3>2, <3>3, NoneAssumption
  <2> QED BY <2>2, <2>3
<1>3. \A l \in Label : r.targets[l] = None => ts[l] = None
  BY DEF advanceScheduleTargets, dueScheduleTargets, Named
<1>4. ts = [l \in Label |-> ts[l]]
  BY DEF advanceScheduleTargets
<1> HIDE DEF ts
<1>5. Named(ts) = Named(r.targets)
  BY <1>2, <1>3 DEF Named
<1>6. ts \in Targets
  <2>1. \A l \in Label : ts[l] \in Target \cup {None}
    BY <1>2, <1>3
  <2>2. ts \in [Label -> Target \cup {None}]
    BY <2>1, <1>4
  <2> QED BY <2>2, <1>1, <1>5 DEF Targets
<1>7. Selection(ts) = Selection(r.targets) /\ Rhythm(ts) = Rhythm(r.targets)
  BY <1>2, <1>3 DEF Selection, Rhythm
<1>8. a = [r EXCEPT !.targets = ts, !.next = EarliestRun(ts)]
  BY DEF Advanced, ts
<1>9. /\ EarliestRun(ts) \in Nat
      /\ \A l \in Named(ts) : EarliestRun(ts) <= ts[l].next
      /\ \E l \in Named(ts) : EarliestRun(ts) = ts[l].next
  BY <1>6, Earliest
<1> HIDE DEF a
<1>10. /\ a \in Row /\ a.targets = ts /\ a.next = EarliestRun(ts)
       /\ a.rev = r.rev /\ a.enabled = r.enabled /\ a.def = r.def
  BY <1>6, <1>8, <1>9 DEF Row
<1>11. Good(a)
  BY <1>2, <1>5, <1>9, <1>10 DEF Good, FirstIsNext, LastIsPast, Named
<1>12. \A l \in Named(a.targets) : a.targets[l].next > t
  BY <1>2, <1>5, <1>10 DEF Named
<1> QED BY <1>7, <1>10, <1>11, <1>12 DEF a

(* UpdateScheduledJobRun: in either kind of store the row stays good and    *)
(* has the targets of the copy; over an unchanged row it is the copy.       *)
LEMMA WrittenOK ==
  ASSUME NEW stored \in Row, NEW a \in Row, Good(a)
  PROVE  LET w == RunWritten(stored, a) IN
         /\ w \in Row /\ Good(w) /\ w.targets = a.targets
         /\ /\ stored.rev = a.rev /\ stored.enabled = a.enabled /\ stored.def = a.def
            => w.rev = a.rev /\ w.enabled = a.enabled /\ w.def = a.def
<1> DEFINE w == RunWritten(stored, a)
<1>1. CASE WholeRow
  BY <1>1 DEF RunWritten
<1>2. CASE ~WholeRow
  <2>1. w = [stored EXCEPT !.targets = a.targets, !.next = a.next]
    BY <1>2 DEF RunWritten
  <2> HIDE DEF w
  <2>2. /\ w \in Row /\ w.targets = a.targets /\ w.next = a.next
        /\ w.rev = stored.rev /\ w.enabled = stored.enabled /\ w.def = stored.def
    BY <2>1 DEF Row
  <2>3. Good(w)
    BY <2>2 DEF Good, FirstIsNext, LastIsPast
  <2> QED BY <2>2, <2>3 DEF w
<1> QED BY <1>1, <1>2

-----------------------------------------------------------------------------
(* The inductive invariant *)

LEMMA ManagerType ==
  ASSUME TypeOK, NEW m \in Manager, mgr[m] # Resting
  PROVE  /\ mgr[m].pc = "write" /\ mgr[m].sched \in Schedule
         /\ mgr[m].old \in Row /\ mgr[m].at \in Nat
BY DEF TypeOK, Request_State

(* Faults are not forgotten.                                                *)
LEMMA FaultyStays ==
  ASSUME TypeOK, errs' \in {errs, errs + 1}, crashes' = crashes
  PROVE  ~Faulty' => ~Faulty
<1>1. errs \in Nat /\ crashes \in Nat
  BY DEF TypeOK
<1>2. CASE errs' = errs
  BY <1>2 DEF Faulty
<1>3. CASE errs' = errs + 1
  BY <1>1, <1>3 DEF Faulty
<1> QED BY <1>2, <1>3

LEMMA FailureIsFault ==
  ASSUME TypeOK, errs' = errs + 1, crashes' = crashes
  PROVE  Faulty'
<1>1. errs \in Nat /\ crashes \in Nat
  BY DEF TypeOK
<1> QED BY <1>1 DEF Faulty

LEMMA RestingNowhere == Resting.sched \notin Schedule
BY SchedulesAssumption DEF Resting

LEMMA InitInv == Init => SchedInv
<1> SUFFICES ASSUME Init PROVE SchedInv
  OBVIOUS
<1> USE DEF Init
<1>1. TypeOK
  BY DEF TypeOK, Request_State
<1>2. RowsGood
  BY DEF RowsGood
<1>3. KnownOK
  BY DEF KnownOK
<1>4. CopiesOK
  BY DEF CopiesOK
<1>5. EditsKept
  BY DEF EditsKept
<1>6. HistoryOK
  BY DEF HistoryOK, OneDefinitionPerRevision
<1>7. ServedOK
  BY DEF ServedOK
<1> QED BY <1>1, <1>2, <1>3, <1>4, <1>5, <1>6, <1>7 DEF SchedInv

(* Steps that touch no row and no copy, only the clock.                     *)
LEMMA TickStep ==
  ASSUME SchedInv, Tick
  PROVE  SchedInv'
<1> USE DEF SchedInv, Tick, sweepVars
<1>1. TypeOK'
  BY DEF TypeOK
<1>2. RowsGood'
  BY DEF RowsGood
<1>3. KnownOK'
  BY DEF KnownOK, Known, TypeOK
<1>4. CopiesOK'
  BY DEF CopiesOK
<1>5. EditsKept'
  BY DEF EditsKept
<1>6. HistoryOK'
  BY DEF HistoryOK, OneDefinitionPerRevision, Continues
<1>7. ServedOK'
  BY DEF ServedOK, Known, Advancing, Faulty, TypeOK
<1> QED BY <1>1, <1>2, <1>3, <1>4, <1>5, <1>6, <1>7

LEMMA CrashStep ==
  ASSUME SchedInv, Crash
  PROVE  SchedInv'
<1> USE DEF SchedInv, Crash
<1>1. TypeOK'
  BY DEF TypeOK, Request_State
<1>2. RowsGood'
  BY DEF RowsGood
<1>3. KnownOK'
  BY DEF KnownOK, Known
<1>4. CopiesOK'
  BY DEF CopiesOK
<1>5. EditsKept'
  BY DEF EditsKept
<1>6. HistoryOK'
  BY DEF HistoryOK, OneDefinitionPerRevision, Continues
<1>7. ServedOK'
  <2>1. Faulty'
    BY DEF Faulty, TypeOK
  <2> QED BY <2>1 DEF ServedOK
<1> QED BY <1>1, <1>2, <1>3, <1>4, <1>5, <1>6, <1>7

LEMMA UpdateReadStep ==
  ASSUME SchedInv, NEW m \in Manager, NEW s \in Schedule, UpdateRead(m, s)
  PROVE  SchedInv'
<1> USE DEF SchedInv, UpdateRead, sweepVars
<1> DEFINE f == [pc |-> "write", sched |-> s, old |-> row[s], at |-> now + 1]
<1>1. row[s] \in Row /\ now + 1 \in Nat /\ f \in Request_State /\ now \in Nat
  BY DEF TypeOK, Request_State
<1>2. mgr' = [mgr EXCEPT ![m] = f] /\ mgr \in [Manager -> Request_State]
  BY DEF TypeOK
<1>3. /\ f.sched = s /\ f.old = row[s] /\ f.at = now + 1
      /\ \A n \in Manager : mgr'[n] = IF n = m THEN f ELSE mgr[n]
  BY <1>2
<1> HIDE DEF f
<1>4. TypeOK'
  BY <1>1, <1>2 DEF TypeOK
<1>5. RowsGood'
  BY <1>3 DEF RowsGood
<1>6. KnownOK'
  BY <1>1, <1>3 DEF KnownOK, Known, TypeOK
<1>7. CopiesOK'
  BY <1>3 DEF CopiesOK
<1>8. EditsKept'
  BY DEF EditsKept
<1>9. HistoryOK'
  BY DEF HistoryOK, OneDefinitionPerRevision, Continues
<1>10. ServedOK'
  <2> SUFFICES ASSUME ~overlap, ~Faulty
               PROVE  ServedOK'
    BY DEF ServedOK, Faulty
  <2>1. \A x \in served : x \in Schedule \X Label \X Nat /\ x[3] <= now
    BY DEF ServedOK
  <2>2. \A l \in Label : <<s, l, now + 1>> \notin served
    BY <2>1, <1>1
  <2>3. \A x \in served' : /\ x \in Schedule \X Label \X Nat
                           /\ Known(x[1])' /\ x[3] <= now'
                           /\ pc' # "idle" => x[3] <= at'
    BY <2>1, <1>1 DEF ServedOK, Known
  <2>4. (\A n \in Manager : mgr[n] # Resting => \A l \in Label :
          /\ row[mgr[n].sched] # None
          /\ <<mgr[n].sched, l, mgr[n].at>> \in served
          => snap[mgr[n].sched] # None)'
    BY <1>3, <2>2 DEF ServedOK
  <2> QED BY <2>3, <2>4 DEF ServedOK, Advancing
<1> QED BY <1>4, <1>5, <1>6, <1>7, <1>8, <1>9, <1>10

LEMMA UpdateRefusedStep ==
  ASSUME SchedInv, NEW m \in Manager, UpdateRefused(m)
  PROVE  SchedInv'
<1> USE DEF SchedInv, UpdateRefused, sweepVars
<1>1. /\ mgr \in [Manager -> Request_State] /\ mgr' \in [Manager -> Request_State]
      /\ \A n \in Manager : mgr'[n] # Resting => mgr'[n] = mgr[n]
  BY DEF TypeOK, Request_State
<1>2. TypeOK'
  BY <1>1 DEF TypeOK
<1>3. RowsGood'
  BY <1>1 DEF RowsGood
<1>4. KnownOK'
  BY <1>1 DEF KnownOK, Known
<1>5. CopiesOK'
  BY <1>1 DEF CopiesOK
<1>6. EditsKept'
  BY DEF EditsKept
<1>7. HistoryOK'
  BY DEF HistoryOK, OneDefinitionPerRevision, Continues
<1>8. ServedOK'
  BY <1>1 DEF ServedOK, Known, Advancing, Faulty
<1> QED BY <1>2, <1>3, <1>4, <1>5, <1>6, <1>7, <1>8

(* Nothing was copied, run or served of a schedule that is new.             *)
LEMMA CreateScheduleStep ==
  ASSUME SchedInv, NEW s \in Schedule, CreateSchedule(s)
  PROVE  SchedInv'
<1> USE DEF SchedInv
<1>1. PICK req \in Request, stored \in BOOLEAN :
        /\ row[s] = None /\ s \notin deleted
        /\ edits' = edits + 1
        /\ now' = now + 1
        /\ errs' \in {errs, errs + 1}
        /\ row' = IF stored THEN [row EXCEPT ![s] = CreatedRow(req, now')] ELSE row
        /\ accepted' = IF stored THEN [accepted EXCEPT ![s] = Settings(row'[s])] ELSE accepted
        /\ UNCHANGED <<deleted, mgr, sweepVars, crashes, ran, served, repeated, overlap>>
  BY DEF CreateSchedule, Works, Fails
<1>2. now \in Nat /\ now' \in Nat /\ now' = now + 1
  BY <1>1 DEF TypeOK
<1>3. /\ UNCHANGED <<deleted, mgr, pc, at, snap, cur, crashes, ran, served, repeated, overlap>>
      /\ errs' \in {errs, errs + 1} /\ edits' = edits + 1
  BY <1>1 DEF sweepVars
<1> DEFINE r == CreatedRow(req, now')
<1>4. /\ r \in Row /\ Good(r) /\ r # None
      /\ \A l \in Named(r.targets) : r.targets[l].next = now'
  BY <1>2, CreatedOK, NoneAssumption
<1> HIDE DEF r
<1>5. \A k \in Schedule : row'[k] = row[k] \/ (k = s /\ row'[k] = r)
  BY <1>1 DEF r, TypeOK
<1>6. \A k \in Schedule : k # s => row'[k] = row[k]
  BY <1>1 DEF TypeOK
<1>7. snap[s] = None /\ \A m \in Manager : mgr[m] # Resting => mgr[m].sched # s
  BY <1>1 DEF KnownOK, Known
<1>8. \A x \in ran : x.sched # s
  BY <1>1 DEF KnownOK, Known
<1>9. TypeOK'
  <2>1. row' \in [Schedule -> Row \cup {None}]
    BY <1>1, <1>4 DEF TypeOK, r
  <2>2. DOMAIN accepted' = Schedule
    BY <1>1 DEF TypeOK
  <2> QED BY <2>1, <2>2, <1>2, <1>3 DEF TypeOK
<1>10. RowsGood'
  BY <1>3, <1>4, <1>5 DEF RowsGood
<1>11. KnownOK'
  BY <1>1, <1>2, <1>3, <1>5, <1>6, <1>7, <1>8, ManagerType DEF KnownOK, Known, TypeOK
<1>12. CopiesOK'
  BY <1>3, <1>6, <1>7, ManagerType DEF CopiesOK
<1>13. EditsKept'
  <2> SUFFICES ASSUME ~overlap, NEW k \in Schedule, row'[k] # None
               PROVE  Settings(row'[k]) = accepted'[k]
    BY <1>3 DEF EditsKept, Settings
  <2>1. CASE k # s
    BY <2>1, <1>1, <1>6 DEF EditsKept, Settings
  <2>2. CASE k = s
    BY <2>2, <1>1 DEF EditsKept, TypeOK
  <2> QED BY <2>1, <2>2
<1>14. HistoryOK'
  BY <1>3, <1>6, <1>8 DEF HistoryOK, OneDefinitionPerRevision, Continues
<1>15. ServedOK'
  <2> SUFFICES ASSUME ~overlap, ~Faulty
               PROVE  ServedOK'
    BY <1>3 DEF ServedOK, Faulty, TypeOK
  <2>1. \A x \in served : /\ x \in Schedule \X Label \X Nat
                          /\ Known(x[1]) /\ x[3] <= now
                          /\ pc # "idle" => x[3] <= at
    BY DEF ServedOK
  <2>2. \A x \in served : x[1] # s
    BY <2>1, <1>1 DEF Known
  <2>3. \A x \in served' : /\ x \in Schedule \X Label \X Nat
                           /\ Known(x[1])' /\ x[3] <= now'
                           /\ pc' # "idle" => x[3] <= at'
    <3> SUFFICES ASSUME NEW x \in served
                 PROVE  Known(x[1])' /\ x[3] <= now'
      BY <2>1, <1>3
    <3>1. x[1] \in Schedule /\ x[1] # s /\ x[3] \in Nat
      BY <2>1, <2>2
    <3> QED BY <3>1, <2>1, <1>2, <1>3, <1>6 DEF Known
  <2>4. (\A k \in Schedule : row[k] # None => \A l \in Named(row[k].targets) :
          <<k, l, row[k].targets[l].next>> \in served => Advancing(k))'
    <3> SUFFICES ASSUME NEW k \in Schedule, row'[k] # None, k # s,
                        NEW l \in Named(row[k].targets),
                        <<k, l, row[k].targets[l].next>> \in served
                 PROVE  Advancing(k)
      BY <1>3, <1>6, <2>2 DEF Advancing, Named
    <3> QED BY <1>6 DEF ServedOK
  <2>5. (\A m \in Manager : mgr[m] # Resting => \A l \in Label :
          /\ row[mgr[m].sched] # None
          /\ <<mgr[m].sched, l, mgr[m].at>> \in served
          => snap[mgr[m].sched] # None)'
    BY <1>3, <1>6, <1>7, ManagerType DEF ServedOK
  <2>6. (\A k \in Schedule : snap[k] # None /\ ~Advancing(k) =>
       \A l \in Named(snap[k].targets) : <<k, l, snap[k].targets[l].next>> \notin served)'
    BY <1>3 DEF ServedOK, Advancing, Named
  <2>7. ~repeated'
    BY <1>3 DEF ServedOK
  <2> QED BY <2>3, <2>4, <2>5, <2>6, <2>7 DEF ServedOK
<1> QED BY <1>9, <1>10, <1>11, <1>12, <1>13, <1>14, <1>15

LEMMA DeleteScheduleStep ==
  ASSUME SchedInv, NEW s \in Schedule, DeleteSchedule(s)
  PROVE  SchedInv'
<1> USE DEF SchedInv
<1>1. PICK stored \in BOOLEAN :
        /\ edits' = edits + 1
        /\ errs' \in {errs, errs + 1}
        /\ IF stored THEN /\ row' = [row EXCEPT ![s] = None]
                          /\ deleted' = deleted \cup {s}
                     ELSE UNCHANGED <<row, deleted>>
        /\ UNCHANGED <<now, mgr, sweepVars, crashes, ran, served, repeated, accepted, overlap>>
  BY DEF DeleteSchedule, Works, Fails
<1>2. /\ UNCHANGED <<now, mgr, pc, at, snap, cur, crashes, ran, served, repeated,
                     accepted, overlap>>
      /\ errs' \in {errs, errs + 1} /\ edits' = edits + 1
  BY <1>1 DEF sweepVars
<1>3. \A k \in Schedule : /\ row'[k] # None => row'[k] = row[k]
                          /\ Known(k) => Known(k)'
  BY <1>1 DEF TypeOK, Known
<1>4. TypeOK'
  BY <1>1, <1>2 DEF TypeOK
<1>5. RowsGood'
  BY <1>2, <1>3 DEF RowsGood
<1>6. KnownOK'
  <2>1. \A k \in deleted' : row'[k] = None
    BY <1>1 DEF KnownOK, TypeOK
  <2> QED BY <2>1, <1>2, <1>3, ManagerType DEF KnownOK
<1>7. CopiesOK'
  BY <1>2, <1>3, ManagerType DEF CopiesOK
<1>8. EditsKept'
  BY <1>2, <1>3 DEF EditsKept, Settings
<1>9. HistoryOK'
  BY <1>2, <1>3 DEF HistoryOK, OneDefinitionPerRevision, Continues
<1>10. ServedOK'
  <2> SUFFICES ASSUME ~overlap, ~Faulty
               PROVE  ServedOK'
    BY <1>2 DEF ServedOK, Faulty, TypeOK
  <2>1. \A x \in served' : /\ x \in Schedule \X Label \X Nat
                           /\ Known(x[1])' /\ x[3] <= now'
                           /\ pc' # "idle" => x[3] <= at'
    <3> SUFFICES ASSUME NEW x \in served
                 PROVE  /\ x \in Schedule \X Label \X Nat
                        /\ Known(x[1])' /\ x[3] <= now'
                        /\ pc' # "idle" => x[3] <= at'
      BY <1>2
    <3>1. x \in Schedule \X Label \X Nat /\ Known(x[1])
      BY DEF ServedOK
    <3>2. x[1] \in Schedule
      BY <3>1
    <3> QED BY <3>1, <3>2, <1>2, <1>3 DEF ServedOK
  <2>2. (\A k \in Schedule : row[k] # None => \A l \in Named(row[k].targets) :
          <<k, l, row[k].targets[l].next>> \in served => Advancing(k))'
    BY <1>2, <1>3 DEF ServedOK, Advancing, Named
  <2>3. (\A m \in Manager : mgr[m] # Resting => \A l \in Label :
          /\ row[mgr[m].sched] # None
          /\ <<mgr[m].sched, l, mgr[m].at>> \in served
          => snap[mgr[m].sched] # None)'
    BY <1>2, <1>3, ManagerType DEF ServedOK
  <2>4. (\A k \in Schedule : snap[k] # None /\ ~Advancing(k) =>
       \A l \in Named(snap[k].targets) : <<k, l, snap[k].targets[l].next>> \notin served)'
    BY <1>2 DEF ServedOK, Advancing, Named
  <2>5. ~repeated'
    BY <1>2 DEF ServedOK
  <2> QED BY <2>1, <2>2, <2>3, <2>4, <2>5 DEF ServedOK
<1> QED BY <1>4, <1>5, <1>6, <1>7, <1>8, <1>9, <1>10

(* An edit that nothing overlaps with has read the row it replaces.         *)
LEMMA UpdateWriteStep ==
  ASSUME SchedInv, NEW m \in Manager, UpdateWrite(m)
  PROVE  SchedInv'
<1> USE DEF SchedInv
<1> DEFINE s == mgr[m].sched
           old == mgr[m].old
<1>1. PICK req \in Request, stored \in BOOLEAN :
        /\ mgr[m] # Resting
        /\ errs' \in {errs, errs + 1}
        /\ mgr' = [mgr EXCEPT ![m] = Resting]
        /\ IF stored /\ row[s] # None
           THEN /\ row' = [row EXCEPT ![s] = EditedRow(old, req, mgr[m].at)]
                /\ accepted' = [accepted EXCEPT ![s] =
                     [rev |-> row'[s].rev, enabled |-> req.enabled, def |-> req.def,
                      sel |-> Selection(req.pick), every |-> Rhythm(req.pick)]]
                /\ overlap' = (overlap \/ Listed(s)
                               \/ \E n \in Manager \ {m} : mgr[n].sched = s)
           ELSE UNCHANGED <<row, accepted, overlap>>
        /\ UNCHANGED <<now, deleted, sweepVars, edits, crashes, ran, served, repeated>>
  BY DEF UpdateWrite, Works, Fails
<1>2. /\ UNCHANGED <<now, deleted, pc, at, snap, cur, edits, crashes, ran, served, repeated>>
      /\ errs' \in {errs, errs + 1}
  BY <1>1 DEF sweepVars
<1>3. /\ mgr[m].pc = "write" /\ s \in Schedule /\ old \in Row /\ mgr[m].at \in Nat
      /\ Good(old)
  BY <1>1, ManagerType DEF RowsGood
<1> DEFINE r == EditedRow(old, req, mgr[m].at)
<1>4. /\ r \in Row /\ Good(r) /\ r # None
      /\ r.enabled = req.enabled /\ r.def = req.def
      /\ Selection(r.targets) = Selection(req.pick)
      /\ Rhythm(r.targets) = Rhythm(req.pick)
      /\ r.rev = old.rev + 1 \/ (r.rev = old.rev /\ Plan(r) = Plan(old))
      /\ \A l \in Named(r.targets) :
           \/ r.targets[l].next = mgr[m].at
           \/ l \in Named(old.targets) /\ r.targets[l].next = old.targets[l].next
  BY <1>3, EditedOK, NoneAssumption
<1>5. /\ mgr' \in [Manager -> Request_State]
      /\ \A n \in Manager : mgr'[n] # Resting => mgr'[n] = mgr[n] /\ n # m
  BY <1>1 DEF TypeOK, Request_State
<1>8. ~Faulty' => ~Faulty
  BY <1>2, FaultyStays
<1>6. CASE ~(stored /\ row[s] # None)
  <2>1. UNCHANGED <<row, accepted, overlap>>
    BY <1>1, <1>6
  <2>2. TypeOK'
    BY <2>1, <1>2, <1>5 DEF TypeOK
  <2>3. RowsGood'
    BY <2>1, <1>2, <1>5 DEF RowsGood
  <2>4. KnownOK'
    BY <2>1, <1>2, <1>5 DEF KnownOK, Known
  <2>5. CopiesOK'
    BY <2>1, <1>2, <1>5 DEF CopiesOK
  <2>6. EditsKept'
    BY <2>1 DEF EditsKept
  <2>7. HistoryOK'
    BY <2>1, <1>2 DEF HistoryOK, OneDefinitionPerRevision, Continues
  <2>8. ServedOK'
    <3> QED BY <1>8, <2>1, <1>2, <1>5 DEF ServedOK, Known, Advancing
  <2> QED BY <2>2, <2>3, <2>4, <2>5, <2>6, <2>7, <2>8
<1>7. CASE stored /\ row[s] # None
  <2>1. /\ row' = [row EXCEPT ![s] = r]
        /\ accepted' = [accepted EXCEPT ![s] =
             [rev |-> row'[s].rev, enabled |-> req.enabled, def |-> req.def,
              sel |-> Selection(req.pick), every |-> Rhythm(req.pick)]]
        /\ overlap' = (overlap \/ Listed(s) \/ \E n \in Manager \ {m} : mgr[n].sched = s)
    BY <1>1, <1>7
  <2> HIDE DEF r
  <2>2. row'[s] = r /\ \A k \in Schedule : k # s => row'[k] = row[k]
    BY <2>1, <1>3 DEF TypeOK
  <2>3. \A k \in Schedule : Known(k) => Known(k)'
    BY <2>2, <1>2, <1>4 DEF Known
  <2>4. ~overlap' => /\ ~overlap /\ snap[s] = None
                     /\ \A n \in Manager : n # m => mgr[n].sched # s
                     /\ row[s] = old
    BY <2>1, <1>1, <1>7 DEF Listed, CopiesOK
  <2>5. TypeOK'
    <3>1. row' \in [Schedule -> Row \cup {None}]
      BY <2>1, <1>4 DEF TypeOK
    <3>2. DOMAIN accepted' = Schedule /\ overlap' \in BOOLEAN
      BY <2>1 DEF TypeOK
    <3> QED BY <3>1, <3>2, <1>2, <1>5 DEF TypeOK
  <2>6. RowsGood'
    BY <2>2, <1>2, <1>4, <1>5 DEF RowsGood
  <2>7. KnownOK'
    <3>1. \A k \in deleted' : row'[k] = None
      BY <2>2, <1>2, <1>7 DEF KnownOK, TypeOK
    <3> QED BY <3>1, <2>3, <1>2, <1>5, ManagerType DEF KnownOK
  <2>8. CopiesOK'
    BY <2>2, <2>4, <1>2, <1>5, ManagerType DEF CopiesOK
  <2>9. EditsKept'
    <3> SUFFICES ASSUME ~overlap', NEW k \in Schedule, row'[k] # None
                 PROVE  Settings(row'[k]) = accepted'[k]
      BY DEF EditsKept, Settings
    <3>1. CASE k # s
      BY <3>1, <2>1, <2>2, <2>4 DEF EditsKept, Settings, TypeOK
    <3>2. CASE k = s
      BY <3>2, <2>1, <2>2, <1>4 DEF Settings, TypeOK
    <3> QED BY <3>1, <3>2
  <2>10. HistoryOK'
    <3> SUFFICES ASSUME ~overlap'
                 PROVE  HistoryOK'
      BY DEF HistoryOK
    <3>1. Continues(s, old) /\ OneDefinitionPerRevision
      BY <2>4, <1>3, <1>7 DEF HistoryOK
    <3>2. \A x \in ran : x.sched = s =>
            x.rev <= r.rev /\ (x.rev = r.rev => x.plan = Plan(r))
      <4> SUFFICES ASSUME NEW x \in ran, x.sched = s
                   PROVE  x.rev <= r.rev /\ (x.rev = r.rev => x.plan = Plan(r))
        OBVIOUS
      <4>1. x.rev <= old.rev /\ (x.rev = old.rev => x.plan = Plan(old)) /\ x.rev \in Nat
        BY <3>1 DEF Continues, KnownOK
      <4>2. old.rev \in Nat
        BY <1>3 DEF Row
      <4> QED BY <4>1, <4>2, <1>4
    <3>3. \A k \in Schedule : row'[k] # None => \A x \in ran : x.sched = k =>
            x.rev <= row'[k].rev /\ (x.rev = row'[k].rev => x.plan = Plan(row'[k]))
      <4> SUFFICES ASSUME NEW k \in Schedule, row'[k] # None, NEW x \in ran, x.sched = k
                   PROVE  x.rev <= row'[k].rev /\ (x.rev = row'[k].rev => x.plan = Plan(row'[k]))
        OBVIOUS
      <4>1. CASE k = s
        BY <4>1, <3>2, <2>2
      <4>2. CASE k # s
        BY <4>2, <2>2, <2>4 DEF HistoryOK, Continues
      <4> QED BY <4>1, <4>2
    <3> QED BY <3>1, <3>3, <2>4, <1>2 DEF HistoryOK, OneDefinitionPerRevision, Continues
  <2>11. ServedOK'
    <3> SUFFICES ASSUME ~overlap', ~Faulty
                 PROVE  ServedOK'
      BY <1>8 DEF ServedOK
    <3>1. \A x \in served' : /\ x \in Schedule \X Label \X Nat
                             /\ Known(x[1])' /\ x[3] <= now'
                             /\ pc' # "idle" => x[3] <= at'
      <4> SUFFICES ASSUME NEW x \in served
                   PROVE  /\ x \in Schedule \X Label \X Nat
                          /\ Known(x[1])' /\ x[3] <= now'
                          /\ pc' # "idle" => x[3] <= at'
        BY <1>2
      <4>1. x \in Schedule \X Label \X Nat /\ Known(x[1])
        BY <2>4 DEF ServedOK
      <4>2. x[1] \in Schedule
        BY <4>1
      <4> QED BY <4>1, <4>2, <1>2, <2>3, <2>4 DEF ServedOK
    <3>2. \A l \in Named(r.targets) : <<s, l, r.targets[l].next>> \notin served
      <4> SUFFICES ASSUME NEW l \in Named(r.targets)
                   PROVE  <<s, l, r.targets[l].next>> \notin served
        OBVIOUS
      <4>1. <<s, l, mgr[m].at>> \notin served
        BY <1>1, <1>7, <2>4 DEF ServedOK, Named
      <4>2. l \in Named(old.targets) => <<s, l, old.targets[l].next>> \notin served
        <5>1. ~Advancing(s)
          BY <2>4 DEF Advancing, TypeOK
        <5> QED BY <5>1, <1>3, <1>7, <2>4 DEF ServedOK
      <4> QED BY <4>1, <4>2, <1>4
    <3>3. (\A k \in Schedule : row[k] # None => \A l \in Named(row[k].targets) :
            <<k, l, row[k].targets[l].next>> \in served => Advancing(k))'
      BY <3>2, <2>2, <2>4, <1>2 DEF ServedOK, Advancing, Named
    <3>4. (\A n \in Manager : mgr[n] # Resting => \A l \in Label :
            /\ row[mgr[n].sched] # None
            /\ <<mgr[n].sched, l, mgr[n].at>> \in served
            => snap[mgr[n].sched] # None)'
      BY <2>2, <2>4, <1>2, <1>5, ManagerType DEF ServedOK
    <3>5. (\A k \in Schedule : snap[k] # None /\ ~Advancing(k) =>
         \A l \in Named(snap[k].targets) : <<k, l, snap[k].targets[l].next>> \notin served)'
      BY <1>2, <2>4 DEF ServedOK, Advancing, Named
    <3>6. ~repeated'
      BY <1>2, <2>4 DEF ServedOK
    <3> QED BY <3>1, <3>3, <3>4, <3>5, <3>6 DEF ServedOK
  <2> QED BY <2>5, <2>6, <2>7, <2>8, <2>9, <2>10, <2>11
<1> QED BY <1>6, <1>7

(* The listed rows are copied as they are, and none of their due times was  *)
(* served: nothing is about to be advanced.                                 *)
LEMMA ListStep ==
  ASSUME SchedInv, ListDueScheduledJobs
  PROVE  SchedInv'
<1> USE DEF SchedInv
<1>1. PICK S \in SUBSET Due :
        /\ pc = "idle" /\ pc' = "pick" /\ at' = now
        /\ snap' = [s \in Schedule |-> IF s \in S THEN row[s] ELSE None]
        /\ UNCHANGED <<now, row, deleted, mgr, cur, edits, errs, crashes, ran,
                       served, repeated, accepted, overlap>>
  BY DEF ListDueScheduledJobs
<1>2. \A s \in Schedule : snap'[s] # None => snap'[s] = row[s]
  BY <1>1
<1>3. TypeOK'
  <2>1. snap' \in [Schedule -> Row \cup {None}]
    BY <1>1 DEF TypeOK
  <2> QED BY <2>1, <1>1 DEF TypeOK
<1>4. RowsGood'
  BY <1>1, <1>2 DEF RowsGood
<1>5. KnownOK'
  <2>1. \A s \in Schedule : snap'[s] # None => row[s] # None /\ row[s].next <= now
    BY <1>1 DEF Due
  <2> QED BY <2>1, <1>1, <1>2 DEF KnownOK, Known, TypeOK
<1>6. CopiesOK'
  BY <1>1, <1>2 DEF CopiesOK
<1>7. EditsKept'
  BY <1>1 DEF EditsKept
<1>8. HistoryOK'
  BY <1>1, <1>2 DEF HistoryOK, OneDefinitionPerRevision, Continues
<1>9. ServedOK'
  <2> SUFFICES ASSUME ~overlap, ~Faulty
               PROVE  ServedOK'
    BY <1>1 DEF ServedOK, Faulty
  <2>1. \A s \in Schedule : row[s] # None => \A l \in Named(row[s].targets) :
          <<s, l, row[s].targets[l].next>> \notin served
    BY <1>1 DEF ServedOK, Advancing
  <2>2. \A s \in Schedule : snap[s] = None
    BY <1>1 DEF KnownOK
  <2>3. (\A m \in Manager : mgr[m] # Resting => \A l \in Label :
          /\ row[mgr[m].sched] # None
          /\ <<mgr[m].sched, l, mgr[m].at>> \in served
          => snap[mgr[m].sched] # None)'
    BY <1>1, <2>2, ManagerType DEF ServedOK
  <2>4. (\A s \in Schedule : snap[s] # None /\ ~Advancing(s) =>
       \A l \in Named(snap[s].targets) : <<s, l, snap[s].targets[l].next>> \notin served)'
    BY <1>1, <1>2, <2>1
  <2>5. \A x \in served' : /\ x \in Schedule \X Label \X Nat
                           /\ Known(x[1])' /\ x[3] <= now'
                           /\ pc' # "idle" => x[3] <= at'
    BY <1>1 DEF ServedOK, Known
  <2>6. (\A k \in Schedule : row[k] # None => \A l \in Named(row[k].targets) :
          <<k, l, row[k].targets[l].next>> \in served => Advancing(k))'
    BY <1>1, <2>1 DEF Named
  <2>7. ~repeated'
    BY <1>1 DEF ServedOK
  <2> QED BY <2>3, <2>4, <2>5, <2>6, <2>7 DEF ServedOK
<1> QED BY <1>3, <1>4, <1>5, <1>6, <1>7, <1>8, <1>9

(* A listed schedule always has a due target, so it is not passed over.     *)
LEMMA PickStep ==
  ASSUME SchedInv, NEW s \in Schedule, PickSchedule(s)
  PROVE  SchedInv'
<1> USE DEF SchedInv
<1>1. PICK l \in Named(snap[s].targets) : snap[s].next = snap[s].targets[l].next
  BY DEF RowsGood, Good, FirstIsNext, PickSchedule, Listed
<1>2. l \in dueScheduleTargets(snap[s], at)
  BY <1>1 DEF dueScheduleTargets, KnownOK, PickSchedule, Listed
<1>3. /\ pc = "pick" /\ snap[s] # None
      /\ cur' = s /\ pc' \in {"advance", "create"}
      /\ UNCHANGED <<now, row, deleted, mgr, at, snap, edits, errs, crashes, ran,
                     served, repeated, accepted, overlap>>
  BY <1>2 DEF PickSchedule, Listed
<1>4. TypeOK'
  BY <1>3, SchedulesAssumption DEF TypeOK
<1>5. RowsGood'
  BY <1>3 DEF RowsGood
<1>6. KnownOK'
  BY <1>3 DEF KnownOK, Known
<1>7. CopiesOK'
  BY <1>3 DEF CopiesOK
<1>8. EditsKept'
  BY <1>3 DEF EditsKept
<1>9. HistoryOK'
  BY <1>3 DEF HistoryOK, OneDefinitionPerRevision, Continues
<1>10. ServedOK'
  <2> SUFFICES ASSUME ~overlap, ~Faulty
               PROVE  ServedOK'
    BY <1>3 DEF ServedOK, Faulty
  <2> QED BY <1>3 DEF ServedOK, Advancing, Known, Named
<1> QED BY <1>4, <1>5, <1>6, <1>7, <1>8, <1>9, <1>10

LEMMA SweepEndStep ==
  ASSUME SchedInv, SweepEnd
  PROVE  SchedInv'
<1> USE DEF SchedInv, SweepEnd
<1>1. TypeOK'
  BY DEF TypeOK
<1>2. RowsGood'
  BY DEF RowsGood
<1>3. KnownOK'
  BY DEF KnownOK, Known, Listed
<1>4. CopiesOK'
  BY DEF CopiesOK
<1>5. EditsKept'
  BY DEF EditsKept
<1>6. HistoryOK'
  BY DEF HistoryOK, OneDefinitionPerRevision, Continues
<1>7. ServedOK'
  BY DEF ServedOK, Known, Advancing, Faulty, Listed
<1> QED BY <1>1, <1>2, <1>3, <1>4, <1>5, <1>6, <1>7

(* The due times of the schedule at hand were not served before.            *)
LEMMA CreateRunsStep ==
  ASSUME SchedInv, CreateRuns
  PROVE  SchedInv'
<1> USE DEF SchedInv
<1> DEFINE due == dueScheduleTargets(snap[cur], at)
           slots == {<<cur, l, snap[cur].targets[l].next>> : l \in due}
           run == [sched |-> cur, rev |-> snap[cur].rev, plan |-> Plan(snap[cur])]
<1>1. PICK stored \in BOOLEAN :
        /\ pc = "create"
        /\ \/ /\ errs' = errs /\ stored = TRUE
              /\ pc' = "advance" /\ UNCHANGED <<snap, cur>>
           \/ /\ errs' = errs + 1
              /\ pc' = "pick" /\ snap' = [snap EXCEPT ![cur] = None] /\ cur' = None
        /\ IF stored THEN /\ ran' = ran \cup {run}
                          /\ served' = served \cup slots
                          /\ repeated' = (repeated \/ slots \cap served # {})
                     ELSE UNCHANGED <<ran, served, repeated>>
        /\ UNCHANGED <<now, row, deleted, mgr, at, edits, crashes, accepted, overlap>>
  BY DEF CreateRuns, Works, Fails
<1>2. cur \in Schedule /\ snap[cur] # None /\ snap[cur] \in Row
  BY <1>1 DEF TypeOK
<1>3. \A k \in Schedule : snap'[k] # None => snap'[k] = snap[k]
  BY <1>1 DEF TypeOK
<1>4. TypeOK'
  <2>1. snap' \in [Schedule -> Row \cup {None}] /\ cur' \in Schedule \cup {None}
    BY <1>1 DEF TypeOK
  <2>2. repeated' \in BOOLEAN /\ errs' \in Nat /\ pc' \in {"pick", "advance"}
    BY <1>1 DEF TypeOK
  <2>3. pc' = "advance" => cur' # None /\ snap'[cur'] # None
    BY <1>1, <1>2, SchedulesAssumption
  <2> QED BY <2>1, <2>2, <2>3, <1>1 DEF TypeOK
<1>5. RowsGood'
  BY <1>1, <1>3 DEF RowsGood
<1>6. run.sched = cur /\ run.rev = snap[cur].rev /\ run.plan = Plan(snap[cur])
  OBVIOUS
<1> HIDE DEF run
<1>7. ran' \subseteq ran \cup {run}
  BY <1>1
<1>8. KnownOK'
  <2>1. \A x \in ran' : x.sched \in Schedule /\ Known(x.sched)' /\ x.rev \in Nat
    BY <1>1, <1>2, <1>6, <1>7 DEF KnownOK, Known, Row
  <2> QED BY <2>1, <1>1, <1>3 DEF KnownOK, Known
<1>9. CopiesOK'
  BY <1>1, <1>3 DEF CopiesOK
<1>10. EditsKept'
  BY <1>1 DEF EditsKept
<1>11. HistoryOK'
  <2> SUFFICES ASSUME ~overlap
               PROVE  HistoryOK'
    BY <1>1 DEF HistoryOK
  <2>1. /\ Continues(cur, snap[cur]) /\ OneDefinitionPerRevision
        /\ row[cur] \in {snap[cur], None} /\ snap[cur].rev \in Nat
    BY <1>2 DEF HistoryOK, CopiesOK, Row
  <2>2. \A k \in Schedule : row[k] # None => Continues(k, row[k])'
    BY <2>1, <1>1, <1>6, <1>7 DEF HistoryOK, Continues
  <2>3. \A k \in Schedule : snap'[k] # None => Continues(k, snap[k])'
    BY <2>1, <1>3, <1>6, <1>7 DEF HistoryOK, Continues
  <2>4. OneDefinitionPerRevision'
    BY <2>1, <1>6, <1>7 DEF OneDefinitionPerRevision, Continues
  <2> QED BY <2>2, <2>3, <2>4, <1>1 DEF HistoryOK
<1>12. ServedOK'
  <2> SUFFICES ASSUME ~overlap, ~Faulty'
               PROVE  ServedOK'
    BY <1>1 DEF ServedOK
  <2>1. errs' = errs /\ ~Faulty
    <3>1. errs' \in {errs, errs + 1} /\ crashes' = crashes
      BY <1>1
    <3>2. errs \in Nat /\ crashes \in Nat
      BY DEF TypeOK
    <3>3. errs' = errs + 1 => Faulty'
      BY <3>1, <3>2, FailureIsFault
    <3> QED BY <3>1, <3>3, FaultyStays
  <2>2. /\ pc' = "advance" /\ UNCHANGED <<snap, cur>>
        /\ served' = served \cup slots
        /\ repeated' = (repeated \/ slots \cap served # {})
    <3>1. errs \in Nat
      BY DEF TypeOK
    <3> QED BY <3>1, <2>1, <1>1
  <2>3. \A l \in Named(snap[cur].targets) : <<cur, l, snap[cur].targets[l].next>> \notin served
    BY <2>1, <1>1, <1>2 DEF ServedOK, Advancing
  <2>4. slots \cap served = {} /\ ~repeated'
    <3>1. due \subseteq Named(snap[cur].targets)
      BY DEF dueScheduleTargets
    <3> QED BY <3>1, <2>1, <2>2, <2>3 DEF ServedOK
  <2>5. \A x \in slots : x \in Schedule \X Label \X Nat /\ x[1] = cur /\ x[3] <= at
    <3> SUFFICES ASSUME NEW l \in due
                 PROVE  /\ l \in Label /\ snap[cur].targets[l].next \in Nat
                        /\ snap[cur].targets[l].next <= at
      BY <1>2
    <3> QED BY <1>2 DEF dueScheduleTargets, Named, Row, Targets, Target
  <2>6. at <= now /\ at \in Nat /\ now \in Nat
    BY <1>1 DEF KnownOK, TypeOK
  <2>7. Known(cur)
    BY <1>2 DEF KnownOK
  <2> HIDE DEF slots
  <2>8. \A x \in served' : /\ x \in Schedule \X Label \X Nat
                           /\ Known(x[1])' /\ x[3] <= now'
                           /\ pc' # "idle" => x[3] <= at'
    <3> SUFFICES ASSUME NEW x \in served'
                 PROVE  /\ x \in Schedule \X Label \X Nat
                        /\ Known(x[1]) /\ x[3] <= now /\ x[3] <= at
      BY <1>1 DEF Known
    <3>1. CASE x \in served
      BY <3>1, <2>1, <1>1 DEF ServedOK
    <3>2. CASE x \in slots
      <4>1. x[3] \in Nat /\ x[3] <= at /\ x[1] = cur /\ x \in Schedule \X Label \X Nat
        BY <3>2, <2>5
      <4> QED BY <4>1, <2>6, <2>7
    <3> QED BY <3>1, <3>2, <2>2
  <2>9. \A k \in Schedule, l \in Label : \A u : <<k, l, u>> \in served' /\ k # cur =>
          <<k, l, u>> \in served
    BY <2>2, <2>5
  <2>10. (\A k \in Schedule : row[k] # None => \A l \in Named(row[k].targets) :
            <<k, l, row[k].targets[l].next>> \in served => Advancing(k))'
    BY <2>1, <2>2, <2>9, <1>1, <1>2 DEF ServedOK, Advancing, Named
  <2>11. (\A k \in Schedule : snap[k] # None /\ ~Advancing(k) =>
       \A l \in Named(snap[k].targets) : <<k, l, snap[k].targets[l].next>> \notin served)'
    BY <2>1, <2>2, <2>9, <1>1 DEF ServedOK, Advancing, Named
  <2>12. (\A m \in Manager : mgr[m] # Resting => \A l \in Label :
           /\ row[mgr[m].sched] # None
           /\ <<mgr[m].sched, l, mgr[m].at>> \in served
           => snap[mgr[m].sched] # None)'
    BY <2>1, <2>2, <2>9, <1>1, <1>2, ManagerType DEF ServedOK
  <2> QED BY <2>4, <2>8, <2>10, <2>11, <2>12 DEF ServedOK
<1> QED BY <1>4, <1>5, <1>8, <1>9, <1>10, <1>11, <1>12

(* An advance that nothing overlaps with writes over the row it was made    *)
(* from, and makes all its due times later than the run.                    *)
LEMMA AdvanceStep ==
  ASSUME SchedInv, AdvanceSchedule
  PROVE  SchedInv'
<1> USE DEF SchedInv
<1> DEFINE a == Advanced(snap[cur], at)
           w == RunWritten(row[cur], a)
<1>1. PICK stored \in BOOLEAN :
        /\ pc = "advance"
        /\ (errs' = errs /\ stored = TRUE) \/ errs' = errs + 1
        /\ pc' = "pick" /\ snap' = [snap EXCEPT ![cur] = None] /\ cur' = None
        /\ IF stored /\ row[cur] # None
           THEN /\ row' = [row EXCEPT ![cur] = w]
                /\ overlap' = (overlap \/ Editing(cur))
           ELSE UNCHANGED <<row, overlap>>
        /\ UNCHANGED <<now, deleted, mgr, at, edits, crashes, ran, served, repeated, accepted>>
  BY DEF AdvanceSchedule, Works, Fails
<1>2. /\ cur \in Schedule /\ snap[cur] # None /\ snap[cur] \in Row /\ Good(snap[cur])
      /\ at \in Nat
  BY <1>1 DEF TypeOK, RowsGood
<1>3. /\ a \in Row /\ Good(a)
      /\ a.rev = snap[cur].rev /\ a.enabled = snap[cur].enabled /\ a.def = snap[cur].def
      /\ Selection(a.targets) = Selection(snap[cur].targets)
      /\ Rhythm(a.targets) = Rhythm(snap[cur].targets)
      /\ \A l \in Named(a.targets) : a.targets[l].next > at
  BY <1>2, AdvancedOK
<1> HIDE DEF a
<1>4. row[cur] # None =>
        /\ w \in Row /\ Good(w) /\ w.targets = a.targets /\ w # None
        /\ row[cur] = snap[cur] => /\ Settings(w) = Settings(snap[cur])
                                   /\ Plan(w) = Plan(snap[cur]) /\ w.rev = snap[cur].rev
  <2> SUFFICES ASSUME row[cur] # None
               PROVE  /\ w \in Row /\ Good(w) /\ w.targets = a.targets /\ w # None
                      /\ row[cur] = snap[cur] => /\ Settings(w) = Settings(snap[cur])
                                                 /\ Plan(w) = Plan(snap[cur])
                                                 /\ w.rev = snap[cur].rev
    OBVIOUS
  <2>1. row[cur] \in Row
    BY <1>2 DEF TypeOK
  <2>2. /\ w \in Row /\ Good(w) /\ w.targets = a.targets
        /\ /\ row[cur].rev = a.rev /\ row[cur].enabled = a.enabled /\ row[cur].def = a.def
           => w.rev = a.rev /\ w.enabled = a.enabled /\ w.def = a.def
    BY <2>1, <1>3, WrittenOK
  <2> HIDE DEF w
  <2>3. ASSUME row[cur] = snap[cur]
        PROVE  /\ Settings(w) = Settings(snap[cur])
               /\ Plan(w) = Plan(snap[cur]) /\ w.rev = snap[cur].rev
    BY <2>2, <2>3, <1>3 DEF Settings, Plan
  <2> QED BY <2>2, <2>3, NoneAssumption
<1> HIDE DEF w
<1>5. /\ snap'[cur] = None
      /\ \A k \in Schedule : k # cur => snap'[k] = snap[k] /\ row'[k] = row[k]
      /\ row'[cur] # None => row[cur] # None
      /\ row'[cur] \in {row[cur], w}
  BY <1>1, <1>2 DEF TypeOK
<1>6. \A k \in Schedule : Known(k) => Known(k)'
  BY <1>1, <1>4, <1>5 DEF Known, TypeOK
<1>7. ~overlap' /\ row'[cur] # None /\ row'[cur] # row[cur] =>
        row'[cur] = w /\ row[cur] = snap[cur] /\ ~Editing(cur)
  BY <1>1, <1>2, <1>5 DEF CopiesOK
<1>8. overlap => overlap'
  BY <1>1
<1>9. TypeOK'
  <2>1. row' \in [Schedule -> Row \cup {None}] /\ snap' \in [Schedule -> Row \cup {None}]
    BY <1>1, <1>4 DEF TypeOK
  <2>2. overlap' \in BOOLEAN /\ errs' \in Nat
    BY <1>1 DEF TypeOK, Editing
  <2> QED BY <2>1, <2>2, <1>1 DEF TypeOK
<1>10. RowsGood'
  BY <1>1, <1>4, <1>5 DEF RowsGood
<1>11. KnownOK'
  <2>1. \A k \in deleted' : row'[k] = None
    BY <1>1, <1>5 DEF KnownOK, TypeOK
  <2> QED BY <2>1, <1>1, <1>5, <1>6, ManagerType DEF KnownOK
<1>12. CopiesOK'
  <2> SUFFICES ASSUME ~overlap'
               PROVE  CopiesOK'
    BY DEF CopiesOK
  <2>1. \A m \in Manager : mgr[m] # Resting => row'[mgr[m].sched] \in {mgr[m].old, None}
    <3> SUFFICES ASSUME NEW m \in Manager, mgr[m] # Resting
                 PROVE  row'[mgr[m].sched] \in {mgr[m].old, None}
      OBVIOUS
    <3>1. mgr[m].sched \in Schedule /\ row[mgr[m].sched] \in {mgr[m].old, None}
      BY <1>8, ManagerType DEF CopiesOK
    <3>2. row'[mgr[m].sched] = row[mgr[m].sched] \/ row'[mgr[m].sched] = None
      BY <3>1, <1>5, <1>7 DEF Editing
    <3> QED BY <3>1, <3>2
  <2> QED BY <2>1, <1>1, <1>5, <1>8 DEF CopiesOK
<1>13. EditsKept'
  <2> SUFFICES ASSUME ~overlap', NEW k \in Schedule, row'[k] # None
               PROVE  Settings(row'[k]) = accepted[k]
    BY <1>1 DEF EditsKept, Settings
  <2>1. CASE k # cur \/ row'[k] = row[k]
    BY <2>1, <1>5, <1>8 DEF EditsKept
  <2>2. CASE k = cur /\ row'[k] # row[k]
    <3>1. row'[k] = w /\ row[k] = snap[k]
      BY <2>2, <1>7
    <3> QED BY <3>1, <2>2, <1>2, <1>4, <1>8 DEF EditsKept
  <2> QED BY <2>1, <2>2
<1>14. HistoryOK'
  <2> SUFFICES ASSUME ~overlap'
               PROVE  HistoryOK'
    BY DEF HistoryOK
  <2>1. \A k \in Schedule : row'[k] # None => \A x \in ran : x.sched = k =>
          x.rev <= row'[k].rev /\ (x.rev = row'[k].rev => x.plan = Plan(row'[k]))
    <3> SUFFICES ASSUME NEW k \in Schedule, row'[k] # None, NEW x \in ran, x.sched = k
                 PROVE  x.rev <= row'[k].rev /\ (x.rev = row'[k].rev => x.plan = Plan(row'[k]))
      OBVIOUS
    <3>1. CASE k # cur \/ row'[k] = row[k]
      BY <3>1, <1>5, <1>8 DEF HistoryOK, Continues
    <3>2. CASE k = cur /\ row'[k] # row[k]
      <4>1. row'[k] = w /\ row[k] = snap[k]
        BY <3>2, <1>7
      <4> QED BY <4>1, <3>2, <1>2, <1>4, <1>8 DEF HistoryOK, Continues
    <3> QED BY <3>1, <3>2
  <2> QED BY <2>1, <1>1, <1>5, <1>8 DEF HistoryOK, OneDefinitionPerRevision, Continues
<1>15. ServedOK'
  <2> SUFFICES ASSUME ~overlap', ~Faulty'
               PROVE  ServedOK'
    BY DEF ServedOK
  <2>1. ~Faulty /\ errs' # errs + 1 /\ ~overlap
    <3>1. errs' \in {errs, errs + 1} /\ crashes' = crashes
      BY <1>1
    <3>2. errs' = errs + 1 => Faulty'
      BY <3>1, FailureIsFault
    <3> QED BY <3>1, <3>2, <1>8, FaultyStays
  <2>2. row[cur] # None => row'[cur] = w /\ ~Editing(cur)
    BY <2>1, <1>1, <1>2 DEF TypeOK
  <2>3. \A x \in served : /\ x \in Schedule \X Label \X Nat
                          /\ Known(x[1]) /\ x[3] <= now /\ x[3] <= at
    BY <2>1, <1>1 DEF ServedOK
  <2>4. \A x \in served' : /\ x \in Schedule \X Label \X Nat
                           /\ Known(x[1])' /\ x[3] <= now'
                           /\ pc' # "idle" => x[3] <= at'
    <3> SUFFICES ASSUME NEW x \in served
                 PROVE  Known(x[1])'
      BY <2>3, <1>1
    <3>1. x[1] \in Schedule /\ Known(x[1])
      BY <2>3
    <3> QED BY <3>1, <1>6
  <2>5. \A l \in Named(w.targets) : row[cur] # None =>
          <<cur, l, w.targets[l].next>> \notin served
    <3> SUFFICES ASSUME NEW l \in Named(w.targets), row[cur] # None,
                        <<cur, l, w.targets[l].next>> \in served
                 PROVE  FALSE
      OBVIOUS
    <3>1. w.targets[l].next > at
      BY <1>3, <1>4
    <3>2. w.targets[l].next \in Nat /\ w.targets[l].next <= at
      BY <2>3
    <3> QED BY <3>1, <3>2, <1>2
  <2>6. (\A k \in Schedule : row[k] # None => \A l \in Named(row[k].targets) :
          <<k, l, row[k].targets[l].next>> \in served => Advancing(k))'
    BY <2>1, <2>2, <2>5, <1>1, <1>5 DEF ServedOK, Advancing, Named
  <2>7. (\A k \in Schedule : snap[k] # None /\ ~Advancing(k) =>
       \A l \in Named(snap[k].targets) : <<k, l, snap[k].targets[l].next>> \notin served)'
    BY <2>1, <1>1, <1>5 DEF ServedOK, Advancing, Named
  <2>8. (\A m \in Manager : mgr[m] # Resting => \A l \in Label :
          /\ row[mgr[m].sched] # None
          /\ <<mgr[m].sched, l, mgr[m].at>> \in served
          => snap[mgr[m].sched] # None)'
    <3> SUFFICES ASSUME NEW m \in Manager, mgr[m] # Resting, NEW l \in Label,
                        row'[mgr[m].sched] # None,
                        <<mgr[m].sched, l, mgr[m].at>> \in served
                 PROVE  snap'[mgr[m].sched] # None
      BY <1>1
    <3>1. mgr[m].sched \in Schedule
      BY ManagerType
    <3>2. mgr[m].sched # cur
      BY <2>2, <1>5 DEF Editing
    <3> QED BY <3>1, <3>2, <2>1, <1>5 DEF ServedOK
  <2>9. ~repeated'
    BY <2>1, <1>1 DEF ServedOK
  <2> QED BY <2>4, <2>6, <2>7, <2>8, <2>9 DEF ServedOK
<1> QED BY <1>9, <1>10, <1>11, <1>12, <1>13, <1>14, <1>15

LEMMA StutterStep ==
  ASSUME SchedInv, UNCHANGED vars
  PROVE  SchedInv'
<1> USE DEF SchedInv, vars, sweepVars
<1>1. TypeOK' /\ RowsGood' /\ EditsKept'
  BY DEF TypeOK, RowsGood, EditsKept
<1>2. KnownOK' /\ CopiesOK'
  BY DEF KnownOK, Known, CopiesOK
<1>3. HistoryOK'
  BY DEF HistoryOK, OneDefinitionPerRevision, Continues
<1>4. ServedOK'
  BY DEF ServedOK, Known, Advancing, Faulty
<1> QED BY <1>1, <1>2, <1>3, <1>4

-----------------------------------------------------------------------------
(* Theorems *)

(* SchedInv holds of every state, for any schedules, requests, agents, any  *)
(* kind of store and any bounds.                                            *)
THEOREM SchedInductive == Spec => []SchedInv
<1>1. SchedInv /\ [Next]_vars => SchedInv'
  <2> SUFFICES ASSUME SchedInv, [Next]_vars PROVE SchedInv'
    OBVIOUS
  <2>1. CASE Tick
    BY <2>1, TickStep
  <2>2. CASE Crash
    BY <2>2, CrashStep
  <2>3. CASE Edit
    BY <2>3, CreateScheduleStep, DeleteScheduleStep, UpdateReadStep,
       UpdateRefusedStep, UpdateWriteStep DEF Edit
  <2>4. CASE SweepStep
    BY <2>4, ListStep, PickStep, CreateRunsStep, AdvanceStep, SweepEndStep DEF SweepStep
  <2>5. CASE UNCHANGED vars
    BY <2>5, StutterStep
  <2> QED BY <2>1, <2>2, <2>3, <2>4, <2>5 DEF Next
<1> QED BY InitInv, <1>1, PTL DEF Spec

(* Every variable keeps its type, and the sweep holds what it works on.     *)
THEOREM ScheduleTypes == Spec => []TypeOK
<1>1. SchedInv => TypeOK
  BY DEF SchedInv
<1> QED BY <1>1, SchedInductive, PTL

(* Whoever wrote a row last, it is listed when its first target is due.     *)
THEOREM FirstTarget == Spec => []DueWithFirstTarget
<1>1. SchedInv => DueWithFirstTarget
  BY DEF SchedInv, RowsGood, Good, FirstIsNext, DueWithFirstTarget
<1> QED BY <1>1, SchedInductive, PTL

(* No target is left due at the time of its last run.                       *)
THEOREM NeverDueAtLastRun == Spec => []LastBeforeNext
<1>1. SchedInv => LastBeforeNext
  BY DEF SchedInv, RowsGood, Good, LastIsPast, LastBeforeNext
<1> QED BY <1>1, SchedInductive, PTL

(* A due time is served once, until writers overlap or something fails.     *)
THEOREM OncePerDueTime == Spec => []RunsOnce
<1>1. SchedInv => RunsOnce
  BY DEF SchedInv, ServedOK, RunsOnce
<1> QED BY <1>1, SchedInductive, PTL

(* Runs of one revision have one definition until writers overlap, whatever *)
(* fails or crashes.                                                        *)
THEOREM HistoryByRevision == Spec => []HistoryOfOneDefinition
<1>1. SchedInv => HistoryOfOneDefinition
  BY DEF SchedInv, HistoryOK, HistoryOfOneDefinition
<1> QED BY <1>1, SchedInductive, PTL

(* Edits stay stored, run after run, until writers overlap.                 *)
THEOREM EditsStay == Spec => []EditsKept
<1>1. SchedInv => EditsKept
  BY DEF SchedInv
<1> QED BY <1>1, SchedInductive, PTL

(* Neither a run nor an edit brings a deleted schedule back.                *)
THEOREM DeletedForGood == Spec => DeletedStaysDeleted
<1>1. [Next]_vars => deleted \subseteq deleted'
  BY DEF Next, Tick, Crash, Edit, CreateSchedule, DeleteSchedule, UpdateRead,
         UpdateRefused, UpdateWrite, SweepStep, ListDueScheduledJobs, PickSchedule,
         CreateRuns, AdvanceSchedule, SweepEnd, vars
<1>2. SchedInv' /\ [Next]_vars => [\A s \in deleted : row'[s] = None]_vars
  BY <1>1 DEF SchedInv, KnownOK
<1> QED BY <1>2, SchedInductive, PTL DEF Spec, DeletedStaysDeleted
=============================================================================
