----------------------------- MODULE Schedules -----------------------------
(***************************************************************************)
(* Scheduled jobs: the loop of Hub.Start runs what is due                   *)
(* (internal/scheduler/hub.go, runDueSchedules) while managers create, edit *)
(* and delete schedules over HTTP (internal/api/schedule.go). Both sides    *)
(* read a row of the store, work, and write it back without comparing.      *)
(*                                                                         *)
(* A call of the store is a step of its own and may fail; a write that      *)
(* fails may have been stored all the same. The server may crash.           *)
(*                                                                         *)
(* Which of the agents of a due target get a run depends on who is online,  *)
(* on labels, capabilities, policies and name resolution: any set of the    *)
(* agents the target allows, the empty one included.                        *)
(***************************************************************************)
EXTENDS Integers, FiniteSets

CONSTANTS
  Schedule,     \* ids of schedules
  Label,        \* labels a target may name
  Agent,        \* agent ids
  Definition,   \* what is run: tool, target, args, IP version, resolver
  Request,      \* validated bodies of create and update requests
  Manager,      \* update requests in progress
  None,         \* no schedule, no row, never
  WholeRow,     \* does UpdateScheduledJobRun write the whole row (Memory), or
                \* only the run state and the targets (SQLite, Postgres)?
  DueLimit,     \* schedules listed per tick
  MaxTime, MaxEdits, MaxErrors, MaxCrashes   \* bounds

(* The labels that a request or a row has a target for.                     *)
Named(f) == {l \in Label : f[l] # None}

(* What a request says of each label it names: the interval, and the agents *)
(* of the label that the token of the request may use.                      *)
Choice  == [every : Nat \ {0}, allow : SUBSET Agent]
Choices == {f \in [Label -> Choice \cup {None}] : Named(f) # {}}

ASSUME SchedulesAssumption ==
  /\ None \notin Schedule
  /\ None \notin Nat
  /\ \A req \in Request : req \in [enabled : BOOLEAN, def : Definition, pick : Choices]
  /\ WholeRow \in BOOLEAN
  /\ DueLimit \in Nat \ {0} /\ MaxTime \in Nat /\ MaxEdits \in Nat
  /\ MaxErrors \in Nat /\ MaxCrashes \in Nat
  /\ WholeRow => MaxCrashes = 0    \* a crash takes the memory store with it

Target  == [every : Nat \ {0}, allow : SUBSET Agent, next : Nat, last : Nat \cup {None}]
Targets == {f \in [Label -> Target \cup {None}] : Named(f) # {}}
Row     == [rev : Nat \ {0}, enabled : BOOLEAN, def : Definition,
            targets : Targets, next : Nat]

ASSUME NoneAssumption ==
  None \notin Row /\ None \notin Target /\ None \notin Choice

VARIABLES
  now,        \* the clock
  row,        \* scheduled_jobs, None for an id that is not there
  deleted,    \* ids that were deleted
  mgr,        \* the update requests: the row each has read, and when
  pc, at,     \* runDueSchedules: its position, and the time it started at
  snap,       \* the rows it has listed and not finished
  cur,        \* the schedule at hand
  edits, errs, crashes,
  (* history, read by properties only *)
  ran,        \* revision and definition of every run that was created
  served,     \* the due times for which runs were created
  repeated,   \* were runs created twice for one due time?
  accepted,   \* the settings last stored on behalf of a manager
  overlap     \* was a row written while another request or run held a copy?

sweepVars == <<pc, at, snap, cur>>
vars == <<now, row, deleted, mgr, sweepVars, edits, errs, crashes,
          ran, served, repeated, accepted, overlap>>

-----------------------------------------------------------------------------
(* Rows *)

(* Who is asked to run: the part of the targets that belongs to the         *)
(* definition of a schedule.                                                *)
Selection(ts) == [l \in Label |-> IF ts[l] = None THEN None ELSE ts[l].allow]
Rhythm(ts)    == [l \in Label |-> IF ts[l] = None THEN None ELSE ts[l].every]
Plan(r)       == [def |-> r.def, sel |-> Selection(r.targets)]

Settings(r) == [rev |-> r.rev, enabled |-> r.enabled, def |-> r.def,
                sel |-> Selection(r.targets), every |-> Rhythm(r.targets)]

NextRuns(ts) == {ts[l].next : l \in Named(ts)}
LatestRun(ts) == CHOOSE t \in NextRuns(ts) : \A u \in NextRuns(ts) : u <= t

(* normalizeScheduleRunFields and syncScheduleAggregateRunFields: the row   *)
(* is due when the first of its targets is.                                 *)
EarliestRun(ts) == CHOOSE t \in NextRuns(ts) : \A u \in NextRuns(ts) : t <= u

FreshTargets(pick, t) ==
  [l \in Label |-> IF pick[l] = None THEN None
                   ELSE [every |-> pick[l].every, allow |-> pick[l].allow,
                         next |-> t, last |-> None]]

definitionMoved(old, req) == old.def # req.def
scheduleDefinitionChanged(old, req) ==
  old.def # req.def \/ Selection(old.targets) # Selection(req.pick)

(* Intervals are compared per label and allowed agents: a target that is    *)
(* not there counts as changed.                                             *)
scheduleIntervalsChanged(old, req) ==
  \/ Cardinality(Named(old.targets)) # Cardinality(Named(req.pick))
  \/ \E l \in Named(req.pick) :
       \/ old.targets[l] = None
       \/ old.targets[l].allow # req.pick[l].allow
       \/ old.targets[l].every # req.pick[l].every

mergeWholeTargets(old, req, t) ==
  [l \in Label |-> IF req.pick[l] # None /\ old.targets[l] # None
                   THEN old.targets[l] ELSE FreshTargets(req.pick, t)[l]]

(* An edit that changes neither what runs nor when keeps the run state;     *)
(* every other one starts over at once, and so does an edit of a schedule   *)
(* that was disabled.                                                       *)
mergeScheduleTargetRunState(old, req, t) ==
  IF \/ scheduleDefinitionChanged(old, req)
     \/ scheduleIntervalsChanged(old, req)
     \/ ~old.enabled
  THEN FreshTargets(req.pick, t)
  ELSE [l \in Label |-> IF req.pick[l] = None THEN None
          ELSE [every |-> req.pick[l].every, allow |-> req.pick[l].allow,
                next |-> old.targets[l].next, last |-> old.targets[l].last]]

NewRow(rev, req, ts) ==
  [rev |-> rev, enabled |-> req.enabled, def |-> req.def,
   targets |-> ts, next |-> EarliestRun(ts)]

CreatedRow(req, t) == NewRow(1, req, FreshTargets(req.pick, t))
EditedRow(old, req, t) ==
  NewRow(IF scheduleDefinitionChanged(old, req) THEN old.rev + 1 ELSE old.rev,
         req, mergeScheduleTargetRunState(old, req, t))

dueScheduleTargets(r, t) == {l \in Named(r.targets) : r.targets[l].next <= t}

(* The next run keeps the rhythm, unless that moment has passed as well:    *)
(* runs that were missed are not made up for.                               *)
nextScheduleTargetRun(tg, t) ==
  IF tg.next + tg.every > t THEN tg.next + tg.every ELSE t + tg.every

advanceCopies(ts, due, t) == ts
advanceScheduleTargets(ts, due, t) ==
  [l \in Label |->
     IF l \in due
     THEN [ts[l] EXCEPT !.last = t, !.next = nextScheduleTargetRun(ts[l], t)]
     ELSE ts[l]]

(* UpdateScheduledJobRun of the row r as the stores write it over stored.   *)
RunWritten(stored, r) ==
  IF WholeRow THEN r ELSE [stored EXCEPT !.targets = r.targets, !.next = r.next]

Advanced(r, t) ==
  LET ts == advanceScheduleTargets(r.targets, dueScheduleTargets(r, t), t)
  IN  [r EXCEPT !.targets = ts, !.next = EarliestRun(ts)]

(* The agents a due target may be run by; an empty list allows them all.    *)
Candidates(r, t) ==
  UNION {IF r.targets[l].allow = {} THEN Agent ELSE r.targets[l].allow :
           l \in dueScheduleTargets(r, t)}

-----------------------------------------------------------------------------
(* Types and initial states *)

Resting == [pc |-> "idle", sched |-> None, old |-> None, at |-> 0]
Request_State ==
  {Resting} \cup [pc : {"write"}, sched : Schedule, old : Row, at : Nat]

(* Nothing is held by a sweep that is not running, and the schedule at hand *)
(* is one that was listed.                                                  *)
TypeOK ==
  /\ now \in Nat
  /\ row \in [Schedule -> Row \cup {None}]
  /\ deleted \in SUBSET Schedule
  /\ mgr \in [Manager -> Request_State]
  /\ pc \in {"idle", "pick", "create", "advance"}
  /\ at \in Nat
  /\ snap \in [Schedule -> Row \cup {None}]
  /\ cur \in Schedule \cup {None}
  /\ edits \in Nat /\ errs \in Nat /\ crashes \in Nat
  /\ repeated \in BOOLEAN /\ overlap \in BOOLEAN
  /\ DOMAIN accepted = Schedule
  /\ pc \in {"create", "advance"} => cur # None /\ snap[cur] # None

Init ==
  /\ now = 0
  /\ row = [s \in Schedule |-> None]
  /\ deleted = {}
  /\ mgr = [m \in Manager |-> Resting]
  /\ pc = "idle" /\ at = 0
  /\ snap = [s \in Schedule |-> None]
  /\ cur = None
  /\ edits = 0 /\ errs = 0 /\ crashes = 0
  /\ ran = {} /\ served = {} /\ repeated = FALSE
  /\ accepted = [s \in Schedule |-> None]
  /\ overlap = FALSE

Faulty == errs + crashes > 0

(* Copies of s held by update requests, and by runDueSchedules.             *)
Editing(s) == \E m \in Manager : mgr[m].sched = s
Listed(s)  == snap[s] # None

-----------------------------------------------------------------------------
(* Time, and the server process *)

Tick ==
  /\ now < MaxTime
  /\ now' = now + 1
  /\ UNCHANGED <<row, deleted, mgr, sweepVars, edits, errs, crashes, ran,
                 served, repeated, accepted, overlap>>

Crash ==
  /\ crashes < MaxCrashes
  /\ crashes' = crashes + 1
  /\ mgr' = [m \in Manager |-> Resting]
  /\ pc' = "idle" /\ at' = 0 /\ cur' = None
  /\ snap' = [s \in Schedule |-> None]
  /\ UNCHANGED <<now, row, deleted, edits, errs, ran, served, repeated,
                 accepted, overlap>>

-----------------------------------------------------------------------------
(* Managers. A handler reads the clock for itself, and no two readings of   *)
(* it are alike.                                                            *)

Fails(stored) == errs < MaxErrors /\ errs' = errs + 1 /\ stored \in BOOLEAN
Works(stored) == errs' = errs /\ stored = TRUE

(* createSchedule                                                           *)
CreateSchedule(s) == \E req \in Request, stored \in BOOLEAN :
  /\ row[s] = None /\ s \notin deleted
  /\ edits < MaxEdits /\ edits' = edits + 1
  /\ now < MaxTime /\ now' = now + 1
  /\ Works(stored) \/ Fails(stored)
  /\ row' = IF stored THEN [row EXCEPT ![s] = CreatedRow(req, now')] ELSE row
  /\ accepted' = IF stored THEN [accepted EXCEPT ![s] = Settings(row'[s])] ELSE accepted
  /\ UNCHANGED <<deleted, mgr, sweepVars, crashes, ran, served, repeated, overlap>>

(* updateSchedule up to the validation: the row is read, then the clock.    *)
UpdateRead(m, s) ==
  /\ mgr[m] = Resting /\ row[s] # None
  /\ edits < MaxEdits /\ edits' = edits + 1
  /\ now < MaxTime /\ now' = now + 1
  /\ mgr' = [mgr EXCEPT ![m] = [pc |-> "write", sched |-> s, old |-> row[s], at |-> now']]
  /\ UNCHANGED <<row, deleted, sweepVars, errs, crashes, ran, served, repeated,
                 accepted, overlap>>

(* The request is refused: by the limiter, the policies, the token's scope, *)
(* or because no agent is online for a label.                               *)
UpdateRefused(m) ==
  /\ mgr[m] # Resting
  /\ mgr' = [mgr EXCEPT ![m] = Resting]
  /\ UNCHANGED <<now, row, deleted, sweepVars, edits, errs, crashes, ran, served,
                 repeated, accepted, overlap>>

(* The write of updateSchedule; a row that is gone is not found.            *)
UpdateWrite(m) == \E req \in Request, stored \in BOOLEAN :
  LET s == mgr[m].sched IN
  /\ mgr[m] # Resting
  /\ Works(stored) \/ Fails(stored)
  /\ mgr' = [mgr EXCEPT ![m] = Resting]
  /\ IF stored /\ row[s] # None
     THEN /\ row' = [row EXCEPT ![s] = EditedRow(mgr[m].old, req, mgr[m].at)]
          /\ accepted' = [accepted EXCEPT ![s] =
               [rev |-> row'[s].rev, enabled |-> req.enabled, def |-> req.def,
                sel |-> Selection(req.pick), every |-> Rhythm(req.pick)]]
          /\ overlap' = (overlap \/ Listed(s)
                         \/ \E n \in Manager \ {m} : mgr[n].sched = s)
     ELSE UNCHANGED <<row, accepted, overlap>>
  /\ UNCHANGED <<now, deleted, sweepVars, edits, crashes, ran, served, repeated>>

(* deleteSchedule                                                           *)
DeleteSchedule(s) == \E stored \in BOOLEAN :
  /\ row[s] # None
  /\ edits < MaxEdits /\ edits' = edits + 1
  /\ Works(stored) \/ Fails(stored)
  /\ IF stored
     THEN /\ row' = [row EXCEPT ![s] = None]
          /\ deleted' = deleted \cup {s}
     ELSE UNCHANGED <<row, deleted>>
  /\ UNCHANGED <<now, mgr, sweepVars, crashes, ran, served, repeated, accepted,
                 overlap>>

-----------------------------------------------------------------------------
(* runDueSchedules *)

Due == {s \in Schedule : row[s] # None /\ row[s].enabled /\ row[s].next <= now}

(* ListDueScheduledJobs: the DueLimit schedules that have waited longest.   *)
ListDueScheduledJobs == \E S \in SUBSET Due :
  /\ pc = "idle" /\ S # {}
  /\ Cardinality(S) = DueLimit \/ (S = Due /\ Cardinality(S) < DueLimit)
  /\ \A s \in S, t \in Due \ S : row[s].next <= row[t].next
  /\ pc' = "pick" /\ at' = now
  /\ snap' = [s \in Schedule |-> IF s \in S THEN row[s] ELSE None]
  /\ UNCHANGED <<now, row, deleted, mgr, cur, edits, errs, crashes, ran,
                 served, repeated, accepted, overlap>>

(* The next schedule of the list. Without a run (tool disabled, target not  *)
(* resolved, no agent online or allowed) the targets are advanced only.     *)
PickSkipping(s) ==
  /\ pc = "pick" /\ Listed(s)
  /\ \A t \in Schedule : Listed(t) => snap[s].next <= snap[t].next
  /\ \E A \in SUBSET Candidates(snap[s], at) :
       IF A = {}
       THEN /\ snap' = [snap EXCEPT ![s] = None]
            /\ UNCHANGED <<pc, cur>>
       ELSE /\ cur' = s /\ pc' = "create"
            /\ UNCHANGED snap
  /\ UNCHANGED <<now, row, deleted, mgr, at, edits, errs, crashes, ran, served,
                 repeated, accepted, overlap>>

PickSchedule(s) ==
  /\ pc = "pick" /\ Listed(s)
  /\ \A t \in Schedule : Listed(t) => snap[s].next <= snap[t].next
  /\ IF dueScheduleTargets(snap[s], at) = {}
     THEN /\ snap' = [snap EXCEPT ![s] = None]
          /\ UNCHANGED <<pc, cur>>
     ELSE \E A \in SUBSET Candidates(snap[s], at) :
          /\ cur' = s
          /\ pc' = IF A = {} THEN "advance" ELSE "create"
          /\ UNCHANGED snap
  /\ UNCHANGED <<now, row, deleted, mgr, at, edits, errs, crashes, ran, served,
                 repeated, accepted, overlap>>

(* CreateJobs. When it fails the schedule is left as it is, for the next    *)
(* tick to try again.                                                       *)
CreateRuns == \E stored \in BOOLEAN :
  LET slots == {<<cur, l, snap[cur].targets[l].next>> :
                  l \in dueScheduleTargets(snap[cur], at)} IN
  /\ pc = "create"
  /\ \/ /\ Works(stored)
        /\ pc' = "advance" /\ UNCHANGED <<snap, cur>>
     \/ /\ Fails(stored)
        /\ pc' = "pick" /\ snap' = [snap EXCEPT ![cur] = None] /\ cur' = None
  /\ IF stored
     THEN /\ ran' = ran \cup {[sched |-> cur, rev |-> snap[cur].rev,
                               plan |-> Plan(snap[cur])]}
          /\ served' = served \cup slots
          /\ repeated' = (repeated \/ slots \cap served # {})
     ELSE UNCHANGED <<ran, served, repeated>>
  /\ UNCHANGED <<now, row, deleted, mgr, at, edits, crashes, accepted, overlap>>

(* advanceScheduleTargets and UpdateScheduledJobRun, which does nothing to  *)
(* a row that is gone.                                                      *)
AdvanceUpserting == \E stored \in BOOLEAN :
  /\ pc = "advance"
  /\ Works(stored) \/ Fails(stored)
  /\ pc' = "pick" /\ snap' = [snap EXCEPT ![cur] = None] /\ cur' = None
  /\ IF stored
     THEN /\ row' = [row EXCEPT ![cur] = Advanced(snap[cur], at)]
          /\ overlap' = (overlap \/ Editing(cur))
     ELSE UNCHANGED <<row, overlap>>
  /\ UNCHANGED <<now, deleted, mgr, at, edits, crashes, ran, served,
                 repeated, accepted>>

AdvanceSchedule == \E stored \in BOOLEAN :
  /\ pc = "advance"
  /\ Works(stored) \/ Fails(stored)
  /\ pc' = "pick" /\ snap' = [snap EXCEPT ![cur] = None] /\ cur' = None
  /\ IF stored /\ row[cur] # None
     THEN /\ row' = [row EXCEPT ![cur] = RunWritten(row[cur], Advanced(snap[cur], at))]
          /\ overlap' = (overlap \/ Editing(cur))
     ELSE UNCHANGED <<row, overlap>>
  /\ UNCHANGED <<now, deleted, mgr, at, edits, crashes, ran, served,
                 repeated, accepted>>

SweepEnd ==
  /\ pc = "pick" /\ \A s \in Schedule : ~Listed(s)
  /\ pc' = "idle" /\ at' = 0
  /\ UNCHANGED <<now, row, deleted, mgr, snap, cur, edits, errs,
                 crashes, ran, served, repeated, accepted, overlap>>

-----------------------------------------------------------------------------
SweepStep ==
  \/ ListDueScheduledJobs
  \/ \E s \in Schedule : PickSchedule(s)
  \/ CreateRuns
  \/ AdvanceSchedule
  \/ SweepEnd

Edit ==
  \/ \E s \in Schedule : CreateSchedule(s) \/ DeleteSchedule(s)
  \/ \E m \in Manager, s \in Schedule : UpdateRead(m, s)
  \/ \E m \in Manager : UpdateRefused(m) \/ UpdateWrite(m)

Next == Tick \/ Crash \/ Edit \/ SweepStep

Spec == Init /\ [][Next]_vars

(* The loop of Hub.Start ticks for as long as the server runs. Nothing is   *)
(* assumed of managers, and time need not pass.                             *)
FairSpec == Spec /\ WF_vars(SweepStep)
-----------------------------------------------------------------------------
(* Properties *)

(* A schedule is listed exactly when its first target is due: whoever wrote *)
(* the row last, next_run_at is the earliest of the targets' next runs      *)
(* (syncScheduleAggregateRunFields, normalizeScheduleRunFields), even where *)
(* the stores mix columns of two writers.                                   *)
DueWithFirstTarget == \A s \in Schedule : row[s] # None =>
  /\ \A l \in Named(row[s].targets) : row[s].next <= row[s].targets[l].next
  /\ \E l \in Named(row[s].targets) : row[s].next = row[s].targets[l].next

(* However late a run is and whatever edits came between, the next run of a *)
(* target is after its last one: nextScheduleTargetRun never leaves a       *)
(* target due at the time it was run.                                       *)
LastBeforeNext == \A s \in Schedule : row[s] # None =>
  \A l \in Named(row[s].targets) :
    row[s].targets[l].last # None => row[s].targets[l].last < row[s].targets[l].next

(* runDueSchedules creates runs once for each due time of a target, as long *)
(* as no store call fails, the server does not crash between creating the   *)
(* runs and advancing the schedule, and no edit overlaps with a run: edits  *)
(* one after the other never bring back a due time that was served.         *)
RunsOnce == ~overlap /\ ~Faulty => ~repeated

(* The history of a schedule is read by revision                            *)
(* (scheduleHistoryFilterForSchedule): runs of one revision have one        *)
(* definition, the allowed agents included.                                 *)
OneDefinitionPerRevision == \A x, y \in ran :
  x.sched = y.sched /\ x.rev = y.rev => x.plan = y.plan

(* It is so as long as no two writers of a row overlap, failures of store   *)
(* calls and crashes included.                                              *)
HistoryOfOneDefinition == ~overlap => OneDefinitionPerRevision

(* What a manager was told is stored stays stored until the next edit, run  *)
(* after run, as long as no two writers overlap.                            *)
EditsKept == ~overlap => \A s \in Schedule :
  row[s] # None => Settings(row[s]) = accepted[s]

(* The list of allowed agents of the last edit is the one on the stored     *)
(* targets, whoever else writes the row.                                    *)
AllowlistStored == \A s \in Schedule :
  row[s] # None => Selection(row[s].targets) = accepted[s].sel

(* A schedule that was deleted while it ran, or while it was edited, does   *)
(* not come back.                                                           *)
DeletedStaysDeleted == [][\A s \in deleted : row'[s] = None]_vars

(* A due time of an enabled schedule does not stay due for ever: it is      *)
(* handled though no agent is there to run it, though store calls fail and  *)
(* the server crashes, and though one tick lists only so many schedules.    *)
WaitsFor(s, l, t) ==
  /\ row[s] # None /\ row[s].enabled /\ t <= now
  /\ l \in Named(row[s].targets) /\ row[s].targets[l].next = t

EveryDueTimeIsHandled == \A s \in Schedule, l \in Label, t \in 0..MaxTime :
  WaitsFor(s, l, t) ~> ~WaitsFor(s, l, t)
=============================================================================
