-------------------------------- MODULE Hub --------------------------------
(***************************************************************************)
(* The job life cycle in the scheduler hub (internal/scheduler/hub.go) over *)
(* the job store (internal/store): jobs created by the API, claimed and     *)
(* dispatched by the send loop of a gRPC session, finished by the receive   *)
(* loop, by the deferred clean-up of a session, or by the timeout sweep.    *)
(*                                                                         *)
(* Every goroutine runs on its own and every call of the store is a step of *)
(* its own; a store call may fail, a stream may break at any time, and the  *)
(* server may crash and restart on the same database.                       *)
(*                                                                         *)
(* Left out because no step of this module reads it: whether the store has  *)
(* an agent as online, and the agent's last heartbeat (a tick of a send     *)
(* loop that is skipped for a stale or disabled agent is a tick not taken). *)
(***************************************************************************)
EXTENDS Integers, FiniteSets

CONSTANTS
  Agent,         \* agent ids
  Session,       \* gRPC streams; each is opened at most once
  SessionAgent,  \* the agent id in the hello of each stream
  Job,           \* job ids
  CreatedAt,     \* when each job is created; a request's jobs share it
  Parent,        \* ParentID of each job, None for a job a request asked for
  AgentOf,       \* AgentID of each job, None for the parent of a fan-out
  None,          \* no job, no agent, no session, no outcome
  MaxInflight,   \* max_inflight_per_agent
  ScanLimit,     \* timedOutJobScanLimit
  MaxErrors,     \* bound: store calls that fail
  MaxCrashes     \* bound: crashes of the server

Children(p) == {c \in Job : Parent[c] = p}

ASSUME HubAssumption ==
  /\ None \notin Job /\ None \notin Agent /\ None \notin Session
  /\ None \notin {"succeeded", "failed"}
  /\ SessionAgent \in [Session -> Agent]
  /\ CreatedAt \in [Job -> Nat]
  /\ Parent \in [Job -> Job \cup {None}]
  /\ AgentOf \in [Job -> Agent \cup {None}]
  /\ \A j \in Job : Parent[j] # None =>
        /\ AgentOf[j] # None /\ CreatedAt[j] = CreatedAt[Parent[j]]
        /\ Parent[Parent[j]] = None /\ AgentOf[Parent[j]] = None
  /\ \A j \in Job : AgentOf[j] = None => Children(j) # {}
  /\ MaxInflight \in Nat \ {0} /\ ScanLimit \in Nat \ {0}
  /\ MaxErrors \in Nat /\ MaxCrashes \in Nat

IsFanout(j) == AgentOf[j] = None

Outcome  == {"succeeded", "failed"}
Status   == {"absent", "queued", "running"} \cup Outcome

(* The goroutines that may finish a job: the receive loop of a stream, the  *)
(* deferred clean-up of Connect, and the loop started by Hub.Start.         *)
Recv(s)    == <<s, "recv">>
Exit(s)    == <<s, "exit">>
Sweeper    == <<None, "sweep">>
Proc       == {Recv(s) : s \in Session} \cup {Exit(s) : s \in Session} \cup {Sweeper}

PC == {"idle",
       "event", "put",                    \* handleResult
       "fail", "failGet", "failPut",      \* failJob
       "parGet", "parList", "parPut",     \* completeParentIfDoneWithFailure
       "emit",                            \* emitProgress of a terminal status
       "drop",                            \* the clean-up's second critical section
       "defer", "kids", "kill", "killPut"}\* failTimedOutJobs

Frame == [pc : PC, job : Job \cup {None}, out : Outcome \cup {None}]
Idle  == [pc |-> "idle", job |-> None, out |-> None]

VARIABLES
  (* the store *)
  status,      \* status of each job, "absent" before it is created
  age,         \* how long a job has waited or run: 0, or past its tool
               \* timeout (1), or past the overall limit of a fan-out (2)
  summary,     \* exit status in the summary event recorded for a job
  finals,      \* number of terminal progress events recorded for a job
  (* Hub.mu *)
  running,     \* running[a]: job ids in flight at agent a
  cancelTo,    \* grpcCancels[a]: the stream whose queue takes cancels for a
  cancels,     \* the queued cancels of each stream
  (* gRPC sessions and the agents behind them *)
  link,        \* state of each stream and of its Connect handler
  sender,      \* the send loop of each stream
  exec,        \* jobs sent on a stream whose answer was not received yet
  dispatches,  \* how often a job was sent to an agent
  (* goroutines *)
  proc,        \* what each finishing goroutine is doing
  todo,        \* jobs it has still to look at in its current loop
  seen,        \* the sweep's snapshot: age of each listed fan-out parent
  victims,     \* children the sweep has still to time out
  (* faults *)
  errs, crashes

storeVars == <<status, age, summary, finals>>
hubVars   == <<running, cancelTo, cancels>>
linkVars  == <<link, sender, exec, dispatches>>
loopVars  == <<todo, seen, victims>>
vars == <<storeVars, hubVars, linkVars, proc, loopVars, errs, crashes>>

Sender == [pc : {"select", "claim", "send", "done"}, batch : SUBSET Job,
           job : Job \cup {None}]
Stopped == [pc |-> "done", batch |-> {}, job |-> None]

TypeOK ==
  /\ status \in [Job -> Status]
  /\ age \in [Job -> 0..2]
  /\ summary \in [Job -> Outcome \cup {None}]
  /\ finals \in [Job -> Nat]
  /\ running \in [Agent -> SUBSET Job]
  /\ cancelTo \in [Agent -> Session \cup {None}]
  /\ cancels \in [Session -> SUBSET Job]
  /\ link \in [Session -> {"new", "up", "down", "closing", "closed"}]
  /\ sender \in [Session -> Sender]
  /\ exec \in [Session -> SUBSET Job]
  /\ dispatches \in [Job -> Nat]
  /\ proc \in [Proc -> Frame]
  /\ todo \in [Proc -> SUBSET Job]
  /\ seen \in [Job -> 0..2]
  /\ victims \in SUBSET Job
  /\ errs \in 0..MaxErrors
  /\ crashes \in 0..MaxCrashes

Init ==
  /\ status = [j \in Job |-> "absent"]
  /\ age = [j \in Job |-> 0]
  /\ summary = [j \in Job |-> None]
  /\ finals = [j \in Job |-> 0]
  /\ running = [a \in Agent |-> {}]
  /\ cancelTo = [a \in Agent |-> None]
  /\ cancels = [s \in Session |-> {}]
  /\ link = [s \in Session |-> "new"]
  /\ sender = [s \in Session |-> Stopped]
  /\ exec = [s \in Session |-> {}]
  /\ dispatches = [j \in Job |-> 0]
  /\ proc = [p \in Proc |-> Idle]
  /\ todo = [p \in Proc |-> {}]
  /\ seen = [j \in Job |-> 0]
  /\ victims = {}
  /\ errs = 0
  /\ crashes = 0

-----------------------------------------------------------------------------
(* Helpers *)

terminalJobStatus(st) == st \in Outcome
Active(j)   == status[j] \in {"queued", "running"}
ChildrenDone(p) == \A c \in Children(p) : terminalJobStatus(status[c])

(* The oldest n of a set of jobs; jobs of one request are tied.             *)
OldestOf(S, n) ==
  {T \in SUBSET S :
     /\ Cardinality(T) = IF Cardinality(S) < n THEN Cardinality(S) ELSE n
     /\ \A t \in T, u \in S \ T : CreatedAt[t] <= CreatedAt[u]}

(* A store call works, or fails: because the database fails, or because the *)
(* context it runs under is cancelled, as that of a broken stream is.       *)
Works == UNCHANGED errs
Fails(ctxDone) ==
  \/ ctxDone /\ UNCHANGED errs
  \/ errs < MaxErrors /\ errs' = errs + 1
CtxDone(p) == \E s \in Session : p = Recv(s) /\ link[s] # "up"

Goto(p, pc, j, o) == proc' = [proc EXCEPT ![p] = [pc |-> pc, job |-> j, out |-> o]]
Return(p)         == proc' = [proc EXCEPT ![p] = Idle]

(* clearInflight: forget the job at its agent.                              *)
clearInflight(j) ==
  running' = [a \in Agent |-> IF a = AgentOf[j] THEN running[a] \ {j} ELSE running[a]]

(* UpdateJobStatus writes whatever status the job has by now. A failing     *)
(* call may have reached the database all the same.                         *)
UpdateJobStatus(j, st) ==
  /\ status' = [status EXCEPT ![j] = st]
  /\ age' = [age EXCEPT ![j] = 0]
MayUpdate(j, st) == UpdateJobStatus(j, st) \/ UNCHANGED <<status, age>>

(* After a job's terminal status is stored: look at its parent, or report.  *)
Finished(p, j, st) ==
  IF Parent[j] # None THEN Goto(p, "parGet", Parent[j], None)
                      ELSE Goto(p, "emit", j, st)

-----------------------------------------------------------------------------
(* The API: createJob, and the runs of a schedule *)

NextRequest(j) ==
  /\ Parent[j] = None /\ status[j] = "absent"
  /\ \A k \in Job : CreatedAt[k] < CreatedAt[j] => status[k] # "absent"

(* A fan-out parent starts running; its children and a pinned job queue.    *)
(* All jobs of a request are stored by one CreateJobs.                      *)
CreateJob(j) ==
  /\ NextRequest(j)
  /\ status' = [k \in Job |->
        IF k = j THEN (IF IsFanout(j) THEN "running" ELSE "queued")
        ELSE IF Parent[k] = j THEN "queued" ELSE status[k]]
  /\ UNCHANGED <<age, summary, finals, hubVars, linkVars, proc, loopVars, errs, crashes>>

(* A pinned job with no usable target is stored as failed.                  *)
CreateFailedJob(j) ==
  /\ NextRequest(j) /\ ~IsFanout(j)
  /\ status' = [status EXCEPT ![j] = "failed"]
  /\ UNCHANGED <<age, summary, finals, hubVars, linkVars, proc, loopVars, errs, crashes>>

(* Time passes for an active job.                                           *)
Ageing(j) ==
  /\ Active(j) /\ age[j] < (IF IsFanout(j) THEN 2 ELSE 1)
  /\ age' = [age EXCEPT ![j] = @ + 1]
  /\ UNCHANGED <<status, summary, finals, hubVars, linkVars, proc, loopVars, errs, crashes>>


-----------------------------------------------------------------------------
(* gRPC sessions: Connect and the send loop *)

Connect(s) ==
  /\ link[s] = "new"
  /\ link' = [link EXCEPT ![s] = "up"]
  /\ sender' = [sender EXCEPT ![s] = [Stopped EXCEPT !.pc = "select"]]
  /\ cancelTo' = [cancelTo EXCEPT ![SessionAgent[s]] = s]
  /\ UNCHANGED <<storeVars, running, cancels, exec, dispatches, proc, loopVars, errs, crashes>>

(* The stream breaks or is closed by the agent. What has arrived by then is *)
(* still in the receive loop's buffer.                                      *)
Break(s) ==
  /\ link[s] = "up"
  /\ link' = [link EXCEPT ![s] = "down"]
  /\ \E arrived \in SUBSET exec[s] : exec' = [exec EXCEPT ![s] = arrived]
  /\ UNCHANGED <<storeVars, hubVars, sender, dispatches, proc, loopVars, errs, crashes>>

(* A tick of the send loop lists queued jobs of the agent, as many as the   *)
(* in-flight limit leaves room for. Jobs whose tool or IP version the agent *)
(* or its policies do not support are not listed.                           *)
SendTick(s) ==
  LET a == SessionAgent[s]
      remaining == MaxInflight - Cardinality(running[a])
  IN  /\ sender[s].pc = "select"
      /\ \E batch \in SUBSET {j \in Job : status[j] = "queued" /\ AgentOf[j] = a} :
           /\ batch # {} /\ Cardinality(batch) <= remaining
           /\ sender' = [sender EXCEPT ![s] = [pc |-> "claim", batch |-> batch, job |-> None]]
      /\ UNCHANGED <<storeVars, hubVars, link, exec, dispatches, proc, loopVars, errs, crashes>>

(* The send loop goes on with the rest of its batch.                        *)
NextInBatch(s, batch) ==
  sender' = [sender EXCEPT ![s] =
    [pc |-> IF batch = {} THEN "select" ELSE "claim", batch |-> batch, job |-> None]]

(* Mutant: the claim does not compare the status.                           *)
ClaimRegardless(j, a) ==
  /\ AgentOf[j] = a
  /\ status' = [status EXCEPT ![j] = "running"]
  /\ age' = [age EXCEPT ![j] = 0]

(* ClaimQueuedJob: compare and set of the status; StartedAt becomes now.    *)
ClaimQueuedJob(j, a) ==
  /\ status[j] = "queued" /\ AgentOf[j] = a
  /\ status' = [status EXCEPT ![j] = "running"]
  /\ age' = [age EXCEPT ![j] = 0]

Claim(s, j) ==
  LET a == SessionAgent[s]
  IN  /\ sender[s].pc = "claim" /\ j \in sender[s].batch
      /\ \/ /\ Works
            /\ ClaimQueuedJob(j, a)
            /\ sender' = [sender EXCEPT ![s] =
                 [pc |-> "send", batch |-> @.batch \ {j}, job |-> j]]
         \/ /\ Works
            /\ status[j] # "queued"
            /\ NextInBatch(s, sender[s].batch \ {j})
            /\ UNCHANGED <<status, age>>
         \/ /\ Fails(link[s] # "up")
            /\ ClaimQueuedJob(j, a) \/ UNCHANGED <<status, age>>
            /\ NextInBatch(s, sender[s].batch \ {j})
      /\ UNCHANGED <<summary, finals, hubVars, link, exec, dispatches, proc, loopVars, crashes>>

(* markInflight, emitStarted and stream.Send of a claimed job. On a broken  *)
(* stream the send fails and the loop ends, the job stays marked.           *)
Dispatch(s) ==
  LET a == SessionAgent[s]
      j == sender[s].job
  IN  /\ sender[s].pc = "send"
      /\ running' = [running EXCEPT ![a] = @ \cup {j}]
      /\ \/ /\ link[s] = "up"
            /\ exec' = [exec EXCEPT ![s] = @ \cup {j}]
            /\ dispatches' = [dispatches EXCEPT ![j] = @ + 1]
            /\ NextInBatch(s, sender[s].batch)
         \/ /\ link[s] # "up"
            /\ sender' = [sender EXCEPT ![s] = Stopped]
            /\ UNCHANGED <<exec, dispatches>>
      /\ UNCHANGED <<storeVars, cancelTo, cancels, link, proc, loopVars, errs, crashes>>

(* The send loop forwards a cancel. The agent stops the probe: it may still *)
(* send the summary of what it has, or nothing.                             *)
SendCancel(s, j) ==
  /\ sender[s].pc = "select" /\ j \in cancels[s]
  /\ cancels' = [cancels EXCEPT ![s] = @ \ {j}]
  /\ \/ /\ link[s] = "up"
        /\ \/ exec' = [exec EXCEPT ![s] = @ \ {j}]
           \/ UNCHANGED exec
        /\ UNCHANGED sender
     \/ /\ link[s] # "up"
        /\ sender' = [sender EXCEPT ![s] = Stopped]
        /\ UNCHANGED exec
  /\ UNCHANGED <<storeVars, running, cancelTo, link, dispatches, proc, loopVars, errs, crashes>>

SendDone(s) ==
  /\ sender[s].pc = "select" /\ link[s] # "up"
  /\ sender' = [sender EXCEPT ![s] = Stopped]
  /\ UNCHANGED <<storeVars, hubVars, link, exec, dispatches, proc, loopVars, errs, crashes>>

-----------------------------------------------------------------------------
(* The receive loop: handleResult of a summary. Events without an exit code *)
(* only add to the event log.                                               *)

agentOwnsJob(a, j) == AgentOf[j] = a /\ j \in running[a]

(* GetJob and the checks of handleResult: the result of a job the agent     *)
(* does not own (any more) or that is terminal is dropped, and then nothing *)
(* is released.                                                             *)
ReceiveResult(s, j, out) ==
  /\ proc[Recv(s)].pc = "idle" /\ j \in exec[s]
  /\ exec' = [exec EXCEPT ![s] = @ \ {j}]
  /\ IF agentOwnsJob(SessionAgent[s], j) /\ ~terminalJobStatus(status[j])
        THEN Goto(Recv(s), "event", j, out)
        ELSE UNCHANGED proc
  /\ UNCHANGED <<storeVars, hubVars, link, sender, dispatches, loopVars, errs, crashes>>

(* The agent ends the job and the hub learns nothing: no summary is sent,   *)
(* or it cannot be decoded, or the job cannot be read from the store.       *)
LoseResult(s, j) ==
  /\ j \in exec[s]
  /\ exec' = [exec EXCEPT ![s] = @ \ {j}]
  /\ UNCHANGED <<storeVars, hubVars, link, sender, dispatches, proc, loopVars, errs, crashes>>

(* Mutant: an event that could not be stored is only logged.                *)
RecordEventOrNot(s) ==
  LET p == Recv(s)
      j == proc[p].job
  IN  /\ proc[p].pc = "event"
      /\ \/ Works /\ summary' = [summary EXCEPT ![j] = proc[p].out]
         \/ Fails(CtxDone(p)) /\ UNCHANGED summary
      /\ clearInflight(j)
      /\ Goto(p, "put", j, proc[p].out)
      /\ UNCHANGED <<status, age, finals, cancelTo, cancels, linkVars, loopVars, crashes>>

(* AddJobEvent, publish, then clearInflight.                                *)
RecordEvent(s) ==
  LET p == Recv(s)
      j == proc[p].job
  IN  /\ proc[p].pc = "event"
      /\ \/ /\ Works
            /\ summary' = [summary EXCEPT ![j] = proc[p].out]
            /\ clearInflight(j)
            /\ Goto(p, "put", j, proc[p].out)
         \/ /\ Fails(CtxDone(p))
            /\ summary' \in {summary, [summary EXCEPT ![j] = proc[p].out]}
            /\ Return(p)
            /\ UNCHANGED running
      /\ UNCHANGED <<status, age, finals, cancelTo, cancels, linkVars, loopVars, crashes>>

(* UpdateJobStatus with the outcome of the summary.                         *)
PutResult(s) ==
  LET p == Recv(s)
      j == proc[p].job
  IN  /\ proc[p].pc = "put"
      /\ \/ /\ Works
            /\ UpdateJobStatus(j, proc[p].out)
            /\ Finished(p, j, proc[p].out)
         \/ /\ Fails(CtxDone(p))
            /\ MayUpdate(j, proc[p].out)
            /\ Return(p)
      /\ UNCHANGED <<summary, finals, hubVars, linkVars, loopVars, crashes>>

-----------------------------------------------------------------------------
(* failJob *)

FailClear(p) ==
  /\ proc[p].pc = "fail"
  /\ clearInflight(proc[p].job)
  /\ Goto(p, "failGet", proc[p].job, None)
  /\ UNCHANGED <<storeVars, cancelTo, cancels, linkVars, loopVars, errs, crashes>>

FailGet(p) ==
  LET j == proc[p].job
  IN  /\ proc[p].pc = "failGet"
      /\ \/ /\ Works
            /\ IF terminalJobStatus(status[j]) THEN Return(p) ELSE Goto(p, "failPut", j, None)
         \/ /\ Fails(FALSE)
            /\ Return(p)
      /\ UNCHANGED <<storeVars, hubVars, linkVars, loopVars, crashes>>

FailPut(p) ==
  LET j == proc[p].job
  IN  /\ proc[p].pc = "failPut"
      /\ \/ /\ Works
            /\ UpdateJobStatus(j, "failed")
            /\ Finished(p, j, "failed")
         \/ /\ Fails(FALSE)
            /\ MayUpdate(j, "failed")
            /\ Return(p)
      /\ UNCHANGED <<summary, finals, hubVars, linkVars, loopVars, crashes>>

-----------------------------------------------------------------------------
(* completeParentIfDone, and the terminal progress event *)

ParentGet(p) ==
  LET j == proc[p].job
  IN  /\ proc[p].pc = "parGet"
      /\ \/ /\ Works
            /\ IF terminalJobStatus(status[j]) THEN Return(p) ELSE Goto(p, "parList", j, None)
         \/ /\ Fails(CtxDone(p))
            /\ Return(p)
      /\ UNCHANGED <<storeVars, hubVars, linkVars, loopVars, crashes>>

(* A fan-out succeeds if one of its children did.                           *)
Verdict(p) ==
  IF \E c \in Children(p) : status[c] = "succeeded" THEN "succeeded" ELSE "failed"

(* Mutant: the first child that is over ends its parent.                    *)
ParentListFirst(p) ==
  LET j == proc[p].job
  IN  /\ proc[p].pc = "parList"
      /\ Works /\ Goto(p, "parPut", j, Verdict(j))
      /\ UNCHANGED <<storeVars, hubVars, linkVars, loopVars, crashes>>

ParentList(p) ==
  LET j == proc[p].job
  IN  /\ proc[p].pc = "parList"
      /\ \/ /\ Works
            /\ IF ChildrenDone(j) THEN Goto(p, "parPut", j, Verdict(j)) ELSE Return(p)
         \/ /\ Fails(CtxDone(p))
            /\ Return(p)
      /\ UNCHANGED <<storeVars, hubVars, linkVars, loopVars, crashes>>

(* Mutant: a status that could not be stored is only logged.                *)
ParentPutOrNot(p) ==
  LET j == proc[p].job
  IN  /\ proc[p].pc = "parPut"
      /\ \/ Works /\ UpdateJobStatus(j, proc[p].out)
         \/ Fails(CtxDone(p)) /\ MayUpdate(j, proc[p].out)
      /\ Goto(p, "emit", j, proc[p].out)
      /\ UNCHANGED <<summary, finals, hubVars, linkVars, loopVars, crashes>>

ParentPut(p) ==
  LET j == proc[p].job
  IN  /\ proc[p].pc = "parPut"
      /\ \/ /\ Works
            /\ UpdateJobStatus(j, proc[p].out)
            /\ Goto(p, "emit", j, proc[p].out)
         \/ /\ Fails(CtxDone(p))
            /\ MayUpdate(j, proc[p].out)
            /\ Return(p)
      /\ UNCHANGED <<summary, finals, hubVars, linkVars, loopVars, crashes>>

Emit(p) ==
  LET j == proc[p].job
  IN  /\ proc[p].pc = "emit"
      /\ \/ /\ Works
            /\ finals' = [finals EXCEPT ![j] = @ + 1]
         \/ /\ Fails(CtxDone(p))
            /\ UNCHANGED finals
      /\ Return(p)
      /\ UNCHANGED <<status, age, summary, hubVars, linkVars, loopVars, crashes>>

-----------------------------------------------------------------------------
(* The deferred clean-up of Connect, once a loop of the stream has ended    *)
(* (with the receive loop ends what it has not read yet):                   *)
(* the jobs in flight are listed, then, in a second critical section, what  *)
(* the hub holds under the agent's id is deleted, then each job is failed.  *)

CloseSession(s) ==
  /\ link[s] = "down"
  /\ \/ proc[Recv(s)].pc = "idle" /\ exec' = [exec EXCEPT ![s] = {}]
     \/ sender[s].pc = "done" /\ UNCHANGED exec
  /\ link' = [link EXCEPT ![s] = "closing"]
  /\ todo' = [todo EXCEPT ![Exit(s)] = running[SessionAgent[s]]]
  /\ Goto(Exit(s), "drop", None, None)
  /\ UNCHANGED <<storeVars, hubVars, sender, dispatches, seen, victims, errs, crashes>>

DropSession(s) ==
  /\ proc[Exit(s)].pc = "drop"
  /\ running' = [running EXCEPT ![SessionAgent[s]] = {}]
  /\ cancelTo' = [cancelTo EXCEPT ![SessionAgent[s]] = None]
  /\ Return(Exit(s))
  /\ UNCHANGED <<storeVars, cancels, linkVars, loopVars, errs, crashes>>

FailDisconnected(s, j) ==
  /\ link[s] = "closing" /\ proc[Exit(s)].pc = "idle" /\ j \in todo[Exit(s)]
  /\ todo' = [todo EXCEPT ![Exit(s)] = @ \ {j}]
  /\ Goto(Exit(s), "fail", j, None)
  /\ UNCHANGED <<storeVars, hubVars, linkVars, seen, victims, errs, crashes>>

CloseDone(s) ==
  /\ link[s] = "closing" /\ proc[Exit(s)].pc = "idle" /\ todo[Exit(s)] = {}
  /\ link' = [link EXCEPT ![s] = "closed"]
  /\ UNCHANGED <<storeVars, hubVars, sender, exec, dispatches, proc, loopVars, errs, crashes>>

-----------------------------------------------------------------------------
(* failTimedOutJobs *)

(* Mutant: jobs that are over are listed, too.                              *)
SweepBeginAll ==
  /\ proc[Sweeper].pc = "idle" /\ todo[Sweeper] = {}
  /\ \E listed \in OldestOf({j \in Job : status[j] # "absent"}, ScanLimit) :
       todo' = [todo EXCEPT ![Sweeper] = {j \in listed : IsFanout(j) \/ age[j] > 0}]
  /\ seen' = [j \in Job |-> IF IsFanout(j) /\ j \in todo'[Sweeper] THEN age[j] ELSE 0]
  /\ UNCHANGED <<storeVars, hubVars, linkVars, proc, victims, errs, crashes>>

(* ListActiveJobs and the clock: which jobs are past their timeout is       *)
(* decided on this snapshot. Others but fan-out parents are passed over.    *)
SweepBegin ==
  /\ proc[Sweeper].pc = "idle" /\ todo[Sweeper] = {}
  /\ \E listed \in OldestOf({j \in Job : Active(j)}, ScanLimit) :
       todo' = [todo EXCEPT ![Sweeper] = {j \in listed : IsFanout(j) \/ age[j] > 0}]
  /\ seen' = [j \in Job |-> IF IsFanout(j) /\ j \in todo'[Sweeper] THEN age[j] ELSE 0]
  /\ UNCHANGED <<storeVars, hubVars, linkVars, proc, victims, errs, crashes>>

SweepNext(j) ==
  /\ proc[Sweeper].pc = "idle" /\ j \in todo[Sweeper]
  /\ \A k \in todo[Sweeper] : CreatedAt[j] <= CreatedAt[k]
  /\ todo' = [todo EXCEPT ![Sweeper] = @ \ {j}]
  /\ Goto(Sweeper, IF IsFanout(j) THEN "defer" ELSE "fail", j, None)
  /\ UNCHANGED <<storeVars, hubVars, linkVars, seen, victims, errs, crashes>>

(* deferFanoutParentTimeout, then jobTimedOut. Until the overall limit the  *)
(* parent waits for its children.                                           *)
SweepDefer ==
  LET j == proc[Sweeper].job
  IN  /\ proc[Sweeper].pc = "defer"
      /\ \/ /\ Works
            /\ \/ seen[j] = 2 /\ Goto(Sweeper, "kids", j, None)
               \/ seen[j] < 2 /\ ~ChildrenDone(j) /\ Return(Sweeper)
               \/ seen[j] < 2 /\ ChildrenDone(j) /\ Goto(Sweeper, "parGet", j, None)
         \/ /\ Fails(FALSE)
            /\ IF seen[j] > 0 THEN Goto(Sweeper, "kids", j, None) ELSE Return(Sweeper)
      /\ seen' = [seen EXCEPT ![j] = 0]
      /\ UNCHANGED <<storeVars, hubVars, linkVars, todo, victims, crashes>>

(* Mutant: the parent is failed without its children.                       *)
SweepParentOnly ==
  /\ proc[Sweeper].pc = "kids"
  /\ Works /\ UNCHANGED victims
  /\ Goto(Sweeper, "failGet", proc[Sweeper].job, None)
  /\ UNCHANGED <<storeVars, hubVars, linkVars, todo, seen, crashes>>

(* failFanoutChildren lists the children; if it cannot, the parent itself   *)
(* is failed.                                                               *)
SweepKids ==
  LET j == proc[Sweeper].job
  IN  /\ proc[Sweeper].pc = "kids"
      /\ \/ /\ Works
            /\ victims' = {c \in Children(j) : ~terminalJobStatus(status[c])}
            /\ Goto(Sweeper, "kill", j, None)
         \/ /\ Fails(FALSE)
            /\ UNCHANGED victims
            /\ Goto(Sweeper, "failGet", j, None)
      /\ UNCHANGED <<storeVars, hubVars, linkVars, todo, seen, crashes>>

(* sendGRPCCancel: dropped when the agent has no queue or it is full.       *)
sendGRPCCancel(a, j) ==
  LET s == cancelTo[a]
  IN  cancels' = IF s # None /\ Cardinality(cancels[s]) < 2 * MaxInflight
                   THEN [cancels EXCEPT ![s] = @ \cup {j}] ELSE cancels

SweepKill(c) ==
  /\ proc[Sweeper].pc = "kill" /\ c \in victims
  /\ sendGRPCCancel(AgentOf[c], c)
  /\ clearInflight(c)
  /\ victims' = victims \ {c}
  /\ Goto(Sweeper, "killPut", c, None)
  /\ UNCHANGED <<storeVars, cancelTo, linkVars, todo, seen, errs, crashes>>

(* Mutant: a child that is timed out is stored as canceled.                 *)
SweepKillPutCanceled ==
  LET c == proc[Sweeper].job
  IN  /\ proc[Sweeper].pc = "killPut"
      /\ Works /\ UpdateJobStatus(c, "canceled")
      /\ Goto(Sweeper, "kill", Parent[c], None)
      /\ UNCHANGED <<summary, finals, hubVars, linkVars, loopVars, crashes>>

(* A child that cannot be updated is logged and left as it is.              *)
SweepKillPut ==
  LET c == proc[Sweeper].job
  IN  /\ proc[Sweeper].pc = "killPut"
      /\ \/ Works /\ UpdateJobStatus(c, "failed")
         \/ Fails(FALSE) /\ MayUpdate(c, "failed")
      /\ Goto(Sweeper, "kill", Parent[c], None)
      /\ UNCHANGED <<summary, finals, hubVars, linkVars, loopVars, crashes>>

SweepKilled ==
  /\ proc[Sweeper].pc = "kill" /\ victims = {}
  /\ Goto(Sweeper, "parGet", proc[Sweeper].job, None)
  /\ UNCHANGED <<storeVars, hubVars, linkVars, loopVars, errs, crashes>>

-----------------------------------------------------------------------------
(* The server process dies and starts again on the same database.           *)
Crash ==
  /\ crashes < MaxCrashes
  /\ crashes' = crashes + 1
  /\ running' = [a \in Agent |-> {}]
  /\ cancelTo' = [a \in Agent |-> None]
  /\ cancels' = [s \in Session |-> {}]
  /\ link' = [s \in Session |-> IF link[s] = "new" THEN "new" ELSE "closed"]
  /\ sender' = [s \in Session |-> Stopped]
  /\ exec' = [s \in Session |-> {}]
  /\ proc' = [p \in Proc |-> Idle]
  /\ todo' = [p \in Proc |-> {}]
  /\ seen' = [j \in Job |-> 0]
  /\ victims' = {}
  /\ UNCHANGED <<storeVars, dispatches, errs>>

-----------------------------------------------------------------------------
(* Steps of failJob, completeParentIfDone and emitProgress in any goroutine *)
FinishStep(p) ==
  \/ FailClear(p) \/ FailGet(p) \/ FailPut(p)
  \/ ParentGet(p) \/ ParentList(p) \/ ParentPut(p)
  \/ Emit(p)

SendStep(s) == (\E j \in Job : Claim(s, j) \/ SendCancel(s, j)) \/ Dispatch(s) \/ SendDone(s)

RecvStep(s) == RecordEvent(s) \/ PutResult(s) \/ FinishStep(Recv(s))

ExitStep(s) ==
  \/ CloseSession(s) \/ DropSession(s) \/ CloseDone(s)
  \/ \E j \in Job : FailDisconnected(s, j)
  \/ FinishStep(Exit(s))

SweepStep ==
  \/ SweepBegin \/ SweepDefer \/ SweepKids \/ SweepKillPut \/ SweepKilled
  \/ \E j \in Job : SweepNext(j) \/ SweepKill(j)
  \/ FinishStep(Sweeper)

Environment ==
  \/ \E j \in Job : CreateJob(j) \/ CreateFailedJob(j) \/ Ageing(j)
  \/ \E s \in Session : Connect(s) \/ Break(s) \/ SendTick(s)
  \/ \E s \in Session, j \in Job :
        LoseResult(s, j) \/ \E out \in Outcome : ReceiveResult(s, j, out)
  \/ Crash

Next ==
  \/ Environment
  \/ \E s \in Session : SendStep(s) \/ RecvStep(s) \/ ExitStep(s)
  \/ SweepStep

Spec == Init /\ [][Next]_vars

(* Goroutines keep running and time passes; nobody has to ask for a job, to *)
(* connect or to answer, and no send loop has to find anything to send.     *)
Fairness ==
  /\ \A j \in Job : WF_vars(Ageing(j))
  /\ \A s \in Session : WF_vars(SendStep(s)) /\ WF_vars(RecvStep(s)) /\ WF_vars(ExitStep(s))
  /\ WF_vars(SweepStep)

FairSpec == Spec /\ Fairness

-----------------------------------------------------------------------------
(* Properties *)

(* A job is sent to an agent at most once, whatever sessions of the agent   *)
(* overlap and whatever send loop outlives its stream (ClaimQueuedJob is    *)
(* the only way to stream.Send in sendLoop).                                *)
AtMostOneDispatch == \A j \in Job : dispatches[j] <= 1

(* What an agent is accounted for in Hub.running is its own and was claimed *)
(* for it: agentOwnsJob, the guard of handleResult, never accepts a result  *)
(* of a job that is still queued or of somebody else's.                     *)
InflightWasClaimed ==
  \A a \in Agent : \A j \in running[a] :
    AgentOf[j] = a /\ status[j] \notin {"absent", "queued"}

(* No success without evidence: a job is stored as succeeded only if an     *)
(* agent's summary of a success is recorded in its events, and a fan-out    *)
(* only if that holds of one of its children, even when late results and    *)
(* the timeout sweep overwrite each other (handleResult stores the event    *)
(* before the status; completeParentIfDone reads children first).           *)
SuccessHasEvidence ==
  \A j \in Job : status[j] = "succeeded" =>
    IF IsFanout(j) THEN \E c \in Children(j) : summary[c] = "succeeded"
                   ELSE summary[j] = "succeeded"

(* While no store call has failed, a fan-out is over only when all of its   *)
(* children are (completeParentIfDoneWithFailure, failFanoutChildren).      *)
ParentAfterChildren ==
  errs = 0 => \A p \in Job :
    IsFanout(p) /\ terminalJobStatus(status[p]) => ChildrenDone(p)

(* Who reads a terminal progress event finds a terminal job, and only jobs  *)
(* that a request asked for have one (emitProgress after UpdateJobStatus).  *)
FinalAfterTerminal ==
  \A j \in Job : finals[j] > 0 => Parent[j] = None /\ terminalJobStatus(status[j])

(* A job only moves forward: it is never requeued, and once terminal it is  *)
(* never active again, though every status write but the claim is           *)
(* unconditional.                                                           *)
Rank(st) == CASE st = "absent" -> 0 [] st = "queued" -> 1 [] st = "running" -> 2
              [] OTHER -> 3
StatusMovesForward ==
  [][\A j \in Job : Rank(status[j]) <= Rank(status'[j])]_status

(* Every job that is created reaches a terminal status, whatever agents,    *)
(* streams, failing store calls and crashes do (failTimedOutJobs).          *)
EveryJobFinishes ==
  \A j \in Job : status[j] # "absent" ~> terminalJobStatus(status[j])

(* The hub implements the abstract life cycle of jobs.                      *)
Lifecycle == INSTANCE JobLifecycle WITH
  phase  <- [j \in Job |-> IF terminalJobStatus(status[j]) THEN "done" ELSE status[j]],
  faulty <- errs > 0
ImplementsLifecycle == Lifecycle!Spec

(* A job that is over does not occupy an in-flight slot of its agent for    *)
(* ever (clearInflight in handleResult, failJob and failFanoutChildren).    *)
InflightCleared ==
  \A a \in Agent, j \in Job :
    j \in running[a] /\ terminalJobStatus(status[j]) ~> j \notin running[a]

=============================================================================
