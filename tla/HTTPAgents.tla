----------------------------- MODULE HTTPAgents -----------------------------
(***************************************************************************)
(* The managed HTTP agents of the hub (internal/scheduler/http_agent.go):   *)
(* one agent id, the health loops that run for it one after the other or,   *)
(* after quick edits, side by side, and the calls of its jobs.              *)
(*                                                                         *)
(* A manager writes the record of the agent and then reloads; a reload      *)
(* lists the records before it takes Hub.mu. A loop that is cancelled may   *)
(* still take a tick before it notices. Each job runs in a goroutine of its *)
(* own that repeats a call after a connection error. handleResult and       *)
(* failJob are single steps here, with their failures; module Hub takes     *)
(* them apart.                                                              *)
(***************************************************************************)
EXTENDS Naturals, FiniteSets

CONSTANTS
  MaxLoops,     \* bound: health loops, in the order they are started
  MaxRequests,  \* bound: management requests, in the order they write
  Job,          \* jobs queued for the agent
  Child,        \* those that are children of a fan-out
  None,         \* no loop
  MaxInflight,  \* max_inflight_per_agent
  Attempts,     \* http_invoke_attempts
  MaxFlaps      \* bound: changes of the agent's health

Loop    == 1..MaxLoops
Request == 1..MaxRequests

ASSUME HTTPAgentsAssumption ==
  /\ None \notin Loop \cup Job /\ Child \subseteq Job
  /\ MaxRequests \in Nat /\ MaxLoops \in Nat /\ MaxLoops > MaxRequests
  /\ MaxInflight \in Nat \ {0} /\ Attempts \in Nat \ {0} /\ MaxFlaps \in Nat

VARIABLES
  (* the store *)
  enabled,     \* the agent has a managed record and it is enabled
  presence,    \* its row in the agents table
  status,      \* of each job
  events,      \* the attempts whose events are recorded for a job
  (* Hub.mu *)
  configured,  \* the agent is listed in httpAgents
  registered,  \* httpAgentCancels[id]: the loop a reload can cancel
  running,     \* jobs in flight
  cancelFns,   \* jobs with an entry in inflightCancels
  (* goroutines *)
  boot,        \* startConfiguredHTTPAgents
  request,     \* each management request and the list its reload has read
  loop,        \* each health loop
  cancelled,   \* loops whose context is done
  recoveryCh,  \* loops whose recovery channel is full
  call,        \* invokeHTTPAgent of each job; history: callers, and lost, which
               \*   says that the end of the job did not get into the store
  aborted,     \* jobs whose call was cancelled or has run out of time
  (* the agent, and what happened *)
  healthy,     \* the agent answers
  flaps,       \* how often that has changed
  lapses       \* history: why loops may differ from the record

storeVars == <<enabled, presence, status, events>>
hubVars   == <<configured, registered, running, cancelFns>>
procVars  == <<boot, request, loop, cancelled, recoveryCh, call, aborted>>
vars == <<storeVars, hubVars, procVars, healthy, flaps, lapses>>

Outcome  == {"succeeded", "failed"}
Frame    == [pc : {"unused", "probe", "select", "batch", "start", "ended"},
             recovering : BOOLEAN, batch : SUBSET Job, job : Job \cup {None}]
Idle     == [pc |-> "unused", recovering |-> FALSE, batch |-> {}, job |-> None]
Call     == [pc : {"none", "begin", "calling", "reading", "waiting", "error", "broken", "end"},
             by : Loop \cup {None}, attempt : 0..Attempts, hadEvent : BOOLEAN,
             gotParsed : BOOLEAN, callers : Nat, lost : BOOLEAN]
NoCall   == [pc |-> "none", by |-> None, attempt |-> 0, hadEvent |-> FALSE, gotParsed |-> FALSE,
             callers |-> 0, lost |-> FALSE]

TypeOK ==
  /\ enabled \in BOOLEAN
  /\ presence \in {"absent", "online", "offline"}
  /\ status \in [Job -> {"queued", "running"} \cup Outcome]
  /\ events \in [Job -> SUBSET (1..Attempts)]
  /\ configured \in BOOLEAN
  /\ registered \in Loop \cup {None}
  /\ running \subseteq Job /\ cancelFns \subseteq Job
  /\ boot \in {"list", "start", "done"}
  /\ request \in [Request -> [pc : {"new", "list", "apply", "done"}, listed : BOOLEAN]]
  /\ loop \in [Loop -> Frame]
  /\ cancelled \subseteq Loop /\ recoveryCh \subseteq Loop
  /\ call \in [Job -> Call]
  /\ aborted \subseteq Job
  /\ healthy \in BOOLEAN /\ flaps \in 0..MaxFlaps
  /\ lapses \subseteq {"overlap", "stale", "unlisted"}

(* The server starts on a database with or without such a record.           *)
Init ==
  /\ enabled \in BOOLEAN
  /\ presence = "absent"
  /\ status = [j \in Job |-> "queued"]
  /\ events = [j \in Job |-> {}]
  /\ configured = FALSE
  /\ registered = None
  /\ running = {} /\ cancelFns = {}
  /\ boot = "list"
  /\ request = [r \in Request |-> [pc |-> "new", listed |-> FALSE]]
  /\ loop = [l \in Loop |-> Idle]
  /\ cancelled = {} /\ recoveryCh = {}
  /\ call = [j \in Job |-> NoCall]
  /\ aborted = {}
  /\ healthy \in BOOLEAN /\ flaps = 0
  /\ lapses = {}

-----------------------------------------------------------------------------
(* Starting and stopping loops *)

Alive(l) == loop[l].pc \notin {"unused", "ended"}
Ending   == {l \in cancelled : Alive(l)}
Live     == {l \in Loop \ cancelled : Alive(l)}

(* go httpAgentLoop, with its cancel function registered.                   *)
StartLoop ==
  LET l == 1 + Cardinality({k \in Loop : loop[k].pc # "unused"})
  IN  /\ loop' = [loop EXCEPT ![l].pc = "probe"]
      /\ registered' = l

Noted(what, when) == IF when THEN {what} ELSE {}

(* configuredHTTPAgents at startup: an empty or failed listing leaves       *)
(* httpAgents as it is. A record whose TLS files do not load is skipped.    *)
BootList ==
  /\ boot = "list"
  /\ boot' = "start"
  /\ \/ configured' = (enabled \/ configured) /\ UNCHANGED lapses
     \/ UNCHANGED configured /\ lapses' = lapses \cup {"unlisted"}
  /\ UNCHANGED <<storeVars, registered, running, cancelFns, request, loop, cancelled,
                 recoveryCh, call, aborted, healthy, flaps>>

startHTTPAgents ==
  /\ boot = "start"
  /\ boot' = "done"
  /\ IF configured /\ registered = None
       THEN StartLoop ELSE UNCHANGED <<loop, registered>>
  /\ lapses' = lapses \cup Noted("stale", configured # enabled)
                      \cup Noted("overlap", configured /\ registered = None /\ Ending # {})
  /\ UNCHANGED <<storeVars, configured, running, cancelFns, request, cancelled, recoveryCh,
                 call, aborted, healthy, flaps>>

(* A manager creates, edits or deletes the record: UpsertHTTPAgent or       *)
(* DeleteHTTPAgent, and then ReloadHTTPAgents.                              *)
WriteNode(r, v) ==
  /\ request[r].pc = "new" /\ \A q \in 1..(r - 1) : request[q].pc # "new"
  /\ enabled' = v
  /\ request' = [request EXCEPT ![r].pc = "list"]
  /\ UNCHANGED <<presence, status, events, hubVars, boot, loop, cancelled, recoveryCh, call,
                 aborted, healthy, flaps, lapses>>

ReloadList(r) ==
  /\ request[r].pc = "list"
  /\ \/ /\ request' = [request EXCEPT ![r] = [pc |-> "apply", listed |-> enabled]]
        /\ UNCHANGED lapses
     \/ /\ request' = [request EXCEPT ![r].pc = "done"]
        /\ lapses' = lapses \cup {"unlisted"}
  /\ UNCHANGED <<storeVars, hubVars, boot, loop, cancelled, recoveryCh, call, aborted,
                 healthy, flaps>>

(* Mutant: the loop of an agent that is gone is forgotten, not cancelled.   *)
ReloadApplyNoCancel(r) ==
  /\ request[r].pc = "apply"
  /\ request' = [request EXCEPT ![r].pc = "done"]
  /\ configured' = request[r].listed
  /\ \/ request[r].listed /\ registered = None /\ StartLoop
     \/ request[r].listed /\ registered # None /\ UNCHANGED <<loop, registered>>
     \/ ~request[r].listed /\ registered' = None /\ UNCHANGED loop
  /\ UNCHANGED <<storeVars, running, cancelFns, boot, cancelled, recoveryCh, call, aborted,
                 healthy, flaps, lapses>>

(* The critical section of ReloadHTTPAgents. A loop that runs is kept, with *)
(* the address and token it was started with.                               *)
ReloadApply(r) ==
  /\ request[r].pc = "apply"
  /\ request' = [request EXCEPT ![r].pc = "done"]
  /\ configured' = request[r].listed
  /\ \/ /\ request[r].listed /\ registered = None
        /\ StartLoop
        /\ UNCHANGED cancelled
     \/ /\ request[r].listed /\ registered # None
        /\ UNCHANGED <<loop, registered, cancelled>>
     \/ /\ ~request[r].listed
        /\ cancelled' = cancelled \cup ({registered} \ {None})
        /\ registered' = None
        /\ UNCHANGED loop
  /\ lapses' = lapses \cup Noted("stale", request[r].listed # enabled)
                      \cup Noted("overlap", request[r].listed /\ registered = None /\ Ending # {})
  /\ UNCHANGED <<storeVars, running, cancelFns, boot, recoveryCh, call, aborted, healthy, flaps>>

-----------------------------------------------------------------------------
(* httpAgentLoop *)

(* probeHTTPAgentHealth: GET /healthz within three seconds, status ok, and  *)
(* the id that was configured.                                              *)
ProbeWorks(l) == healthy /\ l \notin cancelled

(* A store call under the context of a cancelled loop may be refused.       *)
Store(l, p) == presence' = p \/ (l \in cancelled /\ UNCHANGED presence)

(* TouchAgent and MarkAgentOffline change the row of an agent that has one. *)
Marked(p) == IF presence = "absent" THEN "absent" ELSE p

Startup(l) ==
  /\ loop[l].pc = "probe"
  /\ loop' = [loop EXCEPT ![l].pc = "select", ![l].recovering = ~ProbeWorks(l)]
  /\ Store(l, IF ProbeWorks(l) THEN "online" ELSE "offline")
  /\ UNCHANGED <<enabled, status, events, hubVars, boot, request, cancelled, recoveryCh, call,
                 aborted, healthy, flaps, lapses>>

(* ctx.Done: the agent is marked offline and the entry under its id is      *)
(* deleted, whichever loop it belongs to by now.                            *)
LoopEnd(l) ==
  /\ loop[l].pc = "select" /\ l \in cancelled
  /\ loop' = [loop EXCEPT ![l] = [Idle EXCEPT !.pc = "ended"]]
  /\ presence' = Marked("offline")
  /\ registered' = None
  /\ UNCHANGED <<enabled, status, events, configured, running, cancelFns, boot, request,
                 cancelled, recoveryCh, call, aborted, healthy, flaps, lapses>>

TakeRecovery(l) ==
  /\ loop[l].pc = "select" /\ l \in recoveryCh
  /\ recoveryCh' = recoveryCh \ {l}
  /\ loop' = [loop EXCEPT ![l].recovering = TRUE]
  /\ Store(l, Marked("offline"))
  /\ UNCHANGED <<enabled, status, events, hubVars, boot, request, cancelled, call, aborted,
                 healthy, flaps, lapses>>

TickFails(l) ==
  /\ loop[l].pc = "select" /\ loop[l].recovering /\ ~ProbeWorks(l)
  /\ Store(l, Marked("offline"))
  /\ UNCHANGED <<enabled, status, events, hubVars, procVars, healthy, flaps, lapses>>

(* The loop goes on with a batch, or back to its select.                    *)
InBatch(rec, batch) == [pc |-> IF batch = {} THEN "select" ELSE "batch",
                        recovering |-> rec, batch |-> batch, job |-> None]

(* Mutant: in recovery the loop only waits for the agent to be touched.     *)
TickNoRecovery(l) ==
  /\ loop[l].pc = "select" /\ ~loop[l].recovering
  /\ Store(l, Marked("online"))
  /\ UNCHANGED <<enabled, status, events, hubVars, procVars, healthy, flaps, lapses>>

(* A tick of a loop that works, or whose probe works again: the agent is    *)
(* online, and as many of its jobs are listed as the limit leaves room for. *)
Tick(l) ==
  /\ loop[l].pc = "select" /\ (loop[l].recovering => ProbeWorks(l))
  /\ Store(l, IF loop[l].recovering THEN "online" ELSE Marked("online"))
  /\ \E batch \in SUBSET {j \in Job : status[j] = "queued"} :
       /\ batch # {} => Cardinality(batch) + Cardinality(running) <= MaxInflight
       /\ loop' = [loop EXCEPT ![l] = InBatch(FALSE, batch)]
  /\ UNCHANGED <<enabled, status, events, hubVars, boot, request, cancelled, recoveryCh, call,
                 aborted, healthy, flaps, lapses>>

(* Mutant: jobs are taken as they were listed.                              *)
ClaimListed(l, j) ==
  /\ loop[l].pc = "batch" /\ j \in loop[l].batch
  /\ status' = [status EXCEPT ![j] = "running"]
  /\ loop' = [loop EXCEPT ![l].pc = "start", ![l].batch = @ \ {j}, ![l].job = j]
  /\ UNCHANGED <<enabled, presence, events, hubVars, boot, request, cancelled, recoveryCh, call,
                 aborted, healthy, flaps, lapses>>

(* ClaimQueuedJob; a job another loop or the sweep has taken is skipped.    *)
Claim(l, j) ==
  /\ loop[l].pc = "batch" /\ j \in loop[l].batch
  /\ \/ /\ status[j] = "queued"
        /\ status' = [status EXCEPT ![j] = "running"]
        /\ loop' = [loop EXCEPT ![l].pc = "start", ![l].batch = @ \ {j}, ![l].job = j]
     \/ /\ status[j] # "queued" \/ l \in cancelled
        /\ loop' = [loop EXCEPT ![l] = InBatch(@.recovering, @.batch \ {j})]
        /\ UNCHANGED status
  /\ UNCHANGED <<enabled, presence, events, hubVars, boot, request, cancelled, recoveryCh, call,
                 aborted, healthy, flaps, lapses>>

(* markInflight, emitStarted and go invokeHTTPAgent.                        *)
StartCall(l) ==
  /\ loop[l].pc = "start"
  /\ running' = running \cup {loop[l].job}
  /\ call' = [call EXCEPT ![loop[l].job] = 
       [NoCall EXCEPT !.pc = "begin", !.by = l, !.callers = call[loop[l].job].callers + 1]]
  /\ loop' = [loop EXCEPT ![l] = InBatch(@.recovering, @.batch)]
  /\ UNCHANGED <<storeVars, configured, registered, cancelFns, boot, request, cancelled,
                 recoveryCh, aborted, healthy, flaps, lapses>>

-----------------------------------------------------------------------------
(* invokeHTTPAgent: the goroutine of one job *)

At(j, pc) == call[j].pc = pc
Goto(j, pc) == call' = [call EXCEPT ![j].pc = pc]
onlyCall == <<enabled, presence, status, events, hubVars, boot, request, loop, cancelled,
              recoveryCh, aborted, healthy, flaps, lapses>>

(* The context of the call: its own timeout or cancel, or the loop's.       *)
CtxDone(j) == j \in aborted \/ call[j].by \in cancelled

setInflightCancel(j) ==
  /\ At(j, "begin")
  /\ cancelFns' = cancelFns \cup {j}
  /\ call' = [call EXCEPT ![j].pc = "calling", ![j].attempt = 1]
  /\ UNCHANGED <<storeVars, configured, registered, running, boot, request, loop, cancelled,
                 recoveryCh, aborted, healthy, flaps, lapses>>

(* The agent takes the request.                                             *)
Accepted(j) ==
  /\ At(j, "calling") /\ healthy /\ ~CtxDone(j)
  /\ Goto(j, "reading")
  /\ UNCHANGED onlyCall

(* A status other than 2xx, or a line that is no event: an error that is    *)
(* not repeated and does not put the agent in recovery.                     *)
Rejected(j) ==
  /\ (At(j, "calling") /\ healthy) \/ At(j, "reading")
  /\ Goto(j, "error")
  /\ UNCHANGED onlyCall

(* Mutant: a call is repeated although it has delivered events.             *)
ConnectionErrorRetrying(j) ==
  /\ At(j, "calling") \/ At(j, "reading")
  /\ Goto(j, IF call[j].attempt = Attempts \/ CtxDone(j) THEN "broken" ELSE "waiting")
  /\ UNCHANGED onlyCall

(* The connection is refused or breaks, or the context ends. Without events *)
(* so far, attempts left and a live context the call is repeated later.     *)
ConnectionError(j) ==
  /\ At(j, "calling") \/ At(j, "reading")
  /\ Goto(j, IF call[j].hadEvent \/ call[j].attempt = Attempts \/ CtxDone(j)
               THEN "broken" ELSE "waiting")
  /\ UNCHANGED onlyCall

Retry(j) ==
  /\ At(j, "waiting")
  /\ call' = [call EXCEPT ![j] =
       IF CtxDone(j) THEN [@ EXCEPT !.pc = "broken"]
                     ELSE [@ EXCEPT !.pc = "calling", !.attempt = call[j].attempt + 1]]
  /\ UNCHANGED onlyCall

(* handleResult drops what is about a job that is not in flight or is over. *)
Owned(j)    == j \in running /\ status[j] \notin Outcome
Recorded(j) == events' = [events EXCEPT ![j] = @ \cup {call[j].attempt}]

(* clearInflight                                                            *)
Cleared(j) == running' = running \ {j} /\ cancelFns' = cancelFns \ {j}

(* An event is recorded, or dropped: it may be malformed, and the store may *)
(* fail to load the job or to add the event.                                *)
Event(j) ==
  /\ At(j, "reading")
  /\ call' = [call EXCEPT ![j].hadEvent = TRUE]
  /\ (Owned(j) /\ Recorded(j)) \/ UNCHANGED events
  /\ UNCHANGED <<enabled, presence, status, hubVars, boot, request, loop, cancelled, recoveryCh,
                 aborted, healthy, flaps, lapses>>

(* A summary ends the job: clearInflight and the status of the probe.       *)
Summary(j, out) ==
  /\ At(j, "reading") /\ Owned(j)
  /\ call' = [call EXCEPT ![j].hadEvent = TRUE, ![j].gotParsed = TRUE, ![j].lost = FALSE]
  /\ Recorded(j)
  /\ Cleared(j)
  /\ status' = [status EXCEPT ![j] = out]
  /\ UNCHANGED <<enabled, presence, configured, registered, boot, request, loop, cancelled,
                 recoveryCh, aborted, healthy, flaps, lapses>>

(* The end of the job does not get into the store.                          *)
Unstored(j, stored) == ~stored /\ status[j] \notin Outcome

(* A summary does not end the job: it is dropped like any event, or it is   *)
(* recorded and the status cannot be stored. The call counts it all the     *)
(* same, before handleResult has looked at it.                              *)
SummaryLost(j) ==
  /\ At(j, "reading")
  /\ call' = [call EXCEPT ![j].hadEvent = TRUE, ![j].gotParsed = TRUE,
                          ![j].lost = Unstored(j, FALSE)]
  /\ \/ UNCHANGED <<events, running, cancelFns>>
     \/ Owned(j) /\ Recorded(j) /\ Cleared(j)
  /\ UNCHANGED <<enabled, presence, status, configured, registered, boot, request, loop, cancelled,
                 recoveryCh, aborted, healthy, flaps, lapses>>

(* failJob with its clearInflight: a job that is over stays as it is, and   *)
(* so does one the store fails to load or to update.                        *)
failJob(j, stored) ==
  /\ Cleared(j)
  /\ status' = IF status[j] \in Outcome \/ ~stored THEN status ELSE [status EXCEPT ![j] = "failed"]

(* invokeHTTPAgent returns, and its variables and its context are gone.     *)
Finish(j, lost) ==
  /\ call' = [call EXCEPT ![j] = [NoCall EXCEPT !.pc = "end", !.by = call[j].by,
                 !.callers = call[j].callers, !.lost = lost]]
  /\ aborted' = aborted \ {j}

(* Mutant: an answer without a summary is taken for an answer.              *)
EndOfBodyTrusting(j, stored) ==
  /\ At(j, "reading")
  /\ Finish(j, FALSE)
  /\ presence' = Marked("online")
  /\ cancelFns' = cancelFns \ {j}
  /\ UNCHANGED <<enabled, events, status, running, configured, registered, boot, request, loop,
                 cancelled, recoveryCh, healthy, flaps, lapses>>

(* The body ends: the agent is touched, and without a summary the job fails.*)
EndOfBody(j, stored) ==
  /\ At(j, "reading")
  /\ Finish(j, IF call[j].gotParsed THEN call[j].lost ELSE Unstored(j, stored))
  /\ presence' = Marked("online")
  /\ IF call[j].gotParsed THEN cancelFns' = cancelFns \ {j} /\ UNCHANGED <<status, running>>
                          ELSE failJob(j, stored)
  /\ UNCHANGED <<enabled, events, configured, registered, boot, request, loop, cancelled,
                 recoveryCh, healthy, flaps, lapses>>

(* The call has failed; a connection error also marks the agent offline and *)
(* tells the loop, unless the loop has not taken the last message yet.      *)
CallFailed(j, stored) ==
  /\ At(j, "error") \/ At(j, "broken")
  /\ Finish(j, Unstored(j, stored))
  /\ IF At(j, "broken") THEN /\ presence' = Marked("offline")
                             /\ recoveryCh' = recoveryCh \cup {call[j].by}
                        ELSE UNCHANGED <<presence, recoveryCh>>
  /\ failJob(j, stored)
  /\ UNCHANGED <<enabled, events, configured, registered, boot, request, loop, cancelled,
                 healthy, flaps, lapses>>

(* The timeout of the call, five seconds after the probe's own.             *)
CallTimeout(j) ==
  /\ call[j].pc \in {"calling", "reading", "waiting"} /\ j \notin aborted
  /\ aborted' = aborted \cup {j}
  /\ UNCHANGED <<storeVars, hubVars, boot, request, loop, cancelled, recoveryCh, call,
                 healthy, flaps, lapses>>

(* failTimedOutJobs: the call of a fan-out's child is cancelled, if it is   *)
(* registered by now; the call of another job is left alone.                *)
SweepTimeout(j, stored) ==
  /\ status[j] \notin Outcome
  /\ failJob(j, stored)
  /\ call' = [call EXCEPT ![j].lost = @ /\ ~stored]
  /\ aborted' = aborted \cup (cancelFns \cap Child \cap {j})
  /\ UNCHANGED <<enabled, presence, events, configured, registered, boot, request, loop,
                 cancelled, recoveryCh, healthy, flaps, lapses>>

-----------------------------------------------------------------------------
(* The agent fails or works again.                                          *)
Flap ==
  /\ flaps < MaxFlaps
  /\ flaps' = flaps + 1 /\ healthy' = ~healthy
  /\ UNCHANGED <<storeVars, hubVars, procVars, lapses>>

BootStep == BootList \/ startHTTPAgents
RequestStep(r) == ReloadList(r) \/ ReloadApply(r)
LoopStep(l) ==
  \/ Startup(l) \/ LoopEnd(l) \/ TakeRecovery(l) \/ TickFails(l) \/ Tick(l) \/ StartCall(l)
  \/ \E j \in Job : Claim(l, j)
CallStep(j) ==
  \/ setInflightCancel(j) \/ Accepted(j) \/ Rejected(j) \/ ConnectionError(j) \/ Retry(j)
  \/ Event(j) \/ SummaryLost(j)
  \/ \E out \in Outcome : Summary(j, out)
  \/ \E stored \in BOOLEAN : EndOfBody(j, stored) \/ CallFailed(j, stored)
Sweep(j) == \E stored \in BOOLEAN : SweepTimeout(j, stored)

Next ==
  \/ BootStep
  \/ \E r \in Request : RequestStep(r) \/ \E v \in BOOLEAN : WriteNode(r, v)
  \/ \E l \in Loop : LoopStep(l)
  \/ \E j \in Job : CallStep(j) \/ CallTimeout(j) \/ Sweep(j)
  \/ Flap

Spec == Init /\ [][Next]_vars

(* Goroutines keep running, tickers fire and timeouts pass. A cancelled     *)
(* loop whose ticker is ready as well picks either, but not the ticker for  *)
(* ever. Nobody has to edit anything. Of the sweep, which Hub.Start repeats  *)
(* with its ticker, no more is assumed than that it comes to a job whose    *)
(* end did not get into the store, and that its own store calls do not fail *)
(* for ever.                                                                *)
Fairness ==
  /\ WF_vars(BootStep)
  /\ \A r \in Request : WF_vars(RequestStep(r))
  /\ \A l \in Loop : WF_vars(LoopStep(l)) /\ WF_vars(LoopEnd(l)) /\ WF_vars(TakeRecovery(l))
  /\ \A j \in Job : WF_vars(CallStep(j)) /\ WF_vars(CallTimeout(j))
  /\ \A j \in Job : WF_vars(call[j].lost /\ Sweep(j))

FairSpec == Spec /\ Fairness

-----------------------------------------------------------------------------
(* Properties *)

(* All events recorded for a job come from one attempt: a call is repeated  *)
(* only while it has delivered nothing (attemptHadEvent in                  *)
(* callHTTPAgentWithAttempts), so no probe is reported twice.               *)
EventsOfOneAttempt == \A j \in Job : Cardinality(events[j]) <= 1

(* A job is called by one goroutine only, though a loop that was cancelled  *)
(* goes on with its batch while its successor lists the same jobs           *)
(* (ClaimQueuedJob in httpAgentLoop).                                       *)
OneCaller == \A j \in Job : call[j].callers <= 1

(* Once no boot or reload is under way the loop that runs is the one a      *)
(* reload can cancel, and one runs exactly if the record says so - unless a *)
(* list could not be read, was out of date when it was applied, or a loop   *)
(* was started before its predecessor had ended (ReloadHTTPAgents reads the *)
(* list outside Hub.mu; httpAgentLoop deletes by id).                       *)
Quiet == boot = "done" /\ \A r \in Request : request[r].pc \in {"new", "done"}
LoopsAsConfigured ==
  Quiet /\ lapses = {} =>
    /\ Live = {registered} \ {None}
    /\ Live # {} <=> enabled

(* A job an HTTP agent has taken comes to an end, also if its loop is       *)
(* cancelled, the connection breaks, the agent hangs or the answer has no   *)
(* summary (invokeHTTPAgent on every path). The timeout sweep is needed     *)
(* only where a summary was dropped after invokeHTTPAgent had counted it,   *)
(* or the end of the job could not be stored.                               *)
TakenJobsEnd == \A j \in Job : status[j] = "running" ~> status[j] \in Outcome

(* While the agent answers and a loop runs for it, it is online again and   *)
(* again, whatever earlier calls and ending loops have marked               *)
(* (recovery probes, and TouchAgent in every tick).                         *)
OnlineAgain == []<>(presence = "online") \/ []<>(~healthy \/ Live = {})

=============================================================================
