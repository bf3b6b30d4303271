---------------------------- MODULE AgentProcess ----------------------------
(***************************************************************************)
(* The agent process (cmd/agent/main.go). In gRPC mode one goroutine opens *)
(* a session after the other, with a delay between them. A session has a    *)
(* goroutine that receives jobs and cancels, one that sends heartbeats, and *)
(* one for each job. In HTTP mode each job is the handler of a request. The *)
(* context of every goroutine is that of the process, not of the session.   *)
(***************************************************************************)
EXTENDS Naturals, Sequences

CONSTANTS
  Job,          \* jobs the server may send
  WebJob,       \* those it sends as a request to the agent, not over a session
  MaxSessions,  \* bound: sessions that get as far as their hello
  RetryCap,     \* the longest delay between sessions (300 seconds)
  MaxEvents,    \* bound: events of a job besides its summary
  MaxWire,      \* bound: messages under way on a stream
  None          \* no message

Session == 1..MaxSessions
Web     == 0                    \* in place of the session of a job that has none

(* A cancel remembers whether it was sent behind its job, on its stream.    *)
Message == [type : {"job"}, job : Job] \cup [type : {"cancel"}, job : Job, behind : BOOLEAN]

ASSUME AgentAssumption ==
  /\ WebJob \subseteq Job
  /\ MaxSessions \in Nat /\ RetryCap \in Nat \ {0} /\ MaxEvents \in Nat /\ MaxWire \in Nat
  /\ None \notin Message


VARIABLES
  main,      \* what the goroutine of run is doing; "exit": the process is over
  session,   \* the last session
  delay,     \* backoff
  conn,      \* stream of each session
  wire,      \* messages on their way to the agent
  held,      \* message the receiver has taken and not handled
  recv,      \* receiver of each session
  beat,      \* heartbeat of each session
  errs,      \* errors waiting in errCh, at most 2
  job,       \* goroutine of each job
  cancels,   \* runningCancels of each session
  out,       \* what the server has received about each job
  asked,     \* history: jobs whose cancel came behind them and has been handled
  late       \* history: jobs that were started after their session had ended

mainVars == <<main, session, delay>>
sessionVars == <<conn, wire, held, recv, beat, errs, cancels>>
vars == <<mainVars, sessionVars, job, out, asked, late>>

Running == {"resolve", "run", "reject", "report"}
Goroutine == [pc : Running \cup {"none", "sent", "done"}, at : 0..MaxSessions,
              cancelled : BOOLEAN, gone : BOOLEAN]

TypeOK ==
  /\ main \in {"dial", "serve", "drain", "sleep", "exit"}
  /\ session \in 0..MaxSessions
  /\ delay \in 1..RetryCap
  /\ conn \in [Session -> {"new", "up", "down"}]
  /\ wire \in [Session -> Seq(Message)]
  /\ held \in [Session -> Message \cup {None}]
  /\ recv \in [Session -> {"new", "on", "ended"}]
  /\ beat \in [Session -> {"new", "on", "ended"}]
  /\ errs \in [Session -> 0..2]
  /\ job \in [Job -> Goroutine]
  /\ cancels \in [Session -> SUBSET Job]
  /\ out \in [Job -> Seq({"event", "failure", "summary", "refused"})]
  /\ asked \subseteq Job /\ late \subseteq Job

Init ==
  /\ main = "dial" /\ session = 0 /\ delay = 1
  /\ conn = [s \in Session |-> "new"]
  /\ wire = [s \in Session |-> <<>>]
  /\ held = [s \in Session |-> None]
  /\ recv = [s \in Session |-> "new"]
  /\ beat = [s \in Session |-> "new"]
  /\ errs = [s \in Session |-> 0]
  /\ job = [j \in Job |-> [pc |-> "none", at |-> Web, cancelled |-> FALSE, gone |-> FALSE]]
  /\ cancels = [s \in Session |-> {}]
  /\ out = [j \in Job |-> <<>>]
  /\ asked = {} /\ late = {}

Alive == main # "exit"
At(j) == job[j].at
(* Mutant: a job is counted before its policy is looked up.                 *)
WgEarly(s) ==
  {j \in Job : At(j) = s /\ (job[j].pc \in Running \/ (job[j].pc = "done" /\ out[j] = <<>>))}

(* The goroutines the WaitGroup of a session counts.                        *)
Wg(s) == {j \in Job : At(j) = s /\ job[j].pc \in Running}

-----------------------------------------------------------------------------
(* The server and the network *)

(* The server sends a job on the stream of the session.                     *)
SendJob(s, j) ==
  /\ Alive /\ conn[s] = "up" /\ job[j].pc = "none" /\ j \notin WebJob
  /\ Len(wire[s]) < MaxWire
  /\ wire' = [wire EXCEPT ![s] = Append(@, [type |-> "job", job |-> j])]
  /\ job' = [job EXCEPT ![j].pc = "sent", ![j].at = s]
  /\ UNCHANGED <<mainVars, conn, held, recv, beat, errs, cancels, out, asked, late>>

(* sendGRPCCancel and sendLoop: the cancel of a child goes to the session   *)
(* the agent has now. The child may still be queued, so the cancel may come *)
(* before its job, and it may have been sent on an earlier stream. Bound:   *)
(* the same cancel is not under way twice.                                  *)
SendCancel(s, j) ==
  LET m == [type |-> "cancel", job |-> j, behind |-> At(j) = s]
  IN  /\ Alive /\ conn[s] = "up" /\ j \notin WebJob /\ Len(wire[s]) < MaxWire
      /\ j \notin asked /\ \A i \in DOMAIN wire[s] : wire[s][i] # m
      /\ wire' = [wire EXCEPT ![s] = Append(@, m)]
      /\ UNCHANGED <<mainVars, conn, held, recv, beat, errs, cancels, job, out, asked, late>>

(* The stream ends. What has arrived may still be received.                 *)
Lose(s) ==
  /\ Alive /\ conn[s] = "up"
  /\ conn' = [conn EXCEPT ![s] = "down"]
  /\ UNCHANGED <<mainVars, wire, held, recv, beat, errs, cancels, job, out, asked, late>>

(* The client of an HTTP job goes away: its request context is done.        *)
Gone(j) ==
  /\ Alive /\ At(j) = Web /\ job[j].pc \in Running /\ ~job[j].gone
  /\ job' = [job EXCEPT ![j].gone = TRUE, ![j].cancelled = TRUE]
  /\ UNCHANGED <<mainVars, sessionVars, out, asked, late>>

(* SIGINT or SIGTERM: main returns as soon as its context is done, and what *)
(* the other goroutines make of their contexts does not matter any more.    *)
Signal ==
  /\ Alive /\ main' = "exit"
  /\ UNCHANGED <<session, delay, sessionVars, job, out, asked, late>>

-----------------------------------------------------------------------------
(* run and runGRPCSession *)

NextRetryDelay(d) == IF 2 * d > RetryCap THEN RetryCap ELSE 2 * d

(* A session is opened and the hello is sent.                               *)
Dial ==
  /\ main = "dial" /\ session < MaxSessions
  /\ session' = session + 1 /\ main' = "serve"
  /\ conn' = [conn EXCEPT ![session + 1] = "up"]
  /\ recv' = [recv EXCEPT ![session + 1] = "on"]
  /\ beat' = [beat EXCEPT ![session + 1] = "on"]
  /\ UNCHANGED <<delay, wire, held, errs, cancels, job, out, asked, late>>

(* The server cannot be reached, or the hello fails.                        *)
DialFails ==
  /\ main = "dial"
  /\ main' = "sleep"
  /\ UNCHANGED <<session, delay, sessionVars, job, out, asked, late>>

(* Mutant: the session returns without waiting for its jobs.                *)
SessionErrorNoWait ==
  /\ main = "serve" /\ errs[session] > 0
  /\ errs' = [errs EXCEPT ![session] = @ - 1]
  /\ conn' = [conn EXCEPT ![session] = "down"]
  /\ main' = "sleep"
  /\ UNCHANGED <<session, delay, wire, held, recv, beat, cancels, job, out, asked, late>>

(* err = <-errCh                                                            *)
SessionError ==
  /\ main = "serve" /\ errs[session] > 0
  /\ errs' = [errs EXCEPT ![session] = @ - 1]
  /\ main' = "drain"
  /\ UNCHANGED <<session, delay, conn, wire, held, recv, beat, cancels, job, out, asked, late>>

(* wg.Wait returns and the connection is closed.                            *)
SessionEnd ==
  /\ main = "drain" /\ Wg(session) = {}
  /\ conn' = [conn EXCEPT ![session] = "down"]
  /\ main' = "sleep"
  /\ UNCHANGED <<session, delay, wire, held, recv, beat, errs, cancels, job, out, asked, late>>

(* sleepContext has slept.                                                  *)
Wake ==
  /\ main = "sleep"
  /\ main' = "dial" /\ delay' = NextRetryDelay(delay)
  /\ UNCHANGED <<session, sessionVars, job, out, asked, late>>

-----------------------------------------------------------------------------
(* The goroutines of a session *)

(* Mutant: errCh has no room once its reader has gone.                      *)
RoomUnbuffered(s) == main = "serve" /\ session = s /\ errs[s] = 0

Room(s) == errs[s] < 2

(* stream.Recv fails; what had not been received is lost.                   *)
RecvError(s) ==
  /\ Alive /\ recv[s] = "on" /\ held[s] = None /\ conn[s] = "down" /\ Room(s)
  /\ recv' = [recv EXCEPT ![s] = "ended"] /\ wire' = [wire EXCEPT ![s] = <<>>]
  /\ errs' = [errs EXCEPT ![s] = @ + 1]
  /\ UNCHANGED <<mainVars, conn, held, beat, cancels, job, out, asked, late>>

(* The ticker has fired, and the send fails. A heartbeat that is sent        *)
(* changes nothing here.                                                    *)
BeatError(s) ==
  /\ Alive /\ beat[s] = "on" /\ conn[s] = "down" /\ Room(s)
  /\ beat' = [beat EXCEPT ![s] = "ended"]
  /\ errs' = [errs EXCEPT ![s] = @ + 1]
  /\ UNCHANGED <<mainVars, conn, wire, held, recv, cancels, job, out, asked, late>>

Recv(s) ==
  /\ Alive /\ recv[s] = "on" /\ held[s] = None /\ wire[s] # <<>>
  /\ held' = [held EXCEPT ![s] = Head(wire[s])]
  /\ wire' = [wire EXCEPT ![s] = Tail(@)]
  /\ UNCHANGED <<mainVars, conn, recv, beat, errs, cancels, job, out, asked, late>>

(* cancelJob: a cancel of a job this session does not run is ignored.       *)
HandleCancel(s) ==
  LET j == held[s].job
  IN  /\ Alive /\ held[s] # None /\ held[s].type = "cancel"
      /\ held' = [held EXCEPT ![s] = None]
      /\ job' = [job EXCEPT ![j].cancelled = @ \/ j \in cancels[s]]
      /\ asked' = IF held[s].behind THEN asked \cup {j} ELSE asked
      /\ UNCHANGED <<mainVars, conn, wire, recv, beat, errs, cancels, out, late>>

(* Mutant: the cancel function is registered by the new goroutine, that is, *)
(* not before the next message is handled.                                  *)
HandleJobUnlisted(s) ==
  LET j == held[s].job
  IN  /\ Alive /\ held[s] # None /\ held[s].type = "job"
      /\ held' = [held EXCEPT ![s] = None]
      /\ job' = [job EXCEPT ![j].pc = "resolve"]
      /\ UNCHANGED <<mainVars, conn, wire, recv, beat, errs, cancels, out, asked, late>>

(* A job of a tool that has no policy is dropped; any other is listed in    *)
(* runningCancels and gets a goroutine.                                     *)
HandleJob(s) ==
  LET j == held[s].job
  IN  /\ Alive /\ held[s] # None /\ held[s].type = "job"
      /\ held' = [held EXCEPT ![s] = None]
      /\ \/ /\ job' = [job EXCEPT ![j].pc = "resolve"]
            /\ cancels' = [cancels EXCEPT ![s] = @ \cup {j}]
            /\ late' = IF session = s /\ main = "serve" THEN late ELSE late \cup {j}
         \/ /\ job' = [job EXCEPT ![j].pc = "done"]
            /\ UNCHANGED <<cancels, late>>
      /\ UNCHANGED <<mainVars, conn, wire, recv, beat, errs, out, asked>>

(* The handler of /invoke: a request without the token, or which            *)
(* ValidateTrusted refuses, gets an error; any other is run.                *)
Invoke(j) ==
  /\ Alive /\ job[j].pc = "none" /\ j \in WebJob
  /\ \/ /\ job' = [job EXCEPT ![j].pc = "done"]
        /\ out' = [out EXCEPT ![j] = <<"refused">>]
     \/ /\ job' = [job EXCEPT ![j].pc = "resolve"]
        /\ UNCHANGED out
  /\ UNCHANGED <<mainVars, sessionVars, asked, late>>

-----------------------------------------------------------------------------
(* The goroutine of a job *)

(* sendStreamEvent, sendParsed, writeLine: nobody looks at a failure.       *)
Reaches(j) == IF At(j) = Web THEN ~job[j].gone ELSE conn[At(j)] = "up"
Send(j, kind) == out' = IF Reaches(j) THEN [out EXCEPT ![j] = Append(@, kind)] ELSE out

(* resolveAgentTarget                                                       *)
Resolve(j) ==
  /\ Alive /\ job[j].pc = "resolve"
  /\ \/ job' = [job EXCEPT ![j].pc = "run"] /\ UNCHANGED out
     \/ job' = [job EXCEPT ![j].pc = "reject"] /\ Send(j, "failure")
  /\ UNCHANGED <<mainVars, sessionVars, asked, late>>

(* RunStream hands an event to the sink.                                    *)
Event(j) ==
  /\ Alive /\ job[j].pc = "run" /\ Len(out[j]) < MaxEvents
  /\ Send(j, "event")
  /\ UNCHANGED <<mainVars, sessionVars, job, asked, late>>

(* RunStream returns: the tool is done, its deadline has passed, or its     *)
(* context has been cancelled. It always returns a result.                  *)
RunEnd(j) ==
  /\ Alive /\ job[j].pc = "run"
  /\ job' = [job EXCEPT ![j].pc = "report"]
  /\ UNCHANGED <<mainVars, sessionVars, out, asked, late>>

(* Mutant: a rejected job is not reported.                                  *)
ReportRun(j) ==
  /\ Alive /\ job[j].pc \in {"report", "reject"}
  /\ job' = [job EXCEPT ![j].pc = "done"]
  /\ cancels' = [s \in Session |-> cancels[s] \ {j}]
  /\ IF job[j].pc = "report" THEN Send(j, "summary") ELSE UNCHANGED out
  /\ UNCHANGED <<mainVars, conn, wire, held, recv, beat, errs, asked, late>>

(* The summary is sent; then the deferred functions run: the job leaves     *)
(* runningCancels and the WaitGroup.                                        *)
Report(j) ==
  /\ Alive /\ job[j].pc \in {"report", "reject"}
  /\ Send(j, "summary")
  /\ job' = [job EXCEPT ![j].pc = "done"]
  /\ cancels' = [s \in Session |-> cancels[s] \ {j}]
  /\ UNCHANGED <<mainVars, conn, wire, held, recv, beat, errs, asked, late>>

-----------------------------------------------------------------------------
MainStep == Dial \/ DialFails \/ SessionError \/ SessionEnd \/ Wake
SessionStep(s) == RecvError(s) \/ BeatError(s) \/ Recv(s) \/ HandleCancel(s) \/ HandleJob(s)
JobStep(j) == Resolve(j) \/ RunEnd(j) \/ Report(j)
Environment ==
  \/ \E s \in Session, j \in Job : SendCancel(s, j) \/ SendJob(s, j)
  \/ \E s \in Session : Lose(s)
  \/ \E j \in Job : Gone(j)
  \/ Signal

Next ==
  \/ MainStep
  \/ \E s \in Session : SessionStep(s)
  \/ \E j \in Job : Invoke(j) \/ Event(j) \/ JobStep(j)
  \/ Environment

Spec == Init /\ [][Next]_vars

(* The goroutines of a session that can run do, some job that can go on     *)
(* does, and a run ends by its deadline. Nothing is assumed of the server,  *)
(* the network or the clients.                                              *)
Fairness ==
  /\ WF_vars(MainStep)
  /\ \A s \in Session : WF_vars(SessionStep(s))
  /\ WF_vars(\E j \in Job : JobStep(j))

FairSpec == Spec /\ Fairness

-----------------------------------------------------------------------------
(* Properties *)

(* A new session finds no job of an earlier one still running, so the agent *)
(* never works on more than the server believes; excepted are jobs that the *)
(* receiver started after its session had ended, which wg.Wait may miss     *)
(* (runGRPCSession: wg.Add in one goroutine, wg.Wait in another).           *)
JobsEndWithSession ==
  \A j \in Job : job[j].pc \in Running /\ At(j) # Web /\ At(j) < session => j \in late

(* A cancel the server sends behind its job, on the same stream, reaches    *)
(* the job wherever it is by then: the job is listed before the receiver    *)
(* takes the next message, and until it has sent its summary                *)
(* (runningCancels). A cancel that overtakes its job in the server, or      *)
(* comes with another session, is ignored, and is not promised anything.    *)
CancelReachesJob == \A j \in asked : job[j].pc \in Running => job[j].cancelled

(* A job the agent has dealt with is answered exactly once, by a summary    *)
(* after everything else, if its stream is still there: a rejected job too  *)
(* (agentPreflightFailureResult). A job of a tool without a policy is       *)
(* dropped in silence, and nothing else is.                                 *)
AnsweredOnce ==
  \A j \in Job :
    LET sums == {i \in DOMAIN out[j] : out[j][i] = "summary"}
    IN  /\ sums \subseteq {Len(out[j])}
        /\ job[j].pc \in Running => sums = {}
        /\ job[j].pc = "done" /\ Reaches(j) /\ Alive =>
             sums # {} \/ out[j] = <<"refused">> \/ (At(j) # Web /\ out[j] = <<>>)
        /\ \A i \in DOMAIN out[j] : out[j][i] = "failure" /\ i < Len(out[j]) => out[j][i + 1] = "summary"

(* An agent that has lost its stream tries again, unless it is told to      *)
(* stop: neither its jobs nor its goroutines can hold it (run).             *)
TriesAgain ==
  (\E s \in Session : conn[s] = "down" /\ session = s) ~> main \in {"dial", "exit"}

(* Nothing of a session stays behind: its receiver, its heartbeat and its   *)
(* jobs end, although nobody reads errCh any more (errCh has room for two). *)
NothingLeft ==
  \A s \in Session : conn[s] = "down" ~>
    \/ main = "exit"
    \/ recv[s] = "ended" /\ beat[s] = "ended" /\ Wg(s) = {}
=============================================================================
