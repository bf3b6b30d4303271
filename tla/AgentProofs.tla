----------------------------- MODULE AgentProofs -----------------------------
(***************************************************************************)
(* The agent process: its jobs end with their session, a cancel reaches its *)
(* job, and a job is answered once, for any number of jobs and sessions and *)
(* however the stream breaks.                                               *)
(***************************************************************************)
EXTENDS AgentProcess, TLAPS

-----------------------------------------------------------------------------
(* The inductive invariant, in parts *)

(* A stream has been opened exactly for the sessions so far.                *)
SessionsOK == \A s \in Session : conn[s] = "new" <=> s > session

(* A job belongs to a session or is a request, from when it is sent.        *)
Placed(j) ==
  /\ At(j) <= session
  /\ (j \in WebJob \/ job[j].pc = "none") => At(j) = Web
  /\ j \in WebJob => job[j].pc # "sent"
  /\ (j \notin WebJob /\ job[j].pc # "none") => At(j) # Web

JobMessage(j) == [type |-> "job", job |-> j]
Behind(m)     == m.type = "cancel" /\ m.behind

(* The message of a job is under way once, and while it is the job has not  *)
(* begun.                                                                   *)
WireOK == \A s \in Session : \A i \in 1..Len(wire[s]) :
  /\ Behind(wire[s][i]) => At(wire[s][i].job) = s
  /\ wire[s][i].type = "job" =>
       /\ At(wire[s][i].job) = s
       /\ job[wire[s][i].job].pc = "sent" /\ held[s] # wire[s][i]
       /\ \A k \in 1..Len(wire[s]) : wire[s][k] = wire[s][i] => k = i
HeldOK == \A s \in Session : held[s] # None =>
  /\ Behind(held[s]) => At(held[s].job) = s /\ job[held[s].job].pc # "sent"
  /\ held[s].type = "job" => At(held[s].job) = s /\ job[held[s].job].pc = "sent"

(* A cancel that was sent behind its job comes after it.                    *)
OrderOK == \A s \in Session : \A i \in 1..Len(wire[s]) :
  (Behind(wire[s][i]) /\ job[wire[s][i].job].pc = "sent") =>
     \/ held[s] = JobMessage(wire[s][i].job)
     \/ \E k \in 1..(i - 1) : wire[s][k] = JobMessage(wire[s][i].job)

(* A job that has been sent is on its way while its stream is up.           *)
SentOK == \A j \in Job : (job[j].pc = "sent" /\ At(j) # Web /\ conn[At(j)] = "up") =>
  \/ held[At(j)] = JobMessage(j)
  \/ \E k \in 1..Len(wire[At(j)]) : wire[At(j)][k] = JobMessage(j)

MailOK == WireOK /\ HeldOK /\ OrderOK /\ SentOK

(* A job that runs is listed, and nothing has asked for it before it ran;   *)
(* if something has, it knows.                                              *)
Listed(j) ==
  /\ (job[j].pc \in Running /\ At(j) # Web) => j \in cancels[At(j)]
  /\ j \in asked => At(j) # Web /\ job[j].pc \notin {"none", "sent"}
  /\ (j \in asked /\ job[j].pc \in Running) => job[j].cancelled

(* What the server has been told, at each point of a job.                   *)
Events(j) == \A i \in 1..Len(out[j]) : out[j][i] = "event"
Summed(j) ==
  /\ out[j] # <<>> /\ out[j][Len(out[j])] = "summary"
  /\ \A i \in 1..(Len(out[j]) - 1) : out[j][i] = "event" \/ (out[j][i] = "failure" /\ i + 1 = Len(out[j]))
Told(j) ==
  /\ job[j].pc \in {"none", "sent", "resolve"} => out[j] = <<>>
  /\ job[j].pc \in {"run", "report"} => Events(j)
  /\ job[j].pc = "reject" => out[j] \in {<<>>, <<"failure">>}
  /\ job[j].pc = "done" =>
       \/ Summed(j) \/ out[j] = <<"refused">> \/ (At(j) # Web /\ out[j] = <<>>)
       \/ ~Reaches(j) /\ (Events(j) \/ out[j] = <<"failure">>)

(* A job of a session that runs and is not late holds its session.          *)
Holds(j) ==
  (job[j].pc \in Running /\ At(j) # Web /\ j \notin late) =>
     At(j) = session /\ main \in {"serve", "drain", "exit"}

JobOK(j) == Placed(j) /\ Listed(j) /\ Told(j) /\ Holds(j)

AgentInv == TypeOK /\ SessionsOK /\ MailOK /\ \A j \in Job : JobOK(j)

-----------------------------------------------------------------------------
(* Types *)

(* A message on the wire or in the receiver's hands is one.                 *)
LEMMA MessageType ==
  ASSUME TypeOK, NEW s \in Session
  PROVE  /\ Len(wire[s]) \in Nat
         /\ \A i \in 1..Len(wire[s]) : wire[s][i] \in Message
         /\ held[s] # None => held[s] \in Message
BY DEF TypeOK

(* A goroutine is one after any change of its place.                        *)
LEMMA GoroutineType ==
  ASSUME TypeOK, NEW j \in Job
  PROVE  /\ [job[j] EXCEPT !.gone = TRUE, !.cancelled = TRUE] \in Goroutine
         /\ \A c \in BOOLEAN : [job[j] EXCEPT !.cancelled = c] \in Goroutine
         /\ \A pc \in Running \cup {"none", "sent", "done"} :
              /\ [job[j] EXCEPT !.pc = pc] \in Goroutine
              /\ \A at \in 0..MaxSessions : [job[j] EXCEPT !.pc = pc, !.at = at] \in Goroutine
<1>1. PICK g \in Goroutine : g = job[j]
  BY DEF TypeOK
<1>2. /\ [g EXCEPT !.gone = TRUE, !.cancelled = TRUE] \in Goroutine
      /\ \A c \in BOOLEAN : [g EXCEPT !.cancelled = c] \in Goroutine
      /\ \A pc \in Running \cup {"none", "sent", "done"} :
           /\ [g EXCEPT !.pc = pc] \in Goroutine
           /\ \A at \in 0..MaxSessions : [g EXCEPT !.pc = pc, !.at = at] \in Goroutine
  BY DEF Goroutine
<1> QED BY <1>1, <1>2, Zenon

(* The places of a job, one by one.                                         *)
LEMMA PlacesType ==
  /\ \A pc \in {"resolve", "run", "reject", "report", "sent", "done"} :
       pc \in Running \cup {"none", "sent", "done"}
  /\ Session \subseteq 0..MaxSessions
BY AgentAssumption DEF Running, Session

(* What is sent to the server is of its kind.                               *)
LEMMA SendType ==
  ASSUME TypeOK, NEW j \in Job, NEW kind \in {"event", "failure", "summary", "refused"}, Send(j, kind)
  PROVE  out' \in [Job -> Seq({"event", "failure", "summary", "refused"})]
BY DEF TypeOK, Send

LEMMA InitType == Init => TypeOK
BY AgentAssumption DEF Init, TypeOK, Session, Message, Goroutine, Running, Web

(* TypeOK is inductive on its own.                                          *)
LEMMA StepType == TypeOK /\ [Next]_vars => TypeOK'
<1> SUFFICES ASSUME TypeOK, [Next]_vars PROVE TypeOK'
  OBVIOUS
<1> USE AgentAssumption
<1>1. ASSUME NEW s \in Session, NEW j \in Job, SendJob(s, j) PROVE TypeOK'
  <2>1. [type |-> "job", job |-> j] \in Message
    BY DEF Message
  <2>2. [job[j] EXCEPT !.pc = "sent", !.at = s] \in Goroutine
    BY GoroutineType, PlacesType, Zenon
  <2>3. job' = [job EXCEPT ![j] = [job[j] EXCEPT !.pc = "sent", !.at = s]]
    BY <1>1 DEF SendJob, TypeOK
  <2>4. job' \in [Job -> Goroutine]
    BY <2>2, <2>3 DEF TypeOK
  <2>5. wire' \in [Session -> Seq(Message)]
    BY <1>1, <2>1 DEF SendJob, TypeOK
  <2> QED BY <1>1, <2>4, <2>5 DEF SendJob, TypeOK, mainVars
<1>2. ASSUME NEW s \in Session, NEW j \in Job, SendCancel(s, j) PROVE TypeOK'
  <2>1. [type |-> "cancel", job |-> j, behind |-> At(j) = s] \in Message
    <3>1. PICK b \in BOOLEAN : b = (At(j) = s)
      BY Zenon
    <3> QED BY <3>1 DEF Message
  <2>2. wire' \in [Session -> Seq(Message)]
    BY <1>2, <2>1 DEF SendCancel, TypeOK
  <2> QED BY <1>2, <2>2 DEF SendCancel, TypeOK, mainVars
<1>3. ASSUME NEW s \in Session, Lose(s) PROVE TypeOK'
  BY <1>3 DEF Lose, TypeOK, mainVars
<1>4. ASSUME NEW j \in Job, Gone(j) PROVE TypeOK'
  <2>1. job' = [job EXCEPT ![j] = [job[j] EXCEPT !.gone = TRUE, !.cancelled = TRUE]]
    BY <1>4 DEF Gone, TypeOK
  <2>2. [job[j] EXCEPT !.gone = TRUE, !.cancelled = TRUE] \in Goroutine
    BY GoroutineType, PlacesType, Zenon
  <2> QED BY <1>4, <2>1, <2>2 DEF Gone, TypeOK, mainVars, sessionVars
<1>5. CASE Signal
  BY <1>5 DEF Signal, TypeOK, sessionVars
<1>6. CASE Dial
  BY <1>6 DEF Dial, TypeOK, Session
<1>7. CASE DialFails
  BY <1>7 DEF DialFails, TypeOK, sessionVars
<1>8. CASE SessionError
  <2>1. \A s \in Session : errs[s] \in 0..2 /\ (errs[s] > 0 => errs[s] - 1 \in 0..2)
    BY DEF TypeOK
  <2>2. errs' \in [Session -> 0..2]
    BY <1>8, <2>1 DEF SessionError, TypeOK
  <2> QED BY <1>8, <2>2 DEF SessionError, TypeOK
<1>9. CASE SessionEnd
  BY <1>9 DEF SessionEnd, TypeOK
<1>10. CASE Wake
  BY <1>10 DEF Wake, TypeOK, sessionVars, NextRetryDelay
<1>11. ASSUME NEW s \in Session, RecvError(s) PROVE TypeOK'
  <2>1. errs[s] \in 0..2 /\ errs[s] + 1 \in 0..2
    BY <1>11 DEF RecvError, TypeOK, Room
  <2>2. errs' \in [Session -> 0..2]
    BY <1>11, <2>1 DEF RecvError, TypeOK
  <2>3. wire' \in [Session -> Seq(Message)]
    BY <1>11 DEF RecvError, TypeOK
  <2> QED BY <1>11, <2>2, <2>3 DEF RecvError, TypeOK, mainVars
<1>12. ASSUME NEW s \in Session, BeatError(s) PROVE TypeOK'
  <2>1. errs[s] \in 0..2 /\ errs[s] + 1 \in 0..2
    BY <1>12 DEF BeatError, TypeOK, Room
  <2>2. errs' \in [Session -> 0..2]
    BY <1>12, <2>1 DEF BeatError, TypeOK
  <2> QED BY <1>12, <2>2 DEF BeatError, TypeOK, mainVars
<1>13. ASSUME NEW s \in Session, Recv(s) PROVE TypeOK'
  <2>1. wire[s] \in Seq(Message) /\ wire[s] # <<>>
    BY <1>13 DEF Recv, TypeOK
  <2>2. Head(wire[s]) \in Message /\ Tail(wire[s]) \in Seq(Message)
    BY <2>1
  <2> QED BY <1>13, <2>2 DEF Recv, TypeOK, mainVars
<1>14. ASSUME NEW s \in Session, HandleCancel(s) PROVE TypeOK'
  <2> DEFINE j == held[s].job
  <2>1. j \in Job
    BY <1>14, MessageType DEF HandleCancel, Message
  <2> HIDE DEF j
  <2>2. [job[j] EXCEPT !.cancelled = job[j].cancelled \/ j \in cancels[s]] \in Goroutine
    <3>1. (job[j].cancelled \/ j \in cancels[s]) \in BOOLEAN
      BY Zenon
    <3> QED BY <2>1, <3>1, GoroutineType, PlacesType, Zenon
  <2>3. job' = [job EXCEPT ![j] = [job[j] EXCEPT !.cancelled = job[j].cancelled \/ j \in cancels[s]]]
    BY <1>14 DEF HandleCancel, TypeOK, j
  <2>4. job' \in [Job -> Goroutine]
    BY <2>1, <2>2, <2>3 DEF TypeOK
  <2>5. asked' \subseteq Job
    BY <1>14, <2>1 DEF HandleCancel, TypeOK, j
  <2>6. held' \in [Session -> Message \cup {None}]
    BY <1>14 DEF HandleCancel, TypeOK
  <2> QED BY <1>14, <2>4, <2>5, <2>6 DEF HandleCancel, TypeOK, mainVars
<1>15. ASSUME NEW s \in Session, HandleJob(s) PROVE TypeOK'
  <2> DEFINE j == held[s].job
  <2>1. j \in Job
    BY <1>15, MessageType DEF HandleJob, Message
  <2>2. [job[j] EXCEPT !.pc = "resolve"] \in Goroutine /\ [job[j] EXCEPT !.pc = "done"] \in Goroutine
    BY <2>1, GoroutineType, PlacesType, Zenon
  <2>3. job' \in [Job -> Goroutine]
    BY <1>15, <2>1, <2>2 DEF HandleJob, TypeOK
  <2>4. held' \in [Session -> Message \cup {None}]
    BY <1>15 DEF HandleJob, TypeOK
  <2> HIDE DEF j
  <2>5. late' \subseteq Job
    BY <1>15, <2>1 DEF HandleJob, TypeOK, j
  <2>6. cancels[s] \cup {j} \in SUBSET Job
    BY <2>1 DEF TypeOK
  <2>7. cancels' \in {cancels, [cancels EXCEPT ![s] = cancels[s] \cup {j}]}
    BY <1>15 DEF HandleJob, TypeOK, j
  <2>8. cancels' \in [Session -> SUBSET Job]
    BY <2>6, <2>7 DEF TypeOK
  <2> QED BY <1>15, <2>3, <2>4, <2>5, <2>8 DEF HandleJob, TypeOK, mainVars
<1>16. ASSUME NEW j \in Job, Invoke(j) PROVE TypeOK'
  <2>1. [job[j] EXCEPT !.pc = "resolve"] \in Goroutine /\ [job[j] EXCEPT !.pc = "done"] \in Goroutine
    BY GoroutineType, PlacesType, Zenon
  <2>2. job' \in [Job -> Goroutine]
    BY <1>16, <2>1 DEF Invoke, TypeOK
  <2>3. <<"refused">> \in Seq({"event", "failure", "summary", "refused"})
    OBVIOUS
  <2>4. out' \in [Job -> Seq({"event", "failure", "summary", "refused"})]
    BY <1>16, <2>3 DEF Invoke, TypeOK
  <2> QED BY <1>16, <2>2, <2>4 DEF Invoke, TypeOK, mainVars, sessionVars
<1>17. ASSUME NEW j \in Job, Event(j) PROVE TypeOK'
  <2>1. out' \in [Job -> Seq({"event", "failure", "summary", "refused"})]
    BY <1>17, SendType DEF Event
  <2> QED BY <1>17, <2>1 DEF Event, TypeOK, mainVars, sessionVars
<1>18. ASSUME NEW j \in Job, Resolve(j) PROVE TypeOK'
  <2>1. [job[j] EXCEPT !.pc = "run"] \in Goroutine /\ [job[j] EXCEPT !.pc = "reject"] \in Goroutine
    BY GoroutineType, PlacesType, Zenon
  <2>2. job' \in [Job -> Goroutine]
    BY <1>18, <2>1 DEF Resolve, TypeOK
  <2>3. out' \in [Job -> Seq({"event", "failure", "summary", "refused"})]
    BY <1>18, SendType DEF Resolve, TypeOK
  <2> QED BY <1>18, <2>2, <2>3 DEF Resolve, TypeOK, mainVars, sessionVars
<1>19. ASSUME NEW j \in Job, RunEnd(j) PROVE TypeOK'
  <2>1. [job[j] EXCEPT !.pc = "report"] \in Goroutine
    BY GoroutineType, PlacesType, Zenon
  <2> QED BY <1>19, <2>1 DEF RunEnd, TypeOK, mainVars, sessionVars
<1>20. ASSUME NEW j \in Job, Report(j) PROVE TypeOK'
  <2>1. [job[j] EXCEPT !.pc = "done"] \in Goroutine
    BY GoroutineType, PlacesType, Zenon
  <2>2. out' \in [Job -> Seq({"event", "failure", "summary", "refused"})]
    BY <1>20, SendType DEF Report
  <2> QED BY <1>20, <2>1, <2>2 DEF Report, TypeOK, mainVars
<1>21. CASE UNCHANGED vars
  BY <1>21 DEF vars, mainVars, sessionVars, TypeOK
<1> QED
  BY <1>1, <1>2, <1>3, <1>4, <1>5, <1>6, <1>7, <1>8, <1>9, <1>10, <1>11, <1>12, <1>13, <1>14,
     <1>15, <1>16, <1>17, <1>18, <1>19, <1>20, <1>21
  DEF Next, MainStep, SessionStep, JobStep, Environment

-----------------------------------------------------------------------------
(* Frames: what a step must leave alone *)

(* A step of a job that moves it and nothing else.                          *)
Moves(j, pc) ==
  /\ \A k \in Job : k # j => job'[k] = job[k]
  /\ job'[j].pc = pc /\ job'[j].at = job[j].at
  /\ job'[j].gone = job[j].gone /\ job'[j].cancelled = job[j].cancelled

LEMMA MoveOne ==
  ASSUME TypeOK, NEW j \in Job, NEW pc, job' = [job EXCEPT ![j].pc = pc]
  PROVE  Moves(j, pc)
BY DEF TypeOK, Goroutine, Moves

(* A stream that is lost does not come back to a job.                       *)
NoReturn(j) == Reaches(j)' => Reaches(j)

(* A job that a step does not touch.                                        *)
LEMMA OtherJob ==
  ASSUME NEW j \in Job, JobOK(j), job'[j] = job[j], out'[j] = out[j], NoReturn(j),
         session <= session', session \in Nat, session' \in Nat, job[j].at \in Nat,
         (At(j) # Web /\ j \in cancels[At(j)]) => j \in cancels'[At(j)],
         j \in asked' => j \in asked, j \in late => j \in late', Holds(j)'
  PROVE  JobOK(j)'
<1>1. Placed(j)'
  BY DEF JobOK, Placed, At, Web
<1>2. Listed(j)'
  BY DEF JobOK, Listed, At
<1>3. Told(j)'
  BY DEF JobOK, Told, At, Events, Summed, NoReturn
<1> QED BY <1>1, <1>2, <1>3 DEF JobOK

(* Nothing happens to the messages if no job is sent or taken.              *)
LEMMA SameMail ==
  ASSUME TypeOK, MailOK, UNCHANGED <<wire, held>>,
         \A j \in Job : /\ job'[j].at = job[j].at
                        /\ (At(j) # Web /\ conn'[At(j)] = "up") => conn[At(j)] = "up"
                        /\ job[j].pc # "none" => job'[j].pc # "none"
                        /\ job'[j].pc = "sent" <=> job[j].pc = "sent"
  PROVE  MailOK'
<1>1. ASSUME NEW s \in Session, NEW i \in 1..Len(wire[s]) PROVE wire[s][i].job \in Job
  BY MessageType DEF Message
<1>2. ASSUME NEW s \in Session, held[s] # None PROVE held[s].job \in Job
  BY <1>2, MessageType DEF Message
<1>3. WireOK'
  BY <1>1 DEF MailOK, WireOK, At, Behind
<1>4. HeldOK'
  BY <1>2 DEF MailOK, HeldOK, At, Behind
<1>5. OrderOK'
  BY <1>1 DEF MailOK, OrderOK, JobMessage, Behind
<1>6. SentOK'
  BY DEF MailOK, SentOK, JobMessage, At
<1> QED BY <1>3, <1>4, <1>5, <1>6 DEF MailOK

(* A step that no job takes part in.                                        *)
LEMMA NoJob ==
  ASSUME AgentInv, TypeOK', UNCHANGED <<job, out, cancels, asked, late>>, session <= session',
         \A j \in Job : NoReturn(j) /\ Holds(j)'
  PROVE  \A j \in Job : JobOK(j)'
<1> TAKE j \in Job
<1>1. session \in Nat /\ session' \in Nat /\ job[j].at \in Nat
  BY AgentAssumption DEF AgentInv, TypeOK, Goroutine
<1> QED BY <1>1, OtherJob DEF AgentInv

(* Streams stay as they are, or are lost.                                   *)
LEMMA StreamsEnd ==
  ASSUME AgentInv, \A s \in Session : conn'[s] = "up" => conn[s] = "up", NEW j \in Job,
         job'[j].at = job[j].at, job[j].gone => job'[j].gone
  PROVE  NoReturn(j) /\ ((At(j) # Web /\ conn'[At(j)] = "up") => conn[At(j)] = "up")
<1>1. At(j) # Web => At(j) \in Session
  BY AgentAssumption DEF AgentInv, TypeOK, Goroutine, At, Web, Session
<1> QED BY <1>1 DEF NoReturn, Reaches, At

-----------------------------------------------------------------------------
(* The goroutine of run, the network and the process: one lemma per action *)

LEMMA StepDial ==
  ASSUME AgentInv, TypeOK', Dial
  PROVE  AgentInv'
<1> USE AgentAssumption
<1>1. session \in Nat /\ session' = session + 1
  BY DEF Dial, AgentInv, TypeOK
<1>2. \A s \in Session : s \in Nat /\ (s # session + 1 => conn'[s] = conn[s])
  BY DEF Dial, AgentInv, TypeOK, Session
<1>3. SessionsOK'
  <2>1. session + 1 \in Session => conn'[session + 1] = "up"
    BY DEF Dial, AgentInv, TypeOK
  <2> QED BY <1>1, <1>2, <2>1 DEF SessionsOK, AgentInv, Session
<1>4. ASSUME NEW j \in Job
      PROVE  NoReturn(j) /\ ((At(j) # Web /\ conn'[At(j)] = "up") => conn[At(j)] = "up")
  <2>1. At(j) <= session /\ At(j) \in Nat /\ (At(j) # Web => At(j) \in Session)
    BY DEF AgentInv, JobOK, Placed, TypeOK, Goroutine, At, Web, Session
  <2>2. At(j) # Web => conn'[At(j)] = conn[At(j)]
    BY <1>1, <1>2, <2>1
  <2>3. job' = job
    BY DEF Dial
  <2> QED BY <2>2, <2>3 DEF NoReturn, Reaches, At
<1>5. MailOK'
  BY <1>4, SameMail DEF Dial, AgentInv
<1>6. ASSUME NEW j \in Job PROVE Holds(j)'
  BY DEF Dial, AgentInv, JobOK, Holds, At
<1>7. \A j \in Job : JobOK(j)'
  BY <1>1, <1>4, <1>6, NoJob DEF Dial
<1> QED BY <1>3, <1>5, <1>7 DEF AgentInv

(* DialFails, SessionError, Wake, Signal and BeatError: neither streams nor *)
(* jobs nor messages.                                                       *)
LEMMA StepMain ==
  ASSUME AgentInv, TypeOK', DialFails \/ SessionError \/ Wake \/ Signal \/ \E s \in Session : BeatError(s)
  PROVE  AgentInv'
<1>1. UNCHANGED <<session, conn, wire, held, job, out, cancels, asked, late>>
  BY DEF DialFails, SessionError, Wake, Signal, BeatError, sessionVars, mainVars
<1>2. SessionsOK'
  BY <1>1 DEF SessionsOK, AgentInv
<1>3. MailOK'
  BY <1>1, SameMail DEF AgentInv
<1>4. ASSUME NEW j \in Job PROVE NoReturn(j)
  BY <1>1 DEF NoReturn, Reaches, At
<1>5. ASSUME NEW j \in Job PROVE Holds(j)'
  BY <1>1 DEF DialFails, SessionError, Wake, Signal, BeatError, mainVars, AgentInv, JobOK, Holds, At
<1>6. session <= session'
  BY <1>1, AgentAssumption DEF AgentInv, TypeOK
<1>7. \A j \in Job : JobOK(j)'
  BY <1>1, <1>4, <1>5, <1>6, NoJob
<1> QED BY <1>2, <1>3, <1>7 DEF AgentInv

(* The stream of a session is lost.                                         *)
LEMMA StepLose ==
  ASSUME AgentInv, TypeOK', NEW s \in Session, Lose(s)
  PROVE  AgentInv'
<1>1. UNCHANGED <<main, session, wire, held, job, out, cancels, asked, late>>
  BY DEF Lose, mainVars
<1>2. SessionsOK'
  BY <1>1 DEF Lose, SessionsOK, AgentInv, TypeOK
<1>3. ASSUME NEW j \in Job
      PROVE  NoReturn(j) /\ ((At(j) # Web /\ conn'[At(j)] = "up") => conn[At(j)] = "up")
  BY <1>1, StreamsEnd DEF Lose, AgentInv, TypeOK
<1>4. MailOK'
  BY <1>1, <1>3, SameMail DEF AgentInv
<1>5. ASSUME NEW j \in Job PROVE Holds(j)'
  BY <1>1 DEF AgentInv, JobOK, Holds, At
<1>6. session <= session'
  BY <1>1, AgentAssumption DEF AgentInv, TypeOK
<1>7. \A j \in Job : JobOK(j)'
  BY <1>1, <1>3, <1>5, <1>6, NoJob
<1> QED BY <1>2, <1>4, <1>7 DEF AgentInv

(* A session ends when its WaitGroup is empty.                              *)
LEMMA StepSessionEnd ==
  ASSUME AgentInv, TypeOK', SessionEnd
  PROVE  AgentInv'
<1>1. UNCHANGED <<session, wire, held, job, out, cancels, asked, late>>
  BY DEF SessionEnd
<1>2. SessionsOK'
  <2>1. ASSUME NEW s \in Session PROVE conn'[s] = "new" <=> conn[s] = "new"
    BY AgentAssumption DEF SessionEnd, SessionsOK, AgentInv, TypeOK, Session
  <2> QED BY <1>1, <2>1 DEF SessionsOK, AgentInv
<1>3. ASSUME NEW j \in Job
      PROVE  NoReturn(j) /\ ((At(j) # Web /\ conn'[At(j)] = "up") => conn[At(j)] = "up")
  BY <1>1, StreamsEnd DEF SessionEnd, AgentInv, TypeOK
<1>4. MailOK'
  BY <1>1, <1>3, SameMail DEF AgentInv
<1>5. ASSUME NEW j \in Job PROVE Holds(j)'
  BY <1>1 DEF SessionEnd, Wg, AgentInv, JobOK, Holds, At
<1>6. session <= session'
  BY <1>1, AgentAssumption DEF AgentInv, TypeOK
<1>7. \A j \in Job : JobOK(j)'
  BY <1>1, <1>3, <1>5, <1>6, NoJob
<1> QED BY <1>2, <1>4, <1>7 DEF AgentInv

-----------------------------------------------------------------------------
(* Messages: one lemma per action *)

(* What a step of the receiver or the server leaves alone.                  *)
LEMMA MailStep ==
  ASSUME AgentInv, TypeOK', MailOK', UNCHANGED <<main, session, conn, job, out, cancels, asked, late>>
  PROVE  AgentInv'
<1>1. SessionsOK'
  BY DEF SessionsOK, AgentInv
<1>2. session <= session'
  BY AgentAssumption DEF AgentInv, TypeOK
<1>3. ASSUME NEW j \in Job PROVE NoReturn(j) /\ Holds(j)'
  BY DEF AgentInv, JobOK, Holds, NoReturn, Reaches, At
<1>4. \A j \in Job : JobOK(j)'
  BY <1>2, <1>3, NoJob
<1> QED BY <1>1, <1>4 DEF AgentInv

(* The receiver ends, and what was under way is lost.                       *)
LEMMA StepRecvError ==
  ASSUME AgentInv, TypeOK', NEW s \in Session, RecvError(s)
  PROVE  AgentInv'
<1>1. \A t \in Session : t # s => wire'[t] = wire[t]
  BY DEF RecvError, AgentInv, TypeOK
<1>2. wire'[s] = <<>> /\ conn[s] = "down" /\ UNCHANGED <<main, session, conn, held, job, out, cancels, asked, late>>
  BY DEF RecvError, AgentInv, TypeOK, mainVars
<1>3. WireOK'
  BY <1>1, <1>2 DEF AgentInv, MailOK, WireOK, At, Behind
<1>4. HeldOK'
  BY <1>2 DEF AgentInv, MailOK, HeldOK, At, Behind
<1>5. OrderOK'
  BY <1>1, <1>2 DEF AgentInv, MailOK, OrderOK, JobMessage, Behind
<1>6. SentOK'
  <2> SUFFICES ASSUME NEW j \in Job, job[j].pc = "sent", At(j) # Web, conn[At(j)] = "up"
               PROVE  \/ held[At(j)] = JobMessage(j)
                      \/ \E k \in 1..Len(wire'[At(j)]) : wire'[At(j)][k] = JobMessage(j)
    BY <1>2 DEF SentOK, At, JobMessage
  <2>1. At(j) \in Session
    BY AgentAssumption DEF AgentInv, TypeOK, Goroutine, At, Web, Session
  <2>2. At(j) # s
    BY <1>2
  <2> QED BY <1>1, <2>1, <2>2 DEF AgentInv, MailOK, SentOK
<1> QED BY <1>2, <1>3, <1>4, <1>5, <1>6, MailStep DEF MailOK

(* A message is taken: it is the oldest, so a cancel only after its job.    *)
LEMMA StepRecv ==
  ASSUME AgentInv, TypeOK', NEW s \in Session, Recv(s)
  PROVE  AgentInv'
<1> DEFINE w == wire[s]
<1>1. /\ \A t \in Session : t # s => wire'[t] = wire[t] /\ held'[t] = held[t]
      /\ wire'[s] = Tail(w) /\ held'[s] = Head(w) /\ held[s] = None /\ w # <<>>
      /\ UNCHANGED <<main, session, conn, job, out, cancels, asked, late>>
  BY DEF Recv, AgentInv, TypeOK, mainVars
<1>2. w \in Seq(Message)
  BY DEF AgentInv, TypeOK
<1>3. /\ Len(w) \in Nat /\ Len(w) > 0 /\ w[1] \in Message
      /\ held'[s] = w[1] /\ Len(wire'[s]) = Len(w) - 1
      /\ \A i \in 1..(Len(w) - 1) : wire'[s][i] = w[i + 1]
  BY <1>1, <1>2
<1>4. \A j \in Job : JobMessage(j) # None /\ JobMessage(j).type = "job"
  BY AgentAssumption DEF JobMessage, Message
<1>5. WireOK'
  <2> SUFFICES ASSUME NEW t \in Session, NEW i \in 1..Len(wire'[t])
               PROVE  /\ Behind(wire'[t][i]) => At(wire'[t][i].job) = t
                      /\ wire'[t][i].type = "job" =>
                           /\ At(wire'[t][i].job) = t
                           /\ job[wire'[t][i].job].pc = "sent" /\ held'[t] # wire'[t][i]
                           /\ \A k \in 1..Len(wire'[t]) : wire'[t][k] = wire'[t][i] => k = i
    BY <1>1 DEF WireOK, At, Behind
  <2>1. CASE t # s
    BY <1>1, <2>1 DEF AgentInv, MailOK, WireOK
  <2>2. CASE t = s
    <3>1. i \in 1..(Len(w) - 1) /\ i + 1 \in 1..Len(w) /\ 1 \in 1..Len(w) /\ wire'[t][i] = w[i + 1]
      BY <1>3, <2>2
    <3>2. /\ Behind(w[i + 1]) => At(w[i + 1].job) = s
          /\ w[i + 1].type = "job" =>
               /\ At(w[i + 1].job) = s
               /\ job[w[i + 1].job].pc = "sent"
               /\ \A k \in 1..Len(w) : w[k] = w[i + 1] => k = i + 1
      BY <3>1 DEF AgentInv, MailOK, WireOK
    <3>3. ASSUME w[i + 1].type = "job", NEW k \in 1..Len(wire'[t]), wire'[t][k] = wire'[t][i] PROVE k = i
      <4>1. k \in 1..(Len(w) - 1) /\ k + 1 \in 1..Len(w) /\ wire'[t][k] = w[k + 1]
        BY <1>3, <2>2, <3>3
      <4>2. k + 1 = i + 1
        BY <3>1, <3>2, <3>3, <4>1
      <4> QED BY <4>1, <4>2, <3>1
    <3>4. w[i + 1].type = "job" => w[1] # w[i + 1]
      <4>1. 1 # i + 1
        BY <3>1
      <4> QED BY <3>1, <3>2, <4>1
    <3> QED BY <1>3, <2>2, <3>1, <3>2, <3>3, <3>4
  <2> QED BY <2>1, <2>2
<1>6. HeldOK'
  <2> SUFFICES ASSUME NEW t \in Session, held'[t] # None
               PROVE  /\ Behind(held'[t]) => At(held'[t].job) = t /\ job[held'[t].job].pc # "sent"
                      /\ held'[t].type = "job" => At(held'[t].job) = t /\ job[held'[t].job].pc = "sent"
    BY <1>1 DEF HeldOK, At, Behind
  <2>1. CASE t # s
    BY <1>1, <2>1 DEF AgentInv, MailOK, HeldOK
  <2>2. CASE t = s
    <3>1. w[1].job \in Job
      BY <1>3 DEF Message
    <3>2. /\ Behind(w[1]) => At(w[1].job) = s
          /\ w[1].type = "job" => At(w[1].job) = s /\ job[w[1].job].pc = "sent"
      BY <1>3 DEF AgentInv, MailOK, WireOK
    <3>3. ~(Behind(w[1]) /\ job[w[1].job].pc = "sent")
      BY <1>1, <1>3, <1>4, <3>1 DEF AgentInv, MailOK, OrderOK
    <3> QED BY <1>3, <2>2, <3>1, <3>2, <3>3
  <2> QED BY <2>1, <2>2
<1>7. OrderOK'
  <2> SUFFICES ASSUME NEW t \in Session, NEW i \in 1..Len(wire'[t]),
                      Behind(wire'[t][i]), job[wire'[t][i].job].pc = "sent"
               PROVE  \/ held'[t] = JobMessage(wire'[t][i].job)
                      \/ \E k \in 1..(i - 1) : wire'[t][k] = JobMessage(wire'[t][i].job)
    BY <1>1 DEF OrderOK, JobMessage, Behind
  <2>1. CASE t # s
    BY <1>1, <2>1 DEF AgentInv, MailOK, OrderOK
  <2>2. CASE t = s
    <3>1. i \in 1..(Len(w) - 1) /\ i + 1 \in 1..Len(w) /\ wire'[t][i] = w[i + 1]
      BY <1>3, <2>2
    <3>0. w[i + 1].job \in Job
      BY <1>2, <3>1, MessageType DEF AgentInv, Message
    <3>5. \/ held[s] = JobMessage(w[i + 1].job)
          \/ \E k \in 1..((i + 1) - 1) : w[k] = JobMessage(w[i + 1].job)
      BY <3>1 DEF AgentInv, MailOK, OrderOK
    <3>2. PICK k \in 1..i : w[k] = JobMessage(w[i + 1].job)
      <4>1. (i + 1) - 1 = i
        OBVIOUS
      <4> QED BY <1>1, <1>4, <3>0, <3>5, <4>1
    <3>3. CASE k = 1
      BY <1>3, <2>2, <3>1, <3>2, <3>3
    <3>4. CASE k # 1
      <4>1. k - 1 \in 1..(i - 1) /\ k - 1 \in 1..(Len(w) - 1)
        BY <3>1, <3>2, <3>4, <1>3
      <4>2. wire'[s][k - 1] = w[k]
        BY <1>3, <4>1, <3>2
      <4> QED BY <2>2, <3>1, <3>2, <4>1, <4>2
    <3> QED BY <3>3, <3>4
  <2> QED BY <2>1, <2>2
<1>8. SentOK'
  <2> SUFFICES ASSUME NEW j \in Job, job[j].pc = "sent", At(j) # Web, conn[At(j)] = "up"
               PROVE  \/ held'[At(j)] = JobMessage(j)
                      \/ \E k \in 1..Len(wire'[At(j)]) : wire'[At(j)][k] = JobMessage(j)
    BY <1>1 DEF SentOK, At, JobMessage
  <2>1. At(j) \in Session
    BY AgentAssumption DEF AgentInv, TypeOK, Goroutine, At, Web, Session
  <2>2. CASE At(j) # s
    BY <1>1, <2>1, <2>2 DEF AgentInv, MailOK, SentOK
  <2>3. CASE At(j) = s
    <3>1. PICK k \in 1..Len(w) : w[k] = JobMessage(j)
      BY <1>1, <1>4, <2>3 DEF AgentInv, MailOK, SentOK
    <3>2. CASE k = 1
      BY <1>3, <2>3, <3>1, <3>2
    <3>3. CASE k # 1
      <4>1. k - 1 \in 1..(Len(w) - 1) /\ wire'[s][k - 1] = w[k]
        BY <1>3, <3>1, <3>3
      <4> QED BY <1>3, <2>3, <3>1, <4>1
    <3> QED BY <3>2, <3>3
  <2> QED BY <2>2, <2>3
<1> QED BY <1>1, <1>5, <1>6, <1>7, <1>8, MailStep DEF MailOK

(* A cancel is sent, after its job or before it.                                          *)
LEMMA StepSendCancel ==
  ASSUME AgentInv, TypeOK', NEW s \in Session, NEW j \in Job, SendCancel(s, j)
  PROVE  AgentInv'
<1> DEFINE w == wire[s]
           m == [type |-> "cancel", job |-> j, behind |-> At(j) = s]
<1>1. /\ \A t \in Session : t # s => wire'[t] = wire[t]
      /\ wire'[s] = Append(w, m) /\ conn[s] = "up"
      /\ UNCHANGED <<main, session, conn, held, job, out, cancels, asked, late>>
  BY DEF SendCancel, AgentInv, TypeOK, mainVars
<1>2. w \in Seq(Message)
  BY DEF AgentInv, TypeOK
<1>3. /\ Len(w) \in Nat /\ Len(wire'[s]) = Len(w) + 1 /\ wire'[s][Len(w) + 1] = m
      /\ \A i \in 1..Len(w) : wire'[s][i] = w[i]
  <2>1. m \in Message
    <3>1. PICK b \in BOOLEAN : b = (At(j) = s)
      BY Zenon
    <3> QED BY <3>1 DEF Message
  <2> HIDE DEF m
  <2> QED BY <1>1, <1>2, <2>1
<1>4. m.type = "cancel" /\ m.job = j /\ (Behind(m) => At(j) = s)
  BY DEF Behind
<1> HIDE DEF m
<1>5. WireOK'
  <2> SUFFICES ASSUME NEW t \in Session, NEW i \in 1..Len(wire'[t])
               PROVE  /\ Behind(wire'[t][i]) => At(wire'[t][i].job) = t
                      /\ wire'[t][i].type = "job" =>
                           /\ At(wire'[t][i].job) = t
                           /\ job[wire'[t][i].job].pc = "sent" /\ held[t] # wire'[t][i]
                           /\ \A k \in 1..Len(wire'[t]) : wire'[t][k] = wire'[t][i] => k = i
    BY <1>1 DEF WireOK, At, Behind
  <2>1. CASE t # s
    BY <1>1, <2>1 DEF AgentInv, MailOK, WireOK
  <2>2. CASE t = s /\ i = Len(w) + 1
    BY <1>1, <1>3, <1>4, <2>2
  <2>3. CASE t = s /\ i \in 1..Len(w)
    <3>1. ASSUME w[i].type = "job" PROVE \A k \in 1..(Len(w) + 1) : wire'[t][k] = w[i] => k = i
      <4> TAKE k \in 1..(Len(w) + 1)
      <4>1. k = Len(w) + 1 \/ k \in 1..Len(w)
        BY <1>3
      <4>2. \A h \in 1..Len(w) : w[h] = w[i] => h = i
        BY <2>3, <3>1 DEF AgentInv, MailOK, WireOK
      <4> QED BY <1>3, <1>4, <2>3, <3>1, <4>1, <4>2
    <3> QED BY <1>1, <1>3, <2>3, <3>1 DEF AgentInv, MailOK, WireOK
  <2> QED BY <1>3, <2>1, <2>2, <2>3
<1>6. HeldOK'
  BY <1>1 DEF AgentInv, MailOK, HeldOK, At, Behind
<1>7. OrderOK'
  <2> SUFFICES ASSUME NEW t \in Session, NEW i \in 1..Len(wire'[t]),
                      Behind(wire'[t][i]), job[wire'[t][i].job].pc = "sent"
               PROVE  \/ held[t] = JobMessage(wire'[t][i].job)
                      \/ \E k \in 1..(i - 1) : wire'[t][k] = JobMessage(wire'[t][i].job)
    BY <1>1 DEF OrderOK, JobMessage, Behind
  <2>1. CASE t # s
    BY <1>1, <2>1 DEF AgentInv, MailOK, OrderOK
  <2>2. CASE t = s /\ i = Len(w) + 1
    <3>1. s # Web
      BY AgentAssumption DEF Session, Web
    <3>2. \/ held[s] = JobMessage(j)
          \/ \E k \in 1..Len(w) : w[k] = JobMessage(j)
      BY <1>1, <1>3, <1>4, <2>2, <3>1 DEF AgentInv, MailOK, SentOK
    <3> QED BY <1>3, <1>4, <2>2, <3>2
  <2>3. CASE t = s /\ i \in 1..Len(w)
    <3>1. \/ held[s] = JobMessage(w[i].job)
          \/ \E k \in 1..(i - 1) : w[k] = JobMessage(w[i].job)
      BY <1>3, <2>3 DEF AgentInv, MailOK, OrderOK
    <3> QED BY <1>3, <2>3, <3>1
  <2> QED BY <1>3, <2>1, <2>2, <2>3
<1>8. SentOK'
  <2> SUFFICES ASSUME NEW k \in Job, job[k].pc = "sent", At(k) # Web, conn[At(k)] = "up"
               PROVE  \/ held[At(k)] = JobMessage(k)
                      \/ \E i \in 1..Len(wire'[At(k)]) : wire'[At(k)][i] = JobMessage(k)
    BY <1>1 DEF SentOK, At, JobMessage
  <2>1. At(k) \in Session
    BY AgentAssumption DEF AgentInv, TypeOK, Goroutine, At, Web, Session
  <2>2. CASE At(k) # s
    BY <1>1, <2>1, <2>2 DEF AgentInv, MailOK, SentOK
  <2>3. CASE At(k) = s
    <3>1. held[s] = JobMessage(k) \/ \E i \in 1..Len(w) : w[i] = JobMessage(k)
      BY <2>3 DEF AgentInv, MailOK, SentOK
    <3> QED BY <1>3, <2>3, <3>1
  <2> QED BY <2>2, <2>3
<1> QED BY <1>1, <1>5, <1>6, <1>7, <1>8, MailStep DEF MailOK

(* A message is its type and its job.                                       *)
LEMMA MessageIs ==
  /\ \A m \in Message : m.type \in {"job", "cancel"} /\ m.job \in Job
  /\ \A m \in Message : m.type = "job" => m = JobMessage(m.job)
  /\ \A j \in Job : JobMessage(j) \in Message /\ JobMessage(j).type = "job" /\ JobMessage(j).job = j
  /\ \A j \in Job : ~Behind(JobMessage(j))
  /\ None \notin Message
BY AgentAssumption DEF Message, JobMessage, Behind

(* Sessions are numbers, and no request.                                    *)
LEMMA SessionIs ==
  /\ \A s \in Session : s \in Nat /\ s # Web
  /\ AgentInv => session \in Nat /\ \A j \in Job : At(j) \in Nat /\ (At(j) # Web => At(j) \in Session)
BY AgentAssumption DEF Session, Web, AgentInv, TypeOK, Goroutine, At

(* A job is sent: it is not under way, and no cancel was sent behind it.                            *)
LEMMA StepSendJob ==
  ASSUME AgentInv, TypeOK', NEW s \in Session, NEW j \in Job, SendJob(s, j)
  PROVE  AgentInv'
<1> DEFINE w == wire[s]
           m == JobMessage(j)
<1>1. /\ \A t \in Session : t # s => wire'[t] = wire[t]
      /\ wire'[s] = Append(w, m) /\ conn[s] = "up" /\ job[j].pc = "none" /\ j \notin WebJob
      /\ UNCHANGED <<main, session, conn, held, out, cancels, asked, late>>
  BY DEF SendJob, AgentInv, TypeOK, mainVars, JobMessage
<1>2. /\ \A k \in Job : k # j => job'[k] = job[k]
      /\ job'[j].pc = "sent" /\ job'[j].at = s /\ job'[j].gone = job[j].gone
      /\ job'[j].cancelled = job[j].cancelled
  BY DEF SendJob, AgentInv, TypeOK, Goroutine
<1>3. w \in Seq(Message)
  BY DEF AgentInv, TypeOK
<1>4. /\ Len(w) \in Nat /\ Len(wire'[s]) = Len(w) + 1 /\ wire'[s][Len(w) + 1] = m
      /\ \A i \in 1..Len(w) : wire'[s][i] = w[i]
  BY <1>1, <1>3
<1>5. m.type = "job" /\ m.job = j
  BY MessageIs
<1>6. \A t \in Session : \A i \in 1..Len(wire[t]) :
        /\ wire[t][i].job \in Job /\ wire[t][i] # m
        /\ (wire[t][i].type = "job" \/ Behind(wire[t][i])) =>
             wire[t][i].job # j /\ job'[wire[t][i].job] = job[wire[t][i].job]
  <2> TAKE t \in Session
  <2> TAKE i \in 1..Len(wire[t])
  <2>1. wire[t][i] \in Message /\ wire[t][i].job \in Job
    BY MessageType, MessageIs DEF AgentInv
  <2>2. At(j) # t
    BY <1>1, SessionIs DEF AgentInv, JobOK, Placed
  <2>3. (wire[t][i].type = "job" \/ Behind(wire[t][i])) => wire[t][i].job # j
    BY <2>2 DEF AgentInv, MailOK, WireOK
  <2> QED BY <1>2, <1>5, <2>1, <2>3
<1>7. \A t \in Session : held[t] # None =>
        /\ held[t].job \in Job /\ held[t] # m
        /\ (held[t].type = "job" \/ Behind(held[t])) =>
             held[t].job # j /\ job'[held[t].job] = job[held[t].job]
  <2> SUFFICES ASSUME NEW t \in Session, held[t] # None
               PROVE  held[t].job \in Job /\ ((held[t].type = "job" \/ Behind(held[t])) => held[t].job # j)
    BY <1>2, <1>5
  <2>1. held[t] \in Message /\ held[t].job \in Job
    BY MessageType, MessageIs DEF AgentInv
  <2>2. At(j) # t
    BY <1>1, SessionIs DEF AgentInv, JobOK, Placed
  <2> QED BY <2>1, <2>2 DEF AgentInv, MailOK, HeldOK
<1>8. m # None
  BY MessageIs
<1> HIDE DEF m
<1>9. WireOK'
  <2> SUFFICES ASSUME NEW t \in Session, NEW i \in 1..Len(wire'[t])
               PROVE  /\ Behind(wire'[t][i]) => job'[wire'[t][i].job].at = t
                      /\ wire'[t][i].type = "job" =>
                           /\ job'[wire'[t][i].job].at = t
                           /\ job'[wire'[t][i].job].pc = "sent" /\ held[t] # wire'[t][i]
                           /\ \A k \in 1..Len(wire'[t]) : wire'[t][k] = wire'[t][i] => k = i
    BY <1>1 DEF WireOK, At, Behind
  <2>1. CASE t # s
    BY <1>1, <1>6, <2>1 DEF AgentInv, MailOK, WireOK, At
  <2>2. CASE t = s /\ i = Len(w) + 1
    <3>1. \A k \in 1..Len(wire'[t]) : wire'[t][k] = m => k = i
      <4> TAKE k \in 1..Len(wire'[t])
      <4>1. k = Len(w) + 1 \/ k \in 1..Len(w)
        BY <1>4, <2>2
      <4> QED BY <1>4, <1>6, <2>2, <4>1
    <3>2. held[t] # m
      BY <1>7, <1>8
    <3> QED BY <1>2, <1>4, <1>5, <2>2, <3>1, <3>2
  <2>3. CASE t = s /\ i \in 1..Len(w)
    <3>1. /\ wire'[t][i] = w[i] /\ w[i] # m
          /\ (w[i].type = "job" \/ Behind(w[i])) => job'[w[i].job] = job[w[i].job]
      BY <1>4, <1>6, <2>3
    <3>2. /\ Behind(w[i]) => job[w[i].job].at = s
          /\ w[i].type = "job" => /\ job[w[i].job].at = s /\ job[w[i].job].pc = "sent" /\ held[s] # w[i]
                                  /\ \A k \in 1..Len(w) : w[k] = w[i] => k = i
      BY <2>3 DEF AgentInv, MailOK, WireOK, At
    <3>3. ASSUME w[i].type = "job", NEW k \in 1..Len(wire'[t]), wire'[t][k] = w[i] PROVE k = i
      <4>1. k = Len(w) + 1 \/ k \in 1..Len(w)
        BY <1>4, <2>3
      <4> QED BY <1>4, <2>3, <3>1, <3>2, <3>3, <4>1
    <3> QED BY <2>3, <3>1, <3>2, <3>3
  <2> QED BY <1>4, <2>1, <2>2, <2>3
<1>10. HeldOK'
  BY <1>1, <1>7 DEF AgentInv, MailOK, HeldOK, At, Behind
<1>11. OrderOK'
  <2> SUFFICES ASSUME NEW t \in Session, NEW i \in 1..Len(wire'[t]),
                      Behind(wire'[t][i]), job'[wire'[t][i].job].pc = "sent"
               PROVE  \/ held[t] = JobMessage(wire'[t][i].job)
                      \/ \E k \in 1..(i - 1) : wire'[t][k] = JobMessage(wire'[t][i].job)
    BY <1>1 DEF OrderOK, JobMessage, Behind
  <2>1. CASE t # s
    BY <1>1, <1>6, <2>1 DEF AgentInv, MailOK, OrderOK
  <2>2. CASE t = s /\ i = Len(w) + 1
    BY <1>4, <2>2, MessageIs DEF m
  <2>3. CASE t = s /\ i \in 1..Len(w)
    <3>1. \/ held[s] = JobMessage(w[i].job)
          \/ \E k \in 1..(i - 1) : w[k] = JobMessage(w[i].job)
      <4>1. Behind(w[i]) /\ job[w[i].job].pc = "sent"
        BY <1>4, <1>6, <2>3
      <4> QED BY <2>3, <4>1 DEF AgentInv, MailOK, OrderOK
    <3> QED BY <1>4, <2>3, <3>1
  <2> QED BY <1>4, <2>1, <2>2, <2>3
<1>12. SentOK'
  <2> SUFFICES ASSUME NEW k \in Job, job'[k].pc = "sent", job'[k].at # Web, conn[job'[k].at] = "up"
               PROVE  \/ held[job'[k].at] = JobMessage(k)
                      \/ \E i \in 1..Len(wire'[job'[k].at]) : wire'[job'[k].at][i] = JobMessage(k)
    BY <1>1 DEF SentOK, At, JobMessage
  <2>1. CASE k = j
    <3>1. Len(w) + 1 \in 1..Len(wire'[s])
      BY <1>4
    <3> QED BY <1>2, <1>4, <2>1, <3>1 DEF m
  <2>2. CASE k # j
    <3>1. job'[k] = job[k] /\ At(k) \in Session /\ At(k) = job[k].at
      BY <1>2, <2>2, SessionIs DEF At
    <3>2. held[At(k)] = JobMessage(k) \/ \E i \in 1..Len(wire[At(k)]) : wire[At(k)][i] = JobMessage(k)
      BY <3>1 DEF AgentInv, MailOK, SentOK
    <3>3. CASE At(k) # s
      BY <1>1, <3>1, <3>2, <3>3
    <3>4. CASE At(k) = s
      BY <1>4, <3>1, <3>2, <3>4
    <3> QED BY <3>3, <3>4
  <2> QED BY <2>1, <2>2
<1>13. JobOK(j)'
  <2>1. s <= session /\ s # Web
    BY <1>1, SessionIs DEF AgentInv, SessionsOK
  <2>2. j \notin asked /\ out[j] = <<>>
    BY <1>1 DEF AgentInv, JobOK, Listed, Told
  <2>3. Placed(j)'
    BY <1>1, <1>2, <2>1 DEF Placed, At
  <2>4. Listed(j)'
    BY <1>1, <1>2, <2>2 DEF Listed, Running
  <2>5. Told(j)'
    BY <1>1, <1>2, <2>2 DEF Told
  <2>6. Holds(j)'
    BY <1>2 DEF Holds, Running
  <2> QED BY <2>3, <2>4, <2>5, <2>6 DEF JobOK
<1>14. ASSUME NEW k \in Job, k # j PROVE JobOK(k)'
  <2>1. NoReturn(k) /\ Holds(k)'
    BY <1>1, <1>2, <1>14 DEF NoReturn, Reaches, At, AgentInv, JobOK, Holds
  <2>2. session <= session' /\ session \in Nat /\ session' \in Nat /\ job[k].at \in Nat
    BY <1>1, SessionIs DEF At
  <2> QED BY <1>1, <1>2, <1>14, <2>1, <2>2, OtherJob DEF AgentInv
<1>15. SessionsOK'
  BY <1>1 DEF AgentInv, SessionsOK
<1> QED BY <1>9, <1>10, <1>11, <1>12, <1>13, <1>14, <1>15 DEF AgentInv, MailOK

(* The message in hand is dealt with: a cancel, or a job that begins.       *)
LEMMA MailHandled ==
  ASSUME AgentInv, NEW s \in Session, held[s] # None, held'[s] = None,
         \A t \in Session : t # s => held'[t] = held[t],
         UNCHANGED <<wire, conn>>,
         \A k \in Job : job'[k].at = job[k].at,
         \A k \in Job : (k # held[s].job \/ held[s].type = "cancel") => job'[k].pc = job[k].pc,
         held[s].type = "job" => job'[held[s].job].pc \notin {"none", "sent"}
  PROVE  MailOK'
<1> DEFINE j == held[s].job
<1>1. /\ held[s] \in Message /\ j \in Job /\ held[s].type \in {"job", "cancel"}
      /\ held[s].type = "job" => job[j].at = s /\ job[j].pc = "sent"
  BY MessageType, MessageIs DEF AgentInv, MailOK, HeldOK, At
<1>2. \A t \in Session : \A i \in 1..Len(wire[t]) :
        /\ wire[t][i] \in Message /\ wire[t][i].job \in Job /\ wire[t][i] # None
        /\ (wire[t][i].type = "job" \/ Behind(wire[t][i])) => job[wire[t][i].job].at = t
        /\ (wire[t][i].type = "job" /\ held[s].type = "job") => wire[t][i].job # j
  <2> TAKE t \in Session
  <2> TAKE i \in 1..Len(wire[t])
  <2>1. wire[t][i] \in Message /\ wire[t][i].job \in Job /\ wire[t][i] # None
    BY MessageType, MessageIs DEF AgentInv
  <2>2. /\ (wire[t][i].type = "job" \/ Behind(wire[t][i])) => job[wire[t][i].job].at = t
        /\ wire[t][i].type = "job" => held[t] # wire[t][i]
    BY DEF AgentInv, MailOK, WireOK, At
  <2>3. ASSUME wire[t][i].type = "job", held[s].type = "job", wire[t][i].job = j PROVE FALSE
    <3>1. wire[t][i] = JobMessage(j) /\ held[s] = JobMessage(j)
      BY <1>1, <2>1, <2>3, MessageIs
    <3> QED BY <1>1, <2>2, <2>3, <3>1
  <2> QED BY <2>1, <2>2, <2>3
<1>4. \A k \in Job : job'[k].pc = "sent" => job[k].pc = "sent" /\ (held[s].type = "job" => k # j)
  BY <1>1
<1>5. \A k \in Job : k # j \/ held[s].type = "cancel" => job'[k].pc = job[k].pc
  BY <1>1
<1>6. held[s].type = "cancel" => \A k \in Job : held[s] # JobMessage(k)
  BY MessageIs
<1>7. \A k \in Job : k # j => held[s] # JobMessage(k)
  BY MessageIs
<1> HIDE DEF j
<1>8. WireOK'
  <2> SUFFICES ASSUME NEW t \in Session, NEW i \in 1..Len(wire[t])
               PROVE  /\ Behind(wire[t][i]) => job'[wire[t][i].job].at = t
                      /\ wire[t][i].type = "job" =>
                           /\ job'[wire[t][i].job].at = t
                           /\ job'[wire[t][i].job].pc = "sent" /\ held'[t] # wire[t][i]
                           /\ \A k \in 1..Len(wire[t]) : wire[t][k] = wire[t][i] => k = i
    BY DEF WireOK, At, Behind
  <2>1. wire[t][i].type = "job" =>
             /\ job[wire[t][i].job].pc = "sent" /\ held[t] # wire[t][i]
             /\ \A k \in 1..Len(wire[t]) : wire[t][k] = wire[t][i] => k = i
    BY DEF AgentInv, MailOK, WireOK
  <2>2. held'[t] # wire[t][i] \/ wire[t][i].type # "job"
    BY <1>2, <2>1
  <2>3. wire[t][i].type = "job" => job'[wire[t][i].job].pc = "sent"
    BY <1>1, <1>2, <1>5, <2>1
  <2> QED BY <1>2, <2>1, <2>2, <2>3
<1>9. HeldOK'
  <2> SUFFICES ASSUME NEW t \in Session, held'[t] # None
               PROVE  /\ Behind(held'[t]) => job'[held'[t].job].at = t /\ job'[held'[t].job].pc # "sent"
                      /\ held'[t].type = "job" =>
                           job'[held'[t].job].at = t /\ job'[held'[t].job].pc = "sent"
    BY DEF HeldOK, At, Behind
  <2>1. t # s /\ held'[t] = held[t]
    OBVIOUS
  <2>2. /\ held[t].job \in Job
        /\ Behind(held[t]) => job[held[t].job].at = t /\ job[held[t].job].pc # "sent"
        /\ held[t].type = "job" => job[held[t].job].at = t /\ job[held[t].job].pc = "sent"
    BY <2>1, MessageType, MessageIs DEF AgentInv, MailOK, HeldOK, At
  <2>3. (held[t].type = "job" /\ held[s].type = "job") => held[t].job # j
    BY <1>1, <2>1, <2>2
  <2>4. held[t].type = "job" => job'[held[t].job].pc = "sent"
    BY <1>1, <1>5, <2>2, <2>3
  <2>5. Behind(held[t]) => job'[held[t].job].pc # "sent"
    BY <1>4, <2>2
  <2> QED BY <2>1, <2>2, <2>4, <2>5
<1>10. OrderOK'
  <2> SUFFICES ASSUME NEW t \in Session, NEW i \in 1..Len(wire[t]),
                      Behind(wire[t][i]), job'[wire[t][i].job].pc = "sent"
               PROVE  \/ held'[t] = JobMessage(wire[t][i].job)
                      \/ \E k \in 1..(i - 1) : wire[t][k] = JobMessage(wire[t][i].job)
    BY DEF OrderOK, JobMessage, Behind
  <2>1. wire[t][i].job \in Job /\ job[wire[t][i].job].pc = "sent" /\ (held[s].type = "job" => wire[t][i].job # j)
    BY <1>2, <1>4
  <2>2. \/ held[t] = JobMessage(wire[t][i].job)
        \/ \E k \in 1..(i - 1) : wire[t][k] = JobMessage(wire[t][i].job)
    BY <2>1 DEF AgentInv, MailOK, OrderOK
  <2>3. t = s => held[t] # JobMessage(wire[t][i].job)
    BY <1>1, <1>6, <1>7, <2>1
  <2> QED BY <2>2, <2>3
<1>11. SentOK'
  <2> SUFFICES ASSUME NEW k \in Job, job'[k].pc = "sent", job[k].at # Web, conn[job[k].at] = "up"
               PROVE  \/ held'[job[k].at] = JobMessage(k)
                      \/ \E i \in 1..Len(wire[job[k].at]) : wire[job[k].at][i] = JobMessage(k)
    BY DEF SentOK, At, JobMessage
  <2>1. job[k].at \in Session /\ job[k].pc = "sent" /\ (held[s].type = "job" => k # j)
    BY <1>4, SessionIs DEF At
  <2>2. \/ held[job[k].at] = JobMessage(k)
        \/ \E i \in 1..Len(wire[job[k].at]) : wire[job[k].at][i] = JobMessage(k)
    BY <2>1 DEF AgentInv, MailOK, SentOK, At
  <2>3. job[k].at = s => held[s] # JobMessage(k)
    BY <1>1, <1>6, <1>7, <2>1
  <2> QED BY <2>1, <2>2, <2>3
<1> QED BY <1>8, <1>9, <1>10, <1>11 DEF MailOK

(* A cancel is handled: if it came behind its job, the job has begun, and   *)
(* if it runs it is listed.                                                 *)
LEMMA StepHandleCancel ==
  ASSUME AgentInv, TypeOK', NEW s \in Session, HandleCancel(s)
  PROVE  AgentInv'
<1>0. held[s] # None /\ held[s].type = "cancel"
  BY DEF HandleCancel
<1>2. PICK j \in Job : j = held[s].job
  BY <1>0, MessageType, MessageIs DEF AgentInv
<1>8. \/ asked' = asked
      \/ asked' = asked \cup {j} /\ At(j) = s /\ job[j].pc \notin {"none", "sent"}
  <2>1. CASE held[s].behind
    <3>1. At(j) = s /\ job[j].pc # "sent"
      BY <1>0, <1>2, <2>1 DEF AgentInv, MailOK, HeldOK, Behind
    <3>2. job[j].pc # "none"
      BY <3>1, SessionIs DEF AgentInv, JobOK, Placed
    <3>3. asked' = asked \cup {j}
      BY <1>2, <2>1 DEF HandleCancel
    <3> QED BY <3>1, <3>2, <3>3
  <2>2. CASE ~held[s].behind
    BY <2>2 DEF HandleCancel
  <2> QED BY <2>1, <2>2
<1>1. /\ held[s] # None /\ held[s].type = "cancel"
      /\ held'[s] = None /\ \A t \in Session : t # s => held'[t] = held[t]
      /\ UNCHANGED <<main, session, conn, wire, out, cancels, late>>
  BY <1>2 DEF HandleCancel, AgentInv, TypeOK, mainVars
<1>3. /\ \A k \in Job : k # j => job'[k] = job[k]
      /\ job'[j].pc = job[j].pc /\ job'[j].at = job[j].at /\ job'[j].gone = job[j].gone
      /\ job'[j].cancelled = (job[j].cancelled \/ j \in cancels[s])
  BY <1>2 DEF HandleCancel, AgentInv, TypeOK, Goroutine
<1>4. MailOK'
  <2>1. \A k \in Job : job'[k].at = job[k].at /\ job'[k].pc = job[k].pc
    BY <1>3
  <2> QED BY <1>1, <2>1, MailHandled
<1>5. JobOK(j)'
  <2>1. At(j)' = At(j) /\ s # Web
    BY <1>2, <1>3, SessionIs DEF At
  <2>2. Placed(j)'
    BY <1>1, <1>2, <1>3, <2>1 DEF AgentInv, JobOK, Placed
  <2>3. Listed(j)'
    BY <1>1, <1>2, <1>3, <1>8, <2>1 DEF AgentInv, JobOK, Listed
  <2>4. Told(j)'
    BY <1>1, <1>2, <1>3 DEF AgentInv, JobOK, Told, Events, Summed, Reaches, At
  <2>5. Holds(j)'
    BY <1>1, <1>2, <1>3 DEF AgentInv, JobOK, Holds, At
  <2> QED BY <2>2, <2>3, <2>4, <2>5 DEF JobOK
<1>6. ASSUME NEW k \in Job, k # j PROVE JobOK(k)'
  <2>1. NoReturn(k) /\ Holds(k)'
    BY <1>1, <1>3, <1>6 DEF NoReturn, Reaches, At, AgentInv, JobOK, Holds
  <2>2. session <= session' /\ session \in Nat /\ session' \in Nat /\ job[k].at \in Nat
    BY <1>1, SessionIs DEF At
  <2> QED BY <1>1, <1>3, <1>6, <1>8, <2>1, <2>2, OtherJob DEF AgentInv
<1>7. SessionsOK'
  BY <1>1 DEF AgentInv, SessionsOK
<1> QED BY <1>4, <1>5, <1>6, <1>7 DEF AgentInv

(* A job begins, listed before the next message is received, or is dropped. *)
LEMMA StepHandleJob ==
  ASSUME AgentInv, TypeOK', NEW s \in Session, HandleJob(s)
  PROVE  AgentInv'
<1>1. /\ held[s] # None /\ held[s].type = "job"
      /\ held'[s] = None /\ \A t \in Session : t # s => held'[t] = held[t]
      /\ UNCHANGED <<main, session, conn, wire, out, asked>>
  BY DEF HandleJob, AgentInv, TypeOK, mainVars
<1>2. PICK j \in Job : j = held[s].job /\ At(j) = s /\ job[j].pc = "sent"
  BY <1>1, MessageType, MessageIs DEF AgentInv, MailOK, HeldOK
<1>3. \/ /\ Moves(j, "resolve") /\ cancels' = [cancels EXCEPT ![s] = @ \cup {j}]
         /\ late' = IF session = s /\ main = "serve" THEN late ELSE late \cup {j}
      \/ Moves(j, "done") /\ UNCHANGED <<cancels, late>>
  BY <1>2, MoveOne DEF HandleJob, AgentInv
<1>4. MailOK'
  <2>1. \A k \in Job : job'[k].at = job[k].at /\ (k # j => job'[k].pc = job[k].pc)
    BY <1>3 DEF Moves
  <2>2. job'[j].pc \notin {"none", "sent"}
    BY <1>3 DEF Moves
  <2> QED BY <1>1, <1>2, <2>1, <2>2, MailHandled
<1>5. JobOK(j)'
  <2>1. At(j)' = s /\ s # Web
    BY <1>2, <1>3, SessionIs DEF At, Moves
  <2>2. Placed(j)'
    BY <1>1, <1>2, <1>3, <2>1 DEF AgentInv, JobOK, Placed, Moves
  <2>3. Listed(j)'
    <3>1. j \notin asked
      BY <1>2 DEF AgentInv, JobOK, Listed
    <3>2. job'[j].pc = "resolve" => j \in cancels'[s]
      BY <1>3 DEF AgentInv, TypeOK, Moves
    <3>3. job'[j].pc \in {"resolve", "done"}
      BY <1>3 DEF Moves
    <3> QED BY <1>1, <2>1, <3>1, <3>2, <3>3 DEF Listed, Running
  <2>4. Told(j)'
    <3>1. out'[j] = <<>>
      BY <1>1, <1>2 DEF AgentInv, JobOK, Told
    <3> QED BY <1>3, <2>1, <3>1 DEF Told, Moves
  <2>5. Holds(j)'
    BY <1>1, <1>3, <2>1 DEF Holds, Moves, Running
  <2> QED BY <2>2, <2>3, <2>4, <2>5 DEF JobOK
<1>6. ASSUME NEW k \in Job, k # j PROVE JobOK(k)'
  <2>0. job'[k] = job[k] /\ (k \in late => k \in late') /\ (k \in late' => k \in late)
    BY <1>3, <1>6 DEF Moves
  <2>1. NoReturn(k) /\ Holds(k)'
    BY <1>1, <2>0 DEF NoReturn, Reaches, At, AgentInv, JobOK, Holds
  <2>2. session <= session' /\ session \in Nat /\ session' \in Nat /\ job[k].at \in Nat
    BY <1>1, SessionIs DEF At
  <2>3. (At(k) # Web /\ k \in cancels[At(k)]) => k \in cancels'[At(k)]
    <3>1. At(k) # Web => At(k) \in Session
      BY SessionIs
    <3>2. cancels \in [Session -> SUBSET Job]
      BY DEF AgentInv, TypeOK
    <3>3. \A t \in Session : cancels'[t] = cancels[t] \/ cancels'[t] = cancels[t] \cup {j}
      BY <1>3, <3>2
    <3> QED BY <3>1, <3>3
  <2> QED BY <1>1, <2>0, <2>1, <2>2, <2>3, OtherJob DEF AgentInv
<1>7. SessionsOK'
  BY <1>1 DEF AgentInv, SessionsOK
<1> QED BY <1>4, <1>5, <1>6, <1>7 DEF AgentInv

-----------------------------------------------------------------------------
(* Jobs: one lemma per action *)

(* A step of one job leaves the others and their messages alone.            *)
LEMMA JobStepOK ==
  ASSUME AgentInv, TypeOK', NEW j \in Job,
         \A k \in Job : k # j => job'[k] = job[k] /\ out'[k] = out[k],
         job'[j].at = job[j].at, job[j].pc # "sent", job'[j].pc \notin {"none", "sent"},
         UNCHANGED <<main, session, conn, wire, held, asked, late>>,
         \A s \in Session : cancels[s] \ {j} \subseteq cancels'[s],
         JobOK(j)'
  PROVE  AgentInv'
<1>1. MailOK'
  BY SameMail DEF AgentInv
<1>2. SessionsOK'
  BY DEF AgentInv, SessionsOK
<1>3. ASSUME NEW k \in Job, k # j PROVE JobOK(k)'
  <2>1. job'[k] = job[k] /\ out'[k] = out[k]
    BY <1>3
  <2>2. NoReturn(k) /\ Holds(k)'
    BY <2>1 DEF NoReturn, Reaches, At, AgentInv, JobOK, Holds
  <2>3. session <= session' /\ session \in Nat /\ session' \in Nat /\ job[k].at \in Nat
    BY SessionIs DEF At
  <2>4. (At(k) # Web /\ k \in cancels[At(k)]) => k \in cancels'[At(k)]
    BY <1>3, SessionIs
  <2> QED BY <2>1, <2>2, <2>3, <2>4, OtherJob DEF AgentInv
<1> QED BY <1>1, <1>2, <1>3 DEF AgentInv

(* What reaches the server is appended, and nothing else changes.           *)
LEMMA Sends ==
  ASSUME TypeOK, NEW j \in Job, NEW kind, Send(j, kind)
  PROVE  /\ \A k \in Job : k # j => out'[k] = out[k]
         /\ Reaches(j) => out'[j] = Append(out[j], kind)
         /\ ~Reaches(j) => out'[j] = out[j]
BY DEF TypeOK, Send

(* The client of a request goes away.                                       *)
LEMMA StepGone ==
  ASSUME AgentInv, TypeOK', NEW j \in Job, Gone(j)
  PROVE  AgentInv'
<1>1. /\ \A k \in Job : k # j => job'[k] = job[k]
      /\ job'[j].pc = job[j].pc /\ job'[j].at = job[j].at /\ job'[j].gone /\ job'[j].cancelled
  BY DEF Gone, AgentInv, TypeOK, Goroutine
<1>2. job[j].pc \in Running /\ At(j) = Web
      /\ UNCHANGED <<main, session, conn, wire, held, asked, late, out, cancels>>
  BY DEF Gone, mainVars, sessionVars
<1>3. JobOK(j)'
  <2>1. Placed(j)'
    BY <1>1, <1>2 DEF AgentInv, JobOK, Placed, At
  <2>2. Listed(j)'
    BY <1>1, <1>2 DEF AgentInv, JobOK, Listed, At
  <2>3. Told(j)'
    BY <1>1, <1>2 DEF AgentInv, JobOK, Told, Running, Events
  <2>4. Holds(j)'
    BY <1>1, <1>2 DEF AgentInv, JobOK, Holds, At
  <2> QED BY <2>1, <2>2, <2>3, <2>4 DEF JobOK
<1>4. job[j].pc \notin {"none", "sent"}
  BY <1>2 DEF Running
<1> QED BY <1>1, <1>2, <1>3, <1>4, JobStepOK

(* A request is refused or its job begins.                                  *)
LEMMA StepInvoke ==
  ASSUME AgentInv, TypeOK', NEW j \in Job, Invoke(j)
  PROVE  AgentInv'
<1>1. job[j].pc = "none" /\ j \in WebJob
      /\ UNCHANGED <<main, session, conn, wire, held, asked, late, cancels>>
  BY DEF Invoke, mainVars, sessionVars
<1>2. \/ Moves(j, "done") /\ out' = [out EXCEPT ![j] = <<"refused">>]
      \/ Moves(j, "resolve") /\ out' = out
  BY MoveOne DEF Invoke, AgentInv
<1>3. /\ \A k \in Job : k # j => job'[k] = job[k] /\ out'[k] = out[k]
      /\ job'[j].at = job[j].at /\ job'[j].pc \in {"done", "resolve"}
      /\ job'[j].pc = "done" => out'[j] = <<"refused">>
      /\ job'[j].pc = "resolve" => out'[j] = out[j]
  BY <1>2 DEF Moves, AgentInv, TypeOK
<1>4. At(j) = Web /\ j \notin asked /\ out[j] = <<>>
  BY <1>1 DEF AgentInv, JobOK, Placed, Listed, Told
<1>5. JobOK(j)'
  <2>1. Placed(j)'
    BY <1>1, <1>3, <1>4 DEF AgentInv, JobOK, Placed, At
  <2>2. Listed(j)'
    BY <1>1, <1>3, <1>4 DEF AgentInv, JobOK, Listed, At
  <2>3. Told(j)'
    BY <1>3, <1>4 DEF Told
  <2>4. Holds(j)'
    BY <1>1, <1>3, <1>4 DEF Holds, At
  <2> QED BY <2>1, <2>2, <2>3, <2>4 DEF JobOK
<1> QED BY <1>1, <1>3, <1>5, JobStepOK

(* The target is resolved, or the failure is reported first.                *)
LEMMA StepResolve ==
  ASSUME AgentInv, TypeOK', NEW j \in Job, Resolve(j)
  PROVE  AgentInv'
<1>1. job[j].pc = "resolve" /\ UNCHANGED <<main, session, conn, wire, held, asked, late, cancels>>
  BY DEF Resolve, mainVars, sessionVars
<1>2. \/ Moves(j, "run") /\ out' = out
      \/ Moves(j, "reject") /\ Send(j, "failure")
  BY MoveOne DEF Resolve, AgentInv
<1>3. out[j] = <<>>
  BY <1>1 DEF AgentInv, JobOK, Told
<1>4. /\ \A k \in Job : k # j => job'[k] = job[k] /\ out'[k] = out[k]
      /\ job'[j].at = job[j].at /\ job'[j].cancelled = job[j].cancelled
      /\ job'[j].pc \in {"run", "reject"}
      /\ job'[j].pc = "run" => out'[j] = <<>>
      /\ job'[j].pc = "reject" => out'[j] \in {<<>>, <<"failure">>}
  <2>1. CASE Moves(j, "run") /\ out' = out
    BY <1>3, <2>1 DEF Moves
  <2>2. CASE Moves(j, "reject") /\ Send(j, "failure")
    <3>1. Append(<<>>, "failure") = <<"failure">>
      OBVIOUS
    <3>2. out'[j] \in {<<>>, <<"failure">>} /\ \A k \in Job : k # j => out'[k] = out[k]
      BY <1>3, <2>2, <3>1, Sends DEF AgentInv
    <3> QED BY <2>2, <3>2 DEF Moves
  <2> QED BY <1>2, <2>1, <2>2
<1>5. JobOK(j)'
  <2>1. Placed(j)'
    BY <1>1, <1>4 DEF AgentInv, JobOK, Placed, At
  <2>2. Listed(j)'
    BY <1>1, <1>4 DEF AgentInv, JobOK, Listed, At, Running
  <2>3. Told(j)'
    BY <1>4 DEF Told, Events
  <2>4. Holds(j)'
    BY <1>1, <1>4 DEF AgentInv, JobOK, Holds, At, Running
  <2> QED BY <2>1, <2>2, <2>3, <2>4 DEF JobOK
<1> QED BY <1>1, <1>4, <1>5, JobStepOK

(* An event is reported, or nobody hears of it.                             *)
LEMMA StepEvent ==
  ASSUME AgentInv, TypeOK', NEW j \in Job, Event(j)
  PROVE  AgentInv'
<1>1. job[j].pc = "run" /\ UNCHANGED <<main, session, conn, wire, held, asked, late, cancels, job>>
  BY DEF Event, mainVars, sessionVars
<1>2. \A k \in Job : k # j => out'[k] = out[k]
  BY Sends DEF Event, AgentInv
<1>3. Events(j)'
  <2>1. out[j] \in Seq({"event", "failure", "summary", "refused"}) /\ Events(j)
    BY <1>1 DEF AgentInv, TypeOK, JobOK, Told
  <2>2. out'[j] = Append(out[j], "event") \/ out'[j] = out[j]
    BY Sends DEF Event, AgentInv
  <2> QED BY <2>1, <2>2 DEF Events
<1>4. JobOK(j)'
  <2>1. Placed(j)' /\ Listed(j)' /\ Holds(j)'
    BY <1>1 DEF AgentInv, JobOK, Placed, Listed, Holds, At
  <2>2. Told(j)'
    BY <1>1, <1>3 DEF Told
  <2> QED BY <2>1, <2>2 DEF JobOK
<1> QED BY <1>1, <1>2, <1>4, JobStepOK

(* The run is over.                                                         *)
LEMMA StepRunEnd ==
  ASSUME AgentInv, TypeOK', NEW j \in Job, RunEnd(j)
  PROVE  AgentInv'
<1>1. job[j].pc = "run" /\ UNCHANGED <<main, session, conn, wire, held, asked, late, cancels, out>>
  BY DEF RunEnd, mainVars, sessionVars
<1>2. Moves(j, "report")
  BY MoveOne DEF RunEnd, AgentInv
<1>3. JobOK(j)'
  <2>1. Placed(j)'
    BY <1>1, <1>2 DEF AgentInv, JobOK, Placed, At, Moves
  <2>2. Listed(j)'
    BY <1>1, <1>2 DEF AgentInv, JobOK, Listed, At, Running, Moves
  <2>3. Told(j)'
    BY <1>1, <1>2 DEF AgentInv, JobOK, Told, Events, Moves
  <2>4. Holds(j)'
    BY <1>1, <1>2 DEF AgentInv, JobOK, Holds, At, Running, Moves
  <2> QED BY <2>1, <2>2, <2>3, <2>4 DEF JobOK
<1> QED BY <1>1, <1>2, <1>3, JobStepOK DEF Moves

(* The summary is the last that is heard of a job.                          *)
LEMMA StepReport ==
  ASSUME AgentInv, TypeOK', NEW j \in Job, Report(j)
  PROVE  AgentInv'
<1>1. job[j].pc \in {"report", "reject"} /\ Send(j, "summary")
      /\ UNCHANGED <<main, session, conn, wire, held, asked, late>>
  BY DEF Report, mainVars
<1>2. Moves(j, "done")
  BY MoveOne DEF Report, AgentInv
<1>3. \A s \in Session : cancels'[s] = cancels[s] \ {j}
  BY DEF Report
<1>4. \A k \in Job : k # j => out'[k] = out[k]
  BY <1>1, Sends DEF AgentInv
<1>5. Told(j)'
  <2> DEFINE o == out[j]
  <2>1. o \in Seq({"event", "failure", "summary", "refused"})
        /\ ((\A i \in 1..Len(o) : o[i] = "event") \/ o = <<"failure">>)
    BY <1>1 DEF AgentInv, TypeOK, JobOK, Told, Events
  <2>2. Reaches(j)' = Reaches(j)
    BY <1>1, <1>2 DEF Reaches, At, Moves
  <2>3. CASE ~Reaches(j)
    <3>1. out'[j] = o
      BY <1>1, <2>3, Sends DEF AgentInv
    <3>2. Events(j)' \/ out'[j] = <<"failure">>
      BY <2>1, <3>1 DEF Events
    <3> QED BY <1>2, <2>2, <2>3, <3>2 DEF Told, Moves
  <2>4. CASE Reaches(j)
    <3>1. out'[j] = Append(o, "summary")
      BY <1>1, <2>4, Sends DEF AgentInv
    <3>2. /\ Len(out'[j]) = Len(o) + 1 /\ Len(o) \in Nat /\ out'[j][Len(o) + 1] = "summary"
          /\ \A i \in 1..Len(o) : out'[j][i] = o[i]
      BY <2>1, <3>1
    <3>3. out'[j] # <<>> /\ Len(out'[j]) - 1 = Len(o)
      BY <3>2
    <3>4. \A i \in 1..Len(o) : o[i] = "event" \/ (o[i] = "failure" /\ i + 1 = Len(o) + 1)
      <4>1. CASE o = <<"failure">>
        <5>1. Len(o) = 1 /\ o[1] = "failure"
          BY <4>1
        <5> QED BY <5>1
      <4> QED BY <2>1, <4>1
    <3>5. Summed(j)'
      BY <3>2, <3>3, <3>4 DEF Summed
    <3> QED BY <1>2, <3>5 DEF Told, Moves
  <2> QED BY <2>3, <2>4
<1>6. JobOK(j)'
  <2>1. Placed(j)'
    BY <1>1, <1>2 DEF AgentInv, JobOK, Placed, At, Moves
  <2>2. Listed(j)'
    BY <1>1, <1>2 DEF AgentInv, JobOK, Listed, At, Running, Moves
  <2>3. Holds(j)'
    BY <1>2 DEF Holds, Running, Moves
  <2> QED BY <1>5, <2>1, <2>2, <2>3 DEF JobOK
<1>7. job[j].pc # "sent" /\ job'[j].pc \notin {"none", "sent"}
  BY <1>1, <1>2 DEF Moves
<1> QED BY <1>1, <1>2, <1>3, <1>4, <1>6, <1>7, JobStepOK DEF Moves

-----------------------------------------------------------------------------
(* The theorems *)

LEMMA InitInv == Init => AgentInv
<1> SUFFICES ASSUME Init PROVE AgentInv
  OBVIOUS
<1>1. TypeOK
  BY InitType
<1>2. SessionsOK
  BY AgentAssumption DEF Init, SessionsOK, Session
<1>3. MailOK
  BY DEF Init, MailOK, WireOK, HeldOK, OrderOK, SentOK
<1>4. ASSUME NEW j \in Job PROVE JobOK(j)
  <2>1. job[j].pc = "none" /\ job[j].at = Web /\ out[j] = <<>> /\ asked = {} /\ session = 0
    BY DEF Init
  <2> QED BY <2>1 DEF JobOK, Placed, Listed, Told, Holds, At, Web, Running
<1> QED BY <1>1, <1>2, <1>3, <1>4 DEF AgentInv

(* The invariant is inductive.                                              *)
LEMMA StepInv == AgentInv /\ [Next]_vars => AgentInv'
<1> SUFFICES ASSUME AgentInv, [Next]_vars PROVE AgentInv'
  OBVIOUS
<1>1. TypeOK'
  BY StepType DEF AgentInv
<1>2. CASE UNCHANGED vars
  <2>1. MailOK'
    BY <1>1, <1>2, SameMail DEF vars, mainVars, sessionVars, AgentInv
  <2> QED BY <1>1, <1>2, <2>1, MailStep DEF vars, mainVars, sessionVars
<1>3. CASE MainStep
  BY <1>1, <1>3, StepDial, StepMain, StepSessionEnd DEF MainStep
<1>4. CASE \E s \in Session : SessionStep(s)
  BY <1>1, <1>4, StepRecvError, StepMain, StepRecv, StepHandleCancel, StepHandleJob DEF SessionStep
<1>5. CASE \E j \in Job : Invoke(j) \/ Event(j) \/ JobStep(j)
  BY <1>1, <1>5, StepInvoke, StepEvent, StepResolve, StepRunEnd, StepReport DEF JobStep
<1>6. CASE Environment
  BY <1>1, <1>6, StepSendCancel, StepSendJob, StepLose, StepGone, StepMain DEF Environment
<1> QED BY <1>2, <1>3, <1>4, <1>5, <1>6 DEF Next

(* Every variable of the agent process keeps its type.                      *)
THEOREM AgentTypes == Spec => []TypeOK
BY InitType, StepType, PTL DEF Spec

(* Jobs end with their session (JobsEndWithSession): wg.Wait holds the next *)
(* session back for every job that was started before the session ended.    *)
THEOREM JobsEnd == Spec => []JobsEndWithSession
<1>1. AgentInv => JobsEndWithSession
  <2> SUFFICES ASSUME AgentInv, NEW j \in Job, job[j].pc \in Running, At(j) # Web, At(j) < session
               PROVE  j \in late
    BY DEF JobsEndWithSession
  <2>1. session \in Nat /\ ~(session < session)
    BY SessionIs
  <2> QED BY <2>1 DEF AgentInv, JobOK, Holds
<1> QED BY <1>1, InitInv, StepInv, PTL DEF Spec

(* A cancel that was sent behind its job reaches it if it runs              *)
(* (CancelReachesJob): it is not taken before its job has been handled, and *)
(* the job is listed from then until it has ended. Other cancels, which may *)
(* be anywhere on any stream, do not disturb this.                          *)
THEOREM CancelArrives == Spec => []CancelReachesJob
<1>1. AgentInv => CancelReachesJob
  BY DEF AgentInv, TypeOK, JobOK, Listed, CancelReachesJob
<1> QED BY <1>1, InitInv, StepInv, PTL DEF Spec

(* A job is answered once, by a summary after everything else               *)
(* (AnsweredOnce), whatever breaks.                                         *)
THEOREM OneAnswer == Spec => []AnsweredOnce
<1>1. AgentInv => AnsweredOnce
  <2> SUFFICES ASSUME AgentInv, NEW j \in Job
               PROVE  LET sums == {i \in DOMAIN out[j] : out[j][i] = "summary"}
                      IN  /\ sums \subseteq {Len(out[j])}
                          /\ job[j].pc \in Running => sums = {}
                          /\ job[j].pc = "done" /\ Reaches(j) /\ Alive =>
                               sums # {} \/ out[j] = <<"refused">> \/ (At(j) # Web /\ out[j] = <<>>)
                          /\ \A i \in DOMAIN out[j] : out[j][i] = "failure" /\ i < Len(out[j]) => out[j][i + 1] = "summary"
    BY DEF AnsweredOnce
  <2> DEFINE o == out[j]
             sums == {i \in DOMAIN o : o[i] = "summary"}
  <2>1. o \in Seq({"event", "failure", "summary", "refused"}) /\ Told(j)
    BY DEF AgentInv, TypeOK, JobOK
  <2>2. DOMAIN o = 1..Len(o) /\ Len(o) \in Nat
    BY <2>1
  <2>3. job[j].pc \in Running \cup {"none", "sent", "done"}
    BY DEF AgentInv, TypeOK, Goroutine
  <2>4. CASE Events(j) \/ o \in {<<>>, <<"failure">>, <<"refused">>}
    <3>1. sums = {} /\ \A i \in DOMAIN o : o[i] = "failure" => ~(i < Len(o))
      <4>1. CASE Events(j)
        BY <2>2, <4>1 DEF Events
      <4>2. ASSUME NEW x \in {"failure", "refused"}, o = <<x>>
            PROVE  Len(o) = 1 /\ o[1] # "summary"
        BY <4>2
      <4>3. CASE o \in {<<"failure">>, <<"refused">>}
        <5>1. Len(o) = 1 /\ o[1] # "summary"
          BY <4>2, <4>3
        <5> HIDE DEF o
        <5>2. \A i \in DOMAIN o : i = 1
          BY <2>2, <5>1
        <5> QED BY <5>1, <5>2 DEF sums
      <4>4. CASE o = <<>>
        BY <4>4
      <4> QED BY <2>4, <4>1, <4>3, <4>4
    <3>2. job[j].pc = "done" /\ Reaches(j) => o = <<"refused">> \/ (At(j) # Web /\ o = <<>>)
      <4>1. ~Summed(j)
        BY <2>2, <3>1 DEF Summed
      <4> QED BY <2>1, <4>1 DEF Told
    <3> QED BY <3>1, <3>2
  <2>5. CASE Summed(j)
    <3>1. /\ Len(o) \in DOMAIN o /\ o[Len(o)] = "summary"
          /\ \A i \in DOMAIN o : i # Len(o) => o[i] # "summary"
          /\ \A i \in DOMAIN o : o[i] = "failure" /\ i < Len(o) => i + 1 = Len(o)
      BY <2>1, <2>2, <2>5 DEF Summed
    <3>2. job[j].pc \notin Running
      <4>1. ~Events(j) /\ o \notin {<<>>, <<"failure">>}
        BY <2>2, <3>1 DEF Events
      <4> QED BY <2>1, <4>1 DEF Told, Running
    <3> QED BY <3>1, <3>2
  <2> QED BY <2>1, <2>3, <2>4, <2>5 DEF Told, Running
<1> QED BY <1>1, InitInv, StepInv, PTL DEF Spec
=============================================================================
