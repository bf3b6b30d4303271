----------------------------- MODULE HubProofs -----------------------------
(***************************************************************************)
(* Proofs that IndInv is an invariant of Hub, hence that Hub has the safety *)
(* properties AtMostOneDispatch, InflightWasClaimed, SuccessHasEvidence,    *)
(* ParentAfterChildren and FinalAfterTerminal, moves jobs only forward, and *)
(* implements the abstract life cycle of JobLifecycle.                      *)
(***************************************************************************)
EXTENDS HubInductive, TLAPS

(* The goroutines of Hub are distinct.                                      *)
LEMMA ProcFacts ==
  /\ Sweeper \in Proc
  /\ \A s \in Session : Recv(s) \in Proc /\ Exit(s) \in Proc
  /\ \A s, t \in Session : Recv(s) = Recv(t) => s = t
  /\ \A s, t \in Session : Exit(s) = Exit(t) => s = t
  /\ \A s, t \in Session : Recv(s) # Exit(t) /\ Recv(s) # Sweeper /\ Exit(s) # Sweeper
BY DEF Proc, Recv, Exit, Sweeper

(* A goroutine's jump changes its own frame only.                           *)
LEMMA GotoFacts ==
  ASSUME TypeOK, NEW p \in Proc, NEW pc \in PC, NEW j \in Job \cup {None},
         NEW o \in Outcome \cup {None}, Goto(p, pc, j, o)
  PROVE  /\ proc' \in [Proc -> Frame]
         /\ proc'[p].pc = pc /\ proc'[p].job = j /\ proc'[p].out = o
         /\ \A q \in Proc : q # p => proc'[q] = proc[q]
BY DEF TypeOK, Goto, Frame

(* So does its return to its loop.                                          *)
LEMMA ReturnFacts ==
  ASSUME TypeOK, NEW p \in Proc, Return(p)
  PROVE  /\ proc' \in [Proc -> Frame]
         /\ proc'[p].pc = "idle" /\ proc'[p].job = None /\ proc'[p].out = None
         /\ \A q \in Proc : q # p => proc'[q] = proc[q]
BY DEF TypeOK, Return, Frame, Idle, PC

(* Forgetting a job at its agent keeps the accounting well typed.           *)
LEMMA ClearFacts ==
  ASSUME TypeOK, NEW j \in Job, clearInflight(j)
  PROVE  /\ running' \in [Agent -> SUBSET Job]
         /\ \A a \in Agent : running'[a] \subseteq running[a]
BY DEF TypeOK, clearInflight

-----------------------------------------------------------------------------
(* What steps do to the parts of the state the invariant compares.          *)
StatusGrows ==
  \A j \in Job :
    /\ status[j] # "absent" => status'[j] # "absent"
    /\ ~Waiting(j) => status'[j] \notin {"absent", "queued"}
    /\ terminalJobStatus(status[j]) => terminalJobStatus(status'[j])
SummaryGrows == \A j \in Job : summary[j] # None => summary'[j] = summary[j]
ErrsGrow     == errs' = 0 => errs = 0
OnlyMoves(p) == \A q \in Proc : q # p => proc'[q] = proc[q]

(* The frame of a goroutine that does not move stays good.                  *)
LEMMA OtherFrames ==
  ASSUME IndInv, StatusGrows, SummaryGrows, ErrsGrow,
         NEW q \in Proc, proc'[q] = proc[q]
  PROVE  FrameOK(q)'
<1>1. FrameOK(q) BY DEF IndInv, FramesOK
<1>2. None \notin Outcome BY HubAssumption DEF Outcome
<1>3. \A c \in Job : summary[c] = "succeeded" => summary'[c] = "succeeded"
  BY HubAssumption DEF SummaryGrows
<1>4. ASSUME NEW j \in Job PROVE ChildSucceeded(j) => ChildSucceeded(j)'
  BY <1>3 DEF ChildSucceeded, Children
<1>5. ASSUME NEW j \in Job PROVE ChildrenDone(j) => ChildrenDone(j)'
  BY DEF ChildrenDone, Children, StatusGrows
<1>6. proc[q].job \in Job /\ proc[q].pc = "put" => summary'[proc[q].job] = summary[proc[q].job]
  BY <1>1, <1>2 DEF FrameOK, SummaryGrows
<1>7. QED
  BY <1>1, <1>4, <1>5, <1>6 DEF FrameOK, StatusGrows, ErrsGrow, terminalJobStatus, FanoutPCs, LeafPCs

(* If only goroutine p moves, the frames stay good when p's does.           *)
LEMMA MovingFrame ==
  ASSUME IndInv, StatusGrows, SummaryGrows, ErrsGrow,
         NEW p \in Proc, OnlyMoves(p), FrameOK(p)'
  PROVE  FramesOK'
<1> SUFFICES ASSUME NEW q \in Proc PROVE FrameOK(q)'
  BY DEF FramesOK, Proc, Recv, Exit, Sweeper
<1>1. CASE q = p BY <1>1
<1>2. CASE q # p BY <1>2, OtherFrames DEF OnlyMoves
<1> QED BY <1>1, <1>2

(* The parts about the store hold as long as no status, summary or terminal *)
(* event is written.                                                        *)
LEMMA StoreKept ==
  ASSUME IndInv, UNCHANGED <<status, summary, finals>>, ErrsGrow
  PROVE  /\ StatusGrows /\ SummaryGrows
         /\ TogetherOK' /\ SuccessHasEvidence' /\ ParentAfterChildren' /\ FinalAfterTerminal'
<1>1. StatusGrows /\ SummaryGrows BY DEF StatusGrows, SummaryGrows, Waiting
<1>2. TogetherOK' BY DEF IndInv, TogetherOK
<1>3. SuccessHasEvidence' BY DEF IndInv, SuccessHasEvidence
<1>4. ParentAfterChildren'
  BY DEF IndInv, ParentAfterChildren, ErrsGrow, ChildrenDone
<1>5. FinalAfterTerminal' BY DEF IndInv, FinalAfterTerminal
<1> QED BY <1>1, <1>2, <1>3, <1>4, <1>5

(* The parts about claims and dispatches hold as long as nothing is claimed *)
(* or dispatched.                                                           *)
LEMMA ClaimsKept ==
  ASSUME IndInv, StatusGrows, UNCHANGED dispatches,
         \A s \in Session : sender'[s] = sender[s] \/ sender'[s].pc # "send",
         \A a \in Agent : running'[a] \subseteq running[a]
  PROVE  ClaimsOK' /\ DispatchesOK' /\ InflightWasClaimed'
<1>1. ClaimsOK' BY DEF IndInv, ClaimsOK, StatusGrows, Waiting, HeldBy
<1>2. DispatchesOK' BY DEF IndInv, DispatchesOK, StatusGrows, Waiting
<1>3. InflightWasClaimed'
  BY DEF IndInv, TypeOK, InflightWasClaimed, StatusGrows, Waiting
<1> QED BY <1>1, <1>2, <1>3

(* The part about summaries holds as long as no job is dispatched and no    *)
(* summary is received or recorded.                                         *)
LEMMA SummariesKept ==
  ASSUME IndInv, UNCHANGED <<dispatches, summary>>,
         \A s \in Session : exec'[s] \subseteq exec[s],
         \A q \in Proc : proc'[q] = proc[q] \/ proc'[q].pc # "event"
  PROVE  SummariesOK'
<1> SUFFICES
      /\ \A j \in Job : dispatches[j] = 0 =>
           /\ summary[j] = None
           /\ \A s \in Session : j \notin exec'[s]
           /\ \A p \in Proc : ~Handles(p, j)'
      /\ \A s \in Session : \A j \in exec'[s] :
           /\ summary[j] = None /\ AgentOf[j] # None
           /\ \A t \in Session : j \in exec'[t] => t = s
           /\ \A p \in Proc : ~Handles(p, j)'
      /\ \A p \in Proc : proc'[p].pc = "event" =>
           /\ summary[proc'[p].job] = None
           /\ \A q \in Proc : Handles(q, proc[p].job)' => q = p
  BY DEF SummariesOK, Handles, Proc, Recv, Exit, Sweeper
<1> QED BY DEF IndInv, SummariesOK, Handles

(* A step of goroutine p that writes nothing to the store.                  *)
LEMMA QuietStep ==
  ASSUME IndInv, TypeOK', NEW p \in Proc, OnlyMoves(p), ErrsGrow,
         UNCHANGED <<status, summary, finals, dispatches, sender>>,
         \A a \in Agent : running'[a] \subseteq running[a],
         \A s \in Session : exec'[s] \subseteq exec[s],
         FrameOK(p)', proc'[p].pc # "event", ListsOK'
  PROVE  IndInv'
<1>1. /\ StatusGrows /\ SummaryGrows
      /\ TogetherOK' /\ SuccessHasEvidence' /\ ParentAfterChildren' /\ FinalAfterTerminal'
  BY StoreKept
<1>2. FramesOK' BY <1>1, MovingFrame
<1>3. ClaimsOK' /\ DispatchesOK' /\ InflightWasClaimed' BY <1>1, ClaimsKept
<1>4. SummariesOK' BY SummariesKept DEF OnlyMoves
<1> QED BY <1>1, <1>2, <1>3, <1>4 DEF IndInv

(* The lists of jobs still to look at may shrink.                           *)
LEMMA ListsKept ==
  ASSUME IndInv, StatusGrows, victims' \subseteq victims,
         \A q \in Proc : todo'[q] \subseteq todo[q]
  PROVE  ListsOK'
<1>1. TypeOK /\ ListsOK BY DEF IndInv
<1>2. \A q \in Proc : \A j \in todo'[q] : status'[j] # "absent"
  BY <1>1 DEF TypeOK, ListsOK, StatusGrows
<1>3. \A s \in Session : \A j \in todo'[Exit(s)] : AgentOf[j] # None
  BY <1>1, ProcFacts DEF ListsOK
<1>4. \A c \in victims' : Parent[c] # None /\ status'[c] # "absent"
  BY <1>1 DEF TypeOK, ListsOK, StatusGrows
<1> QED BY <1>2, <1>3, <1>4 DEF ListsOK, Proc, Recv, Exit, Sweeper

(* A step of goroutine p that stores outcome o for job j, or fails to.      *)
LEMMA UpdateStep ==
  ASSUME IndInv, TypeOK', NEW p \in Proc, OnlyMoves(p), ErrsGrow,
         NEW j \in Job, NEW o \in Outcome, status[j] # "absent", MayUpdate(j, o),
         UNCHANGED <<summary, finals, dispatches, sender, exec, running, todo, victims>>,
         o = "succeeded" =>
           IF IsFanout(j) THEN ChildSucceeded(j) ELSE summary[j] = "succeeded",
         errs' = 0 /\ IsFanout(j) => ChildrenDone(j),
         FrameOK(p)', proc'[p].pc # "event"
  PROVE  IndInv'
<1>1. TypeOK BY DEF IndInv
<1>2. /\ \A k \in Job : k # j => status'[k] = status[k]
      /\ status'[j] \in {status[j], o}
  BY <1>1 DEF MayUpdate, UpdateJobStatus, TypeOK
<1>3. StatusGrows BY <1>1, <1>2 DEF StatusGrows, Waiting, Outcome, terminalJobStatus, TypeOK
<1>4. SummaryGrows BY DEF SummaryGrows
<1>5. FramesOK' BY <1>3, <1>4, MovingFrame
<1>6. ListsOK' BY <1>3, ListsKept
<1>7. TogetherOK'
  <2>1. \A k \in Job : status'[k] = "absent" <=> status[k] = "absent"
    BY <1>2 DEF Outcome
  <2> QED BY <2>1, HubAssumption DEF IndInv, TogetherOK
<1>8. ClaimsOK' /\ DispatchesOK' /\ InflightWasClaimed' BY <1>3, ClaimsKept
<1>9. SummariesOK' BY SummariesKept DEF OnlyMoves
<1>10. SuccessHasEvidence'
  BY <1>2 DEF IndInv, SuccessHasEvidence, ChildSucceeded, IsFanout
<1>11. ASSUME NEW k \in Job PROVE ChildrenDone(k) => ChildrenDone(k)'
  BY <1>3 DEF ChildrenDone, Children, StatusGrows
<1>12. ParentAfterChildren'
  <2> SUFFICES ASSUME errs' = 0, NEW k \in Job, IsFanout(k), terminalJobStatus(status'[k])
               PROVE  ChildrenDone(k)'
    BY DEF ParentAfterChildren, IsFanout
  <2>1. CASE k = j BY <2>1, <1>11
  <2>2. CASE k # j
    BY <2>2, <1>2, <1>11 DEF IndInv, ParentAfterChildren, ErrsGrow
  <2> QED BY <2>1, <2>2
<1>13. FinalAfterTerminal'
  BY <1>3 DEF IndInv, FinalAfterTerminal, StatusGrows
<1> QED
  BY <1>5, <1>6, <1>7, <1>8, <1>9, <1>10, <1>12, <1>13 DEF IndInv

-----------------------------------------------------------------------------
(* failJob, completeParentIfDone and emitProgress, in any goroutine.        *)
USE DEF vars, storeVars, hubVars, linkVars, loopVars

(* A failing store call is counted, and the count never goes back.          *)
LEMMA FailsGrow == \A c \in BOOLEAN : TypeOK /\ (Works \/ Fails(c)) => ErrsGrow /\ errs' \in 0..MaxErrors
BY HubAssumption DEF Works, Fails, ErrsGrow, TypeOK

(* failJob forgets the job at its agent.                                    *)
LEMMA FailClearStep ==
  ASSUME IndInv, NEW p \in Proc, FailClear(p) PROVE IndInv'
<1> DEFINE j == proc[p].job
<1>1. TypeOK /\ FrameOK(p) BY DEF IndInv, FramesOK
<1>2. proc[p].pc = "fail" /\ j \in Job /\ status[j] # "absent" /\ AgentOf[j] # None
  BY <1>1 DEF FailClear, FrameOK, LeafPCs
<1>3. /\ proc' \in [Proc -> Frame] /\ OnlyMoves(p)
      /\ proc'[p].pc = "failGet" /\ proc'[p].job = j
  BY <1>1, <1>2, GotoFacts DEF FailClear, PC, OnlyMoves
<1>4. /\ running' \in [Agent -> SUBSET Job]
      /\ \A a \in Agent : running'[a] \subseteq running[a]
  BY <1>1, <1>2, ClearFacts DEF FailClear
<1>5. TypeOK' BY <1>1, <1>3, <1>4 DEF TypeOK, FailClear
<1>6. ErrsGrow BY DEF FailClear, ErrsGrow
<1>7. FrameOK(p)' BY <1>2, <1>3 DEF FrameOK, FailClear, FanoutPCs, LeafPCs
<1>8. ListsOK' BY ListsKept, StoreKept, <1>6 DEF FailClear
<1> QED BY <1>3, <1>4, <1>5, <1>6, <1>7, <1>8, QuietStep DEF FailClear

(* failJob reads the job.                                                   *)
LEMMA FailGetStep ==
  ASSUME IndInv, NEW p \in Proc, FailGet(p) PROVE IndInv'
<1> DEFINE j == proc[p].job
<1>1. TypeOK /\ FrameOK(p) BY DEF IndInv, FramesOK
<1>2. proc[p].pc = "failGet" /\ j \in Job /\ status[j] # "absent"
  BY <1>1 DEF FailGet, FrameOK
<1>3. /\ proc' \in [Proc -> Frame] /\ OnlyMoves(p)
      /\ proc'[p].pc = "idle" \/ (proc'[p].pc = "failPut" /\ proc'[p].job = j)
  BY <1>1, <1>2, GotoFacts, ReturnFacts DEF FailGet, PC, OnlyMoves
<1>4. ErrsGrow /\ errs' \in 0..MaxErrors BY <1>1, FailsGrow DEF FailGet
<1>5. TypeOK' BY <1>1, <1>3, <1>4 DEF TypeOK, FailGet
<1>6. FrameOK(p)'
  BY <1>1, <1>2, <1>3, <1>4 DEF FrameOK, FailGet, FanoutPCs, LeafPCs, ErrsGrow
<1>7. ListsOK' BY ListsKept, StoreKept, <1>4 DEF FailGet
<1> QED BY <1>3, <1>4, <1>5, <1>6, <1>7, QuietStep DEF FailGet

(* failJob stores the failure. While no call has failed it is of a leaf.    *)
LEMMA FailPutStep ==
  ASSUME IndInv, NEW p \in Proc, FailPut(p) PROVE IndInv'
<1> DEFINE j == proc[p].job
<1>1. TypeOK /\ FrameOK(p) BY DEF IndInv, FramesOK
<1>2. proc[p].pc = "failPut" /\ j \in Job /\ status[j] # "absent"
  BY <1>1 DEF FailPut, FrameOK
<1>3. MayUpdate(j, "failed") BY DEF FailPut, MayUpdate
<1>4. /\ proc' \in [Proc -> Frame] /\ OnlyMoves(p)
      /\ \/ proc'[p].pc = "idle"
         \/ /\ Parent[j] # None /\ proc'[p].pc = "parGet" /\ proc'[p].job = Parent[j]
         \/ /\ Parent[j] = None /\ proc'[p].pc = "emit" /\ proc'[p].job = j
            /\ proc'[p].out = "failed" /\ UpdateJobStatus(j, "failed")
  <2>1. CASE Return(p) BY <2>1, <1>1, ReturnFacts DEF OnlyMoves
  <2>2. CASE UpdateJobStatus(j, "failed") /\ Finished(p, j, "failed")
    BY <2>2, <1>1, <1>2, GotoFacts, HubAssumption DEF Finished, PC, OnlyMoves, Outcome
  <2> QED BY <2>1, <2>2 DEF FailPut
<1>5. ErrsGrow /\ errs' \in 0..MaxErrors BY <1>1, FailsGrow DEF FailPut
<1>6. TypeOK'
  BY <1>1, <1>2, <1>3, <1>4, <1>5 DEF TypeOK, FailPut, MayUpdate, UpdateJobStatus, Status, Outcome
<1>7. \A k \in Job : status[k] # "absent" => status'[k] # "absent"
  BY <1>1, <1>2, <1>3, <1>6 DEF TypeOK, MayUpdate, UpdateJobStatus
<1>8. Parent[j] # None => /\ Parent[j] \in Job /\ AgentOf[Parent[j]] = None
                          /\ status'[Parent[j]] # "absent"
  BY <1>2, <1>7, HubAssumption DEF IndInv, TogetherOK
<1>9. FrameOK(p)'
  BY <1>1, <1>2, <1>4, <1>8
  DEF FrameOK, FanoutPCs, LeafPCs, UpdateJobStatus, TypeOK, terminalJobStatus, Outcome
<1>10. errs' = 0 => ~IsFanout(j)
  BY <1>1, <1>2, <1>5 DEF FrameOK, ErrsGrow, IsFanout
<1>11. proc'[p].pc # "event" BY <1>4
<1> QED
  BY <1>2, <1>3, <1>4, <1>5, <1>6, <1>9, <1>10, <1>11, UpdateStep DEF FailPut, Outcome

(* completeParentIfDone reads the parent.                                   *)
LEMMA ParentGetStep ==
  ASSUME IndInv, NEW p \in Proc, ParentGet(p) PROVE IndInv'
<1> DEFINE j == proc[p].job
<1>1. TypeOK /\ FrameOK(p) BY DEF IndInv, FramesOK
<1>2. proc[p].pc = "parGet" /\ j \in Job /\ status[j] # "absent" /\ AgentOf[j] = None
  BY <1>1 DEF ParentGet, FrameOK, FanoutPCs
<1>3. /\ proc' \in [Proc -> Frame] /\ OnlyMoves(p)
      /\ proc'[p].pc = "idle" \/ (proc'[p].pc = "parList" /\ proc'[p].job = j)
  BY <1>1, <1>2, GotoFacts, ReturnFacts DEF ParentGet, PC, OnlyMoves
<1>4. ErrsGrow /\ errs' \in 0..MaxErrors BY <1>1, FailsGrow DEF ParentGet, CtxDone
<1>5. TypeOK' BY <1>1, <1>3, <1>4 DEF TypeOK, ParentGet
<1>6. FrameOK(p)' BY <1>2, <1>3 DEF FrameOK, ParentGet, FanoutPCs, LeafPCs
<1>7. ListsOK' BY ListsKept, StoreKept, <1>4 DEF ParentGet
<1> QED BY <1>3, <1>4, <1>5, <1>6, <1>7, QuietStep DEF ParentGet

(* It lists the children: a success among them is backed by its summary.    *)
LEMMA ParentListStep ==
  ASSUME IndInv, NEW p \in Proc, ParentList(p) PROVE IndInv'
<1> DEFINE j == proc[p].job
<1>1. TypeOK /\ FrameOK(p) BY DEF IndInv, FramesOK
<1>2. proc[p].pc = "parList" /\ j \in Job /\ status[j] # "absent" /\ AgentOf[j] = None
  BY <1>1 DEF ParentList, FrameOK, FanoutPCs
<1>3. Verdict(j) \in Outcome /\ (Verdict(j) = "succeeded" => ChildSucceeded(j))
  <2>1. \A c \in Children(j) : status[c] = "succeeded" => summary[c] = "succeeded"
    BY <1>2, HubAssumption DEF IndInv, SuccessHasEvidence, Children, IsFanout
  <2> QED BY <2>1 DEF Verdict, Outcome, ChildSucceeded
<1>4. /\ proc' \in [Proc -> Frame] /\ OnlyMoves(p)
      /\ \/ proc'[p].pc = "idle"
         \/ /\ proc'[p].pc = "parPut" /\ proc'[p].job = j /\ proc'[p].out = Verdict(j)
            /\ ChildrenDone(j)
  <2>1. CASE Return(p) BY <2>1, <1>1, ReturnFacts DEF OnlyMoves
  <2>2. CASE Goto(p, "parPut", j, Verdict(j)) /\ ChildrenDone(j)
    BY <2>2, <1>1, <1>2, <1>3, GotoFacts DEF PC, OnlyMoves
  <2> QED BY <2>1, <2>2 DEF ParentList
<1>5. ErrsGrow /\ errs' \in 0..MaxErrors BY <1>1, FailsGrow DEF ParentList, CtxDone
<1>6. TypeOK' BY <1>1, <1>4, <1>5 DEF TypeOK, ParentList
<1>7. \A k \in Job : ChildrenDone(k) => ChildrenDone(k)' BY DEF ParentList, ChildrenDone
<1>8. \A k \in Job : ChildSucceeded(k) => ChildSucceeded(k)' BY DEF ParentList, ChildSucceeded
<1>9. FrameOK(p)'
  BY <1>2, <1>3, <1>4, <1>7, <1>8 DEF FrameOK, ParentList, FanoutPCs, LeafPCs
<1>10. ListsOK' BY ListsKept, StoreKept, <1>5 DEF ParentList
<1>11. proc'[p].pc # "event" BY <1>4
<1> QED BY <1>4, <1>5, <1>6, <1>9, <1>10, <1>11, QuietStep DEF ParentList

(* It stores the parent's outcome.                                          *)
LEMMA ParentPutStep ==
  ASSUME IndInv, NEW p \in Proc, ParentPut(p) PROVE IndInv'
<1> DEFINE j == proc[p].job
           o == proc[p].out
<1>1. TypeOK /\ FrameOK(p) BY DEF IndInv, FramesOK
<1>2. /\ proc[p].pc = "parPut" /\ j \in Job /\ status[j] # "absent" /\ AgentOf[j] = None
      /\ o \in Outcome /\ (o = "succeeded" => ChildSucceeded(j))
      /\ errs = 0 => ChildrenDone(j)
  BY <1>1 DEF ParentPut, FrameOK, FanoutPCs
<1>3. MayUpdate(j, o) BY DEF ParentPut, MayUpdate
<1>4. /\ proc' \in [Proc -> Frame] /\ OnlyMoves(p)
      /\ \/ proc'[p].pc = "idle"
         \/ /\ proc'[p].pc = "emit" /\ proc'[p].job = j
            /\ proc'[p].out = o /\ UpdateJobStatus(j, o)
  <2>1. CASE Return(p) BY <2>1, <1>1, ReturnFacts DEF OnlyMoves
  <2>2. CASE UpdateJobStatus(j, o) /\ Goto(p, "emit", j, o)
    BY <2>2, <1>1, <1>2, GotoFacts DEF PC, OnlyMoves
  <2> QED BY <2>1, <2>2 DEF ParentPut
<1>5. ErrsGrow /\ errs' \in 0..MaxErrors BY <1>1, FailsGrow DEF ParentPut, CtxDone
<1>6. TypeOK'
  BY <1>1, <1>2, <1>3, <1>4, <1>5 DEF TypeOK, ParentPut, MayUpdate, UpdateJobStatus, Status, Outcome
<1>7. Parent[j] = None BY <1>2, HubAssumption
<1>8. FrameOK(p)'
  BY <1>1, <1>2, <1>4, <1>7
  DEF FrameOK, FanoutPCs, LeafPCs, UpdateJobStatus, TypeOK, terminalJobStatus, Outcome
<1>9. proc'[p].pc # "event" BY <1>4
<1> QED
  BY <1>2, <1>3, <1>4, <1>5, <1>6, <1>8, <1>9, UpdateStep DEF ParentPut, ErrsGrow, IsFanout

(* The terminal progress event comes after the terminal status.             *)
LEMMA EmitStep ==
  ASSUME IndInv, NEW p \in Proc, Emit(p) PROVE IndInv'
<1> DEFINE j == proc[p].job
<1>1. TypeOK /\ FrameOK(p) BY DEF IndInv, FramesOK
<1>2. /\ proc[p].pc = "emit" /\ j \in Job
      /\ Parent[j] = None /\ terminalJobStatus(status[j])
  BY <1>1 DEF Emit, FrameOK
<1>3. proc' \in [Proc -> Frame] /\ OnlyMoves(p) /\ proc'[p].pc = "idle"
  BY <1>1, ReturnFacts DEF Emit, OnlyMoves
<1>4. ErrsGrow /\ errs' \in 0..MaxErrors BY <1>1, FailsGrow DEF Emit, CtxDone
<1>5. finals' \in [Job -> Nat] /\ \A k \in Job : k # j => finals'[k] = finals[k]
  BY <1>1, <1>2 DEF Emit, TypeOK
<1>6. TypeOK' BY <1>1, <1>3, <1>4, <1>5 DEF TypeOK, Emit
<1>7. StatusGrows /\ SummaryGrows BY DEF StatusGrows, SummaryGrows, Waiting, Emit
<1>8. FrameOK(p)' BY <1>3 DEF FrameOK, FanoutPCs, LeafPCs
<1>9. FramesOK' BY <1>3, <1>4, <1>7, <1>8, MovingFrame
<1>10. ListsOK' BY <1>7, ListsKept DEF Emit
<1>11. ClaimsOK' /\ DispatchesOK' /\ InflightWasClaimed' BY <1>7, ClaimsKept DEF Emit
<1>12. SummariesOK' BY <1>3, SummariesKept DEF OnlyMoves, Emit
<1>13. FinalAfterTerminal'
  BY <1>2, <1>5 DEF IndInv, FinalAfterTerminal, Emit
<1>14. TogetherOK' /\ SuccessHasEvidence'
  BY DEF IndInv, TogetherOK, SuccessHasEvidence, Emit
<1>15. ParentAfterChildren'
  BY <1>4 DEF IndInv, ParentAfterChildren, ChildrenDone, ErrsGrow, Emit
<1> QED
  BY <1>6, <1>9, <1>10, <1>11, <1>12, <1>13, <1>14, <1>15 DEF IndInv

(* A goroutine's steps in failJob, completeParentIfDone and emitProgress.   *)
LEMMA FinishStepStep ==
  ASSUME IndInv, NEW p \in Proc, FinishStep(p) PROVE IndInv'
BY FailClearStep, FailGetStep, FailPutStep, ParentGetStep, ParentListStep, ParentPutStep,
   EmitStep
DEF FinishStep

-----------------------------------------------------------------------------
(* The receive loop.                                                        *)

(* The status of a job is stored with the outcome of its recorded summary.  *)
LEMMA PutResultStep ==
  ASSUME IndInv, NEW s \in Session, PutResult(s) PROVE IndInv'
<1> DEFINE p == Recv(s)
           j == proc[p].job
           o == proc[p].out
<1>0. p \in Proc BY ProcFacts
<1> HIDE DEF p
<1>1. TypeOK /\ FrameOK(p) BY <1>0 DEF IndInv, FramesOK
<1>2. /\ proc[p].pc = "put" /\ j \in Job /\ status[j] # "absent" /\ AgentOf[j] # None
      /\ o \in Outcome /\ summary[j] = o
  BY <1>1 DEF PutResult, FrameOK, LeafPCs, p
<1>3. MayUpdate(j, o) BY DEF PutResult, MayUpdate, p
<1>4. /\ proc' \in [Proc -> Frame] /\ OnlyMoves(p)
      /\ \/ proc'[p].pc = "idle"
         \/ /\ Parent[j] # None /\ proc'[p].pc = "parGet" /\ proc'[p].job = Parent[j]
         \/ /\ Parent[j] = None /\ proc'[p].pc = "emit" /\ proc'[p].job = j
            /\ proc'[p].out = o /\ UpdateJobStatus(j, o)
  <2>1. CASE Return(p) BY <2>1, <1>0, <1>1, ReturnFacts DEF OnlyMoves
  <2>2. CASE UpdateJobStatus(j, o) /\ Finished(p, j, o)
    BY <2>2, <1>0, <1>1, <1>2, GotoFacts, HubAssumption DEF Finished, PC, OnlyMoves
  <2> QED BY <2>1, <2>2 DEF PutResult, p
<1>5. ErrsGrow /\ errs' \in 0..MaxErrors BY <1>1, FailsGrow DEF PutResult, CtxDone
<1>6. UNCHANGED <<summary, finals, hubVars, linkVars, loopVars, crashes>> BY DEF PutResult
<1>7. TypeOK'
  BY <1>1, <1>2, <1>3, <1>4, <1>5, <1>6 DEF TypeOK, MayUpdate, UpdateJobStatus, Status, Outcome
<1>8. \A k \in Job : status[k] # "absent" => status'[k] # "absent"
  BY <1>1, <1>2, <1>3 DEF TypeOK, MayUpdate, UpdateJobStatus, Outcome
<1>9. Parent[j] # None => /\ Parent[j] \in Job /\ AgentOf[Parent[j]] = None
                          /\ status'[Parent[j]] # "absent"
  BY <1>2, <1>8, HubAssumption DEF IndInv, TogetherOK
<1>10. FrameOK(p)'
  BY <1>1, <1>2, <1>4, <1>9
  DEF FrameOK, FanoutPCs, LeafPCs, UpdateJobStatus, TypeOK, terminalJobStatus, Outcome
<1>11. proc'[p].pc # "event" BY <1>4
<1>12. o = "succeeded" => IF IsFanout(j) THEN ChildSucceeded(j) ELSE summary[j] = "succeeded"
  BY <1>2 DEF IsFanout
<1>13. errs' = 0 /\ IsFanout(j) => ChildrenDone(j) BY <1>2 DEF IsFanout
<1> QED
  BY <1>0, <1>2, <1>3, <1>4, <1>5, <1>6, <1>7, <1>10, <1>11, <1>12, <1>13, UpdateStep

(* A summary is received: from the one stream its job was sent on.          *)
LEMMA ReceiveResultStep ==
  ASSUME IndInv, NEW s \in Session, NEW j \in Job, NEW o \in Outcome, ReceiveResult(s, j, o)
  PROVE  IndInv'
<1> DEFINE p == Recv(s)
<1>0. p \in Proc BY ProcFacts
<1> HIDE DEF p
<1>1. TypeOK BY DEF IndInv
<1>2. /\ proc[p].pc = "idle" /\ j \in exec[s]
      /\ \A t \in Session : exec'[t] = IF t = s THEN exec[s] \ {j} ELSE exec[t]
      /\ exec' \in [Session -> SUBSET Job]
      /\ UNCHANGED <<storeVars, hubVars, link, sender, dispatches, loopVars, errs, crashes>>
  BY <1>1 DEF ReceiveResult, TypeOK, p
<1>3. /\ summary[j] = None /\ AgentOf[j] # None
      /\ \A t \in Session : j \in exec[t] => t = s
      /\ \A q \in Proc : ~Handles(q, j)
      /\ dispatches[j] # 0
  BY <1>2 DEF IndInv, SummariesOK
<1>4. status[j] # "absent"
  BY <1>1, <1>3 DEF IndInv, DispatchesOK, Waiting, TypeOK
<1>5. /\ proc' \in [Proc -> Frame] /\ OnlyMoves(p)
      /\ proc'[p].pc = "idle" \/ (proc'[p].pc = "event" /\ proc'[p].job = j /\ proc'[p].out = o)
  <2>1. CASE UNCHANGED proc BY <2>1, <1>1, <1>2 DEF OnlyMoves, TypeOK
  <2>2. CASE Goto(p, "event", j, o) BY <2>2, <1>0, <1>1, GotoFacts DEF PC, OnlyMoves
  <2> QED BY <2>1, <2>2 DEF ReceiveResult, p
<1>6. ErrsGrow BY <1>2 DEF ErrsGrow
<1>7. /\ StatusGrows /\ SummaryGrows
      /\ TogetherOK' /\ SuccessHasEvidence' /\ ParentAfterChildren' /\ FinalAfterTerminal'
  BY <1>2, <1>6, StoreKept
<1>8. TypeOK' BY <1>1, <1>2, <1>5 DEF TypeOK
<1>9. FrameOK(p)'
  BY <1>2, <1>3, <1>4, <1>5 DEF FrameOK, FanoutPCs, LeafPCs
<1>10. FramesOK' BY <1>0, <1>5, <1>6, <1>7, <1>9, MovingFrame
<1>11. ListsOK' BY <1>2, <1>7, ListsKept
<1>12. ClaimsOK' /\ DispatchesOK' /\ InflightWasClaimed' BY <1>2, <1>7, ClaimsKept
<1>13. SummariesOK'
  <2>1. \A q \in Proc, k \in Job : (proc'[q].pc = "event" /\ proc'[q].job = k) =>
             Handles(q, k) \/ (q = p /\ k = j)
    BY <1>0, <1>5 DEF Handles, OnlyMoves
  <2>2. \A q \in Proc : proc'[q].pc = "event" => proc'[q].job \in Job
    BY <1>10 DEF FramesOK, FrameOK
  <2>3. SummariesOK BY DEF IndInv
  <2>4. \A k \in Job : dispatches'[k] = 0 =>
          /\ summary'[k] = None
          /\ \A t \in Session : k \notin exec'[t]
          /\ \A q \in Proc : ~(proc'[q].pc = "event" /\ proc'[q].job = k)
    BY <1>2, <1>3, <2>1, <2>3 DEF SummariesOK
  <2>5. \A t \in Session : \A k \in exec'[t] :
          /\ summary'[k] = None /\ AgentOf[k] # None
          /\ \A u \in Session : k \in exec'[u] => u = t
          /\ \A q \in Proc : ~(proc'[q].pc = "event" /\ proc'[q].job = k)
    <3>1. \A t \in Session : \A k \in exec'[t] : k \in Job /\ k # j /\ k \in exec[t]
      BY <1>2, <1>3
    <3>2. \A t \in Session : exec'[t] \subseteq exec[t] BY <1>2
    <3> QED BY <1>2, <3>1, <3>2, <2>1, <2>3 DEF SummariesOK
  <2>6. \A q \in Proc : proc'[q].pc = "event" =>
          /\ summary'[proc'[q].job] = None
          /\ \A r \in Proc : proc'[r].pc = "event" /\ proc'[r].job = proc'[q].job => r = q
    BY <1>2, <1>3, <2>1, <2>2, <2>3 DEF SummariesOK, Handles
  <2> QED BY <2>4, <2>5, <2>6 DEF SummariesOK, Handles, Proc, Recv, Exit, Sweeper
<1> QED BY <1>7, <1>8, <1>10, <1>11, <1>12, <1>13 DEF IndInv

(* A summary is recorded: the first and only one of its job.                *)
LEMMA RecordEventStep ==
  ASSUME IndInv, NEW s \in Session, RecordEvent(s) PROVE IndInv'
<1> DEFINE p == Recv(s)
           j == proc[p].job
           o == proc[p].out
<1>0. p \in Proc BY ProcFacts
<1> HIDE DEF p
<1>1. TypeOK /\ FrameOK(p) BY <1>0 DEF IndInv, FramesOK
<1>2. /\ proc[p].pc = "event" /\ j \in Job /\ status[j] # "absent" /\ AgentOf[j] # None
      /\ o \in Outcome
  BY <1>1 DEF RecordEvent, FrameOK, LeafPCs, p
<1>3. UNCHANGED <<status, age, finals, cancelTo, cancels, linkVars, loopVars, crashes>>
  BY DEF RecordEvent
<1>4. summary' \in {summary, [summary EXCEPT ![j] = o]} BY DEF RecordEvent, p
<1>5. /\ proc' \in [Proc -> Frame] /\ OnlyMoves(p)
      /\ \/ proc'[p].pc = "idle"
         \/ /\ proc'[p].pc = "put" /\ proc'[p].job = j /\ proc'[p].out = o
            /\ summary' = [summary EXCEPT ![j] = o]
  <2>1. CASE Return(p) BY <2>1, <1>0, <1>1, ReturnFacts DEF OnlyMoves
  <2>2. CASE Goto(p, "put", j, o) /\ summary' = [summary EXCEPT ![j] = o]
    BY <2>2, <1>0, <1>1, <1>2, GotoFacts DEF PC, OnlyMoves
  <2> QED BY <2>1, <2>2 DEF RecordEvent, p
<1>6. running' \in [Agent -> SUBSET Job] /\ \A a \in Agent : running'[a] \subseteq running[a]
  <2>1. CASE clearInflight(j) BY <2>1, <1>1, <1>2, ClearFacts
  <2>2. CASE UNCHANGED running BY <2>2, <1>1 DEF TypeOK
  <2> QED BY <2>1, <2>2 DEF RecordEvent, p
<1>7. ErrsGrow /\ errs' \in 0..MaxErrors BY <1>1, FailsGrow DEF RecordEvent, CtxDone
<1>8. /\ summary[j] = None /\ dispatches[j] # 0
      /\ \A t \in Session : j \notin exec[t]
      /\ \A q \in Proc : Handles(q, j) => q = p
  BY <1>0, <1>1, <1>2 DEF IndInv, SummariesOK, Handles, TypeOK
<1>9. /\ summary' \in [Job -> Outcome \cup {None}]
      /\ \A k \in Job : k # j => summary'[k] = summary[k]
  BY <1>1, <1>2, <1>4 DEF TypeOK
<1>10. TypeOK' BY <1>1, <1>3, <1>5, <1>6, <1>7, <1>9 DEF TypeOK
<1>11. StatusGrows /\ SummaryGrows
  BY <1>3, <1>8, <1>9 DEF StatusGrows, SummaryGrows, Waiting
<1>12. FrameOK(p)'
  BY <1>1, <1>2, <1>3, <1>5 DEF FrameOK, FanoutPCs, LeafPCs, TypeOK
<1>13. FramesOK' BY <1>0, <1>5, <1>7, <1>11, <1>12, MovingFrame
<1>14. ListsOK' BY <1>3, <1>11, ListsKept
<1>15. ClaimsOK' /\ DispatchesOK' /\ InflightWasClaimed' BY <1>3, <1>6, <1>11, ClaimsKept
<1>16. SummariesOK'
  <2> DEFINE Busy(q, k) == proc'[q].pc = "event" /\ proc'[q].job = k
  <2>1. \A q \in Proc, k \in Job : Busy(q, k) => Handles(q, k) /\ k # j
    BY <1>0, <1>5, <1>8 DEF Handles, OnlyMoves
  <2>2. \A q \in Proc : proc'[q].pc = "event" => proc'[q].job \in Job
    BY <1>13 DEF FramesOK, FrameOK
  <2>3. SummariesOK BY DEF IndInv
  <2>4. \A k \in Job : dispatches'[k] = 0 =>
          /\ summary'[k] = None
          /\ \A t \in Session : k \notin exec'[t]
          /\ \A q \in Proc : ~Busy(q, k)
    BY <1>3, <1>8, <1>9, <2>1, <2>3 DEF SummariesOK
  <2>5. \A t \in Session : \A k \in exec'[t] :
          /\ summary'[k] = None /\ AgentOf[k] # None
          /\ \A u \in Session : k \in exec'[u] => u = t
          /\ \A q \in Proc : ~Busy(q, k)
    <3>1. \A t \in Session : \A k \in exec[t] : k \in Job /\ k # j
      BY <1>1, <1>8 DEF TypeOK
    <3> QED BY <1>3, <1>9, <2>1, <2>3, <3>1 DEF SummariesOK
  <2>6. \A q \in Proc : proc'[q].pc = "event" =>
          /\ summary'[proc'[q].job] = None
          /\ \A r \in Proc : Busy(r, proc'[q].job) => r = q
    BY <1>9, <2>1, <2>2, <2>3 DEF SummariesOK, Handles
  <2> QED BY <2>4, <2>5, <2>6 DEF SummariesOK, Handles, Proc, Recv, Exit, Sweeper
<1>17. SuccessHasEvidence'
  <2>1. \A k \in Job : summary[k] = "succeeded" => summary'[k] = "succeeded"
    BY <1>11, HubAssumption DEF SummaryGrows
  <2> QED BY <1>3, <2>1 DEF IndInv, SuccessHasEvidence, Children
<1>18. TogetherOK' /\ FinalAfterTerminal' BY <1>3 DEF IndInv, TogetherOK, FinalAfterTerminal
<1>19. ParentAfterChildren'
  BY <1>3, <1>7 DEF IndInv, ParentAfterChildren, ChildrenDone, ErrsGrow
<1> QED
  BY <1>10, <1>13, <1>14, <1>15, <1>16, <1>17, <1>18, <1>19 DEF IndInv

(* A receive loop's steps.                                                  *)
LEMMA RecvStepStep ==
  ASSUME IndInv, NEW s \in Session, RecvStep(s) PROVE IndInv'
BY RecordEventStep, PutResultStep, FinishStepStep, ProcFacts DEF RecvStep

-----------------------------------------------------------------------------
(* Steps that neither store anything nor move a finishing goroutine.        *)

(* Such a step keeps the invariant if it dispatches nothing.                *)
LEMMA LinkStep ==
  ASSUME IndInv, TypeOK',
         UNCHANGED <<status, summary, finals, dispatches, proc, todo, victims, errs>>,
         \A s \in Session : sender'[s] = sender[s] \/ sender'[s].pc # "send",
         \A s \in Session : exec'[s] \subseteq exec[s],
         UNCHANGED running
  PROVE  IndInv'
<1>1. ErrsGrow BY DEF ErrsGrow
<1>2. /\ StatusGrows /\ SummaryGrows
      /\ TogetherOK' /\ SuccessHasEvidence' /\ ParentAfterChildren' /\ FinalAfterTerminal'
  BY <1>1, StoreKept
<1>3. OnlyMoves(Sweeper) /\ FrameOK(Sweeper)'
  BY <1>1, <1>2, OtherFrames, ProcFacts DEF OnlyMoves
<1>4. FramesOK' BY <1>1, <1>2, <1>3, MovingFrame, ProcFacts
<1>5. ListsOK' BY <1>2, ListsKept
<1>6. ClaimsOK' /\ DispatchesOK' /\ InflightWasClaimed' BY <1>2, ClaimsKept
<1>7. SummariesOK' BY SummariesKept
<1> QED BY <1>2, <1>4, <1>5, <1>6, <1>7 DEF IndInv

(* Time passes.                                                             *)
LEMMA AgeingStep ==
  ASSUME IndInv, NEW j \in Job, Ageing(j) PROVE IndInv'
<1>1. TypeOK BY DEF IndInv
<1>2. age' \in [Job -> 0..2] BY <1>1 DEF Ageing, TypeOK
<1>3. TypeOK' BY <1>1, <1>2 DEF Ageing, TypeOK
<1> QED BY <1>3, LinkStep DEF Ageing

(* A stream is opened.                                                      *)
LEMMA ConnectStep ==
  ASSUME IndInv, NEW s \in Session, Connect(s) PROVE IndInv'
<1>1. TypeOK BY DEF IndInv
<1>2. /\ sender' \in [Session -> Sender]
      /\ \A t \in Session : sender'[t] = sender[t] \/ sender'[t].pc # "send"
  BY <1>1 DEF Connect, TypeOK, Sender, Stopped
<1>3. cancelTo' \in [Agent -> Session \cup {None}]
  BY <1>1, HubAssumption DEF Connect, TypeOK
<1>4. link' \in [Session -> {"new", "up", "down", "closing", "closed"}]
  BY <1>1 DEF Connect, TypeOK
<1>5. TypeOK' BY <1>1, <1>2, <1>3, <1>4 DEF Connect, TypeOK
<1> QED BY <1>2, <1>5, LinkStep DEF Connect

(* A stream breaks.                                                         *)
LEMMA BreakStep ==
  ASSUME IndInv, NEW s \in Session, Break(s) PROVE IndInv'
<1>1. TypeOK BY DEF IndInv
<1>2. exec' \in [Session -> SUBSET Job] /\ \A t \in Session : exec'[t] \subseteq exec[t]
  BY <1>1 DEF Break, TypeOK
<1>3. link' \in [Session -> {"new", "up", "down", "closing", "closed"}]
  BY <1>1 DEF Break, TypeOK
<1>4. TypeOK' BY <1>1, <1>2, <1>3 DEF Break, TypeOK
<1> QED BY <1>2, <1>4, LinkStep DEF Break

(* A send loop lists queued jobs.                                           *)
LEMMA SendTickStep ==
  ASSUME IndInv, NEW s \in Session, SendTick(s) PROVE IndInv'
<1>1. TypeOK BY DEF IndInv
<1>2. PICK batch \in SUBSET Job :
        sender' = [sender EXCEPT ![s] = [pc |-> "claim", batch |-> batch, job |-> None]]
  BY DEF SendTick
<1>3. /\ sender' \in [Session -> Sender]
      /\ \A t \in Session : sender'[t] = sender[t] \/ sender'[t].pc # "send"
  BY <1>1, <1>2 DEF TypeOK, Sender
<1>4. TypeOK' BY <1>1, <1>3 DEF SendTick, TypeOK
<1> QED BY <1>3, <1>4, LinkStep DEF SendTick

(* A send loop forwards a cancel.                                           *)
LEMMA SendCancelStep ==
  ASSUME IndInv, NEW s \in Session, NEW j \in Job, SendCancel(s, j) PROVE IndInv'
<1>1. TypeOK BY DEF IndInv
<1>2. /\ sender' \in [Session -> Sender]
      /\ \A t \in Session : sender'[t] = sender[t] \/ sender'[t].pc # "send"
  BY <1>1 DEF SendCancel, TypeOK, Sender, Stopped
<1>3. exec' \in [Session -> SUBSET Job] /\ \A t \in Session : exec'[t] \subseteq exec[t]
  BY <1>1 DEF SendCancel, TypeOK
<1>4. cancels' \in [Session -> SUBSET Job] BY <1>1 DEF SendCancel, TypeOK
<1>5. TypeOK' BY <1>1, <1>2, <1>3, <1>4 DEF SendCancel, TypeOK
<1> QED BY <1>2, <1>3, <1>5, LinkStep DEF SendCancel

(* A send loop ends.                                                        *)
LEMMA SendDoneStep ==
  ASSUME IndInv, NEW s \in Session, SendDone(s) PROVE IndInv'
<1>1. TypeOK BY DEF IndInv
<1>2. /\ sender' \in [Session -> Sender]
      /\ \A t \in Session : sender'[t] = sender[t] \/ sender'[t].pc # "send"
  BY <1>1 DEF SendDone, TypeOK, Sender, Stopped
<1>3. TypeOK' BY <1>1, <1>2 DEF SendDone, TypeOK
<1> QED BY <1>2, <1>3, LinkStep DEF SendDone

(* A result is lost.                                                        *)
LEMMA LoseResultStep ==
  ASSUME IndInv, NEW s \in Session, NEW j \in Job, LoseResult(s, j) PROVE IndInv'
<1>1. TypeOK BY DEF IndInv
<1>2. exec' \in [Session -> SUBSET Job] /\ \A t \in Session : exec'[t] \subseteq exec[t]
  BY <1>1 DEF LoseResult, TypeOK
<1>3. TypeOK' BY <1>1, <1>2 DEF LoseResult, TypeOK
<1> QED BY <1>2, <1>3, LinkStep DEF LoseResult

(* A session is over.                                                       *)
LEMMA CloseDoneStep ==
  ASSUME IndInv, NEW s \in Session, CloseDone(s) PROVE IndInv'
<1>1. TypeOK BY DEF IndInv
<1>2. link' \in [Session -> {"new", "up", "down", "closing", "closed"}]
  BY <1>1 DEF CloseDone, TypeOK
<1>3. TypeOK' BY <1>1, <1>2 DEF CloseDone, TypeOK
<1> QED BY <1>3, LinkStep DEF CloseDone

-----------------------------------------------------------------------------
(* The clean-up of a session.                                               *)

(* It lists the jobs in flight: they were claimed, hence exist.             *)
LEMMA CloseSessionStep ==
  ASSUME IndInv, NEW s \in Session, CloseSession(s) PROVE IndInv'
<1> DEFINE p == Exit(s)
<1>0. p \in Proc BY ProcFacts
<1> HIDE DEF p
<1>1. TypeOK BY DEF IndInv
<1>2. proc' \in [Proc -> Frame] /\ OnlyMoves(p) /\ proc'[p].pc = "drop"
  BY <1>0, <1>1, GotoFacts DEF CloseSession, PC, OnlyMoves, p
<1>3. exec' \in [Session -> SUBSET Job] /\ \A t \in Session : exec'[t] \subseteq exec[t]
  BY <1>1 DEF CloseSession, TypeOK
<1>4. link' \in [Session -> {"new", "up", "down", "closing", "closed"}]
  BY <1>1 DEF CloseSession, TypeOK
<1>5. running[SessionAgent[s]] \subseteq Job BY <1>1, HubAssumption DEF TypeOK
<1>6. /\ todo' \in [Proc -> SUBSET Job] /\ todo'[p] = running[SessionAgent[s]]
      /\ \A q \in Proc : q # p => todo'[q] = todo[q]
  BY <1>0, <1>1, <1>5 DEF CloseSession, TypeOK, p
<1>7. TypeOK' BY <1>1, <1>2, <1>3, <1>4, <1>6 DEF CloseSession, TypeOK
<1>8. FrameOK(p)' BY <1>2 DEF FrameOK, FanoutPCs, LeafPCs
<1>9. \A j \in running[SessionAgent[s]] : AgentOf[j] # None /\ status[j] # "absent"
  BY HubAssumption DEF IndInv, InflightWasClaimed
<1>10. ListsOK'
  <2>1. ListsOK BY DEF IndInv
  <2>2. UNCHANGED <<status, victims>> BY DEF CloseSession
  <2>3. \A q \in Proc : \A j \in todo'[q] : status'[j] # "absent"
    BY <1>6, <1>9, <2>1, <2>2 DEF ListsOK
  <2>4. \A t \in Session : \A j \in todo'[Exit(t)] : AgentOf[j] # None
    BY <1>6, <1>9, <2>1, ProcFacts DEF ListsOK, p
  <2> QED BY <2>1, <2>2, <2>3, <2>4 DEF ListsOK, Proc, Recv, Exit, Sweeper
<1>11. ErrsGrow BY DEF CloseSession, ErrsGrow
<1> QED BY <1>0, <1>2, <1>3, <1>7, <1>8, <1>10, <1>11, QuietStep DEF CloseSession

(* It deletes what the hub holds under the agent's id.                      *)
LEMMA DropSessionStep ==
  ASSUME IndInv, NEW s \in Session, DropSession(s) PROVE IndInv'
<1> DEFINE p == Exit(s)
<1>0. p \in Proc BY ProcFacts
<1> HIDE DEF p
<1>1. TypeOK BY DEF IndInv
<1>2. proc' \in [Proc -> Frame] /\ OnlyMoves(p) /\ proc'[p].pc = "idle"
  BY <1>0, <1>1, ReturnFacts DEF DropSession, OnlyMoves, p
<1>3. running' \in [Agent -> SUBSET Job] /\ \A a \in Agent : running'[a] \subseteq running[a]
  BY <1>1 DEF DropSession, TypeOK
<1>4. cancelTo' \in [Agent -> Session \cup {None}] BY <1>1 DEF DropSession, TypeOK
<1>5. TypeOK' BY <1>1, <1>2, <1>3, <1>4 DEF DropSession, TypeOK
<1>6. FrameOK(p)' BY <1>2 DEF FrameOK, FanoutPCs, LeafPCs
<1>7. ErrsGrow BY DEF DropSession, ErrsGrow
<1>8. ListsOK' BY <1>7, ListsKept, StoreKept DEF DropSession
<1> QED BY <1>0, <1>2, <1>3, <1>5, <1>6, <1>7, <1>8, QuietStep DEF DropSession

(* It goes on to fail a job.                                                *)
LEMMA FailDisconnectedStep ==
  ASSUME IndInv, NEW s \in Session, NEW j \in Job, FailDisconnected(s, j) PROVE IndInv'
<1> DEFINE p == Exit(s)
<1>0. p \in Proc BY ProcFacts
<1> HIDE DEF p
<1>1. TypeOK BY DEF IndInv
<1>2. /\ proc' \in [Proc -> Frame] /\ OnlyMoves(p)
      /\ proc'[p].pc = "fail" /\ proc'[p].job = j
  BY <1>0, <1>1, GotoFacts DEF FailDisconnected, PC, OnlyMoves, p
<1>3. todo' \in [Proc -> SUBSET Job] /\ \A q \in Proc : todo'[q] \subseteq todo[q]
  BY <1>1 DEF FailDisconnected, TypeOK
<1>4. status[j] # "absent" /\ AgentOf[j] # None
  BY <1>0 DEF FailDisconnected, IndInv, ListsOK, p
<1>5. TypeOK' BY <1>1, <1>2, <1>3 DEF FailDisconnected, TypeOK
<1>6. FrameOK(p)' BY <1>2, <1>4 DEF FailDisconnected, FrameOK, FanoutPCs, LeafPCs
<1>7. ErrsGrow BY DEF FailDisconnected, ErrsGrow
<1>8. ListsOK' BY <1>3, <1>7, ListsKept, StoreKept DEF FailDisconnected
<1> QED BY <1>0, <1>2, <1>5, <1>6, <1>7, <1>8, QuietStep DEF FailDisconnected

(* The clean-up's steps.                                                    *)
LEMMA ExitStepStep ==
  ASSUME IndInv, NEW s \in Session, ExitStep(s) PROVE IndInv'
BY CloseSessionStep, DropSessionStep, FailDisconnectedStep, CloseDoneStep, FinishStepStep,
   ProcFacts
DEF ExitStep

-----------------------------------------------------------------------------
(* The timeout sweep.                                                       *)

(* A snapshot of active jobs is a set of jobs that exist.                   *)
LEMMA SweepBeginStep ==
  ASSUME IndInv, SweepBegin PROVE IndInv'
<1>1. TypeOK BY DEF IndInv
<1>2. PICK listed \in SUBSET {j \in Job : Active(j)} :
        todo' = [todo EXCEPT ![Sweeper] = {j \in listed : IsFanout(j) \/ age[j] > 0}]
  BY DEF SweepBegin, OldestOf
<1>3. /\ todo' \in [Proc -> SUBSET Job] /\ \A j \in todo'[Sweeper] : status[j] # "absent"
      /\ \A q \in Proc : q # Sweeper => todo'[q] = todo[q]
  BY <1>1, <1>2, ProcFacts DEF TypeOK, Active
<1>4. seen' \in [Job -> 0..2] BY <1>1 DEF SweepBegin, TypeOK
<1>5. TypeOK' BY <1>1, <1>3, <1>4 DEF SweepBegin, TypeOK
<1>6. ErrsGrow BY DEF SweepBegin, ErrsGrow
<1>7. StatusGrows /\ SummaryGrows BY <1>6, StoreKept DEF SweepBegin
<1>8. FrameOK(Sweeper)' BY <1>6, <1>7, OtherFrames, ProcFacts DEF SweepBegin
<1>9. ListsOK'
  <2>1. ListsOK BY DEF IndInv
  <2>2. UNCHANGED <<status, victims>> BY DEF SweepBegin
  <2>3. \A q \in Proc : \A j \in todo'[q] : status'[j] # "absent"
    BY <1>3, <2>1, <2>2 DEF ListsOK
  <2>4. \A t \in Session : \A j \in todo'[Exit(t)] : AgentOf[j] # None
    BY <1>3, <2>1, ProcFacts DEF ListsOK
  <2> QED BY <2>1, <2>2, <2>3, <2>4 DEF ListsOK, Proc, Recv, Exit, Sweeper
<1>10. OnlyMoves(Sweeper) /\ proc'[Sweeper].pc # "event" BY DEF SweepBegin, OnlyMoves
<1> QED BY <1>5, <1>6, <1>8, <1>9, <1>10, QuietStep, ProcFacts DEF SweepBegin

(* The sweep takes the next job of its snapshot.                            *)
LEMMA SweepNextStep ==
  ASSUME IndInv, NEW j \in Job, SweepNext(j) PROVE IndInv'
<1> DEFINE p == Sweeper
<1>0. p \in Proc BY ProcFacts
<1> HIDE DEF p
<1>1. TypeOK BY DEF IndInv
<1>2. /\ proc' \in [Proc -> Frame] /\ OnlyMoves(p)
      /\ proc'[p].pc = (IF IsFanout(j) THEN "defer" ELSE "fail") /\ proc'[p].job = j
  BY <1>0, <1>1, GotoFacts DEF SweepNext, PC, OnlyMoves, p
<1>3. todo' \in [Proc -> SUBSET Job] /\ \A q \in Proc : todo'[q] \subseteq todo[q]
  BY <1>1 DEF SweepNext, TypeOK
<1>4. status[j] # "absent" BY <1>0 DEF SweepNext, IndInv, ListsOK, p
<1>5. TypeOK' BY <1>1, <1>2, <1>3 DEF SweepNext, TypeOK
<1>6. FrameOK(p)' BY <1>2, <1>4 DEF SweepNext, FrameOK, FanoutPCs, LeafPCs, IsFanout
<1>7. ErrsGrow BY DEF SweepNext, ErrsGrow
<1>8. ListsOK' BY <1>3, <1>7, ListsKept, StoreKept DEF SweepNext
<1> QED BY <1>0, <1>2, <1>5, <1>6, <1>7, <1>8, QuietStep DEF SweepNext

(* It decides about a fan-out parent.                                       *)
LEMMA SweepDeferStep ==
  ASSUME IndInv, SweepDefer PROVE IndInv'
<1> DEFINE p == Sweeper
           j == proc[p].job
<1>0. p \in Proc BY ProcFacts
<1> HIDE DEF p
<1>1. TypeOK /\ FrameOK(p) BY <1>0 DEF IndInv, FramesOK
<1>2. proc[p].pc = "defer" /\ j \in Job /\ status[j] # "absent" /\ AgentOf[j] = None
  BY <1>1 DEF SweepDefer, FrameOK, FanoutPCs, p
<1>3. /\ proc' \in [Proc -> Frame] /\ OnlyMoves(p)
      /\ proc'[p].pc = "idle" \/ (proc'[p].pc \in {"kids", "parGet"} /\ proc'[p].job = j)
  <2>1. CASE Return(p) BY <2>1, <1>0, <1>1, ReturnFacts DEF OnlyMoves
  <2>2. CASE Goto(p, "kids", j, None) BY <2>2, <1>0, <1>1, <1>2, GotoFacts DEF PC, OnlyMoves
  <2>3. CASE Goto(p, "parGet", j, None) BY <2>3, <1>0, <1>1, <1>2, GotoFacts DEF PC, OnlyMoves
  <2> QED BY <2>1, <2>2, <2>3 DEF SweepDefer, p
<1>4. ErrsGrow /\ errs' \in 0..MaxErrors BY <1>1, FailsGrow DEF SweepDefer
<1>5. seen' \in [Job -> 0..2]
  <2>1. seen' = [seen EXCEPT ![j] = 0] BY DEF SweepDefer, p
  <2>2. seen \in [Job -> 0..2] BY <1>1 DEF TypeOK
  <2> HIDE DEF j
  <2> QED BY <2>1, <2>2, <1>2
<1>6. TypeOK' BY <1>1, <1>3, <1>4, <1>5 DEF SweepDefer, TypeOK
<1>7. FrameOK(p)' BY <1>2, <1>3 DEF SweepDefer, FrameOK, FanoutPCs, LeafPCs
<1>8. ListsOK' BY <1>4, ListsKept, StoreKept DEF SweepDefer
<1>9. proc'[p].pc # "event" BY <1>3
<1> QED BY <1>0, <1>3, <1>4, <1>6, <1>7, <1>8, <1>9, QuietStep DEF SweepDefer

(* It lists the children to time out, or fails to.                          *)
LEMMA SweepKidsStep ==
  ASSUME IndInv, SweepKids PROVE IndInv'
<1> DEFINE p == Sweeper
           j == proc[p].job
<1>0. p \in Proc BY ProcFacts
<1> HIDE DEF p
<1>1. TypeOK /\ FrameOK(p) BY <1>0 DEF IndInv, FramesOK
<1>2. proc[p].pc = "kids" /\ j \in Job /\ status[j] # "absent" /\ AgentOf[j] = None
  BY <1>1 DEF SweepKids, FrameOK, FanoutPCs, p
<1>3. ErrsGrow /\ errs' \in 0..MaxErrors BY <1>1, FailsGrow DEF SweepKids
<1>4. \/ /\ Goto(p, "kill", j, None)
         /\ victims' = {c \in Children(j) : ~terminalJobStatus(status[c])}
      \/ /\ Goto(p, "failGet", j, None) /\ victims' = victims /\ errs' # 0
  BY <1>1 DEF SweepKids, Fails, TypeOK, p
<1>5. /\ proc' \in [Proc -> Frame] /\ OnlyMoves(p)
      /\ proc'[p].pc = "kill" \/ (proc'[p].pc = "failGet" /\ errs' # 0)
      /\ proc'[p].job = j
  <2>1. CASE Goto(p, "kill", j, None)
    BY <2>1, <1>0, <1>1, <1>2, GotoFacts DEF PC, OnlyMoves
  <2>2. CASE Goto(p, "failGet", j, None) /\ errs' # 0
    BY <2>2, <1>0, <1>1, <1>2, GotoFacts DEF PC, OnlyMoves
  <2> QED BY <1>4, <2>1, <2>2
<1>6. \A c \in Children(j) : c \in Job /\ Parent[c] # None /\ status[c] # "absent"
  BY <1>2, HubAssumption DEF Children, IndInv, TogetherOK
<1>7. victims' \in SUBSET Job /\ \A c \in victims' : Parent[c] # None /\ status[c] # "absent"
  BY <1>1, <1>4, <1>6 DEF TypeOK, IndInv, ListsOK
<1>8. TypeOK' BY <1>1, <1>3, <1>5, <1>7 DEF SweepKids, TypeOK
<1>9. FrameOK(p)' BY <1>2, <1>5 DEF SweepKids, FrameOK, FanoutPCs, LeafPCs
<1>10. ListsOK'
  <2>1. UNCHANGED <<status, todo>> BY DEF SweepKids
  <2>2. ListsOK BY DEF IndInv
  <2> QED BY <1>7, <2>1, <2>2 DEF ListsOK, Proc, Recv, Exit, Sweeper
<1>11. proc'[p].pc # "event" BY <1>5
<1> QED BY <1>0, <1>3, <1>5, <1>8, <1>9, <1>10, <1>11, QuietStep DEF SweepKids

(* It cancels a child and forgets it at its agent.                          *)
LEMMA SweepKillStep ==
  ASSUME IndInv, NEW c \in Job, SweepKill(c) PROVE IndInv'
<1> DEFINE p == Sweeper
<1>0. p \in Proc BY ProcFacts
<1> HIDE DEF p
<1>1. TypeOK BY DEF IndInv
<1>2. Parent[c] # None /\ AgentOf[c] # None /\ status[c] # "absent"
  BY HubAssumption DEF SweepKill, IndInv, ListsOK
<1>3. /\ proc' \in [Proc -> Frame] /\ OnlyMoves(p)
      /\ proc'[p].pc = "killPut" /\ proc'[p].job = c
  BY <1>0, <1>1, GotoFacts DEF SweepKill, PC, OnlyMoves, p
<1>4. running' \in [Agent -> SUBSET Job] /\ \A a \in Agent : running'[a] \subseteq running[a]
  BY <1>1, ClearFacts DEF SweepKill
<1>5. cancels' \in [Session -> SUBSET Job]
  <2>1. cancels' \in {cancels, [cancels EXCEPT ![cancelTo[AgentOf[c]]] = @ \cup {c}]}
    BY DEF SweepKill, sendGRPCCancel
  <2> QED BY <2>1, <1>1 DEF TypeOK
<1>6. victims' \subseteq victims BY DEF SweepKill
<1>7. TypeOK' BY <1>1, <1>3, <1>4, <1>5, <1>6 DEF SweepKill, TypeOK
<1>8. FrameOK(p)' BY <1>2, <1>3 DEF SweepKill, FrameOK, FanoutPCs, LeafPCs
<1>9. ErrsGrow BY DEF SweepKill, ErrsGrow
<1>10. ListsOK' BY <1>6, <1>9, ListsKept, StoreKept DEF SweepKill
<1> QED BY <1>0, <1>3, <1>4, <1>7, <1>8, <1>9, <1>10, QuietStep DEF SweepKill

(* It stores the child's failure and goes on with the parent's children.    *)
LEMMA SweepKillPutStep ==
  ASSUME IndInv, SweepKillPut PROVE IndInv'
<1> DEFINE p == Sweeper
           c == proc[p].job
<1>0. p \in Proc BY ProcFacts
<1> HIDE DEF p
<1>1. TypeOK /\ FrameOK(p) BY <1>0 DEF IndInv, FramesOK
<1>2. /\ proc[p].pc = "killPut" /\ c \in Job /\ status[c] # "absent"
      /\ AgentOf[c] # None /\ Parent[c] # None
  BY <1>1 DEF SweepKillPut, FrameOK, LeafPCs, p
<1>3. MayUpdate(c, "failed") BY DEF SweepKillPut, MayUpdate, p
<1>4. Parent[c] \in Job /\ AgentOf[Parent[c]] = None /\ status[Parent[c]] # "absent"
  BY <1>2, HubAssumption DEF IndInv, TogetherOK
<1>5. /\ proc' \in [Proc -> Frame] /\ OnlyMoves(p)
      /\ proc'[p].pc = "kill" /\ proc'[p].job = Parent[c]
  BY <1>0, <1>1, <1>4, GotoFacts DEF SweepKillPut, PC, OnlyMoves, p
<1>6. ErrsGrow /\ errs' \in 0..MaxErrors BY <1>1, FailsGrow DEF SweepKillPut
<1>7. UNCHANGED <<summary, finals, hubVars, linkVars, loopVars, crashes>> BY DEF SweepKillPut
<1>8. TypeOK'
  BY <1>1, <1>2, <1>3, <1>5, <1>6, <1>7 DEF TypeOK, MayUpdate, UpdateJobStatus, Status, Outcome
<1>9. status'[Parent[c]] # "absent"
  BY <1>1, <1>3, <1>4 DEF TypeOK, MayUpdate, UpdateJobStatus
<1>10. FrameOK(p)' BY <1>4, <1>5, <1>9 DEF FrameOK, FanoutPCs, LeafPCs
<1>11. ~IsFanout(c) BY <1>2 DEF IsFanout
<1> QED
  BY <1>0, <1>2, <1>3, <1>5, <1>6, <1>7, <1>8, <1>10, <1>11, UpdateStep DEF Outcome

(* All children are dealt with: the sweep completes the parent.             *)
LEMMA SweepKilledStep ==
  ASSUME IndInv, SweepKilled PROVE IndInv'
<1> DEFINE p == Sweeper
           j == proc[p].job
<1>0. p \in Proc BY ProcFacts
<1> HIDE DEF p
<1>1. TypeOK /\ FrameOK(p) BY <1>0 DEF IndInv, FramesOK
<1>2. proc[p].pc = "kill" /\ j \in Job /\ status[j] # "absent" /\ AgentOf[j] = None
  BY <1>1 DEF SweepKilled, FrameOK, FanoutPCs, p
<1>3. /\ proc' \in [Proc -> Frame] /\ OnlyMoves(p)
      /\ proc'[p].pc = "parGet" /\ proc'[p].job = j
  BY <1>0, <1>1, <1>2, GotoFacts DEF SweepKilled, PC, OnlyMoves, p
<1>4. ErrsGrow BY DEF SweepKilled, ErrsGrow
<1>5. TypeOK' BY <1>1, <1>3 DEF SweepKilled, TypeOK
<1>6. FrameOK(p)' BY <1>2, <1>3 DEF SweepKilled, FrameOK, FanoutPCs, LeafPCs
<1>7. ListsOK' BY <1>4, ListsKept, StoreKept DEF SweepKilled
<1> QED BY <1>0, <1>3, <1>4, <1>5, <1>6, <1>7, QuietStep DEF SweepKilled

(* The sweep's steps.                                                       *)
LEMMA SweepStepStep ==
  ASSUME IndInv, SweepStep PROVE IndInv'
BY SweepBeginStep, SweepNextStep, SweepDeferStep, SweepKidsStep, SweepKillStep,
   SweepKillPutStep, SweepKilledStep, FinishStepStep, ProcFacts
DEF SweepStep

-----------------------------------------------------------------------------
(* Requests, the send loop and crashes.                                     *)

(* A step that changes statuses without ending a fan-out or recording a     *)
(* success keeps the parts about ends.                                      *)
LEMMA EndsKept ==
  ASSUME IndInv, StatusGrows, ErrsGrow, UNCHANGED <<summary, finals>>,
         \A k \in Job : terminalJobStatus(status'[k]) =>
           status'[k] = status[k] \/ (status'[k] = "failed" /\ ~IsFanout(k))
  PROVE  SuccessHasEvidence' /\ ParentAfterChildren' /\ FinalAfterTerminal'
<1>1. SuccessHasEvidence'
  BY DEF IndInv, SuccessHasEvidence, terminalJobStatus, Outcome, IsFanout
<1>2. ASSUME NEW k \in Job PROVE ChildrenDone(k) => ChildrenDone(k)'
  BY DEF ChildrenDone, Children, StatusGrows
<1>3. ParentAfterChildren'
  BY <1>2 DEF IndInv, ParentAfterChildren, ErrsGrow, IsFanout
<1>4. FinalAfterTerminal' BY DEF IndInv, FinalAfterTerminal, StatusGrows
<1> QED BY <1>1, <1>3, <1>4

(* A step that moves no goroutine, and changes statuses only forward.       *)
LEMMA StatusStep ==
  ASSUME IndInv, TypeOK', StatusGrows, ErrsGrow, TogetherOK',
         UNCHANGED <<summary, finals, dispatches, exec, running, proc, todo, victims>>,
         \A k \in Job : terminalJobStatus(status'[k]) =>
           status'[k] = status[k] \/ (status'[k] = "failed" /\ ~IsFanout(k)),
         ClaimsOK'
  PROVE  IndInv'
<1>1. SummaryGrows BY DEF SummaryGrows
<1>2. OnlyMoves(Sweeper) /\ FrameOK(Sweeper)'
  BY <1>1, OtherFrames, ProcFacts DEF OnlyMoves
<1>3. FramesOK' BY <1>1, <1>2, MovingFrame, ProcFacts
<1>4. ListsOK' BY ListsKept
<1>5. SummariesOK' BY SummariesKept
<1>6. DispatchesOK' BY DEF IndInv, DispatchesOK, StatusGrows, Waiting
<1>7. InflightWasClaimed' BY DEF IndInv, TypeOK, InflightWasClaimed, StatusGrows, Waiting
<1> QED BY <1>3, <1>4, <1>5, <1>6, <1>7, EndsKept DEF IndInv

(* The jobs of a request are created.                                       *)
LEMMA CreateJobStep ==
  ASSUME IndInv, NEW j \in Job, CreateJob(j) PROVE IndInv'
<1>1. TypeOK BY DEF IndInv
<1>2. /\ Parent[j] = None /\ status[j] = "absent"
      /\ UNCHANGED <<age, summary, finals, hubVars, linkVars, proc, loopVars, errs, crashes>>
  BY DEF CreateJob, NextRequest
<1>3. /\ status'[j] \in {"queued", "running"}
      /\ \A k \in Job : Parent[k] = j => status[k] = "absent" /\ status'[k] = "queued"
      /\ \A k \in Job : k # j /\ Parent[k] # j => status'[k] = status[k]
  BY <1>2, HubAssumption DEF CreateJob, IndInv, TogetherOK
<1>4. status' \in [Job -> Status] BY <1>1 DEF CreateJob, TypeOK, Status
<1>5. TypeOK' BY <1>1, <1>2, <1>4 DEF TypeOK
<1>6. StatusGrows
  BY <1>2, <1>3 DEF StatusGrows, Waiting, terminalJobStatus, Outcome
<1>7. TogetherOK'
  BY <1>2, <1>3, HubAssumption DEF IndInv, TogetherOK
<1>8. \A k \in Job : terminalJobStatus(status'[k]) => status'[k] = status[k]
  BY <1>3 DEF terminalJobStatus, Outcome
<1>9. ErrsGrow BY <1>2 DEF ErrsGrow
<1>10. ClaimsOK' BY <1>2, <1>6, ClaimsKept
<1> QED BY <1>2, <1>5, <1>6, <1>7, <1>8, <1>9, <1>10, StatusStep

(* A request without a target is stored as failed; it is no fan-out.        *)
LEMMA CreateFailedJobStep ==
  ASSUME IndInv, NEW j \in Job, CreateFailedJob(j) PROVE IndInv'
<1>1. TypeOK BY DEF IndInv
<1>2. /\ Parent[j] = None /\ status[j] = "absent" /\ ~IsFanout(j)
      /\ UNCHANGED <<age, summary, finals, hubVars, linkVars, proc, loopVars, errs, crashes>>
  BY DEF CreateFailedJob, NextRequest
<1>3. /\ status' \in [Job -> Status] /\ status'[j] = "failed"
      /\ \A k \in Job : k # j => status'[k] = status[k]
  BY <1>1 DEF CreateFailedJob, TypeOK, Status, Outcome
<1>4. TypeOK' BY <1>1, <1>2, <1>3 DEF TypeOK
<1>5. StatusGrows BY <1>2, <1>3 DEF StatusGrows, Waiting, terminalJobStatus, Outcome
<1>6. TogetherOK'
  BY <1>2, <1>3, HubAssumption DEF IndInv, TogetherOK, IsFanout
<1>7. \A k \in Job : terminalJobStatus(status'[k]) =>
        status'[k] = status[k] \/ (status'[k] = "failed" /\ ~IsFanout(k))
  BY <1>2, <1>3
<1>8. ErrsGrow BY <1>2 DEF ErrsGrow
<1>9. ClaimsOK' BY <1>2, <1>5, ClaimsKept
<1> QED BY <1>2, <1>4, <1>5, <1>6, <1>7, <1>8, <1>9, StatusStep

(* A queued job is claimed by one send loop; it was never dispatched.       *)
LEMMA ClaimStep ==
  ASSUME IndInv, NEW s \in Session, NEW j \in Job, Claim(s, j) PROVE IndInv'
<1> DEFINE a == SessionAgent[s]
           send == [sender EXCEPT ![s] = [pc |-> "send", batch |-> @.batch \ {j}, job |-> j]]
<1>1. TypeOK BY DEF IndInv
<1>2. UNCHANGED <<summary, finals, hubVars, link, exec, dispatches, proc, loopVars, crashes>>
  BY DEF Claim
<1>3. ErrsGrow /\ errs' \in 0..MaxErrors BY <1>1, FailsGrow DEF Claim
<1>4. ClaimQueuedJob(j, a) \/ UNCHANGED <<status, age>> BY DEF Claim
<1>5. \/ ClaimQueuedJob(j, a) /\ sender' = send
      \/ NextInBatch(s, sender[s].batch \ {j})
  BY DEF Claim
<1>6. sender[s] \in Sender BY <1>1 DEF TypeOK
<1>7. /\ sender' \in [Session -> Sender]
      /\ \A t \in Session : t # s => sender'[t] = sender[t]
      /\ sender'[s].pc = "send" => ClaimQueuedJob(j, a) /\ sender'[s].job = j
  <2>1. CASE ClaimQueuedJob(j, a) /\ sender' = send BY <2>1, <1>1, <1>6 DEF TypeOK, Sender
  <2>2. CASE NextInBatch(s, sender[s].batch \ {j})
    BY <2>2, <1>1, <1>6 DEF NextInBatch, TypeOK, Sender
  <2> QED BY <1>5, <2>1, <2>2
<1>8. /\ \A k \in Job : k # j => status'[k] = status[k]
      /\ status'[j] = status[j] \/ (status[j] = "queued" /\ status'[j] = "running")
      /\ status' \in [Job -> Status] /\ age' \in [Job -> 0..2]
  BY <1>1, <1>4 DEF ClaimQueuedJob, TypeOK, Status
<1>9. TypeOK' BY <1>1, <1>2, <1>3, <1>7, <1>8 DEF TypeOK
<1>10. StatusGrows BY <1>8 DEF StatusGrows, Waiting, terminalJobStatus, Outcome
<1>11. TogetherOK'
  <2>1. \A k \in Job : status'[k] = "absent" <=> status[k] = "absent" BY <1>8
  <2> QED BY <2>1, HubAssumption DEF IndInv, TogetherOK
<1>12. \A k \in Job : terminalJobStatus(status'[k]) => status'[k] = status[k]
  BY <1>8 DEF terminalJobStatus, Outcome
<1>13. ClaimsOK'
  <2>1. ClaimsOK BY DEF IndInv
  <2>2. ClaimQueuedJob(j, a) => /\ AgentOf[j] = a /\ status[j] = "queued"
                                /\ status'[j] = "running"
    BY <1>1 DEF ClaimQueuedJob, TypeOK
  <2>3. status[j] = "queued" => dispatches[j] = 0
    BY <1>1 DEF TypeOK, IndInv, DispatchesOK, Waiting
  <2>4. \A t \in Session : t # s /\ HeldBy(t, j) => status[j] # "queued"
    BY <2>1 DEF ClaimsOK, HeldBy, Waiting
  <2>5. ASSUME NEW t \in Session, sender'[t].pc = "send"
        PROVE  /\ sender'[t].job \in Job
               /\ AgentOf[sender'[t].job] = SessionAgent[t]
               /\ status'[sender'[t].job] \notin {"absent", "queued"}
               /\ dispatches'[sender'[t].job] = 0
               /\ \A u \in Session :
                    sender'[u].pc = "send" /\ sender'[u].job = sender'[t].job => u = t
    <3>1. CASE t = s
      BY <3>1, <2>5, <1>2, <1>7, <2>2, <2>3, <2>4 DEF HeldBy
    <3>2. CASE t # s
      <4>1. sender'[t] = sender[t] BY <3>2, <1>7
      <4>2. /\ sender[t].job \in Job
            /\ AgentOf[sender[t].job] = SessionAgent[t]
            /\ status[sender[t].job] \notin {"absent", "queued"}
            /\ dispatches[sender[t].job] = 0
            /\ \A u \in Session : HeldBy(u, sender[t].job) => u = t
        BY <2>1, <2>5, <4>1 DEF ClaimsOK, Waiting
      <4>3. status'[sender[t].job] \notin {"absent", "queued"}
        BY <4>2, <1>10 DEF StatusGrows, Waiting
      <4>4. sender'[s].pc = "send" => sender[t].job # j BY <1>7, <2>2, <4>2
      <4> QED BY <4>1, <4>2, <4>3, <4>4, <1>2, <1>7 DEF HeldBy
    <3> QED BY <3>1, <3>2
  <2> QED BY <2>5 DEF ClaimsOK, Waiting, HeldBy
<1> QED BY <1>2, <1>3, <1>9, <1>10, <1>11, <1>12, <1>13, StatusStep

(* A claimed job is marked and sent, for the first and only time.           *)
LEMMA DispatchStep ==
  ASSUME IndInv, NEW s \in Session, Dispatch(s) PROVE IndInv'
<1> DEFINE a == SessionAgent[s]
           j == sender[s].job
<1>1. TypeOK /\ SummariesOK /\ ClaimsOK BY DEF IndInv
<1>2. /\ a \in Agent /\ j \in Job /\ AgentOf[j] = a /\ ~Waiting(j) /\ dispatches[j] = 0
      /\ \A t \in Session : HeldBy(t, j) => t = s
  BY <1>1, HubAssumption DEF Dispatch, ClaimsOK
<1>3. UNCHANGED <<storeVars, cancelTo, cancels, link, proc, loopVars, errs, crashes>>
  BY DEF Dispatch
<1>4. /\ running' \in [Agent -> SUBSET Job]
      /\ \A b \in Agent : running'[b] = IF b = a THEN running[a] \cup {j} ELSE running[b]
  BY <1>1, <1>2 DEF Dispatch, TypeOK
<1>5. /\ sender' \in [Session -> Sender] /\ sender'[s].pc # "send"
      /\ \A t \in Session : t # s => sender'[t] = sender[t]
  <2>1. sender[s] \in Sender BY <1>1 DEF TypeOK
  <2>2. CASE NextInBatch(s, sender[s].batch)
    BY <2>1, <2>2, <1>1 DEF NextInBatch, TypeOK, Sender
  <2>3. CASE sender' = [sender EXCEPT ![s] = Stopped]
    BY <2>3, <1>1 DEF TypeOK, Sender, Stopped
  <2> QED BY <2>2, <2>3 DEF Dispatch
<1>6. /\ exec' \in [Session -> SUBSET Job] /\ dispatches' \in [Job -> Nat]
      /\ \/ UNCHANGED <<exec, dispatches>>
         \/ /\ \A t \in Session : exec'[t] = IF t = s THEN exec[s] \cup {j} ELSE exec[t]
            /\ \A k \in Job : dispatches'[k] = IF k = j THEN 1 ELSE dispatches[k]
  <2>1. CASE /\ exec' = [exec EXCEPT ![s] = @ \cup {j}]
             /\ dispatches' = [dispatches EXCEPT ![j] = @ + 1]
    BY <2>1, <1>1, <1>2 DEF TypeOK
  <2>2. CASE UNCHANGED <<exec, dispatches>> BY <2>2, <1>1 DEF TypeOK
  <2> QED BY <2>1, <2>2 DEF Dispatch
<1>7. TypeOK' BY <1>1, <1>3, <1>4, <1>5, <1>6 DEF TypeOK
<1>8. ErrsGrow BY <1>3 DEF ErrsGrow
<1>9. /\ StatusGrows /\ SummaryGrows
      /\ TogetherOK' /\ SuccessHasEvidence' /\ ParentAfterChildren' /\ FinalAfterTerminal'
  BY <1>3, <1>8, StoreKept
<1>10. OnlyMoves(Sweeper) /\ FrameOK(Sweeper)'
  BY <1>3, <1>8, <1>9, OtherFrames, ProcFacts DEF OnlyMoves
<1>11. FramesOK' BY <1>8, <1>9, <1>10, MovingFrame, ProcFacts
<1>12. ListsOK' BY <1>3, <1>9, ListsKept
<1>13. ClaimsOK'
  <2> SUFFICES ASSUME NEW t \in Session, sender'[t].pc = "send"
               PROVE  /\ sender'[t].job \in Job
                      /\ AgentOf[sender'[t].job] = SessionAgent[t]
                      /\ status'[sender'[t].job] \notin {"absent", "queued"}
                      /\ dispatches'[sender'[t].job] = 0
                      /\ \A u \in Session :
                           sender'[u].pc = "send" /\ sender'[u].job = sender'[t].job => u = t
    BY DEF ClaimsOK, Waiting, HeldBy
  <2>1. t # s /\ sender'[t] = sender[t] BY <1>5
  <2>2. /\ sender[t].job \in Job
        /\ AgentOf[sender[t].job] = SessionAgent[t]
        /\ status[sender[t].job] \notin {"absent", "queued"}
        /\ dispatches[sender[t].job] = 0
        /\ \A u \in Session : HeldBy(u, sender[t].job) => u = t
    BY <1>1, <2>1 DEF ClaimsOK, Waiting
  <2>3. sender[t].job # j BY <1>2, <2>1 DEF HeldBy
  <2> QED BY <1>3, <1>5, <1>6, <2>1, <2>2, <2>3 DEF HeldBy
<1>14. DispatchesOK'
  BY <1>2, <1>3, <1>6 DEF IndInv, DispatchesOK, Waiting
<1>15. InflightWasClaimed'
  BY <1>2, <1>3, <1>4 DEF IndInv, InflightWasClaimed, Waiting
<1>16. SummariesOK'
  <2>1. CASE UNCHANGED <<exec, dispatches>> BY <2>1, <1>3, SummariesKept
  <2>2. CASE /\ \A t \in Session : exec'[t] = IF t = s THEN exec[s] \cup {j} ELSE exec[t]
             /\ \A k \in Job : dispatches'[k] = IF k = j THEN 1 ELSE dispatches[k]
    <3>1. /\ summary[j] = None /\ AgentOf[j] # None
          /\ \A t \in Session : j \notin exec[t]
          /\ \A q \in Proc : ~Handles(q, j)
      BY <1>1, <1>2, HubAssumption DEF SummariesOK
    <3>2. \A k \in Job : dispatches'[k] = 0 =>
            /\ summary[k] = None
            /\ \A t \in Session : k \notin exec'[t]
            /\ \A q \in Proc : ~Handles(q, k)
      BY <1>1, <2>2 DEF SummariesOK
    <3>3. \A t \in Session : \A k \in exec'[t] :
            /\ summary[k] = None /\ AgentOf[k] # None
            /\ \A u \in Session : k \in exec'[u] => u = t
            /\ \A q \in Proc : ~Handles(q, k)
      BY <1>1, <2>2, <3>1 DEF SummariesOK
    <3> QED BY <1>1, <1>3, <3>2, <3>3 DEF SummariesOK, Handles
  <2> QED BY <1>6, <2>1, <2>2
<1> QED
  BY <1>7, <1>9, <1>11, <1>12, <1>13, <1>14, <1>15, <1>16 DEF IndInv

(* A crash loses what is in memory; the store and what was sent stay.       *)
LEMMA CrashStep ==
  ASSUME IndInv, Crash PROVE IndInv'
<1>1. TypeOK BY DEF IndInv
<1>2. UNCHANGED <<storeVars, dispatches, errs>> BY DEF Crash
<1>3. /\ \A p \in Proc : proc'[p].pc = "idle" /\ todo'[p] = {}
      /\ proc' \in [Proc -> Frame] /\ todo' \in [Proc -> SUBSET Job]
  BY DEF Crash, Idle, Frame, PC
<1>4. /\ \A s \in Session : sender'[s].pc = "done" /\ exec'[s] = {}
      /\ sender' \in [Session -> Sender] /\ exec' \in [Session -> SUBSET Job]
  BY DEF Crash, Stopped, Sender
<1>5. running' \in [Agent -> SUBSET Job] /\ \A a \in Agent : running'[a] = {}
  BY DEF Crash
<1>6. TypeOK' BY <1>1, <1>2, <1>3, <1>4, <1>5, HubAssumption DEF Crash, TypeOK
<1>7. ErrsGrow BY <1>2 DEF ErrsGrow
<1>8. /\ StatusGrows /\ SummaryGrows
      /\ TogetherOK' /\ SuccessHasEvidence' /\ ParentAfterChildren' /\ FinalAfterTerminal'
  BY <1>2, <1>7, StoreKept
<1>9. FramesOK'
  <2> SUFFICES ASSUME NEW p \in Proc PROVE FrameOK(p)'
    BY DEF FramesOK, Proc, Recv, Exit, Sweeper
  <2> QED BY <1>3 DEF FrameOK, FanoutPCs, LeafPCs
<1>10. ListsOK' BY <1>3, <1>8, ListsKept DEF Crash
<1>11. ClaimsOK' /\ DispatchesOK' /\ InflightWasClaimed' BY <1>2, <1>4, <1>5, <1>8, ClaimsKept
<1>12. SummariesOK' BY <1>2, <1>3, <1>4, SummariesKept
<1> QED BY <1>6, <1>8, <1>9, <1>10, <1>11, <1>12 DEF IndInv

-----------------------------------------------------------------------------
(* The invariant.                                                           *)

(* It holds when the server starts on an empty store.                       *)
LEMMA InitIndInv == Init => IndInv
<1> SUFFICES ASSUME Init PROVE IndInv OBVIOUS
<1>1. \A p \in Proc : proc[p].pc = "idle" /\ todo[p] = {} BY DEF Init, Idle
<1>2. \A s \in Session : sender[s].pc = "done" /\ exec[s] = {} BY DEF Init, Stopped
<1>3. \A j \in Job : status[j] = "absent" /\ dispatches[j] = 0 /\ summary[j] = None /\ finals[j] = 0
  BY DEF Init
<1>4. TypeOK
  BY HubAssumption DEF Init, TypeOK, Status, Sender, Stopped, Frame, Idle, PC
<1>5. FramesOK BY <1>1 DEF FramesOK, FrameOK, FanoutPCs, LeafPCs
<1>6. ListsOK BY <1>1, ProcFacts DEF ListsOK, Init
<1>7. TogetherOK BY <1>3, HubAssumption DEF TogetherOK
<1>8. ClaimsOK /\ DispatchesOK BY <1>2, <1>3 DEF ClaimsOK, DispatchesOK
<1>9. InflightWasClaimed BY DEF Init, InflightWasClaimed
<1>10. SummariesOK BY <1>1, <1>2, <1>3 DEF SummariesOK, Handles
<1>11. SuccessHasEvidence /\ ParentAfterChildren /\ FinalAfterTerminal
  BY <1>3 DEF SuccessHasEvidence, ParentAfterChildren, FinalAfterTerminal, terminalJobStatus,
     Outcome
<1> QED
  BY <1>4, <1>5, <1>6, <1>7, <1>8, <1>9, <1>10, <1>11 DEF IndInv

(* Every step of every goroutine, of the environment and of time keeps it.  *)
LEMMA NextIndInv == IndInv /\ [Next]_vars => IndInv'
<1> SUFFICES ASSUME IndInv, [Next]_vars PROVE IndInv' OBVIOUS
<1>1. CASE UNCHANGED vars
  <2>1. TypeOK' BY <1>1 DEF IndInv, TypeOK
  <2> QED BY <1>1, <2>1, LinkStep
<1>2. CASE Environment
  BY <1>2, CreateJobStep, CreateFailedJobStep, AgeingStep, ConnectStep, BreakStep, SendTickStep,
     LoseResultStep, ReceiveResultStep, CrashStep
  DEF Environment
<1>3. ASSUME NEW s \in Session, SendStep(s) PROVE IndInv'
  BY <1>3, ClaimStep, SendCancelStep, DispatchStep, SendDoneStep DEF SendStep
<1>4. ASSUME NEW s \in Session, RecvStep(s) PROVE IndInv' BY <1>4, RecvStepStep
<1>5. ASSUME NEW s \in Session, ExitStep(s) PROVE IndInv' BY <1>5, ExitStepStep
<1>6. CASE SweepStep BY <1>6, SweepStepStep
<1> QED BY <1>1, <1>2, <1>3, <1>4, <1>5, <1>6 DEF Next

(* IndInv is an invariant of Hub, for any number of agents, streams, jobs,  *)
(* store errors and crashes.                                                *)
THEOREM Inductive == Spec => []IndInv
BY InitIndInv, NextIndInv, PTL DEF Spec

(* Hub's variables keep their types.                                        *)
THEOREM TypeCorrect == Spec => []TypeOK
<1>1. IndInv => TypeOK BY DEF IndInv
<1> QED BY <1>1, Inductive, PTL

(* No job is sent to an agent twice, however sessions of an agent overlap.  *)
THEOREM DispatchedOnce == Spec => []AtMostOneDispatch
<1>1. IndInv => AtMostOneDispatch BY DEF IndInv, DispatchesOK, AtMostOneDispatch
<1> QED BY <1>1, Inductive, PTL

(* Only a job claimed for an agent is in flight there (agentOwnsJob).       *)
THEOREM InflightClaimed == Spec => []InflightWasClaimed
<1>1. IndInv => InflightWasClaimed BY DEF IndInv
<1> QED BY <1>1, Inductive, PTL

(* No job is stored as succeeded without a recorded summary of a success.   *)
THEOREM Evidence == Spec => []SuccessHasEvidence
<1>1. IndInv => SuccessHasEvidence BY DEF IndInv
<1> QED BY <1>1, Inductive, PTL

(* While no store call has failed, no fan-out ends before its children.     *)
THEOREM FanoutLast == Spec => []ParentAfterChildren
<1>1. IndInv => ParentAfterChildren BY DEF IndInv
<1> QED BY <1>1, Inductive, PTL

(* A terminal progress event is recorded only of a job that is over.        *)
THEOREM FinalLast == Spec => []FinalAfterTerminal
<1>1. IndInv => FinalAfterTerminal BY DEF IndInv
<1> QED BY <1>1, Inductive, PTL

-----------------------------------------------------------------------------
(* How statuses change.                                                     *)
Requests == \E j \in Job : CreateJob(j) \/ CreateFailedJob(j)
Starts == \E j \in Job : status[j] = "queued" /\ status' = [status EXCEPT ![j] = "running"]
Ends == \E j \in Job, o \in Outcome :
          /\ status[j] # "absent" /\ status' = [status EXCEPT ![j] = o]
          /\ AgentOf[j] # None \/ errs # 0 \/ ChildrenDone(j)

(* failJob ends a leaf, or any job once a store call has failed;            *)
(* completeParentIfDone ends a fan-out whose children are over.             *)
LEMMA FinishEnds ==
  ASSUME IndInv, NEW p \in Proc, FinishStep(p) PROVE UNCHANGED status \/ Ends
<1> DEFINE j == proc[p].job
<1>1. FrameOK(p) BY DEF IndInv, FramesOK
<1>2. CASE FailPut(p)
  <2>1. /\ j \in Job /\ status[j] # "absent"
        /\ AgentOf[j] # None \/ errs # 0
    BY <1>1, <1>2 DEF FailPut, FrameOK
  <2>2. status' = [status EXCEPT ![j] = "failed"] \/ UNCHANGED status
    BY <1>2 DEF FailPut, UpdateJobStatus, MayUpdate
  <2> QED BY <2>1, <2>2 DEF Ends, Outcome
<1>3. CASE ParentPut(p)
  <2>1. /\ j \in Job /\ status[j] # "absent" /\ proc[p].out \in Outcome
        /\ errs # 0 \/ ChildrenDone(j)
    BY <1>1, <1>3 DEF ParentPut, FrameOK
  <2>2. status' = [status EXCEPT ![j] = proc[p].out] \/ UNCHANGED status
    BY <1>3 DEF ParentPut, UpdateJobStatus, MayUpdate
  <2> QED BY <2>1, <2>2 DEF Ends
<1>4. CASE FailClear(p) \/ FailGet(p) \/ ParentGet(p) \/ ParentList(p) \/ Emit(p)
  BY <1>4 DEF FailClear, FailGet, ParentGet, ParentList, Emit
<1> QED BY <1>2, <1>3, <1>4 DEF FinishStep

(* The receive loop and the sweep end leaves on their own, too.             *)
LEMMA StatusSteps ==
  ASSUME IndInv, Next PROVE UNCHANGED status \/ Requests \/ Starts \/ Ends
<1>1. CASE Environment
  BY <1>1 DEF Environment, Requests, Ageing, Connect, Break, SendTick, LoseResult, ReceiveResult,
     Crash
<1>2. ASSUME NEW s \in Session, SendStep(s) PROVE UNCHANGED status \/ Starts
  BY <1>2 DEF SendStep, Claim, ClaimQueuedJob, SendCancel, Dispatch, SendDone, Starts
<1>3. ASSUME NEW s \in Session, RecvStep(s) PROVE UNCHANGED status \/ Ends
  <2>1. Recv(s) \in Proc BY ProcFacts
  <2>2. FrameOK(Recv(s)) BY <2>1 DEF IndInv, FramesOK
  <2>3. CASE PutResult(s)
    <3> DEFINE j == proc[Recv(s)].job
               o == proc[Recv(s)].out
    <3>1. j \in Job /\ o \in Outcome /\ status[j] # "absent" /\ AgentOf[j] # None
      BY <2>2, <2>3 DEF PutResult, FrameOK, LeafPCs
    <3>2. status' = [status EXCEPT ![j] = o] \/ UNCHANGED status
      BY <2>3 DEF PutResult, UpdateJobStatus, MayUpdate
    <3> QED BY <3>1, <3>2 DEF Ends
  <2>4. CASE RecordEvent(s) BY <2>4 DEF RecordEvent
  <2> QED BY <1>3, <2>1, <2>3, <2>4, FinishEnds DEF RecvStep
<1>4. ASSUME NEW s \in Session, ExitStep(s) PROVE UNCHANGED status \/ Ends
  BY <1>4, FinishEnds, ProcFacts
  DEF ExitStep, CloseSession, DropSession, CloseDone, FailDisconnected
<1>5. CASE SweepStep
  <2>1. FrameOK(Sweeper) BY ProcFacts DEF IndInv, FramesOK
  <2>2. CASE SweepKillPut
    <3> DEFINE c == proc[Sweeper].job
    <3>1. c \in Job /\ status[c] # "absent" /\ AgentOf[c] # None
      BY <2>1, <2>2 DEF SweepKillPut, FrameOK, LeafPCs
    <3>2. status' = [status EXCEPT ![c] = "failed"] \/ UNCHANGED status
      BY <2>2 DEF SweepKillPut, UpdateJobStatus, MayUpdate
    <3> QED BY <3>1, <3>2 DEF Ends, Outcome
  <2> QED
    BY <1>5, <2>2, FinishEnds, ProcFacts
    DEF SweepStep, SweepBegin, SweepDefer, SweepKids, SweepKilled, SweepNext, SweepKill
<1> QED BY <1>1, <1>2, <1>3, <1>4, <1>5 DEF Next

(* Every such change is a move forward.                                     *)
LEMMA ForwardStep ==
  ASSUME IndInv, Next, NEW j \in Job PROVE Rank(status[j]) <= Rank(status'[j])
<1>1. status \in [Job -> Status] BY DEF IndInv, TypeOK
<1>2. CASE UNCHANGED status BY <1>1, <1>2 DEF Rank, Status, Outcome
<1>3. CASE Starts BY <1>1, <1>3 DEF Starts, Rank, Status, Outcome
<1>4. CASE Ends BY <1>1, <1>4 DEF Ends, Rank, Status, Outcome
<1>5. CASE Requests
  <2>1. PICK k \in Job : CreateJob(k) \/ CreateFailedJob(k) BY <1>5 DEF Requests
  <2>2. CASE CreateFailedJob(k)
    BY <1>1, <2>2 DEF CreateFailedJob, NextRequest, Rank, Status, Outcome
  <2>3. CASE CreateJob(k)
    <3>1. Parent[j] = k => status[j] = "absent"
      BY <2>3, HubAssumption DEF CreateJob, NextRequest, IndInv, TogetherOK
    <3> QED BY <1>1, <2>3, <3>1 DEF CreateJob, NextRequest, Rank, Status, Outcome
  <2> QED BY <2>1, <2>2, <2>3
<1> QED BY <1>2, <1>3, <1>4, <1>5, StatusSteps

(* No job is requeued or revived, though UpdateJobStatus is unconditional.  *)
THEOREM Forward == Spec => StatusMovesForward
<1>1. IndInv /\ [Next]_vars => [\A j \in Job : Rank(status[j]) <= Rank(status'[j])]_status
  BY ForwardStep
<1> QED BY <1>1, Inductive, PTL DEF Spec, StatusMovesForward

-----------------------------------------------------------------------------
(* Hub implements JobLifecycle.                                             *)
Phases == [j \in Job |-> IF terminalJobStatus(status[j]) THEN "done" ELSE status[j]]

(* Store calls that failed stay counted.                                    *)
ErrsStay == errs' = errs \/ errs' = errs + 1

(* A failed store call is never forgotten.                                  *)
LEMMA ErrsStep ==
  ASSUME IndInv, [Next]_vars PROVE errs > 0 => errs' > 0
<1>1. errs \in Nat BY HubAssumption DEF IndInv, TypeOK
<1> SUFFICES ErrsStay BY <1>1 DEF ErrsStay
<1>2. ASSUME Works \/ \E c \in BOOLEAN : Fails(c) PROVE ErrsStay
  BY <1>2 DEF Works, Fails, ErrsStay
<1>3. ASSUME NEW p \in Proc, FinishStep(p) PROVE ErrsStay
  BY <1>2, <1>3
  DEF FinishStep, FailClear, FailGet, FailPut, ParentGet, ParentList, ParentPut, Emit, CtxDone,
      ErrsStay
<1>4. CASE Environment
  BY <1>4 DEF Environment, CreateJob, CreateFailedJob, Ageing, Connect, Break, SendTick,
     LoseResult, ReceiveResult, Crash, ErrsStay
<1>5. ASSUME NEW s \in Session, SendStep(s) PROVE ErrsStay
  BY <1>2, <1>5 DEF SendStep, Claim, SendCancel, Dispatch, SendDone, ErrsStay
<1>6. ASSUME NEW s \in Session, RecvStep(s) PROVE ErrsStay
  BY <1>2, <1>3, <1>6, ProcFacts DEF RecvStep, RecordEvent, PutResult, CtxDone
<1>7. ASSUME NEW s \in Session, ExitStep(s) PROVE ErrsStay
  BY <1>3, <1>7, ProcFacts
  DEF ExitStep, CloseSession, DropSession, CloseDone, FailDisconnected, ErrsStay
<1>8. CASE SweepStep
  BY <1>2, <1>3, <1>8, ProcFacts
  DEF SweepStep, SweepBegin, SweepDefer, SweepKids, SweepKillPut, SweepKilled, SweepNext,
      SweepKill, ErrsStay
<1>9. CASE UNCHANGED vars BY <1>9 DEF ErrsStay
<1> QED BY <1>4, <1>5, <1>6, <1>7, <1>8, <1>9 DEF Next

(* A step that starts, ends or creates jobs is a step of the abstract       *)
(* specification or leaves every phase as it is.                            *)
LEMMA PhaseStep ==
  ASSUME IndInv, [Next]_vars
  PROVE  \/ UNCHANGED Phases
         \/ \E j \in Job : Lifecycle!Submit(j) \/ Lifecycle!Start(j) \/ Lifecycle!Finish(j)
<1>1. status \in [Job -> Status] /\ errs \in Nat BY HubAssumption DEF IndInv, TypeOK
<1>2. CASE UNCHANGED status BY <1>2 DEF Phases
<1>3. CASE Starts
  <2>1. PICK j \in Job : status[j] = "queued" /\ status' = [status EXCEPT ![j] = "running"]
    BY <1>3 DEF Starts
  <2>2. Lifecycle!Start(j)
    BY <1>1, <2>1 DEF Lifecycle!Start, terminalJobStatus, Outcome
  <2> QED BY <2>2
<1>4. CASE Ends
  <2>1. PICK j \in Job, o \in Outcome :
          /\ status[j] # "absent" /\ status' = [status EXCEPT ![j] = o]
          /\ AgentOf[j] # None \/ errs # 0 \/ ChildrenDone(j)
    BY <1>4 DEF Ends
  <2>2. CASE terminalJobStatus(status[j])
    BY <1>1, <2>1, <2>2 DEF Phases, terminalJobStatus
  <2>3. CASE ~terminalJobStatus(status[j])
    <3>1. status[j] \in {"queued", "running"}
      BY <1>1, <2>1, <2>3 DEF Status, terminalJobStatus
    <3>2. ChildrenDone(j) => \A c \in Lifecycle!Kids(j) : Phases[c] = "done"
      BY DEF ChildrenDone, Children, Lifecycle!Kids, Phases
    <3>3. errs # 0 => errs > 0 BY <1>1
    <3>4. Phases[j] = status[j] BY <2>3 DEF Phases
    <3>5. Phases' = [Phases EXCEPT ![j] = "done"]
      BY <1>1, <2>1 DEF Phases, terminalJobStatus
    <3>6. Lifecycle!Finish(j)
      BY <2>1, <3>1, <3>2, <3>3, <3>4, <3>5 DEF Lifecycle!Finish, Phases
    <3> QED BY <3>6
  <2> QED BY <2>2, <2>3
<1>5. CASE Requests
  <2>1. PICK j \in Job : CreateJob(j) \/ CreateFailedJob(j) BY <1>5 DEF Requests
  <2>2. Parent[j] = None /\ status[j] = "absent" /\ Phases[j] = "absent"
    BY <2>1 DEF CreateJob, CreateFailedJob, NextRequest, Phases, terminalJobStatus, Outcome
  <2>3. CASE CreateJob(j)
    <3> DEFINE first == IF AgentOf[j] = None THEN "running" ELSE "queued"
    <3>1. Phases' = [k \in Job |-> IF k = j THEN first
                                   ELSE IF Parent[k] = j THEN "queued" ELSE Phases[k]]
      BY <2>3 DEF CreateJob, Phases, terminalJobStatus, Outcome, IsFanout
    <3> QED BY <2>2, <3>1 DEF Lifecycle!Submit, Phases
  <2>4. CASE CreateFailedJob(j)
    <3>1. AgentOf[j] # None /\ \A k \in Job : Parent[k] # j
      BY <2>2, <2>4, HubAssumption DEF CreateFailedJob, IsFanout
    <3>2. Phases' = [k \in Job |-> IF k = j THEN "done"
                                   ELSE IF Parent[k] = j THEN "queued" ELSE Phases[k]]
      BY <1>1, <2>4, <3>1 DEF CreateFailedJob, Phases, terminalJobStatus, Outcome
    <3> QED BY <2>2, <3>1, <3>2 DEF Lifecycle!Submit, Phases
  <2> QED BY <2>1, <2>3, <2>4
<1> QED BY <1>2, <1>3, <1>4, <1>5, StatusSteps

(* The hub implements the abstract life cycle: a request's jobs appear      *)
(* together, start once and end once, and a fan-out ends after its children *)
(* unless a store call has failed.                                          *)
THEOREM Refinement == Spec => ImplementsLifecycle
<1>1. Init => Lifecycle!Init
  BY DEF Init, Lifecycle!Init, terminalJobStatus, Outcome
<1>2. IndInv /\ [Next]_vars => [Lifecycle!Next]_(Lifecycle!vars)
  <2> SUFFICES ASSUME IndInv, [Next]_vars PROVE Lifecycle!Next
    OBVIOUS
  <2>1. (errs' > 0) \in BOOLEAN /\ (errs > 0 => errs' > 0) BY ErrsStep
  <2> QED BY <2>1, PhaseStep DEF Lifecycle!Next, Phases
<1> QED BY <1>1, <1>2, Inductive, PTL DEF Spec, ImplementsLifecycle, Lifecycle!Spec
=============================================================================
