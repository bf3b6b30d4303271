---------------------------- MODULE HubInductive ----------------------------
(***************************************************************************)
(* The inductive invariant behind the safety properties of Hub, in named    *)
(* parts. TLC checks it on small instances, HubProofs proves it.            *)
(***************************************************************************)
EXTENDS Hub

Waiting(j) == status[j] \in {"absent", "queued"}

(* What a goroutine is about to do fits the job it does it to. The outcome  *)
(* it is about to store is backed by a recorded summary; and while no store *)
(* call has failed only completeParentIfDone ends a parent, which it found  *)
(* without active children.                                                 *)
FanoutPCs == {"parGet", "parList", "parPut", "defer", "kids", "kill"}
LeafPCs   == {"event", "put", "fail", "killPut"}
ChildSucceeded(p) == \E c \in Children(p) : summary[c] = "succeeded"
FrameOK(p) ==
  LET f == proc[p]
  IN  /\ f.pc \notin {"idle", "drop"} => f.job \in Job /\ status[f.job] # "absent"
      /\ f.pc \in FanoutPCs => AgentOf[f.job] = None
      /\ f.pc \in LeafPCs => AgentOf[f.job] # None
      /\ f.pc \in {"event", "put", "parPut", "emit"} => f.out \in Outcome
      /\ f.pc = "killPut" => Parent[f.job] # None
      /\ f.pc = "emit" => Parent[f.job] = None /\ terminalJobStatus(status[f.job])
      /\ f.pc = "put" => summary[f.job] = f.out
      /\ f.pc = "parPut" /\ f.out = "succeeded" => ChildSucceeded(f.job)
      /\ errs = 0 /\ f.pc = "parPut" => ChildrenDone(f.job)
      /\ errs = 0 /\ f.pc \in {"failGet", "failPut"} => AgentOf[f.job] # None
FramesOK == \A p \in Proc : FrameOK(p)

(* What a goroutine has still to look at exists.                            *)
ListsOK ==
  /\ \A p \in Proc : \A j \in todo[p] : status[j] # "absent"
  /\ \A s \in Session : \A j \in todo[Exit(s)] : AgentOf[j] # None
  /\ \A c \in victims : Parent[c] # None /\ status[c] # "absent"

(* The jobs of a request are created together.                              *)
TogetherOK ==
  \A c \in Job : Parent[c] # None => (status[c] = "absent" <=> status[Parent[c]] = "absent")

(* Between its claim and its stream.Send a job is held by one send loop.    *)
HeldBy(s, j) == sender[s].pc = "send" /\ sender[s].job = j
ClaimsOK ==
  \A s \in Session : sender[s].pc = "send" =>
    /\ sender[s].job \in Job
    /\ AgentOf[sender[s].job] = SessionAgent[s]
    /\ ~Waiting(sender[s].job)
    /\ dispatches[sender[s].job] = 0
    /\ \A t \in Session : HeldBy(t, sender[s].job) => t = s

DispatchesOK ==
  \A j \in Job : dispatches[j] <= 1 /\ (dispatches[j] = 1 => ~Waiting(j))

(* A summary comes once, from the one dispatch of its job: it is still to   *)
(* come while the agent has the job, or is in the hands of one receive      *)
(* loop, and recorded events are not overwritten.                           *)
Handles(p, j) == proc[p].pc = "event" /\ proc[p].job = j
SummariesOK ==
  /\ \A j \in Job : dispatches[j] = 0 =>
       /\ summary[j] = None
       /\ \A s \in Session : j \notin exec[s]
       /\ \A p \in Proc : ~Handles(p, j)
  /\ \A s \in Session : \A j \in exec[s] :
       /\ summary[j] = None /\ AgentOf[j] # None
       /\ \A t \in Session : j \in exec[t] => t = s
       /\ \A p \in Proc : ~Handles(p, j)
  /\ \A p \in Proc : proc[p].pc = "event" =>
       /\ summary[proc[p].job] = None
       /\ \A q \in Proc : Handles(q, proc[p].job) => q = p

IndInv ==
  /\ TypeOK /\ FramesOK /\ ListsOK /\ TogetherOK
  /\ ClaimsOK /\ DispatchesOK /\ InflightWasClaimed /\ SummariesOK
  /\ SuccessHasEvidence /\ ParentAfterChildren /\ FinalAfterTerminal
=============================================================================
