-------------------------- MODULE HTTPAgentsProofs --------------------------
(***************************************************************************)
(* HTTP agents: one goroutine calls a job and the events of one attempt are *)
(* recorded, and the loops that run are those the record asks for, for any  *)
(* number of jobs, loops, requests and attempts.                            *)
(***************************************************************************)
EXTENDS HTTPAgents, FiniteSetTheorems, TLAPS

-----------------------------------------------------------------------------
(* The inductive invariant, in parts *)

(* Loops are used in their order, at most one by the boot and one by each   *)
(* request that is done.                                                    *)
Used     == {l \in Loop : loop[l].pc # "unused"}
Finished == {r \in Request : request[r].pc = "done"}
Booted   == IF boot = "done" THEN 1 ELSE 0
UsedOK ==
  /\ \E n \in Nat : Used = 1..n /\ n <= Booted + Cardinality(Finished)
  /\ cancelled \subseteq Used
  /\ registered # None => registered \in Used

(* Unless a loop was started before its predecessor had ended, what runs is *)
(* what is registered, and while a loop is ending nothing is.               *)
RegisteredOK ==
  /\ registered # None => configured
  /\ "overlap" \notin lapses =>
       Live = {registered} \ {None} /\ (Ending # {} => registered = None)

(* The last list that was applied is the record.                            *)
AppliedOK == (Quiet /\ lapses = {}) => (registered # None <=> enabled)

(* A job is with one loop, or in one call, or neither.                      *)
Starts(l, j) == loop[l].pc = "start" /\ loop[l].job = j
StartOK == \A l \in Loop : loop[l].pc = "start" =>
  /\ loop[l].job \in Job
  /\ \A k \in Loop : Starts(k, loop[l].job) => k = l

Untouched(j) == call[j].callers = 0 /\ call[j].pc = "none" /\ events[j] = {}
Called(j) ==
  /\ call[j].callers = 0 \/ call[j].callers = 1
  /\ call[j].callers = 0 => Untouched(j)
  /\ (status[j] = "queued" \/ \E l \in Loop : Starts(l, j)) => Untouched(j)
  /\ status[j] = "queued" => \A l \in Loop : ~Starts(l, j)

(* Attempts are counted while nothing has been delivered.                   *)
Attempted(j) ==
  /\ call[j].pc # "none" => call[j].by \in Loop
  /\ call[j].pc \in {"calling", "reading", "waiting"} => call[j].attempt # 0
  /\ call[j].pc = "waiting" => call[j].attempt # Attempts
  /\ call[j].pc \in {"begin", "waiting"} => ~call[j].hadEvent
  /\ (events[j] # {} /\ call[j].pc # "end") => call[j].hadEvent /\ events[j] = {call[j].attempt}
  /\ \A a, b \in events[j] : a = b

JobOK(j) == Called(j) /\ Attempted(j)

LoopsOK == UsedOK /\ RegisteredOK /\ AppliedOK
JobsOK  == StartOK /\ \A j \in Job : JobOK(j)
HTTPInv == TypeOK /\ LoopsOK /\ JobsOK

-----------------------------------------------------------------------------
(* Frames: what a step must leave alone *)

managed == <<enabled, configured, registered, boot, request, cancelled, lapses>>

(* No loop begins or ends, and nobody edits or reloads.                     *)
LEMMA SameLoops ==
  ASSUME LoopsOK, UNCHANGED managed,
         \A l \in Loop : /\ loop'[l].pc = "unused" <=> loop[l].pc = "unused"
                         /\ loop'[l].pc = "ended" <=> loop[l].pc = "ended"
  PROVE  LoopsOK'
<1>1. Used' = Used /\ Finished' = Finished /\ Booted' = Booted
  BY DEF Used, Finished, Booted, managed
<1>2. Live' = Live /\ Ending' = Ending
  <2>1. \A l \in Loop : Alive(l)' <=> Alive(l)
    BY DEF Alive
  <2>2. cancelled' = cancelled /\ cancelled \subseteq Loop
    BY DEF managed, LoopsOK, UsedOK, Used
  <2> QED BY <2>1, <2>2 DEF Live, Ending
<1>3. UsedOK'
  BY <1>1 DEF UsedOK, LoopsOK, managed
<1>4. RegisteredOK'
  BY <1>2 DEF RegisteredOK, LoopsOK, managed
<1>5. AppliedOK'
  BY DEF AppliedOK, LoopsOK, managed, Quiet
<1> QED BY <1>3, <1>4, <1>5 DEF LoopsOK

(* No loop takes or gives a job, and no call moves.                         *)
LEMMA SameJobs ==
  ASSUME JobsOK, UNCHANGED <<status, events, call>>,
         \A l \in Loop : /\ loop'[l].pc = "start" <=> loop[l].pc = "start"
                         /\ loop[l].pc = "start" => loop'[l].job = loop[l].job
  PROVE  JobsOK'
<1>1. \A l \in Loop : \A j : Starts(l, j)' <=> Starts(l, j)
  BY DEF Starts
<1>2. StartOK'
  BY <1>1 DEF JobsOK, StartOK, Starts
<1>3. ASSUME NEW j \in Job PROVE JobOK(j)'
  <2>1. Called(j)'
    BY <1>1 DEF JobsOK, JobOK, Called, Untouched
  <2>2. Attempted(j)'
    BY DEF JobsOK, JobOK, Attempted
  <2> QED BY <2>1, <2>2 DEF JobOK
<1> QED BY <1>2, <1>3 DEF JobsOK

(* The records of a loop that are used.                                     *)
LEMMA FrameType ==
  ASSUME TypeOK, NEW l \in Loop
  PROVE  /\ loop[l] \in Frame
         /\ [loop[l] EXCEPT !.pc = "probe"] \in Frame
         /\ \A b \in BOOLEAN : [loop[l] EXCEPT !.pc = "select", !.recovering = b] \in Frame
         /\ [loop[l] EXCEPT !.recovering = TRUE] \in Frame
         /\ [Idle EXCEPT !.pc = "ended"] \in Frame
         /\ \A b \in BOOLEAN, js \in SUBSET Job : InBatch(b, js) \in Frame
         /\ \A j \in Job : [loop[l] EXCEPT !.pc = "start", !.batch = @ \ {j}, !.job = j] \in Frame
<1>1. PICK f \in Frame : f = loop[l]
  BY DEF TypeOK
<1>2. /\ [f EXCEPT !.pc = "probe"] \in Frame
      /\ \A b \in BOOLEAN : [f EXCEPT !.pc = "select", !.recovering = b] \in Frame
      /\ [f EXCEPT !.recovering = TRUE] \in Frame
      /\ \A j \in Job : [f EXCEPT !.pc = "start", !.batch = @ \ {j}, !.job = j] \in Frame
  BY DEF Frame
<1>3. [Idle EXCEPT !.pc = "ended"] \in Frame /\ \A b \in BOOLEAN, js \in SUBSET Job : InBatch(b, js) \in Frame
  BY DEF Frame, Idle, InBatch
<1> QED BY <1>1, <1>2, <1>3, Zenon

(* A loop goes on, with no job in its hands before or after.                *)
LEMMA LoopTurns ==
  ASSUME HTTPInv, NEW l \in Loop, NEW f \in Frame, loop' = [loop EXCEPT ![l] = f],
         loop[l].pc \notin {"unused", "ended"}, f.pc \notin {"unused", "ended"}, UNCHANGED managed
  PROVE  /\ loop' \in [Loop -> Frame] /\ LoopsOK'
         /\ (loop[l].pc # "start" /\ f.pc # "start" /\ UNCHANGED <<status, events, call>>) => JobsOK'
<1>1. loop' \in [Loop -> Frame]
  BY DEF HTTPInv, TypeOK
<1>2. loop'[l] = f /\ \A k \in Loop : k # l => loop'[k] = loop[k]
  BY DEF HTTPInv, TypeOK
<1>3. LoopsOK'
  BY <1>2, SameLoops DEF HTTPInv
<1>4. ASSUME loop[l].pc # "start", f.pc # "start", UNCHANGED <<status, events, call>> PROVE JobsOK'
  BY <1>2, <1>4, SameJobs DEF HTTPInv
<1> QED BY <1>1, <1>3, <1>4

-----------------------------------------------------------------------------
(* Boot, requests and the loops they start: one lemma per action *)

(* There is a loop left for the boot and for every request.                 *)
LEMMA LoopsLeft ==
  ASSUME HTTPInv, StartLoop, boot # "done" \/ \E r \in Request : request[r].pc # "done"
  PROVE  \E l \in Loop :
           /\ loop[l].pc = "unused" /\ Used = 1..(l - 1) /\ l <= Booted + Cardinality(Finished) + 1
           /\ loop' = [loop EXCEPT ![l] = [loop[l] EXCEPT !.pc = "probe"]]
           /\ registered' = l
<1>1. PICK n \in Nat : Used = 1..n /\ n <= Booted + Cardinality(Finished)
  BY DEF HTTPInv, LoopsOK, UsedOK
<1>2. MaxLoops \in Nat /\ MaxRequests \in Nat /\ MaxLoops > MaxRequests
  BY HTTPAgentsAssumption
<1>3. IsFiniteSet(Request) /\ Cardinality(Request) = MaxRequests
  <2>1. IsFiniteSet(1..MaxRequests) /\ Cardinality(1..MaxRequests) = IF 1 > MaxRequests THEN 0 ELSE MaxRequests - 1 + 1
    BY <1>2, FS_Interval
  <2> QED BY <1>2, <2>1 DEF Request
<1>4. /\ IsFiniteSet(Finished) /\ Cardinality(Finished) \in Nat /\ Cardinality(Finished) <= MaxRequests
      /\ Cardinality(Finished) = MaxRequests => Finished = Request
  <2>1. Finished \in SUBSET Request
    BY DEF Finished
  <2> QED BY <1>3, <2>1, FS_Subset, FS_CardinalityType
<1>5. Booted + Cardinality(Finished) <= MaxRequests
  <2>1. CASE boot # "done"
    BY <1>2, <1>4, <2>1 DEF Booted
  <2>2. CASE \E r \in Request : request[r].pc # "done"
    <3>1. Finished # Request
      BY <2>2 DEF Finished
    <3> QED BY <1>2, <1>4, <3>1 DEF Booted
  <2> QED BY <2>1, <2>2
<1>6. Booted + Cardinality(Finished) \in Nat
  BY <1>4 DEF Booted
<1>7. Cardinality(Used) = n
  BY <1>1, FS_Interval
<1>8. n + 1 \in Loop /\ n + 1 \notin Used /\ n + 1 <= Booted + Cardinality(Finished) + 1 /\ (n + 1) - 1 = n
  BY <1>1, <1>2, <1>5, <1>6 DEF Loop
<1>9. loop[n + 1].pc = "unused"
  BY <1>8 DEF Used
<1>10. registered' = n + 1 /\ loop' = [loop EXCEPT ![n + 1].pc = "probe"]
  <2>1. 1 + n = n + 1
    OBVIOUS
  <2> QED BY <1>7, <2>1 DEF StartLoop, Used
<1>11. loop' = [loop EXCEPT ![n + 1] = [loop[n + 1] EXCEPT !.pc = "probe"]]
  BY <1>8, <1>10 DEF HTTPInv, TypeOK
<1> QED BY <1>1, <1>8, <1>9, <1>10, <1>11

(* A loop that is started is not cancelled, and the others go on.           *)
LEMMA LoopStarts ==
  ASSUME HTTPInv, NEW l \in Loop, loop[l].pc = "unused", Used = 1..(l - 1),
         loop' = [loop EXCEPT ![l] = [loop[l] EXCEPT !.pc = "probe"]]
  PROVE  /\ loop' \in [Loop -> Frame]
         /\ Used' = 1..l /\ l \notin cancelled /\ Alive(l)'
         /\ \A k \in Loop : k # l => (Alive(k)' <=> Alive(k))
         /\ UNCHANGED <<status, events, call>> => JobsOK'
<1> DEFINE f == [loop[l] EXCEPT !.pc = "probe"]
<1>1. f \in Frame /\ f.pc = "probe"
  <2>1. f \in Frame
    BY FrameType DEF HTTPInv
  <2>2. loop[l] \in Frame
    BY DEF HTTPInv, TypeOK
  <2> QED BY <2>1, <2>2 DEF Frame
<1> HIDE DEF f
<1>2. loop' = [loop EXCEPT ![l] = f]
  BY DEF f
<1>3. loop' \in [Loop -> Frame] /\ loop'[l] = f /\ \A k \in Loop : k # l => loop'[k] = loop[k]
  BY <1>1, <1>2 DEF HTTPInv, TypeOK
<1>4. Used' = Used \cup {l}
  BY <1>1, <1>3 DEF Used
<1>5. (1..(l - 1)) \cup {l} = 1..l
  BY HTTPAgentsAssumption DEF Loop
<1>6. l \notin cancelled
  BY DEF HTTPInv, LoopsOK, UsedOK, Used
<1>7. Alive(l)' /\ \A k \in Loop : k # l => (Alive(k)' <=> Alive(k))
  BY <1>1, <1>3 DEF Alive
<1>8. ASSUME UNCHANGED <<status, events, call>> PROVE JobsOK'
  BY <1>1, <1>3, <1>8, SameJobs DEF HTTPInv
<1> QED BY <1>3, <1>4, <1>5, <1>6, <1>7, <1>8

(* One more request is done.                                                *)
LEMMA OneMoreDone ==
  ASSUME HTTPInv, NEW r \in Request, request[r].pc # "done", request'[r].pc = "done",
         \A q \in Request : q # r => request'[q] = request[q]
  PROVE  Cardinality(Finished) \in Nat /\ Cardinality(Finished') = Cardinality(Finished) + 1
<1>1. IsFiniteSet(Request)
  <2>1. 1 \in Int /\ MaxRequests \in Int
    BY HTTPAgentsAssumption
  <2> QED BY <2>1, FS_Interval DEF Request
<1>2. Finished \in SUBSET Request /\ r \notin Finished /\ Finished' = Finished \cup {r}
  BY DEF Finished
<1>3. IsFiniteSet(Finished)
  BY <1>1, <1>2, FS_Subset
<1> HIDE DEF Finished
<1> QED BY <1>2, <1>3, FS_AddElement, FS_CardinalityType

(* The list at startup is read, or cannot be read.                          *)
LEMMA StepBootList ==
  ASSUME HTTPInv, BootList
  PROVE  HTTPInv'
<1>1. /\ boot = "list" /\ boot' = "start" /\ (configured => configured') /\ configured' \in BOOLEAN
      /\ lapses' = lapses \/ lapses' = lapses \cup {"unlisted"}
      /\ UNCHANGED <<storeVars, registered, running, cancelFns, request, loop, cancelled,
                     recoveryCh, call, aborted, healthy, flaps>>
  BY Zenon DEF BootList, HTTPInv, TypeOK
<1>2. TypeOK'
  BY <1>1 DEF HTTPInv, TypeOK, storeVars
<1>3. Used' = Used /\ Finished' = Finished /\ Booted' = Booted /\ Live' = Live /\ Ending' = Ending
  BY <1>1 DEF Used, Finished, Booted, Live, Ending, Alive
<1>4. UsedOK'
  BY <1>1, <1>3 DEF HTTPInv, LoopsOK, UsedOK
<1>5. RegisteredOK'
  BY <1>1, <1>3 DEF HTTPInv, LoopsOK, RegisteredOK
<1>6. AppliedOK'
  BY <1>1 DEF AppliedOK, Quiet
<1>7. JobsOK'
  BY <1>1, SameJobs DEF HTTPInv, storeVars
<1> QED BY <1>2, <1>4, <1>5, <1>6, <1>7 DEF HTTPInv, LoopsOK

(* The configured loop is started.                                          *)
LEMMA StepStartHTTPAgents ==
  ASSUME HTTPInv, startHTTPAgents
  PROVE  HTTPInv'
<1>1. /\ boot = "start" /\ boot' = "done"
      /\ lapses \subseteq lapses' /\ lapses' \subseteq {"overlap", "stale", "unlisted"}
      /\ "stale" \notin lapses' => configured = enabled
      /\ (configured /\ registered = None /\ "overlap" \notin lapses') => Ending = {}
      /\ UNCHANGED <<storeVars, configured, running, cancelFns, request, cancelled, recoveryCh,
                     call, aborted, healthy, flaps>>
  BY DEF startHTTPAgents, Noted, HTTPInv, TypeOK
<1>2. Booted = 0 /\ Booted' = 1 /\ Finished' = Finished /\ Cardinality(Finished) \in Nat
  <2>1. Finished \in SUBSET Request /\ IsFiniteSet(Request)
    BY HTTPAgentsAssumption, FS_Interval DEF Request, Finished
  <2>2. Cardinality(Finished) \in Nat
    BY <2>1, FS_Subset, FS_CardinalityType
  <2> QED BY <1>1, <2>2 DEF Booted, Finished
<1>3. CASE configured /\ registered = None
  <2>1. StartLoop
    BY <1>3 DEF startHTTPAgents
  <2>2. PICK l \in Loop :
           /\ loop[l].pc = "unused" /\ Used = 1..(l - 1) /\ l <= Booted + Cardinality(Finished) + 1
           /\ loop' = [loop EXCEPT ![l] = [loop[l] EXCEPT !.pc = "probe"]]
           /\ registered' = l
    BY <1>1, <2>1, LoopsLeft
  <2>3. /\ loop' \in [Loop -> Frame]
        /\ Used' = 1..l /\ l \notin cancelled /\ Alive(l)'
        /\ \A k \in Loop : k # l => (Alive(k)' <=> Alive(k))
        /\ JobsOK'
    BY <1>1, <2>2, LoopStarts DEF storeVars
  <2>4. TypeOK'
    BY <1>1, <2>2, <2>3 DEF HTTPInv, TypeOK, storeVars
  <2>5. l \in Nat /\ l # None /\ l \in Used'
    BY <2>3, HTTPAgentsAssumption DEF Loop
  <2>6. UsedOK'
    <3>1. cancelled' \subseteq Used'
      BY <1>1, <2>2, <2>3 DEF HTTPInv, LoopsOK, UsedOK, Used
    <3>2. l <= Booted' + Cardinality(Finished')
      BY <1>2, <2>2
    <3> QED BY <2>2, <2>3, <2>5, <3>1, <3>2 DEF UsedOK
  <2>7. RegisteredOK'
    <3>1. ASSUME "overlap" \notin lapses' PROVE Live' = {l} /\ Ending' = {}
      <4>1. Live = {} /\ Ending = {}
        BY <1>1, <1>3, <3>1 DEF HTTPInv, LoopsOK, RegisteredOK
      <4>2. Live' = Live \cup {l} /\ Ending' = Ending
        BY <1>1, <2>3 DEF Live, Ending, HTTPInv, TypeOK
      <4> QED BY <4>1, <4>2
    <3> QED BY <1>1, <1>3, <2>2, <2>5, <3>1 DEF RegisteredOK
  <2>8. AppliedOK'
    BY <1>1, <1>3, <2>2, <2>5 DEF AppliedOK, storeVars
  <2> QED BY <2>3, <2>4, <2>6, <2>7, <2>8 DEF HTTPInv, LoopsOK
<1>4. CASE ~(configured /\ registered = None)
  <2>1. UNCHANGED <<loop, registered>>
    BY <1>4 DEF startHTTPAgents
  <2>2. Used' = Used /\ Live' = Live /\ Ending' = Ending
    BY <1>1, <2>1 DEF Used, Live, Ending, Alive
  <2>3. TypeOK'
    BY <1>1, <2>1 DEF HTTPInv, TypeOK, storeVars
  <2>4. UsedOK'
    <3>1. PICK n \in Nat : Used = 1..n /\ n <= Booted + Cardinality(Finished)
      BY DEF HTTPInv, LoopsOK, UsedOK
    <3>2. n <= Booted' + Cardinality(Finished')
      BY <1>2, <3>1
    <3> QED BY <1>1, <2>1, <2>2, <3>1, <3>2 DEF HTTPInv, LoopsOK, UsedOK
  <2>5. RegisteredOK'
    BY <1>1, <2>1, <2>2 DEF HTTPInv, LoopsOK, RegisteredOK
  <2>6. AppliedOK'
    BY <1>1, <1>4, <2>1 DEF HTTPInv, LoopsOK, RegisteredOK, AppliedOK, storeVars
  <2>7. JobsOK'
    BY <1>1, <2>1, SameJobs DEF HTTPInv, storeVars
  <2> QED BY <2>3, <2>4, <2>5, <2>6, <2>7 DEF HTTPInv, LoopsOK
<1> QED BY <1>3, <1>4

(* The record is written; until its reload is done nothing is promised.     *)
LEMMA StepWriteNode ==
  ASSUME HTTPInv, NEW r \in Request, NEW v \in BOOLEAN, WriteNode(r, v)
  PROVE  HTTPInv'
<1>1. /\ enabled' = v /\ request[r].pc = "new" /\ request'[r].pc = "list"
      /\ \A q \in Request : q # r => request'[q] = request[q]
      /\ UNCHANGED <<presence, status, events, hubVars, boot, loop, cancelled, recoveryCh, call,
                     aborted, healthy, flaps, lapses>>
  BY DEF WriteNode, HTTPInv, TypeOK
<1>2. request' \in [Request -> [pc : {"new", "list", "apply", "done"}, listed : BOOLEAN]]
  BY DEF WriteNode, HTTPInv, TypeOK
<1>3. TypeOK'
  BY <1>1, <1>2 DEF HTTPInv, TypeOK, hubVars
<1>4. Used' = Used /\ Finished' = Finished /\ Booted' = Booted /\ Live' = Live /\ Ending' = Ending
  BY <1>1 DEF Used, Finished, Booted, Live, Ending, Alive
<1>5. UsedOK'
  BY <1>1, <1>4 DEF HTTPInv, LoopsOK, UsedOK, hubVars
<1>6. RegisteredOK'
  BY <1>1, <1>4 DEF HTTPInv, LoopsOK, RegisteredOK, hubVars
<1>7. AppliedOK'
  BY <1>1 DEF AppliedOK, Quiet
<1>8. JobsOK'
  BY <1>1, SameJobs DEF HTTPInv
<1> QED BY <1>3, <1>5, <1>6, <1>7, <1>8 DEF HTTPInv, LoopsOK

(* A reload reads its list, or fails.                                       *)
LEMMA StepReloadList ==
  ASSUME HTTPInv, NEW r \in Request, ReloadList(r)
  PROVE  HTTPInv'
<1>1. /\ request[r].pc = "list"
      /\ \A q \in Request : q # r => request'[q] = request[q]
      /\ UNCHANGED <<storeVars, hubVars, boot, loop, cancelled, recoveryCh, call, aborted,
                     healthy, flaps>>
  BY DEF ReloadList, HTTPInv, TypeOK
<1>2. \/ request'[r].pc = "apply" /\ lapses' = lapses
      \/ request'[r].pc = "done" /\ lapses' = lapses \cup {"unlisted"}
  BY DEF ReloadList, HTTPInv, TypeOK
<1>3. request' \in [Request -> [pc : {"new", "list", "apply", "done"}, listed : BOOLEAN]]
  BY DEF ReloadList, HTTPInv, TypeOK
<1>4. TypeOK'
  BY <1>1, <1>2, <1>3 DEF HTTPInv, TypeOK, storeVars, hubVars
<1>5. Used' = Used /\ Booted' = Booted /\ Live' = Live /\ Ending' = Ending
  BY <1>1 DEF Used, Booted, Live, Ending, Alive
<1>6. UsedOK'
  <2>1. PICK n \in Nat : Used = 1..n /\ n <= Booted + Cardinality(Finished)
    BY DEF HTTPInv, LoopsOK, UsedOK
  <2>2. n <= Booted' + Cardinality(Finished')
    <3>1. CASE request'[r].pc = "apply"
      <4>1. Finished' = Finished
        BY <1>1, <3>1 DEF Finished
      <4> QED BY <1>5, <2>1, <4>1
    <3>2. CASE request'[r].pc = "done"
      <4>1. Cardinality(Finished) \in Nat /\ Cardinality(Finished') = Cardinality(Finished) + 1
        BY <1>1, <3>2, OneMoreDone
      <4>2. Booted \in Nat
        BY DEF Booted
      <4> QED BY <1>5, <2>1, <4>1, <4>2
    <3> QED BY <1>2, <3>1, <3>2
  <2> QED BY <1>1, <1>5, <2>1, <2>2 DEF HTTPInv, LoopsOK, UsedOK, hubVars
<1>7. RegisteredOK'
  BY <1>1, <1>2, <1>5 DEF HTTPInv, LoopsOK, RegisteredOK, hubVars
<1>8. AppliedOK'
  BY <1>1, <1>2 DEF AppliedOK, Quiet
<1>9. JobsOK'
  BY <1>1, SameJobs DEF HTTPInv, storeVars
<1> QED BY <1>4, <1>6, <1>7, <1>8, <1>9 DEF HTTPInv, LoopsOK

(* A reload applies its list under Hub.mu.                                  *)
LEMMA StepReloadApply ==
  ASSUME HTTPInv, NEW r \in Request, ReloadApply(r)
  PROVE  HTTPInv'
<1>1. /\ request[r].pc = "apply" /\ request'[r].pc = "done"
      /\ \A q \in Request : q # r => request'[q] = request[q]
      /\ configured' = request[r].listed /\ request[r].listed \in BOOLEAN
      /\ lapses \subseteq lapses' /\ lapses' \subseteq {"overlap", "stale", "unlisted"}
      /\ "stale" \notin lapses' => request[r].listed = enabled
      /\ (request[r].listed /\ registered = None /\ "overlap" \notin lapses') => Ending = {}
      /\ UNCHANGED <<storeVars, running, cancelFns, boot, recoveryCh, call, aborted, healthy, flaps>>
  BY DEF ReloadApply, Noted, HTTPInv, TypeOK
<1>2. request' \in [Request -> [pc : {"new", "list", "apply", "done"}, listed : BOOLEAN]]
  BY DEF ReloadApply, HTTPInv, TypeOK
<1>3. /\ Cardinality(Finished) \in Nat /\ Cardinality(Finished') = Cardinality(Finished) + 1
      /\ Booted' = Booted /\ Booted \in Nat
  BY <1>1, OneMoreDone DEF Booted
<1>4. PICK n \in Nat : Used = 1..n /\ n <= Booted + Cardinality(Finished)
  BY DEF HTTPInv, LoopsOK, UsedOK
<1>5. n <= Booted' + Cardinality(Finished')
  BY <1>3, <1>4
<1>6. CASE request[r].listed /\ registered = None
  <2>1. StartLoop /\ UNCHANGED cancelled
    BY <1>6 DEF ReloadApply
  <2>2. PICK l \in Loop :
           /\ loop[l].pc = "unused" /\ Used = 1..(l - 1) /\ l <= Booted + Cardinality(Finished) + 1
           /\ loop' = [loop EXCEPT ![l] = [loop[l] EXCEPT !.pc = "probe"]]
           /\ registered' = l
    BY <1>1, <2>1, LoopsLeft
  <2>3. /\ loop' \in [Loop -> Frame]
        /\ Used' = 1..l /\ l \notin cancelled /\ Alive(l)'
        /\ \A k \in Loop : k # l => (Alive(k)' <=> Alive(k))
        /\ JobsOK'
    BY <1>1, <2>2, LoopStarts DEF storeVars
  <2>4. TypeOK'
    BY <1>1, <1>2, <2>1, <2>2, <2>3 DEF HTTPInv, TypeOK, storeVars
  <2>5. l \in Nat /\ l # None /\ l \in Used'
    BY <2>3, HTTPAgentsAssumption DEF Loop
  <2>6. UsedOK'
    <3>1. cancelled' \subseteq Used'
      BY <2>1, <2>2, <2>3 DEF HTTPInv, LoopsOK, UsedOK, Used
    <3>2. l <= Booted' + Cardinality(Finished')
      BY <1>3, <2>2, <2>5
    <3> QED BY <2>2, <2>3, <2>5, <3>1, <3>2 DEF UsedOK
  <2>7. RegisteredOK'
    <3>1. ASSUME "overlap" \notin lapses' PROVE Live' = {l} /\ Ending' = {}
      <4>1. Live = {} /\ Ending = {}
        BY <1>1, <1>6, <3>1 DEF HTTPInv, LoopsOK, RegisteredOK
      <4>2. Live' = Live \cup {l} /\ Ending' = Ending
        BY <2>1, <2>3 DEF Live, Ending, HTTPInv, TypeOK
      <4> QED BY <4>1, <4>2
    <3> QED BY <1>1, <1>6, <2>2, <2>5, <3>1 DEF RegisteredOK
  <2>8. AppliedOK'
    BY <1>1, <1>6, <2>2, <2>5 DEF AppliedOK, storeVars
  <2> QED BY <2>3, <2>4, <2>6, <2>7, <2>8 DEF HTTPInv, LoopsOK
<1>7. CASE request[r].listed /\ registered # None
  <2>1. UNCHANGED <<loop, registered, cancelled>>
    BY <1>7 DEF ReloadApply
  <2>2. Used' = Used /\ Live' = Live /\ Ending' = Ending
    BY <2>1 DEF Used, Live, Ending, Alive
  <2>3. TypeOK'
    BY <1>1, <1>2, <2>1 DEF HTTPInv, TypeOK, storeVars
  <2>4. UsedOK'
    BY <1>4, <1>5, <2>1, <2>2 DEF HTTPInv, LoopsOK, UsedOK
  <2>5. RegisteredOK'
    BY <1>1, <1>7, <2>1, <2>2 DEF HTTPInv, LoopsOK, RegisteredOK
  <2>6. AppliedOK'
    BY <1>1, <1>7, <2>1 DEF AppliedOK, storeVars
  <2>7. JobsOK'
    BY <1>1, <2>1, SameJobs DEF HTTPInv, storeVars
  <2> QED BY <2>3, <2>4, <2>5, <2>6, <2>7 DEF HTTPInv, LoopsOK
<1>8. CASE ~request[r].listed
  <2>1. cancelled' = cancelled \cup ({registered} \ {None}) /\ registered' = None /\ loop' = loop
    BY <1>8 DEF ReloadApply
  <2>2. Used' = Used /\ \A l \in Loop : Alive(l)' <=> Alive(l)
    BY <2>1 DEF Used, Alive
  <2>3. TypeOK'
    BY <1>1, <1>2, <2>1 DEF HTTPInv, TypeOK, storeVars
  <2>4. UsedOK'
    BY <1>4, <1>5, <2>1, <2>2 DEF HTTPInv, LoopsOK, UsedOK
  <2>5. RegisteredOK'
    <3>1. ASSUME "overlap" \notin lapses' PROVE Live' = {}
      <4>1. Live = {registered} \ {None}
        BY <1>1, <3>1 DEF HTTPInv, LoopsOK, RegisteredOK
      <4> QED BY <2>1, <2>2, <4>1 DEF Live
    <3> QED BY <2>1, <3>1 DEF RegisteredOK
  <2>6. AppliedOK'
    BY <1>1, <1>8, <2>1 DEF AppliedOK, storeVars
  <2>7. JobsOK'
    BY <1>1, <2>1, SameJobs DEF HTTPInv, storeVars
  <2> QED BY <2>3, <2>4, <2>5, <2>6, <2>7 DEF HTTPInv, LoopsOK
<1> QED BY <1>1, <1>6, <1>7, <1>8

-----------------------------------------------------------------------------
(* The loop: one lemma per action *)

(* A row of the agents table, after a store call of a loop.                 *)
LEMMA StoreType ==
  ASSUME HTTPInv, NEW l, NEW p \in {"absent", "online", "offline"}, Store(l, p)
  PROVE  presence' \in {"absent", "online", "offline"}
BY DEF HTTPInv, TypeOK, Store

(* A cancelled loop ends; what is registered under its id goes with it, and *)
(* without an overlap that is nothing.                                      *)
LEMMA StepLoopEnd ==
  ASSUME HTTPInv, NEW l \in Loop, LoopEnd(l)
  PROVE  HTTPInv'
<1>1. /\ loop[l].pc = "select" /\ l \in cancelled /\ registered' = None
      /\ UNCHANGED <<enabled, status, events, configured, running, cancelFns, boot, request,
                     cancelled, recoveryCh, call, aborted, healthy, flaps, lapses>>
  BY DEF LoopEnd
<1>2. loop' \in [Loop -> Frame] /\ loop'[l].pc = "ended" /\ \A k \in Loop : k # l => loop'[k] = loop[k]
  <2>1. [Idle EXCEPT !.pc = "ended"] \in Frame /\ [Idle EXCEPT !.pc = "ended"].pc = "ended"
    BY DEF Idle, Frame
  <2> QED BY <2>1 DEF LoopEnd, HTTPInv, TypeOK
<1>3. TypeOK'
  BY <1>1, <1>2 DEF LoopEnd, HTTPInv, TypeOK, Marked
<1>4. Used' = Used /\ Finished' = Finished /\ Booted' = Booted
  BY <1>1, <1>2 DEF Used, Finished, Booted
<1>5. UsedOK'
  BY <1>1, <1>4 DEF HTTPInv, LoopsOK, UsedOK
<1>6. "overlap" \notin lapses => registered = None
  <2>1. l \in Ending
    BY <1>1 DEF Ending, Alive
  <2> QED BY <2>1 DEF HTTPInv, LoopsOK, RegisteredOK
<1>7. Live' = Live
  <2>1. \A k \in Loop : k # l => (Alive(k)' <=> Alive(k))
    BY <1>2 DEF Alive
  <2> QED BY <1>1, <2>1 DEF Live
<1>8. RegisteredOK'
  BY <1>1, <1>6, <1>7 DEF HTTPInv, LoopsOK, RegisteredOK
<1>9. AppliedOK'
  BY <1>1, <1>6 DEF HTTPInv, LoopsOK, AppliedOK, Quiet
<1>10. JobsOK'
  BY <1>1, <1>2, SameJobs DEF HTTPInv
<1> QED BY <1>3, <1>5, <1>8, <1>9, <1>10 DEF HTTPInv, LoopsOK

(* The first probe, a recovery, and ticks: the loop goes on without a job.  *)
LEMMA StepTicks ==
  ASSUME HTTPInv, NEW l \in Loop, Startup(l) \/ TakeRecovery(l) \/ TickFails(l) \/ Tick(l)
  PROVE  HTTPInv'
<1>1. /\ loop[l].pc \in {"probe", "select"}
      /\ UNCHANGED <<enabled, status, events, hubVars, boot, request, cancelled, call, aborted,
                     healthy, flaps, lapses>>
      /\ recoveryCh' \subseteq recoveryCh
  BY DEF Startup, TakeRecovery, TickFails, Tick, procVars
<1>2. presence' \in {"absent", "online", "offline"}
  <2>1. \A p \in {"online", "offline"} : Marked(p) \in {"absent", "online", "offline"}
    BY DEF Marked
  <2>2. CASE Startup(l)
    BY <2>2, StoreType DEF Startup
  <2>3. CASE TakeRecovery(l) \/ TickFails(l)
    BY <2>1, <2>3, StoreType DEF TakeRecovery, TickFails
  <2>4. CASE Tick(l)
    BY <2>1, <2>4, StoreType DEF Tick
  <2> QED BY <2>2, <2>3, <2>4
<1>3. PICK f \in Frame : loop' = [loop EXCEPT ![l] = f] /\ f.pc \in {"select", "batch"}
  <2>0. loop[l] \in Frame /\ loop \in [Loop -> Frame]
    BY DEF HTTPInv, TypeOK
  <2>1. CASE Startup(l)
    <3> DEFINE g == [loop[l] EXCEPT !.pc = "select", !.recovering = ~ProbeWorks(l)]
    <3>1. g \in Frame
      <4>1. (~ProbeWorks(l)) \in BOOLEAN
        BY Zenon
      <4> QED BY <4>1, FrameType DEF HTTPInv
    <3>2. g.pc = "select"
      BY <2>0 DEF Frame
    <3>3. loop' = [loop EXCEPT ![l] = g]
      BY <2>0, <2>1 DEF Startup
    <3> HIDE DEF g
    <3> QED BY <3>1, <3>2, <3>3
  <2>2. CASE TakeRecovery(l)
    <3> DEFINE g == [loop[l] EXCEPT !.recovering = TRUE]
    <3>1. g \in Frame
      BY FrameType DEF HTTPInv
    <3>2. g.pc = "select"
      BY <2>0, <2>2 DEF Frame, TakeRecovery
    <3>3. loop' = [loop EXCEPT ![l] = g]
      BY <2>0, <2>2 DEF TakeRecovery
    <3> HIDE DEF g
    <3> QED BY <3>1, <3>2, <3>3
  <2>3. CASE TickFails(l)
    <3>1. loop' = [loop EXCEPT ![l] = loop[l]] /\ loop[l].pc = "select"
      BY <2>0, <2>3 DEF TickFails, procVars
    <3> QED BY <2>0, <3>1
  <2>4. CASE Tick(l)
    <3>1. PICK batch \in SUBSET Job : loop' = [loop EXCEPT ![l] = InBatch(FALSE, batch)]
      BY <2>4 DEF Tick
    <3>2. InBatch(FALSE, batch) \in Frame
      BY FrameType DEF HTTPInv
    <3>3. InBatch(FALSE, batch).pc \in {"select", "batch"}
      BY DEF InBatch
    <3> QED BY <3>1, <3>2, <3>3
  <2> QED BY <2>1, <2>2, <2>3, <2>4
<1>4. loop' \in [Loop -> Frame] /\ LoopsOK' /\ JobsOK'
  BY <1>1, <1>3, LoopTurns DEF managed, hubVars
<1>5. TypeOK'
  BY <1>1, <1>2, <1>4 DEF HTTPInv, TypeOK, hubVars
<1> QED BY <1>4, <1>5 DEF HTTPInv

(* A job is claimed once, because only a queued one is; or it is skipped.   *)
LEMMA StepClaim ==
  ASSUME HTTPInv, NEW l \in Loop, NEW j \in Job, Claim(l, j)
  PROVE  HTTPInv'
<1>1. /\ loop[l].pc = "batch"
      /\ UNCHANGED <<enabled, presence, events, hubVars, boot, request, cancelled, recoveryCh, call,
                     aborted, healthy, flaps, lapses>>
  BY DEF Claim
<1>0. loop[l] \in Frame /\ loop \in [Loop -> Frame]
  BY DEF HTTPInv, TypeOK
<1>2. CASE /\ status[j] = "queued" /\ status' = [status EXCEPT ![j] = "running"]
           /\ loop' = [loop EXCEPT ![l].pc = "start", ![l].batch = @ \ {j}, ![l].job = j]
  <2> DEFINE f == [loop[l] EXCEPT !.pc = "start", !.batch = @ \ {j}, !.job = j]
  <2>1. f \in Frame
    BY FrameType DEF HTTPInv
  <2>2. f.pc = "start" /\ f.job = j
    BY <1>0 DEF Frame
  <2>3. loop' = [loop EXCEPT ![l] = f]
    BY <1>0, <1>2
  <2> HIDE DEF f
  <2>4. loop' \in [Loop -> Frame] /\ LoopsOK'
    BY <1>1, <2>1, <2>2, <2>3, LoopTurns DEF managed, hubVars
  <2>5. TypeOK'
    BY <1>1, <1>2, <2>4 DEF HTTPInv, TypeOK, hubVars
  <2>6. loop'[l] = f /\ \A k \in Loop : k # l => loop'[k] = loop[k]
    BY <1>0, <2>3
  <2>7. \A i \in Job : i # j => status'[i] = status[i]
    BY <1>2 DEF HTTPInv, TypeOK
  <2>8. status'[j] = "running" /\ Untouched(j) /\ \A k \in Loop : ~Starts(k, j)
    BY <1>2 DEF HTTPInv, TypeOK, JobsOK, JobOK, Called
  <2>9. \A k \in Loop : \A i \in Job : Starts(k, i)' <=> ((Starts(k, i) /\ k # l) \/ (k = l /\ i = j))
    BY <1>1, <2>2, <2>6 DEF Starts
  <2>10. StartOK'
    <3> SUFFICES ASSUME NEW k \in Loop, loop'[k].pc = "start"
                 PROVE  /\ loop'[k].job \in Job
                        /\ \A m \in Loop : (loop'[m].pc = "start" /\ loop'[m].job = loop'[k].job) => m = k
      BY DEF StartOK, Starts
    <3>0. \A m \in Loop : \A i \in Job :
            (loop'[m].pc = "start" /\ loop'[m].job = i) <=> ((Starts(m, i) /\ m # l) \/ (m = l /\ i = j))
      BY <2>9 DEF Starts
    <3>1. CASE k = l
      BY <2>2, <2>6, <2>8, <3>0, <3>1
    <3>2. CASE k # l
      <4>1. loop[k].job \in Job /\ loop'[k] = loop[k] /\ \A m \in Loop : Starts(m, loop[k].job) => m = k
        BY <2>6, <3>2 DEF HTTPInv, JobsOK, StartOK
      <4>2. loop[k].job # j
        BY <2>8, <3>2, <4>1 DEF Starts
      <4> QED BY <3>0, <4>1, <4>2
    <3> QED BY <3>1, <3>2
  <2>11. ASSUME NEW i \in Job PROVE JobOK(i)'
    <3>1. Attempted(i)'
      BY <1>1 DEF HTTPInv, JobsOK, JobOK, Attempted
    <3>2. CASE i = j
      <4>1. Untouched(i)' /\ status'[i] # "queued"
        BY <1>1, <2>8, <3>2 DEF Untouched
      <4> QED BY <3>1, <4>1 DEF JobOK, Called, Untouched
    <3>3. CASE i # j
      <4>1. status'[i] = status[i] /\ \A k \in Loop : Starts(k, i)' => Starts(k, i)
        BY <2>7, <2>9, <3>3
      <4>2. Called(i)'
        BY <1>1, <4>1 DEF HTTPInv, JobsOK, JobOK, Called, Untouched
      <4> QED BY <3>1, <4>2 DEF JobOK
    <3> QED BY <3>2, <3>3
  <2> QED BY <2>4, <2>5, <2>10, <2>11 DEF HTTPInv, JobsOK
<1>3. CASE loop' = [loop EXCEPT ![l] = InBatch(@.recovering, @.batch \ {j})] /\ UNCHANGED status
  <2> DEFINE f == InBatch(loop[l].recovering, loop[l].batch \ {j})
  <2>1. f \in Frame
    <3>1. loop[l].recovering \in BOOLEAN /\ loop[l].batch \ {j} \in SUBSET Job
      BY <1>0 DEF Frame
    <3> QED BY <3>1, FrameType DEF HTTPInv
  <2>2. f.pc \in {"select", "batch"}
    BY DEF InBatch
  <2>3. loop' = [loop EXCEPT ![l] = f]
    BY <1>0, <1>3
  <2> HIDE DEF f
  <2>4. loop' \in [Loop -> Frame] /\ LoopsOK' /\ JobsOK'
    BY <1>1, <1>3, <2>1, <2>2, <2>3, LoopTurns DEF managed, hubVars
  <2>5. TypeOK'
    BY <1>1, <1>3, <2>4 DEF HTTPInv, TypeOK, hubVars
  <2> QED BY <2>4, <2>5 DEF HTTPInv
<1> QED BY <1>2, <1>3 DEF Claim

(* The record of a call that begins, and of one that has ended.             *)
LEMMA CallType ==
  ASSUME NEW l \in Loop, NEW n \in Nat, NEW lost \in BOOLEAN
  PROVE  /\ [NoCall EXCEPT !.pc = "begin", !.by = l, !.callers = n] \in Call
         /\ [NoCall EXCEPT !.pc = "end", !.by = l, !.callers = n, !.lost = lost] \in Call
<1>1. 0 \in 0..Attempts
  BY HTTPAgentsAssumption
<1>2. PICK d \in Call : d = NoCall
  BY <1>1 DEF Call, NoCall
<1>3. /\ [d EXCEPT !.pc = "begin", !.by = l, !.callers = n] \in Call
      /\ [d EXCEPT !.pc = "end", !.by = l, !.callers = n, !.lost = lost] \in Call
  BY DEF Call
<1> QED BY <1>2, <1>3, Zenon

(* The goroutine of a job is started, and it is the first.                  *)
LEMMA StepStartCall ==
  ASSUME HTTPInv, NEW l \in Loop, StartCall(l)
  PROVE  HTTPInv'
<1>1. PICK j \in Job : j = loop[l].job /\ \A k \in Loop : Starts(k, j) => k = l
  BY DEF StartCall, HTTPInv, JobsOK, StartOK
<1>2. /\ loop[l].pc = "start" /\ running' = running \cup {j}
      /\ UNCHANGED <<storeVars, configured, registered, cancelFns, boot, request, cancelled,
                     recoveryCh, aborted, healthy, flaps, lapses>>
  BY <1>1 DEF StartCall
<1>3. Starts(l, j) /\ Untouched(j) /\ status[j] # "queued"
  BY <1>1, <1>2 DEF Starts, HTTPInv, JobsOK, JobOK, Called
<1>0. loop[l] \in Frame /\ loop \in [Loop -> Frame] /\ call \in [Job -> Call]
  BY DEF HTTPInv, TypeOK
<1> DEFINE f == InBatch(loop[l].recovering, loop[l].batch)
           c == [NoCall EXCEPT !.pc = "begin", !.by = l, !.callers = call[j].callers + 1]
<1>4. f \in Frame /\ f.pc \in {"select", "batch"}
  <2>1. loop[l].recovering \in BOOLEAN /\ loop[l].batch \in SUBSET Job
    BY <1>0 DEF Frame
  <2>2. f \in Frame
    BY <2>1, FrameType DEF HTTPInv
  <2> QED BY <2>2 DEF InBatch
<1>5. c \in Call
  <2>1. call[j].callers + 1 \in Nat
    BY <1>3 DEF Untouched
  <2> QED BY <2>1, CallType
<1>6. c.pc = "begin" /\ c.by = l /\ c.callers = 1 /\ ~c.hadEvent
  BY <1>3 DEF NoCall, Untouched
<1>7. loop' = [loop EXCEPT ![l] = f] /\ call' = [call EXCEPT ![j] = c]
  BY <1>0, <1>1 DEF StartCall
<1> HIDE DEF f, c
<1>8. loop' \in [Loop -> Frame] /\ LoopsOK'
  BY <1>2, <1>4, <1>7, LoopTurns DEF managed, storeVars
<1>9. call' \in [Job -> Call] /\ call'[j] = c /\ \A i \in Job : i # j => call'[i] = call[i]
  BY <1>0, <1>5, <1>7
<1>10. TypeOK'
  BY <1>2, <1>8, <1>9 DEF HTTPInv, TypeOK, storeVars
<1>11. loop'[l] = f /\ \A k \in Loop : k # l => loop'[k] = loop[k]
  BY <1>0, <1>7
<1>12. \A k \in Loop : \A i : Starts(k, i)' <=> (Starts(k, i) /\ k # l)
  BY <1>4, <1>11 DEF Starts
<1>13. StartOK'
  BY <1>11, <1>12, <1>4 DEF HTTPInv, JobsOK, StartOK, Starts
<1>14. ASSUME NEW i \in Job PROVE JobOK(i)'
  <2>1. CASE i = j
    <3>1. \A k \in Loop : ~Starts(k, i)'
      BY <1>1, <1>12, <2>1
    <3>2. Called(i)'
      BY <1>2, <1>3, <1>6, <1>9, <2>1, <3>1 DEF Called, Untouched, storeVars
    <3>3. Attempted(i)'
      BY <1>2, <1>3, <1>6, <1>9, <2>1 DEF Attempted, Untouched, storeVars
    <3> QED BY <3>2, <3>3 DEF JobOK
  <2>2. CASE i # j
    <3>1. call'[i] = call[i] /\ events' = events /\ status' = status
      BY <1>2, <1>9, <2>2 DEF storeVars
    <3>2. Called(i)'
      BY <1>12, <3>1 DEF HTTPInv, JobsOK, JobOK, Called, Untouched
    <3>3. Attempted(i)'
      BY <3>1 DEF HTTPInv, JobsOK, JobOK, Attempted
    <3> QED BY <3>2, <3>3 DEF JobOK
  <2> QED BY <2>1, <2>2
<1> QED BY <1>8, <1>10, <1>13, <1>14 DEF HTTPInv, JobsOK

-----------------------------------------------------------------------------
(* The goroutine of a job: one lemma per action *)

(* A step of the goroutine of a job, whose attempts are in order after it.  *)
LEMMA CallMoves ==
  ASSUME HTTPInv, NEW j \in Job, NEW c \in Call, call' = [call EXCEPT ![j] = c],
         c.callers = call[j].callers, c.by = call[j].by, call[j].pc # "none",
         \A i \in Job : i # j => status'[i] = status[i] /\ events'[i] = events[i],
         status'[j] = "queued" => status[j] = "queued",
         c.pc \in {"calling", "reading", "waiting"} => c.attempt # 0,
         c.pc = "waiting" => c.attempt # Attempts,
         c.pc \in {"begin", "waiting"} => ~c.hadEvent,
         (events'[j] # {} /\ c.pc # "end") => c.hadEvent /\ events'[j] = {c.attempt},
         \A a, b \in events'[j] : a = b,
         UNCHANGED <<managed, loop>>
  PROVE  call' \in [Job -> Call] /\ LoopsOK' /\ JobsOK'
<1>1. call' \in [Job -> Call] /\ call'[j] = c /\ \A i \in Job : i # j => call'[i] = call[i]
  BY DEF HTTPInv, TypeOK
<1>2. LoopsOK'
  BY SameLoops DEF HTTPInv
<1>3. \A l \in Loop : \A i : Starts(l, i)' <=> Starts(l, i)
  BY DEF Starts
<1>4. StartOK'
  BY <1>3 DEF HTTPInv, JobsOK, StartOK, Starts
<1>5. call[j].callers = 1 /\ status[j] # "queued" /\ (\A l \in Loop : ~Starts(l, j)) /\ call[j].by \in Loop
  BY DEF HTTPInv, JobsOK, JobOK, Called, Untouched, Attempted
<1>6. Called(j)'
  BY <1>1, <1>3, <1>5 DEF Called
<1>7. Attempted(j)'
  BY <1>1, <1>5 DEF Attempted
<1>8. ASSUME NEW i \in Job, i # j PROVE JobOK(i)'
  <2>1. call'[i] = call[i] /\ events'[i] = events[i] /\ status'[i] = status[i]
    BY <1>1, <1>8
  <2>2. Called(i)'
    BY <1>3, <2>1 DEF HTTPInv, JobsOK, JobOK, Called, Untouched
  <2>3. Attempted(i)'
    BY <2>1 DEF HTTPInv, JobsOK, JobOK, Attempted
  <2> QED BY <2>2, <2>3 DEF JobOK
<1> QED BY <1>1, <1>2, <1>4, <1>6, <1>7, <1>8 DEF JobsOK, JobOK

(* The call goes to another place, and nothing else of it changes.          *)
LEMMA Goes ==
  ASSUME TypeOK, NEW j \in Job, NEW p \in {"calling", "reading", "waiting", "error", "broken"},
         Goto(j, p)
  PROVE  \E c \in Call :
           /\ call' = [call EXCEPT ![j] = c] /\ c.pc = p /\ c.by = call[j].by
           /\ c.attempt = call[j].attempt /\ c.hadEvent = call[j].hadEvent /\ c.callers = call[j].callers
<1>1. PICK d \in Call : d = call[j]
  BY DEF TypeOK
<1> DEFINE c == [d EXCEPT !.pc = p]
<1>2. c \in Call /\ c.pc = p /\ c.by = d.by /\ c.attempt = d.attempt /\ c.hadEvent = d.hadEvent
      /\ c.callers = d.callers
  BY DEF Call
<1>3. call' = [call EXCEPT ![j] = c]
  BY <1>1 DEF Goto, TypeOK
<1> HIDE DEF c
<1> QED BY <1>1, <1>2, <1>3

(* Steps that only move the call: the request is taken, refused, or breaks. *)
LEMMA StepGoes ==
  ASSUME HTTPInv, NEW j \in Job, Accepted(j) \/ Rejected(j) \/ ConnectionError(j)
  PROVE  HTTPInv'
<1>1. PICK p \in {"reading", "error", "broken", "waiting"} :
        /\ Goto(j, p)
        /\ p = "waiting" => ~call[j].hadEvent /\ call[j].attempt # Attempts
  BY DEF Accepted, Rejected, ConnectionError
<1>2. call[j].pc \in {"calling", "reading"} /\ UNCHANGED onlyCall
  BY DEF Accepted, Rejected, ConnectionError, At
<1>3. PICK c \in Call :
        /\ call' = [call EXCEPT ![j] = c] /\ c.pc = p /\ c.by = call[j].by
        /\ c.attempt = call[j].attempt /\ c.hadEvent = call[j].hadEvent /\ c.callers = call[j].callers
  BY <1>1, Goes DEF HTTPInv
<1>4. /\ call[j].attempt # 0 /\ (events[j] # {} => call[j].hadEvent /\ events[j] = {call[j].attempt})
      /\ \A a, b \in events[j] : a = b
  BY <1>2 DEF HTTPInv, JobsOK, JobOK, Attempted
<1>5. call' \in [Job -> Call] /\ LoopsOK' /\ JobsOK'
  BY <1>1, <1>2, <1>3, <1>4, CallMoves DEF onlyCall, managed, hubVars
<1>6. TypeOK'
  BY <1>2, <1>5 DEF HTTPInv, TypeOK, onlyCall, hubVars
<1> QED BY <1>5, <1>6 DEF HTTPInv

(* The first attempt begins.                                                *)
LEMMA StepSetInflightCancel ==
  ASSUME HTTPInv, NEW j \in Job, setInflightCancel(j)
  PROVE  HTTPInv'
<1>1. /\ call[j].pc = "begin" /\ cancelFns' = cancelFns \cup {j}
      /\ UNCHANGED <<storeVars, configured, registered, running, boot, request, loop, cancelled,
                     recoveryCh, aborted, healthy, flaps, lapses>>
  BY DEF setInflightCancel, At
<1>2. PICK d \in Call : d = call[j]
  BY DEF HTTPInv, TypeOK
<1> DEFINE c == [d EXCEPT !.pc = "calling", !.attempt = 1]
<1>3. c \in Call /\ c.pc = "calling" /\ c.by = d.by /\ c.attempt = 1 /\ c.callers = d.callers
  <2>1. 1 \in 0..Attempts
    BY HTTPAgentsAssumption
  <2> QED BY <2>1 DEF Call
<1>4. call' = [call EXCEPT ![j] = c]
  BY <1>2 DEF setInflightCancel, HTTPInv, TypeOK
<1> HIDE DEF c
<1>5. events[j] = {}
  BY <1>1 DEF HTTPInv, JobsOK, JobOK, Attempted
<1>6. call' \in [Job -> Call] /\ LoopsOK' /\ JobsOK'
  <2>1. UNCHANGED <<managed, loop, status, events>>
    BY <1>1 DEF storeVars, managed
  <2>2. c.attempt # 0 /\ c.pc \notin {"begin", "waiting"} /\ call[j].pc # "none" /\ c.callers = call[j].callers
        /\ c.by = call[j].by
    BY <1>1, <1>2, <1>3
  <2>3. events'[j] = {}
    BY <1>5, <2>1
  <2> QED BY <1>3, <1>4, <2>1, <2>2, <2>3, CallMoves
<1>7. TypeOK'
  BY <1>1, <1>6 DEF HTTPInv, TypeOK, storeVars
<1> QED BY <1>6, <1>7 DEF HTTPInv

(* A call is repeated: it has delivered nothing.                            *)
LEMMA StepRetry ==
  ASSUME HTTPInv, NEW j \in Job, Retry(j)
  PROVE  HTTPInv'
<1>1. call[j].pc = "waiting" /\ UNCHANGED onlyCall
  BY DEF Retry, At
<1>2. PICK d \in Call : d = call[j]
  BY DEF HTTPInv, TypeOK
<1>3. ~d.hadEvent /\ d.attempt # Attempts /\ d.attempt # 0 /\ events[j] = {}
  BY <1>1, <1>2 DEF HTTPInv, JobsOK, JobOK, Attempted
<1> DEFINE b == [d EXCEPT !.pc = "broken"]
           n == [d EXCEPT !.pc = "calling", !.attempt = @ + 1]
<1>4. b \in Call /\ b.pc = "broken" /\ b.by = d.by /\ b.attempt = d.attempt /\ b.callers = d.callers
  BY DEF Call
<1>5. n \in Call /\ n.pc = "calling" /\ n.by = d.by /\ n.attempt # 0 /\ n.callers = d.callers
  <2>1. d.attempt \in 0..Attempts
    BY DEF Call
  <2>2. d.attempt + 1 \in 0..Attempts /\ d.attempt + 1 # 0
    BY <1>3, <2>1, HTTPAgentsAssumption
  <2> QED BY <2>2 DEF Call
<1>6. call' = [call EXCEPT ![j] = b] \/ call' = [call EXCEPT ![j] = n]
  <2>1. CASE CtxDone(j)
    BY <1>2, <2>1 DEF Retry
  <2>2. CASE ~CtxDone(j)
    BY <1>2, <2>2 DEF Retry
  <2> QED BY <2>1, <2>2
<1> HIDE DEF b, n
<1>7. call' \in [Job -> Call] /\ LoopsOK' /\ JobsOK'
  <2>1. CASE call' = [call EXCEPT ![j] = b]
    BY <1>1, <1>2, <1>3, <1>4, <2>1, CallMoves DEF onlyCall, managed, hubVars
  <2>2. CASE call' = [call EXCEPT ![j] = n]
    BY <1>1, <1>2, <1>3, <1>5, <2>2, CallMoves DEF onlyCall, managed, hubVars
  <2> QED BY <1>6, <2>1, <2>2
<1>8. TypeOK'
  BY <1>1, <1>7 DEF HTTPInv, TypeOK, onlyCall, hubVars
<1> QED BY <1>7, <1>8 DEF HTTPInv

(* What is recorded is of the current attempt, also if nothing is added.    *)
LEMMA RecordedOK ==
  ASSUME HTTPInv, NEW j \in Job, call[j].pc = "reading", Recorded(j) \/ UNCHANGED events
  PROVE  /\ events' \in [Job -> SUBSET (1..Attempts)]
         /\ \A i \in Job : i # j => events'[i] = events[i]
         /\ events'[j] # {} => events'[j] = {call[j].attempt}
<1>1. call[j].attempt \in 1..Attempts
  <2>1. call[j].attempt \in 0..Attempts /\ call[j].attempt # 0
    BY DEF HTTPInv, TypeOK, Call, JobsOK, JobOK, Attempted
  <2> QED BY <2>1, HTTPAgentsAssumption
<1>2. events[j] = {} \/ events[j] = {call[j].attempt}
  BY DEF HTTPInv, JobsOK, JobOK, Attempted
<1>3. events \in [Job -> SUBSET (1..Attempts)]
  BY DEF HTTPInv, TypeOK
<1>4. events' = [events EXCEPT ![j] = events[j] \cup {call[j].attempt}] \/ events' = events
  BY DEF Recorded
<1>5. events[j] \cup {call[j].attempt} = {call[j].attempt}
  BY <1>2
<1>6. events' = [events EXCEPT ![j] = {call[j].attempt}] \/ events' = events
  BY <1>4, <1>5
<1>7. {call[j].attempt} \in SUBSET (1..Attempts)
  BY <1>1
<1> QED BY <1>2, <1>3, <1>6, <1>7

(* The call has had an event.                                               *)
LEMMA HasEvent ==
  ASSUME HTTPInv, NEW j \in Job, call[j].pc = "reading", NEW lost \in BOOLEAN,
         \/ call' = [call EXCEPT ![j].hadEvent = TRUE]
         \/ call' = [call EXCEPT ![j].hadEvent = TRUE, ![j].gotParsed = TRUE, ![j].lost = lost]
  PROVE  \E c \in Call :
           /\ call' = [call EXCEPT ![j] = c] /\ c.pc = "reading" /\ c.by = call[j].by
           /\ c.attempt = call[j].attempt /\ c.hadEvent /\ c.callers = call[j].callers
<1>1. PICK d \in Call : d = call[j]
  BY DEF HTTPInv, TypeOK
<1> DEFINE b == [d EXCEPT !.hadEvent = TRUE]
           c == [d EXCEPT !.hadEvent = TRUE, !.gotParsed = TRUE, !.lost = lost]
<1>2. b \in Call /\ b.pc = d.pc /\ b.by = d.by /\ b.attempt = d.attempt /\ b.hadEvent /\ b.callers = d.callers
  BY DEF Call
<1>3. c \in Call /\ c.pc = d.pc /\ c.by = d.by /\ c.attempt = d.attempt /\ c.hadEvent /\ c.callers = d.callers
  BY DEF Call
<1>4. call' = [call EXCEPT ![j] = b] \/ call' = [call EXCEPT ![j] = c]
  BY <1>1 DEF HTTPInv, TypeOK
<1> HIDE DEF b, c
<1> QED BY <1>1, <1>2, <1>3, <1>4

(* An event or a summary arrives; it is recorded or not, and a summary may  *)
(* end the job.                                                             *)
LEMMA Arrives ==
  ASSUME HTTPInv, NEW j \in Job, call[j].pc = "reading", NEW lost \in BOOLEAN,
         \/ call' = [call EXCEPT ![j].hadEvent = TRUE]
         \/ call' = [call EXCEPT ![j].hadEvent = TRUE, ![j].gotParsed = TRUE, ![j].lost = lost],
         Recorded(j) \/ UNCHANGED events,
         status' = status \/ \E out \in Outcome : status' = [status EXCEPT ![j] = out],
         running' \subseteq running, cancelFns' \subseteq cancelFns,
         UNCHANGED <<enabled, presence, configured, registered, boot, request, loop, cancelled,
                     recoveryCh, aborted, healthy, flaps, lapses>>
  PROVE  HTTPInv'
<1>1. UNCHANGED managed
  BY DEF managed
<1>2. PICK c \in Call :
        /\ call' = [call EXCEPT ![j] = c] /\ c.pc = "reading" /\ c.by = call[j].by
        /\ c.attempt = call[j].attempt /\ c.hadEvent /\ c.callers = call[j].callers
  BY HasEvent
<1>3. /\ events' \in [Job -> SUBSET (1..Attempts)]
      /\ \A i \in Job : i # j => events'[i] = events[i]
      /\ events'[j] # {} => events'[j] = {call[j].attempt}
  BY RecordedOK
<1>4. call[j].attempt # 0
  BY DEF HTTPInv, JobsOK, JobOK, Attempted
<1>5. /\ status' \in [Job -> {"queued", "running"} \cup Outcome]
      /\ \A i \in Job : i # j => status'[i] = status[i]
      /\ status'[j] = "queued" => status[j] = "queued"
  BY DEF HTTPInv, TypeOK, Outcome
<1>6. \A a, b \in events'[j] : a = b
  BY <1>3
<1>7. call' \in [Job -> Call] /\ LoopsOK' /\ JobsOK'
  <2>1. call[j].pc # "none" /\ UNCHANGED <<managed, loop>>
    BY <1>1
  <2>2. \A i \in Job : i # j => status'[i] = status[i] /\ events'[i] = events[i]
    BY <1>3, <1>5
  <2>3. /\ c.pc \in {"calling", "reading", "waiting"} => c.attempt # 0
        /\ c.pc = "waiting" => c.attempt # Attempts
        /\ c.pc \in {"begin", "waiting"} => ~c.hadEvent
        /\ (events'[j] # {} /\ c.pc # "end") => c.hadEvent /\ events'[j] = {c.attempt}
    BY <1>2, <1>3, <1>4
  <2> QED BY <1>2, <1>5, <1>6, <2>1, <2>2, <2>3, CallMoves
<1>8. TypeOK'
  BY <1>3, <1>5, <1>7 DEF HTTPInv, TypeOK
<1> QED BY <1>7, <1>8 DEF HTTPInv

(* An event arrives.                                                        *)
LEMMA StepEvent ==
  ASSUME HTTPInv, NEW j \in Job, Event(j)
  PROVE  HTTPInv'
<1>1. /\ call[j].pc = "reading" /\ call' = [call EXCEPT ![j].hadEvent = TRUE]
      /\ Recorded(j) \/ UNCHANGED events
      /\ UNCHANGED <<enabled, presence, status, hubVars, boot, request, loop, cancelled, recoveryCh,
                     aborted, healthy, flaps, lapses>>
  BY DEF Event, At
<1> QED BY <1>1, Arrives DEF hubVars

(* A summary arrives and ends the job.                                      *)
LEMMA StepSummary ==
  ASSUME HTTPInv, NEW j \in Job, NEW out \in Outcome, Summary(j, out)
  PROVE  HTTPInv'
<1>1. /\ call[j].pc = "reading" /\ Recorded(j) /\ status' = [status EXCEPT ![j] = out]
      /\ call' = [call EXCEPT ![j].hadEvent = TRUE, ![j].gotParsed = TRUE, ![j].lost = FALSE]
      /\ running' \subseteq running /\ cancelFns' \subseteq cancelFns
      /\ UNCHANGED <<enabled, presence, configured, registered, boot, request, loop, cancelled,
                     recoveryCh, aborted, healthy, flaps, lapses>>
  BY DEF Summary, At, Cleared
<1> QED BY <1>1, Arrives

(* A summary arrives and is lost.                                           *)
LEMMA StepSummaryLost ==
  ASSUME HTTPInv, NEW j \in Job, SummaryLost(j)
  PROVE  HTTPInv'
<1>1. PICK lost \in BOOLEAN : lost = Unstored(j, FALSE)
  BY Zenon DEF Unstored
<1>2. /\ call[j].pc = "reading"
      /\ Recorded(j) \/ UNCHANGED events
      /\ call' = [call EXCEPT ![j].hadEvent = TRUE, ![j].gotParsed = TRUE, ![j].lost = lost]
      /\ running' \subseteq running /\ cancelFns' \subseteq cancelFns
      /\ UNCHANGED <<enabled, presence, status, configured, registered, boot, request, loop, cancelled,
                     recoveryCh, aborted, healthy, flaps, lapses>>
  BY <1>1 DEF SummaryLost, At, Cleared
<1>3. status' = status
  BY <1>2
<1> QED BY <1>2, <1>3, Arrives

(* A job that fails was queued or running, or stays as it is.               *)
LEMMA FailsJob ==
  ASSUME HTTPInv, NEW j \in Job, NEW stored \in BOOLEAN, failJob(j, stored)
  PROVE  /\ status' \in [Job -> {"queued", "running"} \cup Outcome]
         /\ \A i \in Job : i # j => status'[i] = status[i]
         /\ status'[j] = "queued" => status[j] = "queued"
         /\ running' \subseteq running /\ cancelFns' \subseteq cancelFns
BY DEF HTTPInv, TypeOK, Outcome, failJob, Cleared

(* The call returns.                                                        *)
LEMMA Returns ==
  ASSUME HTTPInv, NEW j \in Job, NEW lost \in BOOLEAN, Finish(j, lost), call[j].pc # "none"
  PROVE  /\ aborted' \subseteq aborted
         /\ \E c \in Call : /\ call' = [call EXCEPT ![j] = c] /\ c.pc = "end"
                            /\ c.by = call[j].by /\ c.callers = call[j].callers
<1>1. call[j].by \in Loop /\ call[j].callers \in Nat
  BY DEF HTTPInv, TypeOK, Call, JobsOK, JobOK, Attempted
<1> DEFINE c == [NoCall EXCEPT !.pc = "end", !.by = call[j].by, !.callers = call[j].callers, !.lost = lost]
<1>2. c \in Call
  BY <1>1, CallType
<1>3. c.pc = "end" /\ c.by = call[j].by /\ c.callers = call[j].callers
  BY DEF NoCall
<1>4. call' = [call EXCEPT ![j] = c] /\ aborted' \subseteq aborted
  BY DEF Finish
<1> HIDE DEF c
<1> QED BY <1>2, <1>3, <1>4

(* The body ends, or the call has failed.                                   *)
LEMMA StepEnd ==
  ASSUME HTTPInv, NEW j \in Job, NEW stored \in BOOLEAN,
         EndOfBody(j, stored) \/ CallFailed(j, stored)
  PROVE  HTTPInv'
<1>1. /\ call[j].pc \in {"reading", "error", "broken"}
      /\ UNCHANGED <<enabled, events, configured, registered, boot, request, loop, cancelled,
                     healthy, flaps, lapses>>
  BY DEF EndOfBody, CallFailed, At
<1>2. presence' \in {"absent", "online", "offline"}
  BY DEF EndOfBody, CallFailed, Marked, HTTPInv, TypeOK
<1>3. recoveryCh' \subseteq Loop
  <2>1. call[j].by \in Loop
    BY <1>1 DEF HTTPInv, JobsOK, JobOK, Attempted
  <2>2. recoveryCh' = recoveryCh \/ recoveryCh' = recoveryCh \cup {call[j].by}
    BY DEF EndOfBody, CallFailed
  <2> QED BY <2>1, <2>2 DEF HTTPInv, TypeOK
<1>4. /\ status' \in [Job -> {"queued", "running"} \cup Outcome]
      /\ \A i \in Job : i # j => status'[i] = status[i]
      /\ status'[j] = "queued" => status[j] = "queued"
      /\ running' \subseteq running /\ cancelFns' \subseteq cancelFns
  <2>1. CASE failJob(j, stored)
    BY <2>1, FailsJob
  <2>2. CASE cancelFns' = cancelFns \ {j} /\ UNCHANGED <<status, running>>
    BY <2>2 DEF HTTPInv, TypeOK
  <2> QED BY <2>1, <2>2 DEF EndOfBody, CallFailed
<1>5. PICK lost \in BOOLEAN : Finish(j, lost)
  <2>1. Unstored(j, stored) \in BOOLEAN
    BY Zenon DEF Unstored
  <2>2. call[j].lost \in BOOLEAN
    BY DEF HTTPInv, TypeOK, Call
  <2>3. Finish(j, Unstored(j, stored)) \/ Finish(j, call[j].lost)
    <3>1. CASE EndOfBody(j, stored) /\ call[j].gotParsed
      BY <3>1 DEF EndOfBody
    <3>2. CASE EndOfBody(j, stored) /\ ~call[j].gotParsed
      BY <3>2 DEF EndOfBody
    <3>3. CASE CallFailed(j, stored)
      BY <3>3 DEF CallFailed
    <3> QED BY <3>1, <3>2, <3>3
  <2> QED BY <2>1, <2>2, <2>3
<1>6. PICK c \in Call : /\ call' = [call EXCEPT ![j] = c] /\ c.pc = "end"
                        /\ c.by = call[j].by /\ c.callers = call[j].callers
  BY <1>1, <1>5, Returns
<1>7. \A a, b \in events[j] : a = b
  BY DEF HTTPInv, JobsOK, JobOK, Attempted
<1>8. call' \in [Job -> Call] /\ LoopsOK' /\ JobsOK'
  BY <1>1, <1>4, <1>6, <1>7, CallMoves DEF managed
<1>9. aborted' \subseteq Job
  BY <1>1, <1>5, Returns DEF HTTPInv, TypeOK
<1>10. TypeOK'
  BY <1>1, <1>2, <1>3, <1>4, <1>8, <1>9 DEF HTTPInv, TypeOK
<1> QED BY <1>8, <1>10 DEF HTTPInv

(* The time-out of a call.                                                  *)
LEMMA StepCallTimeout ==
  ASSUME HTTPInv, NEW j \in Job, CallTimeout(j)
  PROVE  HTTPInv'
<1>1. /\ aborted' = aborted \cup {j}
      /\ UNCHANGED <<storeVars, hubVars, boot, request, loop, cancelled, recoveryCh, call, healthy,
                     flaps, lapses>>
  BY DEF CallTimeout
<1>2. LoopsOK' /\ JobsOK'
  BY <1>1, SameLoops, SameJobs DEF HTTPInv, managed, storeVars, hubVars
<1>3. TypeOK'
  BY <1>1 DEF HTTPInv, TypeOK, storeVars, hubVars
<1> QED BY <1>2, <1>3 DEF HTTPInv

(* The sweep fails a job, or fails to; its call knows of it no more than    *)
(* that its context is done.                                                *)
LEMMA StepSweep ==
  ASSUME HTTPInv, NEW j \in Job, NEW stored \in BOOLEAN, SweepTimeout(j, stored)
  PROVE  HTTPInv'
<1>1. /\ failJob(j, stored) /\ call' = [call EXCEPT ![j].lost = @ /\ ~stored]
      /\ aborted' \subseteq aborted \cup {j}
      /\ UNCHANGED <<enabled, presence, events, configured, registered, boot, request, loop,
                     cancelled, recoveryCh, healthy, flaps, lapses>>
  BY DEF SweepTimeout
<1>2. /\ status' \in [Job -> {"queued", "running"} \cup Outcome]
      /\ \A i \in Job : status'[i] = "queued" => status[i] = "queued"
      /\ running' \subseteq running /\ cancelFns' \subseteq cancelFns
  BY <1>1, FailsJob
<1>3. PICK d \in Call : d = call[j]
  BY DEF HTTPInv, TypeOK
<1>4. PICK lost \in BOOLEAN : lost = (d.lost /\ ~stored)
  BY Zenon
<1> DEFINE c == [d EXCEPT !.lost = lost]
<1>5. /\ c \in Call /\ c.pc = d.pc /\ c.by = d.by /\ c.attempt = d.attempt
      /\ c.hadEvent = d.hadEvent /\ c.callers = d.callers
  BY DEF Call
<1>6. call' = [call EXCEPT ![j] = c]
  BY <1>1, <1>3, <1>4 DEF HTTPInv, TypeOK
<1> HIDE DEF c
<1>7. call' \in [Job -> Call] /\ call'[j] = c /\ \A i \in Job : i # j => call'[i] = call[i]
  BY <1>5, <1>6 DEF HTTPInv, TypeOK
<1>8. \A i \in Job : /\ call'[i].pc = call[i].pc /\ call'[i].by = call[i].by
                     /\ call'[i].attempt = call[i].attempt /\ call'[i].hadEvent = call[i].hadEvent
                     /\ call'[i].callers = call[i].callers
  BY <1>3, <1>5, <1>7
<1>9. TypeOK'
  BY <1>1, <1>2, <1>7 DEF HTTPInv, TypeOK
<1>10. LoopsOK'
  BY <1>1, SameLoops DEF HTTPInv, managed
<1>11. StartOK'
  BY <1>1 DEF HTTPInv, JobsOK, StartOK, Starts
<1>12. ASSUME NEW i \in Job PROVE JobOK(i)'
  <2>1. Called(i)'
    BY <1>1, <1>2, <1>8 DEF HTTPInv, JobsOK, JobOK, Called, Untouched, Starts
  <2>2. Attempted(i)'
    BY <1>1, <1>8 DEF HTTPInv, JobsOK, JobOK, Attempted
  <2> QED BY <2>1, <2>2 DEF JobOK
<1> QED BY <1>9, <1>10, <1>11, <1>12 DEF HTTPInv, JobsOK

-----------------------------------------------------------------------------
(* The theorems *)

LEMMA InitInv == Init => HTTPInv
<1> SUFFICES ASSUME Init PROVE HTTPInv
  OBVIOUS
<1> USE HTTPAgentsAssumption
<1>1. Idle \in Frame /\ Idle.pc = "unused"
  BY DEF Idle, Frame
<1>2. NoCall \in Call /\ NoCall.pc = "none" /\ NoCall.callers = 0
  <2>1. 0 \in 0..Attempts
    OBVIOUS
  <2> QED BY <2>1 DEF NoCall, Call
<1>3. TypeOK
  <2>1. loop \in [Loop -> Frame] /\ call \in [Job -> Call]
    BY <1>1, <1>2 DEF Init
  <2>2. status \in [Job -> {"queued", "running"} \cup Outcome] /\ events \in [Job -> SUBSET (1..Attempts)]
    BY DEF Init
  <2>3. request \in [Request -> [pc : {"new", "list", "apply", "done"}, listed : BOOLEAN]]
    BY DEF Init
  <2>4. enabled \in BOOLEAN /\ configured \in BOOLEAN /\ healthy \in BOOLEAN
    BY DEF Init
  <2>5. flaps \in 0..MaxFlaps
    BY DEF Init
  <2> QED BY <2>1, <2>2, <2>3, <2>4, <2>5 DEF Init, TypeOK
<1>4. UsedOK
  <2>1. Used = {} /\ Finished = {} /\ Booted = 0
    BY <1>1 DEF Init, Used, Finished, Booted
  <2>2. Used = 1..0 /\ 0 <= Booted + Cardinality(Finished) /\ 0 \in Nat
    BY <2>1, FS_EmptySet
  <2> QED BY <2>2 DEF UsedOK, Init
<1>5. RegisteredOK
  <2>1. Live = {}
    BY <1>1 DEF Init, Live, Alive
  <2> QED BY <2>1 DEF RegisteredOK, Init
<1>6. AppliedOK
  BY DEF Init, AppliedOK, Quiet
<1>7. StartOK
  BY <1>1 DEF Init, StartOK
<1>8. ASSUME NEW j \in Job PROVE JobOK(j)
  BY <1>1, <1>2 DEF Init, JobOK, Called, Untouched, Attempted, Starts
<1> QED BY <1>3, <1>4, <1>5, <1>6, <1>7, <1>8 DEF HTTPInv, LoopsOK, JobsOK

(* The invariant is inductive.                                              *)
LEMMA StepInv == HTTPInv /\ [Next]_vars => HTTPInv'
<1> SUFFICES ASSUME HTTPInv, [Next]_vars PROVE HTTPInv'
  OBVIOUS
<1>1. CASE BootStep
  BY <1>1, StepBootList, StepStartHTTPAgents DEF BootStep
<1>2. CASE \E r \in Request : RequestStep(r) \/ \E v \in BOOLEAN : WriteNode(r, v)
  BY <1>2, StepReloadList, StepReloadApply, StepWriteNode DEF RequestStep
<1>3. CASE \E l \in Loop : LoopStep(l)
  BY <1>3, StepLoopEnd, StepTicks, StepClaim, StepStartCall DEF LoopStep
<1>4. CASE \E j \in Job : CallStep(j) \/ CallTimeout(j) \/ Sweep(j)
  BY <1>4, StepGoes, StepSetInflightCancel, StepRetry, StepEvent, StepSummary, StepSummaryLost, StepEnd,
     StepCallTimeout, StepSweep
  DEF CallStep, Sweep
<1>5. CASE Flap
  <2>1. LoopsOK' /\ JobsOK'
    BY <1>5, SameLoops, SameJobs DEF HTTPInv, Flap, storeVars, hubVars, procVars, managed
  <2>2. TypeOK'
    BY <1>5, HTTPAgentsAssumption DEF HTTPInv, TypeOK, Flap, storeVars, hubVars, procVars
  <2> QED BY <2>1, <2>2 DEF HTTPInv
<1>6. CASE UNCHANGED vars
  <2>1. LoopsOK' /\ JobsOK'
    BY <1>6, SameLoops, SameJobs DEF HTTPInv, vars, storeVars, hubVars, procVars, managed
  <2>2. TypeOK'
    BY <1>6 DEF HTTPInv, TypeOK, vars, storeVars, hubVars, procVars
  <2> QED BY <2>1, <2>2 DEF HTTPInv
<1> QED BY <1>1, <1>2, <1>3, <1>4, <1>5, <1>6 DEF Next

(* Every variable keeps its type; in particular there is a loop for every   *)
(* boot and reload that starts one.                                         *)
THEOREM HTTPTypes == Spec => []TypeOK
<1>1. HTTPInv => TypeOK
  BY DEF HTTPInv
<1> QED BY <1>1, InitInv, StepInv, PTL DEF Spec

(* A job is called by one goroutine only (OneCaller).                       *)
THEOREM CalledOnce == Spec => []OneCaller
<1>1. HTTPInv => OneCaller
  BY DEF HTTPInv, JobsOK, JobOK, Called, OneCaller
<1> QED BY <1>1, InitInv, StepInv, PTL DEF Spec

(* The events recorded for a job are those of one attempt                   *)
(* (EventsOfOneAttempt).                                                    *)
THEOREM OneAttempt == Spec => []EventsOfOneAttempt
<1>1. HTTPInv => EventsOfOneAttempt
  <2> SUFFICES ASSUME HTTPInv, NEW j \in Job PROVE Cardinality(events[j]) <= 1
    BY DEF EventsOfOneAttempt
  <2>1. \A a, b \in events[j] : a = b
    BY DEF HTTPInv, JobsOK, JobOK, Attempted
  <2>2. CASE events[j] = {}
    BY <2>2, FS_EmptySet
  <2>3. CASE events[j] # {}
    <3>1. PICK a : events[j] = {a}
      BY <2>1, <2>3
    <3>2. Cardinality({a}) = 1
      BY FS_Singleton
    <3> QED BY <3>1, <3>2
  <2> QED BY <2>2, <2>3
<1> QED BY <1>1, InitInv, StepInv, PTL DEF Spec

(* When no reload is under way and none has lapsed, the loop that runs is   *)
(* the registered one, and one runs if and only if the record says so       *)
(* (LoopsAsConfigured).                                                     *)
THEOREM LoopsFollow == Spec => []LoopsAsConfigured
<1>1. HTTPInv => LoopsAsConfigured
  <2> SUFFICES ASSUME HTTPInv, Quiet, lapses = {}
               PROVE  Live = {registered} \ {None} /\ (Live # {} <=> enabled)
    BY DEF LoopsAsConfigured
  <2>1. Live = {registered} \ {None} /\ (registered # None <=> enabled)
    BY DEF HTTPInv, LoopsOK, RegisteredOK, AppliedOK
  <2> QED BY <2>1
<1> QED BY <1>1, InitInv, StepInv, PTL DEF Spec
=============================================================================
