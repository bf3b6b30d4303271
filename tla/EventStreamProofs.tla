------------------------- MODULE EventStreamProofs -------------------------
(***************************************************************************)
(* What a client is written is complete, without repetition and in order,   *)
(* for any number of writers, clients and events and any capacity.          *)
(***************************************************************************)
EXTENDS EventStream, TLAPS

-----------------------------------------------------------------------------
(* The inductive invariant, in parts. Sequences are looked at through their *)
(* elements.                                                                *)

Older(x, e) == x[1] = e[1] => x[2] < e[2]
InOrder(s)  == \A i, k \in 1..Len(s) : i < k => Older(s[i], s[k])

(* A writer holds its last event, and it is stored.                         *)
HeldOK == \A w \in Writer : held[w] # None =>
  held[w] = <<w, count[w]>> /\ In(held[w], log)

(* Nothing but stored events is anywhere, and in a channel only what its    *)
(* writer has published.                                                    *)
StoredOK ==
  /\ \A x \in Event : In(x, log) => x[2] <= count[x[1]]
  /\ \A c \in Client, x \in Event :
       /\ In(x, out[c]) \/ In(x, todo[c]) \/ In(x, chan[c]) => In(x, log)
       /\ In(x, chan[c]) => held[x[1]] # x

OrderOK ==
  /\ InOrder(log)
  /\ \A c \in Client : InOrder(chan[c]) /\ InOrder(todo[c]) /\ InOrder(out[c])
  /\ \A c \in Client : \A x, e \in Event :
       In(x, out[c]) /\ In(e, todo[c]) => Older(x, e)

StartOK == \A c \in Client :
  pc[c] \in {"new", "subscribed"} => out[c] = <<>> /\ todo[c] = <<>>

(* An event in the channel is in the history, or newer than all of it.      *)
Covers(c, e) ==
  \/ In(e, out[c]) \/ In(e, todo[c])
  \/ \A x \in Event : In(x, out[c]) \/ In(x, todo[c]) => Older(x, e)
OverlapOK == \A c \in Client : pc[c] = "stream" =>
  \A e \in Event : In(e, chan[c]) => Covers(c, e)

Reached(c, x) ==
  \/ In(x, out[c]) \/ In(x, todo[c]) \/ In(x, chan[c])
  \/ held[x[1]] = x
  \/ x \in dropped[c] \cup unsent
ReachedOK == \A c \in Client : pc[c] = "stream" /\ c \in subs =>
  \A x \in Event : In(x, log) => Reached(c, x)

(* A channel is closed once its context is done, and then not subscribed.   *)
ClosedOK ==
  /\ NoSendOnClosed /\ closed \subseteq done
  /\ \A c \in Client : pc[c] = "new" => c \notin done

StreamInv ==
  /\ TypeOK /\ HeldOK /\ StoredOK /\ OrderOK /\ StartOK /\ OverlapOK
  /\ ReachedOK /\ ClosedOK

-----------------------------------------------------------------------------
(* Elements and order of sequences *)

(* The elements of a sequence to which one was appended.                    *)
LEMMA AppendIn ==
  ASSUME NEW s \in Seq(Event), NEW e \in Event, NEW x
  PROVE  In(x, Append(s, e)) <=> In(x, s) \/ x = e
<1>1. /\ Len(Append(s, e)) = Len(s) + 1
      /\ \A i \in 1..Len(s) : Append(s, e)[i] = s[i]
      /\ Append(s, e)[Len(s) + 1] = e
  OBVIOUS
<1>2. ASSUME In(x, s) PROVE In(x, Append(s, e))
  BY <1>1, <1>2 DEF In
<1>3. In(e, Append(s, e))
  <2>1. Len(s) + 1 \in 1..Len(Append(s, e))
    BY <1>1
  <2>. QED  BY <1>1, <2>1 DEF In
<1>4. ASSUME In(x, Append(s, e)) PROVE In(x, s) \/ x = e
  <2>1. PICK i \in 1..Len(Append(s, e)) : Append(s, e)[i] = x
    BY <1>4 DEF In
  <2>2. CASE i \in 1..Len(s)
    BY <2>1, <2>2, <1>1 DEF In
  <2>3. CASE i = Len(s) + 1
    BY <2>1, <2>3, <1>1
  <2>. QED  BY <2>1, <2>2, <2>3, <1>1
<1>. QED  BY <1>2, <1>3, <1>4

(* The elements of a sequence without its head.                             *)
LEMMA TailIn ==
  ASSUME NEW s \in Seq(Event), s # <<>>, NEW x
  PROVE  /\ Head(s) \in Event /\ Tail(s) \in Seq(Event)
         /\ In(x, s) <=> x = Head(s) \/ In(x, Tail(s))
<1>1. /\ Len(s) \in Nat \ {0} /\ Head(s) = s[1] /\ Head(s) \in Event
      /\ Tail(s) \in Seq(Event) /\ Len(Tail(s)) = Len(s) - 1
      /\ \A i \in 1..Len(s) - 1 : Tail(s)[i] = s[i + 1]
  OBVIOUS
<1>2. In(Head(s), s)
  <2>1. 1 \in 1..Len(s)
    BY <1>1
  <2>. QED  BY <1>1, <2>1 DEF In
<1>3. ASSUME In(x, Tail(s)) PROVE In(x, s)
  <2>1. PICK i \in 1..Len(s) - 1 : Tail(s)[i] = x
    BY <1>1, <1>3 DEF In
  <2>2. i + 1 \in 1..Len(s) /\ s[i + 1] = x
    BY <1>1, <2>1
  <2>. QED  BY <2>2 DEF In
<1>4. ASSUME In(x, s), x # Head(s) PROVE In(x, Tail(s))
  <2>1. PICK i \in 1..Len(s) : s[i] = x
    BY <1>4 DEF In
  <2>2. i # 1
    BY <1>1, <1>4, <2>1
  <2>3. i - 1 \in 1..Len(Tail(s)) /\ Tail(s)[i - 1] = x
    BY <1>1, <2>1, <2>2
  <2>. QED  BY <2>3 DEF In
<1>. QED  BY <1>1, <1>2, <1>3, <1>4

(* The empty sequence has no element.                                       *)
LEMMA EmptyIn == \A x : ~In(x, <<>>)
BY DEF In

(* A newest element keeps the order.                                        *)
LEMMA AppendOrder ==
  ASSUME NEW s \in Seq(Event), NEW e \in Event, InOrder(s),
         \A x \in Event : In(x, s) => Older(x, e)
  PROVE  InOrder(Append(s, e))
<1>1. /\ Len(Append(s, e)) = Len(s) + 1 /\ Len(s) \in Nat
      /\ \A i \in 1..Len(s) : Append(s, e)[i] = s[i] /\ s[i] \in Event
      /\ Append(s, e)[Len(s) + 1] = e
  OBVIOUS
<1>2. SUFFICES ASSUME NEW i \in 1..Len(s) + 1, NEW k \in 1..Len(s) + 1, i < k
               PROVE  Older(Append(s, e)[i], Append(s, e)[k])
  BY <1>1 DEF InOrder
<1>3. i \in 1..Len(s)
  BY <1>1, <1>2
<1>4. CASE k \in 1..Len(s)
  BY <1>1, <1>2, <1>3, <1>4 DEF InOrder
<1>5. CASE k = Len(s) + 1
  <2>1. In(s[i], s)
    BY <1>3 DEF In
  <2>. QED  BY <1>1, <1>3, <1>5, <2>1
<1>. QED  BY <1>1, <1>2, <1>4, <1>5

(* Without its head a sequence in order is in order, and newer than it.     *)
LEMMA TailOrder ==
  ASSUME NEW s \in Seq(Event), s # <<>>, InOrder(s)
  PROVE  /\ InOrder(Tail(s))
         /\ \A x \in Event : In(x, Tail(s)) => Older(Head(s), x)
<1>1. /\ Len(s) \in Nat \ {0} /\ Head(s) = s[1]
      /\ Len(Tail(s)) = Len(s) - 1
      /\ \A i \in 1..Len(s) - 1 : Tail(s)[i] = s[i + 1]
  OBVIOUS
<1>2. InOrder(Tail(s))
  <2>1. SUFFICES ASSUME NEW i \in 1..Len(s) - 1, NEW k \in 1..Len(s) - 1, i < k
                 PROVE  Older(Tail(s)[i], Tail(s)[k])
    BY <1>1 DEF InOrder
  <2>2. i + 1 \in 1..Len(s) /\ k + 1 \in 1..Len(s) /\ i + 1 < k + 1
    BY <1>1, <2>1
  <2>3. Older(s[i + 1], s[k + 1])
    BY <2>2 DEF InOrder
  <2>. QED  BY <1>1, <2>3
<1>3. ASSUME NEW x \in Event, In(x, Tail(s)) PROVE Older(Head(s), x)
  <2>1. PICK i \in 1..Len(s) - 1 : Tail(s)[i] = x
    BY <1>1, <1>3 DEF In
  <2>2. 1 \in 1..Len(s) /\ i + 1 \in 1..Len(s) /\ 1 < i + 1
    BY <1>1, <2>1
  <2>3. Older(s[1], s[i + 1])
    BY <2>2 DEF InOrder
  <2>. QED  BY <1>1, <2>1, <2>3
<1>. QED  BY <1>2, <1>3

-----------------------------------------------------------------------------
(* The invariant holds initially and every action keeps it *)

(* Initially nothing is stored, sent or written.                            *)
LEMMA InitStream == Init => StreamInv
<1>. SUFFICES ASSUME Init PROVE StreamInv
  OBVIOUS
<1>. USE DEF Init
<1>1. TypeOK
  BY EventStreamAssumption DEF TypeOK, Event
<1>2. HeldOK /\ StoredOK /\ StartOK /\ OverlapOK /\ ReachedOK /\ ClosedOK
  BY EmptyIn DEF HeldOK, StoredOK, StartOK, OverlapOK, ReachedOK, ClosedOK, NoSendOnClosed
<1>3. OrderOK
  BY EmptyIn DEF OrderOK, InOrder
<1>. QED  BY <1>1, <1>2, <1>3 DEF StreamInv

(* AddJobEvent adds the newest event of its writer to the log, held or      *)
(* unsent, or fails.                                                        *)
LEMMA AddStep ==
  ASSUME StreamInv, NEW w \in Writer, AddJobEvent(w)
  PROVE  StreamInv'
<1>. DEFINE e == <<w, count[w] + 1>>
<1>. USE DEF StreamInv
<1>1. e \in Event /\ e[1] = w /\ e[2] = count[w] + 1 /\ count[w] \in Nat /\ e # None
  BY EventStreamAssumption DEF TypeOK, Event
<1>2. /\ held[w] = None
      /\ count' = [count EXCEPT ![w] = @ + 1]
      /\ UNCHANGED <<pc, todo, out, subs, chan, closed, done, dropped>>
      /\ \/ log' = log /\ held' = held /\ unsent' = unsent
         \/ log' = Append(log, e) /\ held' = [held EXCEPT ![w] = e] /\ unsent' = unsent
         \/ log' = Append(log, e) /\ held' = held /\ unsent' = unsent \cup {e}
      /\ errs' \in {errs, errs + 1}
  BY DEF AddJobEvent, StoreFails, clientVars
<1>3. TypeOK'
  <2>1. log' \in Seq(Event)
    <3>. HIDE DEF e
    <3>1. Append(log, e) \in Seq(Event)
      BY <1>1 DEF TypeOK
    <3>. QED  BY <1>2, <3>1 DEF TypeOK
  <2>2. count' \in [Writer -> Nat] /\ errs' \in Nat
    BY <1>1, <1>2 DEF TypeOK
  <2>3. held' \in [Writer -> Event \cup {None}] /\ unsent' \in SUBSET Event
    <3>. HIDE DEF e
    <3>. QED  BY <1>1, <1>2 DEF TypeOK
  <2>. QED  BY <1>2, <2>1, <2>2, <2>3 DEF TypeOK
<1>4. \A x : In(x, log') <=> In(x, log) \/ (x = e /\ log' # log)
  <2>1. log' = log \/ log' = Append(log, e)
    BY <1>2
  <2>2. \A x : In(x, Append(log, e)) <=> In(x, log) \/ x = e
    BY <1>1, AppendIn DEF TypeOK
  <2>3. ~In(e, log)
    BY <1>1 DEF StoredOK
  <2>. QED  BY <2>1, <2>2, <2>3
<1>5. \A x \in Event : x[1] \in Writer /\ x[2] \in Nat /\ count[x[1]] \in Nat
                       /\ count'[x[1]] \in Nat /\ count[x[1]] <= count'[x[1]]
                       /\ (x[1] = w => count'[x[1]] = count[w] + 1)
  BY <1>2 DEF TypeOK, Event
<1>6. HeldOK'
  <2>. SUFFICES ASSUME NEW v \in Writer, held'[v] # None
                PROVE  held'[v] = <<v, count'[v]>> /\ In(held'[v], log')
    BY DEF HeldOK
  <2>1. CASE v = w
    BY <1>1, <1>2, <1>4, <2>1 DEF TypeOK
  <2>2. CASE v # w
    BY <1>2, <1>4, <2>2 DEF TypeOK, HeldOK
  <2>. QED  BY <2>1, <2>2
<1>7. \A x \in Event : In(x, log) => x # e
  BY <1>1 DEF StoredOK
<1>8. StoredOK'
  <2>1. \A x \in Event : In(x, log') => x[2] <= count'[x[1]]
    BY <1>1, <1>4, <1>5 DEF StoredOK
  <2>2. \A c \in Client, x \in Event :
          In(x, out'[c]) \/ In(x, todo'[c]) \/ In(x, chan'[c]) => In(x, log')
    BY <1>2, <1>4 DEF StoredOK
  <2>3. ASSUME NEW c \in Client, NEW x \in Event, In(x, chan'[c])
        PROVE  held'[x[1]] # x
    <3>1. In(x, chan[c]) /\ held[x[1]] # x /\ x # e
      BY <1>2, <1>7, <2>3 DEF StoredOK
    <3>. QED  BY <1>2, <1>5, <3>1 DEF TypeOK
  <2>. QED  BY <2>1, <2>2, <2>3 DEF StoredOK
<1>9. OrderOK'
  <2>1. InOrder(log')
    <3>1. \A x \in Event : In(x, log) => Older(x, e)
      BY <1>1, <1>5 DEF StoredOK, Older
    <3>2. InOrder(Append(log, e))
      BY <1>1, <3>1, AppendOrder DEF OrderOK, TypeOK
    <3>. QED  BY <1>2, <3>2 DEF OrderOK
  <2>. QED  BY <1>2, <2>1 DEF OrderOK
<1>10. StartOK' /\ OverlapOK' /\ ClosedOK'
  BY <1>2 DEF StartOK, OverlapOK, ClosedOK, NoSendOnClosed, Covers
<1>11. ReachedOK'
  <2>. SUFFICES ASSUME NEW c \in Client, pc[c] = "stream", c \in subs,
                       NEW x \in Event, In(x, log')
                PROVE  Reached(c, x)'
    BY <1>2 DEF ReachedOK
  <2>1. CASE In(x, log)
    <3>1. Reached(c, x) /\ x # e
      BY <1>7, <2>1 DEF ReachedOK
    <3>2. held[x[1]] = x => held'[x[1]] = x
      BY <1>1, <1>2, <1>5, EventStreamAssumption DEF TypeOK, Event
    <3>. QED  BY <1>2, <3>1, <3>2 DEF Reached
  <2>2. CASE x = e /\ log' # log
    BY <1>1, <1>2, <2>2 DEF Reached, TypeOK
  <2>. QED  BY <1>4, <2>1, <2>2
<1>. QED  BY <1>3, <1>6, <1>8, <1>9, <1>10, <1>11

(* Two events of a writer with the same number are the same.                *)
LEMMA EventPairs ==
  \A x \in Event : x = <<x[1], x[2]>> /\ x[1] \in Writer /\ x[2] \in Nat /\ x # None
BY EventStreamAssumption DEF Event

(* publish puts the newest event of its writer into every channel that is   *)
(* subscribed and has room.                                                 *)
LEMMA PublishStep ==
  ASSUME StreamInv, NEW w \in Writer, publish(w)
  PROVE  StreamInv'
<1>. DEFINE e == held[w]
<1>. USE DEF StreamInv
<1>1. /\ e \in Event /\ e = <<w, count[w]>> /\ e[1] = w /\ e[2] = count[w]
      /\ In(e, log) /\ count[w] \in Nat
  BY DEF publish, TypeOK, HeldOK
<1>2. /\ held' = [held EXCEPT ![w] = None]
      /\ \A c \in Client :
           \/ c \in subs /\ ~Full(c) /\ chan'[c] = Append(chan[c], e)
           \/ (c \in subs => Full(c)) /\ chan'[c] = chan[c]
      /\ \A c \in Client :
           /\ dropped[c] \subseteq dropped'[c]
           /\ c \in subs /\ Full(c) => e \in dropped'[c]
      /\ UNCHANGED <<log, count, unsent, pc, todo, out, subs, closed, done, errs>>
  BY DEF publish, clientVars, TypeOK
<1>. HIDE DEF e
<1>3. TypeOK'
  <2>1. ASSUME NEW c \in Client
        PROVE  chan'[c] \in Seq(Event) /\ Len(chan'[c]) <= Capacity
    <3>1. chan[c] \in Seq(Event) /\ Len(chan[c]) <= Capacity /\ Capacity \in Nat
      BY EventStreamAssumption DEF TypeOK
    <3>2. CASE chan'[c] = chan[c]
      BY <3>1, <3>2
    <3>3. CASE ~Full(c) /\ chan'[c] = Append(chan[c], e)
      <4>1. Append(chan[c], e) \in Seq(Event) /\ Len(Append(chan[c], e)) = Len(chan[c]) + 1
        BY <1>1, <3>1
      <4>2. Len(chan[c]) < Capacity /\ Len(chan[c]) \in Nat
        BY <3>1, <3>3 DEF Full
      <4>. QED  BY <3>1, <3>3, <4>1, <4>2
    <3>. QED  BY <1>2, <3>2, <3>3
  <2>2. chan' \in [Client -> Seq(Event)]
    <3>1. chan' = [c \in Client |-> chan'[c]]
      BY DEF publish
    <3>. QED  BY <2>1, <3>1
  <2>3. dropped' \in [Client -> SUBSET Event]
    <3>. USE DEF e
    <3>. QED  BY <1>1 DEF publish, TypeOK
  <2>4. held' \in [Writer -> Event \cup {None}]
    BY <1>2 DEF TypeOK
  <2>. QED  BY <1>2, <2>1, <2>2, <2>3, <2>4 DEF TypeOK
<1>4. \A c \in Client, x \in Event :
        In(x, chan'[c]) <=> In(x, chan[c]) \/ (x = e /\ chan'[c] # chan[c])
  <2>. SUFFICES ASSUME NEW c \in Client, NEW x \in Event
                PROVE  In(x, chan'[c]) <=> In(x, chan[c]) \/ (x = e /\ chan'[c] # chan[c])
    OBVIOUS
  <2>1. In(x, Append(chan[c], e)) <=> In(x, chan[c]) \/ x = e
    BY <1>1, AppendIn DEF TypeOK
  <2>2. ~In(e, chan[c])
    BY <1>1 DEF StoredOK, e
  <2>. QED  BY <1>2, <2>1, <2>2
<1>5. \A x \in Event : x # e /\ held[x[1]] = x => held'[x[1]] = x
  BY <1>2, EventPairs DEF TypeOK, e
<1>6. \A x \in Event : held[x[1]] # x => held'[x[1]] # x
  BY <1>2, EventPairs DEF TypeOK
<1>7. held'[w] = None /\ None # e
  BY <1>1, <1>2, EventPairs DEF TypeOK
<1>8. \A x \in Event : In(x, log) /\ x # e => Older(x, e)
  BY <1>1, EventPairs DEF StoredOK, Older, TypeOK
<1>9. HeldOK'
  BY <1>2 DEF HeldOK, TypeOK
<1>10. StoredOK'
  BY <1>1, <1>2, <1>4, <1>6, <1>7 DEF StoredOK
<1>11. OrderOK'
  <2>1. ASSUME NEW c \in Client PROVE InOrder(chan'[c])
    <3>1. \A x \in Event : In(x, chan[c]) => Older(x, e)
      BY <1>1, <1>8 DEF StoredOK, e
    <3>2. InOrder(Append(chan[c], e))
      BY <1>1, <3>1, AppendOrder DEF OrderOK, TypeOK
    <3>. QED  BY <1>2, <3>2 DEF OrderOK
  <2>. QED  BY <1>2, <2>1 DEF OrderOK
<1>12. StartOK' /\ ClosedOK'
  BY <1>2 DEF StartOK, ClosedOK, NoSendOnClosed
<1>13. OverlapOK'
  <2>. SUFFICES ASSUME NEW c \in Client, pc[c] = "stream", NEW x \in Event,
                       In(x, chan'[c])
                PROVE  Covers(c, x)
    BY <1>2 DEF OverlapOK, Covers
  <2>1. CASE In(x, chan[c])
    BY <2>1 DEF OverlapOK
  <2>2. CASE x = e
    BY <1>8, <2>2 DEF Covers, StoredOK
  <2>. QED  BY <1>4, <2>1, <2>2
<1>14. ReachedOK'
  <2>. SUFFICES ASSUME NEW c \in Client, pc[c] = "stream", c \in subs,
                       NEW x \in Event, In(x, log)
                PROVE  Reached(c, x)'
    BY <1>2 DEF ReachedOK
  <2>1. Reached(c, x)
    BY DEF ReachedOK
  <2>2. CASE x = e
    <3>1. In(e, chan'[c]) \/ e \in dropped'[c]
      <4>1. In(e, Append(chan[c], e))
        BY <1>1, AppendIn DEF TypeOK
      <4>. QED  BY <1>2, <4>1
    <3>. QED  BY <2>2, <3>1 DEF Reached
  <2>3. CASE x # e
    BY <1>2, <1>4, <1>5, <2>1, <2>3 DEF Reached
  <2>. QED  BY <2>2, <2>3
<1>. QED  BY <1>3, <1>9, <1>10, <1>11, <1>12, <1>13, <1>14

(* A step that moves no event: a handler may leave its loop, contexts end,  *)
(* channels come and go, but none that is followed comes anew.              *)
LEMMA QuietStep ==
  ASSUME StreamInv,
         UNCHANGED <<log, count, held, unsent, chan, todo, out, dropped>>,
         TypeOK', ClosedOK',
         \A c \in Client : pc'[c] = "stream" => pc[c] = "stream" /\ (c \in subs' => c \in subs),
         \A c \in Client : pc'[c] \in {"new", "subscribed"} => pc[c] \in {"new", "subscribed"}
  PROVE  StreamInv'
<1>. USE DEF StreamInv
<1>1. HeldOK' /\ StoredOK' /\ OrderOK' /\ StartOK'
  BY DEF HeldOK, StoredOK, OrderOK, StartOK
<1>2. OverlapOK'
  BY DEF OverlapOK, Covers
<1>3. ReachedOK'
  BY DEF ReachedOK, Reached
<1>. QED  BY <1>1, <1>2, <1>3

(* SubscribeJob: a channel that is not closed, and no history yet.          *)
LEMMA SubscribeStep ==
  ASSUME StreamInv, NEW c \in Client, SubscribeJob(c)
  PROVE  StreamInv'
<1>. USE DEF StreamInv
<1>1. TypeOK'
  BY DEF SubscribeJob, writerVars, TypeOK
<1>2. ClosedOK'
  BY DEF SubscribeJob, ClosedOK, NoSendOnClosed, TypeOK
<1>3. UNCHANGED <<log, count, held, unsent, chan, todo, out, dropped>>
  BY DEF SubscribeJob, writerVars
<1>4. \A d \in Client : pc'[d] = "stream" => pc[d] = "stream" /\ (d \in subs' => d \in subs)
  BY DEF SubscribeJob, TypeOK
<1>5. \A d \in Client : pc'[d] \in {"new", "subscribed"} => pc[d] \in {"new", "subscribed"}
  BY DEF SubscribeJob, TypeOK
<1>. QED  BY <1>1, <1>2, <1>3, <1>4, <1>5, QuietStep

(* A handler that returns moves no event.                                   *)
LEMMA ReturnStep ==
  ASSUME StreamInv, NEW c \in Client, pc[c] \in {"subscribed", "stream"}, Return(c),
         errs' \in Nat, UNCHANGED <<writerVars, subs, chan, closed, dropped>>
  PROVE  StreamInv'
<1>. USE DEF StreamInv
<1>1. TypeOK'
  BY DEF Return, writerVars, TypeOK
<1>2. ClosedOK'
  BY DEF Return, ClosedOK, NoSendOnClosed, TypeOK
<1>3. UNCHANGED <<log, count, held, unsent, chan, todo, out, dropped>>
  BY DEF Return, writerVars
<1>4. \A d \in Client : pc'[d] = "stream" => pc[d] = "stream" /\ (d \in subs' => d \in subs)
  BY DEF Return, TypeOK
<1>5. \A d \in Client : pc'[d] \in {"new", "subscribed"} => pc[d] \in {"new", "subscribed"}
  BY DEF Return, TypeOK
<1>. QED  BY <1>1, <1>2, <1>3, <1>4, <1>5, QuietStep

(* The end of a context, and what the goroutine of the subscription does.   *)
LEMMA ReleaseSteps ==
  ASSUME StreamInv, NEW c \in Client,
         Disconnect(c) \/ Unsubscribe(c) \/ CloseChannel(c)
  PROVE  StreamInv'
<1>. USE DEF StreamInv
<1>1. /\ UNCHANGED <<log, count, held, unsent, chan, todo, out, dropped, pc, errs>>
      /\ subs' \subseteq subs
      /\ done' \in SUBSET Client /\ closed' \in SUBSET Client
  BY DEF Disconnect, Unsubscribe, CloseChannel, writerVars, clientVars, TypeOK
<1>2. TypeOK'
  BY <1>1 DEF TypeOK
<1>3. ClosedOK'
  BY DEF Disconnect, Unsubscribe, CloseChannel, clientVars, ClosedOK, NoSendOnClosed
<1>. QED  BY <1>1, <1>2, <1>3, QuietStep

(* The history, read after subscribing, has all that was stored so far.     *)
LEMMA ListStep ==
  ASSUME StreamInv, NEW c \in Client, ListJobEvents(c)
  PROVE  StreamInv'
<1>. USE DEF StreamInv
<1>1. CASE Return(c)
  <2>1. pc[c] = "subscribed" /\ UNCHANGED <<writerVars, subs, chan, closed, dropped>>
    BY DEF ListJobEvents
  <2>2. errs' \in Nat
    BY <1>1 DEF ListJobEvents, StoreFails, Return, TypeOK
  <2>. QED  BY <1>1, <2>1, <2>2, ReturnStep
<1>2. CASE /\ pc' = [pc EXCEPT ![c] = "stream"]
           /\ todo' = [todo EXCEPT ![c] = log]
           /\ UNCHANGED <<out, done, errs>>
  <2>1. /\ pc[c] = "subscribed" /\ out[c] = <<>>
        /\ UNCHANGED <<log, count, held, unsent, subs, chan, closed, dropped>>
    BY DEF ListJobEvents, writerVars, StartOK
  <2>2. TypeOK'
    BY <1>2, <2>1 DEF TypeOK
  <2>3. /\ todo'[c] = log /\ pc'[c] = "stream"
        /\ \A d \in Client \ {c} : todo'[d] = todo[d] /\ pc'[d] = pc[d]
    BY <1>2 DEF TypeOK
  <2>4. HeldOK' /\ StartOK' /\ ClosedOK'
    BY <1>2, <2>1, <2>3 DEF HeldOK, StartOK, ClosedOK, NoSendOnClosed
  <2>5. StoredOK'
    BY <1>2, <2>1, <2>3 DEF StoredOK
  <2>6. OrderOK'
    BY <1>2, <2>1, <2>3, EmptyIn DEF OrderOK
  <2>7. OverlapOK'
    <3>. SUFFICES ASSUME NEW d \in Client, pc'[d] = "stream", NEW x \in Event,
                         In(x, chan[d])
                  PROVE  Covers(d, x)'
      BY <2>1 DEF OverlapOK
    <3>1. CASE d = c
      BY <2>3, <3>1 DEF Covers, StoredOK
    <3>2. CASE d # c
      BY <1>2, <2>3, <3>2 DEF Covers, OverlapOK
    <3>. QED  BY <3>1, <3>2
  <2>8. ReachedOK'
    <3>. SUFFICES ASSUME NEW d \in Client, pc'[d] = "stream", d \in subs,
                         NEW x \in Event, In(x, log)
                  PROVE  Reached(d, x)'
      BY <2>1 DEF ReachedOK
    <3>1. CASE d = c
      BY <2>3, <3>1 DEF Reached
    <3>2. CASE d # c
      BY <1>2, <2>1, <2>3, <3>2 DEF Reached, ReachedOK
    <3>. QED  BY <3>1, <3>2
  <2>. QED  BY <2>2, <2>4, <2>5, <2>6, <2>7, <2>8
<1>. QED  BY <1>1, <1>2 DEF ListJobEvents

(* WriteHistory takes the oldest event that is left of the history.         *)
LEMMA HistoryStep ==
  ASSUME StreamInv, NEW c \in Client, WriteHistory(c)
  PROVE  StreamInv'
<1>. DEFINE h == Head(todo[c])
<1>. USE DEF StreamInv
<1>1. /\ pc[c] = "stream" /\ todo[c] # <<>> /\ todo[c] \in Seq(Event) /\ out[c] \in Seq(Event)
      /\ out'[c] = Append(out[c], h) /\ todo'[c] = Tail(todo[c])
      /\ \A d \in Client \ {c} : todo'[d] = todo[d] /\ out'[d] = out[d]
      /\ UNCHANGED <<log, count, held, unsent, pc, subs, chan, closed, done, errs, dropped>>
  BY DEF WriteHistory, writerVars, TypeOK
<1>2. h \in Event /\ Tail(todo[c]) \in Seq(Event)
  BY <1>1, TailIn
<1>. HIDE DEF h
<1>3. TypeOK'
  <2>1. Append(out[c], h) \in Seq(Event)
    BY <1>1, <1>2
  <2>2. todo' = [todo EXCEPT ![c] = Tail(todo[c])] /\ out' = [out EXCEPT ![c] = Append(out[c], h)]
    BY DEF WriteHistory, TypeOK, h
  <2>. QED  BY <1>1, <1>2, <2>1, <2>2 DEF TypeOK
<1>4. \A x : In(x, todo[c]) <=> x = h \/ In(x, todo'[c])
  BY <1>1, TailIn DEF h
<1>5. \A x : In(x, out'[c]) <=> In(x, out[c]) \/ x = h
  BY <1>1, <1>2, AppendIn
<1>6. \A x : In(x, out'[c]) \/ In(x, todo'[c]) <=> In(x, out[c]) \/ In(x, todo[c])
  BY <1>4, <1>5
<1>7. HeldOK' /\ StartOK' /\ ClosedOK'
  BY <1>1 DEF HeldOK, StartOK, ClosedOK, NoSendOnClosed
<1>8. StoredOK'
  <2>1. \A d \in Client, x \in Event : In(x, out'[d]) \/ In(x, todo'[d]) =>
          In(x, out[d]) \/ In(x, todo[d])
    BY <1>1, <1>6
  <2>. QED  BY <1>1, <2>1 DEF StoredOK
<1>9. OrderOK'
  <2>1. InOrder(todo'[c]) /\ \A x \in Event : In(x, todo'[c]) => Older(h, x)
    BY <1>1, TailOrder DEF OrderOK, h
  <2>2. InOrder(out'[c])
    <3>1. \A x \in Event : In(x, out[c]) => Older(x, h)
      BY <1>2, <1>4 DEF OrderOK
    <3>. QED  BY <1>1, <1>2, <3>1, AppendOrder DEF OrderOK
  <2>3. \A x, e \in Event : In(x, out'[c]) /\ In(e, todo'[c]) => Older(x, e)
    BY <1>4, <1>5, <2>1 DEF OrderOK
  <2>. QED  BY <1>1, <2>1, <2>2, <2>3 DEF OrderOK
<1>10. OverlapOK'
  <2>. SUFFICES ASSUME NEW d \in Client, pc[d] = "stream", NEW e \in Event,
                       In(e, chan[d])
                PROVE  Covers(d, e)'
    BY <1>1 DEF OverlapOK
  <2>1. Covers(d, e)
    BY DEF OverlapOK
  <2>2. CASE d = c
    BY <1>6, <2>1, <2>2 DEF Covers
  <2>3. CASE d # c
    BY <1>1, <2>1, <2>3 DEF Covers
  <2>. QED  BY <2>2, <2>3
<1>11. ReachedOK'
  <2>. SUFFICES ASSUME NEW d \in Client, pc[d] = "stream", d \in subs,
                       NEW x \in Event, In(x, log)
                PROVE  Reached(d, x)'
    BY <1>1 DEF ReachedOK
  <2>1. Reached(d, x)
    BY DEF ReachedOK
  <2>2. CASE d = c
    BY <1>1, <1>6, <2>1, <2>2 DEF Reached
  <2>3. CASE d # c
    BY <1>1, <2>1, <2>3 DEF Reached
  <2>. QED  BY <2>2, <2>3
<1>. QED  BY <1>3, <1>7, <1>8, <1>9, <1>10, <1>11

(* Receive takes the oldest event of the channel: it was in the history, or *)
(* is newer than all that was written.                                      *)
LEMMA ReceiveStep ==
  ASSUME StreamInv, NEW c \in Client, Receive(c)
  PROVE  StreamInv'
<1>. DEFINE h == Head(chan[c])
<1>. USE DEF StreamInv
<1>1. /\ pc[c] = "stream" /\ todo[c] = <<>>
      /\ chan[c] # <<>> /\ chan[c] \in Seq(Event) /\ out[c] \in Seq(Event)
      /\ chan'[c] = Tail(chan[c])
      /\ \/ In(h, out[c]) /\ out'[c] = out[c]
         \/ ~In(h, out[c]) /\ out'[c] = Append(out[c], h)
      /\ \A d \in Client \ {c} : chan'[d] = chan[d] /\ out'[d] = out[d]
      /\ UNCHANGED <<log, count, held, unsent, pc, todo, subs, closed, done, errs, dropped>>
  BY DEF Receive, writerVars, TypeOK
<1>2. h \in Event /\ Tail(chan[c]) \in Seq(Event)
  BY <1>1, TailIn
<1>3. TypeOK'
  <2>1. Append(out[c], h) \in Seq(Event)
    <3>. HIDE DEF h
    <3>. QED  BY <1>1, <1>2
  <2>2. Len(Tail(chan[c])) <= Capacity
    <3>1. Len(Tail(chan[c])) = Len(chan[c]) - 1 /\ Len(chan[c]) \in Nat
      BY <1>1
    <3>. QED  BY <3>1, EventStreamAssumption DEF TypeOK
  <2>3. out' \in [Client -> Seq(Event)] /\ chan' \in [Client -> Seq(Event)]
    BY <1>2, <2>1 DEF Receive, TypeOK
  <2>4. \A d \in Client : Len(chan'[d]) <= Capacity
    BY <1>1, <2>2 DEF TypeOK
  <2>. QED  BY <1>1, <2>3, <2>4 DEF TypeOK
<1>. HIDE DEF h
<1>4. \A x : In(x, chan[c]) <=> x = h \/ In(x, chan'[c])
  BY <1>1, TailIn DEF h
<1>5. \A x : In(x, out'[c]) <=> In(x, out[c]) \/ x = h
  <2>1. \A x : In(x, Append(out[c], h)) <=> In(x, out[c]) \/ x = h
    BY <1>1, <1>2, AppendIn
  <2>2. CASE In(h, out[c]) /\ out'[c] = out[c]
    BY <2>2
  <2>3. CASE out'[c] = Append(out[c], h)
    BY <2>1, <2>3
  <2>. QED  BY <1>1, <2>2, <2>3
<1>6. HeldOK' /\ StartOK' /\ ClosedOK'
  BY <1>1 DEF HeldOK, StartOK, ClosedOK, NoSendOnClosed
<1>7. StoredOK'
  <2>1. \A d \in Client, x \in Event :
          /\ In(x, chan'[d]) => In(x, chan[d])
          /\ In(x, out'[d]) => In(x, out[d]) \/ In(x, chan[d])
    BY <1>1, <1>4, <1>5
  <2>. QED  BY <1>1, <2>1 DEF StoredOK
<1>8. ~In(h, out[c]) => \A x \in Event : In(x, out[c]) => Older(x, h)
  BY <1>1, <1>2, <1>4, EmptyIn DEF OverlapOK, Covers
<1>9. InOrder(chan'[c]) /\ \A x \in Event : In(x, chan'[c]) => Older(h, x)
  BY <1>1, TailOrder DEF OrderOK, h
<1>10. OrderOK'
  <2>1. InOrder(out'[c])
    BY <1>1, <1>2, <1>8, AppendOrder DEF OrderOK
  <2>2. \A x \in Event : ~In(x, todo'[c])
    BY <1>1, EmptyIn
  <2>. QED  BY <1>1, <1>9, <2>1, <2>2 DEF OrderOK
<1>11. OverlapOK'
  <2>. SUFFICES ASSUME NEW d \in Client, pc[d] = "stream", NEW e \in Event,
                       In(e, chan'[d])
                PROVE  Covers(d, e)'
    BY <1>1 DEF OverlapOK
  <2>1. CASE d = c
    <3>1. Covers(c, e) /\ Older(h, e)
      BY <1>1, <1>4, <1>9, <2>1 DEF OverlapOK
    <3>. QED  BY <1>1, <1>5, <2>1, <3>1 DEF Covers
  <2>2. CASE d # c
    BY <1>1, <2>2 DEF Covers, OverlapOK
  <2>. QED  BY <2>1, <2>2
<1>12. ReachedOK'
  <2>. SUFFICES ASSUME NEW d \in Client, pc[d] = "stream", d \in subs,
                       NEW x \in Event, In(x, log)
                PROVE  Reached(d, x)'
    BY <1>1 DEF ReachedOK
  <2>1. Reached(d, x)
    BY DEF ReachedOK
  <2>2. CASE d = c
    BY <1>1, <1>4, <1>5, <2>1, <2>2 DEF Reached
  <2>3. CASE d # c
    BY <1>1, <2>1, <2>3 DEF Reached
  <2>. QED  BY <2>2, <2>3
<1>. QED  BY <1>3, <1>6, <1>7, <1>10, <1>11, <1>12

(* A step that changes nothing keeps the invariant.                         *)
LEMMA StreamStutter ==
  ASSUME StreamInv, UNCHANGED vars
  PROVE  StreamInv'
<1>. USE DEF StreamInv
<1>1. UNCHANGED <<log, count, held, unsent, pc, todo, out, subs, chan, closed,
                  done, errs, dropped>>
  BY DEF vars, writerVars, clientVars
<1>2. TypeOK' /\ ClosedOK'
  BY <1>1 DEF TypeOK, ClosedOK, NoSendOnClosed
<1>. QED  BY <1>1, <1>2, QuietStep

-----------------------------------------------------------------------------
(* Theorems *)

(* The invariant holds in every reachable state.                            *)
THEOREM StreamInductive == Spec => []StreamInv
<1>1. ASSUME StreamInv, [Next]_vars PROVE StreamInv'
  <2>1. ASSUME NEW w \in Writer, AddJobEvent(w) \/ publish(w) PROVE StreamInv'
    BY <1>1, <2>1, AddStep, PublishStep
  <2>2. ASSUME NEW c \in Client, SubscribeJob(c) \/ HandlerStep(c) \/ WriteFails(c)
                                 \/ Disconnect(c) \/ ReleaseStep(c)
        PROVE  StreamInv'
    <3>1. CASE Leave(c) \/ WriteFails(c)
      <4>1. /\ pc[c] \in {"subscribed", "stream"} /\ Return(c) /\ errs' = errs
            /\ UNCHANGED <<writerVars, subs, chan, closed, dropped>>
        BY <3>1 DEF Leave, WriteFails
      <4>2. errs' \in Nat
        BY <1>1, <4>1 DEF StreamInv, TypeOK
      <4>. QED  BY <1>1, <4>1, <4>2, ReturnStep
    <3>2. CASE SubscribeJob(c)
      BY <1>1, <3>2, SubscribeStep
    <3>3. CASE ListJobEvents(c)
      BY <1>1, <3>3, ListStep
    <3>4. CASE WriteHistory(c)
      BY <1>1, <3>4, HistoryStep
    <3>5. CASE Receive(c)
      BY <1>1, <3>5, ReceiveStep
    <3>6. CASE Disconnect(c) \/ ReleaseStep(c)
      BY <1>1, <3>6, ReleaseSteps DEF ReleaseStep
    <3>. QED  BY <2>2, <3>1, <3>2, <3>3, <3>4, <3>5, <3>6 DEF HandlerStep
  <2>3. CASE UNCHANGED vars
    BY <1>1, <2>3, StreamStutter
  <2>. QED  BY <1>1, <2>1, <2>2, <2>3 DEF Next
<1>. QED  BY <1>1, InitStream, PTL DEF Spec

(* The variables keep their types; a channel never holds more than its      *)
(* capacity.                                                                *)
THEOREM StreamTypes == Spec => []TypeOK
<1>1. StreamInv => TypeOK
  BY DEF StreamInv
<1>. QED  BY <1>1, StreamInductive, PTL

(* A client that has the history misses only what its full channel refused  *)
(* and what was stored by a failing call: streamJobEvents subscribes first. *)
THEOREM NoGap == Spec => []NothingMissed
<1>1. StreamInv => NothingMissed
  <2>. SUFFICES ASSUME StreamInv, NEW c \in Client, pc[c] = "stream", c \in subs,
                       NEW i \in 1..Len(log)
                PROVE  \/ In(log[i], out[c]) \/ In(log[i], todo[c]) \/ In(log[i], chan[c])
                       \/ \E w \in Writer : held[w] = log[i]
                       \/ log[i] \in dropped[c] \cup unsent
    BY DEF NothingMissed
  <2>1. log[i] \in Event /\ In(log[i], log)
    BY DEF StreamInv, TypeOK, In
  <2>2. Reached(c, log[i]) /\ log[i][1] \in Writer
    BY <2>1, EventPairs DEF StreamInv, ReachedOK
  <2>. QED  BY <2>2 DEF Reached
<1>. QED  BY <1>1, StreamInductive, PTL

(* The events of one goroutine reach a client in their order.               *)
THEOREM OrderKept == Spec => []InWriterOrder
<1>1. StreamInv => InWriterOrder
  BY DEF StreamInv, OrderOK, InOrder, Older, InWriterOrder
<1>. QED  BY <1>1, StreamInductive, PTL

(* History and channel overlap, but no event is written twice.              *)
THEOREM NoRepeats == Spec => []WrittenOnce
<1>1. StreamInv => WrittenOnce
  <2>. SUFFICES ASSUME StreamInv, NEW c \in Client, NEW i \in 1..Len(out[c]),
                       NEW k \in 1..Len(out[c]), out[c][i] = out[c][k], i < k
                PROVE  FALSE
    <3>1. \A c2 \in Client : StreamInv => Len(out[c2]) \in Nat
      BY DEF StreamInv, TypeOK
    <3>. QED  BY <3>1 DEF WrittenOnce
  <2>1. out[c][i] \in Event
    BY DEF StreamInv, TypeOK
  <2>2. Older(out[c][i], out[c][k])
    BY DEF StreamInv, OrderOK, InOrder
  <2>. QED  BY <2>1, <2>2, EventPairs DEF Older
<1>. QED  BY <1>1, StreamInductive, PTL

(* publish never meets a closed channel.                                    *)
THEOREM NeverClosed == Spec => []NoSendOnClosed
<1>1. StreamInv => NoSendOnClosed
  BY DEF StreamInv, ClosedOK
<1>. QED  BY <1>1, StreamInductive, PTL
=============================================================================
