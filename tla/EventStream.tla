---------------------------- MODULE EventStream ----------------------------
(***************************************************************************)
(* The events of one job, from the goroutines that record them to the       *)
(* clients that follow the job (internal/api/stream.go; SubscribeJob and    *)
(* publish in internal/scheduler/hub.go).                                   *)
(*                                                                         *)
(* An event is stored, then published to the channels that are subscribed   *)
(* at that moment. A client subscribes, reads what is stored, and then      *)
(* takes what comes through its channel. The two overlap, so an event may   *)
(* reach a client on both ways, and between a store call and the publish    *)
(* that follows it anything may happen. A channel holds Capacity events;    *)
(* publish does not wait for room.                                          *)
(***************************************************************************)
EXTENDS Integers, Sequences

CONSTANTS
  Writer,      \* goroutines that record events of the job
  Client,      \* requests to follow the job
  None,
  Capacity,    \* events a channel holds: 32
  MaxEvents,   \* bound: events of a writer
  MaxErrors    \* bound: store calls that fail

ASSUME EventStreamAssumption ==
  /\ Capacity \in Nat \ {0} /\ MaxEvents \in Nat /\ MaxErrors \in Nat
  /\ None \notin Writer \X Nat

(* The n-th event of a writer. Every event has an id of its own.            *)
Event == Writer \X Nat

VARIABLES
  log,       \* job_events of the job, in the order they were stored (SQL
             \* lists them as they were created: alike for one writer)
  count,     \* events each writer has begun
  held,      \* the event a writer has stored and not published yet
  subs,      \* Hub.subs of the job
  chan,      \* the channels
  closed,    \* clients whose channel is closed
  done,      \* clients whose request context is done
  pc,        \* the handlers
  todo,      \* the part of the history a handler has not written yet
  out,       \* what was written to the client
  errs,
  (* history, read by properties only *)
  unsent,    \* stored by a call that returned an error: never published
  dropped    \* per client: events that found its channel full

writerVars == <<log, count, held, unsent>>
clientVars == <<pc, todo, out>>
vars == <<writerVars, clientVars, subs, chan, closed, done, errs, dropped>>

In(e, s) == \E i \in 1..Len(s) : s[i] = e

TypeOK ==
  /\ log \in Seq(Event)
  /\ count \in [Writer -> Nat]
  /\ held \in [Writer -> Event \cup {None}]
  /\ subs \in SUBSET Client /\ closed \in SUBSET Client /\ done \in SUBSET Client
  /\ chan \in [Client -> Seq(Event)]
  /\ \A c \in Client : Len(chan[c]) <= Capacity
  /\ pc \in [Client -> {"new", "subscribed", "stream", "returned"}]
  /\ todo \in [Client -> Seq(Event)]
  /\ out \in [Client -> Seq(Event)]
  /\ errs \in Nat
  /\ unsent \in SUBSET Event
  /\ dropped \in [Client -> SUBSET Event]

Init ==
  /\ log = <<>> /\ unsent = {}
  /\ count = [w \in Writer |-> 0]
  /\ held = [w \in Writer |-> None]
  /\ subs = {} /\ closed = {} /\ done = {}
  /\ chan = [c \in Client |-> <<>>]
  /\ pc = [c \in Client |-> "new"]
  /\ todo = [c \in Client |-> <<>>]
  /\ out = [c \in Client |-> <<>>]
  /\ errs = 0
  /\ dropped = [c \in Client |-> {}]

StoreFails == errs < MaxErrors /\ errs' = errs + 1

-----------------------------------------------------------------------------
(* Writers: handleResult, emitFailureMessage, emitProgress, and in the API   *)
(* publishJobProgress and publishJobMessage. Each is left early when the    *)
(* event could not be stored, also where it was stored all the same.        *)

AddJobEvent(w) ==
  LET e == <<w, count[w] + 1>> IN
  /\ held[w] = None /\ count[w] < MaxEvents
  /\ count' = [count EXCEPT ![w] = @ + 1]
  /\ \/ /\ log' = Append(log, e)
        /\ held' = [held EXCEPT ![w] = e]
        /\ UNCHANGED <<unsent, errs>>
     \/ /\ StoreFails
        /\ \/ UNCHANGED <<log, unsent>>
           \/ log' = Append(log, e) /\ unsent' = unsent \cup {e}
        /\ UNCHANGED held
  /\ UNCHANGED <<clientVars, subs, chan, closed, done, dropped>>

Full(c) == Len(chan[c]) = Capacity

(* Mutant: a channel without a buffer takes an event only while its client  *)
(* waits for one.                                                           *)
publishUnbuffered(w) ==
  /\ held[w] # None
  /\ held' = [held EXCEPT ![w] = None]
  /\ chan' = [c \in Client |->
       IF c \in subs /\ ~Full(c) /\ pc[c] = "stream" /\ todo[c] = <<>>
       THEN Append(chan[c], held[w]) ELSE chan[c]]
  /\ dropped' = [c \in Client |->
       IF c \in subs /\ Full(c) THEN dropped[c] \cup {held[w]} ELSE dropped[c]]
  /\ UNCHANGED <<log, count, unsent, clientVars, subs, closed, done, errs>>

(* publish holds Hub.mu over all subscribers.                               *)
publish(w) ==
  /\ held[w] # None
  /\ held' = [held EXCEPT ![w] = None]
  /\ chan' = [c \in Client |->
       IF c \in subs /\ ~Full(c) THEN Append(chan[c], held[w]) ELSE chan[c]]
  /\ dropped' = [c \in Client |->
       IF c \in subs /\ Full(c) THEN dropped[c] \cup {held[w]} ELSE dropped[c]]
  /\ UNCHANGED <<log, count, unsent, clientVars, subs, closed, done, errs>>

-----------------------------------------------------------------------------
(* streamJobEvents. The server cancels the context of a request when its    *)
(* handler returns.                                                         *)

Return(c) ==
  /\ pc' = [pc EXCEPT ![c] = "returned"]
  /\ done' = done \cup {c}
  /\ UNCHANGED <<todo, out>>

SubscribeJob(c) ==
  /\ pc[c] = "new"
  /\ pc' = [pc EXCEPT ![c] = "subscribed"]
  /\ subs' = subs \cup {c}
  /\ UNCHANGED <<writerVars, todo, out, chan, closed, done, errs, dropped>>

(* Mutant: the newest event first.                                          *)
ListNewestFirst(c) ==
  /\ pc[c] = "subscribed"
  /\ pc' = [pc EXCEPT ![c] = "stream"]
  /\ todo' = [todo EXCEPT ![c] = [i \in 1..Len(log) |-> log[Len(log) + 1 - i]]]
  /\ UNCHANGED <<writerVars, out, subs, chan, closed, done, errs, dropped>>

(* The history is read; the call may fail, surely so once the client has    *)
(* left.                                                                    *)
ListJobEvents(c) ==
  /\ pc[c] = "subscribed"
  /\ \/ /\ pc' = [pc EXCEPT ![c] = "stream"]
        /\ todo' = [todo EXCEPT ![c] = log]
        /\ UNCHANGED <<out, done, errs>>
     \/ /\ StoreFails \/ (c \in done /\ UNCHANGED errs)
        /\ Return(c)
  /\ UNCHANGED <<writerVars, subs, chan, closed, dropped>>

WriteHistory(c) ==
  /\ pc[c] = "stream" /\ todo[c] # <<>>
  /\ out' = [out EXCEPT ![c] = Append(@, Head(todo[c]))]
  /\ todo' = [todo EXCEPT ![c] = Tail(@)]
  /\ UNCHANGED <<writerVars, pc, subs, chan, closed, done, errs, dropped>>

(* Mutant: nothing is taken before the history had an event.                *)
ReceiveAfterHistory(c) ==
  /\ pc[c] = "stream" /\ todo[c] = <<>> /\ chan[c] # <<>> /\ out[c] # <<>>
  /\ out' = IF In(Head(chan[c]), out[c]) THEN out
            ELSE [out EXCEPT ![c] = Append(@, Head(chan[c]))]
  /\ chan' = [chan EXCEPT ![c] = Tail(@)]
  /\ UNCHANGED <<writerVars, pc, todo, subs, closed, done, errs, dropped>>

(* The select loop takes an event. What was written before (seen) is passed *)
(* over.                                                                    *)
Receive(c) ==
  /\ pc[c] = "stream" /\ todo[c] = <<>> /\ chan[c] # <<>>
  /\ out' = IF In(Head(chan[c]), out[c]) THEN out
            ELSE [out EXCEPT ![c] = Append(@, Head(chan[c]))]
  /\ chan' = [chan EXCEPT ![c] = Tail(@)]
  /\ UNCHANGED <<writerVars, pc, todo, subs, closed, done, errs, dropped>>

(* The loop ends: the context is done, or the channel is empty and closed,  *)
(* which it is only then.                                                   *)
Leave(c) ==
  /\ pc[c] = "stream" /\ todo[c] = <<>> /\ c \in done
  /\ Return(c)
  /\ UNCHANGED <<writerVars, subs, chan, closed, errs, dropped>>

(* A write to the client fails.                                             *)
WriteFails(c) ==
  /\ pc[c] = "stream"
  /\ todo[c] # <<>> \/ (chan[c] # <<>> /\ ~In(Head(chan[c]), out[c]))
  /\ Return(c)
  /\ UNCHANGED <<writerVars, subs, chan, closed, errs, dropped>>

(* The client leaves.                                                       *)
Disconnect(c) ==
  /\ pc[c] \in {"subscribed", "stream"} /\ c \notin done
  /\ done' = done \cup {c}
  /\ UNCHANGED <<writerVars, clientVars, subs, chan, closed, errs, dropped>>

-----------------------------------------------------------------------------
(* The goroutine of SubscribeJob: it waits for the end of the context,      *)
(* removes the channel under Hub.mu, then closes it.                        *)

(* Mutant: removed by the handler's loop, not by the end of the context.    *)
UnsubscribeStreaming(c) ==
  /\ c \in done \cap subs /\ pc[c] = "stream"
  /\ subs' = subs \ {c}
  /\ UNCHANGED <<writerVars, clientVars, chan, closed, done, errs, dropped>>

Unsubscribe(c) ==
  /\ c \in done \cap subs
  /\ subs' = subs \ {c}
  /\ UNCHANGED <<writerVars, clientVars, chan, closed, done, errs, dropped>>

(* Mutant: closed before it is removed.                                     *)
CloseAtOnce(c) ==
  /\ c \in done \ closed
  /\ closed' = closed \cup {c}
  /\ UNCHANGED <<writerVars, clientVars, subs, chan, done, errs, dropped>>

CloseChannel(c) ==
  /\ c \in done \ (closed \cup subs)
  /\ closed' = closed \cup {c}
  /\ UNCHANGED <<writerVars, clientVars, subs, chan, done, errs, dropped>>

-----------------------------------------------------------------------------
HandlerStep(c)  == ListJobEvents(c) \/ WriteHistory(c) \/ Receive(c) \/ Leave(c)
ReleaseStep(c)  == Unsubscribe(c) \/ CloseChannel(c)

Next ==
  \/ \E w \in Writer : AddJobEvent(w) \/ publish(w)
  \/ \E c \in Client : \/ SubscribeJob(c) \/ HandlerStep(c) \/ WriteFails(c)
                       \/ Disconnect(c) \/ ReleaseStep(c)

Spec == Init /\ [][Next]_vars

(* A writer that has stored an event goes on to publish it; the goroutine   *)
(* of a subscription and a handler whose client reads what it is sent, or   *)
(* is found to have gone, take their steps. Nobody has to record an event,  *)
(* to follow the job, or to leave.                                          *)
FairSpec ==
  /\ Spec
  /\ \A w \in Writer : WF_vars(publish(w))
  /\ \A c \in Client : WF_vars(HandlerStep(c)) /\ WF_vars(ReleaseStep(c))

-----------------------------------------------------------------------------
(* Properties *)

(* Subscribing before reading the history leaves no gap: once a handler has *)
(* the history, every stored event was written, is in the history still to  *)
(* be written or in the channel, or will be published, unless the channel   *)
(* was full when it was published or its store call returned an error.      *)
NothingMissed == \A c \in Client : pc[c] = "stream" /\ c \in subs =>
  \A i \in 1..Len(log) :
    \/ In(log[i], out[c]) \/ In(log[i], todo[c]) \/ In(log[i], chan[c])
    \/ \E w \in Writer : held[w] = log[i]
    \/ log[i] \in dropped[c] \cup unsent

(* No event is written to a client twice, though history and channel        *)
(* overlap (seen).                                                          *)
WrittenOnce == \A c \in Client : \A i, k \in 1..Len(out[c]) :
  out[c][i] = out[c][k] => i = k

(* What one goroutine recorded is written in the order it was recorded,     *)
(* with gaps where events were dropped: a client never sees the end of a    *)
(* probe before its lines.                                                  *)
InWriterOrder == \A c \in Client : \A i, k \in 1..Len(out[c]) :
  i < k /\ out[c][i][1] = out[c][k][1] => out[c][i][2] < out[c][k][2]

(* publish never sends on a closed channel, which would end the process:    *)
(* a channel is closed after it was removed from Hub.subs.                  *)
NoSendOnClosed == subs \cap closed = {}

(* A client that stays is written every stored event that its channel had   *)
(* room for.                                                                *)
Delivered == \A c \in Client : \A e \in Writer \X (1..MaxEvents) :
  pc[c] = "stream" /\ In(e, log) ~>
    In(e, out[c]) \/ c \in done \/ e \in dropped[c] \cup unsent

(* However a handler ends, an error before the first byte included, its     *)
(* channel is removed and closed.                                           *)
Released == \A c \in Client :
  pc[c] = "returned" ~> c \notin subs /\ c \in closed
=============================================================================
