---------------------------- MODULE ManageProofs ----------------------------
(***************************************************************************)
(* No saved edit of the settings is lost, a token is always left, and what  *)
(* is stored is what the server and the hub enforce, for any number of      *)
(* concurrent management requests.                                          *)
(***************************************************************************)
EXTENDS Manage, WellFoundedInduction, TLAPS

-----------------------------------------------------------------------------
(* The inductive invariant, in parts *)

(* Settings a request has edited and not yet saved.                         *)
Pending(r) == request[r].pc = "save" \/ (request[r].pc = "prepare" /\ request[r].op = "label_state")

EditOf(c, r) ==
  Edited(c, r, request[r].op, request[r].list, request[r].arg, request[r].uuid)

(* What a request brings and what it is about.                              *)
FramesOK == \A r \in Request : request[r].pc \notin {"new", "done"} =>
  /\ request[r].op \in Op
  /\ request[r].op \in TokenOps => request[r].list \in Lists
  /\ request[r].op \in SaveOps => request[r].arg <= revision
  /\ request[r].pc \in {"read", "save"} /\ request[r].op \notin {"agent_labels", "label_state"} =>
       request[r].node = None /\ request[r].cfg = None
  /\ request[r].pc = "prepare" => request[r].op \in {"agent_labels", "label_state"}
  /\ request[r].op \in AgentOps <=> request[r].pc \in {"check", "write"}

(* A request that would be allowed to save holds its edit of the row as it  *)
(* is now, and nothing it holds is without a token.                         *)
PendingOK == \A r \in Request : Pending(r) =>
  /\ request[r].base \in Content /\ Buildable(request[r].base)
  /\ request[r].rev <= revision
  /\ request[r].rev = revision => request[r].base = EditOf(settings, r)

SavedOK ==
  /\ Buildable(settings) /\ Buildable(server)
  /\ \A r \in Saving :
       /\ request[r].base \in Content /\ Buildable(request[r].base)
       /\ request[r].pc \in {"applyServer", "applyHub"} => request[r].saved \in Content

(* One save at a time: it has what is stored, and hands it on. Until it     *)
(* does, the server and the hub enforce the same.                           *)
ApplyOK == "settings" \notin overlap =>
  /\ \A r, s \in Saving : r = s
  /\ \A r \in Saving :
       /\ request[r].base = settings
       /\ request[r].pc \in {"applyServer", "applyHub"} => request[r].saved = settings
       /\ request[r].pc = "applyHub" => server = settings
       /\ request[r].pc \in {"reread", "applyServer"} => server = hub
  /\ Saving = {} => server = hub /\ (~missed => hub = settings)

(* One request about records at a time: what it has checked still holds.    *)
RecordsOK == "records" \notin overlap =>
  /\ \A r, s \in Records : r = s
  /\ node = None \/ cfg = None
  /\ \A r \in Records :
       /\ request[r].pc = "write" /\ request[r].op \in {"create_http", "update_http"} => cfg = None
       /\ request[r].pc = "write" /\ request[r].op = "update_grpc" => node = None
       /\ request[r].pc = "save" \/ (request[r].pc = "read" /\ request[r].op = "agent_labels") =>
            \/ node # None /\ request[r].cfg = None
            \/ node = None /\ request[r].node = None

SerialInv == TypeOK /\ FramesOK /\ PendingOK /\ SavedOK /\ EditsAreSerial

-----------------------------------------------------------------------------
(* Edits *)

(* The index of a token that is found is one of the list.                   *)
LEMMA IndexType ==
  ASSUME NEW tokens \in Seq(Token), NEW id \in Nat
  PROVE  TokenIndex(tokens, id) \in 0..Len(tokens)
<1> DEFINE I == {i \in 1..Len(tokens) : tokens[i].id = id}
<1>1. TokenIndex(tokens, id) = IF I # {} THEN Min(I) ELSE 0
  BY DEF TokenIndex, SelectInSeq
<1>2. ASSUME I # {} PROVE Min(I) \in I
  <2>1. I \in SUBSET Nat
    OBVIOUS
  <2> HIDE DEF I
  <2>2. PICK n \in I : \A m \in I : ~(<<m, n>> \in OpToRel(<, Nat))
    BY <1>2, <2>1, NatLessThanWellFounded, WFMin, Zenon
  <2>3. \A m \in I : n <= m
    <3> SUFFICES ASSUME NEW m \in I, m < n PROVE FALSE
      BY <2>1
    <3>1. <<m, n>> \in OpToRel(<, Nat)
      BY <2>1 DEF OpToRel
    <3> QED BY <2>2, <3>1
  <2> QED BY <2>3 DEF Min
<1>3. I \subseteq 0..Len(tokens) /\ 0 \in 0..Len(tokens)
  OBVIOUS
<1> HIDE DEF I
<1> QED BY <1>1, <1>2, <1>3

(* The token operations make a list of tokens of one.                       *)
LEMMA TokensType ==
  ASSUME NEW tokens \in Seq(Token), NEW op \in TokenOps, NEW id \in Nat, NEW n \in Nat,
         op # "create" => TokenIndex(tokens, id) # 0
  PROVE  EditedTokens(tokens, op, id, n) \in Seq(Token)
<1> DEFINE i == TokenIndex(tokens, id)
<1>1. i \in 0..Len(tokens)
  BY IndexType
<1>2. NewToken(n) \in Token
  BY DEF NewToken, Token
<1>3. CASE op = "create"
  BY <1>2, <1>3 DEF EditedTokens
<1>4. ASSUME op # "create" PROVE i \in 1..Len(tokens) /\ tokens[i] \in Token
  BY <1>1, <1>4
<1>5. CASE op = "update"
  <2>1. [tokens[i] EXCEPT !.name = "edited"] \in Token
    BY <1>4, <1>5 DEF Token
  <2>2. EditedTokens(tokens, op, id, n) = [tokens EXCEPT ![i] = [tokens[i] EXCEPT !.name = "edited"]]
    BY <1>4, <1>5 DEF EditedTokens
  <2> HIDE DEF i
  <2> QED BY <1>4, <1>5, <2>1, <2>2
<1>6. CASE op = "rotate"
  <2>1. [tokens[i] EXCEPT !.secret = n] \in Token
    BY <1>4, <1>6 DEF Token
  <2>2. EditedTokens(tokens, op, id, n) = [tokens EXCEPT ![i] = [tokens[i] EXCEPT !.secret = n]]
    BY <1>4, <1>6 DEF EditedTokens, NewToken
  <2> HIDE DEF i
  <2> QED BY <1>4, <1>6, <2>1, <2>2
<1>7. CASE op = "delete"
  <2>1. EditedTokens(tokens, op, id, n) = SubSeq(tokens, 1, i - 1) \o SubSeq(tokens, i + 1, Len(tokens))
    BY <1>7 DEF EditedTokens, RemoveAt
  <2> HIDE DEF i
  <2>2. i \in 1..Len(tokens) /\ Len(tokens) \in Nat
    BY <1>4, <1>7
  <2>3. SubSeq(tokens, 1, i - 1) \in Seq(Token) /\ SubSeq(tokens, i + 1, Len(tokens)) \in Seq(Token)
    BY <2>2
  <2> QED BY <2>1, <2>3
<1> QED BY <1>3, <1>5, <1>6, <1>7 DEF TokenOps

(* And so an edit makes settings of settings.                               *)
LEMMA EditedType ==
  ASSUME NEW c \in Content, NEW r \in Request, NEW op \in Op, NEW k,
         NEW id \in Nat, NEW n \in Nat,
         op \in TokenOps => k \in Lists, Found(c, op, k, id)
  PROVE  Edited(c, r, op, k, id, n) \in Content
<1>1. CASE op \notin TokenOps
  BY <1>1 DEF Edited, EditedFields, Content
<1>2. CASE op \in TokenOps /\ k = "api"
  <2>1. EditedTokens(c.api, op, id, n) \in Seq(Token)
    BY <1>2, TokensType DEF Found, Content
  <2> QED BY <1>2, <2>1 DEF Edited, Content
<1>3. CASE op \in TokenOps /\ k = "register"
  <2>1. EditedTokens(c.register, op, id, n) \in Seq(Token)
    BY <1>3, TokensType DEF Found, Content
  <2> QED BY <1>3, <2>1 DEF Edited, Content
<1> QED BY <1>1, <1>2, <1>3 DEF Lists

-----------------------------------------------------------------------------
(* The row of settings: one lemma per action *)

LEMMA SerialInit == Init => SerialInv
<1> SUFFICES ASSUME Init PROVE SerialInv
  OBVIOUS
<1>1. InitialContent \in Content /\ Buildable(InitialContent)
  <2> DEFINE t(n) == [id |-> n, secret |-> n, name |-> ""]
  <2>1. t(1) \in Token /\ t(2) \in Token /\ t(3) \in Token
    BY DEF Token
  <2>2. InitialContent = [limits |-> None, labels |-> None, api |-> <<t(1), t(2)>>, register |-> <<t(3)>>]
    BY DEF InitialContent
  <2> HIDE DEF t
  <2>3. <<t(1), t(2)>> \in Seq(Token) /\ <<t(3)>> \in Seq(Token) /\ Len(<<t(1), t(2)>>) = 2
    BY <2>1
  <2> QED BY <2>2, <2>3 DEF Content, Buildable
<1>2. NoFrame \in Frame
  BY DEF NoFrame, Frame, PC
<1>3. TypeOK
  BY <1>1, <1>2 DEF Init, TypeOK
<1>4. \A r \in Request : request[r].pc = "new"
  BY DEF Init, NoFrame
<1> QED BY <1>1, <1>3, <1>4
  DEF Init, SerialInv, FramesOK, PendingOK, Pending, SavedOK, Saving, Under, EditsAreSerial

(* A request that ends leaves nothing behind.                               *)
LEMMA ReturnStep ==
  ASSUME SerialInv, NEW r \in Request, Return(r), UNCHANGED <<rowVars, server, expected>>
  PROVE  /\ request' \in [Request -> Frame]
         /\ FramesOK' /\ PendingOK' /\ SavedOK' /\ EditsAreSerial'
<1> DEFINE f == [NoFrame EXCEPT !.pc = "done"]
<1>1. f \in Frame /\ f.pc = "done"
  BY DEF NoFrame, Frame, PC
<1>2. request' = [request EXCEPT ![r] = f]
  BY DEF Return
<1> HIDE DEF f
<1>3. request' \in [Request -> Frame]
  BY <1>1, <1>2 DEF SerialInv, TypeOK
<1>4. request'[r].pc = "done" /\ \A s \in Request : s # r => request'[s] = request[s]
  BY <1>1, <1>2 DEF SerialInv, TypeOK
<1> QED BY <1>3, <1>4
  DEF SerialInv, FramesOK, PendingOK, Pending, EditOf, SavedOK, Saving, Under, EditsAreSerial, rowVars

LEMMA SendSerial ==
  ASSUME SerialInv, NEW r \in Request, NEW op \in Op, NEW k \in Lists \cup {None}, NEW arg,
         Send(r, op, k, arg)
  PROVE  SerialInv'
<1> DEFINE f == [NoFrame EXCEPT !.op = op, !.list = k, !.arg = arg, !.pc = FirstStep(op)]
<1>1. arg \in Nat
  BY DEF Send, SerialInv, TypeOK
<1>2. /\ FirstStep(op) \in {"prepare", "check", "read"}
      /\ FirstStep(op) = "prepare" => op = "agent_labels"
      /\ op \in AgentOps <=> FirstStep(op) = "check"
  BY DEF FirstStep, AgentOps
<1>3. /\ f \in Frame
      /\ f.pc = FirstStep(op) /\ f.op = op /\ f.list = k /\ f.arg = arg /\ f.node = None /\ f.cfg = None
  BY <1>1, <1>2 DEF NoFrame, Frame, PC
<1>4. request' = [request EXCEPT ![r] = f]
  BY DEF Send
<1> HIDE DEF f
<1>5. request'[r] = f /\ \A s \in Request : s # r => request'[s] = request[s]
  BY <1>4 DEF SerialInv, TypeOK
<1>6. TypeOK'
  BY <1>3, <1>4 DEF Send, SerialInv, TypeOK, rowVars, recordVars, runtimeVars
<1>7. op \in SaveOps => arg <= revision
  BY DEF Send, SerialInv, TypeOK, SaveOps, TokenOps
<1>8. op \in TokenOps => k \in Lists
  BY DEF Send
<1>9. FramesOK'
  BY <1>2, <1>3, <1>5, <1>7, <1>8 DEF Send, SerialInv, FramesOK, rowVars
<1>10. ~Pending(r)' /\ r \notin Saving'
  BY <1>2, <1>3, <1>5 DEF Pending, Saving, Under
<1> QED BY <1>5, <1>6, <1>9, <1>10
  DEF Send, SerialInv, PendingOK, Pending, EditOf, SavedOK, Saving, Under, EditsAreSerial, rowVars, runtimeVars

(* An edit of the row as it is, held with the revision of the row or with   *)
(* an older one of the payload.                                             *)
LEMMA ReadSerial ==
  ASSUME SerialInv, NEW r \in Request, Read(r)
  PROVE  SerialInv'
<1> DEFINE q    == request[r]
           next == Edited(settings, r, q.op, q.list, q.arg, fresh)
           rev  == IF q.op \in SaveOps /\ q.arg > 0 THEN q.arg ELSE revision
           go   == Found(settings, q.op, q.list, q.arg) /\ Buildable(next)
<1>1. q.pc = "read" /\ q \in Frame /\ q.arg \in Nat
  BY DEF Read, SerialInv, TypeOK, Frame
<1>2. UNCHANGED <<rowVars, recordVars, runtimeVars, expected, overlap, missed>> /\ fresh' \in Nat
  BY DEF Read, SerialInv, TypeOK
<1>3. CASE ~go
  <2>1. Return(r)
    BY <1>3 DEF Read
  <2>2. UNCHANGED <<rowVars, server, expected>>
    BY <1>2 DEF runtimeVars
  <2> HIDE DEF q, next, rev, go
  <2>3. request' \in [Request -> Frame] /\ FramesOK' /\ PendingOK' /\ SavedOK' /\ EditsAreSerial'
    BY <2>1, <2>2, ReturnStep
  <2> QED BY <1>2, <2>3 DEF SerialInv, TypeOK, rowVars, recordVars, runtimeVars
<1>4. CASE go
  <2> DEFINE f == [q EXCEPT !.base = next, !.uuid = fresh, !.rev = rev, !.pc = AfterRead(q.op)]
  <2>1. /\ q.op \in Op /\ (q.op \in TokenOps => q.list \in Lists)
        /\ q.op \in SaveOps => q.arg <= revision
        /\ q.op \notin {"agent_labels", "label_state"} => q.node = None /\ q.cfg = None
        /\ q.op \notin AgentOps
    BY <1>1 DEF SerialInv, FramesOK
  <2>2. next \in Content
    BY <1>1, <1>4, <2>1, EditedType DEF SerialInv, TypeOK
  <2>3. rev \in Nat /\ rev <= revision
    BY <1>1, <2>1 DEF SerialInv, TypeOK
  <2>4. AfterRead(q.op) \in {"save", "prepare"} /\ (AfterRead(q.op) = "prepare" => q.op = "label_state")
    BY DEF AfterRead
  <2>5. request' = [request EXCEPT ![r] = f]
    BY <1>4 DEF Read
  <2> HIDE DEF next, rev, go
  <2>6. /\ f \in Frame
        /\ f.pc = AfterRead(q.op) /\ f.op = q.op /\ f.list = q.list /\ f.arg = q.arg
        /\ f.uuid = fresh /\ f.rev = rev /\ f.base = next /\ f.node = q.node /\ f.cfg = q.cfg
    <3> HIDE DEF q
    <3> QED BY <1>1, <2>2, <2>3, <2>4 DEF Frame, PC, SerialInv, TypeOK
  <2> HIDE DEF f
  <2>7. request'[r] = f /\ \A s \in Request : s # r => request'[s] = request[s]
    BY <2>5 DEF SerialInv, TypeOK
  <2>8. TypeOK'
    BY <1>2, <2>5, <2>6 DEF SerialInv, TypeOK, rowVars, recordVars, runtimeVars
  <2>9. FramesOK'
    BY <1>2, <2>1, <2>4, <2>6, <2>7 DEF SerialInv, FramesOK, rowVars
  <2>10. r \notin Saving'
    BY <2>4, <2>6, <2>7 DEF Saving, Under
  <2>11. next = EditOf(settings, r)'
    BY <1>2, <2>6, <2>7 DEF EditOf, next, rowVars
  <2>12. PendingOK'
    BY <1>2, <1>4, <2>2, <2>3, <2>6, <2>7, <2>11 DEF SerialInv, PendingOK, Pending, EditOf, rowVars, go
  <2> QED BY <1>2, <2>7, <2>8, <2>9, <2>10, <2>12
    DEF SerialInv, SavedOK, Saving, Under, EditsAreSerial, rowVars, runtimeVars
<1> QED BY <1>3, <1>4

(* A request that moves on with what it has.                                *)
LEMMA MoveStep ==
  ASSUME SerialInv, NEW r \in Request, NEW f \in Frame,
         request' = [request EXCEPT ![r] = f],
         UNCHANGED <<rowVars, expected>>, Buildable(server'), f.pc # "prepare",
         request[r].pc \notin {"new", "done"},
         f.op = request[r].op, f.list = request[r].list, f.arg = request[r].arg,
         f.uuid = request[r].uuid, f.base = request[r].base, f.rev = request[r].rev,
         f.pc \in {"read", "save"} /\ f.op \notin {"agent_labels", "label_state"} =>
           f.node = None /\ f.cfg = None,
         f.pc = "save" => Pending(r),
         f.pc \in {"reread", "applyServer", "applyHub"} => r \in Saving,
         f.pc \in {"applyServer", "applyHub"} => f.saved \in Content,
         f.pc \in {"check", "write"} <=> request[r].pc \in {"check", "write"}
  PROVE  /\ request' \in [Request -> Frame]
         /\ FramesOK' /\ PendingOK' /\ SavedOK' /\ EditsAreSerial'
<1>1. request' \in [Request -> Frame]
  BY DEF SerialInv, TypeOK
<1>2. request'[r] = f /\ \A s \in Request : s # r => request'[s] = request[s]
  BY DEF SerialInv, TypeOK
<1>3. FramesOK'
  BY <1>2 DEF SerialInv, FramesOK, rowVars
<1>4. PendingOK'
  BY <1>2 DEF SerialInv, PendingOK, Pending, EditOf, rowVars
<1>5. SavedOK'
  BY <1>2 DEF SerialInv, SavedOK, Saving, Under, rowVars
<1> QED BY <1>1, <1>3, <1>4, <1>5 DEF SerialInv, EditsAreSerial, rowVars

LEMMA PrepareSerial ==
  ASSUME SerialInv, NEW r \in Request, Prepare(r)
  PROVE  SerialInv'
<1> DEFINE q == request[r]
<1>1. q \in Frame /\ q.pc = "prepare"
  BY DEF SerialInv, TypeOK, Prepare
<1>2. UNCHANGED <<rowVars, recordVars, runtimeVars, fresh, expected, overlap, missed>>
  BY DEF Prepare
<1>3. CASE Return(r)
  BY <1>2, <1>3, ReturnStep DEF SerialInv, TypeOK, rowVars, recordVars, runtimeVars
<1>4. CASE ~Return(r)
  <2> DEFINE n == IF node = None THEN None ELSE [node EXCEPT !.labels = r]
             g == IF node # None THEN None
                  ELSE IF cfg # None THEN [cfg EXCEPT !.labels = r]
                  ELSE [by |-> None, labels |-> r]
             p == IF q.op = "agent_labels" THEN "read" ELSE "save"
             f == [q EXCEPT !.node = n, !.cfg = g, !.pc = p]
  <2>1. n \in Record \cup {None} /\ g \in Record \cup {None}
    BY DEF SerialInv, TypeOK, Record
  <2>2. request' = [request EXCEPT ![r] = f]
    BY <1>4 DEF Prepare
  <2>3. q.op \in {"agent_labels", "label_state"}
    BY <1>1 DEF SerialInv, FramesOK
  <2>4. p \in {"read", "save"}
    OBVIOUS
  <2> HIDE DEF n, g
  <2>5. /\ f \in Frame /\ f.pc = p
        /\ f.op = q.op /\ f.list = q.list /\ f.arg = q.arg /\ f.uuid = q.uuid
        /\ f.base = q.base /\ f.rev = q.rev
    <3> HIDE DEF q, p
    <3> QED BY <1>1, <2>1, <2>4 DEF Frame, PC
  <2>6. f.pc = "save" => Pending(r)
    BY <1>1, <2>3, <2>5 DEF Pending
  <2>7. Buildable(server') /\ UNCHANGED <<rowVars, expected>>
    BY <1>2 DEF SerialInv, SavedOK, runtimeVars
  <2> HIDE DEF f
  <2>8. request' \in [Request -> Frame] /\ FramesOK' /\ PendingOK' /\ SavedOK' /\ EditsAreSerial'
    BY <1>1, <2>2, <2>3, <2>4, <2>5, <2>6, <2>7, MoveStep
  <2> QED BY <1>2, <2>8 DEF SerialInv, TypeOK, rowVars, recordVars, runtimeVars
<1> QED BY <1>3, <1>4

(* The compare and set: what is stored is the edit of what was stored, and  *)
(* every other edit that is held belongs to an older revision by now.       *)
LEMMA SaveSerial ==
  ASSUME SerialInv, NEW r \in Request, Save(r)
  PROVE  SerialInv'
<1> DEFINE q == request[r]
<1>1. q \in Frame /\ q.pc = "save"
  BY DEF SerialInv, TypeOK, Save
<1>2. UNCHANGED <<live, runtimeVars, fresh, missed>>
  BY DEF Save
<1>3. CASE revision # q.rev /\ Return(r) /\ UNCHANGED <<rowVars, node, cfg, expected, overlap>>
  BY <1>2, <1>3, ReturnStep DEF SerialInv, TypeOK, rowVars, runtimeVars
<1>4. CASE /\ UpdateManagedSettings(q) /\ UpdateAgentLabels(q)
           /\ expected' = Edited(expected, r, q.op, q.list, q.arg, q.uuid)
           /\ overlap' = IF Saving # {} THEN overlap \cup {"settings"} ELSE overlap
           /\ IF q.op = "agent_labels" THEN Return(r) ELSE Goto(r, "reread")
  <2>1. /\ q.base \in Content /\ Buildable(q.base)
        /\ revision = q.rev /\ q.base = EditOf(settings, r)
        /\ settings' = q.base /\ revision' = revision + 1
    BY <1>1, <1>4 DEF SerialInv, PendingOK, Pending, UpdateManagedSettings
  <2>2. expected' = settings'
    BY <1>4, <2>1 DEF SerialInv, EditsAreSerial, EditOf
  <2>3. node' \in Record \cup {None} /\ cfg' \in Record \cup {None}
    BY <1>1, <1>4 DEF UpdateAgentLabels, SerialInv, TypeOK, Frame
  <2>4. PICK f \in Frame : /\ request' = [request EXCEPT ![r] = f]
                           /\ f.pc \in {"done", "reread"} /\ (f.pc = "reread" => f.base = q.base)
                           /\ f.pc # "done" => f.op = q.op /\ f.list = q.list /\ f.arg = q.arg
    <3>1. CASE q.op = "agent_labels"
      <4>1. [NoFrame EXCEPT !.pc = "done"] \in Frame
        BY DEF NoFrame, Frame, PC
      <4> QED BY <1>4, <3>1, <4>1 DEF Return, NoFrame
    <3>2. CASE q.op # "agent_labels"
      <4> DEFINE f == [q EXCEPT !.pc = "reread"]
      <4>1. f \in Frame /\ f.pc = "reread" /\ f.base = q.base /\ f.op = q.op /\ f.list = q.list /\ f.arg = q.arg
        <5> HIDE DEF q
        <5> QED BY <1>1 DEF Frame, PC
      <4>2. request' = [request EXCEPT ![r] = f]
        BY <1>4, <3>2 DEF Goto
      <4> HIDE DEF f
      <4> QED BY <4>1, <4>2
    <3> QED BY <3>1, <3>2
  <2>5. request'[r] = f /\ \A s \in Request : s # r => request'[s] = request[s]
    BY <2>4 DEF SerialInv, TypeOK
  <2>6. overlap' \subseteq {"settings", "records"}
    BY <1>4 DEF SerialInv, TypeOK
  <2>7. TypeOK'
    BY <1>2, <2>1, <2>2, <2>3, <2>4, <2>6 DEF SerialInv, TypeOK, runtimeVars
  <2>8. FramesOK'
    BY <1>1, <2>1, <2>4, <2>5 DEF SerialInv, TypeOK, FramesOK, Frame
  <2>9. PendingOK'
    <3> SUFFICES ASSUME NEW s \in Request, Pending(s)' PROVE
          /\ request'[s].base \in Content /\ Buildable(request'[s].base)
          /\ request'[s].rev <= revision' /\ request'[s].rev # revision'
      BY DEF PendingOK
    <3>1. s # r
      BY <2>4, <2>5 DEF Pending
    <3>2. request'[s] = request[s] /\ Pending(s)
      BY <2>5, <3>1 DEF Pending
    <3>3. request[s].rev \in Nat /\ revision \in Nat
      BY DEF SerialInv, TypeOK, Frame
    <3> QED BY <2>1, <3>2, <3>3 DEF SerialInv, PendingOK
  <2>10. SavedOK'
    BY <1>2, <2>1, <2>4, <2>5 DEF SerialInv, SavedOK, Saving, Under, runtimeVars
  <2> QED BY <2>2, <2>7, <2>8, <2>9, <2>10 DEF SerialInv, EditsAreSerial
<1> QED BY <1>3, <1>4 DEF Save

LEMMA RereadSerial ==
  ASSUME SerialInv, NEW r \in Request, Reread(r)
  PROVE  SerialInv'
<1> DEFINE q == request[r]
           f == [q EXCEPT !.saved = settings, !.pc = "applyServer"]
<1>1. q \in Frame /\ q.pc = "reread" /\ r \in Saving
  BY DEF SerialInv, TypeOK, Reread, Saving, Under
<1>2. UNCHANGED <<rowVars, recordVars, runtimeVars, fresh, expected, overlap, missed>>
  BY DEF Reread
<1>3. request' = [request EXCEPT ![r] = f]
  BY DEF Reread
<1>4. /\ f \in Frame /\ f.pc = "applyServer" /\ f.saved = settings /\ settings \in Content
      /\ f.op = q.op /\ f.list = q.list /\ f.arg = q.arg /\ f.uuid = q.uuid
      /\ f.base = q.base /\ f.rev = q.rev
  <2> HIDE DEF q
  <2> QED BY <1>1 DEF Frame, PC, SerialInv, TypeOK
<1>5. Buildable(server') /\ UNCHANGED <<rowVars, expected>>
  BY <1>2 DEF SerialInv, SavedOK, runtimeVars
<1> HIDE DEF f
<1>6. request' \in [Request -> Frame] /\ FramesOK' /\ PendingOK' /\ SavedOK' /\ EditsAreSerial'
  BY <1>1, <1>3, <1>4, <1>5, MoveStep
<1> QED BY <1>2, <1>6 DEF SerialInv, TypeOK, rowVars, recordVars, runtimeVars

LEMMA ApplyServerSerial ==
  ASSUME SerialInv, NEW r \in Request, ApplyServer(r)
  PROVE  SerialInv'
<1> DEFINE q == request[r]
           f == [q EXCEPT !.pc = "applyHub"]
<1>1. /\ q \in Frame /\ q.pc = "applyServer" /\ r \in Saving
      /\ q.base \in Content /\ Buildable(q.base) /\ q.saved \in Content
  BY DEF SerialInv, TypeOK, SavedOK, ApplyServer, Saving, Under
<1>2. UNCHANGED <<rowVars, recordVars, hub, fresh, expected, overlap, missed>> /\ server' = q.base
  BY DEF ApplyServer
<1>3. request' = [request EXCEPT ![r] = f]
  BY DEF ApplyServer, Goto
<1>4. /\ f \in Frame /\ f.pc = "applyHub" /\ f.saved = q.saved
      /\ f.op = q.op /\ f.list = q.list /\ f.arg = q.arg /\ f.uuid = q.uuid
      /\ f.base = q.base /\ f.rev = q.rev
  <2> HIDE DEF q
  <2> QED BY <1>1 DEF Frame, PC
<1> HIDE DEF f
<1>5. request' \in [Request -> Frame] /\ FramesOK' /\ PendingOK' /\ SavedOK' /\ EditsAreSerial'
  BY <1>1, <1>2, <1>3, <1>4, MoveStep
<1> QED BY <1>1, <1>2, <1>5 DEF SerialInv, TypeOK, rowVars, recordVars

LEMMA ApplyHubSerial ==
  ASSUME SerialInv, NEW r \in Request, ApplyHub(r)
  PROVE  SerialInv'
<1>1. hub' \in Content
  BY DEF SerialInv, TypeOK, SavedOK, ApplyHub, Saving, Under
<1>2. request' \in [Request -> Frame] /\ FramesOK' /\ PendingOK' /\ SavedOK' /\ EditsAreSerial'
  BY ReturnStep DEF ApplyHub
<1> QED BY <1>1, <1>2 DEF ApplyHub, SerialInv, TypeOK, rowVars, recordVars

LEMMA StoreFailsSerial ==
  ASSUME SerialInv, NEW r \in Request, StoreFails(r)
  PROVE  SerialInv'
<1>1. request' \in [Request -> Frame] /\ FramesOK' /\ PendingOK' /\ SavedOK' /\ EditsAreSerial'
  BY ReturnStep DEF StoreFails, runtimeVars
<1>2. missed' \in BOOLEAN
  BY DEF StoreFails, SerialInv, TypeOK
<1> QED BY <1>1, <1>2 DEF StoreFails, SerialInv, TypeOK, rowVars, recordVars, runtimeVars

LEMMA CheckSerial ==
  ASSUME SerialInv, NEW r \in Request, Check(r)
  PROVE  SerialInv'
<1> DEFINE q == request[r]
           f == [q EXCEPT !.pc = "write", !.node = node]
<1>1. q \in Frame /\ q.pc = "check"
  BY DEF SerialInv, TypeOK, Check
<1>2. UNCHANGED <<rowVars, recordVars, runtimeVars, fresh, expected, overlap, missed>>
  BY DEF Check
<1>3. CASE Return(r)
  BY <1>2, <1>3, ReturnStep DEF SerialInv, TypeOK, rowVars, recordVars, runtimeVars
<1>4. CASE ~Return(r)
  <2>1. request' = [request EXCEPT ![r] = f]
    BY <1>4 DEF Check
  <2>2. /\ f \in Frame /\ f.pc = "write"
        /\ f.op = q.op /\ f.list = q.list /\ f.arg = q.arg /\ f.uuid = q.uuid
        /\ f.base = q.base /\ f.rev = q.rev
    <3> HIDE DEF q
    <3> QED BY <1>1 DEF Frame, PC, SerialInv, TypeOK
  <2>3. Buildable(server') /\ UNCHANGED <<rowVars, expected>>
    BY <1>2 DEF SerialInv, SavedOK, runtimeVars
  <2> HIDE DEF f
  <2>4. request' \in [Request -> Frame] /\ FramesOK' /\ PendingOK' /\ SavedOK' /\ EditsAreSerial'
    BY <1>1, <2>1, <2>2, <2>3, MoveStep
  <2> QED BY <1>2, <2>4 DEF SerialInv, TypeOK, rowVars, recordVars, runtimeVars
<1> QED BY <1>3, <1>4

(* The writes of agent records leave the settings alone.                    *)
LEMMA WriteSerial ==
  ASSUME SerialInv, NEW r \in Request,
         writeHTTPAgent(r) \/ updateGRPCAgentConfig(r) \/ deleteManagedAgent(r)
  PROVE  SerialInv'
<1>1. Written(r)
  BY DEF writeHTTPAgent, updateGRPCAgentConfig, deleteManagedAgent
<1>2. request' \in [Request -> Frame] /\ FramesOK' /\ PendingOK' /\ SavedOK' /\ EditsAreSerial'
  BY <1>1, ReturnStep DEF Written, runtimeVars
<1>3. node' \in Record \cup {None} /\ cfg' \in Record \cup {None}
  BY DEF writeHTTPAgent, updateGRPCAgentConfig, deleteManagedAgent, SerialInv, TypeOK, Record
<1>4. live' \in BOOLEAN
  BY Zenon DEF writeHTTPAgent, updateGRPCAgentConfig, deleteManagedAgent, SerialInv, TypeOK
<1> QED BY <1>1, <1>2, <1>3, <1>4 DEF Written, SerialInv, TypeOK, rowVars, runtimeVars

(* A step that touches neither requests nor settings: a connecting agent,   *)
(* or none at all.                                                          *)
LEMMA IdleSerial ==
  ASSUME SerialInv, UNCHANGED <<rowVars, node, cfg, runtimeVars, request, fresh, expected, overlap, missed>>,
         live' \in BOOLEAN
  PROVE  SerialInv'
BY DEF SerialInv, TypeOK, FramesOK, PendingOK, Pending, EditOf, SavedOK, Saving, Under,
       EditsAreSerial, rowVars, runtimeVars

LEMMA SerialStep == SerialInv /\ [Next]_vars => SerialInv'
<1> SUFFICES ASSUME SerialInv, [Next]_vars PROVE SerialInv'
  OBVIOUS
<1>1. ASSUME NEW r \in Request, NEW op \in Op, NEW k \in Lists \cup {None}, NEW arg \in 0..fresh,
             Send(r, op, k, arg)
      PROVE  SerialInv'
  BY <1>1, SendSerial
<1>2. ASSUME NEW r \in Request, Read(r) \/ Prepare(r) \/ Save(r) \/ Reread(r)
      PROVE  SerialInv'
  BY <1>2, ReadSerial, PrepareSerial, SaveSerial, RereadSerial
<1>3. ASSUME NEW r \in Request, ApplyServer(r) \/ ApplyHub(r) \/ StoreFails(r) \/ Check(r)
      PROVE  SerialInv'
  BY <1>3, ApplyServerSerial, ApplyHubSerial, StoreFailsSerial, CheckSerial
<1>4. ASSUME NEW r \in Request,
             writeHTTPAgent(r) \/ updateGRPCAgentConfig(r) \/ deleteManagedAgent(r)
      PROVE  SerialInv'
  BY <1>4, WriteSerial
<1>5. CASE Connected
  BY <1>5, IdleSerial DEF Connected
<1>6. CASE UNCHANGED vars
  BY <1>6, IdleSerial DEF vars, recordVars, SerialInv, TypeOK
<1> QED BY <1>1, <1>2, <1>3, <1>4, <1>5, <1>6 DEF Next

(* The row, the records and what every handler holds have their types:      *)
(* every edit of a list of tokens makes a list of tokens.                   *)
THEOREM ManageTypes == Spec => []TypeOK
<1>1. SerialInv => TypeOK
  BY DEF SerialInv
<1> QED BY SerialInit, SerialStep, <1>1, PTL DEF Spec

(* Every saved edit is kept, in the order of the saves, however many        *)
(* management requests run at once (UpdateManagedSettings compares          *)
(* revisions, and a handler edits the row of the revision it read).         *)
THEOREM Serial == Spec => []EditsAreSerial
<1>1. SerialInv => EditsAreSerial
  BY DEF SerialInv
<1> QED BY SerialInit, SerialStep, <1>1, PTL DEF Spec

(* The last API token is never removed, from the row or from the server,    *)
(* whatever deletes run at once (buildManagedRuntime before the write).     *)
THEOREM TokenLeft == Spec => []AlwaysAToken
<1>1. SerialInv => AlwaysAToken
  BY DEF SerialInv, SavedOK, Buildable, AlwaysAToken
<1> QED BY SerialInit, SerialStep, <1>1, PTL DEF Spec

-----------------------------------------------------------------------------
(* What is enforced, as long as saves do not overlap *)

(* What ApplyOK looks at, of one request.                                   *)
SameFrame(s) == request'[s] = request[s]

(* A step of a request that is not about to apply anything.                 *)
LEMMA ApplyOther ==
  ASSUME TypeOK, TypeOK', ApplyOK, NEW r \in Request,
         \A s \in Request \ {r} : SameFrame(s),
         r \notin Saving, r \notin Saving',
         UNCHANGED <<settings, server, hub, missed>>, "settings" \notin overlap' => "settings" \notin overlap
  PROVE  ApplyOK'
<1>1. Saving' = Saving
  BY DEF Saving, Under, SameFrame
<1>2. \A s \in Saving : request'[s] = request[s]
  BY DEF Saving, Under, SameFrame
<1> QED BY <1>1, <1>2 DEF ApplyOK

(* The frames of other requests stay, and those who return save nothing.    *)
LEMMA Others ==
  ASSUME TypeOK, NEW r \in Request, NEW f, request' = [request EXCEPT ![r] = f]
  PROVE  request'[r] = f /\ \A s \in Request \ {r} : SameFrame(s)
BY DEF TypeOK, SameFrame

LEMMA Returned ==
  ASSUME TypeOK, NEW r \in Request, Return(r)
  PROVE  /\ request'[r].pc = "done" /\ r \notin Saving' /\ r \notin Records'
         /\ \A s \in Request \ {r} : SameFrame(s)
<1>1. request'[r] = [NoFrame EXCEPT !.pc = "done"] /\ \A s \in Request \ {r} : SameFrame(s)
  BY Others DEF Return
<1>2. request'[r].pc = "done"
  BY <1>1 DEF NoFrame
<1> QED BY <1>1, <1>2 DEF Saving, Records, Under

(* What the actions make of the frame of their request.                     *)
LEMMA SendFrame ==
  ASSUME TypeOK, NEW r \in Request, NEW op, NEW k, NEW arg, Send(r, op, k, arg)
  PROVE  /\ request'[r].pc = FirstStep(op) /\ request'[r].op = op
         /\ request'[r].node = None /\ request'[r].cfg = None
         /\ \A s \in Request \ {r} : SameFrame(s)
<1> DEFINE f == [NoFrame EXCEPT !.op = op, !.list = k, !.arg = arg, !.pc = FirstStep(op)]
<1>1. request' = [request EXCEPT ![r] = f]
  BY DEF Send
<1>2. f.pc = FirstStep(op) /\ f.op = op /\ f.node = None /\ f.cfg = None
  BY DEF NoFrame
<1> HIDE DEF f
<1> QED BY <1>1, <1>2, Others

LEMMA ReadFrame ==
  ASSUME TypeOK, NEW r \in Request, Read(r), ~Return(r)
  PROVE  /\ request'[r].pc = AfterRead(request[r].op) /\ request'[r].op = request[r].op
         /\ request'[r].node = request[r].node /\ request'[r].cfg = request[r].cfg
         /\ \A s \in Request \ {r} : SameFrame(s)
<1> DEFINE q == request[r]
           base == Edited(settings, r, q.op, q.list, q.arg, fresh)
           rev == IF q.op \in SaveOps /\ q.arg > 0 THEN q.arg ELSE revision
           f == [q EXCEPT !.base = base, !.uuid = fresh, !.rev = rev, !.pc = AfterRead(q.op)]
<1>1. request' = [request EXCEPT ![r] = f]
  BY DEF Read
<1>2. q \in Frame
  BY DEF TypeOK
<1> HIDE DEF base, rev
<1>3. f.pc = AfterRead(q.op) /\ f.op = q.op /\ f.node = q.node /\ f.cfg = q.cfg
  <2> HIDE DEF q
  <2> QED BY <1>2 DEF Frame
<1> HIDE DEF f
<1> QED BY <1>1, <1>3, Others

LEMMA PrepareFrame ==
  ASSUME TypeOK, NEW r \in Request, Prepare(r), ~Return(r)
  PROVE  /\ request'[r].pc = IF request[r].op = "agent_labels" THEN "read" ELSE "save"
         /\ request'[r].op = request[r].op
         /\ (node # None /\ request'[r].cfg = None) \/ (node = None /\ request'[r].node = None)
         /\ \A s \in Request \ {r} : SameFrame(s)
<1> DEFINE n == IF node = None THEN None ELSE [node EXCEPT !.labels = r]
           g == IF node # None THEN None
                ELSE IF cfg # None THEN [cfg EXCEPT !.labels = r]
                ELSE [by |-> None, labels |-> r]
           p == IF request[r].op = "agent_labels" THEN "read" ELSE "save"
           f == [request[r] EXCEPT !.node = n, !.cfg = g, !.pc = p]
<1>1. request' = [request EXCEPT ![r] = f]
  BY DEF Prepare
<1>2. request[r] \in Frame
  BY DEF TypeOK
<1>3. (node # None /\ g = None) \/ (node = None /\ n = None)
  BY DEF n, g
<1> HIDE DEF n, g, p
<1>4. f.pc = p /\ f.op = request[r].op /\ f.node = n /\ f.cfg = g
  BY <1>2 DEF Frame
<1> HIDE DEF f
<1> QED BY <1>1, <1>3, <1>4, Others DEF p

LEMMA CheckFrame ==
  ASSUME TypeOK, NEW r \in Request, Check(r), ~Return(r)
  PROVE  /\ request'[r].pc = "write" /\ request'[r].op = request[r].op
         /\ \A s \in Request \ {r} : SameFrame(s)
<1> DEFINE f == [request[r] EXCEPT !.pc = "write", !.node = node]
<1>1. request' = [request EXCEPT ![r] = f]
  BY DEF Check
<1>2. request[r] \in Frame
  BY DEF TypeOK
<1>3. f.pc = "write" /\ f.op = request[r].op
  BY <1>2 DEF Frame
<1> HIDE DEF f
<1> QED BY <1>1, <1>3, Others

LEMMA ApplyStep ==
  ASSUME SerialInv, SerialInv', ApplyOK, [Next]_vars
  PROVE  ApplyOK'
<1> USE DEF SerialInv
<1>1. ASSUME NEW r \in Request, NEW op \in Op, NEW k \in Lists \cup {None}, NEW arg \in 0..fresh,
             Send(r, op, k, arg)
      PROVE  ApplyOK'
  <2>1. r \notin Saving /\ UNCHANGED <<settings, server, hub, missed>>
    BY <1>1 DEF Send, Saving, Under, rowVars, runtimeVars
  <2>2. request'[r].pc = FirstStep(op) /\ \A s \in Request \ {r} : SameFrame(s)
    BY <1>1, SendFrame
  <2>4. r \notin Saving'
    BY <2>2 DEF FirstStep, Saving, Under
  <2>5. "settings" \notin overlap' => "settings" \notin overlap
    BY <1>1 DEF Send
  <2> QED BY <2>1, <2>2, <2>4, <2>5, ApplyOther
<1>2. ASSUME NEW r \in Request, Read(r) PROVE ApplyOK'
  <2>1. r \notin Saving /\ UNCHANGED <<settings, server, hub, overlap, missed>>
    BY <1>2 DEF Read, Saving, Under, rowVars, runtimeVars
  <2>2. CASE Return(r)
    BY <2>1, <2>2, Returned, ApplyOther
  <2>3. CASE ~Return(r)
    <3>1. request'[r].pc = AfterRead(request[r].op) /\ \A s \in Request \ {r} : SameFrame(s)
      BY <1>2, <2>3, ReadFrame
    <3>2. r \notin Saving'
      BY <3>1 DEF AfterRead, Saving, Under
    <3> QED BY <2>1, <3>1, <3>2, ApplyOther
  <2> QED BY <2>2, <2>3
<1>3. ASSUME NEW r \in Request, Prepare(r) PROVE ApplyOK'
  <2>1. r \notin Saving /\ UNCHANGED <<settings, server, hub, overlap, missed>>
    BY <1>3 DEF Prepare, Saving, Under, rowVars, runtimeVars
  <2>2. CASE Return(r)
    BY <2>1, <2>2, Returned, ApplyOther
  <2>3. CASE ~Return(r)
    <3>1. request'[r].pc \in {"read", "save"} /\ \A s \in Request \ {r} : SameFrame(s)
      BY <1>3, <2>3, PrepareFrame
    <3>2. r \notin Saving'
      BY <3>1 DEF AfterRead, Saving, Under
    <3> QED BY <2>1, <3>1, <3>2, ApplyOther
  <2> QED BY <2>2, <2>3
<1>4. ASSUME NEW r \in Request, Save(r) PROVE ApplyOK'
  <2> DEFINE q == request[r]
  <2>1. q.pc = "save" /\ r \notin Saving /\ UNCHANGED <<server, hub, missed>>
    BY <1>4 DEF Save, Saving, Under, runtimeVars
  <2>2. CASE Return(r) /\ UNCHANGED <<rowVars, overlap>>
    BY <2>1, <2>2, Returned, ApplyOther DEF rowVars
  <2>3. CASE /\ UpdateManagedSettings(q)
             /\ overlap' = IF Saving # {} THEN overlap \cup {"settings"} ELSE overlap
             /\ IF q.op = "agent_labels" THEN Return(r) ELSE Goto(r, "reread")
    <3>1. CASE Saving # {}
      BY <2>3, <3>1 DEF ApplyOK
    <3>2. CASE Saving = {} /\ q.op = "agent_labels"
      <4>1. EditOf(settings, r) = settings
        BY <3>2 DEF EditOf, Edited, EditedFields, TokenOps
      <4>2. settings' = settings
        BY <2>1, <2>3, <4>1 DEF PendingOK, Pending, UpdateManagedSettings
      <4> QED BY <2>1, <2>3, <3>2, <4>2, Returned, ApplyOther
    <3>3. CASE Saving = {} /\ q.op # "agent_labels"
      <4>1. request'[r] = [q EXCEPT !.pc = "reread"] /\ \A s \in Request \ {r} : SameFrame(s)
        BY <2>3, <3>3 DEF Goto, TypeOK, SameFrame
      <4>2. request'[r].base = settings' /\ request'[r].pc = "reread"
        BY <2>3, <4>1 DEF UpdateManagedSettings, TypeOK, Frame
      <4>3. Saving' = {r}
        BY <3>3, <4>1, <4>2 DEF Saving, Under, SameFrame
      <4> QED BY <2>1, <2>3, <3>3, <4>2, <4>3 DEF ApplyOK
    <3> QED BY <3>1, <3>2, <3>3
  <2> QED BY <1>4, <2>2, <2>3 DEF Save
<1>5. ASSUME NEW r \in Request, Reread(r) PROVE ApplyOK'
  <2>1. /\ request'[r] = [request[r] EXCEPT !.saved = settings, !.pc = "applyServer"]
        /\ \A s \in Request \ {r} : SameFrame(s)
    BY <1>5 DEF Reread, TypeOK, SameFrame
  <2>2. /\ request'[r].saved = settings /\ request'[r].pc = "applyServer"
        /\ request'[r].base = request[r].base /\ request[r].pc = "reread"
    BY <1>5, <2>1 DEF Reread, TypeOK, Frame
  <2>3. r \in Saving /\ Saving' = Saving /\ UNCHANGED <<settings, server, hub, overlap>>
    BY <1>5, <2>1, <2>2 DEF Reread, Saving, Under, SameFrame, rowVars, runtimeVars
  <2> QED BY <2>1, <2>2, <2>3 DEF ApplyOK, SameFrame
<1>6. ASSUME NEW r \in Request, ApplyServer(r) PROVE ApplyOK'
  <2>1. /\ request'[r] = [request[r] EXCEPT !.pc = "applyHub"]
        /\ \A s \in Request \ {r} : SameFrame(s)
    BY <1>6 DEF ApplyServer, Goto, TypeOK, SameFrame
  <2>2. /\ request'[r].saved = request[r].saved /\ request'[r].pc = "applyHub"
        /\ request'[r].base = request[r].base /\ request[r].pc = "applyServer"
    BY <1>6, <2>1 DEF ApplyServer, TypeOK, Frame
  <2>3. /\ r \in Saving /\ Saving' = Saving /\ UNCHANGED <<settings, hub, overlap>>
        /\ server' = request[r].base
    BY <1>6, <2>1, <2>2 DEF ApplyServer, Saving, Under, SameFrame, rowVars
  <2> QED BY <2>1, <2>2, <2>3 DEF ApplyOK, SameFrame
<1>7. ASSUME NEW r \in Request, ApplyHub(r) PROVE ApplyOK'
  <2>1. r \notin Saving' /\ \A s \in Request \ {r} : SameFrame(s)
    BY <1>7, Returned DEF ApplyHub
  <2>2. /\ r \in Saving /\ Saving' = Saving \ {r} /\ UNCHANGED <<settings, server, overlap>>
        /\ hub' = request[r].saved /\ request[r].pc = "applyHub" /\ missed' = FALSE
    BY <1>7, <2>1 DEF ApplyHub, Saving, Under, SameFrame, rowVars
  <2> QED BY <2>1, <2>2 DEF ApplyOK, SameFrame
<1>8. ASSUME NEW r \in Request, Check(r) PROVE ApplyOK'
  <2>1. r \notin Saving /\ UNCHANGED <<settings, server, hub, overlap, missed>>
    BY <1>8 DEF Check, Saving, Under, rowVars, runtimeVars
  <2>2. CASE Return(r)
    BY <2>1, <2>2, Returned, ApplyOther
  <2>3. CASE ~Return(r)
    <3>1. request'[r].pc = "write" /\ \A s \in Request \ {r} : SameFrame(s)
      BY <1>8, <2>3, CheckFrame
    <3>2. r \notin Saving'
      BY <3>1 DEF AfterRead, Saving, Under
    <3> QED BY <2>1, <3>1, <3>2, ApplyOther
  <2> QED BY <2>2, <2>3
<1>9. ASSUME NEW r \in Request,
             writeHTTPAgent(r) \/ updateGRPCAgentConfig(r) \/ deleteManagedAgent(r)
      PROVE  ApplyOK'
  <2>1. Written(r) /\ r \notin Saving
    BY <1>9 DEF writeHTTPAgent, updateGRPCAgentConfig, deleteManagedAgent, Writing, Saving, Under
  <2> QED BY <2>1, Returned, ApplyOther DEF Written, rowVars, runtimeVars
<1>10. ASSUME NEW r \in Request, StoreFails(r) PROVE ApplyOK'
  <2>1. r \notin Saving' /\ \A s \in Request \ {r} : SameFrame(s)
    BY <1>10, Returned DEF StoreFails
  <2>2. UNCHANGED <<settings, server, hub, overlap>>
    BY <1>10 DEF StoreFails, rowVars, runtimeVars
  <2>3. CASE request[r].pc = "reread"
    <3>1. r \in Saving /\ Saving' = Saving \ {r} /\ missed' = TRUE
      BY <1>10, <2>1, <2>3 DEF StoreFails, Saving, Under, SameFrame
    <3> QED BY <2>1, <2>2, <2>3, <3>1 DEF ApplyOK, SameFrame
  <2>4. CASE request[r].pc # "reread"
    <3>1. r \notin Saving /\ UNCHANGED missed
      BY <1>10, <2>4 DEF StoreFails, Saving, Under, SerialInv, TypeOK
    <3> QED BY <2>1, <2>2, <3>1, ApplyOther
  <2> QED BY <2>3, <2>4
<1>11. CASE Connected \/ UNCHANGED vars
  BY <1>11 DEF Connected, vars, rowVars, runtimeVars, ApplyOK, Saving, Under
<1> QED BY <1>1, <1>2, <1>3, <1>4, <1>5, <1>6, <1>7, <1>8, <1>9, <1>10, <1>11 DEF Next

(* Once no save is under way the server and the hub enforce the same, and   *)
(* what is stored, as long as no two saves have overlapped and the last one *)
(* has read back what it wrote (saveManagedSettings, applyManagedRuntime).  *)
THEOREM EnforcedAsStored == Spec => []Applied
<1>1. Init => SerialInv /\ ApplyOK
  BY SerialInit DEF Init, ApplyOK, Saving, Under, NoFrame
<1>2. SerialInv /\ ApplyOK /\ [Next]_vars => SerialInv' /\ ApplyOK'
  BY SerialStep, ApplyStep
<1>3. SerialInv /\ ApplyOK => Applied
  BY DEF ApplyOK, Applied
<1> QED BY <1>1, <1>2, <1>3, PTL DEF Spec

-----------------------------------------------------------------------------
(* The records of an agent, as long as requests about them do not overlap *)

(* A step of a request that neither was nor is about records.               *)
LEMMA RecordsOther ==
  ASSUME RecordsOK, NEW r \in Request, \A s \in Request \ {r} : SameFrame(s),
         r \notin Records, r \notin Records',
         UNCHANGED <<node, cfg>>, "records" \notin overlap' => "records" \notin overlap
  PROVE  RecordsOK'
<1>1. Records' = Records
  BY DEF Records, Under, SameFrame
<1>2. \A s \in Records : request'[s] = request[s]
  BY DEF Records, Under, SameFrame
<1> QED BY <1>1, <1>2 DEF RecordsOK

(* A request about records that is alone and ends, with one record left.    *)
LEMMA RecordsAlone ==
  ASSUME RecordsOK, NEW r \in Request, \A s \in Request \ {r} : SameFrame(s),
         r \in Records, r \notin Records', overlap' = overlap \/ overlap' = overlap \cup {"settings"},
         "records" \notin overlap => node' = None \/ cfg' = None
  PROVE  RecordsOK'
<1>1. Records' = Records \ {r}
  BY DEF Records, Under, SameFrame
<1>2. "records" \notin overlap' => "records" \notin overlap /\ Records' = {}
  BY <1>1 DEF RecordsOK
<1> QED BY <1>2 DEF RecordsOK

(* One that is alone and goes on, with something it has found out.          *)
LEMMA RecordsMove ==
  ASSUME RecordsOK, NEW r \in Request, \A s \in Request \ {r} : SameFrame(s),
         r \in Records, UNCHANGED <<node, cfg, overlap>>,
         "records" \notin overlap =>
           /\ request'[r].pc = "write" /\ request'[r].op \in {"create_http", "update_http"} => cfg = None
           /\ request'[r].pc = "write" /\ request'[r].op = "update_grpc" => node = None
           /\ request'[r].pc = "save" \/ (request'[r].pc = "read" /\ request'[r].op = "agent_labels") =>
                \/ node # None /\ request'[r].cfg = None
                \/ node = None /\ request'[r].node = None
  PROVE  RecordsOK'
<1>1. \A s \in Records' : s = r \/ s \in Records
  BY DEF Records, Under, SameFrame
<1>2. "records" \notin overlap => \A s \in Records' : s = r
  BY <1>1 DEF RecordsOK
<1> QED BY <1>2 DEF RecordsOK

LEMMA RecordsStep ==
  ASSUME SerialInv, RecordsOK, [Next]_vars
  PROVE  RecordsOK'
<1> USE DEF SerialInv
<1>1. ASSUME NEW r \in Request, NEW op \in Op, NEW k \in Lists \cup {None}, NEW arg \in 0..fresh,
             Send(r, op, k, arg)
      PROVE  RecordsOK'
  <2> DEFINE about == AgentOps \cup {"agent_labels", "label_state"}
  <2>1. /\ request'[r].pc = FirstStep(op) /\ request'[r].op = op
        /\ \A s \in Request \ {r} : SameFrame(s)
    BY <1>1, SendFrame
  <2>2. r \notin Records /\ UNCHANGED <<node, cfg>>
    BY <1>1 DEF Send, Records, Under, recordVars
  <2>3. CASE op \notin about
    BY <1>1, <2>1, <2>2, <2>3, RecordsOther DEF Send, Records
  <2>4. CASE op \in about /\ Records # {}
    BY <1>1, <2>4 DEF Send, RecordsOK
  <2>5. CASE op \in about /\ Records = {}
    <3>1. \A s \in Records' : s = r
      BY <2>1, <2>5 DEF Records, Under, SameFrame
    <3>2. request'[r].pc \notin {"write", "save"} /\ (request'[r].pc = "read" => op # "agent_labels")
      BY <2>1 DEF FirstStep
    <3>3. "records" \notin overlap' => "records" \notin overlap
      BY <1>1, <2>5 DEF Send
    <3> QED BY <2>1, <2>2, <3>1, <3>2, <3>3 DEF RecordsOK
  <2> QED BY <2>3, <2>4, <2>5
<1>2. ASSUME NEW r \in Request, Read(r) PROVE RecordsOK'
  <2>1. UNCHANGED <<node, cfg, overlap>> /\ request[r].pc = "read"
    BY <1>2 DEF Read, recordVars
  <2>2. CASE Return(r)
    BY <2>1, <2>2, Returned, RecordsOther, RecordsAlone DEF RecordsOK
  <2>3. CASE ~Return(r) /\ r \notin Records
    <3>1. request'[r].op = request[r].op /\ \A s \in Request \ {r} : SameFrame(s)
      BY <1>2, <2>3, ReadFrame
    <3>2. r \notin Records'
      BY <2>1, <2>3, <3>1 DEF Records, Under
    <3> QED BY <2>1, <2>3, <3>1, <3>2, RecordsOther
  <2>4. CASE ~Return(r) /\ r \in Records
    <3>1. /\ request'[r].pc = AfterRead(request[r].op) /\ request'[r].op = request[r].op
          /\ request'[r].node = request[r].node /\ request'[r].cfg = request[r].cfg
          /\ \A s \in Request \ {r} : SameFrame(s)
      BY <1>2, <2>4, ReadFrame
    <3>2. request[r].op \in {"agent_labels", "label_state"}
      BY <2>1, <2>4 DEF Records, FramesOK
    <3>3. request'[r].pc \in {"save", "prepare"} /\ (request'[r].pc = "save" => request[r].op = "agent_labels")
      BY <3>1, <3>2 DEF AfterRead
    <3> QED BY <2>1, <2>4, <3>1, <3>3, RecordsMove DEF RecordsOK
  <2> QED BY <2>2, <2>3, <2>4
<1>3. ASSUME NEW r \in Request, Prepare(r) PROVE RecordsOK'
  <2>1. UNCHANGED <<node, cfg, overlap>> /\ r \in Records
    BY <1>3 DEF Prepare, recordVars, Records, Under, FramesOK, AgentOps
  <2>2. CASE Return(r)
    BY <2>1, <2>2, Returned, RecordsAlone DEF RecordsOK
  <2>3. CASE ~Return(r)
    <3>1. /\ request'[r].pc \in {"read", "save"}
          /\ (node # None /\ request'[r].cfg = None) \/ (node = None /\ request'[r].node = None)
          /\ \A s \in Request \ {r} : SameFrame(s)
      BY <1>3, <2>3, PrepareFrame
    <3> QED BY <2>1, <3>1, RecordsMove
  <2> QED BY <2>2, <2>3
<1>4. ASSUME NEW r \in Request, Save(r) PROVE RecordsOK'
  <2> DEFINE q == request[r]
  <2>1. q.pc = "save"
    BY <1>4 DEF Save
  <2>2. CASE Return(r) /\ UNCHANGED <<node, cfg, overlap>>
    BY <2>2, Returned, RecordsOther, RecordsAlone DEF RecordsOK
  <2>3. CASE /\ UpdateAgentLabels(q)
             /\ overlap' = IF Saving # {} THEN overlap \cup {"settings"} ELSE overlap
             /\ IF q.op = "agent_labels" THEN Return(r) ELSE Goto(r, "reread")
    <3>1. r \notin Records' /\ \A s \in Request \ {r} : SameFrame(s)
      <4>1. CASE Return(r)
        BY <4>1, Returned
      <4>2. CASE Goto(r, "reread")
        <5>1. request'[r].pc = "reread" /\ \A s \in Request \ {r} : SameFrame(s)
          BY <4>2 DEF Goto, TypeOK, Frame, SameFrame
        <5> QED BY <5>1 DEF Records, Under
      <4> QED BY <2>3, <4>1, <4>2
    <3>2. CASE r \in Records
      <4>1. "records" \notin overlap => node' = None \/ cfg' = None
        BY <2>1, <2>3, <3>2 DEF RecordsOK, UpdateAgentLabels
      <4>2. overlap' = overlap \/ overlap' = overlap \cup {"settings"}
        BY <2>3
      <4> QED BY <3>1, <3>2, <4>1, <4>2, RecordsAlone
    <3>3. CASE r \notin Records
      <4>1. q.node = None /\ q.cfg = None
        BY <2>1, <3>3 DEF Records, Under, FramesOK
      <4>2. UNCHANGED <<node, cfg>>
        BY <2>3, <4>1 DEF UpdateAgentLabels
      <4>3. "records" \notin overlap' => "records" \notin overlap
        BY <2>3
      <4> QED BY <3>1, <3>3, <4>2, <4>3, RecordsOther
    <3> QED BY <3>2, <3>3
  <2> QED BY <1>4, <2>2, <2>3 DEF Save
<1>5. ASSUME NEW r \in Request, Reread(r) \/ ApplyServer(r) PROVE RecordsOK'
  <2>1. UNCHANGED <<node, cfg, overlap>> /\ r \notin Records
    BY <1>5 DEF Reread, ApplyServer, recordVars, Records, Under
  <2>2. request'[r].pc \in {"applyServer", "applyHub"} /\ \A s \in Request \ {r} : SameFrame(s)
    BY <1>5 DEF Reread, ApplyServer, Goto, TypeOK, Frame, SameFrame
  <2>3. r \notin Records'
    BY <2>2 DEF Records, Under
  <2> QED BY <2>1, <2>2, <2>3, RecordsOther
<1>6. ASSUME NEW r \in Request, ApplyHub(r) PROVE RecordsOK'
  <2>1. UNCHANGED <<node, cfg, overlap>> /\ r \notin Records
    BY <1>6 DEF ApplyHub, recordVars, Records, Under
  <2> QED BY <1>6, <2>1, Returned, RecordsOther DEF ApplyHub
<1>7. ASSUME NEW r \in Request, Check(r) PROVE RecordsOK'
  <2>1. UNCHANGED <<node, cfg, overlap>> /\ r \in Records
    BY <1>7 DEF Check, recordVars, Records, Under, FramesOK
  <2>2. CASE Return(r)
    BY <2>1, <2>2, Returned, RecordsAlone DEF RecordsOK
  <2>3. CASE ~Return(r)
    <3>1. /\ request'[r].pc = "write" /\ request'[r].op = request[r].op
          /\ \A s \in Request \ {r} : SameFrame(s)
      BY <1>7, <2>3, CheckFrame
    <3>2. /\ request[r].op \in {"create_http", "update_http"} => cfg = None \/ node # None
          /\ request[r].op = "update_grpc" => node = None
      BY <1>7, <2>3 DEF Check
    <3> QED BY <2>1, <3>1, <3>2, RecordsMove DEF RecordsOK
  <2> QED BY <2>2, <2>3
<1>8. ASSUME NEW r \in Request,
             writeHTTPAgent(r) \/ updateGRPCAgentConfig(r) \/ deleteManagedAgent(r)
      PROVE  RecordsOK'
  <2>1. Written(r) /\ request[r].pc = "write" /\ r \in Records
    BY <1>8 DEF writeHTTPAgent, updateGRPCAgentConfig, deleteManagedAgent, Writing, Records, Under, FramesOK
  <2>2. "records" \notin overlap => node' = None \/ cfg' = None
    BY <1>8, <2>1 DEF writeHTTPAgent, updateGRPCAgentConfig, deleteManagedAgent, Writing, RecordsOK
  <2> QED BY <2>1, <2>2, Returned, RecordsAlone DEF Written
<1>9. ASSUME NEW r \in Request, StoreFails(r) PROVE RecordsOK'
  <2>1. UNCHANGED <<node, cfg, overlap>> /\ Return(r)
    BY <1>9 DEF StoreFails, recordVars
  <2>2. r \notin Records' /\ \A s \in Request \ {r} : SameFrame(s)
    BY <2>1, Returned
  <2> QED BY <2>1, <2>2, RecordsOther, RecordsAlone DEF RecordsOK
<1>10. CASE Connected \/ UNCHANGED vars
  BY <1>10 DEF Connected, vars, recordVars, RecordsOK, Records, Under
<1> QED BY <1>1, <1>2, <1>3, <1>4, <1>5, <1>6, <1>7, <1>8, <1>9, <1>10 DEF Next

(* An agent id has one transport, as long as no two requests about agent    *)
(* records have overlapped (ensureHTTPAgentIDAvailable and the lookups of   *)
(* the other handlers come before their writes).                            *)
THEOREM TransportUnique == Spec => []OneTransport
<1>1. Init => SerialInv /\ RecordsOK
  BY SerialInit DEF Init, RecordsOK, Records, Under, NoFrame
<1>2. SerialInv /\ RecordsOK /\ [Next]_vars => SerialInv' /\ RecordsOK'
  BY SerialStep, RecordsStep
<1>3. SerialInv /\ RecordsOK => OneTransport
  BY DEF RecordsOK, OneTransport
<1> QED BY <1>1, <1>2, <1>3, PTL DEF Spec
=============================================================================
