------------------------------- MODULE Manage -------------------------------
(***************************************************************************)
(* The management API (internal/api/server.go) over the managed settings    *)
(* and agent records of the store: rate limits, label configurations, API   *)
(* tokens and register tokens live in one row with a revision; the records  *)
(* of agents live in tables of their own, without one.                      *)
(*                                                                         *)
(* Handlers run concurrently. A save reads the row, edits it, writes it     *)
(* back if the revision is still the one it read, reads it again (one step  *)
(* with the write in the memory store), and then applies it to the API      *)
(* server and to the hub, each under a lock of its own. A call of the store *)
(* may fail, with the context of the request or by itself.                  *)
(***************************************************************************)
EXTENDS Naturals, Sequences, SequencesExt

CONSTANTS
  Request,      \* management requests, each handled once
  Op,           \* the operations they may ask for
  None          \* no record, nothing

SaveOps  == {"rate_limit", "labels", "label_state"}
TokenOps == {"create", "update", "rotate", "delete"}
AgentOps == {"create_http", "update_http", "update_grpc", "delete_agent"}
Lists    == {"api", "register"}
AllOps   == SaveOps \cup TokenOps \cup AgentOps \cup {"agent_labels"}

ASSUME ManageAssumption == Op \subseteq AllOps /\ None \notin Request

VARIABLES
  settings,  \* the row of managed settings
  revision,  \* and its revision
  node,      \* the managed HTTP agent record of one agent id, or None
  cfg,       \* its gRPC agent configuration, or None
  live,      \* the id has a row in the agents table
  server,    \* settings the API server enforces
  hub,       \* settings the hub enforces
  request,   \* what each handler is doing
  fresh,     \* the next id or secret uuid.NewString returns
  expected,  \* history: the settings after every saved edit, in order
  overlap,   \* history: kinds of requests that have overlapped
  missed     \* history: the last save was stored and not applied

rowVars     == <<settings, revision>>
runtimeVars == <<server, hub>>
recordVars  == <<node, cfg, live>>
vars == <<rowVars, recordVars, runtimeVars, request, fresh, expected, overlap, missed>>

Token    == [id : Nat, secret : Nat, name : {"", "edited"}]
Content  == [limits : Request \cup {None}, labels : Request \cup {None},
             api : Seq(Token), register : Seq(Token)]
PC == {"new", "read", "prepare", "save", "reread", "applyServer", "applyHub", "check",
       "write", "done"}
Record   == [by : Request \cup {None}, labels : Request \cup {None}]
Frame    == [pc : PC, op : Op \cup {None}, list : Lists \cup {None}, arg : Nat, uuid : Nat,
             base : Content \cup {None}, rev : Nat, saved : Content \cup {None},
             node : Record \cup {None}, cfg : Record \cup {None}]
NoFrame  == [pc |-> "new", op |-> None, list |-> None, arg |-> 0, uuid |-> 0,
             base |-> None, rev |-> 0, saved |-> None, node |-> None, cfg |-> None]
TypeOK ==
  /\ settings \in Content /\ revision \in Nat
  /\ node \in Record \cup {None} /\ cfg \in Record \cup {None}
  /\ live \in BOOLEAN
  /\ server \in Content /\ hub \in Content
  /\ request \in [Request -> Frame]
  /\ fresh \in Nat
  /\ expected \in Content
  /\ overlap \subseteq {"settings", "records"}
  /\ missed \in BOOLEAN

(* A database on which two managers have been working.                      *)
InitialContent ==
  [limits |-> None, labels |-> None,
   api |-> <<[id |-> 1, secret |-> 1, name |-> ""], [id |-> 2, secret |-> 2, name |-> ""]>>,
   register |-> <<[id |-> 3, secret |-> 3, name |-> ""]>>]

Init ==
  /\ settings = InitialContent /\ revision = 1
  /\ node = None /\ cfg = None /\ live \in BOOLEAN
  /\ server = InitialContent /\ hub = InitialContent
  /\ request = [r \in Request |-> NoFrame]
  /\ fresh = 4
  /\ expected = InitialContent
  /\ overlap = {} /\ missed = FALSE

-----------------------------------------------------------------------------
(* Edits of the settings *)

(* managedAPITokenIndex, managedRegisterTokenIndex: 0 for no such token.    *)
TokenIndex(tokens, id) == SelectInSeq(tokens, LAMBDA t : t.id = id)

(* NormalizeAPITokenPermissions and NormalizeRegisterTokens fill in an      *)
(* empty id and an empty secret, here with uuid n.                          *)
NewToken(n) == [id |-> n, secret |-> n, name |-> ""]

(* What the token operations make of a list of tokens.                      *)
EditedTokens(tokens, op, id, n) ==
  LET i == TokenIndex(tokens, id)
  IN  CASE op = "create" -> Append(tokens, NewToken(n))
        [] op = "update" -> [tokens EXCEPT ![i].name = "edited"]
        [] op = "rotate" -> [tokens EXCEPT ![i].secret = NewToken(n).secret]
        [] op = "delete" -> RemoveAt(tokens, i)

(* What the other operations replace in the settings with their payload.    *)
EditedFields(c, r, op) ==
  CASE op = "rate_limit" -> [c EXCEPT !.limits = r]
    [] op \in {"labels", "label_state"} -> [c EXCEPT !.labels = r]
    [] OTHER -> c

(* The API tokens and the register tokens are edited alike.                 *)
Edited(c, r, op, k, id, n) ==
  IF op \in TokenOps THEN [c EXCEPT ![k] = EditedTokens(@, op, id, n)]
                      ELSE EditedFields(c, r, op)

(* A token that is named has to be there.                                   *)
Found(c, op, k, id) == op \in TokenOps \ {"create"} => TokenIndex(c[k], id) # 0

(* buildManagedRuntime refuses settings without an API token.               *)
Buildable(c) == Len(c.api) > 0

-----------------------------------------------------------------------------
Goto(r, pc) == request' = [request EXCEPT ![r].pc = pc]
Return(r)   == request' = [request EXCEPT ![r] = [NoFrame EXCEPT !.pc = "done"]]
Under(pcs) == {r \in Request : request[r].pc \in pcs}
Saving  == Under({"reread", "applyServer", "applyHub"})
Records == {r \in Under({"prepare", "read", "save", "check", "write"}) :
              request[r].op \in AgentOps \cup {"agent_labels", "label_state"}}

(* Where a handler starts, and where it goes with settings it has edited:   *)
(* updateManagedAgentLabels prepares the records before it reads the row,   *)
(* updateManagedLabelState after.                                           *)
FirstStep(op) == CASE op = "agent_labels" -> "prepare"
                   [] op \in AgentOps -> "check"
                   [] OTHER -> "read"
AfterRead(op) == IF op = "label_state" THEN "prepare" ELSE "save"

(* A manager sends a request. The revision in the payload of a rate-limit   *)
(* or label update is 0 or one the manager has read before; arg is that     *)
(* revision or the id of a token.                                           *)
Send(r, op, k, arg) ==
  /\ request[r].pc = "new"
  /\ (k # None) = (op \in TokenOps)
  /\ arg \in CASE op \in SaveOps -> 0..revision
               [] op \in TokenOps \ {"create"} -> 1..(fresh - 1)
               [] OTHER -> {0}
  /\ request' = [request EXCEPT ![r] = [NoFrame EXCEPT !.op = op, !.list = k, !.arg = arg,
       !.pc = FirstStep(op)]]
  /\ overlap' = IF op \in AgentOps \cup {"agent_labels", "label_state"} /\ Records # {}
                  THEN overlap \cup {"records"} ELSE overlap
  /\ UNCHANGED <<rowVars, recordVars, runtimeVars, fresh, expected, missed>>

(* Mutant: settings without a token are saved, too.                         *)
ReadUnchecked(r) ==
  LET q == request[r]
  IN  /\ q.pc = "read" /\ Found(settings, q.op, q.list, q.arg)
      /\ fresh' = fresh + 1
      /\ request' = [request EXCEPT ![r].base = Edited(settings, r, q.op, q.list, q.arg, fresh),
                       ![r].uuid = fresh, ![r].rev = revision, ![r].pc = "save"]
      /\ UNCHANGED <<rowVars, recordVars, runtimeVars, expected, overlap, missed>>

(* GetManagedSettings, the edit, NormalizeManagedSettings and               *)
(* buildManagedRuntime. A positive revision of the payload replaces the one *)
(* that was read.                                                           *)
Read(r) ==
  LET q    == request[r]
      next == Edited(settings, r, q.op, q.list, q.arg, fresh)
  IN  /\ q.pc = "read"
      /\ fresh' = fresh + 1
      /\ IF Found(settings, q.op, q.list, q.arg) /\ Buildable(next)
           THEN request' = [request EXCEPT ![r].base = next, ![r].uuid = fresh,
                  ![r].rev = IF q.op \in SaveOps /\ q.arg > 0 THEN q.arg ELSE revision,
                  ![r].pc = AfterRead(q.op)]
           ELSE Return(r)
      /\ UNCHANGED <<rowVars, recordVars, runtimeVars, expected, overlap, missed>>

(* managedAgentTransportForID finds the id somewhere.                       *)
Known == node # None \/ cfg # None \/ live

(* prepareManagedAgentLabelUpdates: the whole record is copied, with other  *)
(* labels; an id with two records, or none and no agent, is refused.        *)
Prepare(r) ==
  /\ request[r].pc = "prepare"
  /\ IF (node # None /\ cfg # None) \/ ~Known
       THEN Return(r)
       ELSE request' = [request EXCEPT
              ![r].node = IF node = None THEN None ELSE [node EXCEPT !.labels = r],
              ![r].cfg = IF node # None THEN None
                         ELSE IF cfg # None THEN [cfg EXCEPT !.labels = r]
                         ELSE [by |-> None, labels |-> r],
              ![r].pc = IF request[r].op = "agent_labels" THEN "read" ELSE "save"]
  /\ UNCHANGED <<rowVars, recordVars, runtimeVars, fresh, expected, overlap, missed>>

(* Mutant: the row is written whatever its revision is by now.              *)
SaveAlways(r) ==
  LET q == request[r]
  IN  /\ q.pc = "save"
      /\ settings' = q.base /\ revision' = revision + 1
      /\ expected' = Edited(expected, r, q.op, q.list, q.arg, q.uuid)
      /\ Goto(r, "reread")
      /\ UNCHANGED <<recordVars, runtimeVars, fresh, overlap, missed>>

(* UpdateManagedSettings: compare and set of the revision.                  *)
UpdateManagedSettings(q) ==
  /\ revision = q.rev
  /\ settings' = q.base /\ revision' = revision + 1

(* The rest of the transaction of UpdateManagedSettingsAndAgentLabels.      *)
UpdateAgentLabels(q) ==
  /\ node' = IF q.node = None THEN node ELSE q.node
  /\ cfg' = IF q.cfg = None THEN cfg ELSE q.cfg

Save(r) ==
  LET q == request[r]
  IN  /\ q.pc = "save"
      /\ \/ /\ UpdateManagedSettings(q) /\ UpdateAgentLabels(q)
            /\ expected' = Edited(expected, r, q.op, q.list, q.arg, q.uuid)
            /\ overlap' = IF Saving # {} THEN overlap \cup {"settings"} ELSE overlap
            /\ IF q.op = "agent_labels" THEN Return(r) ELSE Goto(r, "reread")
         \/ /\ revision # q.rev
            /\ Return(r)
            /\ UNCHANGED <<rowVars, node, cfg, expected, overlap>>
      /\ UNCHANGED <<live, runtimeVars, fresh, missed>>

(* A call of the store fails and the handler returns; one that fails after  *)
(* the write leaves the settings saved and not applied.                     *)
StoreFails(r) ==
  /\ request[r].pc \in {"read", "prepare", "save", "reread", "check", "write"}
  /\ missed' = (missed \/ request[r].pc = "reread")
  /\ Return(r)
  /\ UNCHANGED <<rowVars, recordVars, runtimeVars, fresh, expected, overlap>>

(* GetManagedSettings at the end of UpdateManagedSettings.                  *)
Reread(r) ==
  /\ request[r].pc = "reread"
  /\ request' = [request EXCEPT ![r].saved = settings, ![r].pc = "applyServer"]
  /\ UNCHANGED <<rowVars, recordVars, runtimeVars, fresh, expected, overlap, missed>>

(* applyManagedRuntime: the server takes what the request has built, the    *)
(* hub what was read again.                                                 *)
ApplyServer(r) ==
  /\ request[r].pc = "applyServer"
  /\ server' = request[r].base
  /\ Goto(r, "applyHub")
  /\ UNCHANGED <<rowVars, recordVars, hub, fresh, expected, overlap, missed>>

(* Mutant: the hub is left alone.                                           *)
ApplyHubNot(r) ==
  /\ request[r].pc = "applyHub"
  /\ Return(r)
  /\ UNCHANGED <<rowVars, recordVars, runtimeVars, fresh, expected, overlap, missed>>

ApplyHub(r) ==
  /\ request[r].pc = "applyHub"
  /\ hub' = request[r].saved
  /\ missed' = FALSE
  /\ Return(r)
  /\ UNCHANGED <<rowVars, recordVars, server, fresh, expected, overlap>>

-----------------------------------------------------------------------------
(* Agent records *)

(* Mutant: an HTTP agent may take the id of a configured gRPC agent.        *)
CheckHTTPOnly(r) ==
  /\ request[r].pc = "check"
  /\ IF request[r].op = "create_http" /\ node # None THEN Return(r) ELSE Goto(r, "write")
  /\ UNCHANGED <<rowVars, recordVars, runtimeVars, fresh, expected, overlap, missed>>

(* ensureHTTPAgentIDAvailable, the lookup of updateGRPCAgentConfig, or that *)
(* of deleteManagedAgent.                                                   *)
Check(r) ==
  LET free == cfg = None /\ ~live
      ok == CASE request[r].op = "create_http" -> node = None /\ free
              [] request[r].op = "update_http" -> node # None \/ free
              [] request[r].op = "update_grpc" -> node = None
              [] request[r].op = "delete_agent" -> Known
  IN  /\ request[r].pc = "check"
      /\ IF ok THEN request' = [request EXCEPT ![r].pc = "write", ![r].node = node]
               ELSE Return(r)
      /\ UNCHANGED <<rowVars, recordVars, runtimeVars, fresh, expected, overlap, missed>>

Writing(r, ops) == request[r].pc = "write" /\ request[r].op \in ops
Written(r) ==
  /\ Return(r)
  /\ UNCHANGED <<rowVars, runtimeVars, fresh, expected, overlap, missed>>

writeHTTPAgent(r) ==
  /\ Writing(r, {"create_http", "update_http"})
  /\ node' = [by |-> r, labels |-> r]
  /\ UNCHANGED <<cfg, live>> /\ Written(r)

updateGRPCAgentConfig(r) ==
  /\ Writing(r, {"update_grpc"})
  /\ cfg' = [by |-> r, labels |-> r]
  /\ UNCHANGED <<node, live>> /\ Written(r)

(* DeleteHTTPAgent, or DeleteAgent and DeleteAgentConfig. The row a deleted *)
(* HTTP agent has in the agents table stays.                                *)
deleteManagedAgent(r) ==
  /\ Writing(r, {"delete_agent"})
  /\ \/ request[r].node # None /\ node' = None /\ UNCHANGED <<cfg, live>>
     \/ request[r].node = None /\ cfg' = None /\ live' = FALSE /\ UNCHANGED node
  /\ Written(r)

(* An agent with the id connects (UpsertAgent).                             *)
Connected ==
  /\ ~live /\ live' = TRUE
  /\ UNCHANGED <<rowVars, node, cfg, runtimeVars, request, fresh, expected, overlap, missed>>

Next ==
  \/ \E r \in Request :
       \/ \E op \in Op, k \in Lists \cup {None}, arg \in 0..fresh : Send(r, op, k, arg)
       \/ Read(r) \/ Prepare(r) \/ Save(r) \/ Reread(r) \/ ApplyServer(r) \/ ApplyHub(r)
       \/ StoreFails(r)
       \/ Check(r) \/ writeHTTPAgent(r) \/ updateGRPCAgentConfig(r) \/ deleteManagedAgent(r)
  \/ Connected

Spec == Init /\ [][Next]_vars

-----------------------------------------------------------------------------
(* Properties *)

(* No saved edit is lost or half kept: the row is what all saved edits make *)
(* of the initial one, one after the other in the order of their saves,     *)
(* though each request writes the whole row back and may bring a revision   *)
(* of its own (UpdateManagedSettings compares revisions).                   *)
EditsAreSerial == settings = expected

(* Somebody can always log in: two managers who each delete one of the last *)
(* tokens do not delete both (buildManagedRuntime before the write).        *)
AlwaysAToken == Len(settings.api) > 0 /\ Len(server.api) > 0

(* Once no save is under way the server and the hub enforce the same, and   *)
(* what is stored, unless two saves have overlapped (saveManagedSettings    *)
(* applies after the write, outside any lock) or the last one could not     *)
(* read back what it had written; the next save makes up for that.          *)
Applied == Saving = {} /\ "settings" \notin overlap =>
             server = hub /\ (~missed => hub = settings)

(* An id is an HTTP agent or a configured gRPC agent, not both, unless      *)
(* requests about agent records have overlapped                             *)
(* (ensureHTTPAgentIDAvailable is a check before the write).                *)
OneTransport == "records" \notin overlap => node = None \/ cfg = None

=============================================================================
