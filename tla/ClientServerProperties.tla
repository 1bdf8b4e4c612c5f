----------------------- MODULE ClientServerProperties -----------------------
(***************************************************************************)
(* What is checked of module ClientServer.                                 *)
(***************************************************************************)
EXTENDS ClientServer

InHand(c) == serving = c /\ executing

(***************************************************************************)
(* A call over a link that is up is in one place only: on its way, in the  *)
(* hands of the server, or answered; a client at its prompt has none of    *)
(* these left over, so that an answer is never taken for that to a later   *)
(* line (execute_stmt of the client sends a message and reads one answer). *)
(***************************************************************************)
CallAccounted ==
    \A c \in Clients :
      /\ con[c] = "call" /\ link[c] = "up" =>
           \/ inbox[c] = <<line[c]>> /\ ~InHand(c) /\ outbox[c] = NoResponse
           \/ inbox[c] = NoMessage /\ InHand(c) /\ outbox[c] = NoResponse
                /\ request = line[c]
           \/ inbox[c] = NoMessage /\ ~InHand(c) /\ outbox[c] # NoResponse
      /\ con[c] = "prompt" =>
           inbox[c] = NoMessage /\ ~InHand(c) /\ outbox[c] = NoResponse
      /\ outbox[c] # NoResponse => outbox[c][1].op = line[c].op

(***************************************************************************)
(* Until a table is dropped, a row whose INSERT was answered "Data         *)
(* inserted" is stored, and none is stored more often than it was sent:    *)
(* for clients that are killed in the middle of a call, too.               *)
(***************************************************************************)
AckedStored ==
    ~down /\ ~lossy => \A v \in Values : acked[v] <= bag[v] /\ bag[v] <= sent[v]

Held(c) == serving \notin {c, NoClient}

Deleting == executing /\ busy /\ request.op = "DELETE"

(***************************************************************************)
(* A client waits for ever only if the server keeps the connection of      *)
(* another one for ever, or loops in a DELETE (thrift_simple_server takes  *)
(* the next connection when the current one is closed).                    *)
(***************************************************************************)
CallsEnd ==
    \A c \in Clients :
      <>[](con[c] = "call") => <>[]Held(c) \/ <>[](serving = c /\ Deleting)

----------------------------------------------------------------------------
(***************************************************************************)
(* enum Status_ of nt_structs.thrift: a response says OK when, and only    *)
(* when, the statement was executed.                                       *)
(***************************************************************************)
StatusUnderstood ==
    \A c \in Clients : outbox[c] # NoResponse =>
        (outbox[c][1].status = "OK" <=> outbox[c][1].info = "OK")

(***************************************************************************)
(* getCond sets BAD_REQUEST for a condition on a column that is not there. *)
(***************************************************************************)
WrongColumnRefused ==
    \A c \in Clients : outbox[c] # NoResponse /\ WrongColumn(line[c]) =>
        outbox[c][1].info = "BAD_REQUEST"
=============================================================================
