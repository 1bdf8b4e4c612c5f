---------------------------- MODULE ClientServer ----------------------------
(***************************************************************************)
(* Console clients (client.c, serializer.c), the server (server.c with the *)
(* Thrift simple server) and the request processor, over module BagTable   *)
(* in the place of executeQuery.                                           *)
(*                                                                         *)
(* The server takes connections one at a time, in the order in which they  *)
(* were made, and keeps one until its client closes it.  A client has one  *)
(* connection for its life and waits for each answer.  Either side may be  *)
(* killed at any moment; a killed server is started again, on an empty     *)
(* file, and clients of the old one stay with a broken link.               *)
(***************************************************************************)
EXTENDS RequestProcessor, Integers, Sequences, FiniteSets

CONSTANTS
    Clients, NoClient,  \* client processes, each run once
    Values,             \* rows
    Columns, NoColumns, \* lists of columns
    Statements,         \* what a line typed at the prompt can be
    MaxRows             \* bound: copies of a row sent to one server process

ASSUME ClientAssumption == NoClient \notin Clients
ASSUME MaxRowsAssumption == MaxRows \in Nat

(***************************************************************************)
(* A line as parse_statement returns it.  "EMPTY": the line was blank, and *)
(* the Statement keeps what malloc gave.  "ERROR": yyerror set it to NULL. *)
(***************************************************************************)
Ops == {"CREATE", "DROP", "INSERT", "SELECT", "UPDATE", "DELETE", "EMPTY", "ERROR"}
Empty == [op |-> "EMPTY", name |-> NoName, rows |-> <<>>, cols |-> NoColumns,
          where |-> [given |-> FALSE, match |-> Values, bad |-> {}],
          join |-> FALSE]
ASSUME StatementsAssumption ==
    /\ Empty \in Statements
    /\ \A s \in Statements :
         /\ s.op \in Ops /\ s.rows \in Seq(Values)
         /\ s.cols \in Columns \cup {NoColumns}
         /\ s.op = "INSERT" <=> s.rows # <<>>
         /\ s.join => s.op = "SELECT"
         /\ s.where \in [given : BOOLEAN, match : SUBSET Values, bad : SUBSET Values]

VARIABLES
    con,       \* client: "new", "prompt", "call" (in execute_stmt), "gone"
    line,      \* client: buffer
    eof,       \* client: stdin has ended
    link,      \* client: "none", "up", or "down" once its server has ended
    inbox,     \* the message sent to the server and not yet read
    outbox,    \* the response sent to the client and not yet read
    backlog,   \* connections the server has not accepted
    serving,   \* the client whose connection the server holds
    executing, \* the server is in executeQuery
    cols,      \* the columns of the table
    table, bag, lossy, busy, down, request, pending, answer,  \* BagTable
    sent,      \* history: rows sent to this server process
    acked      \* history: rows it has answered for

Engine == INSTANCE BagTable WITH Requests <- Statements

clients == <<con, line, eof, link>>
server == <<backlog, serving, executing>>
engine == <<cols, table, bag, lossy, busy, down, request, pending, answer>>
history == <<sent, acked>>
vars == <<clients, inbox, outbox, server, engine, history>>

NoMessage == <<>>
NoResponse == <<>>
Responses == [op : Ops, info : {"OK", "BAD_REQUEST", "INTERNAL_ERROR"},
              status : {"OK", "TABLE_NOT_FOUND", "BAD_REQUEST"}]
Counts == [Values -> 0 .. MaxRows]

TypeOK ==
    /\ con \in [Clients -> {"new", "prompt", "call", "gone"}]
    /\ line \in [Clients -> Statements]
    /\ eof \in [Clients -> BOOLEAN]
    /\ link \in [Clients -> {"none", "up", "down"}]
    /\ inbox \in [Clients -> {NoMessage} \cup {<<m>> : m \in Statements}]
    /\ outbox \in [Clients -> {NoResponse} \cup {<<r>> : r \in Responses}]
    /\ backlog \in Seq(Clients)
    /\ serving \in Clients \cup {NoClient}
    /\ executing \in BOOLEAN
    /\ cols \in Columns \cup {NoColumns}
    /\ bag \in Counts /\ sent \in Counts /\ acked \in Counts

Init ==
    /\ con = [c \in Clients |-> "new"] /\ line = [c \in Clients |-> Empty]
    /\ eof = [c \in Clients |-> FALSE] /\ link = [c \in Clients |-> "none"]
    /\ inbox = [c \in Clients |-> NoMessage]
    /\ outbox = [c \in Clients |-> NoResponse]
    /\ backlog = <<>> /\ serving = NoClient /\ executing = FALSE
    /\ cols = NoColumns
    /\ Engine!Init /\ request = Empty
    /\ sent = Engine!NoRows /\ acked = Engine!NoRows

Count(rows, v) == Cardinality({i \in DOMAIN rows : rows[i] = v})
AddRows(n, rows) == [v \in Values |-> n[v] + Count(rows, v)]

----------------------------------------------------------------------------
(***************************************************************************)
(* The client                                                              *)
(***************************************************************************)
Connect(c) ==
    /\ con[c] = "new"
    /\ IF down
       THEN /\ con' = [con EXCEPT ![c] = "gone"]
            /\ UNCHANGED <<link, backlog>>
       ELSE /\ con' = [con EXCEPT ![c] = "prompt"]
            /\ link' = [link EXCEPT ![c] = "up"]
            /\ backlog' = Append(backlog, c)
    /\ UNCHANGED <<line, eof, inbox, outbox, serving, executing, engine, history>>

\* fgets: a line that was typed or, when input has ended, the buffer as it is.
Typed(c) ==
    IF con[c] # "prompt" THEN {}
    ELSE IF eof[c] THEN {line[c]} ELSE Statements

Reads(c, s) == s \in Typed(c) /\ line' = [line EXCEPT ![c] = s]

EndOfInput(c) ==
    /\ con[c] = "prompt" /\ ~eof[c]
    /\ eof' = [eof EXCEPT ![c] = TRUE]
    /\ UNCHANGED <<con, line, link, inbox, outbox, server, engine, history>>

ParseFails(c) ==
    /\ \E s \in Statements : s.op = "ERROR" /\ Reads(c, s)
    /\ UNCHANGED <<con, eof, link, inbox, outbox, server, engine, history>>

\* The process ends; what it has sent stays sent.
Gone(c) ==
    /\ con' = [con EXCEPT ![c] = "gone"]
    /\ line' = [line EXCEPT ![c] = Empty] /\ eof' = [eof EXCEPT ![c] = FALSE]
    /\ link' = [link EXCEPT ![c] = "none"]
    /\ outbox' = [outbox EXCEPT ![c] = NoResponse]
    /\ UNCHANGED <<inbox, server, engine, history>>

(***************************************************************************)
(* serialize_sel returns NULL, an UPDATE without WHERE has no condition to *)
(* print, and an uninitialised Statement may be taken for any other.       *)
(***************************************************************************)
SerializeCrashes(c) ==
    /\ \E s \in Typed(c) : \/ s.op \in {"SELECT", "EMPTY"}
                           \/ s.op = "UPDATE" /\ ~s.where.given
    /\ Gone(c)

Sendable(s) ==
    /\ s.op \notin {"SELECT", "ERROR"}
    /\ s.op = "UPDATE" => s.where.given

Call(c) ==
    /\ link[c] = "up"
    /\ \E s \in Statements :
         /\ Sendable(s) /\ Reads(c, s)
         /\ inbox' = [inbox EXCEPT ![c] = <<s>>]
         /\ AddRows(sent, s.rows) \in Counts
         /\ sent' = AddRows(sent, s.rows)
    /\ con' = [con EXCEPT ![c] = "call"]
    /\ UNCHANGED <<eof, link, outbox, server, engine, acked>>

\* The server has ended: the error is printed, or SIGPIPE ends the client.
CallBrokenLink(c) ==
    /\ link[c] = "down"
    /\ \E s \in Typed(c) :
         /\ Sendable(s)
         /\ \/ Gone(c)
            \/ /\ Reads(c, s)
               /\ UNCHANGED <<con, eof, link, inbox, outbox, server, engine, history>>

Receive(c) ==
    /\ con[c] = "call" /\ outbox[c] # NoResponse
    /\ con' = [con EXCEPT ![c] = "prompt"]
    /\ outbox' = [outbox EXCEPT ![c] = NoResponse]
    /\ acked' = IF link[c] = "up" /\ outbox[c][1].info = "OK"
                THEN AddRows(acked, line[c].rows) ELSE acked
    /\ UNCHANGED <<line, eof, link, inbox, server, engine, sent>>

MCallFailsOverGoodLink(c) ==
    /\ con[c] = "call" /\ outbox[c] = NoResponse
    /\ con' = [con EXCEPT ![c] = "prompt"]
    /\ UNCHANGED <<line, eof, link, inbox, outbox, server, engine, history>>

CallFails(c) ==
    /\ con[c] = "call" /\ link[c] = "down" /\ outbox[c] = NoResponse
    /\ con' = [con EXCEPT ![c] = "prompt"]
    /\ UNCHANGED <<line, eof, link, inbox, outbox, server, engine, history>>

\* quit, or killed.
Leave(c) == con[c] \in {"prompt", "call"} /\ Gone(c)

----------------------------------------------------------------------------
(***************************************************************************)
(* The server                                                              *)
(***************************************************************************)
Accept ==
    /\ ~down /\ serving = NoClient /\ backlog # <<>>
    /\ serving' = Head(backlog) /\ backlog' = Tail(backlog)
    /\ UNCHANGED <<clients, inbox, outbox, executing, engine, history>>

\* The client has closed the connection and all it sent is answered.
Hangup ==
    /\ serving # NoClient /\ ~executing
    /\ inbox[serving] = NoMessage /\ con[serving] = "gone"
    /\ serving' = NoClient
    /\ UNCHANGED <<clients, inbox, outbox, backlog, executing, engine, history>>

\* The operating system closes every connection of the process.
Disconnect ==
    /\ serving' = NoClient /\ backlog' = <<>> /\ executing' = FALSE
    /\ inbox' = [c \in Clients |-> NoMessage]
    /\ link' = [c \in Clients |-> IF link[c] = "up" THEN "down" ELSE link[c]]
    /\ UNCHANGED <<con, line, eof, outbox, history, cols>>

ServerEnds ==
    /\ ~down /\ down' = TRUE /\ busy' = FALSE
    /\ pending' = <<>> /\ answer' = Engine!NoAnswer
    /\ UNCHANGED <<table, bag, lossy, request>>
    /\ Disconnect

Reading == ~down /\ serving # NoClient /\ ~executing /\ inbox[serving] # NoMessage

Responds(m, status) ==
    outbox' = IF con[serving] = "gone" THEN outbox
              ELSE [outbox EXCEPT ![serving] = <<Response(m, status)>>]

MTakesNothing == UNCHANGED inbox

TakesMessage == inbox' = [inbox EXCEPT ![serving] = NoMessage]

RefuseRequest ==
    /\ Reading
    /\ LET m == inbox[serving][1]
       IN  Refuses(m, table, cols) /\ Responds(m, "BAD_REQUEST")
    /\ TakesMessage
    /\ UNCHANGED <<clients, server, engine, history>>

ProcessorCrash == Reading /\ EndsProcess(inbox[serving][1], table) /\ ServerEnds

Execute ==
    /\ Reading
    /\ LET m == inbox[serving][1]
       IN  /\ ~Refuses(m, table, cols) /\ ~EndsProcess(m, table)
           /\ Engine!Ask(m)
    /\ executing' = TRUE
    /\ TakesMessage
    /\ UNCHANGED <<clients, outbox, backlog, serving, cols, history>>

(***************************************************************************)
(* The steps of executeQuery.  A DELETE that meets stored rows answers if  *)
(* the first it looks at satisfies the condition, loops if it does not,    *)
(* and ends the process if its evaluation reaches a missing condition.     *)
(***************************************************************************)
EngineStep ==
    /\ \/ Engine!Create \/ Engine!Drop \/ Engine!Put \/ Engine!Inserted
       \/ Engine!Deleted
       \/ Engine!Refused /\ request.op # "DELETE"
    /\ cols' = CASE table' = NoName -> NoColumns
                 [] table = NoName /\ table' # NoName -> request.cols
                 [] OTHER -> cols
    /\ UNCHANGED <<clients, inbox, outbox, server, history>>

FirstRowIn(S) == request.op = "DELETE" /\ \E v \in S : bag[v] > 0

DeleteStep ==
    /\ FirstRowIn(request.where.match \ request.where.bad)
    /\ Engine!Refused
    /\ UNCHANGED <<clients, inbox, outbox, server, history, cols>>

NullCondition == busy /\ FirstRowIn(request.where.bad) /\ ServerEnds

EngineCrash == Engine!End /\ Disconnect

MRespondForgets ==
    /\ executing /\ ~busy
    /\ executing' = FALSE
    /\ UNCHANGED <<clients, inbox, outbox, backlog, serving, engine, history>>

Respond ==
    /\ executing /\ ~busy
    /\ Responds(request, answer.status)
    /\ executing' = FALSE
    /\ UNCHANGED <<clients, inbox, backlog, serving, engine, history>>

\* main: createDatabase truncates the file.
Restart ==
    /\ Engine!Restart
    /\ cols' = NoColumns
    /\ sent' = Engine!NoRows /\ acked' = Engine!NoRows
    /\ UNCHANGED <<clients, inbox, outbox, server>>

----------------------------------------------------------------------------
ServerStep ==
    Accept \/ Hangup \/ RefuseRequest \/ ProcessorCrash \/ Execute
           \/ EngineStep \/ EngineCrash \/ Respond

Next ==
    \/ ServerStep \/ DeleteStep \/ NullCondition
    \/ ServerEnds \/ Restart
    \/ \E c \in Clients :
         \/ Connect(c) \/ EndOfInput(c) \/ ParseFails(c) \/ SerializeCrashes(c)
         \/ Call(c) \/ CallBrokenLink(c) \/ Receive(c) \/ CallFails(c)
         \/ Leave(c)

Spec == Init /\ [][Next]_vars

(***************************************************************************)
(* A server that can go on does, and a client reads what has come in.  A   *)
(* DELETE that meets rows is not sure to answer.  Nobody is sure to type,  *)
(* to leave, or to restart the server.                                     *)
(***************************************************************************)
FairSpec ==
    /\ Spec /\ WF_vars(ServerStep)
    /\ \A c \in Clients : WF_vars(Receive(c)) /\ WF_vars(CallFails(c))
=============================================================================
