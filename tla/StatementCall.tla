--------------------------- MODULE StatementCall ---------------------------
(***************************************************************************)
(* One line from the prompt to the table and back, with the data it        *)
(* carries: client.c, lab2 (parser and printer), serializer.c, the         *)
(* messages of gen-c_glib, server.c, request_processor.c and, for what a   *)
(* statement does to the table, queries.c.                                 *)
(*                                                                         *)
(* Clients come one after the other (module ClientServer has them at the   *)
(* same time).  Either process may be killed at any moment, also when only *)
(* the first part of a message has left it.                                *)
(***************************************************************************)
EXTENDS Printer, Serializer, RequestConversion

CONSTANTS
    Lines,    \* what can be typed
    NoLine,
    MaxTabs,  \* bound: statements a client prints, DROPs apart
    Cuts      \* bound: after how many tokens a message may break off

ASSUME LinesAssumption == Lines \subseteq Grammar /\ NoLine \notin Grammar
ASSUME EmptyStringAssumption ==
    EmptyString \notin Names \cup {"INTERNAL_ERROR", "BAD_REQUEST", "OK", NULL}
ASSUME InfoAssumption == NULL \notin {"INTERNAL_ERROR", "BAD_REQUEST", "OK"}
ASSUME MaxTabsAssumption == MaxTabs \in Nat
ASSUME CutsAssumption == Cuts \subseteq Nat \ {0}

VARIABLES
    client,    \* "prompt", "waiting" (for the answer), "gone"
    line,      \* the line typed last
    tabs,      \* the global variable of write.c
    out,       \* what the client printed for that line
    told,      \* the text of the answer it printed after it
    link,      \* its connection: "up", "down" (server gone), "none"
    request,   \* tokens sent to the server and not read
    response,  \* tokens sent to the client and not read
    server,    \* "accepting", "reading", "executing", "answering", "looping", "down"
    statement, \* the statement the server has read
    result,    \* what process_client_request returned
    store      \* [columns, rows, lossy]: the table

console == <<line, tabs, out, told>>
vars == <<client, console, link, request, response, server, statement, result, store>>

EmptyStore == [columns |-> <<>>, rows |-> {}, lossy |-> FALSE]

\* The text of an answer, named by the status that goes with it.
Info == <<"INTERNAL_ERROR", "BAD_REQUEST", "OK">>
Result(status) == [info |-> Info[status + 1], status |-> status]
Without(info) == [info |-> info, status |-> INTERNAL_ERROR]

Init ==
    /\ client = "prompt" /\ line = NoLine /\ tabs = 0 /\ out = <<>> /\ told = "none"
    /\ link = "up" /\ request = <<>> /\ response = <<>>
    /\ server = "reading" /\ statement = NULL /\ result = Without("none")
    /\ store = EmptyStore

----------------------------------------------------------------------------
(***************************************************************************)
(* The client                                                              *)
(***************************************************************************)
\* The message of every line; printing comes first, and may end the client.
Messages ==
    [l \in Lines |-> IF PrintCrashes(parse_statement(l)) THEN <<>>
                     ELSE CallMessage(serialize(parse_statement(l)))]

\* A prefix of a message that is not the whole of it.
Cut(tokens) == {SubSeq(tokens, 1, n) : n \in Cuts \cap 1 .. Len(tokens) - 1}

\* parse_statement, and serialize as far as printing.
Types(l) ==
    LET printed == printStatement(parse_statement(l), tabs)
    IN  /\ client = "prompt" /\ tabs < MaxTabs
        /\ line' = l /\ told' = "none"
        /\ out' = printed.out /\ tabs' = printed.tabs

\* The process ends, and with it its global variable.
Gone ==
    /\ client' = "gone" /\ link' = "none"
    /\ response' = <<>> /\ told' = "none"
    /\ line' = line /\ tabs' = 0 /\ out' = <<>>

CrashesClient(l) == PrintCrashes(parse_statement(l)) \/ WriterCrashes(Messages[l])

TypeFatal(l) ==
    /\ client = "prompt" /\ CrashesClient(l)
    /\ Gone
    /\ UNCHANGED <<request, server, statement, result, store>>

Call(l) ==
    /\ link = "up" /\ ~CrashesClient(l) /\ Types(l)
    /\ request' = Messages[l]
    /\ client' = "waiting"
    /\ UNCHANGED <<link, response, server, statement, result, store>>

KilledSending(l) ==
    /\ client = "prompt" /\ link = "up" /\ ~CrashesClient(l)
    /\ request' \in Cut(Messages[l])
    /\ Gone
    /\ UNCHANGED <<server, statement, result, store>>

\* The error is printed, or SIGPIPE ends the client.
CallBrokenLink(l) ==
    /\ link = "down" /\ ~CrashesClient(l)
    /\ \/ Types(l) /\ UNCHANGED <<client, link, response>>
       \/ client = "prompt" /\ Gone
    /\ UNCHANGED <<request, server, statement, result, store>>

Reply == ReadReply(response, New("ServerResponse"))

Receive ==
    /\ client = "waiting" /\ Reply.ok
    /\ client' = "prompt"
    /\ told' = Reply.value.has.success.has.info
    /\ response' = Reply.rest
    /\ UNCHANGED <<line, tabs, out, link, request, server, statement, result, store>>

\* The end of the connection, perhaps after a part of the answer.
ReceiveFails ==
    /\ client = "waiting" /\ link = "down" /\ ~Reply.ok
    /\ client' = "prompt" /\ response' = <<>>
    /\ UNCHANGED <<console, link, request, server, statement, result, store>>

\* quit, or killed.
ClientEnds ==
    /\ client # "gone" /\ Gone
    /\ UNCHANGED <<request, server, statement, result, store>>

\* The next client: thrift_transport_open, and the server accepts it.
ClientStarts ==
    /\ client = "gone" /\ server = "accepting"
    /\ client' = "prompt" /\ link' = "up" /\ server' = "reading"
    /\ line' = NoLine
    /\ UNCHANGED <<tabs, out, told, request, response, statement, result, store>>

----------------------------------------------------------------------------
(***************************************************************************)
(* The server                                                              *)
(***************************************************************************)
Arrived == ReadCall(request)

\* process_execute_stmt: reading the arguments.
ReadArgs ==
    /\ server = "reading" /\ Arrived.ok
    /\ server' = "executing" /\ statement' = Arrived.value.has.statement
    /\ request' = Arrived.rest /\ result' = Without("none")
    /\ UNCHANGED <<client, console, link, response, store>>

\* The client has closed the connection, perhaps after a part of a message.
DropConnection ==
    /\ server = "reading" /\ client = "gone" /\ ~Arrived.ok
    /\ server' = "accepting" /\ request' = <<>>
    /\ UNCHANGED <<client, console, link, response, statement, result, store>>

\* The end of the server process, with what it leaves of an answer.
Ended(left, info) ==
    /\ server' = "down"
    /\ link' = IF link = "up" THEN "down" ELSE link
    /\ request' = <<>> /\ statement' = NULL
    /\ response' = left /\ result' = info
    /\ UNCHANGED <<client, console>>

Processed == process_client_request(statement, store.columns)

Answering(status) ==
    /\ server' = "answering" /\ result' = Result(status)
    /\ UNCHANGED <<client, console, link, request, response, statement>>

RefuseRequest ==
    /\ server = "executing" /\ Processed.does = "refuse"
    /\ Answering(BAD_REQUEST)
    /\ UNCHANGED store

ExecuteAnswers ==
    /\ server = "executing" /\ Processed.does = "query"
    /\ \E o \in executeQuery(Processed.query, store) :
         o.ends = "answer" /\ Answering(o.status) /\ store' = o.store

\* A DELETE that goes on for ever.
ExecuteLoops ==
    /\ server = "executing" /\ Processed.does = "query"
    /\ \E o \in executeQuery(Processed.query, store) : o.ends = "loop"
    /\ server' = "looping" /\ result' = Without("looping")
    /\ UNCHANGED <<client, console, link, request, response, statement, store>>

ProcessorCrash ==
    /\ server = "executing"
    /\ \/ Processed.does = "crash"
       \/ /\ Processed.does = "query"
          /\ \E o \in executeQuery(Processed.query, store) : o.ends = "crash"
    /\ Ended(response, Without("ended"))
    /\ UNCHANGED store

\* send_statement_handler_execute fills in the object that is sent; the number
\* of a STATUS of queries.h goes out as that of a Status_.
ReturnValue(answer) ==
    Set2(New("ServerResponse"), "status", answer.status, "info", answer.info)

\* The messages for the answers there are.
Replies == [status \in INTERNAL_ERROR .. OK |-> ReplyMessage(ReturnValue(Result(status)))]

MRespondRefusesSilently ==
    /\ server = "answering"
    /\ server' = "reading" /\ statement' = NULL
    /\ response' = IF client = "gone" \/ result.status = BAD_REQUEST THEN <<>>
                   ELSE Replies[result.status]
    /\ UNCHANGED <<client, console, link, request, result, store>>

Respond ==
    /\ server = "answering"
    /\ server' = "reading" /\ statement' = NULL
    /\ response' = IF client = "gone" THEN <<>> ELSE Replies[result.status]
    /\ UNCHANGED <<client, console, link, request, result, store>>

RespondKilled ==
    /\ server = "answering" /\ client = "waiting"
    /\ \E left \in Cut(Replies[result.status]) : Ended(left, Without("killed"))
    /\ UNCHANGED store

\* Killed; an answer that has been sent can still be read.
ServerEnds ==
    /\ server # "down"
    /\ Ended(response, IF response = <<>> THEN Without("killed") ELSE result)
    /\ UNCHANGED store

\* main: createDatabase truncates the file.
ServerStarts ==
    /\ server = "down"
    /\ server' = "accepting" /\ store' = EmptyStore
    /\ UNCHANGED <<client, console, link, request, response, statement, result>>

----------------------------------------------------------------------------
ServerStep ==
    \/ ReadArgs \/ DropConnection \/ RefuseRequest \/ ExecuteAnswers \/ ExecuteLoops
    \/ ProcessorCrash \/ Respond

Next ==
    \/ ServerStep \/ Receive \/ ReceiveFails
    \/ \E l \in Lines : TypeFatal(l) \/ Call(l) \/ KilledSending(l) \/ CallBrokenLink(l)
    \/ ClientEnds \/ ClientStarts
    \/ RespondKilled \/ ServerEnds \/ ServerStarts

Spec == Init /\ [][Next]_vars

(***************************************************************************)
(* A server that is not in its loop goes on, and a client reads what has   *)
(* come.  Nobody need type, leave, or start a process.                     *)
(***************************************************************************)
FairSpec == Spec /\ WF_vars(ServerStep) /\ WF_vars(Receive) /\ WF_vars(ReceiveFails)
=============================================================================
