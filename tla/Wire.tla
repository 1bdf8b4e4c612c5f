-------------------------------- MODULE Wire --------------------------------
(***************************************************************************)
(* The functions _write and _read of the bindings, run over the tables of  *)
(* module Bindings, on the tokens of the Thrift binary protocol:           *)
(*                                                                         *)
(*   field header [fid, wire]   stop   list header   value                 *)
(*                                                                         *)
(* The beginning and the end of a struct, and the end of a field, put      *)
(* nothing on the wire.  Structs are nested without a bound, and the       *)
(* functions call each other: the writers are run pass by pass over what   *)
(* is still to be written, the readers step by step with the calls that    *)
(* are under way.                                                          *)
(***************************************************************************)
EXTENDS Bindings, Text, SequencesExt

Field(fid, wire) == [fid |-> fid, wire |-> wire]
Stop == Field(0, "T_STOP")
ListBegin(elem, n) == [elem |-> elem, size |-> n]

\* A NULL string is written with length 0, and length 0 is read as NULL.
WriteString(s) == IF s = NULL THEN EmptyString ELSE s
ReadString(token) == IF token = EmptyString THEN NULL ELSE token

----------------------------------------------------------------------------
(***************************************************************************)
(* Writing.  An item is a token or a value that is still to be written.    *)
(***************************************************************************)
Token(token) == [token |-> token]
Value(type, value) == [type |-> type, value |-> value]

WriteField(f, o) ==
    IF f.ifset /\ f.name \notin o.isset THEN <<>>
    ELSE <<Token(Field(f.fid, f.type.wire)), Value(f.type, o.has[f.name])>>

\* thrift_struct_write
WriteStruct(o) ==
    LET fields == WriteTable[o.type]
    IN  FlattenSeq([i \in DOMAIN fields |-> WriteField(fields[i], o)]) \o <<Token(Stop)>>

IsToken(item) == "token" \in DOMAIN item

\* thrift_struct_write of NULL: the process ends before it is written.
IsFatal(item) == ~IsToken(item) /\ item.type.wire = "T_STRUCT" /\ item.value.type = NoObject.type

\* The tokens and the values that an item consists of.
Write(item) ==
    CASE IsToken(item) \/ IsFatal(item) -> <<item>>
      [] ~IsToken(item) /\ item.type.wire = "T_STRING" -> <<Token(WriteString(item.value))>>
      [] ~IsToken(item) /\ item.type.wire = "T_LIST" ->
           <<Token(ListBegin(item.type.of.wire, Len(item.value)))>>
             \o [i \in DOMAIN item.value |-> Value(item.type.of, item.value[i])]
      [] ~IsToken(item) /\ item.type.wire = "T_STRUCT" /\ ~IsFatal(item) ->
           WriteStruct(item.value)
      [] OTHER -> <<Token(item.value)>>

AllWritten(items) == \A i \in DOMAIN items : IsToken(items[i]) \/ IsFatal(items[i])

Pass(items) == FlattenSeq([i \in DOMAIN items |-> Write(items[i])])

\* Items are written pass by pass, until only tokens are left, or a NULL.  (Of a
\* set of one, TLC evaluates the member once.)
Output(items) ==
    LET after[n \in Nat] ==
            IF n = 0 THEN items
            ELSE CHOOSE next \in {Pass(now) : now \in {after[n - 1]}} : TRUE
        passes[n \in Nat] ==
            IF \A now \in {after[n]} : AllWritten(now) THEN n ELSE passes[n + 1]
    IN  after[passes[0]]

WriterCrashes(output) == \E i \in DOMAIN output : ~IsToken(output[i])

----------------------------------------------------------------------------
(***************************************************************************)
(* Reading.  A call of a reading function is a record of what it has read  *)
(* so far, with the call that is given the value when it is complete.      *)
(***************************************************************************)
TopCall == [reads |-> "nothing", got |-> <<>>]
StructCall(o, member, caller) ==
    [reads |-> "struct", object |-> o, member |-> member, caller |-> caller]
ListCall(of, left, list, caller) ==
    [reads |-> "list", of |-> of, left |-> left, list |-> list, caller |-> caller]

\* The innermost call, and after how many tokens.
Goes(call, at) == [call |-> call, at |-> at]
OutOfTokens == Goes(TopCall, 0)

\* A struct has one more field read into it, and its flag set; a list has one
\* more element.
Received(c, value) ==
    CASE c.reads = "nothing" -> [c EXCEPT !.got = <<value>>]
      [] c.reads = "list" -> [c EXCEPT !.list = Append(@, value)]
      [] c.reads = "struct" ->
           IF c.member = "none" THEN c
           ELSE [c EXCEPT !.object.has[c.member] = value,
                          !.object.isset = @ \cup {c.member}]

\* thrift_protocol_skip: a value of which the wire type only is known.
Skipped(wire) == [wire |-> wire]

\* A new element of a list, or what is skipped, before it is read.
Element(type) ==
    CASE type.wire # "T_STRUCT" -> <<>>
      [] type.wire = "T_STRUCT" /\ "of" \in DOMAIN type -> New(type.of)
      [] OTHER -> NoObject

\* A value of a type is read, into what is there already: all of it, or as far
\* as its own fields or elements.
Read(tokens, type, old, caller, at) ==
    IF type.wire = "T_STRUCT" THEN Goes(StructCall(old, "none", caller), at)
    ELSE IF at = Len(tokens) THEN OutOfTokens
    ELSE LET token == tokens[at + 1].token
         IN  CASE type.wire = "T_STRING" -> Goes(Received(caller, ReadString(token)), at + 1)
               [] type.wire = "T_LIST" ->
                    Goes(ListCall(IF "of" \in DOMAIN type THEN type.of ELSE Skipped(token.elem),
                                  token.size, old, caller), at + 1)
               [] OTHER -> Goes(Received(caller, token), at + 1)

Known(o, field) ==
    /\ o.type # NoObject.type /\ field.fid \in DOMAIN ReadTable[o.type]
    /\ ReadTable[o.type][field.fid].type.wire = field.wire

\* The loop of _read: the header of a field and its value, or the stop.
ReadField(tokens, c, at) ==
    IF at = Len(tokens) THEN OutOfTokens
    ELSE LET field == tokens[at + 1].token
         IN  IF field = Stop THEN Goes(Received(c.caller, c.object), at + 1)
             ELSE IF ~Known(c.object, field)
             THEN Read(tokens, Skipped(field.wire), Element(Skipped(field.wire)),
                       [c EXCEPT !.member = "none"], at + 1)
             ELSE LET m == ReadTable[c.object.type][field.fid]
                  IN  Read(tokens, m.type, c.object.has[m.name],
                           [c EXCEPT !.member = m.name], at + 1)

\* The loop over a list: left more elements, appended to what it holds already.
ReadElement(tokens, c, at) ==
    IF c.left = 0 THEN Goes(Received(c.caller, c.list), at)
    ELSE Read(tokens, c.of, Element(c.of), [c EXCEPT !.left = @ - 1], at)

ReadStep(tokens, r) ==
    CASE r.call.reads = "struct" -> ReadField(tokens, r.call, r.at)
      [] r.call.reads = "list" -> ReadElement(tokens, r.call, r.at)
      [] r.call.reads = "nothing" -> r

Got(value, rest) == [ok |-> TRUE, value |-> value, rest |-> rest]
Failed == [ok |-> FALSE, value |-> NULL, rest |-> <<>>]

ReadResult(tokens, r) ==
    IF r.call.reads = "nothing" /\ r.call.got # <<>>
    THEN Got(r.call.got[1], SubSeq(tokens, r.at + 1, Len(tokens)))
    ELSE Failed

\* Eight steps, from r.  (A recursion over all the steps of a message is too deep
\* for TLC.)
ReadSteps(tokens, r) ==
    LET after[n \in Nat] ==
            IF n = 0 THEN r
            ELSE CHOOSE next \in {ReadStep(tokens, q) : q \in {after[n - 1]}} : TRUE
    IN  after[8]

\* A struct is read from the tokens after the first.  A value has a token of its
\* own and takes two steps at most, so eight are enough for four tokens.
ReadStruct(o, tokens) ==
    LET after[n \in Nat] ==
            IF n = 0 THEN Goes(StructCall(o, "none", TopCall), 1)
            ELSE CHOOSE next \in {ReadSteps(tokens, r) : r \in {after[n - 1]}} : TRUE
        ends == after[Len(tokens) \div 4 + 1]
    IN  IF tokens = <<>> THEN Failed
        ELSE CHOOSE result \in {ReadResult(tokens, r) : r \in {ends}} : TRUE

----------------------------------------------------------------------------
(***************************************************************************)
(* The two messages of send_statement_service.c                            *)
(***************************************************************************)
MessageBegin(kind) == [name |-> "executeStmt", kind |-> kind]

\* send_execute_stmt
CallMessage(statement) ==
    <<Token(MessageBegin("T_CALL"))>>
      \o Output(WriteStruct([type |-> "CallArgs", has |-> [statement |-> statement],
                             isset |-> {}]))

\* Of process_execute_stmt: the reading of the arguments.
ReadCall(tokens) == ReadStruct(New("ExecuteStmtArgs"), tokens)

MReplyMessageStopTwice(return_value) ==
    <<Token(MessageBegin("T_REPLY"))>>
      \o Output(WriteStruct(Set(New("ExecuteStmtResult"), "success", return_value))
                  \o <<Token(Stop)>>)

\* Of process_execute_stmt: the writing of the result.
ReplyMessage(return_value) ==
    <<Token(MessageBegin("T_REPLY"))>>
      \o Output(WriteStruct(Set(New("ExecuteStmtResult"), "success", return_value)))

\* recv_execute_stmt, into the response the client has made.
ReadReply(tokens, return) ==
    ReadStruct([type |-> "CallResult", has |-> [success |-> return], isset |-> {}], tokens)
=============================================================================
