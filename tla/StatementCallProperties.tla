----------------------- MODULE StatementCallProperties -----------------------
(***************************************************************************)
(* What the parts between the prompt and the table promise together.       *)
(***************************************************************************)
EXTENDS StatementCall

Statuses == INTERNAL_ERROR .. OK

\* Types: the states of the processes, and a result the handler can send.
TypeOK ==
    /\ client \in {"prompt", "waiting", "gone"}
    /\ line \in Lines \cup {NoLine} /\ tabs \in 0 .. MaxTabs
    /\ link \in {"up", "down", "none"}
    /\ server \in {"accepting", "reading", "executing", "answering", "looping", "down"}
    /\ result \in {Result(n) : n \in Statuses}
                    \cup {Without(i) : i \in {"none", "ended", "killed", "looping"}}
    /\ told \in {"none"} \cup {Info[n + 1] : n \in Statuses}

(***************************************************************************)
(* A message is understood to its last token: whenever a client is back at *)
(* the prompt of an open connection, nothing of a call or of an answer is  *)
(* left in it and the server reads the next one from its beginning.  The   *)
(* bindings write and read by separate functions per struct                *)
(* (nt_structs_types.c); one token more or less on one side would shift    *)
(* every later call.                                                       *)
(***************************************************************************)
InSync ==
    client = "prompt" /\ link = "up" =>
        request = <<>> /\ response = <<>> /\ server = "reading"

(***************************************************************************)
(* write.c prints a tree whose brackets nest: every line is as much deeper *)
(* than the first line of its statement as there are brackets open around  *)
(* it, whatever was printed before.                                        *)
(***************************************************************************)
LinesBefore(n, texts) == Cardinality({i \in DOMAIN out : i < n /\ out[i].text \in texts})

PrintedNested ==
    \A n \in DOMAIN out :
        out[n].tabs - out[1].tabs
          = LinesBefore(n, {"[", "{"}) - LinesBefore(n + 1, {"]", "}"})

(***************************************************************************)
(* A typed line takes effect as a whole and as typed, or not at all, and   *)
(* the outcome shown is its own, although either process may be killed     *)
(* between any two steps or half way through a message.  The line is on    *)
(* its way while its client waits or the server still has to do with it.   *)
(***************************************************************************)
OnItsWay ==
    \/ client = "waiting" \/ server \in {"executing", "answering", "looping"}
    \/ Arrived.ok

User == INSTANCE TypedCall WITH
    current <- IF OnItsWay THEN line ELSE NoLine,
    effect <- IF OnItsWay /\ request = <<>> THEN result.info ELSE "none",
    shown <- told

ImplementsTypedCall == User!Spec

(***************************************************************************)
(* A client that waits gets an answer or an error, or the server is in the *)
(* loop of a DELETE (queries.c:246).                                       *)
(***************************************************************************)
CallAnswered == client = "waiting" ~> client # "waiting" \/ server = "looping"

(***************************************************************************)
(* An integer is [-+]?[0-9]+ (readme.md of lab2, lexerLINQ.l:14) and a     *)
(* cell holds an int64_t (data.h:21): a row of literals that was answered  *)
(* "Data inserted" is in the table with the values that were typed.  It    *)
(* does not hold: createIntValue (data.c:73) takes a uint32_t.             *)
(***************************************************************************)
Literal(lit) == lit[CHOOSE k \in DOMAIN lit : TRUE]

AddedAsTyped ==
    told = "OK" /\ link = "up" /\ ~store.lossy /\ line.op = "ADD" =>
        \A i \in DOMAIN line.rows :
            [k \in DOMAIN line.rows[i] |-> Literal(line.rows[i][k].value)] \in store.rows
=============================================================================
