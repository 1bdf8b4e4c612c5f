------------------------ MODULE ClientServer_proofs ------------------------
(***************************************************************************)
(* CallAccounted, AckedStored and TypeOK of ClientServer, for every number *)
(* of clients and every set of lines: no answer is lost, doubled or taken  *)
(* for that to another line while the link is up, and no row that was      *)
(* answered for is missing or stored twice, whoever is killed.             *)
(*                                                                         *)
(* CallAccounted is not inductive: it says nothing of a call whose link is *)
(* broken, of a client that has not connected or has gone, nor of the      *)
(* server between two messages.  IInv adds what they keep.  AckedStored    *)
(* compares counts at their ends only; Balance adds the rows in between:   *)
(* those in a message, in a call, pending, put, or answered for.           *)
(***************************************************************************)
EXTENDS ClientServerProperties, Counting_proofs

OverClients(f) == f = [c \in Clients |-> f[c]]

Mailboxes ==
    /\ OverClients(con) /\ OverClients(line) /\ OverClients(link)
    /\ OverClients(inbox) /\ OverClients(outbox)
    /\ \A c \in Clients : con[c] \in {"new", "prompt", "call", "gone"}

\* The server executes a statement for a client, which waits for it alone.
ServerAtWork ==
    /\ backlog \in Seq(Clients)
    /\ serving \in Clients \cup {NoClient}
    /\ executing => serving \in Clients /\ inbox[serving] = NoMessage

\* Nothing of the client is on its way or at the server.
Quiet(c) == inbox[c] = NoMessage /\ ~InHand(c)

ClientsAside ==
    \A c \in Clients :
      /\ con[c] = "call" => link[c] = "up" \/ (link[c] = "down" /\ Quiet(c))
      /\ con[c] = "new" => Quiet(c) /\ outbox[c] = NoResponse
      /\ con[c] = "gone" => outbox[c] = NoResponse

IInv == Mailboxes /\ ServerAtWork /\ ClientsAside /\ CallAccounted

----------------------------------------------------------------------------
(* A step that leaves every mailbox, the server and the request as they    *)
(* are keeps the invariant (the steps of executeQuery, Restart).           *)
LEMMA AsideSafe ==
    ASSUME IInv,
           UNCHANGED <<con, line, link, inbox, outbox, backlog, serving, executing>>,
           request' = request
    PROVE  IInv'
BY DEF IInv, Mailboxes, OverClients, ServerAtWork, ClientsAside, Quiet, InHand,
       CallAccounted

(* A step of client c that moves no other client and leaves the server be. *)
LEMMA ClientSafe ==
    ASSUME IInv, NEW c \in Clients,
           UNCHANGED <<serving, executing, request>>,
           backlog' \in Seq(Clients),
           NEW k \in {"new", "prompt", "call", "gone"}, con' = [con EXCEPT ![c] = k],
           OverClients(line'), OverClients(link'),
           OverClients(inbox'), OverClients(outbox'),
           \A d \in Clients \ {c} :
               /\ line'[d] = line[d] /\ link'[d] = link[d]
               /\ inbox'[d] = inbox[d] /\ outbox'[d] = outbox[d],
           InHand(c) => inbox'[c] = NoMessage,
           k = "call" => \/ link'[c] = "up"
                         \/ link'[c] = "down" /\ inbox'[c] = NoMessage /\ ~InHand(c),
           k = "new" => inbox'[c] = NoMessage /\ ~InHand(c) /\ outbox'[c] = NoResponse,
           k = "gone" => outbox'[c] = NoResponse,
           k = "prompt" => inbox'[c] = NoMessage /\ ~InHand(c) /\ outbox'[c] = NoResponse,
           k = "call" /\ link'[c] = "up" =>
               \/ inbox'[c] = <<line'[c]>> /\ ~InHand(c) /\ outbox'[c] = NoResponse
               \/ inbox'[c] = NoMessage /\ InHand(c) /\ outbox'[c] = NoResponse
                    /\ request = line'[c]
               \/ inbox'[c] = NoMessage /\ ~InHand(c) /\ outbox'[c] # NoResponse,
           outbox'[c] # NoResponse => outbox'[c][1].op = line'[c].op
    PROVE  IInv'
<1>1. \A d \in Clients : con'[d] = IF d = c THEN k ELSE con[d]
  BY DEF IInv, Mailboxes, OverClients
<1>2. Mailboxes'
  BY <1>1 DEF IInv, Mailboxes, OverClients
<1>3. ServerAtWork'
  BY DEF IInv, ServerAtWork, InHand
<1>4. \A d \in Clients : InHand(d)' <=> InHand(d)
  BY DEF InHand
<1>5. ClientsAside'
  <2>1. \A d \in Clients : Quiet(d)' <=> inbox'[d] = NoMessage /\ ~InHand(d)
    BY <1>4 DEF Quiet
  <2> QED
    BY <1>1, <2>1 DEF IInv, ClientsAside, Quiet
<1>6. CallAccounted'
  BY <1>1, <1>4 DEF IInv, CallAccounted, InHand
<1> QED
  BY <1>2, <1>3, <1>5, <1>6 DEF IInv
----------------------------------------------------------------------------
(* What a client at its prompt, and one in a call, can rely on.            *)
LEMMA ClientFacts ==
    ASSUME IInv, NEW c \in Clients
    PROVE  /\ con[c] = "prompt" => Quiet(c) /\ outbox[c] = NoResponse
           /\ con[c] = "call" /\ outbox[c] # NoResponse => Quiet(c)
           /\ con[c] = "call" /\ link[c] = "down" => Quiet(c)
           /\ InHand(c) => inbox[c] = NoMessage
           /\ outbox[c] # NoResponse => outbox[c][1].op = line[c].op
BY DEF IInv, CallAccounted, ClientsAside, ServerAtWork, InHand, Quiet

(* A client at its prompt, before and after, with another line or none.    *)
LEMMA PromptSafe ==
    ASSUME IInv, NEW c \in Clients, con[c] = "prompt", con' = con,
           OverClients(line'), \A d \in Clients \ {c} : line'[d] = line[d],
           UNCHANGED <<link, inbox, outbox, backlog, serving, executing, request>>
    PROVE  IInv'
<1>1. con' = [con EXCEPT ![c] = "prompt"]
  BY DEF IInv, Mailboxes, OverClients
<1>2. OverClients(link) /\ OverClients(inbox) /\ OverClients(outbox)
  BY DEF IInv, Mailboxes
<1>3. backlog \in Seq(Clients)
  BY DEF IInv, ServerAtWork
<1> QED
  BY <1>1, <1>2, <1>3, ClientFacts, ClientSafe DEF Quiet, OverClients

(* A client that ends, at its prompt or in a call.                         *)
LEMMA GoneSafe == ASSUME IInv, NEW c \in Clients, Gone(c) PROVE IInv'
<1>1. /\ con' = [con EXCEPT ![c] = "gone"]
      /\ line' = [line EXCEPT ![c] = Empty]
      /\ link' = [link EXCEPT ![c] = "none"]
      /\ outbox' = [outbox EXCEPT ![c] = NoResponse]
      /\ inbox' = inbox /\ backlog' = backlog
      /\ serving' = serving /\ executing' = executing /\ request' = request
  BY DEF Gone, server, engine
<1>2. /\ OverClients(line) /\ OverClients(link)
      /\ OverClients(inbox) /\ OverClients(outbox)
      /\ backlog \in Seq(Clients)
  BY DEF IInv, Mailboxes, ServerAtWork
<1>3. /\ OverClients(line') /\ OverClients(link')
      /\ OverClients(inbox') /\ OverClients(outbox')
      /\ \A d \in Clients \ {c} :
             /\ line'[d] = line[d] /\ link'[d] = link[d]
             /\ inbox'[d] = inbox[d] /\ outbox'[d] = outbox[d]
      /\ outbox'[c] = NoResponse
  BY <1>1, <1>2 DEF OverClients
<1> QED
  BY <1>1, <1>2, <1>3, ClientFacts, ClientSafe

(* Lines read at the prompt that go no further than the client.            *)
LEMMA LineSafe ==
    ASSUME IInv, NEW c \in Clients, NEW s, Reads(c, s), con' = con,
           UNCHANGED <<link, inbox, outbox, backlog, serving, executing, request>>
    PROVE  IInv'
<1>1. con[c] = "prompt" /\ line' = [line EXCEPT ![c] = s]
  BY DEF Reads, Typed
<1>2. OverClients(line') /\ \A d \in Clients \ {c} : line'[d] = line[d]
  BY <1>1 DEF IInv, Mailboxes, OverClients
<1> QED
  BY <1>1, <1>2, PromptSafe

(* Connect keeps IInv.                                                     *)
LEMMA ConnectSafe == ASSUME IInv, NEW c \in Clients, Connect(c) PROVE IInv'
<1>1. /\ con[c] = "new"
      /\ line' = line /\ inbox' = inbox /\ outbox' = outbox
      /\ serving' = serving /\ executing' = executing /\ request' = request
  BY DEF Connect, engine
<1>2. /\ inbox[c] = NoMessage /\ ~InHand(c) /\ outbox[c] = NoResponse
      /\ OverClients(line) /\ OverClients(link)
      /\ OverClients(inbox) /\ OverClients(outbox)
      /\ backlog \in Seq(Clients)
  BY <1>1 DEF IInv, Mailboxes, ServerAtWork, ClientsAside, Quiet
<1>3. CASE down
  <2>1. con' = [con EXCEPT ![c] = "gone"] /\ link' = link /\ backlog' = backlog
    BY <1>3 DEF Connect
  <2> QED
    BY <1>1, <1>2, <2>1, ClientSafe
<1>4. CASE ~down
  <2>1. /\ con' = [con EXCEPT ![c] = "prompt"]
        /\ link' = [link EXCEPT ![c] = "up"]
        /\ backlog' = Append(backlog, c)
    BY <1>4 DEF Connect
  <2>2. OverClients(link') /\ \A d \in Clients \ {c} : link'[d] = link[d]
    BY <1>2, <2>1 DEF OverClients
  <2>3. backlog' \in Seq(Clients)
    BY <1>2, <2>1
  <2> QED
    BY <1>1, <1>2, <2>1, <2>2, <2>3, ClientSafe
<1> QED
  BY <1>3, <1>4

(* Call keeps IInv.                                                        *)
LEMMA CallSafe == ASSUME IInv, NEW c \in Clients, Call(c) PROVE IInv'
<1>1. PICK s \in Statements :
        Reads(c, s) /\ inbox' = [inbox EXCEPT ![c] = <<s>>]
  BY DEF Call
<1>2. /\ con[c] = "prompt" /\ link[c] = "up"
      /\ line' = [line EXCEPT ![c] = s]
      /\ con' = [con EXCEPT ![c] = "call"]
      /\ link' = link /\ outbox' = outbox /\ backlog' = backlog
      /\ serving' = serving /\ executing' = executing /\ request' = request
  BY <1>1 DEF Call, Reads, Typed, server, engine
<1>3. /\ ~InHand(c) /\ outbox[c] = NoResponse
      /\ OverClients(line) /\ OverClients(link)
      /\ OverClients(inbox) /\ OverClients(outbox)
      /\ backlog \in Seq(Clients)
  BY <1>2, ClientFacts DEF IInv, Mailboxes, ServerAtWork, Quiet
<1>4. /\ OverClients(line') /\ OverClients(inbox')
      /\ \A d \in Clients \ {c} : line'[d] = line[d] /\ inbox'[d] = inbox[d]
      /\ inbox'[c] = <<line'[c]>>
  BY <1>1, <1>2, <1>3 DEF OverClients
<1> QED
  BY <1>2, <1>3, <1>4, ClientSafe

(* Receive keeps IInv.                                                     *)
LEMMA ReceiveSafe == ASSUME IInv, NEW c \in Clients, Receive(c) PROVE IInv'
<1>1. /\ con[c] = "call" /\ outbox[c] # NoResponse
      /\ con' = [con EXCEPT ![c] = "prompt"]
      /\ outbox' = [outbox EXCEPT ![c] = NoResponse]
      /\ line' = line /\ link' = link /\ inbox' = inbox /\ backlog' = backlog
      /\ serving' = serving /\ executing' = executing /\ request' = request
  BY DEF Receive, server, engine
<1>2. /\ inbox[c] = NoMessage /\ ~InHand(c)
      /\ OverClients(line) /\ OverClients(link)
      /\ OverClients(inbox) /\ OverClients(outbox)
      /\ backlog \in Seq(Clients)
  BY <1>1, ClientFacts DEF IInv, Mailboxes, ServerAtWork, Quiet
<1>3. /\ OverClients(outbox') /\ outbox'[c] = NoResponse
      /\ \A d \in Clients \ {c} : outbox'[d] = outbox[d]
  BY <1>1, <1>2 DEF OverClients
<1> QED
  BY <1>1, <1>2, <1>3, ClientSafe

(* CallFails keeps IInv.                                                   *)
LEMMA CallFailsSafe == ASSUME IInv, NEW c \in Clients, CallFails(c) PROVE IInv'
<1>1. /\ con[c] = "call" /\ link[c] = "down" /\ outbox[c] = NoResponse
      /\ con' = [con EXCEPT ![c] = "prompt"] /\ outbox' = outbox
      /\ line' = line /\ link' = link /\ inbox' = inbox /\ backlog' = backlog
      /\ serving' = serving /\ executing' = executing /\ request' = request
  BY DEF CallFails, server, engine
<1>2. /\ inbox[c] = NoMessage /\ ~InHand(c)
      /\ OverClients(line) /\ OverClients(link)
      /\ OverClients(inbox) /\ OverClients(outbox)
      /\ backlog \in Seq(Clients)
  BY <1>1, ClientFacts DEF IInv, Mailboxes, ServerAtWork, Quiet
<1> QED
  BY <1>1, <1>2, ClientSafe

----------------------------------------------------------------------------
(* The server ends, and the connections with it.                           *)
LEMMA DisconnectSafe ==
    ASSUME IInv, Disconnect PROVE IInv'
<1>1. /\ con' = con /\ line' = line /\ outbox' = outbox
      /\ serving' = NoClient /\ backlog' = <<>> /\ executing' = FALSE
      /\ inbox' = [c \in Clients |-> NoMessage]
      /\ link' = [c \in Clients |-> IF link[c] = "up" THEN "down" ELSE link[c]]
  BY DEF Disconnect
<1>2. Mailboxes'
  BY <1>1 DEF IInv, Mailboxes, OverClients
<1>3. ServerAtWork'
  BY <1>1 DEF ServerAtWork
<1>4. \A c \in Clients : inbox'[c] = NoMessage /\ ~InHand(c)'
  BY <1>1 DEF InHand
<1>5. ClientsAside'
  BY <1>1, <1>4 DEF IInv, ClientsAside, Quiet
<1>6. CallAccounted'
  BY <1>1, <1>4 DEF IInv, CallAccounted, ClientsAside
<1> QED
  BY <1>2, <1>3, <1>5, <1>6 DEF IInv

(* The server takes or leaves a connection; nothing is in hand either way. *)
LEMMA ConnectionSafe ==
    ASSUME IInv, ~executing, executing' = executing,
           UNCHANGED <<con, line, link, inbox, outbox>>,
           serving' \in Clients \cup {NoClient}, backlog' \in Seq(Clients)
    PROVE  IInv'
<1>1. \A c \in Clients : ~InHand(c) /\ ~InHand(c)'
  BY DEF InHand
<1>2. Mailboxes' /\ ServerAtWork'
  BY DEF IInv, Mailboxes, OverClients, ServerAtWork
<1>3. ClientsAside' /\ CallAccounted'
  BY <1>1 DEF IInv, ClientsAside, Quiet, CallAccounted
<1> QED
  BY <1>2, <1>3 DEF IInv

(* Accept keeps IInv.                                                      *)
LEMMA AcceptSafe == ASSUME IInv, Accept PROVE IInv'
<1>1. /\ serving = NoClient /\ backlog # <<>>
      /\ serving' = Head(backlog) /\ backlog' = Tail(backlog)
      /\ executing' = executing
      /\ con' = con /\ line' = line /\ link' = link
      /\ inbox' = inbox /\ outbox' = outbox
  BY DEF Accept, clients
<1>2. backlog \in Seq(Clients) /\ ~executing
  BY <1>1, ClientAssumption DEF IInv, ServerAtWork
<1>3. serving' \in Clients /\ backlog' \in Seq(Clients)
  BY <1>1, <1>2
<1> QED
  BY <1>1, <1>2, <1>3, ConnectionSafe

(* Hangup keeps IInv.                                                      *)
LEMMA HangupSafe == ASSUME IInv, Hangup PROVE IInv'
<1>1. /\ ~executing /\ executing' = executing
      /\ serving' = NoClient /\ backlog' = backlog
      /\ con' = con /\ line' = line /\ link' = link
      /\ inbox' = inbox /\ outbox' = outbox
  BY DEF Hangup, clients
<1>2. backlog' \in Seq(Clients)
  BY <1>1 DEF IInv, ServerAtWork
<1> QED
  BY <1>1, <1>2, ConnectionSafe

(* A message that has come in is that of a call in progress, or of a       *)
(* client that has gone.                                                   *)
LEMMA MessageFacts ==
    ASSUME IInv, Reading
    PROVE  /\ serving \in Clients /\ ~executing
           /\ \/ con[serving] = "gone"
              \/ /\ con[serving] = "call" /\ link[serving] = "up"
                 /\ inbox[serving] = <<line[serving]>>
                 /\ outbox[serving] = NoResponse
<1>1. serving \in Clients /\ ~executing /\ inbox[serving] # NoMessage
  BY DEF IInv, ServerAtWork, Reading
<1> QED
  BY <1>1 DEF IInv, Mailboxes, ClientsAside, CallAccounted, Quiet, InHand

(* A response to a waiting client goes to its mailbox alone, and bears the *)
(* op of the message.                                                      *)
LEMMA RespondsEffect ==
    ASSUME IInv, NEW m, NEW status, serving \in Clients,
           con[serving] # "gone", Responds(m, status)
    PROVE  /\ OverClients(outbox') /\ outbox'[serving] # NoResponse
           /\ outbox'[serving][1].op = m.op
           /\ \A d \in Clients \ {serving} : outbox'[d] = outbox[d]
<1> DEFINE r == Response(m, status)
<1>1. r.op = m.op
  BY DEF Response
<1>2. outbox' = [outbox EXCEPT ![serving] = <<r>>]
  BY DEF Responds
<1> HIDE DEF r
<1>3. OverClients(outbox)
  BY DEF IInv, Mailboxes
<1>4. outbox'[serving] = <<r>>
  BY <1>2, <1>3 DEF OverClients
<1>5. OverClients(outbox') /\ \A d \in Clients \ {serving} : outbox'[d] = outbox[d]
  BY <1>2, <1>3 DEF OverClients
<1>6. <<r>> # NoResponse /\ <<r>>[1] = r
  BY DEF NoResponse
<1>7. outbox'[serving] # NoResponse /\ outbox'[serving][1].op = m.op
  BY <1>1, <1>4, <1>6, Zenon
<1> QED
  BY <1>5, <1>7

(* Refuse keeps IInv.                                                      *)
LEMMA RefuseSafe == ASSUME IInv, RefuseRequest PROVE IInv'
<1> DEFINE c == serving
           m == inbox[c][1]
<1>1. /\ Reading /\ Responds(m, "BAD_REQUEST")
      /\ inbox' = [inbox EXCEPT ![c] = NoMessage]
      /\ con' = con /\ line' = line /\ link' = link
      /\ backlog' = backlog /\ serving' = serving /\ executing' = executing
      /\ request' = request
  BY DEF RefuseRequest, TakesMessage, clients, server, engine
<1>2. /\ c \in Clients /\ ~executing
      /\ \/ con[c] = "gone"
         \/ /\ con[c] = "call" /\ link[c] = "up"
            /\ inbox[c] = <<line[c]>> /\ outbox[c] = NoResponse
  BY <1>1, MessageFacts
<1>3. /\ OverClients(con) /\ OverClients(line) /\ OverClients(link)
      /\ OverClients(inbox) /\ OverClients(outbox)
      /\ backlog \in Seq(Clients) /\ ~InHand(c)
      /\ con[c] = "gone" => outbox[c] = NoResponse
  BY <1>2 DEF IInv, Mailboxes, ServerAtWork, ClientsAside, InHand
<1>4. con' = [con EXCEPT ![c] = con[c]]
  BY <1>1, <1>3 DEF OverClients
<1>5. /\ OverClients(inbox') /\ inbox'[c] = NoMessage
      /\ \A d \in Clients \ {c} : inbox'[d] = inbox[d]
  BY <1>1, <1>2, <1>3 DEF OverClients
<1>6. CASE con[c] = "gone"
  <2>1. outbox' = outbox
    BY <1>1, <1>6 DEF Responds
  <2> QED
    BY <1>1, <1>2, <1>3, <1>4, <1>5, <1>6, <2>1, ClientSafe
<1>7. CASE con[c] # "gone"
  <2>1. m = line[c] /\ con[c] = "call" /\ link[c] = "up"
    BY <1>2, <1>7
  <2>2. /\ OverClients(outbox') /\ outbox'[c] # NoResponse
        /\ outbox'[c][1].op = line[c].op
        /\ \A d \in Clients \ {c} : outbox'[d] = outbox[d]
    BY <1>1, <1>2, <1>7, <2>1, RespondsEffect
  <2> QED
    BY <1>1, <1>2, <1>3, <1>4, <1>5, <2>1, <2>2, ClientSafe
<1> QED
  BY <1>6, <1>7

(* Execute keeps IInv.                                                     *)
LEMMA ExecuteSafe == ASSUME IInv, Execute PROVE IInv'
<1> DEFINE c == serving
<1>1. /\ Reading /\ request' = inbox[c][1] /\ executing' = TRUE
      /\ inbox' = [inbox EXCEPT ![c] = NoMessage]
      /\ con' = con /\ line' = line /\ link' = link /\ outbox' = outbox
      /\ backlog' = backlog /\ serving' = serving
  BY DEF Execute, Engine!Ask, TakesMessage, clients
<1>2. /\ c \in Clients /\ ~executing
      /\ \/ con[c] = "gone"
         \/ /\ con[c] = "call" /\ link[c] = "up"
            /\ inbox[c] = <<line[c]>> /\ outbox[c] = NoResponse
  BY <1>1, MessageFacts
<1>3. /\ OverClients(inbox') /\ inbox'[c] = NoMessage
      /\ \A d \in Clients \ {c} : inbox'[d] = inbox[d]
  BY <1>1, <1>2 DEF IInv, Mailboxes, OverClients
<1>4. Mailboxes' /\ ServerAtWork'
  BY <1>1, <1>2, <1>3 DEF IInv, Mailboxes, OverClients, ServerAtWork
<1>5. \A d \in Clients : ~InHand(d) /\ (InHand(d)' <=> d = c)
  BY <1>1, <1>2 DEF InHand
<1>6. con[c] = "call" => link[c] = "up" /\ request' = line[c] /\ outbox[c] = NoResponse
  BY <1>1, <1>2
<1>7. ClientsAside'
  BY <1>1, <1>2, <1>3, <1>5 DEF IInv, ClientsAside, Quiet
<1>8. CallAccounted'
  BY <1>1, <1>2, <1>3, <1>5, <1>6 DEF IInv, CallAccounted
<1> QED
  BY <1>4, <1>7, <1>8 DEF IInv

(* Respond keeps IInv.                                                     *)
LEMMA RespondSafe == ASSUME IInv, Respond PROVE IInv'
<1> DEFINE c == serving
<1>1. /\ executing /\ executing' = FALSE /\ Responds(request, answer.status)
      /\ con' = con /\ line' = line /\ link' = link /\ inbox' = inbox
      /\ backlog' = backlog /\ serving' = serving /\ request' = request
  BY DEF Respond, clients, engine
<1>2. c \in Clients /\ inbox[c] = NoMessage
  BY <1>1 DEF IInv, ServerAtWork
<1>3. \A d \in Clients : (InHand(d) <=> d = c) /\ ~InHand(d)'
  BY <1>1 DEF InHand
<1>4. \/ con[c] = "gone"
      \/ /\ con[c] = "call" /\ link[c] = "up"
         /\ request = line[c] /\ outbox[c] = NoResponse
  BY <1>2, <1>3 DEF IInv, Mailboxes, ClientsAside, Quiet, CallAccounted
<1>5. CASE con[c] = "gone"
  <2>1. outbox' = outbox
    BY <1>1, <1>5 DEF Responds
  <2>2. Mailboxes' /\ ServerAtWork'
    BY <1>1, <2>1 DEF IInv, Mailboxes, OverClients, ServerAtWork
  <2>3. ClientsAside' /\ CallAccounted'
    BY <1>1, <1>3, <1>5, <2>1 DEF IInv, ClientsAside, Quiet, CallAccounted
  <2> QED
    BY <2>2, <2>3 DEF IInv
<1>6. CASE con[c] # "gone"
  <2>1. con[c] = "call" /\ link[c] = "up" /\ request = line[c]
    BY <1>4, <1>6
  <2>2. /\ OverClients(outbox') /\ outbox'[c] # NoResponse
        /\ outbox'[c][1].op = line[c].op
        /\ \A d \in Clients \ {c} : outbox'[d] = outbox[d]
    BY <1>1, <1>2, <1>6, <2>1, RespondsEffect
  <2>3. Mailboxes' /\ ServerAtWork'
    BY <1>1, <2>2 DEF IInv, Mailboxes, OverClients, ServerAtWork
  <2>4. ClientsAside' /\ CallAccounted'
    BY <1>1, <1>2, <1>3, <2>1, <2>2 DEF IInv, ClientsAside, Quiet, CallAccounted
  <2> QED
    BY <2>3, <2>4 DEF IInv
<1> QED
  BY <1>5, <1>6

----------------------------------------------------------------------------
(* A step of the engine keeps IInv.                                        *)
LEMMA EngineStepSafe == ASSUME IInv, EngineStep \/ DeleteStep PROVE IInv'
<1>1. request' = request
  BY DEF EngineStep, DeleteStep, Engine!Create, Engine!Drop, Engine!Put,
         Engine!Inserted, Engine!Deleted, Engine!Refused, Engine!Answer
<1>2. UNCHANGED <<con, line, link, inbox, outbox, backlog, serving, executing>>
  BY DEF EngineStep, DeleteStep, clients, server
<1> QED
  BY <1>1, <1>2, AsideSafe

(* IInv holds at first.                                                    *)
LEMMA InitSafe == ASSUME Init PROVE IInv
<1>1. /\ con = [c \in Clients |-> "new"] /\ line = [c \in Clients |-> Empty]
      /\ link = [c \in Clients |-> "none"]
      /\ inbox = [c \in Clients |-> NoMessage]
      /\ outbox = [c \in Clients |-> NoResponse]
      /\ backlog = <<>> /\ serving = NoClient /\ executing = FALSE
  BY DEF Init
<1>2. Mailboxes /\ ServerAtWork
  BY <1>1 DEF Mailboxes, OverClients, ServerAtWork
<1>3. ClientsAside /\ CallAccounted
  BY <1>1 DEF ClientsAside, Quiet, InHand, CallAccounted
<1> QED
  BY <1>2, <1>3 DEF IInv

(* Every step keeps IInv.                                                  *)
LEMMA StepSafe == ASSUME IInv, [Next]_vars PROVE IInv'
<1>1. CASE Accept \/ Hangup \/ RefuseRequest \/ Execute \/ Respond
  BY <1>1, AcceptSafe, HangupSafe, RefuseSafe, ExecuteSafe, RespondSafe
<1>2. CASE EngineStep \/ DeleteStep
  BY <1>2, EngineStepSafe
<1>3. CASE ProcessorCrash \/ EngineCrash \/ NullCondition \/ ServerEnds
  BY <1>3, DisconnectSafe
     DEF ProcessorCrash, EngineCrash, NullCondition, ServerEnds
<1>4. CASE Restart
  <2>1. UNCHANGED <<con, line, link, inbox, outbox, backlog, serving, executing>>
    BY <1>4 DEF Restart, clients, server
  <2>2. request' = request
    BY <1>4 DEF Restart, Engine!Restart
  <2> QED
    BY <2>1, <2>2, AsideSafe
<1>5. ASSUME NEW c \in Clients,
             \/ Connect(c) \/ EndOfInput(c) \/ ParseFails(c) \/ SerializeCrashes(c)
             \/ Call(c) \/ CallBrokenLink(c) \/ Receive(c) \/ CallFails(c)
             \/ Leave(c)
      PROVE  IInv'
  <2>1. CASE Connect(c) \/ Call(c) \/ Receive(c) \/ CallFails(c)
    BY <2>1, ConnectSafe, CallSafe, ReceiveSafe, CallFailsSafe
  <2>2. CASE SerializeCrashes(c) \/ Leave(c)
    BY <2>2, GoneSafe DEF SerializeCrashes, Leave
  <2>3. CASE EndOfInput(c)
    <3>1. /\ UNCHANGED <<con, line, link, inbox, outbox, backlog, serving, executing>>
          /\ request' = request
      BY <2>3 DEF EndOfInput, server, engine
    <3> QED
      BY <3>1, AsideSafe
  <2>4. CASE ParseFails(c)
    <3>1. PICK s \in Statements : Reads(c, s)
      BY <2>4 DEF ParseFails
    <3>2. UNCHANGED <<con, link, inbox, outbox, backlog, serving, executing, request>>
      BY <2>4 DEF ParseFails, server, engine
    <3> QED
      BY <3>1, <3>2, LineSafe
  <2>5. CASE CallBrokenLink(c)
    <3>1. PICK s \in Typed(c) :
            \/ Gone(c)
            \/ /\ Reads(c, s)
               /\ UNCHANGED <<con, eof, link, inbox, outbox, server, engine, history>>
      BY <2>5 DEF CallBrokenLink
    <3>2. CASE Gone(c)
      BY <3>2, GoneSafe
    <3>3. CASE /\ Reads(c, s)
               /\ UNCHANGED <<con, eof, link, inbox, outbox, server, engine, history>>
      <4>1. UNCHANGED <<con, link, inbox, outbox, backlog, serving, executing, request>>
        BY <3>3 DEF server, engine
      <4> QED
        BY <3>3, <4>1, LineSafe
    <3> QED
      BY <3>1, <3>2, <3>3
  <2> QED
    BY <1>5, <2>1, <2>2, <2>3, <2>4, <2>5
<1>6. CASE UNCHANGED vars
  <2>1. /\ UNCHANGED <<con, line, link, inbox, outbox, backlog, serving, executing>>
        /\ request' = request
    BY <1>6 DEF vars, clients, server, engine
  <2> QED
    BY <2>1, AsideSafe
<1> QED
  BY <1>1, <1>2, <1>3, <1>4, <1>5, <1>6 DEF Next, ServerStep

(* IInv is an invariant of ClientServer.                                   *)
THEOREM Invariance == Spec => []IInv
BY InitSafe, StepSafe, PTL DEF Spec

(* For any number of clients, whoever is killed and whenever: a call over  *)
(* a link that is up is in exactly one place, and no answer is left over   *)
(* for a later line (execute_stmt, send_statement_service_if_execute).     *)
THEOREM CallsAccounted == Spec => []CallAccounted
<1>1. IInv => CallAccounted
  BY DEF IInv
<1> QED
  BY <1>1, Invariance, PTL

----------------------------------------------------------------------------
(***************************************************************************)
(* Rows that are under way                                                 *)
(***************************************************************************)
\* The indexes at which rows holds u; Count(rows, u) is their number.
Indexes(rows, u) == {i \in DOMAIN rows : rows[i] = u}

\* The places at which the clients of S hold row u, client c the rows R[c].
Places(S, R, u) == UNION {{c} \X Indexes(R[c], u) : c \in S}

\* What client c adds to them.
Share(S, R, c, u) == IF c \in S THEN Count(R[c], u) ELSE 0

(* How often a value is among rows, and how often when the first of them   *)
(* is taken off.                                                           *)
LEMMA CountFacts ==
    ASSUME NEW rows \in Seq(Values), NEW u
    PROVE  /\ IsFiniteSet(Indexes(rows, u))
           /\ Count(rows, u) = Cardinality(Indexes(rows, u)) /\ Count(rows, u) \in Nat
           /\ Count(<<>>, u) = 0
           /\ rows # <<>> =>
                Count(rows, u) = Count(Tail(rows), u) + (IF Head(rows) = u THEN 1 ELSE 0)
<1> DEFINE n == Len(rows)
<1>1. n \in Nat /\ DOMAIN rows = 1 .. n
  OBVIOUS
<1>2. IsFiniteSet(Indexes(rows, u))
  <2>1. Indexes(rows, u) \in SUBSET (1 .. n)
    BY <1>1 DEF Indexes
  <2>2. IsFiniteSet(1 .. n)
    BY <1>1, FS_Interval
  <2> QED
    BY <2>1, <2>2, FS_Subset
<1>3. Count(rows, u) = Cardinality(Indexes(rows, u))
  BY DEF Count, Indexes
<1>4. Count(rows, u) \in Nat
  BY <1>2, <1>3, FS_CardinalityType
<1>5. Count(<<>>, u) = 0
  <2>1. {i \in DOMAIN <<>> : <<>>[i] = u} = {}
    OBVIOUS
  <2> QED
    BY <2>1, FS_EmptySet DEF Count
<1>6. ASSUME rows # <<>>
      PROVE  Count(rows, u) = Count(Tail(rows), u) + (IF Head(rows) = u THEN 1 ELSE 0)
  <2> DEFINE S == Indexes(Tail(rows), u)
             first == {i \in {1} : Head(rows) = u}
             up == {i + 1 : i \in S}
  <2>1. /\ n \in Nat \ {0} /\ DOMAIN Tail(rows) = 1 .. (n - 1)
        /\ Head(rows) = rows[1] /\ \A i \in 1 .. (n - 1) : Tail(rows)[i] = rows[i + 1]
    BY <1>6
  <2>2. IsFiniteSet(S) /\ S \subseteq 1 .. (n - 1)
    <3>1. S \subseteq 1 .. (n - 1)
      BY <2>1 DEF Indexes
    <3>2. IsFiniteSet(1 .. (n - 1))
      BY <2>1, FS_Interval
    <3> HIDE DEF S
    <3> QED
      BY <3>1, <3>2, FS_Subset
  <2>3. Indexes(rows, u) = first \cup up
    <3>1. ASSUME NEW i \in Indexes(rows, u) PROVE i \in first \cup up
      <4>1. i \in 1 .. n /\ rows[i] = u
        BY <1>1 DEF Indexes
      <4>2. CASE i = 1
        BY <2>1, <4>1, <4>2
      <4>3. CASE i # 1
        <5>1. i - 1 \in 1 .. (n - 1) /\ (i - 1) + 1 = i
          BY <2>1, <4>1, <4>3
        <5>2. i - 1 \in S
          BY <2>1, <4>1, <5>1 DEF Indexes
        <5> QED
          BY <5>1, <5>2
      <4> QED
        BY <4>2, <4>3
    <3>2. ASSUME NEW i \in first PROVE i \in Indexes(rows, u)
      BY <1>1, <2>1 DEF Indexes
    <3>3. ASSUME NEW j \in S PROVE j + 1 \in Indexes(rows, u)
      <4>1. j \in 1 .. (n - 1) /\ Tail(rows)[j] = u
        BY <2>1 DEF Indexes
      <4>2. j + 1 \in 1 .. n /\ rows[j + 1] = u
        BY <2>1, <4>1
      <4> QED
        BY <1>1, <4>2 DEF Indexes
    <3> QED
      BY <3>1, <3>2, <3>3
  <2>4. IsFiniteSet(up) /\ Cardinality(up) = Cardinality(S)
    <3> DEFINE f == [i \in S |-> i + 1]
    <3>1. f \in Bijection(S, up)
      <4> HIDE DEF S
      <4>1. f \in [S -> up] /\ \A j \in up : \E i \in S : f[i] = j
        OBVIOUS
      <4>2. \A i, j \in S : f[i] = f[j] => i = j
        BY <2>2
      <4> QED
        <5> HIDE DEF f, up
        <5> QED
          BY <4>1, <4>2 DEF Bijection, Injection, Surjection, IsInjective
    <3> HIDE DEF f, up, S
    <3>2. ExistsBijection(S, up)
      BY <3>1 DEF ExistsBijection
    <3> QED
      BY <2>2, <3>2, FS_Bijection
  <2>5. /\ IsFiniteSet(first)
        /\ Cardinality(first) = IF Head(rows) = u THEN 1 ELSE 0
    <3>1. first = IF Head(rows) = u THEN {1} ELSE {}
      OBVIOUS
    <3>2. IsFiniteSet({1}) /\ Cardinality({1}) = 1
      BY FS_Singleton
    <3>3. IsFiniteSet({}) /\ Cardinality({}) = 0
      BY FS_EmptySet
    <3> HIDE DEF first
    <3> QED
      BY <3>1, <3>2, <3>3
  <2>6. first \cap up = {}
    BY <2>2
  <2>7. Count(Tail(rows), u) = Cardinality(S) /\ Cardinality(S) \in Nat
    BY <2>2, FS_CardinalityType DEF Count, Indexes
  <2> HIDE DEF first, up, S
  <2>8. Cardinality(first \cup up) = Cardinality(first) + Cardinality(up)
    BY <2>4, <2>5, <2>6, DisjointCount
  <2> QED
    BY <1>3, <2>3, <2>4, <2>5, <2>7, <2>8
<1> QED
  BY <1>2, <1>3, <1>4, <1>5, <1>6

(* One client more.                                                        *)
LEMMA OneMore ==
    ASSUME NEW S, NEW R, NEW c, NEW u, c \notin S,
           R[c] \in Seq(Values), IsFiniteSet(Places(S, R, u))
    PROVE  /\ IsFiniteSet(Places(S \cup {c}, R, u))
           /\ Cardinality(Places(S \cup {c}, R, u))
                = Cardinality(Places(S, R, u)) + Count(R[c], u)
<1> DEFINE T == {c} \X Indexes(R[c], u)
<1>1. IsFiniteSet(T) /\ Cardinality(T) = Count(R[c], u)
  BY CountFacts, PairCount, ZenonT(30)
<1>2. Places(S \cup {c}, R, u) = Places(S, R, u) \cup T
  BY DEF Places
<1>3. Places(S, R, u) \cap T = {}
  BY DEF Places
<1> HIDE DEF T
<1> QED
  BY <1>1, <1>2, <1>3, DisjointCount

(* One client moves; its share is all that changes.                        *)
LEMMA OneMoves ==
    ASSUME NEW S, NEW T, NEW R, NEW Q, NEW c, NEW u,
           S \ {c} = T \ {c}, \A d \in S \ {c} : R[d] = Q[d],
           c \in S => R[c] \in Seq(Values), c \in T => Q[c] \in Seq(Values),
           IsFiniteSet(Places(S, R, u))
    PROVE  /\ IsFiniteSet(Places(T, Q, u))
           /\ Cardinality(Places(T, Q, u)) + Share(S, R, c, u)
                = Cardinality(Places(S, R, u)) + Share(T, Q, c, u)
<1> DEFINE O == S \ {c}
<1>1. Places(O, R, u) = Places(O, Q, u)
  BY DEF Places
<1>2. Places(O, R, u) \subseteq Places(S, R, u)
  BY DEF Places
<1>3. IsFiniteSet(Places(O, R, u)) /\ Cardinality(Places(O, R, u)) \in Nat
  BY <1>2, FS_Subset, FS_CardinalityType
<1>4. /\ c \notin O
      /\ c \in S => Count(R[c], u) \in Nat
      /\ c \in T => Count(Q[c], u) \in Nat
  BY CountFacts
<1>5. /\ S = IF c \in S THEN O \cup {c} ELSE O
      /\ T = IF c \in T THEN O \cup {c} ELSE O
  OBVIOUS
<1> HIDE DEF O
<1>6. Cardinality(Places(S, R, u)) = Cardinality(Places(O, R, u)) + Share(S, R, c, u)
  BY <1>3, <1>4, <1>5, OneMore DEF Share
<1>7. /\ IsFiniteSet(Places(T, Q, u))
      /\ Cardinality(Places(T, Q, u)) = Cardinality(Places(O, Q, u)) + Share(T, Q, c, u)
  BY <1>1, <1>3, <1>4, <1>5, OneMore DEF Share
<1>8. Share(S, R, c, u) \in Nat /\ Share(T, Q, c, u) \in Nat
  BY <1>4 DEF Share
<1> QED
  BY <1>1, <1>3, <1>6, <1>7, <1>8

\* Where the server and its statement are.
ServerShapes ==
    /\ backlog \in Seq(Clients) /\ serving \in Clients \cup {NoClient}
    /\ executing \in BOOLEAN /\ busy \in BOOLEAN
    /\ cols \in Columns \cup {NoColumns}
    /\ request \in Statements /\ pending \in Seq(Values)
    /\ bag \in [Values -> Nat] /\ acked \in [Values -> Nat] /\ sent \in Counts

ClientShapes ==
    /\ con \in [Clients -> {"new", "prompt", "call", "gone"}]
    /\ line \in [Clients -> Statements]
    /\ eof \in [Clients -> BOOLEAN]
    /\ link \in [Clients -> {"none", "up", "down"}]
    /\ inbox \in [Clients -> {NoMessage} \cup {<<m>> : m \in Statements}]
    /\ outbox \in [Clients -> {NoResponse} \cup {<<r>> : r \in Responses}]

\* Rows are pending only while executeQuery is at work, for a statement that a
\* client can send; and nothing goes to a server that is down.
Work ==
    /\ busy => executing
    /\ executing => Sendable(request)
    /\ executing /\ ~busy => answer.status \in {"OK", "BAD_REQUEST", "INTERNAL_ERROR"}
    /\ ~busy \/ request.rows = <<>> => pending = <<>>
    /\ \A c \in Clients : inbox[c] # NoMessage => Sendable(inbox[c][1])
    /\ down => /\ ~executing
               /\ \A c \in Clients : link[c] # "up" /\ inbox[c] = NoMessage

WorkInv == ServerShapes /\ ClientShapes /\ Work

(* The types of what a statement carries.                                  *)
LEMMA StatementFacts ==
    ASSUME NEW s \in Statements
    PROVE  /\ s.op \in Ops /\ s.rows \in Seq(Values)
           /\ s.cols \in Columns \cup {NoColumns}
           /\ s.op # "INSERT" => s.rows = <<>>
           /\ Sendable(s) => ~s.join
BY StatementsAssumption DEF Sendable

(* Rows are added to a count.                                              *)
LEMMA AddedRows ==
    ASSUME NEW n \in [Values -> Nat], NEW rows \in Seq(Values)
    PROVE  /\ AddRows(n, rows) \in [Values -> Nat]
           /\ \A v \in Values : AddRows(n, rows)[v] = n[v] + Count(rows, v)
BY CountFacts DEF AddRows

(* A step of a client that is at the server neither before nor after.      *)
LEMMA ClientWork ==
    ASSUME WorkInv, NEW c \in Clients, UNCHANGED server, UNCHANGED engine,
           ClientShapes', UNCHANGED inbox,
           acked' \in [Values -> Nat], sent' = sent,
           \A d \in Clients : link'[d] = "up" => link[d] = "up"
    PROVE  WorkInv'
BY DEF WorkInv, ServerShapes, Work, Sendable, server, engine

(* A client that is gone, whether it ended or was killed, leaves           *)
(* WorkInv.                                                                *)
LEMMA GoneWork == ASSUME WorkInv, NEW c \in Clients, Gone(c) PROVE WorkInv'
<1>1. Empty \in Statements
  BY StatementsAssumption
<1>2. ClientShapes'
  BY <1>1 DEF Gone, WorkInv, ClientShapes
<1>3. \A d \in Clients : link'[d] = "up" => link[d] = "up"
  BY DEF Gone, WorkInv, ClientShapes
<1>4. inbox' = inbox /\ acked' = acked /\ sent' = sent
  BY DEF Gone, history
<1>5. UNCHANGED server /\ UNCHANGED engine /\ acked' \in [Values -> Nat]
  BY <1>4 DEF Gone, WorkInv, ServerShapes
<1> QED
  BY <1>2, <1>3, <1>4, <1>5, ClientWork

(* A client that reads its next line leaves WorkInv.                       *)
LEMMA LineWork ==
    ASSUME WorkInv, NEW c \in Clients, NEW s \in Statements, Reads(c, s),
           UNCHANGED <<con, eof, link, inbox, outbox, server, engine, history>>
    PROVE  WorkInv'
<1>1. ClientShapes'
  BY DEF Reads, WorkInv, ClientShapes
<1>2. inbox' = inbox /\ link' = link /\ acked' = acked /\ sent' = sent
  BY DEF history
<1>3. UNCHANGED server /\ UNCHANGED engine /\ acked' \in [Values -> Nat]
  BY <1>2 DEF WorkInv, ServerShapes
<1> QED
  BY <1>1, <1>2, <1>3, ClientWork

(* What a client has typed are statements.                                 *)
LEMMA TypedFacts ==
    ASSUME WorkInv, NEW c \in Clients PROVE Typed(c) \subseteq Statements
BY DEF WorkInv, ClientShapes, Typed

(* Connect keeps WorkInv.                                                  *)
LEMMA ConnectWork == ASSUME WorkInv, NEW c \in Clients, Connect(c) PROVE WorkInv'
<1>1. ClientShapes'
  BY DEF Connect, WorkInv, ClientShapes
<1>2. ServerShapes'
  <2>1. backlog' \in Seq(Clients)
    <3>1. backlog' \in {backlog, Append(backlog, c)} /\ backlog \in Seq(Clients)
      BY DEF Connect, WorkInv, ServerShapes
    <3> QED
      BY <3>1
  <2>2. /\ serving' = serving /\ executing' = executing /\ UNCHANGED engine
        /\ UNCHANGED history
    BY DEF Connect
  <2> QED
    BY <2>1, <2>2 DEF WorkInv, ServerShapes, engine, history
<1>3. Work'
  <2>1. /\ busy' = busy /\ executing' = executing /\ request' = request
        /\ answer' = answer /\ pending' = pending /\ down' = down /\ inbox' = inbox
        /\ down => link' = link
    BY DEF Connect, engine
  <2> QED
    BY <2>1 DEF WorkInv, Work, Sendable
<1> QED
  BY <1>1, <1>2, <1>3 DEF WorkInv

(* Call keeps WorkInv.                                                     *)
LEMMA CallWork == ASSUME IInv, WorkInv, NEW c \in Clients, Call(c) PROVE WorkInv'
<1>1. PICK s \in Statements :
        /\ Sendable(s) /\ Reads(c, s) /\ inbox' = [inbox EXCEPT ![c] = <<s>>]
        /\ AddRows(sent, s.rows) \in Counts /\ sent' = AddRows(sent, s.rows)
  BY DEF Call
<1>2. ClientShapes'
  BY <1>1 DEF Call, Reads, WorkInv, ClientShapes
<1>3. ServerShapes'
  BY <1>1 DEF Call, WorkInv, ServerShapes, server, engine
<1>4. Work'
  <2>1. /\ busy' = busy /\ executing' = executing /\ request' = request
        /\ answer' = answer /\ pending' = pending /\ down' = down /\ link' = link
        /\ link[c] = "up"
    BY DEF Call, server, engine
  <2>2. \A d \in Clients : inbox'[d] # NoMessage => Sendable(inbox'[d][1])
    <3>1. inbox'[c] = <<s>> /\ \A d \in Clients \ {c} : inbox'[d] = inbox[d]
      BY <1>1 DEF WorkInv, ClientShapes
    <3>2. <<s>>[1] = s
      OBVIOUS
    <3> QED
      BY <1>1, <3>1, <3>2 DEF WorkInv, Work
  <2>3. ~down
    BY <2>1 DEF WorkInv, Work
  <2> QED
    BY <2>1, <2>2, <2>3 DEF WorkInv, Work, Sendable
<1> QED
  BY <1>2, <1>3, <1>4 DEF WorkInv

(* Receive keeps WorkInv.                                                  *)
LEMMA ReceiveWork == ASSUME WorkInv, NEW c \in Clients, Receive(c) PROVE WorkInv'
<1>1. ClientShapes'
  BY DEF Receive, WorkInv, ClientShapes
<1>2. acked' \in [Values -> Nat]
  <2>1. line[c].rows \in Seq(Values) /\ acked \in [Values -> Nat]
    BY StatementFacts DEF WorkInv, ClientShapes, ServerShapes
  <2> QED
    BY <2>1, AddedRows DEF Receive
<1>3. /\ inbox' = inbox /\ link' = link /\ sent' = sent
      /\ UNCHANGED server /\ UNCHANGED engine
  BY DEF Receive
<1> QED
  BY <1>1, <1>2, <1>3, ClientWork

(* CallFails keeps WorkInv.                                                *)
LEMMA CallFailsWork == ASSUME WorkInv, NEW c \in Clients, CallFails(c) PROVE WorkInv'
<1>1. ClientShapes'
  BY DEF CallFails, WorkInv, ClientShapes
<1>2. /\ inbox' = inbox /\ link' = link /\ sent' = sent /\ acked' = acked
      /\ UNCHANGED server /\ UNCHANGED engine
  BY DEF CallFails, history
<1>3. acked' \in [Values -> Nat]
  BY <1>2 DEF WorkInv, ServerShapes
<1> QED
  BY <1>1, <1>2, <1>3, ClientWork

(* EndOfInput keeps WorkInv.                                               *)
LEMMA EndOfInputWork == ASSUME WorkInv, NEW c \in Clients, EndOfInput(c) PROVE WorkInv'
<1>1. ClientShapes'
  BY DEF EndOfInput, WorkInv, ClientShapes
<1>2. /\ inbox' = inbox /\ link' = link /\ sent' = sent /\ acked' = acked
      /\ UNCHANGED server /\ UNCHANGED engine
  BY DEF EndOfInput, history
<1>3. acked' \in [Values -> Nat]
  BY <1>2 DEF WorkInv, ServerShapes
<1> QED
  BY <1>1, <1>2, <1>3, ClientWork

(* The client of a message that is being read, and the message.            *)
LEMMA MessageRead ==
    ASSUME IInv, WorkInv, Reading
    PROVE  /\ serving \in Clients /\ ~executing /\ ~down /\ ~busy /\ pending = <<>>
           /\ \E m \in Statements : inbox[serving] = <<m>> /\ Sendable(m)
<1>1. serving \in Clients /\ ~executing /\ ~down /\ inbox[serving] # NoMessage
  BY MessageFacts DEF Reading
<1>2. PICK m \in Statements : inbox[serving] = <<m>>
  BY <1>1 DEF WorkInv, ClientShapes
<1>3. inbox[serving][1] = m
  BY <1>2
<1>4. Sendable(m)
  BY <1>1, <1>3 DEF WorkInv, Work
<1>5. ~busy /\ pending = <<>>
  BY <1>1 DEF WorkInv, Work
<1> QED
  BY <1>1, <1>2, <1>4, <1>5

(* What Responds writes.                                                   *)
LEMMA ResponseShape ==
    ASSUME WorkInv, NEW m \in Statements, serving \in Clients,
           NEW status \in {"OK", "BAD_REQUEST", "INTERNAL_ERROR"}, Responds(m, status)
    PROVE  /\ outbox' \in [Clients -> {NoResponse} \cup {<<r>> : r \in Responses}]
           /\ con[serving] # "gone" =>
                /\ outbox'[serving] # NoResponse /\ outbox'[serving][1].info = status
                /\ \A d \in Clients \ {serving} : outbox'[d] = outbox[d]
           /\ con[serving] = "gone" => outbox' = outbox
<1> DEFINE r == Response(m, status)
<1>1. r \in Responses /\ r.info = status
  BY StatementFacts DEF Response, ThriftStatus, Responses
<1>2. outbox' = IF con[serving] = "gone" THEN outbox ELSE [outbox EXCEPT ![serving] = <<r>>]
  BY DEF Responds
<1> HIDE DEF r
<1>3. outbox \in [Clients -> {NoResponse} \cup {<<q>> : q \in Responses}]
  BY DEF WorkInv, ClientShapes
<1>4. <<r>> # NoResponse /\ <<r>>[1] = r
  BY DEF NoResponse
<1>5. <<r>> \in {NoResponse} \cup {<<q>> : q \in Responses}
  BY <1>1
<1>6. CASE con[serving] = "gone"
  BY <1>2, <1>3, <1>6
<1>7. CASE con[serving] # "gone"
  <2>1. outbox' = [outbox EXCEPT ![serving] = <<r>>]
    BY <1>2, <1>7
  <2>2. outbox' \in [Clients -> {NoResponse} \cup {<<q>> : q \in Responses}]
    BY <1>3, <1>5, <2>1
  <2>3. outbox'[serving] = <<r>> /\ \A d \in Clients \ {serving} : outbox'[d] = outbox[d]
    BY <1>3, <2>1
  <2>4. outbox'[serving] # NoResponse /\ outbox'[serving][1].info = status
    BY <1>1, <1>4, <2>3, Zenon
  <2> QED
    BY <1>7, <2>2, <2>3, <2>4
<1> QED
  BY <1>6, <1>7

(* A server that lets its client go leaves WorkInv.                        *)
LEMMA DisconnectWork ==
    ASSUME WorkInv, Disconnect, busy' = FALSE, pending' = <<>>, bag' = bag,
           request' = request
    PROVE  WorkInv'
<1>1. ServerShapes'
  <2>1. <<>> \in Seq(Clients) /\ <<>> \in Seq(Values)
    OBVIOUS
  <2> QED
    BY <2>1 DEF Disconnect, WorkInv, ServerShapes, history
<1>2. ClientShapes'
  BY DEF Disconnect, WorkInv, ClientShapes
<1>3. Work'
  BY DEF Disconnect, WorkInv, ClientShapes, Work, NoMessage
<1> QED
  BY <1>1, <1>2, <1>3 DEF WorkInv

(* Steps between two messages leave WorkInv.                               *)
LEMMA ConnectionWork ==
    ASSUME WorkInv, UNCHANGED <<clients, inbox, outbox, executing, engine, history>>,
           serving' \in Clients \cup {NoClient}, backlog' \in Seq(Clients)
    PROVE  WorkInv'
<1>1. ServerShapes'
  BY DEF WorkInv, ServerShapes, engine, history
<1>2. ClientShapes'
  BY DEF WorkInv, ClientShapes, clients
<1>3. Work'
  BY DEF WorkInv, Work, Sendable, engine, clients
<1> QED
  BY <1>1, <1>2, <1>3 DEF WorkInv

(* Accept keeps WorkInv.                                                   *)
LEMMA AcceptWork == ASSUME WorkInv, Accept PROVE WorkInv'
<1>1. backlog # <<>> /\ serving' = Head(backlog) /\ backlog' = Tail(backlog)
  BY DEF Accept
<1>2. backlog \in Seq(Clients)
  BY DEF WorkInv, ServerShapes
<1>3. serving' \in Clients /\ backlog' \in Seq(Clients)
  BY <1>1, <1>2
<1>4. UNCHANGED <<clients, inbox, outbox, executing, engine, history>>
  BY DEF Accept
<1> QED
  BY <1>3, <1>4, ConnectionWork

(* Hangup keeps WorkInv.                                                   *)
LEMMA HangupWork == ASSUME WorkInv, Hangup PROVE WorkInv'
<1>1. /\ serving' = NoClient /\ backlog' = backlog
      /\ UNCHANGED <<clients, inbox, outbox, executing, engine, history>>
  BY DEF Hangup
<1>2. backlog' \in Seq(Clients)
  BY <1>1 DEF WorkInv, ServerShapes
<1> QED
  BY <1>1, <1>2, ConnectionWork

(* Refuse keeps WorkInv.                                                   *)
LEMMA RefuseWork == ASSUME IInv, WorkInv, RefuseRequest PROVE WorkInv'
<1>1. PICK m \in Statements : inbox[serving] = <<m>>
  BY MessageRead DEF RefuseRequest
<1>2. serving \in Clients
  BY MessageRead DEF RefuseRequest
<1>3. inbox[serving][1] = m
  BY <1>1
<1>4. Responds(m, "BAD_REQUEST") /\ inbox' = [inbox EXCEPT ![serving] = NoMessage]
  BY <1>3 DEF RefuseRequest, TakesMessage
<1>5. outbox' \in [Clients -> {NoResponse} \cup {<<r>> : r \in Responses}]
  BY <1>2, <1>4, ResponseShape
<1>6. UNCHANGED clients /\ UNCHANGED server /\ UNCHANGED engine /\ UNCHANGED history
  BY DEF RefuseRequest
<1>7. ClientShapes'
  BY <1>4, <1>5, <1>6 DEF WorkInv, ClientShapes, clients
<1>8. ServerShapes'
  BY <1>6 DEF WorkInv, ServerShapes, server, engine, history
<1>9. Work'
  <2>1. \A d \in Clients : inbox'[d] \in {NoMessage, inbox[d]}
    BY <1>4 DEF WorkInv, ClientShapes
  <2> QED
    BY <1>6, <2>1 DEF WorkInv, Work, Sendable, clients, server, engine
<1> QED
  BY <1>7, <1>8, <1>9 DEF WorkInv

(* Execute keeps WorkInv.                                                  *)
LEMMA ExecuteWork == ASSUME IInv, WorkInv, Execute PROVE WorkInv'
<1>1. PICK m \in Statements : inbox[serving] = <<m>> /\ Sendable(m)
  BY MessageRead DEF Execute
<1>2. serving \in Clients /\ ~down
  BY MessageRead DEF Execute
<1>3. inbox[serving][1] = m
  BY <1>1
<1>4. /\ inbox' = [inbox EXCEPT ![serving] = NoMessage] /\ executing' = TRUE
      /\ request' = m /\ pending' = m.rows /\ busy' = TRUE /\ down' = down
      /\ bag' = bag
      /\ UNCHANGED <<clients, outbox, backlog, serving, cols, history>>
  BY <1>3 DEF Execute, TakesMessage, Engine!Ask, Engine!store
<1>5. ClientShapes'
  BY <1>4 DEF WorkInv, ClientShapes, clients
<1>6. m.rows \in Seq(Values)
  BY StatementFacts
<1>7. ServerShapes'
  BY <1>4, <1>6 DEF WorkInv, ServerShapes, history
<1>8. Work'
  <2>1. \A d \in Clients : inbox'[d] \in {NoMessage, inbox[d]}
    BY <1>4 DEF WorkInv, ClientShapes
  <2> QED
    BY <1>1, <1>2, <1>4, <2>1 DEF WorkInv, Work, Sendable, clients
<1> QED
  BY <1>5, <1>7, <1>8 DEF WorkInv

(* Respond keeps WorkInv.                                                  *)
LEMMA RespondWork == ASSUME IInv, WorkInv, Respond PROVE WorkInv'
<1>1. serving \in Clients /\ executing /\ ~busy
  BY DEF Respond, IInv, ServerAtWork
<1>2. /\ request \in Statements
      /\ answer.status \in {"OK", "BAD_REQUEST", "INTERNAL_ERROR"}
  BY <1>1 DEF WorkInv, ServerShapes, Work
<1>3. outbox' \in [Clients -> {NoResponse} \cup {<<r>> : r \in Responses}]
  BY <1>1, <1>2, ResponseShape DEF Respond
<1>4. /\ executing' = FALSE
      /\ UNCHANGED <<clients, inbox, backlog, serving, engine, history>>
  BY DEF Respond
<1>5. ClientShapes'
  BY <1>3, <1>4 DEF WorkInv, ClientShapes, clients
<1>6. ServerShapes'
  BY <1>4 DEF WorkInv, ServerShapes, engine, history
<1>7. Work'
  BY <1>1, <1>4 DEF WorkInv, Work, Sendable, clients, engine
<1> QED
  BY <1>5, <1>6, <1>7 DEF WorkInv

(* Restart keeps WorkInv.                                                  *)
LEMMA RestartWork == ASSUME WorkInv, Restart PROVE WorkInv'
<1>1. /\ down /\ down' = FALSE /\ bag' = Engine!NoRows
      /\ busy' = busy /\ request' = request /\ pending' = pending /\ answer' = answer
      /\ cols' = NoColumns /\ sent' = Engine!NoRows /\ acked' = Engine!NoRows
      /\ UNCHANGED <<clients, inbox, outbox, server>>
  BY DEF Restart, Engine!Restart
<1>2. ClientShapes'
  BY <1>1 DEF WorkInv, ClientShapes, clients
<1>3. ServerShapes'
  <2>1. Engine!NoRows \in [Values -> Nat] /\ Engine!NoRows \in Counts
    BY MaxRowsAssumption DEF Engine!NoRows, Counts
  <2> QED
    BY <1>1, <2>1 DEF WorkInv, ServerShapes, server
<1>4. Work'
  BY <1>1 DEF WorkInv, Work, Sendable, clients, server
<1> QED
  BY <1>2, <1>3, <1>4 DEF WorkInv

\* A step of executeQuery puts a row, answers, or empties a table.
PutsRow ==
    /\ pending # <<>> /\ pending' = Tail(pending)
    /\ bag' = IF lossy THEN bag ELSE [bag EXCEPT ![Head(pending)] = @ + 1]
    /\ lossy' = lossy /\ busy' = TRUE /\ answer' = answer

GivesAnswer ==
    /\ busy' = FALSE /\ pending' = <<>>
    /\ answer'.status \in {"OK", "BAD_REQUEST", "INTERNAL_ERROR"}
    /\ answer'.status = "OK" => pending = <<>>
    /\ \/ bag' = bag /\ lossy' = lossy
       \/ bag' = Engine!NoRows /\ lossy' = TRUE

EmptiesTable ==
    /\ bag' = Engine!NoRows /\ lossy' = TRUE
    /\ busy' = TRUE /\ pending' = pending /\ answer' = answer

(* What a step of the engine may change for client and server: it puts a   *)
(* row, gives an answer, or empties the table.                             *)
LEMMA EngineEffect ==
    ASSUME WorkInv, EngineStep \/ DeleteStep
    PROVE  /\ UNCHANGED <<clients, inbox, outbox, server, history>>
           /\ request' = request /\ down' = down /\ busy /\ executing
           /\ cols' \in Columns \cup {NoColumns}
           /\ PutsRow \/ GivesAnswer \/ EmptiesTable
<1>1. /\ request \in Statements /\ cols \in Columns \cup {NoColumns}
      /\ busy \in BOOLEAN
      /\ busy => executing
      /\ executing => Sendable(request)
      /\ request.rows = <<>> => pending = <<>>
  BY DEF WorkInv, ServerShapes, Work
<1>2. /\ request.op # "INSERT" => request.rows = <<>>
      /\ Sendable(request) => ~request.join
      /\ request.cols \in Columns \cup {NoColumns}
  BY <1>1, StatementFacts
<1>3. UNCHANGED <<clients, inbox, outbox, server, history>>
  BY DEF EngineStep, DeleteStep
<1>4. cols' \in Columns \cup {NoColumns}
  BY <1>1, <1>2 DEF EngineStep, DeleteStep
<1>5. CASE Engine!Create
  BY <1>1, <1>2, <1>3, <1>4, <1>5 DEF Engine!Create, Engine!Answer, GivesAnswer
<1>6. CASE Engine!Drop
  <2>1. CASE Engine!Answer("OK", Engine!NoRows)
    BY <1>1, <1>2, <1>3, <1>4, <1>6, <2>1 DEF Engine!Drop, Engine!Answer, GivesAnswer
  <2>2. CASE busy /\ UNCHANGED <<table, busy, down, request, pending, answer>>
    BY <1>1, <1>2, <1>3, <1>4, <1>6, <2>2 DEF Engine!Drop, EmptiesTable
  <2> QED
    BY <1>6, <2>1, <2>2 DEF Engine!Drop
<1>7. CASE Engine!Put
  BY <1>1, <1>3, <1>4, <1>7 DEF Engine!Put, PutsRow
<1>8. CASE Engine!Inserted
  BY <1>1, <1>3, <1>4, <1>8 DEF Engine!Inserted, Engine!Answer, Engine!store, GivesAnswer
<1>9. CASE Engine!Deleted
  BY <1>1, <1>2, <1>3, <1>4, <1>9 DEF Engine!Deleted, Engine!Answer, Engine!store, GivesAnswer
<1>10. CASE Engine!Refused
  <2>1. busy
    BY <1>10 DEF Engine!Refused, Engine!Answer
  <2>2. ~request.join
    BY <1>1, <1>2, <2>1
  <2>3. /\ busy' = FALSE /\ pending' = <<>>
        /\ answer'.status \in {"BAD_REQUEST", "INTERNAL_ERROR"}
        /\ bag' = bag /\ lossy' = lossy /\ request' = request /\ down' = down
    BY <1>10, <2>2 DEF Engine!Refused, Engine!Answer, Engine!store
  <2> QED
    BY <1>1, <1>3, <1>4, <2>1, <2>3 DEF GivesAnswer
<1> QED
  BY <1>5, <1>6, <1>7, <1>8, <1>9, <1>10 DEF EngineStep, DeleteStep

(* Engine keeps WorkInv.                                                   *)
LEMMA EngineWork == ASSUME WorkInv, EngineStep \/ DeleteStep PROVE WorkInv'
<1>1. /\ UNCHANGED <<clients, inbox, outbox, server, history>>
      /\ request' = request /\ down' = down /\ busy /\ executing
      /\ cols' \in Columns \cup {NoColumns}
      /\ PutsRow \/ GivesAnswer \/ EmptiesTable
  BY EngineEffect
<1>2. ClientShapes'
  BY <1>1 DEF WorkInv, ClientShapes, clients
<1>3. pending \in Seq(Values) /\ bag \in [Values -> Nat]
  BY DEF WorkInv, ServerShapes
<1>4. /\ pending' \in Seq(Values) /\ busy' \in BOOLEAN
      /\ bag' \in [Values -> Nat]
  <2>1. CASE PutsRow
    <3>1. Head(pending) \in Values /\ Tail(pending) \in Seq(Values)
      BY <1>3, <2>1 DEF PutsRow
    <3> QED
      BY <1>3, <2>1, <3>1 DEF PutsRow
  <2>2. CASE GivesAnswer \/ EmptiesTable
    <3>1. Engine!NoRows \in [Values -> Nat] /\ <<>> \in Seq(Values)
      BY DEF Engine!NoRows
    <3>2. pending' \in {pending, <<>>} /\ bag' \in {bag, Engine!NoRows}
      BY <2>2 DEF GivesAnswer, EmptiesTable
    <3>3. busy' \in BOOLEAN
      BY <2>2 DEF GivesAnswer, EmptiesTable
    <3> QED
      BY <1>3, <3>1, <3>2, <3>3
  <2> QED
    BY <1>1, <2>1, <2>2
<1>5. ServerShapes'
  BY <1>1, <1>4 DEF WorkInv, ServerShapes, server, history
<1>6. Work'
  <2>1. executing' = executing /\ inbox' = inbox /\ link' = link
    BY <1>1 DEF server, clients
  <2>2. request.rows = <<>> => pending = <<>>
    BY DEF WorkInv, Work
  <2>3. CASE PutsRow
    <3>1. request.rows # <<>> /\ busy' = TRUE
      BY <2>2, <2>3 DEF PutsRow
    <3> QED
      BY <1>1, <2>1, <3>1 DEF WorkInv, Work, Sendable
  <2>4. CASE GivesAnswer
    BY <1>1, <2>1, <2>4 DEF WorkInv, Work, Sendable, GivesAnswer
  <2>5. CASE EmptiesTable
    BY <1>1, <2>1, <2>5 DEF WorkInv, Work, Sendable, EmptiesTable
  <2> QED
    BY <1>1, <2>3, <2>4, <2>5
<1> QED
  BY <1>2, <1>5, <1>6 DEF WorkInv

(* WorkInv holds at first.                                                 *)
LEMMA WorkInit == ASSUME Init PROVE WorkInv
<1>1. ServerShapes
  <2>1. Engine!NoRows \in [Values -> Nat] /\ Engine!NoRows \in Counts
    BY MaxRowsAssumption DEF Engine!NoRows, Counts
  <2>2. <<>> \in Seq(Clients) /\ <<>> \in Seq(Values) /\ Empty \in Statements
    BY StatementsAssumption
  <2> QED
    BY <2>1, <2>2 DEF Init, Engine!Init, ServerShapes
<1>2. ClientShapes
  BY StatementsAssumption DEF Init, ClientShapes
<1>3. Work
  BY DEF Init, Engine!Init, Work
<1> QED
  BY <1>1, <1>2, <1>3 DEF WorkInv

(* Every step keeps WorkInv.                                               *)
LEMMA WorkStep == ASSUME IInv, WorkInv, [Next]_vars PROVE WorkInv'
<1>1. CASE Accept \/ Hangup \/ RefuseRequest \/ Execute \/ Respond \/ Restart
  BY <1>1, AcceptWork, HangupWork, RefuseWork, ExecuteWork, RespondWork, RestartWork
<1>2. CASE EngineStep \/ DeleteStep
  BY <1>2, EngineWork
<1>3. CASE ProcessorCrash \/ NullCondition \/ ServerEnds
  BY <1>3, DisconnectWork DEF ProcessorCrash, NullCondition, ServerEnds
<1>4. CASE EngineCrash
  BY <1>4, DisconnectWork DEF EngineCrash, Engine!End, Engine!store
<1>5. ASSUME NEW c \in Clients,
             \/ Connect(c) \/ EndOfInput(c) \/ ParseFails(c) \/ SerializeCrashes(c)
             \/ Call(c) \/ CallBrokenLink(c) \/ Receive(c) \/ CallFails(c)
             \/ Leave(c)
      PROVE  WorkInv'
  <2>1. CASE Connect(c) \/ EndOfInput(c) \/ Call(c) \/ Receive(c) \/ CallFails(c)
    BY <2>1, ConnectWork, EndOfInputWork, CallWork, ReceiveWork, CallFailsWork
  <2>2. CASE SerializeCrashes(c) \/ Leave(c)
    BY <2>2, GoneWork DEF SerializeCrashes, Leave
  <2>3. CASE ParseFails(c)
    BY <2>3, LineWork DEF ParseFails
  <2>4. CASE CallBrokenLink(c)
    <3>1. PICK s \in Typed(c) :
            \/ Gone(c)
            \/ /\ Reads(c, s)
               /\ UNCHANGED <<con, eof, link, inbox, outbox, server, engine, history>>
      BY <2>4 DEF CallBrokenLink
    <3>2. s \in Statements
      BY TypedFacts
    <3> QED
      BY <3>1, <3>2, GoneWork, LineWork
  <2> QED
    BY <1>5, <2>1, <2>2, <2>3, <2>4
<1>6. CASE UNCHANGED vars
  BY <1>6 DEF vars, clients, server, engine, history, WorkInv, ServerShapes,
              ClientShapes, Work, Sendable
<1> QED
  BY <1>1, <1>2, <1>3, <1>4, <1>5, <1>6 DEF Next, ServerStep

----------------------------------------------------------------------------
(***************************************************************************)
(* Rows sent, stored and answered for                                      *)
(***************************************************************************)
Messages == {c \in Clients : inbox[c] # NoMessage}
MessageRows == [c \in Clients |-> inbox[c][1].rows]

Calling == {c \in Clients : con[c] = "call" /\ link[c] = "up"}
Answered == {c \in Calling : outbox[c] # NoResponse /\ outbox[c][1].info = "OK"}
LineRows == [c \in Clients |-> line[c].rows]

InMessages(u) == Cardinality(Places(Messages, MessageRows, u))
InCalls(u) == Cardinality(Places(Calling, LineRows, u))
InAnswers(u) == Cardinality(Places(Answered, LineRows, u))

\* How often the statement at the server has put u and is not answered yet.
PutSoFar(u) ==
    IF executing /\ (busy \/ answer.status = "OK")
    THEN Count(request.rows, u) - Count(pending, u) ELSE 0

(***************************************************************************)
(* A row is stored, about to be, or on its way, no more often than it was  *)
(* sent; a call in progress is not acknowledged; and for each row that is  *)
(* acknowledged, answered for or put by the statement at work there is one *)
(* in the table.                                                           *)
(***************************************************************************)
RowsBalance(u) ==
    /\ IsFiniteSet(Places(Messages, MessageRows, u))
    /\ IsFiniteSet(Places(Calling, LineRows, u))
    /\ Count(pending, u) <= Count(request.rows, u)
    /\ bag[u] + Count(pending, u) + InMessages(u) <= sent[u]
    /\ acked[u] + InCalls(u) <= sent[u]
    /\ ~lossy => acked[u] + InAnswers(u) + PutSoFar(u) <= bag[u]

Balance == \A u \in Values : RowsBalance(u)

(* The counts that are balanced are numbers.                               *)
LEMMA BalanceNumbers ==
    ASSUME WorkInv, NEW u \in Values
    PROVE  /\ bag[u] \in Nat /\ acked[u] \in Nat /\ sent[u] \in Nat
           /\ Count(pending, u) \in Nat /\ Count(request.rows, u) \in Nat
           /\ RowsBalance(u) =>
                /\ IsFiniteSet(Places(Answered, LineRows, u))
                /\ InMessages(u) \in Nat /\ InCalls(u) \in Nat /\ InAnswers(u) \in Nat
                /\ InAnswers(u) <= InCalls(u) /\ PutSoFar(u) \in Nat
<1>1. /\ bag \in [Values -> Nat] /\ acked \in [Values -> Nat]
      /\ sent \in [Values -> 0 .. MaxRows] /\ MaxRows \in Nat
      /\ pending \in Seq(Values) /\ request \in Statements
  BY MaxRowsAssumption DEF WorkInv, ServerShapes, Counts
<1>2. bag[u] \in Nat /\ acked[u] \in Nat /\ sent[u] \in Nat
  BY <1>1
<1>3. Count(pending, u) \in Nat /\ Count(request.rows, u) \in Nat
  BY <1>1, CountFacts, StatementFacts
<1>4. ASSUME RowsBalance(u)
      PROVE  /\ IsFiniteSet(Places(Answered, LineRows, u))
             /\ InMessages(u) \in Nat /\ InCalls(u) \in Nat /\ InAnswers(u) \in Nat
             /\ InAnswers(u) <= InCalls(u) /\ PutSoFar(u) \in Nat
  <2>1. Places(Answered, LineRows, u) \in SUBSET Places(Calling, LineRows, u)
    BY DEF Places, Answered
  <2>2. /\ IsFiniteSet(Places(Messages, MessageRows, u))
        /\ IsFiniteSet(Places(Calling, LineRows, u))
        /\ Count(pending, u) <= Count(request.rows, u)
    BY <1>4 DEF RowsBalance
  <2>3. /\ IsFiniteSet(Places(Answered, LineRows, u))
        /\ InAnswers(u) <= InCalls(u)
    BY <2>1, <2>2, FS_Subset DEF InAnswers, InCalls
  <2>4. InMessages(u) \in Nat /\ InCalls(u) \in Nat /\ InAnswers(u) \in Nat
    BY <2>2, <2>3, FS_CardinalityType DEF InMessages, InCalls, InAnswers
  <2>5. PutSoFar(u) \in Nat
    BY <1>3, <2>2 DEF PutSoFar
  <2> QED
    BY <2>3, <2>4, <2>5
<1> QED
  BY <1>2, <1>3, <1>4

\* A step that leaves all clients but c as they are.
OthersStay(c) ==
    \A d \in Clients \ {c} :
        /\ con'[d] = con[d] /\ line'[d] = line[d] /\ link'[d] = link[d]
        /\ inbox'[d] = inbox[d] /\ outbox'[d] = outbox[d]

(* The rows of a message and of a line are rows.                           *)
LEMMA RowsOfClient ==
    ASSUME WorkInv, NEW c \in Clients
    PROVE  /\ c \in Messages => MessageRows[c] \in Seq(Values)
           /\ LineRows[c] \in Seq(Values)
<1>1. line[c].rows \in Seq(Values)
  BY StatementFacts DEF WorkInv, ClientShapes
<1>2. ASSUME c \in Messages PROVE MessageRows[c] \in Seq(Values)
  <2>1. PICK m \in Statements : inbox[c] = <<m>>
    BY <1>2 DEF WorkInv, ClientShapes, Messages
  <2>2. inbox[c][1] = m
    BY <2>1
  <2> QED
    BY <2>2, StatementFacts DEF MessageRows
<1> QED
  BY <1>1, <1>2 DEF LineRows

(* Then the rows under way change by the shares of c.                      *)
LEMMA SharesMove ==
    ASSUME WorkInv, WorkInv', NEW c \in Clients, OthersStay(c),
           NEW u \in Values, RowsBalance(u)
    PROVE  /\ IsFiniteSet(Places(Messages, MessageRows, u))'
           /\ IsFiniteSet(Places(Calling, LineRows, u))'
           /\ InMessages(u)' + Share(Messages, MessageRows, c, u)
                = InMessages(u) + Share(Messages, MessageRows, c, u)'
           /\ InCalls(u)' + Share(Calling, LineRows, c, u)
                = InCalls(u) + Share(Calling, LineRows, c, u)'
           /\ InAnswers(u)' + Share(Answered, LineRows, c, u)
                = InAnswers(u) + Share(Answered, LineRows, c, u)'
<1>1. /\ Messages \ {c} = Messages' \ {c}
      /\ Calling \ {c} = Calling' \ {c}
      /\ Answered \ {c} = Answered' \ {c}
  BY DEF OthersStay, Messages, Calling, Answered
<1>2. /\ \A d \in Messages \ {c} : MessageRows[d] = MessageRows'[d]
      /\ \A d \in Calling \ {c} : LineRows[d] = LineRows'[d]
      /\ \A d \in Answered \ {c} : LineRows[d] = LineRows'[d]
  BY DEF OthersStay, Messages, MessageRows, Calling, Answered, LineRows
<1>3. /\ c \in Messages => MessageRows[c] \in Seq(Values)
      /\ c \in Messages' => MessageRows'[c] \in Seq(Values)
      /\ LineRows[c] \in Seq(Values) /\ LineRows'[c] \in Seq(Values)
  <2>1. /\ c \in Messages => MessageRows[c] \in Seq(Values)
        /\ LineRows[c] \in Seq(Values)
    BY RowsOfClient
  <2>2. /\ c \in Messages' => MessageRows'[c] \in Seq(Values)
        /\ LineRows'[c] \in Seq(Values)
    <3>1. line'[c].rows \in Seq(Values)
      BY StatementFacts DEF WorkInv, ClientShapes
    <3>2. ASSUME c \in Messages' PROVE MessageRows'[c] \in Seq(Values)
      <4>1. PICK m \in Statements : inbox'[c] = <<m>>
        BY <3>2 DEF WorkInv, ClientShapes, Messages
      <4>2. inbox'[c][1] = m
        BY <4>1
      <4> QED
        BY <4>2, StatementFacts DEF MessageRows
    <3> QED
      BY <3>1, <3>2 DEF LineRows
  <2> QED
    BY <2>1, <2>2
<1>4. /\ IsFiniteSet(Places(Messages, MessageRows, u))
      /\ IsFiniteSet(Places(Calling, LineRows, u))
      /\ IsFiniteSet(Places(Answered, LineRows, u))
  BY BalanceNumbers DEF RowsBalance
<1>5. /\ IsFiniteSet(Places(Messages', MessageRows', u))
      /\ Cardinality(Places(Messages', MessageRows', u)) + Share(Messages, MessageRows, c, u)
           = Cardinality(Places(Messages, MessageRows, u)) + Share(Messages', MessageRows', c, u)
  BY <1>1, <1>2, <1>3, <1>4, OneMoves
<1>6. /\ IsFiniteSet(Places(Calling', LineRows', u))
      /\ Cardinality(Places(Calling', LineRows', u)) + Share(Calling, LineRows, c, u)
           = Cardinality(Places(Calling, LineRows, u)) + Share(Calling', LineRows', c, u)
  BY <1>1, <1>2, <1>3, <1>4, OneMoves
<1>7. Cardinality(Places(Answered', LineRows', u)) + Share(Answered, LineRows, c, u)
           = Cardinality(Places(Answered, LineRows, u)) + Share(Answered', LineRows', c, u)
  BY <1>1, <1>2, <1>3, <1>4, OneMoves
<1>8. /\ Places(Messages, MessageRows, u)' = Places(Messages', MessageRows', u)
      /\ Places(Calling, LineRows, u)' = Places(Calling', LineRows', u)
      /\ Places(Answered, LineRows, u)' = Places(Answered', LineRows', u)
  BY DEF Places, Indexes
<1>9. /\ Share(Messages, MessageRows, c, u)' = Share(Messages', MessageRows', c, u)
      /\ Share(Calling, LineRows, c, u)' = Share(Calling', LineRows', c, u)
      /\ Share(Answered, LineRows, c, u)' = Share(Answered', LineRows', c, u)
  BY DEF Share, Count
<1> QED
  BY <1>5, <1>6, <1>7, <1>8, <1>9 DEF InMessages, InCalls, InAnswers

\* The shares of client c.
MessageShare(c, u) == IF inbox[c] # NoMessage THEN Count(inbox[c][1].rows, u) ELSE 0
CallShare(c, u) ==
    IF con[c] = "call" /\ link[c] = "up" THEN Count(line[c].rows, u) ELSE 0
AnswerShare(c, u) ==
    IF outbox[c] # NoResponse /\ outbox[c][1].info = "OK" THEN CallShare(c, u) ELSE 0

(* What one client has in messages, in calls and in answers.               *)
LEMMA SharesOf ==
    ASSUME NEW c \in Clients, NEW u
    PROVE  /\ Share(Messages, MessageRows, c, u) = MessageShare(c, u)
           /\ Share(Calling, LineRows, c, u) = CallShare(c, u)
           /\ Share(Answered, LineRows, c, u) = AnswerShare(c, u)
BY DEF Share, Messages, MessageRows, Calling, Answered, LineRows, MessageShare,
       CallShare, AnswerShare

(* SharesOf, after a step.                                                 *)
LEMMA SharesNext ==
    ASSUME NEW c \in Clients, NEW u
    PROVE  /\ Share(Messages, MessageRows, c, u)' = MessageShare(c, u)'
           /\ Share(Calling, LineRows, c, u)' = CallShare(c, u)'
           /\ Share(Answered, LineRows, c, u)' = AnswerShare(c, u)'
BY DEF Share, Messages, MessageRows, Calling, Answered, LineRows, MessageShare,
       CallShare, AnswerShare

(* The shares of a client are numbers.                                     *)
LEMMA ShareNumbers ==
    ASSUME WorkInv, NEW c \in Clients, NEW u
    PROVE  MessageShare(c, u) \in Nat /\ CallShare(c, u) \in Nat /\ AnswerShare(c, u) \in Nat
<1>1. c \in Messages => Count(MessageRows[c], u) \in Nat
  BY RowsOfClient, CountFacts
<1>2. Count(LineRows[c], u) \in Nat
  BY RowsOfClient, CountFacts
<1> QED
  BY <1>1, <1>2 DEF Messages, MessageRows, LineRows, MessageShare, CallShare, AnswerShare

(* ShareNumbers, after a step.                                             *)
LEMMA ShareNumbersNext ==
    ASSUME WorkInv', NEW c \in Clients, NEW u \in Values
    PROVE  /\ MessageShare(c, u)' \in Nat /\ CallShare(c, u)' \in Nat
           /\ AnswerShare(c, u)' \in Nat
<1>1. Count(line'[c].rows, u) \in Nat
  <2>1. line'[c] \in Statements
    BY DEF WorkInv, ClientShapes
  <2> QED
    BY <2>1, StatementFacts, CountFacts
<1>2. inbox'[c] # NoMessage => Count(inbox'[c][1].rows, u) \in Nat
  <2>1. ASSUME inbox'[c] # NoMessage PROVE Count(inbox'[c][1].rows, u) \in Nat
    <3>1. PICK m \in Statements : inbox'[c] = <<m>>
      BY <2>1 DEF WorkInv, ClientShapes
    <3>2. inbox'[c][1] = m
      BY <3>1
    <3> QED
      BY <3>2, StatementFacts, CountFacts
  <2> QED
    BY <2>1
<1>3. /\ MessageShare(c, u)' = IF inbox'[c] # NoMessage THEN Count(inbox'[c][1].rows, u) ELSE 0
      /\ CallShare(c, u)' \in {0, Count(line'[c].rows, u)}
      /\ AnswerShare(c, u)' \in {0, CallShare(c, u)'}
  BY DEF MessageShare, CallShare, AnswerShare, Count
<1> QED
  BY <1>1, <1>2, <1>3

(* A step of client c, or of the server for c, that executeQuery has no    *)
(* part in.                                                                *)
LEMMA ClientBalance ==
    ASSUME WorkInv, WorkInv', NEW c \in Clients, OthersStay(c),
           NEW u \in Values, RowsBalance(u),
           UNCHANGED <<bag, pending, request, busy, answer, lossy, executing>>,
           MessageShare(c, u)' + sent[u] <= MessageShare(c, u) + sent'[u],
           acked'[u] + CallShare(c, u)' + sent[u] <= acked[u] + CallShare(c, u) + sent'[u],
           acked'[u] + AnswerShare(c, u)' <= acked[u] + AnswerShare(c, u)
    PROVE  RowsBalance(u)'
<1>1. /\ IsFiniteSet(Places(Messages, MessageRows, u))'
      /\ IsFiniteSet(Places(Calling, LineRows, u))'
      /\ InMessages(u)' + MessageShare(c, u) = InMessages(u) + MessageShare(c, u)'
      /\ InCalls(u)' + CallShare(c, u) = InCalls(u) + CallShare(c, u)'
      /\ InAnswers(u)' + AnswerShare(c, u) = InAnswers(u) + AnswerShare(c, u)'
  BY SharesMove, SharesOf, SharesNext
<1>2. /\ MessageShare(c, u) \in Nat /\ CallShare(c, u) \in Nat /\ AnswerShare(c, u) \in Nat
      /\ MessageShare(c, u)' \in Nat /\ CallShare(c, u)' \in Nat
      /\ AnswerShare(c, u)' \in Nat
  BY ShareNumbers, ShareNumbersNext
<1>3. /\ bag[u] \in Nat /\ acked[u] \in Nat /\ sent[u] \in Nat
      /\ Count(pending, u) \in Nat /\ Count(request.rows, u) \in Nat
      /\ InMessages(u) \in Nat /\ InCalls(u) \in Nat /\ InAnswers(u) \in Nat
      /\ PutSoFar(u) \in Nat
  BY BalanceNumbers
<1>4. acked'[u] \in Nat /\ sent'[u] \in Nat
  BY MaxRowsAssumption DEF WorkInv, ServerShapes, Counts
<1>5. InMessages(u)' \in Int /\ InCalls(u)' \in Int /\ InAnswers(u)' \in Int
  <2>1. InMessages(u)' \in Nat /\ InCalls(u)' \in Nat
    BY <1>1, FS_CardinalityType DEF InMessages, InCalls
  <2>2. Places(Answered, LineRows, u)' \in SUBSET Places(Calling, LineRows, u)'
    BY DEF Places, Answered
  <2>3. InAnswers(u)' \in Nat
    BY <1>1, <2>2, FS_Subset, FS_CardinalityType DEF InAnswers
  <2> QED
    BY <2>1, <2>3
<1>6. /\ Count(pending, u)' = Count(pending, u)
      /\ Count(request.rows, u)' = Count(request.rows, u)
      /\ PutSoFar(u)' = PutSoFar(u)
  BY DEF Count, PutSoFar
<1>7. /\ bag[u] + Count(pending, u) + InMessages(u)' <= sent'[u]
      /\ acked'[u] + InCalls(u)' <= sent'[u]
      /\ ~lossy => acked'[u] + InAnswers(u)' + PutSoFar(u) <= bag[u]
  BY <1>1, <1>2, <1>3, <1>4, <1>5 DEF RowsBalance
<1> QED
  BY <1>1, <1>6, <1>7 DEF RowsBalance

(* A step that sends, reads and answers nothing of client c.               *)
LEMMA IdleBalance ==
    ASSUME WorkInv, WorkInv', NEW c \in Clients, OthersStay(c),
           NEW u \in Values, RowsBalance(u),
           UNCHANGED <<inbox, bag, pending, request, busy, answer, lossy, executing,
                       sent, acked>>,
           CallShare(c, u)' <= CallShare(c, u), AnswerShare(c, u)' <= AnswerShare(c, u)
    PROVE  RowsBalance(u)'
<1>1. MessageShare(c, u)' = MessageShare(c, u)
  BY DEF MessageShare, Count
<1>2. /\ MessageShare(c, u) \in Nat /\ CallShare(c, u) \in Nat /\ AnswerShare(c, u) \in Nat
      /\ CallShare(c, u)' \in Nat /\ AnswerShare(c, u)' \in Nat
  BY ShareNumbers, ShareNumbersNext
<1>3. acked[u] \in Nat /\ sent[u] \in Nat
  BY BalanceNumbers
<1>4. /\ MessageShare(c, u)' + sent[u] <= MessageShare(c, u) + sent'[u]
      /\ acked'[u] + CallShare(c, u)' + sent[u] <= acked[u] + CallShare(c, u) + sent'[u]
      /\ acked'[u] + AnswerShare(c, u)' <= acked[u] + AnswerShare(c, u)
  BY <1>1, <1>2, <1>3
<1> QED
  BY <1>4, ClientBalance

(* The rows of a client that is gone leave the balance on the side of      *)
(* what may be missing.                                                    *)
LEMMA GoneBalance ==
    ASSUME WorkInv, WorkInv', NEW c \in Clients, Gone(c), NEW u \in Values, RowsBalance(u)
    PROVE  RowsBalance(u)'
<1>1. /\ con' = [con EXCEPT ![c] = "gone"] /\ line' = [line EXCEPT ![c] = Empty]
      /\ link' = [link EXCEPT ![c] = "none"]
      /\ outbox' = [outbox EXCEPT ![c] = NoResponse] /\ inbox' = inbox
      /\ UNCHANGED <<bag, pending, request, busy, answer, lossy, executing, sent, acked>>
  BY DEF Gone, server, engine, history
<1>2. OthersStay(c)
  BY <1>1 DEF OthersStay, WorkInv, ClientShapes
<1>3. con'[c] = "gone"
  BY <1>1 DEF WorkInv, ClientShapes
<1>4. CallShare(c, u)' = 0 /\ AnswerShare(c, u)' = 0
  BY <1>3 DEF CallShare, AnswerShare
<1> QED
  BY <1>1, <1>2, <1>4, ShareNumbers, IdleBalance

(* A step of a client that is not in a call before or after.               *)
LEMMA PromptBalance ==
    ASSUME WorkInv, WorkInv', NEW c \in Clients, OthersStay(c),
           con[c] # "call", con'[c] # "call",
           NEW u \in Values, RowsBalance(u), UNCHANGED <<inbox, executing, engine, history>>
    PROVE  RowsBalance(u)'
<1>1. UNCHANGED <<bag, pending, request, busy, answer, lossy, sent, acked>>
  BY DEF engine, history
<1>2. /\ CallShare(c, u) = 0 /\ AnswerShare(c, u) = 0
      /\ CallShare(c, u)' = 0 /\ AnswerShare(c, u)' = 0
  BY DEF CallShare, AnswerShare
<1> QED
  BY <1>1, <1>2, IdleBalance

(* Reading a line keeps the balance of rows.                               *)
LEMMA LineBalance ==
    ASSUME WorkInv, WorkInv', NEW c \in Clients, NEW s, Reads(c, s),
           UNCHANGED <<con, eof, link, inbox, outbox, server, engine, history>>,
           NEW u \in Values, RowsBalance(u)
    PROVE  RowsBalance(u)'
<1>1. con[c] = "prompt" /\ line' = [line EXCEPT ![c] = s]
  BY DEF Reads, Typed
<1>2. OthersStay(c) /\ executing' = executing
  BY <1>1 DEF OthersStay, WorkInv, ClientShapes, server
<1> QED
  BY <1>1, <1>2, PromptBalance

(* Connect keeps the balance of rows.                                      *)
LEMMA ConnectBalance ==
    ASSUME WorkInv, WorkInv', NEW c \in Clients, Connect(c),
           NEW u \in Values, RowsBalance(u)
    PROVE  RowsBalance(u)'
<1>1. /\ con[c] = "new" /\ con' \in {[con EXCEPT ![c] = "gone"], [con EXCEPT ![c] = "prompt"]}
      /\ link' \in {link, [link EXCEPT ![c] = "up"]}
      /\ UNCHANGED <<line, inbox, outbox, executing, engine, history>>
  BY DEF Connect
<1>2. OthersStay(c) /\ con'[c] # "call"
  BY <1>1 DEF OthersStay, WorkInv, ClientShapes
<1> QED
  BY <1>1, <1>2, PromptBalance

(* EndOfInput keeps the balance of rows.                                   *)
LEMMA EndOfInputBalance ==
    ASSUME WorkInv, WorkInv', NEW c \in Clients, EndOfInput(c),
           NEW u \in Values, RowsBalance(u)
    PROVE  RowsBalance(u)'
<1>1. /\ con[c] = "prompt" /\ con' = con /\ executing' = executing
      /\ UNCHANGED <<line, link, inbox, outbox, engine, history>>
  BY DEF EndOfInput, server
<1>2. OthersStay(c)
  BY <1>1 DEF OthersStay
<1> QED
  BY <1>1, <1>2, PromptBalance

(* CallFails keeps the balance of rows.                                    *)
LEMMA CallFailsBalance ==
    ASSUME WorkInv, WorkInv', NEW c \in Clients, CallFails(c),
           NEW u \in Values, RowsBalance(u)
    PROVE  RowsBalance(u)'
<1>1. /\ con' = [con EXCEPT ![c] = "prompt"]
      /\ UNCHANGED <<line, link, inbox, outbox, bag, pending, request, busy, answer,
                     lossy, executing, sent, acked>>
  BY DEF CallFails, server, engine, history
<1>2. OthersStay(c) /\ con'[c] = "prompt"
  BY <1>1 DEF OthersStay, WorkInv, ClientShapes
<1>3. CallShare(c, u)' = 0 /\ AnswerShare(c, u)' = 0
  BY <1>2 DEF CallShare, AnswerShare
<1> QED
  BY <1>1, <1>2, <1>3, ShareNumbers, IdleBalance

(* Call keeps the balance of rows.                                         *)
LEMMA CallBalance ==
    ASSUME IInv, WorkInv, WorkInv', NEW c \in Clients, Call(c),
           NEW u \in Values, RowsBalance(u)
    PROVE  RowsBalance(u)'
<1>1. PICK s \in Statements :
        /\ Reads(c, s) /\ inbox' = [inbox EXCEPT ![c] = <<s>>]
        /\ sent' = AddRows(sent, s.rows)
  BY DEF Call
<1>2. /\ con[c] = "prompt" /\ line' = [line EXCEPT ![c] = s]
      /\ con' = [con EXCEPT ![c] = "call"] /\ link[c] = "up"
      /\ UNCHANGED <<link, outbox, bag, pending, request, busy, answer, lossy,
                     executing, acked>>
  BY <1>1 DEF Call, Reads, Typed, server, engine
<1>3. OthersStay(c)
  BY <1>1, <1>2 DEF OthersStay, WorkInv, ClientShapes
<1>4. inbox[c] = NoMessage /\ outbox[c] = NoResponse
  BY <1>2, ClientFacts DEF Quiet
<1>5. con'[c] = "call" /\ line'[c] = s /\ inbox'[c] = <<s>> /\ link'[c] = "up"
  BY <1>1, <1>2 DEF WorkInv, ClientShapes
<1>6. sent \in [Values -> Nat] /\ s.rows \in Seq(Values)
  BY MaxRowsAssumption, StatementFacts DEF WorkInv, ServerShapes, Counts
<1>7. sent'[u] = sent[u] + Count(s.rows, u) /\ Count(s.rows, u) \in Nat
  BY <1>1, <1>6, AddedRows, CountFacts
<1>8. /\ MessageShare(c, u) = 0 /\ CallShare(c, u) = 0 /\ AnswerShare(c, u) = 0
  BY <1>2, <1>4 DEF MessageShare, CallShare, AnswerShare
<1>9. /\ MessageShare(c, u)' = Count(s.rows, u)
      /\ CallShare(c, u)' = Count(s.rows, u) /\ AnswerShare(c, u)' = 0
  <2>1. <<s>> # NoMessage /\ <<s>>[1] = s
    BY DEF NoMessage
  <2>2. inbox'[c] # NoMessage /\ inbox'[c][1] = s
    BY <1>5, <2>1, Zenon
  <2> QED
    BY <1>2, <1>4, <1>5, <2>2 DEF MessageShare, CallShare, AnswerShare, Count
<1>10. acked[u] \in Nat /\ sent[u] \in Nat
  BY BalanceNumbers
<1>11. /\ MessageShare(c, u)' + sent[u] <= MessageShare(c, u) + sent'[u]
       /\ acked'[u] + CallShare(c, u)' + sent[u] <= acked[u] + CallShare(c, u) + sent'[u]
       /\ acked'[u] + AnswerShare(c, u)' <= acked[u] + AnswerShare(c, u)
  BY <1>2, <1>7, <1>8, <1>9, <1>10
<1> QED
  BY <1>2, <1>3, <1>11, ClientBalance

(* Receive keeps the balance of rows.                                      *)
LEMMA ReceiveBalance ==
    ASSUME WorkInv, WorkInv', NEW c \in Clients, Receive(c),
           NEW u \in Values, RowsBalance(u)
    PROVE  RowsBalance(u)'
<1>1. /\ con[c] = "call" /\ outbox[c] # NoResponse
      /\ con' = [con EXCEPT ![c] = "prompt"]
      /\ outbox' = [outbox EXCEPT ![c] = NoResponse]
      /\ acked' = IF link[c] = "up" /\ outbox[c][1].info = "OK"
                  THEN AddRows(acked, line[c].rows) ELSE acked
      /\ UNCHANGED <<line, link, inbox, bag, pending, request, busy, answer,
                     lossy, executing, sent>>
  BY DEF Receive, server, engine
<1>2. OthersStay(c) /\ con'[c] = "prompt"
  BY <1>1 DEF OthersStay, WorkInv, ClientShapes
<1>3. /\ MessageShare(c, u)' = MessageShare(c, u)
      /\ CallShare(c, u)' = 0 /\ AnswerShare(c, u)' = 0
  BY <1>1, <1>2 DEF MessageShare, CallShare, AnswerShare, Count
<1>4. line[c].rows \in Seq(Values) /\ acked \in [Values -> Nat]
  BY StatementFacts DEF WorkInv, ClientShapes, ServerShapes
<1>5. /\ acked'[u] = acked[u] + AnswerShare(c, u)
      /\ AnswerShare(c, u) <= CallShare(c, u)
  <2>1. Count(line[c].rows, u) \in Nat
    BY <1>4, CountFacts
  <2>2. CASE link[c] = "up" /\ outbox[c][1].info = "OK"
    BY <1>1, <1>4, <2>1, <2>2, AddedRows DEF AnswerShare, CallShare
  <2>3. CASE ~(link[c] = "up" /\ outbox[c][1].info = "OK")
    BY <1>1, <1>4, <2>1, <2>3 DEF AnswerShare, CallShare
  <2> QED
    BY <2>2, <2>3
<1>6. /\ acked[u] \in Nat /\ sent[u] \in Nat /\ MessageShare(c, u) \in Nat
      /\ CallShare(c, u) \in Nat /\ AnswerShare(c, u) \in Nat
  BY BalanceNumbers, ShareNumbers
<1>7. /\ MessageShare(c, u)' + sent[u] <= MessageShare(c, u) + sent'[u]
      /\ acked'[u] + CallShare(c, u)' + sent[u] <= acked[u] + CallShare(c, u) + sent'[u]
      /\ acked'[u] + AnswerShare(c, u)' <= acked[u] + AnswerShare(c, u)
  BY <1>1, <1>3, <1>5, <1>6
<1> QED
  BY <1>1, <1>2, <1>7, ClientBalance

(* With the connections go the calls and the messages in them.             *)
LEMMA DisconnectBalance ==
    ASSUME WorkInv, WorkInv', Disconnect, pending' = <<>>,
           UNCHANGED <<bag, lossy, request>>, NEW u \in Values, RowsBalance(u)
    PROVE  RowsBalance(u)'
<1>1. /\ executing' = FALSE /\ sent' = sent /\ acked' = acked
      /\ inbox' = [c \in Clients |-> NoMessage]
      /\ \A c \in Clients : link'[c] # "up"
  BY DEF Disconnect, history
<1>2. /\ Messages' = {} /\ Calling' = {} /\ Answered' = {}
  BY <1>1 DEF Messages, Calling, Answered
<1>3. /\ IsFiniteSet(Places(Messages, MessageRows, u))'
      /\ IsFiniteSet(Places(Calling, LineRows, u))'
      /\ InMessages(u)' = 0 /\ InCalls(u)' = 0 /\ InAnswers(u)' = 0
  <2>1. /\ Places(Messages, MessageRows, u)' = {} /\ Places(Calling, LineRows, u)' = {}
        /\ Places(Answered, LineRows, u)' = {}
    BY <1>2 DEF Places
  <2> QED
    BY <2>1, FS_EmptySet DEF InMessages, InCalls, InAnswers
<1>4. Count(pending, u)' = 0 /\ Count(request.rows, u)' = Count(request.rows, u)
  <2>1. Count(<<>>, u) = 0
    <3>1. <<>> \in Seq(Values)
      OBVIOUS
    <3> QED
      BY <3>1, CountFacts
  <2> QED
    BY <2>1 DEF Count
<1>5. PutSoFar(u)' = 0
  BY <1>1 DEF PutSoFar
<1>6. /\ bag[u] \in Nat /\ acked[u] \in Nat /\ sent[u] \in Nat
      /\ Count(pending, u) \in Nat /\ Count(request.rows, u) \in Nat
      /\ InMessages(u) \in Nat /\ InCalls(u) \in Nat /\ InAnswers(u) \in Nat
      /\ PutSoFar(u) \in Nat
  BY BalanceNumbers
<1>7. bag[u] <= sent[u] /\ acked[u] <= sent[u] /\ (~lossy => acked[u] <= bag[u])
  BY <1>6, SMTT(30) DEF RowsBalance
<1> QED
  BY <1>1, <1>3, <1>4, <1>5, <1>6, <1>7 DEF RowsBalance

(* Nobody's mailbox, call or answer changes.                               *)
LEMMA SameShares ==
    ASSUME UNCHANGED <<con, line, link, inbox, outbox>>, NEW u
    PROVE  /\ Places(Messages, MessageRows, u)' = Places(Messages, MessageRows, u)
           /\ Places(Calling, LineRows, u)' = Places(Calling, LineRows, u)
           /\ InMessages(u)' = InMessages(u) /\ InCalls(u)' = InCalls(u)
           /\ InAnswers(u)' = InAnswers(u)
BY DEF Places, Indexes, Messages, MessageRows, Calling, LineRows, Answered,
       InMessages, InCalls, InAnswers

(* Steps between two messages move no row.                                 *)
LEMMA ConnectionBalance ==
    ASSUME UNCHANGED <<clients, inbox, outbox, executing, engine, history>>,
           NEW u \in Values, RowsBalance(u)
    PROVE  RowsBalance(u)'
<1>1. /\ UNCHANGED <<con, line, link, inbox, outbox>>
      /\ UNCHANGED <<bag, pending, request, busy, answer, lossy, executing, sent, acked>>
  BY DEF clients, engine, history
<1>2. /\ Count(pending, u)' = Count(pending, u)
      /\ Count(request.rows, u)' = Count(request.rows, u)
      /\ PutSoFar(u)' = PutSoFar(u)
  BY <1>1 DEF Count, PutSoFar
<1> QED
  BY <1>1, <1>2, SameShares DEF RowsBalance

(* Refuse keeps the balance of rows.                                       *)
LEMMA RefuseBalance ==
    ASSUME IInv, WorkInv, WorkInv', RefuseRequest, NEW u \in Values, RowsBalance(u)
    PROVE  RowsBalance(u)'
<1>0. PICK c \in Clients : c = serving
  BY MessageRead DEF RefuseRequest
<1>1. PICK m \in Statements : inbox[c] = <<m>>
  BY <1>0, MessageRead DEF RefuseRequest
<1>2. c \in Clients
  OBVIOUS
<1>3. inbox[c][1] = m
  BY <1>1
<1>4. /\ Responds(m, "BAD_REQUEST") /\ inbox' = [inbox EXCEPT ![c] = NoMessage]
      /\ con' = con /\ line' = line /\ link' = link
      /\ UNCHANGED <<bag, pending, request, busy, answer, lossy, executing, sent, acked>>
  BY <1>0, <1>3 DEF RefuseRequest, TakesMessage, clients, server, engine, history
<1>5. /\ con[c] # "gone" =>
           /\ outbox'[c] # NoResponse /\ outbox'[c][1].info = "BAD_REQUEST"
           /\ \A d \in Clients \ {c} : outbox'[d] = outbox[d]
      /\ con[c] = "gone" => outbox' = outbox
  BY <1>0, <1>2, <1>4, ResponseShape
<1>6. OthersStay(c) /\ inbox'[c] = NoMessage
  BY <1>2, <1>4, <1>5 DEF OthersStay, WorkInv, ClientShapes
<1>7. /\ MessageShare(c, u)' = 0 /\ CallShare(c, u)' = CallShare(c, u)
      /\ AnswerShare(c, u)' = 0
  BY <1>2, <1>4, <1>5, <1>6 DEF MessageShare, CallShare, AnswerShare, Count
<1>8. /\ acked[u] \in Nat /\ sent[u] \in Nat /\ MessageShare(c, u) \in Nat
      /\ CallShare(c, u) \in Nat /\ AnswerShare(c, u) \in Nat
  BY <1>2, BalanceNumbers, ShareNumbers
<1>9. /\ MessageShare(c, u)' + sent[u] <= MessageShare(c, u) + sent'[u]
      /\ acked'[u] + CallShare(c, u)' + sent[u] <= acked[u] + CallShare(c, u) + sent'[u]
      /\ acked'[u] + AnswerShare(c, u)' <= acked[u] + AnswerShare(c, u)
  BY <1>4, <1>7, <1>8
<1> QED
  BY <1>2, <1>4, <1>6, <1>9, ClientBalance

(* The rows of a message are pending from here on.                         *)
LEMMA ExecuteBalance ==
    ASSUME IInv, WorkInv, WorkInv', Execute, NEW u \in Values, RowsBalance(u)
    PROVE  RowsBalance(u)'
<1>0. PICK c \in Clients : c = serving
  BY MessageRead DEF Execute
<1>1. PICK m \in Statements : inbox[c] = <<m>>
  BY <1>0, MessageRead DEF Execute
<1>2. c \in Clients /\ ~executing /\ pending = <<>>
  BY MessageRead DEF Execute
<1>3. inbox[c][1] = m
  BY <1>1
<1>4. /\ inbox' = [inbox EXCEPT ![c] = NoMessage]
      /\ request' = m /\ pending' = m.rows /\ bag' = bag /\ lossy' = lossy
      /\ con' = con /\ line' = line /\ link' = link /\ outbox' = outbox
      /\ sent' = sent /\ acked' = acked
  BY <1>0, <1>3 DEF Execute, TakesMessage, Engine!Ask, Engine!store, clients, history
<1>5. OthersStay(c) /\ inbox'[c] = NoMessage
  BY <1>2, <1>4 DEF OthersStay, WorkInv, ClientShapes
<1>6. /\ MessageShare(c, u)' = 0 /\ CallShare(c, u)' = CallShare(c, u)
      /\ AnswerShare(c, u)' = AnswerShare(c, u)
  BY <1>4, <1>5 DEF MessageShare, CallShare, AnswerShare, Count
<1>7. MessageShare(c, u) = Count(m.rows, u)
  <2>1. inbox[c] # NoMessage
    BY <1>1 DEF NoMessage
  <2> QED
    BY <1>3, <2>1 DEF MessageShare
<1>8. /\ Count(pending, u)' = Count(m.rows, u) /\ Count(request.rows, u)' = Count(m.rows, u)
      /\ Count(pending, u) = 0 /\ Count(m.rows, u) \in Nat
  <2>1. m.rows \in Seq(Values)
    BY StatementFacts
  <2>2. Count(m.rows, u) \in Nat /\ Count(<<>>, u) = 0
    BY <2>1, CountFacts
  <2> QED
    BY <1>2, <1>4, <2>2 DEF Count
<1>9. PutSoFar(u) = 0 /\ PutSoFar(u)' = 0
  <2>1. PutSoFar(u)' \in {0, Count(request.rows, u)' - Count(pending, u)'}
    BY DEF PutSoFar, Count
  <2> QED
    BY <1>2, <1>8, <2>1 DEF PutSoFar
<1>10. /\ CallShare(c, u) \in Nat /\ AnswerShare(c, u) \in Nat
       /\ bag[u] \in Nat /\ acked[u] \in Nat /\ sent[u] \in Nat
       /\ InMessages(u) \in Nat /\ InCalls(u) \in Nat /\ InAnswers(u) \in Nat
  BY <1>2, BalanceNumbers, ShareNumbers
<1>11. /\ IsFiniteSet(Places(Messages, MessageRows, u))'
       /\ IsFiniteSet(Places(Calling, LineRows, u))'
       /\ InMessages(u)' + MessageShare(c, u) = InMessages(u) + MessageShare(c, u)'
       /\ InCalls(u)' + CallShare(c, u) = InCalls(u) + CallShare(c, u)'
       /\ InAnswers(u)' + AnswerShare(c, u) = InAnswers(u) + AnswerShare(c, u)'
  BY <1>2, <1>5, SharesMove, SharesOf, SharesNext
<1>12. InMessages(u)' \in Nat /\ InCalls(u)' \in Nat /\ InAnswers(u)' \in Nat
  <2>1. Places(Answered, LineRows, u)' \in SUBSET Places(Calling, LineRows, u)'
    BY DEF Places, Answered
  <2> QED
    BY <1>11, <2>1, FS_Subset, FS_CardinalityType DEF InMessages, InCalls, InAnswers
<1>13. /\ InMessages(u)' + Count(m.rows, u) = InMessages(u)
       /\ InCalls(u)' = InCalls(u) /\ InAnswers(u)' = InAnswers(u)
  BY <1>6, <1>7, <1>8, <1>10, <1>11, <1>12
<1>14. /\ bag[u] + InMessages(u) <= sent[u] /\ acked[u] + InCalls(u) <= sent[u]
       /\ ~lossy => acked[u] + InAnswers(u) <= bag[u]
  BY <1>8, <1>9, <1>10 DEF RowsBalance
<1>15. /\ bag[u] + Count(m.rows, u) + InMessages(u)' <= sent[u]
       /\ acked[u] + InCalls(u)' <= sent[u]
       /\ ~lossy => acked[u] + InAnswers(u)' + 0 <= bag[u]
  BY <1>8, <1>10, <1>12, <1>13, <1>14
<1> QED
  BY <1>4, <1>8, <1>9, <1>11, <1>15 DEF RowsBalance

(* With the answer the rows put pass from the statement to its response.   *)
LEMMA RespondBalance ==
    ASSUME IInv, WorkInv, WorkInv', Respond, NEW u \in Values, RowsBalance(u)
    PROVE  RowsBalance(u)'
<1>0. PICK c \in Clients : c = serving
  BY DEF Respond, IInv, ServerAtWork
<1>1. /\ executing /\ ~busy /\ pending = <<>> /\ request \in Statements
      /\ answer.status \in {"OK", "BAD_REQUEST", "INTERNAL_ERROR"}
  BY DEF Respond, WorkInv, ServerShapes, Work
<1>2. /\ executing' = FALSE
      /\ con' = con /\ line' = line /\ link' = link /\ inbox' = inbox
      /\ UNCHANGED <<bag, pending, request, busy, answer, lossy, sent, acked>>
  BY DEF Respond, clients, engine, history
<1>3. /\ con[c] # "gone" =>
           /\ outbox'[c] # NoResponse /\ outbox'[c][1].info = answer.status
           /\ \A d \in Clients \ {c} : outbox'[d] = outbox[d]
      /\ con[c] = "gone" => outbox' = outbox
  BY <1>0, <1>1, ResponseShape DEF Respond
<1>4. \/ con[c] = "gone"
      \/ /\ con[c] = "call" /\ link[c] = "up"
         /\ request = line[c] /\ outbox[c] = NoResponse
  BY <1>0, <1>1 DEF IInv, Mailboxes, ClientsAside, Quiet, CallAccounted, InHand
<1>5. OthersStay(c)
  BY <1>2, <1>3 DEF OthersStay
<1>6. /\ MessageShare(c, u)' = MessageShare(c, u) /\ CallShare(c, u)' = CallShare(c, u)
      /\ AnswerShare(c, u) = 0
  BY <1>2, <1>4 DEF MessageShare, CallShare, AnswerShare, Count
<1>7. Count(pending, u) = 0 /\ Count(request.rows, u) \in Nat
  <2>1. <<>> \in Seq(Values) /\ request.rows \in Seq(Values)
    BY <1>1, StatementFacts
  <2> QED
    BY <1>1, <2>1, CountFacts
<1>8. AnswerShare(c, u)' \in Nat /\ AnswerShare(c, u)' <= PutSoFar(u)
  <2>1. PutSoFar(u) = IF answer.status = "OK" THEN Count(request.rows, u) ELSE 0
    BY <1>1, <1>7 DEF PutSoFar
  <2>2. CASE con[c] = "gone"
    <3>1. AnswerShare(c, u)' = 0
      BY <1>2, <2>2 DEF AnswerShare, CallShare
    <3> QED
      BY <1>7, <2>1, <3>1
  <2>3. CASE con[c] # "gone"
    <3>1. request = line[c] /\ con[c] = "call" /\ link[c] = "up"
      BY <1>4, <2>3
    <3>2. AnswerShare(c, u)' = IF answer.status = "OK" THEN Count(request.rows, u) ELSE 0
      BY <1>2, <1>3, <2>3, <3>1 DEF AnswerShare, CallShare, Count
    <3> QED
      BY <1>7, <2>1, <3>2
  <2> QED
    BY <2>2, <2>3
<1>9. /\ CallShare(c, u) \in Nat /\ MessageShare(c, u) \in Nat
      /\ bag[u] \in Nat /\ acked[u] \in Nat /\ sent[u] \in Nat
      /\ InMessages(u) \in Nat /\ InCalls(u) \in Nat /\ InAnswers(u) \in Nat
      /\ PutSoFar(u) \in Nat
  BY BalanceNumbers, ShareNumbers
<1>10. /\ IsFiniteSet(Places(Messages, MessageRows, u))'
       /\ IsFiniteSet(Places(Calling, LineRows, u))'
       /\ InMessages(u)' + MessageShare(c, u) = InMessages(u) + MessageShare(c, u)'
       /\ InCalls(u)' + CallShare(c, u) = InCalls(u) + CallShare(c, u)'
       /\ InAnswers(u)' + AnswerShare(c, u) = InAnswers(u) + AnswerShare(c, u)'
  BY <1>5, SharesMove, SharesOf, SharesNext
<1>11. InMessages(u)' \in Nat /\ InCalls(u)' \in Nat /\ InAnswers(u)' \in Nat
  <2>1. Places(Answered, LineRows, u)' \in SUBSET Places(Calling, LineRows, u)'
    BY DEF Places, Answered
  <2> QED
    BY <1>10, <2>1, FS_Subset, FS_CardinalityType DEF InMessages, InCalls, InAnswers
<1>12. /\ InMessages(u)' = InMessages(u) /\ InCalls(u)' = InCalls(u)
       /\ InAnswers(u)' = InAnswers(u) + AnswerShare(c, u)'
  BY <1>6, <1>8, <1>9, <1>10, <1>11
<1>13. /\ Count(pending, u)' = Count(pending, u)
       /\ Count(request.rows, u)' = Count(request.rows, u)
       /\ PutSoFar(u)' = 0
  BY <1>2 DEF Count, PutSoFar
<1>14. ~lossy => acked[u] + InAnswers(u)' + 0 <= bag[u]
  BY <1>8, <1>9, <1>12 DEF RowsBalance
<1> QED
  BY <1>2, <1>10, <1>12, <1>13, <1>14 DEF RowsBalance

(* A row that is put moves from those pending to those put; an answer      *)
(* moves a line to those answered for.                                     *)
LEMMA EngineBalance ==
    ASSUME WorkInv, WorkInv', EngineStep \/ DeleteStep, NEW u \in Values, RowsBalance(u)
    PROVE  RowsBalance(u)'
<1>1. /\ UNCHANGED <<clients, inbox, outbox, server, history>>
      /\ request' = request /\ down' = down /\ busy /\ executing
      /\ PutsRow \/ GivesAnswer \/ EmptiesTable
  BY EngineEffect
<1>2. /\ UNCHANGED <<con, line, link, inbox, outbox, executing, sent, acked>>
  BY <1>1 DEF clients, server, history
<1>3. /\ Places(Messages, MessageRows, u)' = Places(Messages, MessageRows, u)
      /\ Places(Calling, LineRows, u)' = Places(Calling, LineRows, u)
      /\ InMessages(u)' = InMessages(u) /\ InCalls(u)' = InCalls(u)
      /\ InAnswers(u)' = InAnswers(u)
  BY <1>2, SameShares
<1>4. /\ bag[u] \in Nat /\ acked[u] \in Nat /\ sent[u] \in Nat
      /\ Count(pending, u) \in Nat /\ Count(request.rows, u) \in Nat
      /\ InMessages(u) \in Nat /\ InCalls(u) \in Nat /\ InAnswers(u) \in Nat
      /\ PutSoFar(u) \in Nat
  BY BalanceNumbers
<1>5. /\ pending \in Seq(Values) /\ bag \in [Values -> Nat]
      /\ Count(request.rows, u)' = Count(request.rows, u)
      /\ PutSoFar(u) = Count(request.rows, u) - Count(pending, u)
  BY <1>1 DEF WorkInv, ServerShapes, Count, PutSoFar
<1>6. /\ Count(pending, u) <= Count(request.rows, u)
      /\ bag[u] + Count(pending, u) + InMessages(u) <= sent[u]
      /\ acked[u] + InCalls(u) <= sent[u]
      /\ ~lossy => acked[u] + InAnswers(u) + PutSoFar(u) <= bag[u]
  BY DEF RowsBalance
<1>7. CASE PutsRow
  <2>1. /\ pending # <<>> /\ pending' = Tail(pending) /\ busy' = TRUE
        /\ bag' = IF lossy THEN bag ELSE [bag EXCEPT ![Head(pending)] = @ + 1]
        /\ lossy' = lossy
    BY <1>7 DEF PutsRow
  <2> DEFINE one == IF Head(pending) = u THEN 1 ELSE 0
  <2>2. Count(pending, u) = Count(Tail(pending), u) + one
    BY <1>5, <2>1, CountFacts
  <2>3. Count(pending, u)' = Count(Tail(pending), u) /\ Count(Tail(pending), u) \in Nat
    <3>1. Tail(pending) \in Seq(Values)
      BY <1>5, <2>1
    <3> QED
      BY <2>1, <3>1, CountFacts DEF Count
  <2>4. /\ lossy => bag'[u] = bag[u]
        /\ ~lossy => bag'[u] = bag[u] + one
    BY <1>5, <2>1
  <2>5. one \in 0 .. 1
    OBVIOUS
  <2>6. PutSoFar(u)' = Count(request.rows, u)' - Count(pending, u)'
    BY <1>1, <1>2, <2>1 DEF PutSoFar, Count
  <2> HIDE DEF one
  <2>7. lossy \/ ~lossy
    OBVIOUS
  <2>8. /\ Count(pending, u)' <= Count(request.rows, u)
        /\ bag'[u] + Count(pending, u)' + InMessages(u) <= sent[u]
        /\ ~lossy => acked[u] + InAnswers(u) + PutSoFar(u)' <= bag'[u]
    <3>1. one \in Nat
      BY <2>5
    <3>2. Count(pending, u)' <= Count(request.rows, u)
      BY <1>4, <1>6, <2>2, <2>3, <3>1
    <3>3. PutSoFar(u)' = PutSoFar(u) + one
      BY <1>4, <1>5, <2>2, <2>3, <2>6, <3>1
    <3>4. CASE lossy
      BY <1>4, <1>6, <2>2, <2>3, <2>4, <3>1, <3>2, <3>4
    <3>5. CASE ~lossy
      BY <1>4, <1>6, <2>2, <2>3, <2>4, <3>1, <3>2, <3>3, <3>5
    <3> QED
      BY <2>7, <3>4, <3>5
  <2> QED
    BY <1>2, <1>3, <1>5, <1>6, <2>1, <2>8 DEF RowsBalance
<1>8. CASE GivesAnswer
  <2>1. Count(pending, u)' = 0 /\ (answer'.status = "OK" => Count(pending, u) = 0)
    <3>1. Count(<<>>, u) = 0
      BY <1>5, CountFacts
    <3> QED
      BY <1>8, <3>1 DEF GivesAnswer, Count
  <2>2. \/ bag'[u] = bag[u] /\ lossy' = lossy
        \/ bag'[u] = 0 /\ lossy' = TRUE
    BY <1>8 DEF GivesAnswer, Engine!NoRows
  <2>3. PutSoFar(u)' = IF answer'.status = "OK"
                       THEN Count(request.rows, u)' - Count(pending, u)' ELSE 0
    BY <1>1, <1>2, <1>8 DEF PutSoFar, Count, GivesAnswer
  <2>4. PutSoFar(u)' <= PutSoFar(u) /\ PutSoFar(u)' \in Nat
    BY <1>4, <1>5, <2>1, <2>3
  <2>5. /\ bag'[u] + 0 + InMessages(u) <= sent[u]
        /\ ~lossy' => acked[u] + InAnswers(u) + PutSoFar(u)' <= bag'[u]
    BY <1>4, <1>6, <2>2, <2>4
  <2> QED
    BY <1>2, <1>3, <1>4, <1>5, <1>6, <2>1, <2>5 DEF RowsBalance
<1>9. CASE EmptiesTable
  <2>1. Count(pending, u)' = Count(pending, u) /\ lossy' = TRUE /\ bag'[u] = 0
    BY <1>9 DEF EmptiesTable, Count, Engine!NoRows
  <2>2. bag'[u] + Count(pending, u) + InMessages(u) <= sent[u]
    BY <1>4, <1>6, <2>1
  <2> QED
    BY <1>2, <1>3, <1>5, <1>6, <2>1, <2>2 DEF RowsBalance
<1> QED
  BY <1>1, <1>7, <1>8, <1>9

(* A new server begins with nothing sent and nothing stored.               *)
LEMMA FreshBalance ==
    ASSUME bag = Engine!NoRows, sent = Engine!NoRows, acked = Engine!NoRows,
           Messages = {}, Calling = {}, ~executing, pending = <<>>,
           request \in Statements, NEW u \in Values
    PROVE  RowsBalance(u)
<1>1. Places(Messages, MessageRows, u) = {} /\ Places(Calling, LineRows, u) = {}
  BY DEF Places
<1>2. Places(Answered, LineRows, u) = {}
  BY DEF Places, Answered
<1>3. /\ InMessages(u) = 0 /\ InCalls(u) = 0 /\ InAnswers(u) = 0 /\ IsFiniteSet({})
  BY <1>1, <1>2, FS_EmptySet DEF InMessages, InCalls, InAnswers
<1>4. Count(pending, u) = 0 /\ Count(request.rows, u) \in Nat /\ PutSoFar(u) = 0
  <2>1. <<>> \in Seq(Values) /\ request.rows \in Seq(Values)
    BY StatementFacts
  <2> QED
    BY <2>1, CountFacts DEF PutSoFar
<1>5. bag[u] = 0 /\ sent[u] = 0 /\ acked[u] = 0
  BY DEF Engine!NoRows
<1>6. Count(pending, u) <= Count(request.rows, u)
  BY <1>4
<1>7. /\ bag[u] + Count(pending, u) + InMessages(u) <= sent[u]
      /\ acked[u] + InCalls(u) <= sent[u]
      /\ acked[u] + InAnswers(u) + PutSoFar(u) <= bag[u]
  BY <1>3, <1>4, <1>5
<1>8. /\ IsFiniteSet(Places(Messages, MessageRows, u))
      /\ IsFiniteSet(Places(Calling, LineRows, u))
  BY <1>1, <1>3
<1> QED
  BY <1>6, <1>7, <1>8 DEF RowsBalance

(* At first no row was sent, none put, none answered for.                  *)
LEMMA BalanceInit == ASSUME Init PROVE Balance
<1>1. /\ bag = Engine!NoRows /\ sent = Engine!NoRows /\ acked = Engine!NoRows
      /\ ~executing /\ pending = <<>> /\ request \in Statements
  BY StatementsAssumption DEF Init, Engine!Init
<1>2. Messages = {} /\ Calling = {}
  BY DEF Init, Messages, Calling
<1> QED
  BY <1>1, <1>2, FreshBalance DEF Balance

(* A server started anew has an empty table, and owes nothing to answers   *)
(* given before.                                                           *)
LEMMA RestartBalance ==
    ASSUME WorkInv, Restart, NEW u \in Values PROVE RowsBalance(u)'
<1>1. /\ down /\ bag' = Engine!NoRows /\ sent' = Engine!NoRows /\ acked' = Engine!NoRows
      /\ request' = request /\ pending' = pending /\ executing' = executing
      /\ con' = con /\ link' = link /\ inbox' = inbox
  BY DEF Restart, Engine!Restart, clients, server
<1>2. /\ ~executing /\ pending = <<>> /\ request \in Statements
      /\ Messages = {} /\ Calling = {}
  BY <1>1 DEF WorkInv, ServerShapes, Work, Messages, Calling
<1>3. Messages' = {} /\ Calling' = {}
  BY <1>1, <1>2 DEF Messages, Calling
<1>4. Places(Messages, MessageRows, u)' = {} /\ Places(Calling, LineRows, u)' = {}
  BY <1>3 DEF Places
<1>5. Places(Answered, LineRows, u)' = {}
  BY <1>3 DEF Places, Answered
<1>6. /\ InMessages(u)' = 0 /\ InCalls(u)' = 0 /\ InAnswers(u)' = 0 /\ IsFiniteSet({})
  BY <1>4, <1>5, FS_EmptySet DEF InMessages, InCalls, InAnswers
<1>7. /\ Count(pending, u)' = 0 /\ Count(request.rows, u)' \in Nat /\ PutSoFar(u)' = 0
  <2>1. <<>> \in Seq(Values) /\ request.rows \in Seq(Values)
    BY <1>2, StatementFacts
  <2>2. Count(<<>>, u) = 0 /\ Count(request.rows, u) \in Nat
    BY <2>1, CountFacts
  <2> QED
    BY <1>1, <1>2, <2>2 DEF Count, PutSoFar
<1>8. bag'[u] = 0 /\ sent'[u] = 0 /\ acked'[u] = 0
  BY <1>1 DEF Engine!NoRows
<1> QED
  BY <1>4, <1>6, <1>7, <1>8 DEF RowsBalance

(* Every step keeps the balance.                                           *)
LEMMA BalanceStep ==
    ASSUME IInv, WorkInv, WorkInv', Balance, [Next]_vars PROVE Balance'
<1> SUFFICES ASSUME NEW u \in Values PROVE RowsBalance(u)'
  BY DEF Balance
<1>0. RowsBalance(u)
  BY DEF Balance
<1>1. CASE RefuseRequest \/ Execute \/ Respond \/ Restart
  BY <1>0, <1>1, RefuseBalance, ExecuteBalance, RespondBalance, RestartBalance
<1>2. CASE EngineStep \/ DeleteStep
  BY <1>0, <1>2, EngineBalance
<1>3. CASE Accept \/ Hangup
  BY <1>0, <1>3, ConnectionBalance DEF Accept, Hangup
<1>4. CASE ProcessorCrash \/ NullCondition \/ ServerEnds
  BY <1>0, <1>4, DisconnectBalance DEF ProcessorCrash, NullCondition, ServerEnds
<1>5. CASE EngineCrash
  BY <1>0, <1>5, DisconnectBalance DEF EngineCrash, Engine!End, Engine!store
<1>6. ASSUME NEW c \in Clients,
             \/ Connect(c) \/ EndOfInput(c) \/ ParseFails(c) \/ SerializeCrashes(c)
             \/ Call(c) \/ CallBrokenLink(c) \/ Receive(c) \/ CallFails(c)
             \/ Leave(c)
      PROVE  RowsBalance(u)'
  <2>1. CASE Connect(c) \/ EndOfInput(c) \/ Call(c) \/ Receive(c) \/ CallFails(c)
    BY <1>0, <2>1, ConnectBalance, EndOfInputBalance, CallBalance, ReceiveBalance,
       CallFailsBalance
  <2>2. CASE SerializeCrashes(c) \/ Leave(c)
    BY <1>0, <2>2, GoneBalance DEF SerializeCrashes, Leave
  <2>3. CASE ParseFails(c)
    BY <1>0, <2>3, LineBalance DEF ParseFails
  <2>4. CASE CallBrokenLink(c)
    BY <1>0, <2>4, GoneBalance, LineBalance DEF CallBrokenLink
  <2> QED
    BY <1>6, <2>1, <2>2, <2>3, <2>4
<1>7. CASE UNCHANGED vars
  <2>1. UNCHANGED <<clients, inbox, outbox, executing, engine, history>>
    BY <1>7 DEF vars, server
  <2> QED
    BY <1>0, <2>1, ConnectionBalance
<1> QED
  BY <1>1, <1>2, <1>3, <1>4, <1>5, <1>6, <1>7 DEF Next, ServerStep

(* IInv, WorkInv and Balance together are an invariant of ClientServer.    *)
THEOREM RowsAccounted == Spec => [](IInv /\ WorkInv /\ Balance)
<1>1. Init => IInv /\ WorkInv /\ Balance
  BY InitSafe, WorkInit, BalanceInit
<1>2. IInv /\ WorkInv /\ Balance /\ [Next]_vars => (IInv /\ WorkInv /\ Balance)'
  BY StepSafe, WorkStep, BalanceStep
<1> QED
  BY <1>1, <1>2, PTL DEF Spec

(* For any number of clients, killed at any moment with or without the     *)
(* server: until a table is dropped, each row whose INSERT was answered    *)
(* "Data inserted" is stored, and none more often than it was sent         *)
(* (execute_stmt of the client, process_client_request, executeInsert).    *)
THEOREM AckedRowsAreStored == Spec => []AckedStored
<1>1. ASSUME WorkInv, Balance PROVE AckedStored
  <2> SUFFICES ASSUME ~lossy, NEW u \in Values
               PROVE  acked[u] <= bag[u] /\ bag[u] <= sent[u]
    BY DEF AckedStored
  <2>1. RowsBalance(u)
    BY <1>1 DEF Balance
  <2>2. /\ bag[u] \in Nat /\ acked[u] \in Nat /\ sent[u] \in Nat
        /\ Count(pending, u) \in Nat /\ InMessages(u) \in Nat /\ InAnswers(u) \in Nat
        /\ PutSoFar(u) \in Nat
    BY <1>1, <2>1, BalanceNumbers
  <2> QED
    BY <2>1, <2>2 DEF RowsBalance
<1> QED
  BY <1>1, RowsAccounted, PTL

(* Every variable keeps its type: the mailboxes hold one message at most,  *)
(* a response bears a status that executeQuery has, and no count of rows   *)
(* exceeds what was sent (client.c, server.c, request_processor.c).        *)
THEOREM TypeCorrect == Spec => []TypeOK
<1>1. ASSUME WorkInv, Balance PROVE TypeOK
  <2>1. ASSUME NEW u \in Values PROVE bag[u] \in 0 .. MaxRows /\ acked[u] \in 0 .. MaxRows
    <3>1. RowsBalance(u)
      BY <1>1 DEF Balance
    <3>2. /\ bag[u] \in Nat /\ acked[u] \in Nat /\ sent[u] \in 0 .. MaxRows
          /\ Count(pending, u) \in Nat /\ InMessages(u) \in Nat /\ InCalls(u) \in Nat
      BY <1>1, <3>1, BalanceNumbers DEF WorkInv, ServerShapes, Counts
    <3>3. /\ bag[u] + Count(pending, u) + InMessages(u) <= sent[u]
          /\ acked[u] + InCalls(u) <= sent[u]
      BY <3>1 DEF RowsBalance
    <3> QED
      BY <3>2, <3>3, MaxRowsAssumption
  <2>2. bag \in Counts /\ acked \in Counts /\ sent \in Counts
    BY <1>1, <2>1 DEF WorkInv, ServerShapes, Counts
  <2> QED
    BY <1>1, <2>2 DEF WorkInv, ServerShapes, ClientShapes, TypeOK
<1> QED
  BY <1>1, RowsAccounted, PTL
=============================================================================
