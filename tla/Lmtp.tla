-------------------------------- MODULE Lmtp --------------------------------
(***************************************************************************)
(* One delivery over LMTP: the queue's client (crates/store/src/lmtp.rs)   *)
(* and the server that stores the message                                  *)
(* (crates/imappop3/src/lmtp/{session,server,router}.rs), with a connection*)
(* that may break and answers that may come too late.  The client sends    *)
(* one command and waits for its answer; after the message it expects one  *)
(* answer for every recipient that was accepted.                           *)
(***************************************************************************)
EXTENDS Integers, Sequences, FiniteSets

CONSTANTS
    Envelopes,      \* recipient lists the queue may hand over
    Key,            \* [addresses -> keys]: an address in lower case
    Routed,         \* keys the router finds a mailbox for
    MaxRecipients   \* config.max_recipients of the server

VARIABLES
    envelope,   \* the recipients of this attempt
    client,     \* [at, next, slots, pending]
    server,     \* [at, recipients, seen, responses]
    command,    \* the command on its way, or Silence
    wire,       \* the answers on their way
    cut,        \* the connection is gone
    boxes,      \* the keys whose mailbox took the message
    result      \* "running", "failed" or "collected"

vars == <<envelope, client, server, command, wire, cut, boxes, result>>

NoAnswer == "none"
Silence == "silence"
Fresh == [at |-> "idle", recipients |-> <<>>, seen |-> {}, responses |-> <<>>]

Init ==
    /\ envelope \in Envelopes
    /\ client = [at |-> "connect", next |-> 1, pending |-> <<>>,
                 slots |-> [i \in 1..Len(envelope) |-> NoAnswer]]
    /\ server = [Fresh EXCEPT !.at = "down"]
    /\ command = Silence /\ wire = <<>> /\ cut = FALSE
    /\ boxes = {} /\ result = "running"

-----------------------------------------------------------------------------
(* The client: deliver *)

Ok(answer) == answer \in {"220", "250"}

\* An answer that comes after the attempt was given up is read all the same.
WaitingOn == wire # <<>> /\ wire' = Tail(wire)

\* read_response: the next answer, while the attempt runs.
Waiting == result = "running" /\ wire # <<>> /\ wire' = Tail(wire)

Send(c, phase) == command' = c /\ client' = [client EXCEPT !.at = phase] /\ UNCHANGED result

\* An unexpected answer ends the attempt with an error.
Abandon == result' = "failed" /\ cut' = TRUE /\ UNCHANGED <<client, command>>

Connect ==
    /\ client.at = "connect" /\ result = "running"
    /\ \/ /\ client' = [client EXCEPT !.at = "greeting"]
          /\ server' = [server EXCEPT !.at = "accepted"]
          /\ UNCHANGED <<result, cut>>
       \/ result' = "failed" /\ cut' = TRUE /\ UNCHANGED <<client, server>>
    /\ UNCHANGED <<envelope, command, wire, boxes>>

Opening(phase, c, then) ==
    /\ client.at = phase /\ Waiting
    /\ IF Ok(Head(wire)) THEN Send(c, then) /\ UNCHANGED cut ELSE Abandon
    /\ UNCHANGED <<envelope, server, boxes>>

ReadGreeting == Opening("greeting", "LHLO", "lhlo")
ReadLhlo     == Opening("lhlo", "MAIL", "mail")
ReadMail     == Opening("mail", "RCPT", "rcpt")

\* Only accepted recipients are waited for after the message.
PendingAfter(answer, i) == IF Ok(answer) THEN Append(client.pending, i) ELSE client.pending

ReadRcpt ==
    /\ client.at = "rcpt" /\ Waiting
    /\ LET i == client.next
           read == [client EXCEPT !.next = i + 1,
                                  !.pending = PendingAfter(Head(wire), i),
                                  !.slots[i] = IF Ok(Head(wire)) THEN @ ELSE Head(wire)]
       IN  IF i < Len(envelope) THEN client' = read /\ command' = "RCPT" /\ UNCHANGED result
           ELSE IF read.pending = <<>>
           THEN client' = [read EXCEPT !.at = "done"] /\ command' = "QUIT" /\ result' = "collected"
           ELSE client' = [read EXCEPT !.at = "data"] /\ command' = "DATA" /\ UNCHANGED result
    /\ UNCHANGED <<envelope, server, cut, boxes>>

ReadData ==
    /\ client.at = "data" /\ Waiting
    /\ IF Head(wire) = "354" THEN Send("message", "answers") /\ UNCHANGED cut ELSE Abandon
    /\ UNCHANGED <<envelope, server, boxes>>

\* Counting the answers instead of following the accepted recipients.
SlotByCount == Cardinality({i \in DOMAIN client.slots : client.slots[i] # NoAnswer}) + 1

\* The recipient the next answer is about.
SlotOfAnswer == Head(client.pending)

\* One answer for each pending recipient, in their order; collect.
ReadAnswer ==
    /\ client.at = "answers" /\ Waiting
    /\ LET read == [client EXCEPT !.slots[SlotOfAnswer] = Head(wire), !.pending = Tail(@)]
       IN  IF read.pending = <<>>
           THEN client' = [read EXCEPT !.at = "done"] /\ command' = "QUIT" /\ result' = "collected"
           ELSE client' = read /\ UNCHANGED <<command, result>>
    /\ UNCHANGED <<envelope, server, cut, boxes>>

\* The timeout of one read or write, or end of file: an error for the whole
\* attempt, whatever was answered before.
ReadFails ==
    /\ result = "running" /\ client.at # "connect"
    /\ result' = "failed" /\ cut' = TRUE
    /\ UNCHANGED <<envelope, client, server, command, wire, boxes>>

-----------------------------------------------------------------------------
(* The server: accept, then one handler for each command *)

\* 421 when no permit is free.
Greet ==
    /\ server.at = "accepted"
    /\ \/ wire' = Append(wire, "220") /\ server' = [server EXCEPT !.at = "idle"]
       \/ wire' = Append(wire, "421") /\ server' = [server EXCEPT !.at = "down"]
    /\ UNCHANGED <<envelope, client, command, cut, boxes, result>>

Handles(c) == server.at = "idle" /\ command = c /\ command' = Silence /\ ~cut

Answer(a) == wire' = Append(wire, a)

HandleLhlo ==
    /\ Handles("LHLO") /\ Answer("250") /\ server' = Fresh
    /\ UNCHANGED <<envelope, client, cut, boxes, result>>

HandleMail ==
    /\ Handles("MAIL") /\ server' = Fresh
    /\ Answer("250") \/ Answer("501")
    /\ UNCHANGED <<envelope, client, cut, boxes, result>>

\* A recipient that was named before is accepted again but kept once.
HandleRcpt ==
    /\ Handles("RCPT")
    /\ LET address == envelope[client.next]
           key == Key[address]
       IN  IF Len(server.recipients) >= MaxRecipients
           THEN Answer("452") /\ UNCHANGED server
           ELSE IF key \notin Routed THEN Answer("550") /\ UNCHANGED server
           ELSE /\ Answer("250")
                /\ server' = IF key \in server.seen THEN server
                             ELSE [server EXCEPT !.seen = @ \cup {key},
                                                 !.recipients = Append(@, address)]
    /\ UNCHANGED <<envelope, client, cut, boxes, result>>

HandleData ==
    /\ Handles("DATA")
    /\ IF server.recipients = <<>> THEN Answer("503") /\ UNCHANGED server
       ELSE Answer("354") /\ server' = [server EXCEPT !.at = "reading"]
    /\ UNCHANGED <<envelope, client, cut, boxes, result>>

\* read_data: to the final dot, or too large; end of file ends the session.
ReadMessage ==
    /\ server.at = "reading" /\ command = "message" /\ command' = Silence /\ ~cut
    /\ \/ server' = [server EXCEPT !.at = "delivering"] /\ UNCHANGED wire
       \/ /\ wire' = wire \o [i \in 1..Len(server.recipients) |-> "552"]
          /\ server' = Fresh
    /\ UNCHANGED <<envelope, client, cut, boxes, result>>

\* deliver_envelope for the next recipient: stored (or discarded as its
\* script asks), rejected, or failed; the answer is kept until all are done.
DeliverNext ==
    /\ server.at = "delivering" /\ Len(server.responses) < Len(server.recipients)
    /\ LET key == Key[server.recipients[Len(server.responses) + 1]]
       IN  \/ /\ boxes' = boxes \cup {key}
              /\ server' = [server EXCEPT !.responses = Append(@, "250")]
           \/ /\ \E a \in {"550", "552", "451"} :
                    server' = [server EXCEPT !.responses = Append(@, a)]
              /\ UNCHANGED boxes
    /\ UNCHANGED <<envelope, client, command, wire, cut, result>>

WriteAnswers ==
    /\ server.at = "delivering" /\ Len(server.responses) = Len(server.recipients)
    /\ wire' = wire \o server.responses
    /\ server' = Fresh
    /\ UNCHANGED <<envelope, client, command, cut, boxes, result>>

HandleQuit ==
    /\ Handles("QUIT") /\ Answer("221") /\ server' = [Fresh EXCEPT !.at = "down"]
    /\ UNCHANGED <<envelope, client, cut, boxes, result>>

\* The session sees the end of the stream between commands, or its task is
\* aborted when the daemon's grace period is over.
ServerGone ==
    /\ server.at \notin {"down", "accepted"} /\ server' = [Fresh EXCEPT !.at = "down"]
    /\ cut' = TRUE
    /\ UNCHANGED <<envelope, client, command, wire, boxes, result>>

Next ==
    \/ Connect \/ ReadGreeting \/ ReadLhlo \/ ReadMail \/ ReadRcpt \/ ReadData \/ ReadAnswer
    \/ ReadFails
    \/ Greet \/ HandleLhlo \/ HandleMail \/ HandleRcpt \/ HandleData \/ ReadMessage
    \/ DeliverNext \/ WriteAnswers \/ HandleQuit \/ ServerGone

Spec == Init /\ [][Next]_vars

-----------------------------------------------------------------------------
(* Properties *)

Verdict(answer) ==
    CASE Ok(answer) -> "delivered"
      [] answer \in {"550", "552", "501", "503"} -> "refused"
      [] OTHER -> "deferred"

People == 1..Len(envelope)
StoredFor == {i \in People : Key[envelope[i]] \in boxes}
Told == CASE result = "running" -> [state |-> "untold"]
          [] result = "failed" -> [state |-> "failed"]
          [] OTHER -> [state |-> "told", verdict |-> [i \in People |-> Verdict(client.slots[i])]]

\* What the queue hands over: somebody to deliver to, and nobody who is named
\* again, in other letters, when the server's list may be full already.  The
\* limits of the SMTP and the LMTP server are the same; only postmaster may
\* come on top (rcpt of crates/smtpd/src/session.rs, which looks for it before
\* it compares with the limit).
EnvelopesSound ==
    /\ MaxRecipients \in Nat
    /\ \A e \in Envelopes :
          /\ Len(e) \in Nat \ {0}
          /\ \A i, j \in 1..Len(e) : i < j /\ Key[e[i]] = Key[e[j]] => j <= MaxRecipients

Promise == INSTANCE Handoff WITH people <- People, stored <- StoredFor, told <- Told

\* The dialogue implements the promise: whatever breaks and however answers
\* and recipients line up, the queue hears either every recipient's own fate
\* or that the attempt failed.
HandsOff == Promise!Spec

\* An attempt fails only when something broke: the server never answered,
\* refused the transaction, or the connection went away.  When both sides
\* stay up and every recipient is answered, copies that were stored are
\* reported as stored.
Settled == client.at = "answers" /\ server.at = "idle" /\ wire = <<>> /\ command = Silence
NeverStranded == ~(Settled /\ ~cut /\ result = "running" /\ boxes # {})
=============================================================================
