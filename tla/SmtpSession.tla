---------------------------- MODULE SmtpSession ----------------------------
(***************************************************************************)
(* SMTP sessions: the command state machine of crates/smtpd/src/session.rs *)
(* driven by the connection loop of crates/smtpd/src/connection.rs, with   *)
(* STARTTLS, AUTH, the DATA phase and the hand-over to the queue.          *)
(*                                                                         *)
(* The client (and whoever can write into the connection before it is      *)
(* encrypted) puts lines into the loop's buffer; each carries the mark of  *)
(* how it arrived.  A line the session answers without a change of state   *)
(* (NOOP, VRFY, HELP, an unknown or malformed command, MAIL with a         *)
(* declared size over the limit, AUTH with an unknown mechanism) is NOOP.  *)
(***************************************************************************)
EXTENDS Naturals, Sequences, FiniteSets

CONSTANTS
    Conns,           \* connections
    Port,            \* per connection: implicit, starttls, auth, require
    Users,           \* authenticated identities
    Senders,         \* reverse paths
    Owns,            \* pairs <<user, sender>> of sender_owned_by
    Rcpts,           \* forward paths
    Managed,         \* those of a managed domain
    Known,           \* those the recipient directory knows
    Postmasters,     \* the reserved postmaster addresses
    Postmaster,      \* per connection: SessionConfig::postmaster
    Nobody,          \* nobody: no user, no sender, no postmaster
    MaxRecipients,   \* SessionConfig::max_recipients
    MaxAuthFailures, \* MAX_CONSECUTIVE_AUTH_FAILURES
    DataBudget,      \* DATA_MEMORY_BUDGET in messages of max_message_size
    Says,            \* bound: per connection, the commands its client sends
    Ahead,           \* bound: per connection, the lines its client sends ahead
    Together         \* bound: sets of connections that are open together

ASSUME PortTyped == Port \in [Conns -> [implicit : BOOLEAN, starttls : BOOLEAN,
                                        auth : BOOLEAN, require : BOOLEAN]]
\* validate in listener.rs
ASSUME PortValid == \A c \in Conns : ~(Port[c].implicit /\ Port[c].starttls)
ASSUME SetsTyped == /\ Owns \subseteq Users \X Senders
                    /\ Managed \cup Known \cup Postmasters \subseteq Rcpts
                    /\ Nobody \notin Users \cup Senders \cup Rcpts
                    /\ Postmaster \in [Conns -> Rcpts \cup {Nobody}]
ASSUME LimitsTyped == /\ MaxRecipients \in Nat /\ DataBudget \in Nat
                      /\ MaxAuthFailures \in Nat \ {0}

VARIABLES
    phase,    \* Session::phase
    esmtp,    \* Session::esmtp
    from,     \* Session::mail_from
    rcpts,    \* Session::recipients
    user,     \* Session::auth_user; authenticated when not Nobody
    pending,  \* Session::pending_auth
    tls,      \* Session::tls_active
    stage,    \* where drive is: "line", "verify", "data", "sink", "reply",
              \* "upgrade" or "closed"
    buffer,   \* drive's buffer of lines
    failures, \* drive's auth_failures
    message,  \* the AcceptedMessage given to the sink
    slots,    \* connections counted in ACTIVE_DATA_BYTES
    injected, \* history: a plaintext line was obeyed under TLS
    exposed,  \* history: credentials were taken from a plaintext line
    refused,  \* history: InvalidCredentials answers of the connection
    queued,   \* history: the connection's last message is in the queue
    acked     \* history: it was answered 250

session == <<phase, esmtp, from, rcpts>>
auth    == <<user, pending, failures, exposed, refused>>
handing == <<message, slots, queued, acked>>
vars    == <<session, auth, handing, tls, stage, buffer, injected>>

Commands ==
    [cmd : {"EHLO", "HELO", "RSET", "DATA", "QUIT", "STARTTLS", "NOOP",
            "AUTH", "AUTH+"}]
      \cup [cmd : {"MAIL"}, arg : Senders]
      \cup [cmd : {"RCPT"}, arg : Rcpts]

Lines == [command : Commands, plain : BOOLEAN]

NoMessage == [from |-> Nobody, rcpts |-> {}, user |-> Nobody, secured |-> FALSE]
Messages  == [from : Senders \cup {Nobody}, rcpts : SUBSET Rcpts,
              user : Users \cup {Nobody}, secured : BOOLEAN]

\* Session::role
Submission(c) == Port[c].auth \/ Port[c].require

Init ==
    /\ phase = [c \in Conns |-> "connected"]
    /\ esmtp = [c \in Conns |-> FALSE]
    /\ from = [c \in Conns |-> Nobody]
    /\ rcpts = [c \in Conns |-> {}]
    /\ user = [c \in Conns |-> Nobody]
    /\ pending = [c \in Conns |-> FALSE]
    /\ tls = [c \in Conns |-> Port[c].implicit]
    /\ \E open \in Together :
          stage = [c \in Conns |-> IF c \in open THEN "line" ELSE "closed"]
    /\ buffer = [c \in Conns |-> <<>>]
    /\ failures = [c \in Conns |-> 0]
    /\ message = [c \in Conns |-> NoMessage]
    /\ slots = {}
    /\ injected = [c \in Conns |-> FALSE]
    /\ exposed = [c \in Conns |-> FALSE]
    /\ refused = [c \in Conns |-> 0]
    /\ queued = [c \in Conns |-> FALSE]
    /\ acked = [c \in Conns |-> FALSE]

-----------------------------------------------------------------------------
(* The client's side of the connection *)

Send(c, command) ==
    /\ stage[c] # "closed"
    /\ command \in Says[c] /\ Len(buffer[c]) < Ahead[c]
    /\ buffer' = [buffer EXCEPT ![c] = Append(@, [command |-> command, plain |-> ~tls[c]])]
    /\ UNCHANGED <<session, auth, handing, tls, stage, injected>>

-----------------------------------------------------------------------------
(* Session::handle.  Each operator is what a command line does; the line   *)
(* has left the buffer.                                                    *)

Stay(c)  == UNCHANGED <<stage, tls, auth, handing>>
Reply(c) == UNCHANGED <<session, stage, tls, auth, handing>>

\* reset_transaction
Reset(c) ==
    /\ from' = [from EXCEPT ![c] = Nobody]
    /\ rcpts' = [rcpts EXCEPT ![c] = {}]
    /\ phase' = [phase EXCEPT ![c] = IF @ = "mail" THEN "greeted" ELSE @]

Hello(c, extended) ==
    /\ from' = [from EXCEPT ![c] = Nobody]
    /\ rcpts' = [rcpts EXCEPT ![c] = {}]
    /\ phase' = [phase EXCEPT ![c] = "greeted"]
    /\ esmtp' = [esmtp EXCEPT ![c] = extended]
    /\ Stay(c)

MailAllowed(c, s) ==
    /\ phase[c] # "connected"
    /\ from[c] = Nobody
    /\ Port[c].require => user[c] # Nobody
    /\ (Submission(c) /\ user[c] # Nobody) => <<user[c], s>> \in Owns

Mail(c, s) ==
    IF MailAllowed(c, s)
    THEN /\ from' = [from EXCEPT ![c] = s]
         /\ rcpts' = [rcpts EXCEPT ![c] = {}]
         /\ phase' = [phase EXCEPT ![c] = "mail"]
         /\ UNCHANGED esmtp
         /\ Stay(c)
    ELSE Reply(c)

AcceptRecipient(c, r) ==
    /\ rcpts' = [rcpts EXCEPT ![c] = @ \cup {r}]
    /\ UNCHANGED <<phase, esmtp, from>>
    /\ Stay(c)

RelayAnyone(c, r) == {TRUE}

\* RelayPolicy::evaluate, then the directory, which may be unavailable and
\* is then not held against the recipient.
Relay(c, r) ==
    IF r \in Managed
    THEN IF r \in Known THEN {TRUE} ELSE {FALSE, TRUE}
    ELSE {user[c] # Nobody}

RcptTrustsConfig(c, r) ==
    IF phase[c] # "mail" \/ r \in rcpts[c]
    THEN Reply(c)
    ELSE IF r \in Postmasters
    THEN AcceptRecipient(c, Postmaster[c])
    ELSE IF Cardinality(rcpts[c]) >= MaxRecipients
    THEN Reply(c)
    ELSE \E accepted \in Relay(c, r) :
             IF accepted THEN AcceptRecipient(c, r) ELSE Reply(c)

Rcpt(c, r) ==
    IF phase[c] # "mail" \/ r \in rcpts[c]
    THEN Reply(c)
    ELSE IF r \in Postmasters
    THEN IF Postmaster[c] = Nobody THEN Reply(c) ELSE AcceptRecipient(c, Postmaster[c])
    ELSE IF Cardinality(rcpts[c]) >= MaxRecipients
    THEN Reply(c)
    ELSE \E accepted \in Relay(c, r) :
             IF accepted THEN AcceptRecipient(c, r) ELSE Reply(c)

DataIgnoresBudget(c) ==
    IF phase[c] = "mail" /\ rcpts[c] # {}
    THEN /\ slots' = slots \cup {c}
         /\ stage' = [stage EXCEPT ![c] = "data"]
         /\ UNCHANGED <<session, tls, auth, message, queued, acked>>
    ELSE Reply(c)

\* EnterData needs room in the memory budget; without it the transaction
\* stays as it is.
Data(c) ==
    IF phase[c] = "mail" /\ rcpts[c] # {} /\ Cardinality(slots) < DataBudget
    THEN /\ slots' = slots \cup {c}
         /\ stage' = [stage EXCEPT ![c] = "data"]
         /\ UNCHANGED <<session, tls, auth, message, queued, acked>>
    ELSE Reply(c)

StartTlsKeepsGreeting(c) ==
    IF ~tls[c] /\ Port[c].starttls /\ from[c] = Nobody
    THEN /\ stage' = [stage EXCEPT ![c] = "upgrade"]
         /\ UNCHANGED <<session, tls, auth, handing>>
    ELSE Reply(c)

StartTls(c) ==
    IF ~tls[c] /\ Port[c].starttls /\ from[c] = Nobody
    THEN /\ from' = [from EXCEPT ![c] = Nobody]
         /\ rcpts' = [rcpts EXCEPT ![c] = {}]
         /\ phase' = [phase EXCEPT ![c] = "connected"]
         /\ esmtp' = [esmtp EXCEPT ![c] = FALSE]
         /\ stage' = [stage EXCEPT ![c] = "upgrade"]
         /\ UNCHANGED <<tls, auth, handing>>
    ELSE Reply(c)

AuthAllowedInMail(c) ==
    /\ Port[c].auth /\ tls[c]
    /\ esmtp[c] /\ phase[c] # "connected"
    /\ user[c] = Nobody

AuthAllowedInClear(c) ==
    /\ Port[c].auth
    /\ esmtp[c] /\ phase[c] # "connected" /\ from[c] = Nobody
    /\ user[c] = Nobody

AuthAllowed(c) ==
    /\ Port[c].auth /\ tls[c]
    /\ esmtp[c] /\ phase[c] # "connected" /\ from[c] = Nobody
    /\ user[c] = Nobody

\* Credentials go to the authenticator if they are base64, the answer of
\* request_verification otherwise.
Verify(c, line) ==
    \/ /\ stage' = [stage EXCEPT ![c] = "verify"]
       /\ exposed' = [exposed EXCEPT ![c] = @ \/ line.plain]
    \/ UNCHANGED <<stage, exposed>>

Auth(c, line) ==
    IF AuthAllowed(c)
    THEN /\ IF line.command.cmd = "AUTH+"
            THEN Verify(c, line) /\ UNCHANGED pending
            ELSE pending' = [pending EXCEPT ![c] = TRUE] /\ UNCHANGED <<stage, exposed>>
         /\ UNCHANGED <<session, tls, user, failures, refused, handing>>
    ELSE Reply(c)

\* continue_auth: after the challenge any line is taken for the response
\* ("*" cancels).
ContinueAuth(c, line) ==
    /\ pending' = [pending EXCEPT ![c] = FALSE]
    /\ Verify(c, line)
    /\ UNCHANGED <<session, tls, user, failures, refused, handing>>

Rset(c) ==
    /\ Reset(c)
    /\ UNCHANGED esmtp
    /\ Stay(c)

Quit(c) ==
    /\ Reset(c)
    /\ UNCHANGED esmtp
    /\ stage' = [stage EXCEPT ![c] = "closed"]
    /\ UNCHANGED <<tls, auth, handing>>

Handle(c, line) ==
    LET command == line.command IN
    \/ command.cmd = "EHLO" /\ Hello(c, TRUE)
    \/ command.cmd = "HELO" /\ Hello(c, FALSE)
    \/ command.cmd = "MAIL" /\ Mail(c, command.arg)
    \/ command.cmd = "RCPT" /\ Rcpt(c, command.arg)
    \/ command.cmd = "DATA" /\ Data(c)
    \/ command.cmd = "RSET" /\ Rset(c)
    \/ command.cmd = "STARTTLS" /\ StartTls(c)
    \/ command.cmd \in {"AUTH", "AUTH+"} /\ Auth(c, line)
    \/ command.cmd = "QUIT" /\ Quit(c)
    \/ command.cmd = "NOOP" /\ Reply(c)

Line(c) ==
    /\ stage[c] = "line"
    /\ buffer[c] # <<>>
    /\ LET line == Head(buffer[c]) IN
          /\ IF pending[c] THEN ContinueAuth(c, line) ELSE Handle(c, line)
          /\ injected' = [injected EXCEPT ![c] = @ \/ (tls[c] /\ line.plain)]
    /\ buffer' = [buffer EXCEPT ![c] = Tail(@)]

-----------------------------------------------------------------------------
(* The authenticator's answer *)

FailuresForgiven(c, answer) == IF answer = "invalid" THEN failures[c] + 1 ELSE 0

CountFailures(c, answer) ==
    CASE answer = "success"   -> 0
      [] answer = "invalid"   -> failures[c] + 1
      [] answer = "temporary" -> failures[c]

Verified(c) ==
    /\ stage[c] = "verify"
    /\ \E answer \in {"success", "invalid", "temporary"} :
          /\ IF answer = "success"
             THEN \E u \in Users : user' = [user EXCEPT ![c] = u]
             ELSE UNCHANGED user
          /\ failures' = [failures EXCEPT ![c] = CountFailures(c, answer)]
          /\ refused' = IF answer = "invalid" THEN [refused EXCEPT ![c] = @ + 1] ELSE refused
          /\ stage' = [stage EXCEPT ![c] =
                          IF failures'[c] >= MaxAuthFailures THEN "closed" ELSE "line"]
    /\ UNCHANGED <<session, pending, exposed, handing, tls, buffer, injected>>

-----------------------------------------------------------------------------
(* STARTTLS: the loop ends and its buffer with it; after the handshake a   *)
(* new loop starts on the encrypted stream.                                *)

BufferKept(c) == buffer[c]

BufferAfterUpgrade(c) == <<>>

Upgrade(c) ==
    /\ stage[c] = "upgrade"
    /\ tls' = [tls EXCEPT ![c] = TRUE]
    /\ stage' = [stage EXCEPT ![c] = "line"]
    /\ buffer' = [buffer EXCEPT ![c] = BufferAfterUpgrade(c)]
    /\ failures' = [failures EXCEPT ![c] = 0]
    /\ UNCHANGED <<session, user, pending, exposed, refused, handing, injected>>

-----------------------------------------------------------------------------
(* The DATA phase, finish_data, and the sink *)

\* Back to "greeted": discard_data and the start of finish_data.
Taken(c) ==
    /\ from' = [from EXCEPT ![c] = Nobody]
    /\ rcpts' = [rcpts EXCEPT ![c] = {}]
    /\ phase' = [phase EXCEPT ![c] = "greeted"]
    /\ UNCHANGED esmtp

Discard(c) ==
    /\ stage[c] = "data"
    /\ Taken(c)
    /\ slots' = slots \ {c}
    /\ stage' = [stage EXCEPT ![c] = "line"]
    /\ UNCHANGED <<auth, message, queued, acked, tls, buffer, injected>>

FinishData(c) ==
    /\ stage[c] = "data"
    /\ message' = [message EXCEPT ![c] = [from |-> from[c], rcpts |-> rcpts[c],
                                          user |-> user[c], secured |-> tls[c]]]
    /\ Taken(c)
    /\ queued' = [queued EXCEPT ![c] = FALSE]
    /\ acked' = [acked EXCEPT ![c] = FALSE]
    /\ stage' = [stage EXCEPT ![c] = "sink"]
    /\ UNCHANGED <<auth, slots, tls, buffer, injected>>

\* QueueSink::handle up to the write of the queue file, which decides.
SinkAccept(c) ==
    /\ stage[c] = "sink"
    /\ queued' = [queued EXCEPT ![c] = TRUE]
    /\ stage' = [stage EXCEPT ![c] = "reply"]
    /\ UNCHANGED <<session, auth, message, slots, acked, tls, buffer, injected>>

SinkRejectsSilently(c) ==
    /\ stage' = [stage EXCEPT ![c] = "line"]
    /\ acked' = [acked EXCEPT ![c] = TRUE]

SinkRejects(c) ==
    /\ stage' = [stage EXCEPT ![c] = "line"]
    /\ UNCHANGED acked

SinkReject(c) ==
    /\ stage[c] = "sink"
    /\ SinkRejects(c)
    /\ slots' = slots \ {c}
    /\ UNCHANGED <<session, auth, message, queued, tls, buffer, injected>>

Acknowledge(c) ==
    /\ stage[c] = "reply"
    /\ acked' = [acked EXCEPT ![c] = TRUE]
    /\ slots' = slots \ {c}
    /\ stage' = [stage EXCEPT ![c] = "line"]
    /\ UNCHANGED <<session, auth, message, queued, tls, buffer, injected>>

\* The peer hangs up, a read times out, a line is too long or ends in a bare
\* line feed, an I/O error, a failed handshake, the session deadline: the
\* loop's future is dropped where it stands, and its data slot with it.
HangUp(c) ==
    /\ stage[c] # "closed"
    /\ stage' = [stage EXCEPT ![c] = "closed"]
    /\ slots' = slots \ {c}
    /\ UNCHANGED <<session, auth, message, queued, acked, tls, buffer, injected>>

Step(c) == \/ Line(c) \/ Verified(c) \/ Upgrade(c) \/ Discard(c) \/ FinishData(c)
           \/ SinkAccept(c) \/ SinkReject(c) \/ Acknowledge(c) \/ HangUp(c)

Next == \E c \in Conns : Step(c) \/ \E command \in Commands : Send(c, command)

Spec == Init /\ [][Next]_vars
-----------------------------------------------------------------------------
(* Properties *)

\* Type invariant: the fields of Session and of the loop hold what their
\* Rust types allow.
TypeOK ==
    /\ phase \in [Conns -> {"connected", "greeted", "mail"}]
    /\ esmtp \in [Conns -> BOOLEAN]
    /\ from \in [Conns -> Senders \cup {Nobody}]
    /\ rcpts \in [Conns -> SUBSET Rcpts]
    /\ user \in [Conns -> Users \cup {Nobody}]
    /\ pending \in [Conns -> BOOLEAN]
    /\ tls \in [Conns -> BOOLEAN]
    /\ stage \in [Conns -> {"line", "verify", "data", "sink", "reply", "upgrade", "closed"}]
    /\ buffer \in [Conns -> Seq(Lines)]
    /\ failures \in [Conns -> Nat]
    /\ message \in [Conns -> Messages]
    /\ slots \subseteq Conns
    /\ injected \in [Conns -> BOOLEAN] /\ exposed \in [Conns -> BOOLEAN]
    /\ refused \in [Conns -> Nat]
    /\ queued \in [Conns -> BOOLEAN] /\ acked \in [Conns -> BOOLEAN]

\* No open relay: a message that reaches the queue goes to a managed domain
\* or to the configured postmaster, unless the client has authenticated,
\* whatever commands came in whatever order (rcpt, RelayPolicy::evaluate).
NoOpenRelay ==
    \A c \in Conns : message[c].user = Nobody =>
        message[c].rcpts \subseteq Managed \cup {Postmaster[c]}

\* On a submission port the sender of an authenticated client is its own,
\* and a port that requires authentication queues nothing without it: no
\* AUTH comes between MAIL and DATA (mail, auth, sender_owned_by).
SenderBound ==
    \A c \in Conns : message[c] # NoMessage =>
        /\ Port[c].require => message[c].user # Nobody
        /\ (Submission(c) /\ message[c].user # Nobody)
              => <<message[c].user, message[c].from>> \in Owns

\* No line that arrived before the encryption is obeyed after it, however
\* early it was sent (drive's buffer ends with STARTTLS).
NothingInjected == \A c \in Conns : ~injected[c]

\* Credentials are taken from encrypted lines only (auth, continue_auth).
CredentialsSecret == \A c \in Conns : ~exposed[c]

\* A connection gets at most MAX_CONSECUTIVE_AUTH_FAILURES guesses in all:
\* trouble of the backend in between gives none back, and after a success
\* there is no further AUTH (drive, auth).
GuessesBounded == \A c \in Conns : refused[c] <= MaxAuthFailures

\* The memory budget counts exactly the connections in their DATA phase and
\* is never exceeded; every way out of the phase gives the slot back.
DataBudgetKept ==
    /\ slots = {c \in Conns : stage[c] \in {"data", "sink", "reply"}}
    /\ Cardinality(slots) <= DataBudget

\* 250 to DATA means that the message is in the queue.
AckedIsQueued == \A c \in Conns : acked[c] => queued[c]

\* The encrypted session starts from nothing: no greeting, transaction,
\* identity or half an AUTH from before the upgrade (start_tls).
UpgradeStartsFresh ==
    [][\A c \in Conns : (tls'[c] /\ ~tls[c]) =>
          /\ phase'[c] = "connected" /\ ~esmtp'[c]
          /\ from'[c] = Nobody /\ rcpts'[c] = {}
          /\ user'[c] = Nobody /\ ~pending'[c] /\ failures'[c] = 0]_vars
=============================================================================
