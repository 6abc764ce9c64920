--------------------------- MODULE RemoteDelivery ---------------------------
(***************************************************************************)
(* One delivery attempt to remote servers: SmtpRemoteTransport             *)
(* (crates/queue/src/delivery.rs) with the MX lookup, address policy,      *)
(* dialer and SMTP client of crates/smtp.                                  *)
(*                                                                         *)
(* The recipients are grouped by domain; for a domain the mail exchangers  *)
(* are tried in order until one settles the matter.  Every reply of a      *)
(* server is positive, 4xx or 5xx, or does not come at all: the            *)
(* connection broke, or the session's time is up.                          *)
(***************************************************************************)
EXTENDS Integers, Sequences, FiniteSets, SequencesExt

CONSTANTS
    Domains,            \* a sequence of recipient domains, in the order of the grouping
    Recipients,         \* for each domain, the sequence of its recipients
    Hosts,              \* mail exchangers: natural numbers, 0 stands for the null MX
    Prefs,              \* MX preferences
    MaxMx,              \* MAX_MX_CANDIDATES
    Addresses,          \* what a host name resolves to: "public", "private" or "none"
    AllowPrivate

VARIABLES
    route,              \* "direct", or "relay" with STARTTLS, or "relay465" with implicit TLS
    credentials,        \* whether the relay wants a login
    at,                 \* where the attempt is
    domain,             \* the group being delivered (index in Domains)
    targets,            \* the hosts still to be tried for it
    tls, caps,          \* of the present connection
    rcpts,              \* recipients still to be named in this transaction
    named,              \* recipients the server accepted in it
    soft, hard,         \* whether a recipient of it was refused with 4xx, with 5xx
    last,               \* class of the last failure in this domain
    accepted,           \* recipients reported as delivered
    failures,           \* one failure per domain that failed
    verdict,            \* the answer to the queue
    holders,            \* servers that took over the message, per recipient
    lostReply,          \* the reply to a complete message was lost
    softened,           \* recipients whose last answer was 4xx
    exposed             \* the password went over a connection without TLS

deliveryVars == <<route, credentials, at, domain, targets, tls, caps, rcpts, named, soft, hard, last,
                  accepted, failures, verdict, holders, lostReply, softened, exposed>>
transaction == <<rcpts, named, soft, hard>>
outcome == <<accepted, failures, verdict>>
truth == <<holders, lostReply, softened, exposed>>
setting == <<route, credentials>>

Everyone == UNION {Range(Recipients[d]) : d \in Range(Domains)}
\* Over a relay the recipients of all domains go in one transaction.
Group == IF route = "direct" THEN Recipients[Domains[domain]] ELSE FlattenSeq([i \in DOMAIN Domains |-> Recipients[Domains[i]]])
NoCaps == [starttls |-> FALSE, auth |-> FALSE]

DeliveryInit ==
    /\ route \in {"direct", "relay", "relay465"} /\ credentials \in BOOLEAN
    /\ at = "resolve" /\ domain = 1 /\ targets = <<>>
    /\ tls = FALSE /\ caps = NoCaps
    /\ rcpts = <<>> /\ named = <<>> /\ soft = FALSE /\ hard = FALSE /\ last = "none"
    /\ accepted = {} /\ failures = <<>> /\ verdict = "none"
    /\ holders = [r \in Everyone |-> {}] /\ lostReply = FALSE /\ softened = {} /\ exposed = FALSE

-----------------------------------------------------------------------------
(* The end of a group, and of the attempt.                                 *)

\* deliver_direct: one failure speaks for itself; several are transient if any is.
Merged(fs) == IF \E i \in DOMAIN fs : fs[i] = "transient" THEN "transient" ELSE "permanent"

\* The group is over: delivered to acc, and failed unless class is "none".
GroupOver(acc, class) ==
    LET fs == IF class = "none" THEN failures ELSE Append(failures, class)
        more == route = "direct" /\ domain < Len(Domains)
    IN /\ accepted' = accepted \cup acc
       /\ failures' = fs
       /\ IF more THEN domain' = domain + 1 /\ at' = "resolve" /\ UNCHANGED verdict
          ELSE /\ at' = "done" /\ UNCHANGED domain
               /\ verdict' = IF fs = <<>> THEN "delivered" ELSE Merged(fs)
       /\ targets' = <<>> /\ last' = "none"

\* Trying the next exchanger for everybody after a partial delivery.
TriesNextAnyway(class, acc) == class = "transient" /\ targets # <<>>

\* A next exchanger is tried only after a failure that is transient and total.
TriesNext(class, acc) == class = "transient" /\ acc = {} /\ targets # <<>>

\* deliver_one is over with a failure.
OneFailed(class, acc) ==
    /\ IF TriesNext(class, acc)
       THEN at' = "connect" /\ last' = class /\ UNCHANGED <<domain, targets, outcome>>
       ELSE GroupOver(acc, class)
    /\ tls' = FALSE /\ caps' = NoCaps
    /\ rcpts' = <<>> /\ named' = <<>> /\ soft' = FALSE /\ hard' = FALSE

Refused(reply) == IF reply = "hard" THEN "permanent" ELSE "transient"

-----------------------------------------------------------------------------
(* Finding the servers.                                                    *)

\* classify_mx: a null record refuses; a host counts once, with its best preference;
\* by preference and then by name.
Best(records, h) == CHOOSE p \in {r.pref : r \in {x \in records : x.host = h}} :
                        \A r \in records : r.host = h => p <= r.pref
Before(records, g, h) == Best(records, g) < Best(records, h) \/ (Best(records, g) = Best(records, h) /\ g < h)
Ordered(records) == SetToSortSeq({r.host : r \in records}, LAMBDA g, h : Before(records, g, h))
Candidates(records) == SubSeq(Ordered(records), 1, IF Cardinality({r.host : r \in records}) < MaxMx
                                                   THEN Cardinality({r.host : r \in records}) ELSE MaxMx)

\* AddressPolicy::accepts.
Acceptable(a) == a = "public" \/ (a = "private" /\ AllowPrivate)

\* resolve_mx_targets: hosts that do not resolve, or only to addresses that are not
\* allowed, are passed over; with none left, the last error is the answer.
ResolveMx ==
    /\ at = "resolve" /\ route = "direct"
    /\ UNCHANGED <<setting, tls, caps, transaction, truth>>
    /\ \/ \* the lookup itself fails
          GroupOver({}, "transient")
       \/ \E records \in SUBSET [host : Hosts, pref : Prefs], found \in [Hosts \cup {99} -> Addresses] :
             /\ Cardinality(records) <= 2
             /\ LET hosts == IF records = {} THEN <<99>> ELSE Candidates(records)
                    usable == SelectSeq(hosts, LAMBDA h : Acceptable(found[h]))
                IN IF \E r \in records : r.host = 0 THEN GroupOver({}, "permanent")
                   ELSE IF usable = <<>>
                   THEN GroupOver({}, IF found[Last(hosts)] = "none" THEN "transient" ELSE "permanent")
                   ELSE at' = "connect" /\ targets' = usable /\ UNCHANGED <<domain, last, outcome>>

\* The relay's name: resolve_pinned.
ResolveRelay ==
    /\ at = "resolve" /\ route # "direct"
    /\ UNCHANGED <<setting, tls, caps, transaction, truth>>
    /\ \E a \in Addresses :
          IF Acceptable(a) THEN at' = "connect" /\ targets' = <<1>> /\ UNCHANGED <<domain, last, outcome>>
          ELSE GroupOver({}, IF a = "none" THEN "transient" ELSE "permanent")

-----------------------------------------------------------------------------
(* A connection.                                                           *)

Stays == UNCHANGED <<setting, domain, targets, last, outcome, truth>>

\* PinnedDialer: every address is dialled within the time; implicit TLS comes first.
\* The greeting is read, whatever its code.
Connect ==
    /\ at = "connect"
    /\ \/ /\ at' = "ehlo" /\ tls' = (route = "relay465")
          /\ targets' = Tail(targets)
          /\ UNCHANGED <<setting, domain, last, caps, transaction, outcome, truth>>
       \/ \* no address answers, the handshake fails, no greeting
          LET rest == Tail(targets)
          IN /\ IF rest # <<>> THEN targets' = rest /\ last' = "transient" /\ UNCHANGED <<at, domain, outcome>>
                ELSE GroupOver({}, "transient")
             /\ UNCHANGED <<setting, tls, caps, transaction, truth>>

\* The second EHLO follows a STARTTLS.  What it offers replaces the first.
Ehlo(reply, offer) ==
    /\ at = "ehlo"
    /\ IF reply # "ok" THEN OneFailed(Refused(reply), {}) /\ UNCHANGED <<setting, truth>>
       ELSE /\ caps' = offer
            /\ at' = IF route = "relay" /\ ~tls THEN "starttls"
                     ELSE IF route # "direct" /\ credentials THEN "auth" ELSE "mail"
            /\ UNCHANGED <<tls, transaction>> /\ Stays

\* A client that goes on in the clear when STARTTLS is not offered.
StartTlsIfOffered(reply) ==
    /\ at = "starttls"
    /\ IF ~caps.starttls
       THEN at' = (IF credentials THEN "auth" ELSE "mail") /\ UNCHANGED <<tls, caps, transaction>> /\ Stays
       ELSE IF reply # "ok" THEN OneFailed("transient", {}) /\ UNCHANGED <<setting, truth>>
       ELSE tls' = TRUE /\ at' = "ehlo" /\ UNCHANGED <<caps, transaction>> /\ Stays

\* A relay without STARTTLS gets nothing.
StartTls(reply) ==
    /\ at = "starttls"
    /\ IF ~caps.starttls THEN OneFailed("permanent", {}) /\ UNCHANGED <<setting, truth>>
       ELSE IF reply # "ok" THEN OneFailed("transient", {}) /\ UNCHANGED <<setting, truth>>
       ELSE tls' = TRUE /\ at' = "ehlo" /\ UNCHANGED <<caps, transaction>> /\ Stays

\* authenticate: a relay that offers no AUTH is an error that stays; one that offers
\* no mechanism the client knows, or breaks off, may do better later.
Authenticate(reply) ==
    /\ at = "auth"
    /\ exposed' = (exposed \/ (caps.auth /\ ~tls))
    /\ IF ~caps.auth THEN OneFailed("permanent", {}) /\ UNCHANGED <<setting, holders, lostReply, softened>>
       ELSE IF reply # "ok" THEN OneFailed(Refused(reply), {}) /\ UNCHANGED <<setting, holders, lostReply, softened>>
       ELSE /\ at' = "mail"
            /\ UNCHANGED <<setting, domain, targets, last, outcome, holders, lostReply, softened, tls, caps, transaction>>

-----------------------------------------------------------------------------
(* The transaction: send_message_detailed.                                 *)

MailFrom(reply) ==
    /\ at = "mail"
    /\ IF reply # "ok" THEN OneFailed(Refused(reply), {}) /\ UNCHANGED <<setting, truth>>
       ELSE at' = "rcpt" /\ rcpts' = Group /\ UNCHANGED <<tls, caps, named, soft, hard>> /\ Stays

RcptTo(reply) ==
    /\ at = "rcpt" /\ rcpts # <<>>
    /\ LET r == Head(rcpts)
       IN /\ softened' = IF reply = "soft" THEN softened \cup {r}
                         ELSE IF reply = "lost" THEN softened ELSE softened \ {r}
          /\ IF reply = "lost" THEN OneFailed("transient", {})
             ELSE /\ rcpts' = Tail(rcpts)
                  /\ named' = IF reply = "ok" THEN Append(named, r) ELSE named
                  /\ soft' = (soft \/ reply = "soft") /\ hard' = (hard \/ reply = "hard")
                  /\ UNCHANGED <<at, domain, targets, last, tls, caps, outcome>>
    /\ UNCHANGED <<setting, holders, lostReply, exposed>>

\* Nobody was accepted: 4xx if anybody was refused so.
RcptOver ==
    /\ at = "rcpt" /\ rcpts = <<>>
    /\ IF named = <<>> THEN OneFailed(IF soft THEN "transient" ELSE "permanent", {}) /\ UNCHANGED <<setting, truth>>
       ELSE at' = "data" /\ UNCHANGED <<tls, caps, transaction>> /\ Stays

Data(reply) ==
    /\ at = "data"
    /\ IF reply # "ok" THEN OneFailed(Refused(reply), {}) /\ UNCHANGED <<setting, truth>>
       ELSE at' = "body" /\ UNCHANGED <<tls, caps, transaction>> /\ Stays

\* The reply to the message, or none; then the server may have taken it all the same.
\* The server takes the message for the recipients it accepted.
Taken == [r \in Everyone |-> IF r \in Range(named) THEN holders[r] \cup {<<domain, Len(targets)>>} ELSE holders[r]]

Body(reply, took) ==
    /\ at = "body" /\ (reply = "ok" => took) /\ (reply \in {"soft", "hard"} => ~took)
    /\ holders' = IF took THEN Taken ELSE holders
    /\ lostReply' = (lostReply \/ (reply = "lost" /\ took))
    /\ IF reply # "ok" THEN OneFailed(Refused(reply), {})
       ELSE IF ~soft /\ ~hard
       THEN /\ GroupOver(Range(Group), "none")
            /\ tls' = FALSE /\ caps' = NoCaps /\ rcpts' = <<>> /\ named' = <<>> /\ soft' = FALSE /\ hard' = FALSE
       ELSE OneFailed(IF soft THEN "transient" ELSE "permanent", Range(named))
    /\ UNCHANGED <<setting, softened, exposed>>

Replies == {"ok", "soft", "hard", "lost"}
DeliveryNext ==
    \/ ResolveMx \/ ResolveRelay \/ Connect \/ RcptOver
    \/ \E reply \in Replies :
          \/ \E offer \in [starttls : BOOLEAN, auth : BOOLEAN] : Ehlo(reply, offer)
          \/ StartTls(reply) \/ Authenticate(reply) \/ MailFrom(reply) \/ RcptTo(reply) \/ Data(reply)
          \/ \E took \in BOOLEAN : Body(reply, took)

Spec == DeliveryInit /\ [][DeliveryNext]_deliveryVars

\* Assumed of the constants: the recipients come grouped by domain, each in one
\* group (group_by_domain of crates/queue/src/delivery.rs); what a relay is given is
\* everyone.
InGroup(i) == Range(Recipients[Domains[i]])
DeliveryConstants ==
    /\ Len(Domains) \in Nat \ {0} /\ DOMAIN Domains = 1 .. Len(Domains)
    /\ \A i \in DOMAIN Domains : Recipients[Domains[i]] \in Seq(InGroup(i))
    /\ \A i, j \in DOMAIN Domains : i # j => InGroup(i) \cap InGroup(j) = {}
    /\ LET all == FlattenSeq([i \in DOMAIN Domains |-> Recipients[Domains[i]]])
       IN  all \in Seq(Everyone) /\ Range(all) = Everyone

-----------------------------------------------------------------------------
\* What the queue is told is true: a recipient reported as delivered was taken over
\* by a server, and unless the reply to a whole message was lost, by one server only
\* and nobody else was: the retry that follows neither drops nor repeats a message.
ReportTrue ==
    /\ \A r \in accepted : holders[r] # {}
    /\ verdict = "delivered" => accepted = Everyone
    /\ (~lostReply /\ at = "done") => \A r \in Everyone : Cardinality(holders[r]) = (IF r \in accepted THEN 1 ELSE 0)

\* The relay's password never crosses a connection without TLS.
NeverInClear == ~exposed

\* Both: the report to the queue is true, and no password was given away for it.
DeliveryTrue == ReportTrue /\ NeverInClear

\* docs/TEST_REPORT.md:89: a recipient answered with 4xx is retried, not bounced.
TransientRetried == verdict = "permanent" => softened \subseteq accepted
=============================================================================
