------------------------- MODULE SmtpSessionProofs -------------------------
(***************************************************************************)
(* What an SMTP session guarantees for every number of connections, every  *)
(* assignment of port roles, every set of users, senders and recipients,   *)
(* every ownership of senders and every limit.                             *)
(***************************************************************************)
EXTENDS SmtpSession, TLAPS, FiniteSetTheorems

(* The transaction that MAIL opens: who may have opened it and what it has *)
(* collected.  An identity never arrives while one is open.                *)
Bound(c, u, s) ==
    /\ Port[c].require => u # Nobody
    /\ (Submission(c) /\ u # Nobody) => <<u, s>> \in Owns

Transaction(c) ==
    /\ phase[c] = "mail" <=> from[c] # Nobody
    /\ from[c] = Nobody => rcpts[c] = {}
    /\ stage[c] = "data" => from[c] # Nobody
    /\ user[c] = Nobody => rcpts[c] \subseteq Managed \cup {Postmaster[c]}
    /\ from[c] # Nobody => Bound(c, user[c], from[c])

(* Between the challenge and the answer no transaction is open; nothing of *)
(* AUTH happens before the encryption, so the upgrade has nothing to       *)
(* forget; failures counts every refusal until there is an identity.       *)
Identity(c) ==
    /\ (pending[c] \/ stage[c] = "verify") => from[c] = Nobody /\ user[c] = Nobody /\ tls[c]
    /\ pending[c] => stage[c] \in {"line", "closed"}
    /\ stage[c] = "upgrade" => ~tls[c] /\ phase[c] = "connected" /\ ~esmtp[c] /\ from[c] = Nobody
    /\ ~tls[c] => user[c] = Nobody /\ refused[c] = 0
    /\ user[c] = Nobody => refused[c] = failures[c]
    /\ (user[c] = Nobody /\ stage[c] # "closed") => refused[c] < MaxAuthFailures
    /\ refused[c] <= MaxAuthFailures

(* Under TLS the buffer holds encrypted lines only. *)
Channel(c) ==
    /\ tls[c] => \A i \in 1..Len(buffer[c]) : ~buffer[c][i].plain
    /\ ~injected[c] /\ ~exposed[c]

(* What was handed to the sink keeps what the transaction had. *)
Handed(c) ==
    /\ message[c].user = Nobody => message[c].rcpts \subseteq Managed \cup {Postmaster[c]}
    /\ message[c] # NoMessage => Bound(c, message[c].user, message[c].from)
    /\ acked[c] => queued[c]
    /\ stage[c] = "reply" => queued[c]

Budget ==
    /\ slots = {c \in Conns : stage[c] \in {"data", "sink", "reply"}}
    /\ IsFiniteSet(slots) /\ Cardinality(slots) <= DataBudget

Sessions == \A c \in Conns : Transaction(c) /\ Identity(c) /\ Channel(c) /\ Handed(c)

Inv == TypeOK /\ Sessions /\ Budget

-----------------------------------------------------------------------------
LEMMA InitInv == Init => Inv
  <1> SUFFICES ASSUME Init PROVE Inv
    OBVIOUS
  <1>1. NoMessage \in Messages
    BY DEF NoMessage, Messages
  <1>2. TypeOK
    BY <1>1, PortTyped DEF Init, TypeOK
  <1>3. Sessions
    <2> SUFFICES ASSUME NEW c \in Conns
                 PROVE  Transaction(c) /\ Identity(c) /\ Channel(c) /\ Handed(c)
      BY DEF Sessions
    <2>1. Transaction(c)
      BY DEF Init, Transaction
    <2>2. Identity(c)
      BY LimitsTyped DEF Init, Identity
    <2>3. Channel(c)
      BY DEF Init, Channel
    <2>4. Handed(c)
      BY DEF Init, Handed, NoMessage
    <2> QED
      BY <2>1, <2>2, <2>3, <2>4
  <1>4. slots = {} /\ Budget
    BY FS_EmptySet, LimitsTyped DEF Init, Budget
  <1> QED
    BY <1>2, <1>3, <1>4 DEF Inv

(* The facts about one connection survive a step of another. *)
Same(c) ==
    /\ phase'[c] = phase[c] /\ esmtp'[c] = esmtp[c] /\ from'[c] = from[c] /\ rcpts'[c] = rcpts[c]
    /\ user'[c] = user[c] /\ pending'[c] = pending[c] /\ tls'[c] = tls[c] /\ stage'[c] = stage[c]
    /\ buffer'[c] = buffer[c] /\ failures'[c] = failures[c] /\ message'[c] = message[c]
    /\ injected'[c] = injected[c] /\ exposed'[c] = exposed[c] /\ refused'[c] = refused[c]
    /\ queued'[c] = queued[c] /\ acked'[c] = acked[c]

LEMMA OthersKept ==
  ASSUME NEW c \in Conns, Same(c), Transaction(c), Identity(c), Channel(c), Handed(c)
  PROVE  Transaction(c)' /\ Identity(c)' /\ Channel(c)' /\ Handed(c)'
  <1>1. Transaction(c)'
    BY DEF Same, Transaction, Bound
  <1>2. Identity(c)'
    BY DEF Same, Identity
  <1>3. Channel(c)'
    BY DEF Same, Channel
  <1>4. Handed(c)'
    BY DEF Same, Handed, Bound
  <1> QED
    BY <1>1, <1>2, <1>3, <1>4

(* A step of c that keeps the facts about c keeps Sessions. *)
LEMMA OneMoves ==
  ASSUME Sessions, NEW c \in Conns, \A d \in Conns \ {c} : Same(d),
         Transaction(c)', Identity(c)', Channel(c)', Handed(c)'
  PROVE  Sessions'
  <1> SUFFICES ASSUME NEW d \in Conns
               PROVE  Transaction(d)' /\ Identity(d)' /\ Channel(d)' /\ Handed(d)'
    BY DEF Sessions
  <1>1. CASE d = c
    BY <1>1
  <1>2. CASE d # c
    BY <1>2, OthersKept DEF Sessions
  <1> QED
    BY <1>1, <1>2

-----------------------------------------------------------------------------
LEMMA BudgetKept ==
  ASSUME TypeOK, Budget, UNCHANGED slots, NEW c \in Conns, NEW s,
         stage' = [stage EXCEPT ![c] = s],
         stage[c] \in {"data", "sink", "reply"} <=> s \in {"data", "sink", "reply"}
  PROVE  Budget'
  BY DEF TypeOK, Budget

LEMMA BudgetGivenBack ==
  ASSUME TypeOK, Budget, NEW c \in Conns, NEW s, s \notin {"data", "sink", "reply"},
         stage' = [stage EXCEPT ![c] = s], slots' = slots \ {c}
  PROVE  Budget'
  <1>1. IsFiniteSet(slots') /\ Cardinality(slots') <= Cardinality(slots)
    BY FS_Subset DEF Budget
  <1>2. Cardinality(slots) \in Nat /\ Cardinality(slots') \in Nat
    BY <1>1, FS_CardinalityType DEF Budget
  <1> QED
    BY <1>1, <1>2, LimitsTyped DEF TypeOK, Budget

LEMMA BudgetTaken ==
  ASSUME TypeOK, Budget, NEW c \in Conns, stage[c] = "line", Cardinality(slots) < DataBudget,
         stage' = [stage EXCEPT ![c] = "data"], slots' = slots \cup {c}
  PROVE  Budget'
  <1>1. c \notin slots /\ Cardinality(slots) \in Nat
    BY FS_CardinalityType DEF Budget
  <1>2. IsFiniteSet(slots') /\ Cardinality(slots') = Cardinality(slots) + 1
    BY <1>1, FS_AddElement DEF Budget
  <1> QED
    BY <1>1, <1>2, LimitsTyped DEF TypeOK, Budget

LEMMA BudgetUntouched == ASSUME Budget, UNCHANGED <<slots, stage>> PROVE Budget'
  BY DEF Budget

-----------------------------------------------------------------------------
(* The client's lines *)

LEMMA SendStep ==
  ASSUME Inv, NEW c \in Conns, NEW command \in Commands, Send(c, command)
  PROVE  Inv'
  <1> DEFINE new == [command |-> command, plain |-> ~tls[c]]
  <1>a. new \in Lines
    BY DEF Inv, TypeOK, Lines
  <1>b. buffer[c] \in Seq(Lines) /\ buffer' = [buffer EXCEPT ![c] = Append(buffer[c], new)]
    BY DEF Inv, TypeOK, Send
  <1>c. Append(buffer[c], new) \in Seq(Lines)
    BY <1>a, <1>b
  <1>1. TypeOK'
    BY <1>b, <1>c DEF Inv, TypeOK, Send, session, auth, handing
  <1>2. \A d \in Conns \ {c} : Same(d)
    BY DEF Inv, TypeOK, Same, Send, Lines, session, auth, handing
  <1> USE DEF Inv, Sessions, TypeOK
  <1>3. Transaction(c)'
    BY DEF Transaction, Identity, Bound, Send, Lines, session, auth, handing
  <1>4. Identity(c)'
    BY LimitsTyped DEF Transaction, Identity, Send, Lines, session, auth, handing
  <1>5. Channel(c)'
    <2>1. ASSUME tls[c], NEW i \in 1..Len(Append(buffer[c], new)) PROVE ~Append(buffer[c], new)[i].plain
      BY <1>a, <1>b, <2>1 DEF Channel
    <2>2. buffer'[c] = Append(buffer[c], new)
      BY <1>b
    <2> HIDE DEF new
    <2> QED
      BY <2>1, <2>2 DEF Channel, Send, session, auth
  <1>6. Handed(c)'
    BY DEF Transaction, Handed, Bound, Send, Lines, session, auth, handing
  <1>7. Budget'
    BY BudgetUntouched DEF Send, Lines, session, auth, handing
  <1> QED
    BY <1>1, <1>2, <1>3, <1>4, <1>5, <1>6, <1>7, OneMoves DEF Inv
-----------------------------------------------------------------------------
(* The steps of the connection loop other than a line *)

LEMMA VerifiedStep ==
  ASSUME Inv, NEW c \in Conns, Verified(c)
  PROVE  Inv'
  <1>0. PICK answer \in {"success", "invalid", "temporary"} :
          /\ IF answer = "success"
             THEN \E u \in Users : user' = [user EXCEPT ![c] = u]
             ELSE UNCHANGED user
          /\ failures' = [failures EXCEPT ![c] = CountFailures(c, answer)]
          /\ refused' = IF answer = "invalid" THEN [refused EXCEPT ![c] = @ + 1] ELSE refused
          /\ stage' = [stage EXCEPT ![c] =
                          IF failures'[c] >= MaxAuthFailures THEN "closed" ELSE "line"]
    BY DEF Verified
  <1>a. CountFailures(c, answer) \in Nat
    BY DEF Inv, TypeOK, CountFailures
  <1>b. refused' \in [Conns -> Nat]
    BY <1>0 DEF Inv, TypeOK
  <1>d. user' \in [Conns -> Users \cup {Nobody}]
    BY <1>0 DEF Inv, TypeOK
  <1>c. failures' \in [Conns -> Nat]
    BY <1>0, <1>a DEF Inv, TypeOK
  <1>1. TypeOK'
    BY <1>0, <1>b, <1>c, <1>d DEF Inv, TypeOK, Verified, session, handing
  <1>2. \A d \in Conns \ {c} : Same(d)
    BY DEF Inv, TypeOK, Same, Verified, CountFailures, session, handing
  <1> USE DEF Inv, Sessions, TypeOK
  <1>3. Transaction(c)'
    BY DEF Transaction, Identity, Bound, Verified, CountFailures, session, handing
  <1>4. Identity(c)'
    <2>0. stage[c] = "verify" /\ user[c] = Nobody /\ refused[c] = failures[c] /\ tls[c]
          /\ from[c] = Nobody /\ ~pending[c] /\ refused[c] < MaxAuthFailures
          /\ refused[c] \in Nat /\ MaxAuthFailures \in Nat
      BY LimitsTyped DEF Verified, Identity
    <2>1. UNCHANGED <<from, phase, esmtp, tls, pending>>
      BY DEF Verified, session
    <2>2. CASE answer = "success"
      BY <1>0, <2>0, <2>1, <2>2, SetsTyped DEF Identity, CountFailures
    <2>3. CASE answer = "invalid"
      BY <1>0, <2>0, <2>1, <2>3, SetsTyped DEF Identity, CountFailures
    <2>4. CASE answer = "temporary"
      BY <1>0, <2>0, <2>1, <2>4, SetsTyped DEF Identity, CountFailures
    <2> QED
      BY <2>2, <2>3, <2>4
  <1>5. Channel(c)'
    BY DEF Identity, Channel, Verified, CountFailures, session, handing
  <1>6. Handed(c)'
    BY DEF Transaction, Handed, Bound, Verified, CountFailures, session, handing
  <1>7. Budget'
    BY BudgetKept DEF Verified, CountFailures, session, handing
  <1> QED
    BY <1>1, <1>2, <1>3, <1>4, <1>5, <1>6, <1>7, OneMoves DEF Inv

LEMMA UpgradeStep ==
  ASSUME Inv, NEW c \in Conns, Upgrade(c)
  PROVE  Inv'
  <1>1. TypeOK'
    BY DEF Inv, TypeOK, Upgrade, BufferAfterUpgrade, session, handing
  <1>2. \A d \in Conns \ {c} : Same(d)
    BY DEF Inv, TypeOK, Same, Upgrade, BufferAfterUpgrade, session, handing
  <1> USE DEF Inv, Sessions, TypeOK
  <1>3. Transaction(c)'
    BY DEF Transaction, Identity, Bound, Upgrade, BufferAfterUpgrade, session, handing
  <1>4. Identity(c)'
    BY LimitsTyped DEF Transaction, Identity, Upgrade, BufferAfterUpgrade, session, handing
  <1>5. Channel(c)'
    BY DEF Identity, Channel, Upgrade, BufferAfterUpgrade, session, handing
  <1>6. Handed(c)'
    BY DEF Transaction, Handed, Bound, Upgrade, BufferAfterUpgrade, session, handing
  <1>7. Budget'
    BY BudgetKept DEF Upgrade, BufferAfterUpgrade, session, handing
  <1> QED
    BY <1>1, <1>2, <1>3, <1>4, <1>5, <1>6, <1>7, OneMoves DEF Inv

LEMMA DiscardStep ==
  ASSUME Inv, NEW c \in Conns, Discard(c)
  PROVE  Inv'
  <1>1. TypeOK'
    BY DEF Inv, TypeOK, Discard, Taken, auth
  <1>2. \A d \in Conns \ {c} : Same(d)
    BY DEF Inv, TypeOK, Same, Discard, Taken, auth
  <1> USE DEF Inv, Sessions, TypeOK
  <1>3. Transaction(c)'
    BY DEF Transaction, Identity, Bound, Discard, Taken, auth
  <1>4. Identity(c)'
    BY LimitsTyped DEF Transaction, Identity, Discard, Taken, auth
  <1>5. Channel(c)'
    BY DEF Identity, Channel, Discard, Taken, auth
  <1>6. Handed(c)'
    BY DEF Transaction, Handed, Bound, Discard, Taken, auth
  <1>7. Budget'
    BY BudgetGivenBack DEF Discard, Taken, auth
  <1> QED
    BY <1>1, <1>2, <1>3, <1>4, <1>5, <1>6, <1>7, OneMoves DEF Inv

LEMMA FinishDataStep ==
  ASSUME Inv, NEW c \in Conns, FinishData(c)
  PROVE  Inv'
  <1>1. TypeOK'
    BY DEF Inv, TypeOK, FinishData, Taken, auth, Messages
  <1>2. \A d \in Conns \ {c} : Same(d)
    BY DEF Inv, TypeOK, Same, FinishData, Taken, auth, Messages
  <1> USE DEF Inv, Sessions, TypeOK
  <1>3. Transaction(c)'
    BY DEF Transaction, Identity, Bound, FinishData, Taken, auth, Messages
  <1>4. Identity(c)'
    BY LimitsTyped DEF Transaction, Identity, FinishData, Taken, auth, Messages
  <1>5. Channel(c)'
    BY DEF Identity, Channel, FinishData, Taken, auth, Messages
  <1>6. Handed(c)'
    BY DEF Transaction, Handed, Bound, FinishData, Taken, auth, Messages
  <1>7. Budget'
    BY BudgetKept DEF FinishData, Taken, auth, Messages
  <1> QED
    BY <1>1, <1>2, <1>3, <1>4, <1>5, <1>6, <1>7, OneMoves DEF Inv

LEMMA SinkAcceptStep ==
  ASSUME Inv, NEW c \in Conns, SinkAccept(c)
  PROVE  Inv'
  <1>1. TypeOK'
    BY DEF Inv, TypeOK, SinkAccept, session, auth
  <1>2. \A d \in Conns \ {c} : Same(d)
    BY DEF Inv, TypeOK, Same, SinkAccept, session, auth
  <1> USE DEF Inv, Sessions, TypeOK
  <1>3. Transaction(c)'
    BY DEF Transaction, Identity, Bound, SinkAccept, session, auth
  <1>4. Identity(c)'
    BY LimitsTyped DEF Transaction, Identity, SinkAccept, session, auth
  <1>5. Channel(c)'
    BY DEF Identity, Channel, SinkAccept, session, auth
  <1>6. Handed(c)'
    BY DEF Transaction, Handed, Bound, SinkAccept, session, auth
  <1>7. Budget'
    BY BudgetKept DEF SinkAccept, session, auth
  <1> QED
    BY <1>1, <1>2, <1>3, <1>4, <1>5, <1>6, <1>7, OneMoves DEF Inv

LEMMA SinkRejectStep ==
  ASSUME Inv, NEW c \in Conns, SinkReject(c)
  PROVE  Inv'
  <1>1. TypeOK'
    BY DEF Inv, TypeOK, SinkReject, SinkRejects, session, auth
  <1>2. \A d \in Conns \ {c} : Same(d)
    BY DEF Inv, TypeOK, Same, SinkReject, SinkRejects, session, auth
  <1> USE DEF Inv, Sessions, TypeOK
  <1>3. Transaction(c)'
    BY DEF Transaction, Identity, Bound, SinkReject, SinkRejects, session, auth
  <1>4. Identity(c)'
    BY LimitsTyped DEF Transaction, Identity, SinkReject, SinkRejects, session, auth
  <1>5. Channel(c)'
    BY DEF Identity, Channel, SinkReject, SinkRejects, session, auth
  <1>6. Handed(c)'
    BY DEF Transaction, Handed, Bound, SinkReject, SinkRejects, session, auth
  <1>7. Budget'
    BY BudgetGivenBack DEF SinkReject, SinkRejects, session, auth
  <1> QED
    BY <1>1, <1>2, <1>3, <1>4, <1>5, <1>6, <1>7, OneMoves DEF Inv

LEMMA AcknowledgeStep ==
  ASSUME Inv, NEW c \in Conns, Acknowledge(c)
  PROVE  Inv'
  <1>1. TypeOK'
    BY DEF Inv, TypeOK, Acknowledge, session, auth
  <1>2. \A d \in Conns \ {c} : Same(d)
    BY DEF Inv, TypeOK, Same, Acknowledge, session, auth
  <1> USE DEF Inv, Sessions, TypeOK
  <1>3. Transaction(c)'
    BY DEF Transaction, Identity, Bound, Acknowledge, session, auth
  <1>4. Identity(c)'
    BY LimitsTyped DEF Transaction, Identity, Acknowledge, session, auth
  <1>5. Channel(c)'
    BY DEF Identity, Channel, Acknowledge, session, auth
  <1>6. Handed(c)'
    BY DEF Transaction, Handed, Bound, Acknowledge, session, auth
  <1>7. Budget'
    BY BudgetGivenBack DEF Acknowledge, session, auth
  <1> QED
    BY <1>1, <1>2, <1>3, <1>4, <1>5, <1>6, <1>7, OneMoves DEF Inv

LEMMA HangUpStep ==
  ASSUME Inv, NEW c \in Conns, HangUp(c)
  PROVE  Inv'
  <1>1. TypeOK'
    BY DEF Inv, TypeOK, HangUp, session, auth
  <1>2. \A d \in Conns \ {c} : Same(d)
    BY DEF Inv, TypeOK, Same, HangUp, session, auth
  <1> USE DEF Inv, Sessions, TypeOK
  <1>3. Transaction(c)'
    BY DEF Transaction, Identity, Bound, HangUp, session, auth
  <1>4. Identity(c)'
    BY LimitsTyped DEF Transaction, Identity, HangUp, session, auth
  <1>5. Channel(c)'
    BY DEF Identity, Channel, HangUp, session, auth
  <1>6. Handed(c)'
    BY DEF Transaction, Handed, Bound, HangUp, session, auth
  <1>7. Budget'
    BY BudgetGivenBack DEF HangUp, session, auth
  <1> QED
    BY <1>1, <1>2, <1>3, <1>4, <1>5, <1>6, <1>7, OneMoves DEF Inv

-----------------------------------------------------------------------------
(* A line leaves the buffer *)

LineTaken(c) ==
    /\ stage[c] = "line" /\ buffer[c] # <<>>
    /\ injected' = [injected EXCEPT ![c] = @ \/ (tls[c] /\ Head(buffer[c]).plain)]
    /\ buffer' = [buffer EXCEPT ![c] = Tail(@)]

LEMMA LineTaken_Typed ==
  ASSUME TypeOK, NEW c \in Conns, LineTaken(c)
  PROVE  /\ Head(buffer[c]) \in Lines
         /\ buffer' \in [Conns -> Seq(Lines)]
         /\ injected' \in [Conns -> BOOLEAN]
  <1>1. buffer[c] \in Seq(Lines) /\ buffer[c] # <<>>
    BY DEF TypeOK, LineTaken
  <1>2. Head(buffer[c]) \in Lines /\ Tail(buffer[c]) \in Seq(Lines)
    BY <1>1
  <1>3. Head(buffer[c]).plain \in BOOLEAN
    BY <1>2 DEF Lines
  <1> QED
    BY <1>2, <1>3 DEF TypeOK, LineTaken

LEMMA LineTaken_Channel ==
  ASSUME TypeOK, NEW c \in Conns, Channel(c), LineTaken(c), UNCHANGED tls, ~exposed'[c]
  PROVE  Channel(c)'
  <1>1. buffer[c] \in Seq(Lines) /\ buffer[c] # <<>>
    BY DEF TypeOK, LineTaken
  <1>2. Head(buffer[c]) = buffer[c][1] /\ 1 \in 1..Len(buffer[c])
    BY <1>1
  <1>3. ~injected'[c]
    BY <1>2 DEF TypeOK, LineTaken, Channel
  <1>4. ASSUME tls[c], NEW i \in 1..Len(Tail(buffer[c])) PROVE ~Tail(buffer[c])[i].plain
    <2>1. Tail(buffer[c])[i] = buffer[c][i + 1] /\ i + 1 \in 1..Len(buffer[c])
      BY <1>1
    <2> QED
      BY <1>4, <2>1 DEF Channel
  <1>5. buffer'[c] = Tail(buffer[c])
    BY DEF TypeOK, LineTaken
  <1> QED
    BY <1>3, <1>4, <1>5 DEF Channel

LEMMA ReplyStep ==
  ASSUME Inv, NEW c \in Conns, LineTaken(c), Reply(c)
  PROVE  Inv'
  <1>1. TypeOK'
    BY LineTaken_Typed DEF Inv, TypeOK, Reply, session, auth, handing
  <1>2. \A d \in Conns \ {c} : Same(d)
    BY DEF Inv, TypeOK, LineTaken, Same, Reply, session, auth, handing
  <1> USE DEF Inv, Sessions, TypeOK
  <1>3. Transaction(c)'
    BY DEF LineTaken, Transaction, Identity, Bound, Reply, session, auth, handing
  <1>4. Identity(c)'
    BY DEF LineTaken, Transaction, Identity, Reply, session, auth, handing
  <1>5. Channel(c)'
    <2>1. UNCHANGED tls /\ ~exposed'[c]
      BY DEF Channel, Identity, LineTaken, Reply, session, auth, handing
    <2> QED
      BY <2>1, LineTaken_Channel
  <1>6. Handed(c)'
    BY DEF LineTaken, Handed, Bound, Reply, session, auth, handing
  <1>7. Budget'
    BY BudgetUntouched DEF LineTaken, Reply, session, auth, handing
  <1> QED
    BY <1>1, <1>2, <1>3, <1>4, <1>5, <1>6, <1>7, OneMoves DEF Inv

LEMMA HelloStep ==
  ASSUME Inv, NEW c \in Conns, LineTaken(c), NEW extended \in BOOLEAN, Hello(c, extended)
  PROVE  Inv'
  <1>1. TypeOK'
    BY LineTaken_Typed DEF Inv, TypeOK, Hello, Stay, auth, handing
  <1>2. \A d \in Conns \ {c} : Same(d)
    BY DEF Inv, TypeOK, LineTaken, Same, Hello, Stay, auth, handing
  <1> USE DEF Inv, Sessions, TypeOK
  <1>3. Transaction(c)'
    BY DEF LineTaken, Transaction, Identity, Bound, Hello, Stay, auth, handing
  <1>4. Identity(c)'
    BY DEF LineTaken, Transaction, Identity, Hello, Stay, auth, handing
  <1>5. Channel(c)'
    <2>1. UNCHANGED tls /\ ~exposed'[c]
      BY DEF Channel, Identity, LineTaken, Hello, Stay, auth, handing
    <2> QED
      BY <2>1, LineTaken_Channel
  <1>6. Handed(c)'
    BY DEF LineTaken, Handed, Bound, Hello, Stay, auth, handing
  <1>7. Budget'
    BY BudgetUntouched DEF LineTaken, Hello, Stay, auth, handing
  <1> QED
    BY <1>1, <1>2, <1>3, <1>4, <1>5, <1>6, <1>7, OneMoves DEF Inv

(* What an accepted MAIL does. *)
Opened(c, s) ==
    /\ from' = [from EXCEPT ![c] = s]
    /\ rcpts' = [rcpts EXCEPT ![c] = {}]
    /\ phase' = [phase EXCEPT ![c] = "mail"]
    /\ UNCHANGED esmtp
    /\ Stay(c)

LEMMA MailStep ==
  ASSUME Inv, NEW c \in Conns, LineTaken(c), ~pending[c], NEW s \in Senders,
         MailAllowed(c, s), Opened(c, s)
  PROVE  Inv'
  <1>1. TypeOK'
    BY LineTaken_Typed DEF Inv, TypeOK, Opened, Stay, auth, handing
  <1>2. \A d \in Conns \ {c} : Same(d)
    BY DEF Inv, TypeOK, LineTaken, Same, Opened, Stay, auth, handing
  <1> USE DEF Inv, Sessions, TypeOK
  <1>3. Transaction(c)'
    BY SetsTyped DEF MailAllowed, LineTaken, Transaction, Identity, Bound, Opened, Stay, auth, handing
  <1>4. Identity(c)'
    BY SetsTyped DEF LineTaken, MailAllowed, Transaction, Identity, Opened, Stay, auth, handing
  <1>5. Channel(c)'
    <2>1. UNCHANGED tls /\ ~exposed'[c]
      BY DEF Channel, Identity, LineTaken, Opened, Stay, auth, handing
    <2> QED
      BY <2>1, LineTaken_Channel
  <1>6. Handed(c)'
    BY DEF LineTaken, Handed, Bound, Opened, Stay, auth, handing
  <1>7. Budget'
    BY BudgetUntouched DEF LineTaken, Opened, Stay, auth, handing
  <1> QED
    BY <1>1, <1>2, <1>3, <1>4, <1>5, <1>6, <1>7, OneMoves DEF Inv

LEMMA AcceptStep ==
  ASSUME Inv, NEW r \in Rcpts, NEW c \in Conns, LineTaken(c), phase[c] = "mail", AcceptRecipient(c, r),
         user[c] = Nobody => r \in Managed \cup {Postmaster[c]}
  PROVE  Inv'
  <1>1. TypeOK'
    BY LineTaken_Typed DEF Inv, TypeOK, AcceptRecipient, Stay, auth, handing
  <1>2. \A d \in Conns \ {c} : Same(d)
    BY DEF Inv, TypeOK, LineTaken, Same, AcceptRecipient, Stay, auth, handing
  <1> USE DEF Inv, Sessions, TypeOK
  <1>3. Transaction(c)'
    BY DEF LineTaken, Transaction, Identity, Bound, AcceptRecipient, Stay, auth, handing
  <1>4. Identity(c)'
    BY DEF LineTaken, Transaction, Identity, AcceptRecipient, Stay, auth, handing
  <1>5. Channel(c)'
    <2>1. UNCHANGED tls /\ ~exposed'[c]
      BY DEF Channel, Identity, LineTaken, AcceptRecipient, Stay, auth, handing
    <2> QED
      BY <2>1, LineTaken_Channel
  <1>6. Handed(c)'
    BY DEF LineTaken, Handed, Bound, AcceptRecipient, Stay, auth, handing
  <1>7. Budget'
    BY BudgetUntouched DEF LineTaken, AcceptRecipient, Stay, auth, handing
  <1> QED
    BY <1>1, <1>2, <1>3, <1>4, <1>5, <1>6, <1>7, OneMoves DEF Inv

LEMMA DataStep ==
  ASSUME Inv, NEW c \in Conns, LineTaken(c), ~pending[c], phase[c] = "mail", Cardinality(slots) < DataBudget,
         slots' = slots \cup {c}, stage' = [stage EXCEPT ![c] = "data"],
         UNCHANGED <<session, tls, auth, message, queued, acked>>
  PROVE  Inv'
  <1>1. TypeOK'
    BY LineTaken_Typed DEF Inv, TypeOK, session, auth
  <1>2. \A d \in Conns \ {c} : Same(d)
    BY DEF Inv, TypeOK, LineTaken, Same, session, auth
  <1> USE DEF Inv, Sessions, TypeOK
  <1>3. Transaction(c)'
    BY DEF LineTaken, Transaction, Identity, Bound, session, auth
  <1>4. Identity(c)'
    BY DEF LineTaken, Transaction, Identity, session, auth
  <1>5. Channel(c)'
    <2>1. UNCHANGED tls /\ ~exposed'[c]
      BY DEF Channel, Identity, LineTaken, session, auth
    <2> QED
      BY <2>1, LineTaken_Channel
  <1>6. Handed(c)'
    BY DEF LineTaken, Handed, Bound, session, auth
  <1>7. Budget'
    BY BudgetTaken DEF LineTaken, session, auth
  <1> QED
    BY <1>1, <1>2, <1>3, <1>4, <1>5, <1>6, <1>7, OneMoves DEF Inv

(* What an accepted STARTTLS does. *)
Upgrading(c) ==
    /\ from' = [from EXCEPT ![c] = Nobody]
    /\ rcpts' = [rcpts EXCEPT ![c] = {}]
    /\ phase' = [phase EXCEPT ![c] = "connected"]
    /\ esmtp' = [esmtp EXCEPT ![c] = FALSE]
    /\ stage' = [stage EXCEPT ![c] = "upgrade"]
    /\ UNCHANGED <<tls, auth, handing>>

LEMMA StartTlsStep ==
  ASSUME Inv, NEW c \in Conns, LineTaken(c), ~pending[c], ~tls[c], from[c] = Nobody, Upgrading(c)
  PROVE  Inv'
  <1>1. TypeOK'
    BY LineTaken_Typed DEF Inv, TypeOK, Upgrading, auth, handing
  <1>2. \A d \in Conns \ {c} : Same(d)
    BY DEF Inv, TypeOK, LineTaken, Same, Upgrading, auth, handing
  <1> USE DEF Inv, Sessions, TypeOK
  <1>3. Transaction(c)'
    BY DEF LineTaken, Transaction, Identity, Bound, Upgrading, auth, handing
  <1>4. Identity(c)'
    BY DEF LineTaken, Transaction, Identity, Upgrading, auth, handing
  <1>5. Channel(c)'
    <2>1. UNCHANGED tls /\ ~exposed'[c]
      BY DEF Channel, Identity, LineTaken, Upgrading, auth, handing
    <2> QED
      BY <2>1, LineTaken_Channel
  <1>6. Handed(c)'
    BY DEF LineTaken, Handed, Bound, Upgrading, auth, handing
  <1>7. Budget'
    BY BudgetKept DEF LineTaken, Upgrading, auth, handing
  <1> QED
    BY <1>1, <1>2, <1>3, <1>4, <1>5, <1>6, <1>7, OneMoves DEF Inv

LEMMA AuthStep ==
  ASSUME Inv, NEW c \in Conns, LineTaken(c), ~pending[c], AuthAllowed(c),
         Auth(c, Head(buffer[c]))
  PROVE  Inv'
  <1>a. \/ stage' = stage /\ pending' = [pending EXCEPT ![c] = TRUE]
        \/ stage' = [stage EXCEPT ![c] = "verify"] /\ pending' = pending
        \/ stage' = stage /\ pending' = pending
    BY Zenon DEF Auth, Verify
  <1>1. TypeOK'
    BY LineTaken_Typed DEF Inv, TypeOK, Auth, AuthAllowed, Verify, session, handing
  <1>2. \A d \in Conns \ {c} : Same(d)
    BY DEF Inv, TypeOK, LineTaken, Same, Auth, AuthAllowed, Verify, session, handing
  <1> USE DEF Inv, Sessions, TypeOK
  <1>3. Transaction(c)'
    BY DEF LineTaken, Transaction, Identity, Bound, Auth, AuthAllowed, Verify, session, handing
  <1>4. Identity(c)'
    <2>1. tls[c] /\ from[c] = Nobody /\ user[c] = Nobody /\ stage[c] = "line"
      BY DEF LineTaken, AuthAllowed
    <2>2. UNCHANGED <<tls, from, user, phase, esmtp, refused, failures>>
      BY DEF Auth, session
    <2> QED
      BY <1>a, <2>1, <2>2, LimitsTyped DEF Identity
  <1>5. Channel(c)'
    <2>1. UNCHANGED tls /\ ~exposed'[c]
      BY DEF Channel, Identity, LineTaken, Auth, AuthAllowed, Verify, session, handing
    <2> QED
      BY <2>1, LineTaken_Channel
  <1>6. Handed(c)'
    BY DEF LineTaken, Handed, Bound, Auth, AuthAllowed, Verify, session, handing
  <1>7. Budget'
    <2>1. stage[c] = "line" /\ UNCHANGED slots
      BY DEF LineTaken, Auth, handing
    <2>2. CASE stage' = stage
      BY <2>1, <2>2, BudgetUntouched
    <2>3. CASE stage' = [stage EXCEPT ![c] = "verify"]
      BY <2>1, <2>3, BudgetKept
    <2> QED
      BY <1>a, <2>2, <2>3
  <1> QED
    BY <1>1, <1>2, <1>3, <1>4, <1>5, <1>6, <1>7, OneMoves DEF Inv

LEMMA ContinueAuthStep ==
  ASSUME Inv, NEW c \in Conns, LineTaken(c), pending[c], ContinueAuth(c, Head(buffer[c]))
  PROVE  Inv'
  <1>1. TypeOK'
    BY LineTaken_Typed DEF Inv, TypeOK, ContinueAuth, Verify, session, handing
  <1>2. \A d \in Conns \ {c} : Same(d)
    BY DEF Inv, TypeOK, LineTaken, Same, ContinueAuth, Verify, session, handing
  <1> USE DEF Inv, Sessions, TypeOK
  <1>3. Transaction(c)'
    BY DEF LineTaken, Transaction, Identity, Bound, ContinueAuth, Verify, session, handing
  <1>4. Identity(c)'
    BY DEF LineTaken, Transaction, Identity, ContinueAuth, Verify, session, handing
  <1>5. Channel(c)'
    <2>1. UNCHANGED tls /\ ~exposed'[c]
      BY DEF Channel, Identity, LineTaken, ContinueAuth, Verify, session, handing
    <2> QED
      BY <2>1, LineTaken_Channel
  <1>6. Handed(c)'
    BY DEF LineTaken, Handed, Bound, ContinueAuth, Verify, session, handing
  <1>7. Budget'
    BY BudgetKept, BudgetUntouched DEF LineTaken, ContinueAuth, Verify, session, handing
  <1> QED
    BY <1>1, <1>2, <1>3, <1>4, <1>5, <1>6, <1>7, OneMoves DEF Inv

LEMMA RsetStep ==
  ASSUME Inv, NEW c \in Conns, LineTaken(c), Rset(c)
  PROVE  Inv'
  <1>1. TypeOK'
    BY LineTaken_Typed DEF Inv, TypeOK, Rset, Reset, Stay, auth, handing
  <1>2. \A d \in Conns \ {c} : Same(d)
    BY DEF Inv, TypeOK, LineTaken, Same, Rset, Reset, Stay, auth, handing
  <1> USE DEF Inv, Sessions, TypeOK
  <1>3. Transaction(c)'
    BY DEF LineTaken, Transaction, Identity, Bound, Rset, Reset, Stay, auth, handing
  <1>4. Identity(c)'
    BY DEF LineTaken, Transaction, Identity, Rset, Reset, Stay, auth, handing
  <1>5. Channel(c)'
    <2>1. UNCHANGED tls /\ ~exposed'[c]
      BY DEF Channel, Identity, LineTaken, Rset, Reset, Stay, auth, handing
    <2> QED
      BY <2>1, LineTaken_Channel
  <1>6. Handed(c)'
    BY DEF LineTaken, Handed, Bound, Rset, Reset, Stay, auth, handing
  <1>7. Budget'
    BY BudgetUntouched DEF LineTaken, Rset, Reset, Stay, auth, handing
  <1> QED
    BY <1>1, <1>2, <1>3, <1>4, <1>5, <1>6, <1>7, OneMoves DEF Inv

LEMMA QuitStep ==
  ASSUME Inv, NEW c \in Conns, LineTaken(c), Quit(c)
  PROVE  Inv'
  <1>1. TypeOK'
    BY LineTaken_Typed DEF Inv, TypeOK, Quit, Reset, auth, handing
  <1>2. \A d \in Conns \ {c} : Same(d)
    BY DEF Inv, TypeOK, LineTaken, Same, Quit, Reset, auth, handing
  <1> USE DEF Inv, Sessions, TypeOK
  <1>3. Transaction(c)'
    BY DEF LineTaken, Transaction, Identity, Bound, Quit, Reset, auth, handing
  <1>4. Identity(c)'
    BY DEF LineTaken, Transaction, Identity, Quit, Reset, auth, handing
  <1>5. Channel(c)'
    <2>1. UNCHANGED tls /\ ~exposed'[c]
      BY DEF Channel, Identity, LineTaken, Quit, Reset, auth, handing
    <2> QED
      BY <2>1, LineTaken_Channel
  <1>6. Handed(c)'
    BY DEF LineTaken, Handed, Bound, Quit, Reset, auth, handing
  <1>7. Budget'
    BY BudgetKept DEF LineTaken, Quit, Reset, auth, handing
  <1> QED
    BY <1>1, <1>2, <1>3, <1>4, <1>5, <1>6, <1>7, OneMoves DEF Inv

-----------------------------------------------------------------------------
(* Session::handle and the whole next-state relation *)

LEMMA HandleStep ==
  ASSUME Inv, NEW c \in Conns, LineTaken(c), ~pending[c], Handle(c, Head(buffer[c]))
  PROVE  Inv'
  <1> DEFINE line == Head(buffer[c])
  <1>1. line \in Lines
    BY LineTaken_Typed DEF Inv
  <1>2. CASE line.command.cmd = "EHLO" /\ Hello(c, TRUE)
    BY <1>2, HelloStep
  <1>3. CASE line.command.cmd = "HELO" /\ Hello(c, FALSE)
    BY <1>3, HelloStep
  <1>4. CASE line.command.cmd = "MAIL" /\ Mail(c, line.command.arg)
    <2>1. line.command.arg \in Senders
      BY <1>1, <1>4 DEF Lines, Commands
    <2>2. CASE MailAllowed(c, line.command.arg)
      <3>1. Opened(c, line.command.arg)
        BY <1>4, <2>2 DEF Mail, Opened
      <3> QED
        BY <2>1, <2>2, <3>1, MailStep
    <2>3. CASE ~MailAllowed(c, line.command.arg)
      BY <1>4, <2>3, ReplyStep DEF Mail
    <2> QED
      BY <2>2, <2>3
  <1>5. CASE line.command.cmd = "RCPT" /\ Rcpt(c, line.command.arg)
    <2> DEFINE r == line.command.arg
    <2>1. r \in Rcpts
      BY <1>1, <1>5 DEF Lines, Commands
    <2> HIDE DEF line, r
    <2>2. \/ Reply(c)
          \/ /\ phase[c] = "mail" /\ Postmaster[c] # Nobody
             /\ AcceptRecipient(c, Postmaster[c])
          \/ /\ phase[c] = "mail" /\ TRUE \in Relay(c, r)
             /\ AcceptRecipient(c, r)
      BY <1>5 DEF Rcpt, r
    <2>3. TRUE \in Relay(c, r) => (user[c] = Nobody => r \in Managed)
      BY DEF Relay
    <2> QED
      BY <2>1, <2>2, <2>3, ReplyStep, AcceptStep, SetsTyped
  <1>6. CASE line.command.cmd = "DATA" /\ Data(c)
    <2>1. CASE phase[c] = "mail" /\ rcpts[c] # {} /\ Cardinality(slots) < DataBudget
      <3>1. /\ slots' = slots \cup {c}
            /\ stage' = [stage EXCEPT ![c] = "data"]
            /\ UNCHANGED <<session, tls, auth, message, queued, acked>>
        BY <1>6, <2>1 DEF Data
      <3> QED
        BY <2>1, <3>1, DataStep
    <2>2. CASE ~(phase[c] = "mail" /\ rcpts[c] # {} /\ Cardinality(slots) < DataBudget)
      BY <1>6, <2>2, ReplyStep DEF Data
    <2> QED
      BY <2>1, <2>2
  <1>7. CASE line.command.cmd = "RSET" /\ Rset(c)
    BY <1>7, RsetStep
  <1>8. CASE line.command.cmd = "STARTTLS" /\ StartTls(c)
    <2>1. CASE ~tls[c] /\ Port[c].starttls /\ from[c] = Nobody
      <3>1. Upgrading(c)
        BY <1>8, <2>1 DEF StartTls, Upgrading
      <3> QED
        BY <2>1, <3>1, StartTlsStep
    <2>2. CASE ~(~tls[c] /\ Port[c].starttls /\ from[c] = Nobody)
      BY <1>8, <2>2, ReplyStep DEF StartTls
    <2> QED
      BY <2>1, <2>2
  <1>9. CASE line.command.cmd \in {"AUTH", "AUTH+"} /\ Auth(c, line)
    <2>1. CASE AuthAllowed(c)
      BY <1>9, <2>1, AuthStep
    <2>2. CASE ~AuthAllowed(c)
      BY <1>9, <2>2, ReplyStep DEF Auth
    <2> QED
      BY <2>1, <2>2
  <1>10. CASE line.command.cmd = "QUIT" /\ Quit(c)
    BY <1>10, QuitStep
  <1>11. CASE line.command.cmd = "NOOP" /\ Reply(c)
    BY <1>11, ReplyStep
  <1> QED
    BY <1>2, <1>3, <1>4, <1>5, <1>6, <1>7, <1>8, <1>9, <1>10, <1>11 DEF Handle

LEMMA InvStep == Inv /\ [Next]_vars => Inv'
  <1> SUFFICES ASSUME Inv, [Next]_vars PROVE Inv'
    OBVIOUS
  <1>1. ASSUME NEW c \in Conns, NEW command \in Commands, Send(c, command) PROVE Inv'
    BY <1>1, SendStep
  <1>2. ASSUME NEW c \in Conns, Line(c) PROVE Inv'
    <2>1. LineTaken(c)
      BY <1>2 DEF Line, LineTaken
    <2>2. CASE pending[c]
      BY <1>2, <2>1, <2>2, ContinueAuthStep DEF Line
    <2>3. CASE ~pending[c]
      BY <1>2, <2>1, <2>3, HandleStep DEF Line
    <2> QED
      BY <2>2, <2>3
  <1>3. ASSUME NEW c \in Conns,
               Verified(c) \/ Upgrade(c) \/ Discard(c) \/ FinishData(c) \/ SinkAccept(c)
                 \/ SinkReject(c) \/ Acknowledge(c) \/ HangUp(c)
        PROVE  Inv'
    BY <1>3, VerifiedStep, UpgradeStep, DiscardStep, FinishDataStep, SinkAcceptStep,
       SinkRejectStep, AcknowledgeStep, HangUpStep
  <1>4. CASE UNCHANGED vars
    BY <1>4 DEF vars, session, auth, handing, Inv, TypeOK, Sessions, Transaction, Identity,
                Channel, Handed, Bound, Budget
  <1> QED
    BY <1>1, <1>2, <1>3, <1>4 DEF Next, Step

LEMMA AlwaysInv == Spec => []Inv
  BY InitInv, InvStep, PTL DEF Spec

-----------------------------------------------------------------------------
(* The fields of every session keep their types. *)
THEOREM SessionTypeCorrect == Spec => []TypeOK
  <1>1. Inv => TypeOK
    BY DEF Inv
  <1> QED
    BY <1>1, AlwaysInv, PTL

(* No sequence of commands of any client turns the server into an open     *)
(* relay (rcpt, RelayPolicy::evaluate, finish_data).                       *)
THEOREM NeverOpenRelay == Spec => []NoOpenRelay
  <1>1. Inv => NoOpenRelay
    BY DEF Inv, Sessions, Handed, NoOpenRelay
  <1> QED
    BY <1>1, AlwaysInv, PTL

(* A message of an authenticated client on a submission port carries a     *)
(* sender of that client, and a port that requires authentication hands    *)
(* over nothing without it (mail, auth, sender_owned_by).                  *)
THEOREM SenderAlwaysBound == Spec => []SenderBound
  <1>1. Inv => SenderBound
    BY DEF Inv, Sessions, Handed, Bound, SenderBound
  <1> QED
    BY <1>1, AlwaysInv, PTL

(* Nothing a client sent in the clear is obeyed after STARTTLS (drive).    *)
THEOREM ClearTextIsInert == Spec => []NothingInjected
  <1>1. Inv => NothingInjected
    BY DEF Inv, Sessions, Channel, NothingInjected
  <1> QED
    BY <1>1, AlwaysInv, PTL

(* No credentials are taken from a line sent in the clear (auth,           *)
(* continue_auth).                                                         *)
THEOREM CredentialsAlwaysSecret == Spec => []CredentialsSecret
  <1>1. Inv => CredentialsSecret
    BY DEF Inv, Sessions, Channel, CredentialsSecret
  <1> QED
    BY <1>1, AlwaysInv, PTL

(* A connection gets at most MAX_CONSECUTIVE_AUTH_FAILURES guesses.        *)
THEOREM GuessesAlwaysBounded == Spec => []GuessesBounded
  <1>1. Inv => GuessesBounded
    BY DEF Inv, Sessions, Identity, GuessesBounded
  <1> QED
    BY <1>1, AlwaysInv, PTL

(* ACTIVE_DATA_BYTES counts the connections in their DATA phase, and no    *)
(* more of them than the budget holds.                                     *)
THEOREM BudgetAlwaysKept == Spec => []DataBudgetKept
  <1>1. Inv => DataBudgetKept
    BY DEF Inv, Budget, DataBudgetKept
  <1> QED
    BY <1>1, AlwaysInv, PTL

(* 250 is answered only for a message that is in the queue. *)
THEOREM AcknowledgedIsQueued == Spec => []AckedIsQueued
  <1>1. Inv => AckedIsQueued
    BY DEF Inv, Sessions, Handed, AckedIsQueued
  <1> QED
    BY <1>1, AlwaysInv, PTL

(* Only the handshake of Upgrade switches the encryption on. *)
LEMMA TlsOnlyByUpgrade ==
  ASSUME NEW c \in Conns, Step(c), ~Upgrade(c) PROVE UNCHANGED tls
  <1>1. ASSUME Line(c) PROVE UNCHANGED tls
    <2>1. ASSUME NEW line, Handle(c, line) PROVE UNCHANGED tls
      <3>1. ASSUME Stay(c) \/ Reply(c) PROVE UNCHANGED tls
        BY <3>1 DEF Stay, Reply
      <3>2. ASSUME NEW r, Rcpt(c, r) PROVE Stay(c) \/ Reply(c)
        BY <3>2 DEF Rcpt, AcceptRecipient
      <3>3. ASSUME NEW s, Mail(c, s) PROVE Stay(c) \/ Reply(c)
        BY <3>3 DEF Mail
      <3>4. ASSUME NEW extended, Hello(c, extended) PROVE Stay(c)
        BY <3>4 DEF Hello
      <3> QED
        BY <2>1, <3>1, <3>2, <3>3, <3>4 DEF Handle, Data, Rset, StartTls, Auth, Quit
    <2>2. ASSUME NEW line, ContinueAuth(c, line) PROVE UNCHANGED tls
      BY <2>2 DEF ContinueAuth
    <2> QED
      BY <1>1, <2>1, <2>2 DEF Line
  <1> QED
    BY <1>1 DEF Step, Verified, Discard, FinishData, SinkAccept, SinkReject, Acknowledge, HangUp

(* The encrypted session inherits nothing from before the upgrade          *)
(* (start_tls).                                                            *)
THEOREM UpgradeAlwaysFresh == Spec => UpgradeStartsFresh
  <1> DEFINE Fresh == \A c \in Conns : (tls'[c] /\ ~tls[c]) =>
                         /\ phase'[c] = "connected" /\ ~esmtp'[c]
                         /\ from'[c] = Nobody /\ rcpts'[c] = {}
                         /\ user'[c] = Nobody /\ ~pending'[c] /\ failures'[c] = 0
  <1>1. Inv /\ [Next]_vars => [Fresh]_vars
    <2> SUFFICES ASSUME Inv, Next PROVE Fresh
      OBVIOUS
    <2>1. CASE UNCHANGED tls
      BY <2>1
    <2>2. ASSUME NEW d \in Conns, Upgrade(d) PROVE Fresh
      BY <2>2 DEF Inv, TypeOK, Sessions, Transaction, Identity, Upgrade, session
    <2>3. ASSUME NEW d \in Conns, NEW command, Send(d, command) PROVE UNCHANGED tls
      BY <2>3 DEF Send
    <2> HIDE DEF Fresh
    <2> QED
      BY <2>1, <2>2, <2>3, TlsOnlyByUpgrade DEF Next
  <1> QED
    BY <1>1, AlwaysInv, PTL DEF Spec, UpgradeStartsFresh
=============================================================================
