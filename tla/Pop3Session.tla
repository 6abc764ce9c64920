---------------------------- MODULE Pop3Session ----------------------------
(***************************************************************************)
(* POP3 sessions on one mailbox (crates/imappop3/src/pop3/session.rs):     *)
(* authorisation, the mailbox lock, the list of messages fixed at login,   *)
(* the deletion marks and the removal at QUIT.  Other programs (IMAP, the  *)
(* LMTP server) add and remove messages of the same INBOX meanwhile.       *)
(***************************************************************************)
EXTENDS Integers, Sequences, FiniteSets, SequencesExt

CONSTANTS
    Pop3Clients,    \* connections
    Users,          \* accounts with a password
    Homeless,       \* those of them the resolver finds no mailbox for
    MaxAuthFailures,
    TlsRequired,    \* config.require_tls
    MaxUid          \* bound: messages ever in the INBOX

VARIABLES
    pop,        \* per connection, the session
    inbox,      \* the UIDs in the INBOX
    nextUid,
    lockedBy,   \* the connection holding .mailstack-pop3.lock, or "nobody"
    claimed,    \* history: the UIDs a session marked and has not unmarked
    gone        \* history: [uid, by, asked] of every removal, asked: it was marked then

vars == <<pop, inbox, nextUid, lockedBy, claimed, gone>>

Nobody == "nobody"
NewSession(secured) ==
    [state |-> "authorization", user |-> Nobody, failures |-> 0, secured |-> secured,
     messages |-> <<>>, deleted |-> {}, reply |-> "+OK"]

Init ==
    /\ pop \in [Pop3Clients -> {NewSession(FALSE), NewSession(TRUE)}]
    /\ inbox = {1, 2} /\ nextUid = 3
    /\ lockedBy = Nobody
    /\ claimed = [c \in Pop3Clients |-> {}] /\ gone = {}

Reply(c, r) == pop' = [pop EXCEPT ![c].reply = r]
Quiet == UNCHANGED <<inbox, nextUid, lockedBy, claimed, gone>>

-----------------------------------------------------------------------------
(* Authorisation *)

User(c, u) ==
    /\ pop[c].state = "authorization"
    /\ pop' = [pop EXCEPT ![c].user = u, ![c].reply = "+OK"]
    /\ Quiet

MayPass(c) == TlsRequired => pop[c].secured

\* acquire_mailbox_lock: an advisory lock taken without waiting.
AcquireMailboxLock(c) == lockedBy = Nobody /\ lockedBy' = c

\* enter_transaction: the lock first, then the messages; the password was
\* right, but the session stays where it is when either fails.
EnterTransaction(c) ==
    \/ /\ AcquireMailboxLock(c)
       /\ pop' = [pop EXCEPT ![c].state = "transaction", ![c].deleted = {}, ![c].reply = "+OK",
                             ![c].messages = SetToSortSeq(inbox, <)]
    \/ lockedBy # Nobody /\ Reply(c, "[IN-USE]") /\ UNCHANGED lockedBy
    \/ Reply(c, "internal error") /\ UNCHANGED lockedBy

PassAccepted(c) ==
    /\ pop[c].state = "authorization" /\ pop[c].user \in Users /\ MayPass(c)
    /\ IF pop[c].user \in Homeless THEN Reply(c, "not provisioned") /\ UNCHANGED lockedBy
       ELSE EnterTransaction(c)
    /\ UNCHANGED <<inbox, nextUid, claimed, gone>>

PassRefused(c) ==
    /\ pop[c].state = "authorization" /\ pop[c].user # Nobody /\ MayPass(c)
    /\ \/ Reply(c, "[SYS/TEMP]")
       \/ pop' = [pop EXCEPT ![c].failures = @ + 1, ![c].reply = "[AUTH]",
                             ![c].state = IF pop[c].failures + 1 >= MaxAuthFailures
                                          THEN "closed" ELSE @]
    /\ Quiet

Stls(c) ==
    /\ pop[c].state = "authorization" /\ ~pop[c].secured
    /\ pop' = [pop EXCEPT ![c] = NewSession(TRUE)]
    /\ Quiet

-----------------------------------------------------------------------------
(* Transaction *)

\* The list was made at login and its numbers never change.
LookupMessage(c, n) ==
    /\ pop[c].state = "transaction"
    /\ n \in 1..Len(pop[c].messages) \ pop[c].deleted

\* STAT, LIST and UIDL answer from the list, whatever happened on disk.
Statistics(c) ==
    /\ pop[c].state = "transaction"
    /\ Reply(c, "+OK") /\ Quiet

Retr(c, n) ==
    /\ LookupMessage(c, n)
    /\ Reply(c, IF pop[c].messages[n] \in inbox THEN "+OK" ELSE "unavailable")
    /\ Quiet

Dele(c, n) ==
    /\ LookupMessage(c, n)
    /\ pop' = [pop EXCEPT ![c].deleted = @ \cup {n}, ![c].reply = "+OK"]
    /\ claimed' = [claimed EXCEPT ![c] = @ \cup {pop[c].messages[n]}]
    /\ UNCHANGED <<inbox, nextUid, lockedBy, gone>>

Rset(c) ==
    /\ pop[c].state \in {"authorization", "transaction"}
    /\ pop' = IF pop[c].state = "transaction"
              THEN [pop EXCEPT ![c].deleted = {}, ![c].reply = "+OK"]
              ELSE [pop EXCEPT ![c].user = Nobody, ![c].reply = "+OK"]
    /\ claimed' = [claimed EXCEPT ![c] = {}]
    /\ UNCHANGED <<inbox, nextUid, lockedBy, gone>>

\* By position instead of by the UID remembered at login.
MarkedByPosition(c) ==
    LET present == SetToSortSeq(inbox, <)
    IN {present[n] : n \in {m \in pop[c].deleted : m <= Len(present)}}

\* What QUIT removes: the UIDs remembered under the marked numbers.
Marked(c) == {pop[c].messages[n] : n \in pop[c].deleted}

Hangs(c) ==
    /\ pop' = [pop EXCEPT ![c] = [NewSession(FALSE) EXCEPT !.state = "closed"]]
    /\ lockedBy' = IF lockedBy = c THEN Nobody ELSE lockedBy

\* A UID that is no longer there is skipped by the store.
Quit(c) ==
    /\ pop[c].state \in {"authorization", "transaction"}
    /\ inbox' = inbox \ Marked(c)
    /\ gone' = gone \cup {[uid |-> u, by |-> c, asked |-> u \in claimed[c]] : u \in inbox \cap Marked(c)}
    /\ Hangs(c)
    /\ claimed' = claimed /\ UNCHANGED nextUid

\* The expunge stops part way: the session goes on with its marks, and a
\* later QUIT tries again.
QuitFails(c, done) ==
    /\ pop[c].state = "transaction" /\ Marked(c) # {}
    /\ done \subseteq inbox \cap Marked(c)
    /\ inbox' = inbox \ done
    /\ gone' = gone \cup {[uid |-> u, by |-> c, asked |-> u \in claimed[c]] : u \in done}
    /\ Reply(c, "[SYS/TEMP]")
    /\ UNCHANGED <<nextUid, lockedBy, claimed>>

\* End of input, a protocol error or the idle timeout: nothing is removed.
Closed(c) ==
    /\ pop[c].state # "closed"
    /\ Hangs(c)
    /\ claimed' = [claimed EXCEPT ![c] = {}]
    /\ UNCHANGED <<inbox, nextUid, gone>>

-----------------------------------------------------------------------------
(* The rest of the system *)

Delivered ==
    /\ nextUid <= MaxUid
    /\ inbox' = inbox \cup {nextUid} /\ nextUid' = nextUid + 1
    /\ UNCHANGED <<pop, lockedBy, claimed, gone>>

ExpungedElsewhere(u) ==
    /\ u \in inbox
    /\ inbox' = inbox \ {u}
    /\ gone' = gone \cup {[uid |-> u, by |-> Nobody, asked |-> FALSE]}
    /\ UNCHANGED <<pop, nextUid, lockedBy, claimed>>

Next ==
    \/ \E c \in Pop3Clients :
        \/ \E u \in Users : User(c, u)
        \/ PassAccepted(c) \/ PassRefused(c) \/ Stls(c)
        \/ Statistics(c) \/ \E n \in 1..MaxUid : Retr(c, n) \/ Dele(c, n)
        \/ Rset(c) \/ Quit(c) \/ Closed(c)
        \/ \E done \in SUBSET inbox : QuitFails(c, done)
    \/ Delivered \/ \E u \in inbox : ExpungedElsewhere(u)

Spec == Init /\ [][Next]_vars

\* Assumed of the constants: the name for "no connection" is not a connection's.
Pop3Constants == Nobody \notin Pop3Clients

-----------------------------------------------------------------------------
(* Properties *)

\* A message leaves through POP3 only when the very session that removes it
\* marked it with DELE and did not take the mark back, whatever arrived or
\* was expunged between the login that numbered the messages and the QUIT.
RemovedOnlyIfMarked == \A g \in gone : g.by # Nobody => g.asked

\* The mailbox has at most one session in the TRANSACTION state, the one
\* that holds the lock.
OneTransaction == \A c \in Pop3Clients : pop[c].state = "transaction" <=> lockedBy = c
=============================================================================
