------------------------------ MODULE Accounts ------------------------------
(***************************************************************************)
(* Mailbox accounts: the privileged operations users.add, users.delete,    *)
(* users.status and users.password (crates/priv/src/users.rs), the file of *)
(* protocol passwords they keep beside the system's (mailbox_passwords.rs) *)
(* and the webmail logins and sessions that depend on both                 *)
(* (crates/webmail: account.rs, session.rs, http/auth.rs, http/handlers.rs).*)
(*                                                                         *)
(* The privileged helper serves each connection in a task of its own, so   *)
(* several operations run at once.  An operation is a chain of external    *)
(* commands and file writes; only the two registry files are written under *)
(* one lock.  Any command or write may fail, and what follows then is the  *)
(* code's own roll-back.                                                   *)
(***************************************************************************)
EXTENDS Naturals

CONSTANTS
    Users, Emails,      \* system user names, and mailbox addresses
    LocalPart,          \* the part of an address before its "@"
    Passwords,
    Operators,          \* operations the helper may have under way at once
    Browsers,           \* webmail clients
    MaxRequests,        \* bound on operations in a behaviour
    MaxTicks,           \* bound on the clock
    MaxFaults           \* bound on failing commands and writes

VARIABLES
    account,            \* system user -> its password, Unset or NoAccount
    locked,             \* users whose system account is locked
    maildirs,           \* users whose Maildir exists
    record,             \* identity -> protocol password (mailbox-passwords.json)
    managed, boxes,     \* managed-users.json; managed-mailboxes.json: position -> mailbox
    registry,           \* who holds the registry lock
    epochs, now,        \* webmail-session-epoch.json, and the clock it is stamped with
    op, answer,         \* the operation of each operator, and its answer
    session, served,    \* webmail sessions, and the browsers that were served
    stale,              \* browsers whose session precedes a change of their mailbox
    requests, faults

systemVars == <<account, locked, maildirs>>
fileVars == <<record, managed, boxes, registry, epochs>>
webVars == <<session, served, stale>>
accountVars == <<systemVars, fileVars, now, op, answer, webVars, requests, faults>>

NoAccount == "no account"
Unset == "unset"
None == "none"
Nobody == "nobody"
Identities == Users \cup Emails
Idle == [do |-> "idle"]
NoSession == [is |-> "none"]

AccountsInit ==
    /\ account = [u \in Users |-> NoAccount] /\ locked = {} /\ maildirs = {}
    /\ record = [i \in Identities |-> None]
    /\ managed = {} /\ boxes = [n \in {} |-> None] /\ registry = Nobody
    /\ epochs = [i \in Identities |-> 0] /\ now = 1
    /\ op = [w \in Operators |-> Idle] /\ answer = [w \in Operators |-> Idle]
    /\ session = [b \in Browsers |-> NoSession] /\ served = {} /\ stale = {}
    /\ requests = 0 /\ faults = 0

-----------------------------------------------------------------------------
(* Steps of an operation.                                                  *)

Goto(w, next) == op' = [op EXCEPT ![w].do = next] /\ UNCHANGED answer
Answer(w, told) ==
    /\ op' = [op EXCEPT ![w] = Idle]
    /\ answer' = [answer EXCEPT ![w] = [op[w] EXCEPT !.do = told]]
At(w, step) == op[w].do = step
Works == UNCHANGED faults
Fails == faults < MaxFaults /\ faults' = faults + 1

\* An operation begins; what the others answered is no longer of interest, and
\* neither it nor they are alone any more.
Begin(w, for, first, u, e, p) ==
    /\ At(w, "idle") /\ requests < MaxRequests
    /\ requests' = requests + 1
    /\ LET busy == {v \in Operators : op[v] # Idle}
           asked == [do |-> first, for |-> for, user |-> u, email |-> e, password |-> p, alone |-> busy = {},
                     before |-> [account |-> account[u], identity |-> None, record |-> None]]
       IN op' = [v \in Operators |-> IF v = w THEN asked
                                     ELSE IF v \in busy THEN [op[v] EXCEPT !.alone = FALSE] ELSE Idle]
    /\ answer' = [v \in Operators |-> Idle]

HasBox(e) == \E i \in DOMAIN boxes : boxes[i].email = e

\* users.add: the checks made before anything is touched.
AddCheck(w, u, e, p) ==
    /\ ~HasBox(e)
    /\ Begin(w, "add", "create", u, e, p)
    /\ UNCHANGED <<systemVars, fileVars, now, webVars, faults>>

\* useradd refuses a name that exists; nothing is rolled back then.
CreateAccount(w) ==
    /\ At(w, "create")
    /\ LET u == op[w].user IN
       \/ /\ account[u] = NoAccount /\ Works
          /\ account' = [account EXCEPT ![u] = Unset] /\ Goto(w, "chpasswd")
       \/ /\ account[u] # NoAccount /\ Works /\ UNCHANGED account /\ Answer(w, "failed")
       \/ /\ Fails /\ UNCHANGED account /\ Answer(w, "failed")
    /\ UNCHANGED <<locked, maildirs, fileVars, now, webVars, requests>>

\* What a failed chpasswd leads to: add removes what it made, password puts the
\* protocol record back.
AfterRefusal(w) == IF op[w].for = "add" THEN "drop" ELSE "restore"
AfterPassword(w) == IF op[w].for = "add" THEN "record" ELSE "bump"

SetPassword(w) ==
    /\ At(w, "chpasswd")
    /\ LET u == op[w].user IN
       \/ /\ account[u] # NoAccount /\ Works
          /\ account' = [account EXCEPT ![u] = op[w].password] /\ Goto(w, AfterPassword(w))
       \/ /\ account[u] = NoAccount /\ Works /\ UNCHANGED account /\ Goto(w, AfterRefusal(w))
       \/ /\ Fails /\ UNCHANGED account /\ Goto(w, AfterRefusal(w))
    /\ UNCHANGED <<locked, maildirs, fileVars, now, webVars, requests>>

\* save_mailbox_password: a locked read-modify-write of the record file.
SaveRecord(w, identity, next) ==
    /\ record' = [record EXCEPT ![identity] = op[w].password]
    /\ Goto(w, next) /\ Works

AddRecord(w) ==
    /\ At(w, "record")
    /\ \/ SaveRecord(w, op[w].email, "maildir")
       \/ Fails /\ UNCHANGED record /\ Goto(w, "drop")
    /\ UNCHANGED <<systemVars, managed, boxes, registry, epochs, now, webVars, requests>>

\* ensure_maildir: a failure is only a warning.
EnsureMaildir(w) ==
    /\ At(w, "maildir")
    /\ LET u == op[w].user IN
       \/ /\ account[u] # NoAccount /\ Works /\ maildirs' = maildirs \cup {u}
       \/ /\ account[u] = NoAccount /\ Works /\ UNCHANGED maildirs
       \/ /\ Fails /\ UNCHANGED maildirs
    /\ Goto(w, "register")
    /\ UNCHANGED <<account, locked, fileVars, now, webVars, requests>>

\* The registration without its second look at the registry.
RegisterUnasked(w) == TRUE

\* Under the lock the registry is looked at once more.
StillFree(w) == ~HasBox(op[w].email)

RegisterUser(w) ==
    /\ At(w, "register") /\ registry = Nobody
    /\ \/ /\ StillFree(w) /\ Works
          /\ managed' = managed \cup {op[w].user}
          /\ registry' = w /\ Goto(w, "box")
       \/ /\ ~StillFree(w) /\ Works /\ UNCHANGED <<managed, registry>> /\ Goto(w, "drop")
       \/ /\ Fails /\ UNCHANGED <<managed, registry>> /\ Goto(w, "drop")
    /\ UNCHANGED <<systemVars, record, boxes, epochs, now, webVars, requests>>

\* The list of mailboxes with one more at its end.
Behind(n) == (\A i \in DOMAIN boxes : i < n) /\ (n = 1 \/ n - 1 \in DOMAIN boxes)
Listed(n, box) == [i \in DOMAIN boxes \cup {n} |-> IF i = n THEN box ELSE boxes[i]]

RegisterBox(w) ==
    /\ At(w, "box") /\ registry' = Nobody
    /\ \/ /\ \E n \in 1 .. MaxRequests :
                Behind(n) /\ boxes' = Listed(n, [email |-> op[w].email, user |-> op[w].user])
          /\ Works /\ Answer(w, "ok")
       \/ Fails /\ UNCHANGED boxes /\ Goto(w, "drop")
    /\ UNCHANGED <<systemVars, record, managed, epochs, now, webVars, requests>>

\* drop_mailbox_password: both removals are attempted and their failures ignored.
DropRecords(w) ==
    /\ At(w, "drop")
    /\ LET both == {op[w].user, op[w].email} \cap Identities IN
       \E kept \in SUBSET both :
          /\ IF kept = {} THEN Works ELSE Fails
          /\ record' = [i \in Identities |-> IF i \in both \ kept THEN None ELSE record[i]]
    /\ IF op[w].for = "add" THEN Goto(w, "remove") ELSE Answer(w, "ok")
    /\ UNCHANGED <<systemVars, managed, boxes, registry, epochs, now, webVars, requests>>

\* remove_account: userdel -r, then userdel; with the Maildir or without it.
RemoveAccount(w) ==
    /\ At(w, "remove")
    /\ LET u == op[w].user
           adding == op[w].for = "add"
           failed == IF adding THEN "failed" ELSE "error"
       IN
       \/ /\ account[u] # NoAccount
          /\ account' = [account EXCEPT ![u] = NoAccount] /\ locked' = locked \ {u}
          /\ \/ maildirs' = maildirs \ {u} /\ Works
             \/ UNCHANGED maildirs /\ Fails
          /\ IF adding THEN Answer(w, "failed") ELSE Goto(w, "address")
       \/ /\ account[u] = NoAccount /\ Works /\ UNCHANGED systemVars /\ Answer(w, failed)
       \/ /\ Fails /\ UNCHANGED systemVars /\ Answer(w, failed)
    /\ UNCHANGED <<fileVars, now, webVars, requests>>

-----------------------------------------------------------------------------
(* users.delete, users.status, users.password.                             *)

\* The first mailbox of those at the positions S, and the address of a user: its
\* first mailbox's, or none.
First(S) == {i \in S : \A j \in S : i <= j}
BoxesOf(u) == {i \in DOMAIN boxes : boxes[i].user = u}
AddressOf(u) == IF BoxesOf(u) = {} THEN {None} ELSE {boxes[i].email : i \in First(BoxesOf(u))}

DeleteCheck(w, u) ==
    /\ u \in managed
    /\ Begin(w, "delete", "remove", u, None, None)
    /\ UNCHANGED <<systemVars, fileVars, now, webVars, faults>>

DeleteAddress(w) ==
    /\ At(w, "address")
    /\ \E e \in AddressOf(op[w].user) : op' = [op EXCEPT ![w].do = "unregister", ![w].email = e]
    /\ UNCHANGED <<systemVars, fileVars, now, answer, webVars, requests, faults>>

UnregisterUser(w) ==
    /\ At(w, "unregister") /\ registry = Nobody
    /\ \/ managed' = managed \ {op[w].user} /\ registry' = w /\ Works /\ Goto(w, "unbox")
       \/ Fails /\ UNCHANGED <<managed, registry>> /\ Answer(w, "error")
    /\ UNCHANGED <<systemVars, record, boxes, epochs, now, webVars, requests>>

UnregisterBox(w) ==
    /\ At(w, "unbox") /\ registry' = Nobody
    /\ \/ boxes' = [i \in DOMAIN boxes \ BoxesOf(op[w].user) |-> boxes[i]] /\ Works /\ Goto(w, "drop")
       \/ Fails /\ UNCHANGED boxes /\ Answer(w, "error")
    /\ UNCHANGED <<systemVars, record, managed, epochs, now, webVars, requests>>

StatusCheck(w, u, enabled) ==
    /\ u \in managed
    /\ Begin(w, "status", "lock", u, None, enabled)
    /\ UNCHANGED <<systemVars, fileVars, now, webVars, faults>>

LockAccount(w) ==
    /\ At(w, "lock")
    /\ LET u == op[w].user IN
       \/ /\ account[u] # NoAccount /\ Works /\ Goto(w, "bump")
          /\ locked' = IF op[w].password = TRUE THEN locked \ {u} ELSE locked \cup {u}
       \/ /\ account[u] = NoAccount /\ Works /\ UNCHANGED locked /\ Answer(w, "failed")
       \/ /\ Fails /\ UNCHANGED locked /\ Answer(w, "failed")
    /\ UNCHANGED <<account, maildirs, fileVars, now, webVars, requests>>

Open(b) == session[b].is = "open"

\* The mailbox's sessions are to end when its epoch is stamped with the time.
EpochKey(u) == u
Bump(w) ==
    /\ At(w, "bump")
    /\ \/ /\ epochs' = [epochs EXCEPT ![EpochKey(op[w].user)] = now] /\ Works /\ Answer(w, "ok")
          /\ stale' = stale \cup {b \in Browsers : Open(b) /\ session[b].user = op[w].user
                                                   /\ session[b].at < now}
       \/ Fails /\ UNCHANGED <<epochs, stale>> /\ Answer(w, "partly")
    /\ served' = {}
    /\ UNCHANGED <<systemVars, record, managed, boxes, registry, now, session, requests>>

PasswordCheck(w, u, p) ==
    /\ u \in managed
    /\ Begin(w, "password", "identity", u, None, p)
    /\ UNCHANGED <<systemVars, fileVars, now, webVars, faults>>

\* The record is kept aside before it is written.
KeepPrevious(w) ==
    /\ At(w, "identity")
    /\ \E e \in AddressOf(op[w].user) :
         LET i == IF e = None THEN op[w].user ELSE e IN
         op' = [op EXCEPT ![w].do = "replace", ![w].before.identity = i, ![w].before.record = record[i]]
    /\ UNCHANGED <<systemVars, fileVars, now, answer, webVars, requests, faults>>

ReplaceRecord(w) ==
    /\ At(w, "replace")
    /\ \/ SaveRecord(w, op[w].before.identity, "chpasswd")
       \/ Fails /\ UNCHANGED record /\ Answer(w, "failed")
    /\ UNCHANGED <<systemVars, managed, boxes, registry, epochs, now, webVars, requests>>

\* A roll-back that leaves the new record where none was before.
RestoreOnlyPrevious(w) ==
    IF op[w].before.record = None THEN record
    ELSE [record EXCEPT ![op[w].before.identity] = op[w].before.record]

\* restore_mailbox_password: the record as it was, or none if there was none.
Restored(w) == [record EXCEPT ![op[w].before.identity] = op[w].before.record]

RestoreRecord(w) ==
    /\ At(w, "restore")
    /\ \/ record' = Restored(w) /\ Works /\ Answer(w, "failed") /\ UNCHANGED epochs
       \/ /\ Fails /\ UNCHANGED record /\ Answer(w, "partly")
          /\ epochs' = [epochs EXCEPT ![EpochKey(op[w].user)] = now]
    /\ UNCHANGED <<systemVars, managed, boxes, registry, now, webVars, requests>>

Tick == now < MaxTicks /\ now' = now + 1
        /\ UNCHANGED <<systemVars, fileVars, op, answer, webVars, requests, faults>>

-----------------------------------------------------------------------------
(* Webmail.                                                                *)

\* candidate_keys: the whole address first, then its local part.
RecordFor(e) == IF record[e] # None THEN record[e] ELSE record[LocalPart[e]]

\* AccountDirectory::authenticate and resolve.
Resolves(e) == \E i \in DOMAIN boxes : boxes[i].email = e /\ account[boxes[i].user] # NoAccount
                                         /\ boxes[i].user \in maildirs
OwnersOf(e) == {boxes[i].user : i \in First({i \in DOMAIN boxes : boxes[i].email = e})}

Authenticate(b, e, p) ==
    /\ session[b] = NoSession
    /\ RecordFor(e) = p /\ Resolves(e)
    /\ \E u \in OwnersOf(e) : session' = [session EXCEPT ![b] = [is |-> "verified", email |-> e, user |-> u]]
    /\ served' = {} /\ stale' = stale \ {b}
    /\ UNCHANGED <<systemVars, fileVars, now, op, answer, requests, faults>>

\* EpochStore::current: the entry of the mailbox's address.
CurrentEpoch(e) == epochs[e]

CreateSession(b) ==
    /\ session[b].is = "verified"
    /\ session' = [session EXCEPT ![b] = [is |-> "open", email |-> @.email, user |-> @.user, at |-> now,
                                          epoch |-> CurrentEpoch(@.email)]]
    /\ UNCHANGED <<systemVars, fileVars, now, op, answer, served, stale, requests, faults>>

\* AuthSession::from_request_parts.
Request(b) ==
    /\ Open(b)
    /\ IF CurrentEpoch(session[b].email) > session[b].epoch
       THEN session' = [session EXCEPT ![b] = NoSession] /\ served' = {}
       ELSE UNCHANGED session /\ served' = {b}
    /\ UNCHANGED <<systemVars, fileVars, now, op, answer, stale, requests, faults>>

\* Logout, the idle and absolute time-outs, and eviction at MAX_SESSIONS.
EndSession(b) ==
    /\ Open(b) /\ session' = [session EXCEPT ![b] = NoSession] /\ served' = {}
    /\ UNCHANGED <<systemVars, fileVars, now, op, answer, stale, requests, faults>>

-----------------------------------------------------------------------------
OperatorStep(w) ==
    \/ \E u \in Users, e \in Emails, p \in Passwords : AddCheck(w, u, e, p)
    \/ \E u \in Users : DeleteCheck(w, u) \/ (\E on \in BOOLEAN : StatusCheck(w, u, on))
                        \/ (\E p \in Passwords : PasswordCheck(w, u, p))
    \/ CreateAccount(w) \/ SetPassword(w) \/ AddRecord(w) \/ EnsureMaildir(w)
    \/ RegisterUser(w) \/ RegisterBox(w) \/ DropRecords(w) \/ RemoveAccount(w)
    \/ DeleteAddress(w) \/ UnregisterUser(w) \/ UnregisterBox(w)
    \/ LockAccount(w) \/ Bump(w) \/ KeepPrevious(w) \/ ReplaceRecord(w) \/ RestoreRecord(w)

BrowserStep(b) ==
    \/ \E e \in Emails, p \in Passwords : Authenticate(b, e, p)
    \/ CreateSession(b) \/ Request(b) \/ EndSession(b)

AccountsNext == (\E w \in Operators : OperatorStep(w)) \/ Tick \/ (\E b \in Browsers : BrowserStep(b))

Spec == AccountsInit /\ [][AccountsNext]_accountVars

\* Assumed of the constants: the name for "nobody" is not an operator's.
AccountConstants == Nobody \notin Operators

-----------------------------------------------------------------------------
\* users.add looks at the registry before it makes the account and again under
\* the lock: however two of them interleave, an address has one mailbox.
OneMailboxPerAddress ==
    \A i, j \in DOMAIN boxes : boxes[i].email = boxes[j].email => i = j

\* What an operation that no other overlapped tells its caller is what happened:
\* a mailbox added can be used with that password by the system and by the mail
\* protocols, one deleted is gone, a changed password is changed on both sides,
\* and a refused change of password has changed neither of them.
AnswerTrue ==
    \A w \in Operators : answer[w] # Idle /\ answer[w].alone /\ (\A v \in Operators : op[v] = Idle) =>
        LET a == answer[w]
            u == a.user
            i == a.before.identity
        IN CASE a.for = "add" /\ a.do = "ok" ->
                  account[u] = a.password /\ record[a.email] = a.password /\ u \in managed /\ HasBox(a.email)
             [] a.for = "delete" /\ a.do = "ok" ->
                  account[u] = NoAccount /\ u \notin managed /\ BoxesOf(u) = {}
             [] a.for = "password" /\ a.do = "ok" -> account[u] = a.password /\ record[i] = a.password
             [] a.for = "password" /\ a.do = "failed" ->
                  account[u] = a.before.account /\ (i # None => record[i] = a.before.record)
             [] OTHER -> TRUE

\* docs/TEST_REPORT.md:423 and docs/WEBMAIL.md:55: a change of password, and a
\* lock, end the sessions the mailbox has; their next request is refused.
SessionsRevoked == served \cap stale = {}
=============================================================================
