-------------------------------- MODULE Sasl --------------------------------
(***************************************************************************)
(* Who may log in.  The submission service (smtpd::sasl) and the access    *)
(* daemon (imappop3::auth over imapd::directory) verify passwords against  *)
(* the same file of records, which the console rewrites whenever it likes. *)
(* Each daemon keeps a parsed copy of the file under the time and length   *)
(* it had (MailboxPasswords::load_cached).  A PLAIN login of the submission *)
(* service waits for one of a few verification slots and runs on a thread  *)
(* that outlives a client which hangs up; IMAP's SCRAM-SHA-256 splits a    *)
(* login over two messages; and the submission service may ask Dovecot     *)
(* instead.  A key derivation is modelled by what it tells apart: the hash *)
(* of a password under a number of rounds.                                 *)
(***************************************************************************)
EXTENDS Integers, Sequences, FiniteSets

CONSTANTS
    Attempts,     \* logins that may run at the same time
    Keys,         \* names a record may be filed under
    LocalPart,    \* [Keys -> Keys]: of an address its local part, of a bare name itself
    Words,        \* passwords
    Slots,        \* MAX_CONCURRENT_PBKDF2
    Stored,       \* the records the file may hold, [word, rounds]
    Files,        \* the contents the file may start with
    Mixes,        \* sets of "smtp", "imap", "scram", "dovecot": who logs in at the same time
    MaxWrites     \* bound on changes of the file

VARIABLES
    file,    \* [stamp, ok, records]: the file of records
    writes,
    cache,   \* cache[d]: the parsed copy of daemon d, [stamp, records]
    free,    \* free verification slots
    login,   \* login[a]
    wire,    \* client-final messages ever sent
    kinds    \* the mix of this behaviour

saslVars == <<kinds, file, writes, cache, free, login, wire>>

(* Rounds: below PBKDF2_ITERATIONS (1), from it to MAX_PBKDF2_ITERATIONS   *)
(* (2) and above (3)                                                       *)
Clamped(rounds) == 2
Derived(word, rounds) == <<word, rounds>>
Missing == [word |-> "", rounds |-> 0]
Records == Stored \cup {Missing}
NoCopy == [stamp |-> 0, records |-> [k \in Keys |-> Missing]]
Idle == [at |-> "idle", kind |-> "none"]
Active(a) == login[a].at \notin {"idle", "success", "invalid", "temporary"}

(* candidate_keys: the name itself, then the local part of an address *)
CandidateKeys(user) == IF LocalPart[user] = user THEN <<user>> ELSE <<user, LocalPart[user]>>

(* verify_password derives with a clamped number of rounds *)
VerifyPassword(record, word) ==
    record # Missing /\ Derived(word, Clamped(record.rounds)) = Derived(record.word, record.rounds)

(* What the file said of every key while login a was under way *)
SeenAfter(new) ==
    [a \in Attempts |-> IF Active(a) THEN [login[a] EXCEPT !.seen = @ \cup {new}] ELSE login[a]]

(* The console replaces the file, or someone leaves it unreadable *)
Rewrite ==
    /\ writes < MaxWrites
    /\ \/ \E k \in Keys, r \in Records :
            /\ file.ok /\ file.records[k] # r
            /\ file' = [file EXCEPT !.stamp = @ + 1, !.records[k] = r]
       \/ file' = [file EXCEPT !.stamp = @ + 1, !.ok = ~@]
    /\ writes' = writes + 1
    /\ login' = SeenAfter([ok |-> file'.ok, records |-> file'.records])
    /\ UNCHANGED <<kinds, cache, free, wire>>

-----------------------------------------------------------------------------
(* Looking a record up: stat, then the copy or the file                    *)

DaemonOf(a) == IF login[a].kind = "smtp" THEN "smtp" ELSE "imap"
Now == [ok |-> file.ok, records |-> file.records]
Begin(a, kind, user, word, at) ==
    login' = [login EXCEPT ![a] = [at |-> at, kind |-> kind, user |-> user, word |-> word, keys |-> IF kind = "dovecot" THEN <<>> ELSE CandidateKeys(user),
        stamp |-> 0, record |-> Missing, seen |-> {Now}, gone |-> FALSE, nonce |-> <<>>,
        said |-> IF at = "invalid" THEN {"malformed"} ELSE {}]]
(* A login that holds a slot gives it back with its answer *)
Answer(a, what) ==
    /\ login' = [login EXCEPT ![a].at = what, ![a].record = Missing, ![a].keys = <<>>, ![a].stamp = 0, ![a].gone = FALSE]
    /\ free' = IF login[a].kind = "smtp" THEN free + 1 ELSE free

(* Once a record is known or known to be missing *)
AfterLookup(kind) == IF kind = "scram" THEN "challenge" ELSE "verify"
FoundByLast(a, records) ==
    [login[a] EXCEPT !.record = records[login[a].keys[Len(login[a].keys)]], !.at = AfterLookup(login[a].kind)]
Found(a, records) ==
    LET record == records[Head(login[a].keys)] IN
    IF record = Missing /\ Len(login[a].keys) > 1
    THEN [login[a] EXCEPT !.keys = Tail(@), !.at = "stat"]
    ELSE [login[a] EXCEPT !.record = record, !.at = AfterLookup(login[a].kind)]

(* load_cached: the copy counts while time and length are the file's, and  *)
(* the stamp of a new copy is taken before the file is read                *)
FreshOnce(d) == cache[d].stamp # 0
Fresh(d) == cache[d].stamp = file.stamp
Stat(a) ==
    /\ login[a].at = "stat"
    /\ login' = [login EXCEPT ![a] = IF Fresh(DaemonOf(a))
                                     THEN Found(a, cache[DaemonOf(a)].records)
                                     ELSE [login[a] EXCEPT !.at = "load", !.stamp = file.stamp]]
    /\ UNCHANGED <<kinds, file, writes, cache, free, wire>>

Copied(a) == [stamp |-> login[a].stamp, records |-> file.records]
(* An unreadable file empties the copy; PLAIN is refused as if the password *)
(* was wrong, SCRAM goes on with a dummy                                    *)
Load(a) ==
    /\ login[a].at = "load"
    /\ IF file.ok
       THEN cache' = [cache EXCEPT ![DaemonOf(a)] = Copied(a)]
            /\ login' = [login EXCEPT ![a] = Found(a, file.records)] /\ free' = free
       ELSE /\ cache' = [cache EXCEPT ![DaemonOf(a)] = NoCopy]
            /\ IF login[a].kind = "scram"
               THEN login' = [login EXCEPT ![a].at = "challenge"] /\ free' = free
               ELSE Answer(a, "invalid")
    /\ UNCHANGED <<kinds, file, writes, wire>>

Outcome(record, word) == IF VerifyPassword(record, word) THEN "success" ELSE "invalid"
(* The verification itself; its thread may panic or be cancelled *)
Verify(a) ==
    /\ login[a].at = "verify"
    /\ \/ Answer(a, Outcome(login[a].record, login[a].word))
       \/ Answer(a, "temporary")
    /\ UNCHANGED <<kinds, file, writes, cache, wire>>

-----------------------------------------------------------------------------
(* The submission service: MailboxPasswordsAuthenticator                   *)

(* Another mechanism than PLAIN, or a response that is not two or three    *)
(* fields with a user, is answered at once                                 *)
Shapes == {"plain", "mechanism", "fields"}
AskSmtp(a) ==
    /\ "smtp" \in kinds /\ login[a] = Idle
    /\ \E user \in Keys, word \in Words, shape \in Shapes :
         Begin(a, "smtp", user, word,
               CASE shape = "plain" -> "queue" [] shape = "mechanism" -> "temporary" [] OTHER -> "invalid")
    /\ UNCHANGED <<kinds, file, writes, cache, free, wire>>

TakeSlot(a) ==
    /\ login[a].at = "queue" /\ free > 0
    /\ free' = free - 1
    /\ login' = [login EXCEPT ![a].at = "stat"]
    /\ UNCHANGED <<kinds, file, writes, cache, wire>>

(* PBKDF2_QUEUE_TIMEOUT passes without a slot *)
Saturated(a) ==
    /\ login[a].at = "queue" /\ free = 0
    /\ login' = [login EXCEPT ![a].at = "temporary"]
    /\ UNCHANGED <<kinds, file, writes, cache, free, wire>>

(* The client hangs up.  Waiting for a slot it just leaves the queue; once *)
(* the thread runs, the permit has moved into it.                          *)
FreeAtOnce(a) == IF login[a].at = "queue" THEN free ELSE free + 1
FreeAfterHangUp(a) == free
HangUp(a) ==
    /\ login[a].kind = "smtp" /\ Active(a) /\ ~login[a].gone
    /\ login' = [login EXCEPT ![a] = IF @.at = "queue" THEN Idle ELSE [@ EXCEPT !.gone = TRUE]]
    /\ free' = FreeAfterHangUp(a)
    /\ UNCHANGED <<kinds, file, writes, cache, wire>>

(* The access daemon's PLAIN and LOGIN: PasswordDirectory has no slots *)
AskImap(a) ==
    /\ "imap" \in kinds /\ login[a] = Idle
    /\ \E user \in Keys, word \in Words : Begin(a, "imap", user, word, "stat")
    /\ UNCHANGED <<kinds, file, writes, cache, free, wire>>

-----------------------------------------------------------------------------
(* SCRAM-SHA-256                                                           *)

(* parse_client_first: a malformed message is a failed login *)
AskScram(a) ==
    /\ "scram" \in kinds /\ login[a] = Idle
    /\ \E user \in Keys, word \in Words : Begin(a, "scram", user, word, "stat") \/ Begin(a, "scram", user, word, "invalid")
    /\ UNCHANGED <<kinds, file, writes, cache, free, wire>>

(* scram_credentials_from_record refuses too few rounds and takes any more; *)
(* without credentials a dummy stands in, whose key is no password's        *)
Credentials(record) == IF record # Missing /\ record.rounds >= 2 THEN Derived(record.word, record.rounds) ELSE Derived("dummy", 2)
(* server_first: the client's nonce with the server's own, here the login, *)
(* and the rounds the client is to use                                     *)
FixedNonce(a) == <<"client", "server">>
ServerNonce(a) == <<"client", a>>
Challenge(a) ==
    /\ login[a].at = "challenge"
    /\ login' = [login EXCEPT ![a].at = "final", ![a].nonce = ServerNonce(a)]
    /\ UNCHANGED <<kinds, file, writes, cache, free, wire>>

(* A client proves the key of its password for the nonce it was given, or   *)
(* sends what it saw on the wire                                            *)
Own(a) == [nonce |-> login[a].nonce, binding |-> "n,,", extension |-> FALSE,
           key |-> Derived(login[a].word, Credentials(login[a].record)[2]), by |-> a]
Finals(a) ==
    wire \cup {Own(a), [Own(a) EXCEPT !.binding = "p=tls"], [Own(a) EXCEPT !.extension = TRUE]}
(* verify_client_final *)
VerifyClientFinal(a, m) ==
    /\ ~m.extension
    /\ m.binding = "n,,"
    /\ m.nonce = login[a].nonce
    /\ m.key = Credentials(login[a].record)
Final(a) ==
    /\ login[a].at = "final"
    /\ \E m \in Finals(a) :
         /\ wire' = wire \cup {m}
         /\ login' = [login EXCEPT ![a].at = IF VerifyClientFinal(a, m) THEN "ack" ELSE "invalid", ![a].said = {m.by}]
    /\ UNCHANGED <<kinds, file, writes, cache, free>>

(* The client answers the server's signature with an empty line *)
Acknowledge(a) ==
    /\ login[a].at = "ack"
    /\ \E what \in {"success", "invalid", "temporary"} : login' = [login EXCEPT ![a].at = what]
    /\ UNCHANGED <<kinds, file, writes, cache, free, wire>>

-----------------------------------------------------------------------------
(* Dovecot: DovecotAuthClient, one connection per login                    *)

AskDovecot(a) ==
    /\ "dovecot" \in kinds /\ login[a] = Idle
    /\ \E safe \in BOOLEAN : Begin(a, "dovecot", "", "", IF safe THEN "handshake" ELSE "temporary")
    /\ UNCHANGED <<kinds, file, writes, cache, free, wire>>

(* read_handshake: VERSION and MECH lines in any order up to DONE *)
Hello == {"version", "badversion", "mech", "done", "other"}
Handshake(a) ==
    /\ login[a].at = "handshake"
    /\ \E line \in Hello :
         login' = [login EXCEPT ![a].said = @ \cup {line},
             ![a].at = CASE line = "badversion" -> "temporary"
                         [] line = "done" -> IF {"version", "mech"} \subseteq login[a].said THEN "asked" ELSE "temporary"
                         [] OTHER -> "handshake"]
    /\ UNCHANGED <<kinds, file, writes, cache, free, wire>>

(* parse_auth_response *)
Replies == {"OK", "FAIL", "FAIL temp", "CONT", "other id", "noise"}
AuthResponse(reply) ==
    CASE reply = "OK" -> "success" [] reply = "FAIL" -> "invalid" [] OTHER -> "temporary"
Reply(a) ==
    /\ login[a].at = "asked"
    /\ \E reply \in Replies : login' = [login EXCEPT ![a].said = @ \cup {reply}, ![a].at = AuthResponse(reply)]
    /\ UNCHANGED <<kinds, file, writes, cache, free, wire>>

(* The socket closes, a line is too long, or five seconds pass *)
Unanswered(a) ==
    /\ login[a].at \in {"handshake", "asked"}
    /\ login' = [login EXCEPT ![a].at = "temporary"]
    /\ UNCHANGED <<kinds, file, writes, cache, free, wire>>

SaslInit ==
    /\ \E records \in Files : file = [stamp |-> 1, ok |-> TRUE, records |-> records]
    /\ writes = 0
    /\ cache = [d \in {"smtp", "imap"} |-> NoCopy]
    /\ free = Slots
    /\ login = [a \in Attempts |-> Idle]
    /\ wire = {}
    /\ kinds \in Mixes

SaslNext ==
    \/ Rewrite
    \/ \E a \in Attempts :
         \/ Stat(a) \/ Load(a) \/ Verify(a)
         \/ AskSmtp(a) \/ TakeSlot(a) \/ Saturated(a) \/ HangUp(a)
         \/ AskImap(a)
         \/ AskScram(a) \/ Challenge(a) \/ Final(a) \/ Acknowledge(a)
         \/ AskDovecot(a) \/ Handshake(a) \/ Reply(a) \/ Unanswered(a)

Spec == SaslInit /\ [][SaslNext]_saslVars

\* Assumed of the constants: finitely many attempts, an address has its local part
\* among the keys, and the password of the dummy record is nobody's.
LoginConstants ==
    /\ IsFiniteSet(Attempts) /\ Slots \in Nat
    /\ LocalPart \in [Keys -> Keys]
    /\ "dummy" \notin Words

-----------------------------------------------------------------------------
(* A login succeeds only with the password of a record its name leads to    *)
(* at some moment of the login, and with that of the local part only if the *)
(* address had no record of its own then; a SCRAM proof only in the         *)
(* exchange it was made for; Dovecot's word only after a full handshake.    *)
(* And a right password is not refused as wrong when the file stood still,  *)
(* nor a login Dovecot did not turn down.                                   *)
LeadsTo(user, word, seen) ==
    LET keys == CandidateKeys(user) IN
    \E i \in DOMAIN keys :
        /\ \E s \in seen : s.ok /\ s.records[keys[i]].word = word
        /\ \A j \in 1..(i - 1) : \E s \in seen : s.ok /\ s.records[keys[j]] = Missing
Refusable(l) ==
    LET keys == CandidateKeys(l.user) IN
    \A s \in l.seen :
        Cardinality(l.seen) = 1 /\ s.ok =>
            LET record == IF s.records[keys[1]] = Missing THEN s.records[keys[Len(keys)]] ELSE s.records[keys[1]]
            IN ~VerifyPassword(record, l.word)
LoginTrue ==
    \A a \in Attempts : LET l == login[a] IN
        /\ l.at = "success" /\ l.kind # "dovecot" => LeadsTo(l.user, l.word, l.seen)
        /\ l.at = "success" /\ l.kind = "scram" => l.said = {a}
        /\ l.at = "success" /\ l.kind = "dovecot" => {"version", "mech", "done", "OK"} \subseteq l.said
        /\ l.at = "invalid" /\ l.kind \in {"smtp", "imap"} /\ "malformed" \notin l.said => Refusable(l)
        /\ l.at = "invalid" /\ l.kind = "dovecot" => "FAIL" \in l.said

(* Every verification thread that runs holds one of the slots, also when   *)
(* its client hung up, and every other slot is free                        *)
VerifySlotsKept ==
    free + Cardinality({a \in Attempts : login[a].kind = "smtp" /\ login[a].at \in {"stat", "load", "verify"}}) = Slots
=============================================================================
