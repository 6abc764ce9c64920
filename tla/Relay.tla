------------------------------- MODULE Relay --------------------------------
(***************************************************************************)
(* The outbound relay's configuration: the console's staged test           *)
(* (crates/smtp: validate.rs, stages.rs), writing it with read-back and    *)
(* rollback (relay_apply.rs) key by key into relay.json (relay_store.rs),  *)
(* removing it, and the daemon reading it when it starts                   *)
(* (bin/mailstackd/src/config.rs).                                         *)
(*                                                                         *)
(* Calls of one helper process exclude each other with APPLY_LOCK from the *)
(* snapshot to the answer.  The daemon takes no lock and reads the file    *)
(* once per key.  A write may fail and leave the file as it was; the       *)
(* helper may die between two of them.                                     *)
(***************************************************************************)
EXTENDS Naturals, Sequences

CONSTANTS
    RelayCallers,       \* requests to the console
    Endpoints,          \* records [host, port, tls, user]: what an administrator may enter
    MaxRelayCalls, MaxRelayFaults

VARIABLES
    doc,                \* relay.json: a value for each key, or Unset
    call,               \* what each caller's request is doing
    lock,               \* the caller holding APPLY_LOCK, or "free"
    loading,            \* where the starting daemon is in load_relay
    daemon,             \* what the daemon runs with
    relayCalls, relayFaults

relayVars == <<doc, call, lock, loading, daemon, relayCalls, relayFaults>>

Unset == "unset"
NoUser == "nobody"
NoHost == [host |-> Unset, port |-> 0]
NoCredentials == [at |-> NoHost, user |-> NoUser]

\* The keys apply_relay writes, in its order.  The credentials are one more key.
AppliedKeys == <<"relayhost", "auth", "maps", "options", "level", "wrapper">>
DocKeys == {AppliedKeys[i] : i \in 1..6} \cup {"credentials"}
Missing(k) == IF k = "relayhost" THEN NoHost ELSE IF k = "credentials" THEN NoCredentials ELSE Unset
NoDoc == [k \in DocKeys |-> Missing(k)]

-----------------------------------------------------------------------------
(* What is written for an endpoint, and what the daemon makes of it.       *)

RelayHost(e) == [host |-> e.host, port |-> e.port]

\* requires_wrappermode
Wrapper(e) == e.tls = "SSL/TLS" \/ e.port = 465

\* validate_relay: TLS in one of its two forms, a permitted port, both or neither of
\* user and password.
Valid(e) == e.tls \in {"STARTTLS", "SSL/TLS"} /\ e.port \in {25, 465, 587, 2525}

\* plan_relay_apply
Plan(e) ==
    [relayhost   |-> RelayHost(e),
     auth        |-> IF e.user = NoUser THEN "no" ELSE "yes",
     maps        |-> IF e.user = NoUser THEN "" ELSE "hash",
     options     |-> "noanonymous",
     level       |-> "encrypt",
     wrapper     |-> IF Wrapper(e) THEN "yes" ELSE "no",
     credentials |-> IF e.user = NoUser THEN NoCredentials ELSE [at |-> RelayHost(e), user |-> e.user]]

\* Handing over whatever the credentials file holds.
FirstCredentials(c, host) == c.user

\* match_credentials: only an entry for this very host and port.
MatchCredentials(c, host) == IF c.at # host THEN NoUser ELSE c.user

\* relay_tls_mode; without encryption the daemon does not start.
TlsModeOf(wrapper, port, level) ==
    IF wrapper = "yes" \/ port = 465 THEN "SSL/TLS"
    ELSE IF level = "encrypt" THEN "STARTTLS" ELSE "none"

Running(mode) == [mode |-> mode, relay |-> NoHost, tls |-> "none", user |-> NoUser]

\* load_relay, given the four values it has read.
Loaded(host, wrapper, level, credentials) ==
    IF host = NoHost THEN Running("direct")
    ELSE IF TlsModeOf(wrapper, host.port, level) = "none" THEN Running("refused")
    ELSE [mode |-> "relay", relay |-> host, tls |-> TlsModeOf(wrapper, host.port, level),
          user |-> MatchCredentials(credentials, host)]

-----------------------------------------------------------------------------
Idle == [at |-> "idle"]
Holds(c) == lock = c
Free == lock' = "free"

RelayInit ==
    /\ doc = NoDoc /\ lock = "free"
    /\ call = [c \in RelayCallers |-> Idle]
    /\ loading = <<>> /\ daemon = Running("down")
    /\ relayCalls = 0 /\ relayFaults = 0

DaemonStays == UNCHANGED <<loading, daemon>>

\* setup_relay_apply begins with the test: name, connection, TLS, login.
BeginApply(c, e) ==
    /\ call[c] = Idle /\ relayCalls < MaxRelayCalls
    /\ Valid(e)
    /\ call' = [call EXCEPT ![c] = [at |-> "test", e |-> e, stages |-> <<>>]]
    /\ relayCalls' = relayCalls + 1
    /\ DaemonStays /\ UNCHANGED <<doc, lock, relayFaults>>

TestStages == <<"dns", "connect", "tls", "auth">>

\* run_relay_test: a stage passes, or the test ends with the stages passed so far and
\* nothing is written.
TestStage(c, passes) ==
    /\ call[c].at = "test"
    /\ LET n == Len(call[c].stages)
           done == Append(call[c].stages, TestStages[n + 1])
       IN call' = [call EXCEPT ![c] = IF ~passes THEN Idle
                                      ELSE IF n + 1 = 4 THEN [at |-> "wait", e |-> @.e]
                                      ELSE [@ EXCEPT !.stages = done]]
    /\ DaemonStays /\ UNCHANGED <<doc, lock, relayCalls, relayFaults>>

\* The lock, then take_snapshot; a read that fails ends the call with nothing written.
TakeSnapshot(c) ==
    /\ call[c].at = "wait" /\ lock = "free"
    /\ lock' = c
    /\ call' = [call EXCEPT ![c] = [at |-> "write", e |-> @.e, snap |-> doc, step |-> 0]]
    /\ DaemonStays /\ UNCHANGED <<doc, relayCalls, relayFaults>>

\* One key of the file, or its failure.
Fault == relayFaults < MaxRelayFaults /\ relayFaults' = relayFaults + 1

\* write_all: the credentials, then the keys in order.
KeyAt(step) == IF step = 0 THEN "credentials" ELSE AppliedKeys[step]

WriteKey(c) ==
    /\ call[c].at = "write" /\ call[c].step <= 6
    /\ LET k == KeyAt(call[c].step)
       IN \/ /\ doc' = [doc EXCEPT ![k] = Plan(call[c].e)[k]]
             /\ call' = [call EXCEPT ![c].step = @ + 1]
             /\ UNCHANGED relayFaults
          \/ /\ Fault
             /\ call' = [call EXCEPT ![c] = [at |-> "rollback", e |-> @.e, snap |-> @.snap, step |-> 0, ok |-> TRUE]]
             /\ UNCHANGED doc
    /\ DaemonStays /\ UNCHANGED <<lock, relayCalls>>

\* The read-back of relayhost and wrapper mode; a mismatch or a failing read rolls back.
ReadBack(c) ==
    /\ call[c].at = "write" /\ call[c].step = 7
    /\ \/ /\ doc.relayhost = RelayHost(call[c].e) /\ (doc.wrapper = "yes") = Wrapper(call[c].e)
          /\ call' = [call EXCEPT ![c] = [at |-> "answer", e |-> @.e, snap |-> @.snap, answer |-> "applied"]]
          /\ UNCHANGED relayFaults
       \/ /\ Fault
          /\ call' = [call EXCEPT ![c] = [at |-> "rollback", e |-> @.e, snap |-> @.snap, step |-> 0, ok |-> TRUE]]
    /\ DaemonStays /\ UNCHANGED <<doc, lock, relayCalls>>

\* A rollback that only counts failures of the six keys.
RollbackKeysOnly(c) ==
    /\ call[c].at = "rollback" /\ call[c].step <= 6
    /\ LET k == KeyAt(call[c].step)
       IN \/ doc' = [doc EXCEPT ![k] = call[c].snap[k]] /\ call' = [call EXCEPT ![c].step = @ + 1] /\ UNCHANGED relayFaults
          \/ Fault /\ call' = [call EXCEPT ![c].step = @ + 1, ![c].ok = @ /\ k = "credentials"] /\ UNCHANGED doc
    /\ DaemonStays /\ UNCHANGED <<lock, relayCalls>>

\* rollback goes on past a failure and remembers it.
Rollback(c) ==
    /\ call[c].at = "rollback" /\ call[c].step <= 6
    /\ LET k == KeyAt(call[c].step)
       IN \/ doc' = [doc EXCEPT ![k] = call[c].snap[k]] /\ call' = [call EXCEPT ![c].step = @ + 1] /\ UNCHANGED relayFaults
          \/ Fault /\ call' = [call EXCEPT ![c].step = @ + 1, ![c].ok = FALSE] /\ UNCHANGED doc
    /\ DaemonStays /\ UNCHANGED <<lock, relayCalls>>

RolledBack(c) ==
    /\ call[c].at = "rollback" /\ call[c].step = 7
    /\ call' = [call EXCEPT ![c] = [at |-> "answer", e |-> @.e, snap |-> @.snap,
                                    answer |-> IF @.ok THEN "rolledBack" ELSE "torn"]]
    /\ DaemonStays /\ UNCHANGED <<doc, lock, relayCalls, relayFaults>>

\* The answer, and the lock released.
Answer(c) ==
    /\ call[c].at = "answer"
    /\ call' = [call EXCEPT ![c] = Idle] /\ Free
    /\ DaemonStays /\ UNCHANGED <<doc, relayCalls, relayFaults>>

\* clear_relay: the keys in order, then the credentials; a failure ends it there.
BeginClear(c) ==
    /\ call[c] = Idle /\ relayCalls < MaxRelayCalls /\ lock = "free"
    /\ lock' = c /\ relayCalls' = relayCalls + 1
    /\ call' = [call EXCEPT ![c] = [at |-> "clear", step |-> 1, snap |-> doc]]
    /\ DaemonStays /\ UNCHANGED <<doc, relayFaults>>

ClearKey(c) ==
    /\ call[c].at = "clear" /\ call[c].step <= 7
    /\ LET k == IF call[c].step = 7 THEN "credentials" ELSE AppliedKeys[call[c].step]
       IN \/ doc' = [doc EXCEPT ![k] = Missing(k)] /\ call' = [call EXCEPT ![c].step = @ + 1] /\ UNCHANGED <<lock, relayFaults>>
          \/ Fault /\ call' = [call EXCEPT ![c] = Idle] /\ Free /\ UNCHANGED doc
    /\ DaemonStays /\ UNCHANGED relayCalls

Cleared(c) ==
    /\ call[c].at = "clear" /\ call[c].step = 8
    /\ call' = [call EXCEPT ![c] = [at |-> "answer", snap |-> @.snap, answer |-> "direct"]]
    /\ DaemonStays /\ UNCHANGED <<doc, lock, relayCalls, relayFaults>>

\* The helper dies: its calls and its lock are gone, the file stays as it is.
HelperDies ==
    /\ Fault /\ lock # "free"
    /\ call' = [c \in RelayCallers |-> Idle] /\ Free
    /\ DaemonStays /\ UNCHANGED <<doc, relayCalls>>

\* The daemon starts, and reads relayhost, wrapper mode, security level and credentials.
LoadedKeys == <<"relayhost", "wrapper", "level", "credentials">>
DaemonReads ==
    /\ LET read == Append(loading, doc[LoadedKeys[Len(loading) + 1]])
       IN IF Len(read) = 4 THEN daemon' = Loaded(read[1], read[2], read[3], read[4]) /\ loading' = <<>>
          ELSE daemon' = Running("down") /\ loading' = read
    /\ UNCHANGED <<doc, call, lock, relayCalls, relayFaults>>

RelayNext ==
    \/ \E c \in RelayCallers :
          \/ \E e \in Endpoints : BeginApply(c, e)
          \/ \E passes \in BOOLEAN : TestStage(c, passes)
          \/ TakeSnapshot(c) \/ WriteKey(c) \/ ReadBack(c) \/ Rollback(c) \/ RolledBack(c) \/ Answer(c)
          \/ BeginClear(c) \/ ClearKey(c) \/ Cleared(c)
    \/ HelperDies \/ DaemonReads

Spec == RelayInit /\ [][RelayNext]_relayVars

\* Assumed of the constants: the mark of the free lock is not a caller's name.
RelayConstants == "free" \notin RelayCallers

-----------------------------------------------------------------------------
\* setup.relay.apply answers the truth: after "applied" a daemon that starts uses the
\* endpoint that passed the test, after "rolledBack" the file is what it was before
\* the call, and after "direct" no relay, and no password, is left.
ApplyAnswerTrue ==
    \A c \in RelayCallers : call[c].at = "answer" =>
        CASE call[c].answer = "applied" ->
                Loaded(doc.relayhost, doc.wrapper, doc.level, doc.credentials)
                  = [mode |-> "relay", relay |-> RelayHost(call[c].e), tls |-> IF Wrapper(call[c].e) THEN "SSL/TLS" ELSE "STARTTLS",
                     user |-> call[c].e.user]
          [] call[c].answer = "rolledBack" -> doc = call[c].snap
          [] call[c].answer = "direct" -> doc = NoDoc
          [] OTHER -> TRUE

\* Whenever the daemon starts, even between two writes of a change or after a change
\* that broke off, it presents a user's password only to the relay it was entered for.
PasswordToItsRelay ==
    daemon.user # NoUser => \E e \in Endpoints : daemon.user = e.user /\ daemon.relay = RelayHost(e)
=============================================================================
