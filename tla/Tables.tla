------------------------------- MODULE Tables -------------------------------
(***************************************************************************)
(* The tables of domains and aliases (crates/store/src/tables.rs), the     *)
(* commands that follow every change of them (crates/core/src/exec.rs:     *)
(* postmap, postfix check, a reload through whatever service manager the   *)
(* host has), the console's service actions, and the two readers of the    *)
(* tables: the directory RCPT asks (store/src/recipients.rs) and the       *)
(* delivery that follows (imapd/src/resolver.rs).                          *)
(*                                                                         *)
(* A change holds the lock of its table from the reading to the end of the *)
(* commands; deleting a domain holds both locks and writes the aliases     *)
(* first.  Every read, write and command may fail on its own.              *)
(***************************************************************************)
EXTENDS Integers, Sequences, FiniteSets

CONSTANTS
    Operators,    \* calls of the console that run at the same time
    Hosts,        \* the sets of programs a host may have installed
    MaxChanges,   \* bound on the calls
    MaxBroken     \* bound on reads, writes and commands that fail

VARIABLES
    table,     \* table.domains, table.aliases: the text files
    compiled,  \* the .db files postmap made of them
    intended,  \* the tables if every written change had been made to the latest one
    locks,     \* locks[t]: the call that holds t's lock file, "none"
    op,        \* op[o]: a call
    programs,  \* what is installed
    running,   \* running[u]: whether service u runs
    mail,      \* a message for a local address on its way
    changes, broken

tableVars == <<table, compiled, intended, locks, op, programs, running, mail, changes, broken>>

Domains == {"x", "y"}
Aliases == {"sales@x", "info@y"}
DomainOf(a) == CASE a = "sales@x" -> "x" [] a = "ann@x" -> "x" [] OTHER -> "y"
Mailboxes == {"ann@x"}      \* managed-mailboxes.json
AccountName(a) == CASE a = "ann@x" -> "ann" [] a = "sales@x" -> "sales" [] OTHER -> "info"
Accounts == {"ann"}         \* the passwd entries with a home
Units == {"postfix", "dovecot", "fail2ban"}
Idle == [at |-> "idle"]
Fault == broken < MaxBroken /\ broken' = broken + 1
NoFault == broken' = broken

-----------------------------------------------------------------------------
(* exec.rs *)

(* service_ctl: the first service manager the host has, else the unit's    *)
(* own program, and the verb it is given; "noop" when there is neither.    *)
Managers == <<"systemctl", "service", "rc-service", "init.d">>
Mapped(with, verb) ==
    CASE with = "rc-service" /\ verb = "reload" -> "restart"
      [] with = "dovecot" /\ verb = "restart" -> "reload"
      [] with = "fail2ban" /\ verb = "restart" -> "start"
      [] OTHER -> verb
Backend(unit, verb) ==
    LET there == {i \in DOMAIN Managers : Managers[i] \in programs}
        with == IF there # {} THEN Managers[CHOOSE i \in there : \A j \in there : i <= j]
                ELSE IF unit \in programs THEN unit ELSE "noop"
    IN  [with |-> with, verb |-> Mapped(with, verb)]

(* How a command can end: "gone" never started, "late" was killed at its   *)
(* deadline.                                                               *)
Ends == {"ok", "bad", "gone", "late"}
(* ServiceCtlOutcome::success *)
SuccessUnlessBad(with, end) == with = "noop" \/ end \in {"ok", "gone"}
Success(with, end) == with = "noop" \/ end = "ok"

(* What the manager does: a reload needs a running service, a start of one *)
(* that runs is an error of fail2ban-client.                               *)
Does(unit, b, end) ==
    /\ end = "ok" /\ b.with # "noop" => (b.verb = "reload" => running[unit]) /\ (b.with = "fail2ban" /\ b.verb = "start" => ~running[unit])
    /\ running' = IF end = "ok" /\ b.with # "noop" THEN [running EXCEPT ![unit] = b.verb # "stop"] ELSE running
Cost(b, end) == IF end = "ok" \/ b.with = "noop" THEN NoFault
                ELSE IF b.verb = "reload" /\ ~running["postfix"] /\ end = "bad" THEN NoFault ELSE Fault

(* services_action *)
ServiceAction(o) ==
    /\ op[o] = Idle /\ changes < MaxChanges
    /\ changes' = changes + 1
    /\ \E unit \in Units, verb \in {"start", "stop", "restart", "reload"}, end \in Ends :
         LET b == Backend(unit, verb) IN
         /\ b.with = "noop" => end = "ok"
         /\ Does(unit, b, end)
         /\ IF end = "ok" THEN NoFault ELSE Fault
         /\ op' = [op EXCEPT ![o] = [at |-> "done", kind |-> "service", arg |-> unit, verb |-> verb, with |-> b.with,
                                     answer |-> IF Success(b.with, end) THEN "ok" ELSE "error"]]
    /\ UNCHANGED <<table, compiled, intended, locks, programs, mail>>

-----------------------------------------------------------------------------
(* TableStore *)

Tables == {"domains", "aliases"}
Kinds == [add_domain |-> <<"domains">>, delete_domain |-> <<"domains", "aliases">>,
          add_alias |-> <<"aliases">>, delete_alias |-> <<"aliases">>]
(* Locks are taken in the order above; tables are written from the last. *)

Call(o) ==
    /\ op[o] = Idle /\ changes < MaxChanges
    /\ changes' = changes + 1
    /\ \E k \in DOMAIN Kinds : \E x \in IF k \in {"add_domain", "delete_domain"} THEN Domains ELSE Aliases :
         op' = [op EXCEPT ![o] = [at |-> "lock", kind |-> k, arg |-> x, next |-> 1, copy |-> table, answer |-> "none"]]
    /\ UNCHANGED <<table, compiled, intended, locks, programs, running, mail, broken>>

AnyLock(t) == TRUE
FreeLock(t) == locks[t] = "none"
TakeLock(o) ==
    LET c == op[o] IN
    /\ c.at = "lock"
    /\ LET t == Kinds[c.kind][c.next] IN
         /\ FreeLock(t)
         /\ locks' = [locks EXCEPT ![t] = o]
    /\ op' = [op EXCEPT ![o] = IF c.next < Len(Kinds[c.kind]) THEN [c EXCEPT !.next = @ + 1] ELSE [c EXCEPT !.at = "read"]]
    /\ UNCHANGED <<table, compiled, intended, programs, running, mail, changes, broken>>

Unlocked(o) == [t \in Tables |-> IF locks[t] = o THEN "none" ELSE locks[t]]
Finish(o, answer) ==
    /\ op' = [op EXCEPT ![o].at = "done", ![o].answer = answer]
    /\ locks' = Unlocked(o)

(* read_rows_for_update of all its tables: a read that fails ends the call *)
Read(o) ==
    LET c == op[o] IN
    /\ c.at = "read"
    /\ \/ op' = [op EXCEPT ![o] = [c EXCEPT !.at = "write", !.copy = table]] /\ NoFault /\ UNCHANGED locks
       \/ Fault /\ Finish(o, "error")
    /\ UNCHANGED <<table, compiled, intended, programs, running, mail, changes>>

(* The change a call makes to one table *)
Changed(c, t, rows) ==
    CASE c.kind = "add_domain" -> rows \cup {c.arg}
      [] c.kind = "add_alias" -> rows \cup {c.arg}
      [] c.kind = "delete_alias" -> rows \ {c.arg}
      [] c.kind = "delete_domain" /\ t = "domains" -> rows \ {c.arg}
      [] OTHER -> {a \in rows : DomainOf(a) # c.arg}

(* write_rows: the whole file is replaced at once *)
Write(o) ==
    LET c == op[o]
        t == Kinds[c.kind][c.next]
    IN
    /\ c.at = "write"
    /\ \/ /\ table' = [table EXCEPT ![t] = Changed(c, t, c.copy[t])]
          /\ intended' = [intended EXCEPT ![t] = Changed(c, t, @)]
          /\ op' = [op EXCEPT ![o].at = "sync"]
          /\ NoFault /\ UNCHANGED locks
       \/ Fault /\ Finish(o, "error") /\ UNCHANGED <<table, intended>>
    /\ UNCHANGED <<compiled, programs, running, mail, changes>>

(* postmap_and_reload: without postmap there is no Postfix and nothing to  *)
(* do; otherwise all three steps are taken, whatever became of the others, *)
(* and require_postfix_sync wants all of them.                             *)
Synced(postmap, check, reloaded) == postmap = "ok" /\ check = "ok" /\ reloaded
Sync(o) ==
    LET c == op[o]
        t == Kinds[c.kind][c.next]
        goOn == IF c.next > 1 THEN op' = [op EXCEPT ![o].at = "write", ![o].next = @ - 1] /\ UNCHANGED locks ELSE Finish(o, "ok")
    IN
    /\ c.at = "sync"
    /\ \/ "postmap" \notin programs /\ goOn /\ NoFault /\ UNCHANGED <<compiled, running>>
       \/ /\ "postmap" \in programs
          /\ \E postmap \in {"ok", "bad", "late"}, check \in {"ok", "bad"}, end \in {"ok", "bad", "gone"} :
               LET b == Backend("postfix", "reload")
                   fine == Synced(postmap, check, Success(b.with, end))
               IN
               /\ b.with = "noop" => end = "ok"
               /\ Does("postfix", b, end)
               /\ IF postmap = "ok" /\ check = "ok" THEN Cost(b, end) ELSE Fault
               /\ compiled' = IF postmap = "ok" THEN [compiled EXCEPT ![t] = table[t]] ELSE compiled
               /\ IF fine THEN goOn ELSE Finish(o, "error")
    /\ UNCHANGED <<table, intended, programs, mail, changes>>

Again(o) ==
    /\ op[o].at = "done"
    /\ op' = [op EXCEPT ![o] = Idle]
    /\ UNCHANGED <<table, compiled, intended, locks, programs, running, mail, changes, broken>>

-----------------------------------------------------------------------------
(* A message for a local address *)

(* LocalRecipients::lookup, aliases first; a file that cannot be read      *)
(* makes the answer "unavailable", and then the domain alone decides       *)
Lookup(a, aliasesRead, mailboxesRead) ==
    CASE ~aliasesRead -> "unavailable"
      [] aliasesRead /\ a \in table.aliases -> "known"
      [] aliasesRead /\ a \notin table.aliases /\ ~mailboxesRead -> "unavailable"
      [] OTHER -> IF a \in Mailboxes THEN "known" ELSE "missing"
Rcpt ==
    /\ mail = Idle
    /\ \E a \in Aliases \cup Mailboxes, r1 \in BOOLEAN, r2 \in BOOLEAN :
         /\ DomainOf(a) \in table.domains
         /\ IF r1 /\ r2 THEN NoFault ELSE Fault
         /\ mail' = [at |-> IF Lookup(a, r1, r2) = "missing" THEN "refused" ELSE "queued", to |-> a, said |-> Lookup(a, r1, r2)]
    /\ UNCHANGED <<table, compiled, intended, locks, op, programs, running, changes>>

(* SystemMaildirResolver::resolve: the local part among the passwd entries *)
Deliver ==
    /\ mail.at = "queued"
    /\ mail' = [mail EXCEPT !.at = IF AccountName(mail.to) \in Accounts THEN "delivered" ELSE "bounced"]
    /\ UNCHANGED <<table, compiled, intended, locks, op, programs, running, changes, broken>>

TablesInit ==
    /\ table = [domains |-> {"x"}, aliases |-> {"sales@x"}]
    /\ compiled = table /\ intended = table
    /\ locks = [t \in Tables |-> "none"]
    /\ op = [o \in Operators |-> Idle]
    /\ programs \in Hosts
    /\ \E up \in BOOLEAN : running = [u \in Units |-> up]
    /\ mail = Idle
    /\ changes = 0 /\ broken = 0

TablesNext ==
    \/ \E o \in Operators : ServiceAction(o) \/ Call(o) \/ TakeLock(o) \/ Read(o) \/ Write(o) \/ Sync(o) \/ Again(o)
    \/ Rcpt \/ Deliver

Spec == TablesInit /\ [][TablesNext]_tableVars

\* Assumed of the constants: the mark of a free lock is not an operator's name.
TablesConstants == "none" \notin Operators

-----------------------------------------------------------------------------
(* However calls overlap and fail, no written change is lost to another    *)
(* call's older copy of the table, and a call that answered success left   *)
(* Postfix with a compiled table equal to the text, unless a later change  *)
(* is under way or failed (locked_with, write_rows, require_postfix_sync). *)
NoChangeLost ==
    /\ table = intended
    /\ broken = 0 /\ "postmap" \in programs =>
         \A t \in Tables : locks[t] = "none" => compiled[t] = table[t]

(* A service action that answers success on a host with a service manager  *)
(* left the service as asked: a command that never started, or was killed  *)
(* at its deadline, is not a success (ServiceCtlOutcome::success).         *)
ServiceAnswer ==
    \A o \in Operators :
        op[o] = Idle /\ op'[o].at = "done" /\ op'[o].kind = "service" /\ op'[o].answer = "ok" /\ op'[o].with # "noop"
            => running'[op'[o].arg] = (op'[o].verb # "stop")
ServiceAnswerTrue == [][ServiceAnswer]_tableVars

(* The directory check at RCPT is there so that mail for a local address   *)
(* nobody can receive is refused in the session and never answered with a  *)
(* bounce: an address the directory called known is delivered.             *)
KnownIsDelivered == mail.at = "bounced" => mail.said # "known"
=============================================================================
