------------------------------ MODULE AuditLog ------------------------------
(***************************************************************************)
(* The audit log with its hash chain (crates/core/src/audit.rs), written   *)
(* by several processes under the lock file of atomic.rs.  A hash is the   *)
(* number of its record: no two records have the same.  A writer may die   *)
(* while it appends or before it renews the head file, and somebody may    *)
(* cut records off the end of the log.                                     *)
(***************************************************************************)
EXTENDS Naturals, Sequences, FiniteSetsExt

CONSTANTS
    Writers,     \* processes
    MaxRecords,  \* bound: records written
    MaxCuts      \* bound: times the log is cut

VARIABLES
    log,      \* the complete lines: [is, id, prev]
    tail,     \* the file ends with text that is no complete line
    head,     \* the head file: a hash, or 0 when there is none
    lock,     \* who holds audit.log.lock
    writer,   \* per writer, [at, prev]
    last,     \* the last hash used
    kept,     \* history: records whose audit call returned Ok
    done,     \* history: no audit call failed since the last one that returned Ok
    cuts, torn

auditVars == <<log, tail, head, lock, writer, last, kept, done, cuts, torn>>

Genesis == 0
Nobody == "nobody"
Free == [at |-> "idle", prev |-> Genesis]

AuditInit ==
    /\ log = <<>> /\ tail = FALSE /\ head = Genesis
    /\ lock = Nobody /\ writer = [w \in Writers |-> Free]
    /\ last = 0 /\ kept = {} /\ done = TRUE /\ cuts = 0 /\ torn = FALSE

IsRecord(line) == line.is = "record"
RecordsTo(n) == {i \in 1..n : IsRecord(log[i])}
Records == RecordsTo(Len(log))

\* The hash of the last record among the first n lines.
HashAt(n) == IF RecordsTo(n) = {} THEN Genesis ELSE log[Max(RecordsTo(n))].id

-----------------------------------------------------------------------------
(* audit *)

\* audit::audit takes the lock of the log.
Acquire(w) ==
    /\ writer[w].at = "idle" /\ lock = Nobody /\ last < MaxRecords
    /\ lock' = w /\ writer' = [writer EXCEPT ![w].at = "locked"]
    /\ UNCHANGED <<log, tail, head, last, kept, done, cuts, torn>>

PrevFromHead == head

\* read_last_audit_hash_strict: the last complete line that is a record.
LastAuditHash == HashAt(Len(log))

\* A log with text but no record near its end is not taken for a new chain.
Unreadable == Records = {} /\ (log # <<>> \/ tail)

Release(w) == lock' = Nobody /\ writer' = [writer EXCEPT ![w] = Free]

ReadLast(w) ==
    /\ writer[w].at = "locked"
    /\ IF Unreadable THEN Release(w) /\ done' = FALSE
       ELSE /\ writer' = [writer EXCEPT ![w] = [at |-> "append", prev |-> LastAuditHash]]
            /\ UNCHANGED <<lock, done>>
    /\ UNCHANGED <<log, tail, head, last, kept, cuts, torn>>

\* The line goes behind whatever the file ends with: text without an end of
\* line and the new record become one line that is no record.
AppendLine(w) ==
    /\ writer[w].at = "append"
    /\ last' = last + 1
    /\ log' = Append(log, [is |-> IF tail THEN "junk" ELSE "record", id |-> last + 1,
                           prev |-> writer[w].prev])
    /\ tail' = FALSE
    /\ writer' = [writer EXCEPT ![w].at = "head", ![w].prev = last + 1]
    /\ UNCHANGED <<head, lock, kept, done, cuts, torn>>

\* The head file is replaced atomically: atomic_as.
WriteHead(w) ==
    /\ writer[w].at = "head"
    /\ head' = writer[w].prev
    /\ kept' = kept \cup {writer[w].prev} /\ done' = TRUE
    /\ Release(w)
    /\ UNCHANGED <<log, tail, last, cuts, torn>>

\* The write of the head fails, or the process dies: the lock goes with it.
Dies(w) ==
    /\ writer[w].at # "idle"
    /\ Release(w) /\ done' = FALSE
    /\ UNCHANGED <<log, tail, head, last, kept, cuts, torn>>

\* It dies in the middle of the line.
DiesAppending(w) ==
    /\ writer[w].at = "append" /\ ~torn
    /\ tail' = TRUE /\ torn' = TRUE
    /\ Release(w) /\ done' = FALSE
    /\ UNCHANGED <<log, head, last, kept, cuts>>

\* Somebody takes lines off the end.
Cut ==
    /\ cuts < MaxCuts /\ log # <<>> /\ lock = Nobody
    /\ \E n \in 0..(Len(log) - 1) : log' = SubSeq(log, 1, n)
    /\ tail' = FALSE /\ cuts' = cuts + 1
    /\ UNCHANGED <<head, lock, writer, last, kept, done, torn>>

AuditNext ==
    \/ \E w \in Writers : Acquire(w) \/ ReadLast(w) \/ AppendLine(w) \/ WriteHead(w)
                          \/ Dies(w) \/ DiesAppending(w)
    \/ Cut

Spec == AuditInit /\ [][AuditNext]_auditVars

\* Assumed of the constants: the name for "nobody" is not a writer's.
AuditConstants == Nobody \notin Writers

-----------------------------------------------------------------------------
(* audit_verify *)

Linked == \A i \in Records : log[i].prev = HashAt(i - 1)

\* finish_verify: a head that is there must be the last record.
Anchored == head = Genesis \/ (Records # {} /\ LastAuditHash = head)

AuditVerify == Linked /\ Anchored /\ (\A i \in DOMAIN log : IsRecord(log[i])) /\ ~tail

\* The verdict is right about a log nobody touched: after an audit call that
\* returned Ok the chain verifies, also when writers died before it between
\* the record and the head; a log that was cut since does not verify.
VerdictTrue ==
    done /\ lock = Nobody /\ ~torn =>
        IF cuts = 0 THEN AuditVerify
        ELSE head \in {log[i].id : i \in Records} \/ ~AuditVerify

\* A record whose audit call returned Ok is in the chain, unless a writer died
\* in the middle of a line, which swallows the line written behind it.
RecordKept == cuts = 0 /\ ~torn => \A id \in kept : \E i \in Records : log[i].id = id
=============================================================================
