--------------------------- MODULE OutboundQueue ---------------------------
(***************************************************************************)
(* The outbound mail queue of mailstackd: the spool directory              *)
(* (crates/queue/src/store.rs), the delivery rounds over it                *)
(* (crates/queue/src/runner.rs, bin/mailstackd/src/queue.rs), the console  *)
(* operations on it (crates/priv/src/readers.rs, queue_action) and the     *)
(* failures between their steps.  Last, its retry policy                   *)
(* (crates/queue/src/backoff.rs).                                          *)
(*                                                                         *)
(* A queue file is the immutable envelope msg[m] and the mutable part      *)
(* spool[m].  Every holder of an entry (a round's snapshot, a delivery     *)
(* task, a console request) holds a copy, because the code reads the file  *)
(* once and writes the whole of it back.                                   *)
(***************************************************************************)
EXTENDS Integers, FiniteSets

CONSTANTS
    Runners,      \* processes that run delivery rounds over the one spool
    Ids,          \* queue ids
    Rcpts,        \* recipient addresses, the senders' addresses included
    LocalRcpts,   \* those in managed_domains (RelayPolicy::is_managed)
    Null,         \* the empty reverse path, and "no such file" elsewhere
    Envelopes,    \* [from, rcpts] of the messages producers may hand over
    Policy,       \* QueueConfig::backoff
    Threshold,    \* QueueConfig::blocked_threshold
    Permits,      \* QueueConfig::relay_concurrency
    ClaimTTL,     \* CLAIM_TTL_SECONDS
    MaxTime,      \* bound: the clock stops here, later deadlines move here
    MaxMessages,  \* bound: messages handed over by producers
    MaxFailures,  \* bound: consecutive_failures is counted up to this
    Budgets       \* bounds: how often each kind of mishap happens, below one of these

Mishaps == {"crash", "abort", "write", "dsn", "claim", "health",
            "reply", "receipt", "sign", "flush", "retry", "delete"}

-----------------------------------------------------------------------------
(* The retry policy.  A policy is a record of the four numbers that        *)
(* BackoffPolicy holds.  The jitter that the code derives from a hash of   *)
(* the queue id is modelled as the whole interval it can fall in: which    *)
(* point of it an id is given is data no property looks at.  Saturating    *)
(* u64 arithmetic never bites: the loop leaves at the first product that   *)
(* is not below max_secs.                                                  *)

Policies == [base_secs : Nat, factor : Nat, max_secs : Nat, max_attempts : Nat]

LesserOf(a, b) == IF a <= b THEN a ELSE b
GreaterOf(a, b) == IF a >= b THEN a ELSE b

(* saturating_sub *)
Monus(a, b) == GreaterOf(a - b, 0)

(* Mutant: the loop runs once too often. *)
NominalOnceMore(p, attempt) ==
    LET grown[k \in Nat] ==
          IF k = 0 THEN p.base_secs
          ELSE IF k > 1 /\ grown[k - 1] >= p.max_secs THEN p.max_secs
          ELSE grown[k - 1] * p.factor
    IN  IF attempt = 0 THEN 0 ELSE LesserOf(grown[attempt], p.max_secs)

(* The loop of nominal_delay_secs: the delay after k - 1 doublings, frozen *)
(* at max_secs by the early return.                                        *)
nominal_delay_secs(p, attempt) ==
    LET grown[k \in Nat] ==
          IF k <= 1 THEN p.base_secs
          ELSE IF k > 2 /\ grown[k - 1] >= p.max_secs THEN p.max_secs
          ELSE grown[k - 1] * p.factor
    IN  IF attempt = 0 THEN 0 ELSE LesserOf(grown[attempt], p.max_secs)

(* The interval delay_secs draws from: ten per cent around the nominal     *)
(* delay, one-sided at the cap.                                            *)
Lower(p, nominal) == GreaterOf(Monus(nominal, GreaterOf(nominal \div 10, 1)), 1)

Upper(p, nominal) ==
    IF nominal >= p.max_secs
    THEN nominal
    ELSE LesserOf(nominal + GreaterOf(nominal \div 10, 1), GreaterOf(p.max_secs, 1))

(* delay_secs for an id whose hash is h. *)
delay_secs(p, attempt, h) ==
    LET nominal == nominal_delay_secs(p, attempt)
        lower   == Lower(p, nominal)
        span    == Monus(Upper(p, nominal), lower)
    IN  IF nominal = 0 THEN 0 ELSE GreaterOf(lower + (h % (span + 1)), 1)

(* Every delay delay_secs can return. *)
Delays(p, attempt) ==
    LET nominal == nominal_delay_secs(p, attempt)
    IN  {d \in 0 .. GreaterOf(p.max_secs, 1) :
            IF nominal = 0 THEN d = 0
            ELSE Lower(p, nominal) <= d /\ d <= Upper(p, nominal)}

exhausted(p, attempts) == attempts >= p.max_attempts

-----------------------------------------------------------------------------
(* Assumptions on the constants *)

ASSUME IdsFinite == IsFiniteSet(Ids)
ASSUME NullIsNobody == Null \notin Rcpts
ASSUME LocalAreRcpts == LocalRcpts \subseteq Rcpts
ASSUME EnvelopesTyped == Envelopes \subseteq
           [from : Rcpts \cup {Null}, rcpts : (SUBSET Rcpts) \ {{}}]
ASSUME PolicyTyped == Policy \in Policies
ASSUME NumbersTyped == /\ {Threshold, Permits, ClaimTTL} \subseteq Nat
                       /\ {MaxTime, MaxMessages, MaxFailures} \subseteq Nat
ASSUME BudgetsTyped == Budgets \subseteq [Mishaps -> Nat]

VARIABLES
    now,          \* the clock
    msg,          \* envelope of each id ever enqueued: kind, from, rcpts
    spool,        \* entries/<id>.json: recipients, attempts, next attempt
    claims,       \* claims/<id>.claim: when the claim was taken
    savedHealth,  \* outbound-health.json: consecutive failures
    round,        \* per runner: "down", "idle" or "running"
    roundNow,     \* per runner: now_unix of the round
    due,          \* per runner: the copies the round has yet to claim
    halfOpenUsed, \* per runner: half_open_used
    failures,     \* per runner: health.consecutive_failures
    roundFails,   \* per runner: remote failures this round (history)
    task,         \* per runner and id: the process() task
    console,      \* the queue_action request being served
    mishap,       \* how often each kind of mishap has happened
    delivered,    \* pairs <<id, recipient>> some mailbox has received
    again,        \* pairs received a second time
    reported,     \* pairs a DSN was enqueued for
    rereported,   \* pairs a second DSN was enqueued for
    discarded,    \* pairs whose failure is dropped by the no-bounce rule
    deleted,      \* ids the console deleted
    dropped       \* pairs whose pending DSN died with its process

store   == <<msg, spool, claims>>
runner  == <<round, roundNow, due, halfOpenUsed, failures, roundFails>>
history == <<delivered, again, reported, rereported, discarded, deleted, dropped>>
vars    == <<now, store, savedHealth, runner, task, console, mishap, history>>

Entries == [file : BOOLEAN, rcpts : SUBSET Rcpts, attempts : Nat, next : Nat]
NoFile  == [file |-> FALSE, rcpts |-> {}, attempts |-> 0, next |-> 0]

Messages == [kind : {"none", "outbound", "bounce"}, from : Rcpts \cup {Null}, rcpts : SUBSET Rcpts]
NoMsg    == [kind |-> "none", from |-> Null, rcpts |-> {}]

(* Where process() is.  "permit", "local" and "remote" are its awaits; the *)
(* others are steps of its synchronous tail.                               *)
SyncTail == {"persist", "unlink", "writeback", "flush", "end"}
Stages   == {"none", "permit", "local", "gate", "remote"} \cup SyncTail
Tasks == [stage : Stages, rcpts : SUBSET Rcpts, attempts : Nat, next : Nat,
          mutated : BOOLEAN, pendLocal : SUBSET Rcpts, pendRemote : SUBSET Rcpts,
          bounceError : BOOLEAN]
NoTask == [stage |-> "none", rcpts |-> {}, attempts |-> 0, next |-> 0, mutated |-> FALSE,
           pendLocal |-> {}, pendRemote |-> {}, bounceError |-> FALSE]

Verbs == {"none", "flush", "retry", "delete"}

Type ==
    /\ now \in Nat
    /\ msg \in [Ids -> Messages]
    /\ spool \in [Ids -> Entries]
    /\ claims \in [Ids -> Nat \cup {-1}]
    /\ savedHealth \in Nat
    /\ round \in [Runners -> {"down", "idle", "running"}]
    /\ roundNow \in [Runners -> Nat]
    /\ due \in [Runners -> [Ids -> Entries]]
    /\ halfOpenUsed \in [Runners -> BOOLEAN]
    /\ failures \in [Runners -> Nat]
    /\ roundFails \in [Runners -> Nat]
    /\ task \in [Runners -> [Ids -> Tasks]]
    /\ console \in [verb : Verbs, copies : [Ids -> Entries]]
    /\ mishap \in [Mishaps -> Nat]
    /\ delivered \subseteq Ids \X Rcpts
    /\ again \subseteq Ids \X Rcpts
    /\ reported \subseteq Ids \X Rcpts
    /\ rereported \subseteq Ids \X Rcpts
    /\ discarded \subseteq Ids \X Rcpts
    /\ deleted \subseteq Ids
    /\ dropped \subseteq Ids \X Rcpts

NoCopies == [m \in Ids |-> NoFile]

Init ==
    /\ now = 0
    /\ msg = [m \in Ids |-> NoMsg]
    /\ spool = NoCopies
    /\ claims = [m \in Ids |-> -1]
    /\ savedHealth = 0
    /\ round = [r \in Runners |-> "idle"]
    /\ roundNow = [r \in Runners |-> 0]
    /\ due = [r \in Runners |-> NoCopies]
    /\ halfOpenUsed = [r \in Runners |-> FALSE]
    /\ failures = [r \in Runners |-> 0]
    /\ roundFails = [r \in Runners |-> 0]
    /\ task = [r \in Runners |-> [m \in Ids |-> NoTask]]
    /\ console = [verb |-> "none", copies |-> NoCopies]
    /\ mishap = [k \in Mishaps |-> 0]
    /\ delivered = {} /\ again = {} /\ reported = {} /\ rereported = {}
    /\ discarded = {} /\ deleted = {} /\ dropped = {}

-----------------------------------------------------------------------------
(* Bounds. *)

Deadline(t) == LesserOf(t, MaxTime)

(* A mishap of kind k happens, if some budget allows one more. *)
Happens(k) == /\ mishap' = [mishap EXCEPT ![k] = @ + 1]
              /\ \E budget \in Budgets : \A j \in Mishaps : mishap'[j] <= budget[j]

-----------------------------------------------------------------------------
(* The spool: crates/queue/src/store.rs. *)

(* claim_is_fresh: a claim file younger than the TTL as of t. *)
claim_is_fresh(m, t) == claims[m] # -1 /\ t - claims[m] < ClaimTTL

is_due(e, t) == e.file /\ e.next <= t

(* Mutant: backdated so that it is due at once. *)
NewEntryBackdated(rcpts, t) == [file |-> TRUE, rcpts |-> rcpts, attempts |-> 0, next |-> t - 1]

NewEntry(rcpts, t) == [file |-> TRUE, rcpts |-> rcpts, attempts |-> 0, next |-> t]

Unused(m) == msg[m].kind = "none"

(* A producer (smtpd's QueueSink, webmail's send, a sieve redirect) hands  *)
(* over a message: enqueue_new writes it under an id no entry has.         *)
Enqueue(m, env) ==
    /\ Unused(m)
    /\ Cardinality({i \in Ids : msg[i].kind = "outbound"}) < MaxMessages
    /\ msg' = [msg EXCEPT ![m] = [kind |-> "outbound", from |-> env.from,
                                  rcpts |-> env.rcpts]]
    /\ spool' = [spool EXCEPT ![m] = NewEntry(env.rcpts, now)]
    /\ UNCHANGED <<now, claims, savedHealth, runner, task, console, mishap, history>>

-----------------------------------------------------------------------------
(* A round: QueueRunner::run_once, started by the scheduler's ticker. *)

(* The scan at the head of the round: prune_claims, claimed_ids, load_due  *)
(* and the filter, all as of one now_unix.  The compare_exchange on        *)
(* round_in_flight is the guard.                                           *)
StartRound(r) ==
    /\ round[r] = "idle"
    /\ round' = [round EXCEPT ![r] = "running"]
    /\ roundNow' = [roundNow EXCEPT ![r] = now]
    /\ halfOpenUsed' = [halfOpenUsed EXCEPT ![r] = FALSE]
    /\ roundFails' = [roundFails EXCEPT ![r] = 0]
    /\ claims' = [m \in Ids |-> IF claim_is_fresh(m, now) THEN claims[m] ELSE -1]
    /\ due' = [due EXCEPT ![r] = [m \in Ids |->
                  IF is_due(spool[m], now) /\ ~claim_is_fresh(m, now)
                  THEN spool[m] ELSE NoFile]]
    /\ UNCHANGED <<now, msg, spool, savedHealth, failures, task, console, mishap, history>>

(* process(entry): the task starts from the snapshot's copy, not from the  *)
(* file as it is now.                                                      *)
Spawned(e) == [stage |-> "permit", rcpts |-> e.rcpts, attempts |-> e.attempts,
               next |-> e.next, mutated |-> FALSE, pendLocal |-> {},
               pendRemote |-> {}, bounceError |-> FALSE]

(* try_claim for one entry of the snapshot; the claim carries the round's  *)
(* start, and a stale claim is taken over.                                 *)
ClaimEntry(r, m) ==
    /\ round[r] = "running" /\ due[r][m].file
    /\ due' = [due EXCEPT ![r][m] = NoFile]
    /\ \/ /\ ~claim_is_fresh(m, roundNow[r])
          /\ claims' = [claims EXCEPT ![m] = roundNow[r]]
          /\ task' = [task EXCEPT ![r][m] = Spawned(due[r][m])]
          /\ UNCHANGED mishap
       \/ /\ claim_is_fresh(m, roundNow[r])
          /\ UNCHANGED <<claims, task, mishap>>
       \/ /\ Happens("claim")
          /\ UNCHANGED <<claims, task>>
    /\ UNCHANGED <<now, msg, spool, savedHealth, round, roundNow, halfOpenUsed,
                   failures, roundFails, console, history>>

Live(r) == {m \in Ids : task[r][m].stage # "none"}

(* All entries claimed and all tasks joined: save_health ends the round,   *)
(* whether or not the health file could be written.                        *)
EndRound(r) ==
    /\ round[r] = "running"
    /\ \A m \in Ids : ~due[r][m].file
    /\ Live(r) = {}
    /\ round' = [round EXCEPT ![r] = "idle"]
    /\ \/ savedHealth' = failures[r] /\ UNCHANGED mishap
       \/ Happens("health") /\ UNCHANGED savedHealth
    /\ UNCHANGED <<now, store, roundNow, due, halfOpenUsed, failures, roundFails,
                   task, console, history>>

-----------------------------------------------------------------------------
(* A task: QueueRunner::process. *)

AtStage(t, stage) == [t EXCEPT !.stage = stage]

LocalOf(t)  == t.rcpts \cap LocalRcpts
RemoteOf(t) == t.rcpts \ LocalRcpts

PermitHolders(r) == {m \in Live(r) : task[r][m].stage # "permit"}

AcquirePermit(r, m) ==
    /\ m \in Live(r) /\ task[r][m].stage = "permit"
    /\ Cardinality(PermitHolders(r)) < GreaterOf(Permits, 1)
    /\ task' = [task EXCEPT ![r][m] =
                   AtStage(@, IF LocalOf(task[r][m]) # {} THEN "local" ELSE "gate")]
    /\ UNCHANGED <<now, store, savedHealth, runner, console, mishap, history>>

(* What a transport can answer for a group of recipients, and which of     *)
(* them really received the message.  "ok" is a receipt for all of them,   *)
(* "short" a receipt whose count is not theirs; the failures carry the     *)
(* recipients known to have been accepted.                                 *)
Answers(group) ==
         [class : {"ok"}, accepted : {group}]
    \cup [class : {"transient", "permanent"}, accepted : SUBSET group]

(* One answer arrives: its class, what it reports and what was reached,    *)
(* and the mishap it is.  A lost reply is a transient failure that reports *)
(* nothing although the message went through.                              *)
Answered(group, class, accepted, reached) ==
    \/ /\ [class |-> class, accepted |-> accepted] \in Answers(group)
       /\ reached = accepted
       /\ UNCHANGED mishap
    \/ /\ class = "transient" /\ accepted = {} /\ reached # {}
       /\ Happens("reply")
    \/ /\ class = "short" /\ accepted = {}
       /\ Happens("receipt")

(* What the recipients' mailboxes have received once pairs reach them. *)
Receive(pairs) ==
    /\ delivered' = delivered \cup pairs
    /\ again' = again \cup (delivered \cap pairs)
    /\ UNCHANGED <<reported, rereported, discarded, deleted, dropped>>

(* Mutant: the delivered recipients stay on the entry. *)
DoneKeepsRecipients(t, group, stage) ==
    [stage |-> stage, rcpts |-> t.rcpts, attempts |-> t.attempts, next |-> t.next,
     mutated |-> TRUE, pendLocal |-> t.pendLocal, pendRemote |-> t.pendRemote,
     bounceError |-> t.bounceError]

(* A receipt for the whole group: its recipients are done. *)
Done(t, group, stage) ==
    [stage |-> stage, rcpts |-> t.rcpts \ group, attempts |-> t.attempts, next |-> t.next,
     mutated |-> TRUE, pendLocal |-> t.pendLocal, pendRemote |-> t.pendRemote,
     bounceError |-> t.bounceError]

(* Mutants of apply_failure: the failed recipients are removed without a   *)
(* bounce; the accepted ones count as failed; the attempt is not counted.  *)
FailedSilently(t, group, class, accepted, at, stage) ==
    LET final == class = "permanent" \/ exhausted(Policy, t.attempts + 1)
    IN  [stage |-> stage, rcpts |-> t.rcpts \ (IF final THEN group ELSE accepted),
         attempts |-> t.attempts + 1, next |-> at, mutated |-> TRUE,
         pendLocal |-> t.pendLocal, pendRemote |-> t.pendRemote, bounceError |-> t.bounceError]

FailedBouncesAll(t, group, class, accepted, at, stage) ==
    LET final == class = "permanent" \/ exhausted(Policy, t.attempts + 1)
    IN  [stage |-> stage, rcpts |-> IF final THEN t.rcpts \ group ELSE t.rcpts,
         attempts |-> t.attempts + 1, next |-> at, mutated |-> TRUE,
         pendLocal |-> IF final /\ t.stage = "local" THEN group ELSE t.pendLocal,
         pendRemote |-> IF final /\ t.stage = "remote" THEN group ELSE t.pendRemote,
         bounceError |-> t.bounceError]

FailedUncounted(t, group, class, accepted, at, stage) ==
    [stage |-> stage, rcpts |-> t.rcpts \ accepted, attempts |-> t.attempts, next |-> at,
     mutated |-> TRUE, pendLocal |-> t.pendLocal, pendRemote |-> t.pendRemote,
     bounceError |-> t.bounceError]

(* apply_failure for one group: what was accepted is settled; the rest is  *)
(* handed to the bounces when the failure is permanent or the retries are  *)
(* used up, and otherwise put off until at.                                *)
Failed(t, group, class, accepted, at, stage) ==
    LET failed   == group \ accepted
        retried  == class = "transient" /\ failed # {}
        attempts == IF retried THEN t.attempts + 1 ELSE t.attempts
        final    == class = "permanent" \/ exhausted(Policy, attempts)
        bounced  == IF final THEN failed ELSE {}
    IN  [stage       |-> stage,
         rcpts       |-> t.rcpts \ (accepted \cup bounced),
         attempts    |-> attempts,
         next        |-> IF retried THEN at ELSE t.next,
         mutated     |-> TRUE,
         pendLocal   |-> IF t.stage = "local" THEN t.pendLocal \cup bounced ELSE t.pendLocal,
         pendRemote  |-> IF t.stage = "remote" THEN t.pendRemote \cup bounced ELSE t.pendRemote,
         bounceError |-> t.bounceError]

(* The local half: a short receipt returns at once, nothing is written.    *)
AfterLocal(t, class, accepted, at) ==
    CASE class = "short" -> AtStage(t, "end")
      [] class = "ok"    -> Done(t, LocalOf(t), "gate")
      [] OTHER           -> Failed(t, LocalOf(t), class, accepted, at, "gate")

(* The remote half: a short receipt writes back what the local half        *)
(* achieved and flushes its bounces before it returns.                     *)
AfterRemote(t, class, accepted, at) ==
    CASE class = "short" -> AtStage(t, IF t.mutated THEN "writeback" ELSE "end")
      [] class = "ok"    -> Done(t, RemoteOf(t), "persist")
      [] OTHER           -> Failed(t, RemoteOf(t), class, accepted, at, "persist")

(* The local transport answers. *)
DeliverLocal(r, m) ==
    LET t == task[r][m] group == LocalOf(t) IN
    /\ m \in Live(r) /\ t.stage = "local"
    /\ \E class \in {"ok", "transient", "permanent", "short"}, reached \in SUBSET group :
       \E accepted \in {{}, reached} :
         /\ Answered(group, class, accepted, reached)
         /\ Receive({m} \X reached)
         /\ \E delay \in Delays(Policy, t.attempts + 1) :
              task' = [task EXCEPT ![r][m] =
                          AfterLocal(t, class, accepted, Deadline(roundNow[r] + delay))]
    /\ UNCHANGED <<now, store, savedHealth, runner, console>>

Blocked(r) == failures[r] >= GreaterOf(Threshold, 1)

(* Mutant: the half-open probe is never used up. *)
GateNeverCloses(r, m) ==
    /\ m \in Live(r) /\ task[r][m].stage = "gate"
    /\ task' = [task EXCEPT ![r][m] =
                   AtStage(@, IF RemoteOf(task[r][m]) = {} THEN "persist" ELSE "remote")]
    /\ UNCHANGED <<now, store, savedHealth, runner, console, mishap, history>>

(* may_attempt_remote: below the threshold, or the first to take the       *)
(* round's half-open probe; otherwise the remote recipients are left as    *)
(* they are.                                                               *)
Gate(r, m) ==
    LET t == task[r][m] IN
    /\ m \in Live(r) /\ t.stage = "gate"
    /\ IF RemoteOf(t) = {} \/ (Blocked(r) /\ halfOpenUsed[r])
       THEN /\ task' = [task EXCEPT ![r][m] = AtStage(@, "persist")]
            /\ UNCHANGED halfOpenUsed
       ELSE /\ task' = [task EXCEPT ![r][m] = AtStage(@, "remote")]
            /\ halfOpenUsed' = [halfOpenUsed EXCEPT ![r] = @ \/ Blocked(r)]
    /\ UNCHANGED <<now, store, savedHealth, round, roundNow, due, failures, roundFails,
                   console, mishap, history>>

(* record_remote_success / record_remote_failure: permanent failures and   *)
(* local faults do not count against the route.                            *)
RecordHealth(r, class, localFault) ==
    /\ failures' = [failures EXCEPT ![r] =
          CASE class = "ok" -> 0
            [] class = "transient" /\ ~localFault -> LesserOf(@ + 1, MaxFailures)
            [] OTHER -> @]
    /\ roundFails' = [roundFails EXCEPT ![r] =
          IF class = "transient" /\ ~localFault THEN LesserOf(@ + 1, MaxFailures) ELSE @]

(* The remote transport answers. *)
DeliverRemote(r, m) ==
    LET t == task[r][m] group == RemoteOf(t) IN
    /\ m \in Live(r) /\ t.stage = "remote"
    /\ \E class \in {"ok", "transient", "permanent", "short"}, reached \in SUBSET group :
       \E accepted \in {{}, reached}, localFault \in BOOLEAN :
         /\ IF localFault THEN class = "transient" /\ reached = {} /\ Happens("sign")
                          ELSE Answered(group, class, accepted, reached)
         /\ Receive({m} \X reached)
         /\ RecordHealth(r, class, localFault)
         /\ \E delay \in Delays(Policy, t.attempts + 1) :
              task' = [task EXCEPT ![r][m] =
                          AfterRemote(t, class, accepted, Deadline(roundNow[r] + delay))]
    /\ UNCHANGED <<now, store, savedHealth, round, roundNow, due, halfOpenUsed, console>>

FileOf(t) == [file |-> TRUE, rcpts |-> t.rcpts, attempts |-> t.attempts, next |-> t.next]

(* Mutant: a failed write is only logged and the bounces are sent anyway.  *)
PersistBestEffort(r, m) ==
    LET t == task[r][m] IN
    /\ m \in Live(r) /\ t.stage = "persist"
    /\ task' = [task EXCEPT ![r][m] = AtStage(@, "flush")]
    /\ \/ Happens("write") /\ UNCHANGED spool
       \/ /\ spool' = [spool EXCEPT ![m] = IF t.rcpts = {} THEN NoFile ELSE FileOf(t)]
          /\ UNCHANGED mishap
    /\ UNCHANGED <<now, msg, claims, savedHealth, runner, console, history>>

(* The outcome reaches the disk before any bounce does.  store.remove      *)
(* gives the claim up first and unlinks the file second; a failed write    *)
(* ends the task with its bounces unsent.                                  *)
Persist(r, m) ==
    LET t == task[r][m] IN
    /\ m \in Live(r) /\ t.stage = "persist"
    /\ \/ /\ t.rcpts = {}
          /\ claims' = [claims EXCEPT ![m] = -1]
          /\ task' = [task EXCEPT ![r][m] = AtStage(@, "unlink")]
          /\ UNCHANGED <<spool, mishap>>
       \/ /\ t.rcpts # {} /\ ~t.mutated
          /\ task' = [task EXCEPT ![r][m] = AtStage(@, "flush")]
          /\ UNCHANGED <<spool, claims, mishap>>
       \/ /\ t.rcpts # {} /\ t.mutated
          /\ spool' = [spool EXCEPT ![m] = FileOf(t)]
          /\ task' = [task EXCEPT ![r][m] = AtStage(@, "flush")]
          /\ UNCHANGED <<claims, mishap>>
       \/ /\ t.rcpts # {} /\ t.mutated
          /\ Happens("write")
          /\ task' = [task EXCEPT ![r][m] = AtStage(@, "end")]
          /\ UNCHANGED <<spool, claims>>
    /\ UNCHANGED <<now, msg, savedHealth, runner, console, history>>

Unlink(r, m) ==
    /\ m \in Live(r) /\ task[r][m].stage = "unlink"
    /\ \/ /\ spool' = [spool EXCEPT ![m] = NoFile]
          /\ task' = [task EXCEPT ![r][m] = AtStage(@, "flush")]
          /\ UNCHANGED mishap
       \/ /\ Happens("write")
          /\ task' = [task EXCEPT ![r][m] = AtStage(@, "end")]
          /\ UNCHANGED spool
    /\ UNCHANGED <<now, msg, claims, savedHealth, runner, console, history>>

(* persist_best_effort on the short-receipt path: an error is only logged. *)
WriteBack(r, m) ==
    /\ m \in Live(r) /\ task[r][m].stage = "writeback"
    /\ \/ spool' = [spool EXCEPT ![m] = FileOf(task[r][m])] /\ UNCHANGED mishap
       \/ Happens("write") /\ UNCHANGED spool
    /\ task' = [task EXCEPT ![r][m] = AtStage(@, "flush")]
    /\ UNCHANGED <<now, msg, claims, savedHealth, runner, console, history>>

(* The pending groups are flushed in order; given back, the recipients of  *)
(* one return to the entry.                                                *)
NextBounce(t) == IF t.pendLocal # {} THEN t.pendLocal ELSE t.pendRemote

Flushed(t, back, error) ==
    [stage |-> "flush", rcpts |-> t.rcpts \cup back, attempts |-> t.attempts, next |-> t.next,
     mutated |-> t.mutated, pendLocal |-> {},
     pendRemote |-> IF t.pendLocal # {} THEN t.pendRemote ELSE {},
     bounceError |-> t.bounceError \/ error]

(* bounce() for the pending groups in order, the local one first: a null   *)
(* sender or a DSN is never bounced, and a DSN that cannot be enqueued     *)
(* gives its recipients back to the entry.                                 *)
FlushBounce(r, m) ==
    LET t      == task[r][m]
        failed == NextBounce(t)
        pairs  == {m} \X failed
    IN
    /\ m \in Live(r) /\ t.stage = "flush" /\ failed # {}
    /\ \/ /\ msg[m].kind = "bounce" \/ msg[m].from = Null
          /\ discarded' = discarded \cup pairs
          /\ task' = [task EXCEPT ![r][m] = Flushed(t, {}, FALSE)]
          /\ UNCHANGED <<msg, spool, mishap, reported, rereported>>
       \/ /\ msg[m].kind = "outbound" /\ msg[m].from # Null
          /\ \E d \in Ids :
               /\ Unused(d)
               /\ msg' = [msg EXCEPT ![d] = [kind |-> "bounce", from |-> Null,
                                             rcpts |-> {msg[m].from}]]
               /\ spool' = [spool EXCEPT ![d] = NewEntry({msg[m].from}, roundNow[r])]
          /\ reported' = reported \cup pairs
          /\ rereported' = rereported \cup (reported \cap pairs)
          /\ task' = [task EXCEPT ![r][m] = Flushed(t, {}, FALSE)]
          /\ UNCHANGED <<mishap, discarded>>
       \/ /\ msg[m].kind = "outbound" /\ msg[m].from # Null
          /\ Happens("dsn")
          /\ task' = [task EXCEPT ![r][m] = Flushed(t, failed, TRUE)]
          /\ UNCHANGED <<msg, spool, reported, rereported, discarded>>
    /\ UNCHANGED <<now, claims, savedHealth, runner, console, delivered, again, deleted, dropped>>

(* Mutant: the recipients given back are not written. *)
FlushEndForgets(r, m) ==
    LET t == task[r][m] IN
    /\ m \in Live(r) /\ t.stage = "flush" /\ t.pendLocal = {} /\ t.pendRemote = {}
    /\ task' = [task EXCEPT ![r][m] = AtStage(@, "end")]
    /\ UNCHANGED <<now, store, savedHealth, runner, console, mishap, history>>

(* The end of flush_bounces: after an error the entry, with the recipients *)
(* given back, is written once more, best effort.                          *)
FlushEnd(r, m) ==
    LET t == task[r][m] IN
    /\ m \in Live(r) /\ t.stage = "flush" /\ t.pendLocal = {} /\ t.pendRemote = {}
    /\ \/ ~t.bounceError /\ UNCHANGED <<spool, mishap>>
       \/ t.bounceError /\ spool' = [spool EXCEPT ![m] = FileOf(t)] /\ UNCHANGED mishap
       \/ t.bounceError /\ Happens("write") /\ UNCHANGED spool
    /\ task' = [task EXCEPT ![r][m] = AtStage(@, "end")]
    /\ UNCHANGED <<now, msg, claims, savedHealth, runner, console, history>>

(* The guards drop: the permit comes free and ClaimGuard removes the claim *)
(* file, whoever wrote it.                                                 *)
TaskEnd(r, m) ==
    /\ m \in Live(r) /\ task[r][m].stage = "end"
    /\ task' = [task EXCEPT ![r][m] = NoTask]
    /\ claims' = [claims EXCEPT ![m] = -1]
    /\ UNCHANGED <<now, msg, spool, savedHealth, runner, console, mishap, history>>

-----------------------------------------------------------------------------
(* The console: queue_action.  It takes no claim and looks at none. *)

Requeued(e, attempts) ==
    [file |-> TRUE, rcpts |-> e.rcpts, attempts |-> attempts, next |-> now]

(* flush and retry read the whole spool first ... *)
ConsoleRead(verb, copies) ==
    /\ console.verb = "none"
    /\ Happens(verb)
    /\ console' = [verb |-> verb, copies |-> copies]
    /\ UNCHANGED <<now, store, savedHealth, runner, task, history>>

ConsoleFlush ==
    ConsoleRead("flush", [m \in Ids |->
        IF spool[m].file /\ ~is_due(spool[m], now)
        THEN Requeued(spool[m], spool[m].attempts) ELSE NoFile])

ConsoleRetry(m) ==
    /\ spool[m].file
    /\ ConsoleRead("retry", [i \in Ids |->
           IF i = m THEN Requeued(spool[m], 0) ELSE NoFile])

ConsoleForgets(m) ==
    console' = [verb |-> console.verb, copies |-> [console.copies EXCEPT ![m] = NoFile]]

(* ... and write each copy back over whatever the file has become. *)
ConsoleWrite(m) ==
    /\ console.verb \in {"flush", "retry"} /\ console.copies[m].file
    /\ spool' = [spool EXCEPT ![m] = console.copies[m]]
    /\ ConsoleForgets(m)
    /\ UNCHANGED <<now, msg, claims, savedHealth, runner, task, mishap, history>>

(* delete is store.remove: the claim goes first, then the file. *)
ConsoleDelete(m) ==
    /\ console.verb = "none" /\ ~Unused(m)
    /\ Happens("delete")
    /\ claims' = [claims EXCEPT ![m] = -1]
    /\ console' = [verb |-> "delete", copies |-> [NoCopies EXCEPT ![m] = NewEntry({}, now)]]
    /\ UNCHANGED <<now, msg, spool, savedHealth, runner, task, history>>

ConsoleUnlink(m) ==
    /\ console.verb = "delete" /\ console.copies[m].file
    /\ spool' = [spool EXCEPT ![m] = NoFile]
    /\ deleted' = IF spool[m].file THEN deleted \cup {m} ELSE deleted
    /\ ConsoleForgets(m)
    /\ UNCHANGED <<now, msg, claims, savedHealth, runner, task, mishap, delivered, again,
                   reported, rereported, discarded, dropped>>

(* A write or unlink fails and the request ends with its error: what it    *)
(* had not written yet stays as it is.                                     *)
ConsoleFails ==
    /\ console.copies # NoCopies
    /\ Happens("write")
    /\ console' = [verb |-> "none", copies |-> NoCopies]
    /\ UNCHANGED <<now, store, savedHealth, runner, task, history>>

ConsoleDone ==
    /\ console.verb # "none" /\ console.copies = NoCopies
    /\ console' = [verb |-> "none", copies |-> NoCopies]
    /\ UNCHANGED <<now, store, savedHealth, runner, task, mishap, history>>

-----------------------------------------------------------------------------
(* The process: kill, aborted shutdown, restart; and time. *)

(* Recipients that only the memory of a flushing task still knows of: not  *)
(* yet reported, or given back and not yet written back.                   *)
Pending(r, m) ==
    LET t == task[r][m] IN
    IF t.stage # "flush" THEN {}
    ELSE t.pendLocal \cup t.pendRemote \cup (IF t.bounceError THEN t.rcpts ELSE {})

Stopped(r) ==
    /\ round' = [round EXCEPT ![r] = "down"]
    /\ due' = [due EXCEPT ![r] = NoCopies]
    /\ task' = [task EXCEPT ![r] = [m \in Ids |-> NoTask]]
    /\ UNCHANGED <<roundNow, halfOpenUsed, failures, roundFails>>

(* SIGKILL or power loss at any step: memory goes, claim files stay.  The  *)
(* guard leaves a stale claim time to expire before the clock stops.       *)
Crash(r) ==
    /\ round[r] # "down" /\ now + ClaimTTL <= MaxTime
    /\ Happens("crash")
    /\ Stopped(r)
    /\ dropped' = dropped \cup {p \in Ids \X Rcpts : p[2] \in Pending(r, p[1])}
    /\ UNCHANGED <<now, store, savedHealth, console, delivered, again, reported,
                   rereported, discarded, deleted>>

(* What a transport call cut off before its answer may have handed over. *)
InTransit(r) ==
    {p \in Ids \X Rcpts :
        \/ task[r][p[1]].stage = "local"  /\ p[2] \in LocalOf(task[r][p[1]])
        \/ task[r][p[1]].stage = "remote" /\ p[2] \in RemoteOf(task[r][p[1]])}

(* A shutdown that outlasts ROUND_TIMEOUT aborts the round: the tasks are  *)
(* dropped at an await (their synchronous tails run to completion first),  *)
(* and every dropped ClaimGuard removes its claim.                         *)
Abort(r) ==
    /\ round[r] = "running"
    /\ \A m \in Live(r) : task[r][m].stage \notin SyncTail
    /\ Happens("abort")
    /\ Stopped(r)
    /\ claims' = [m \in Ids |-> IF m \in Live(r) THEN -1 ELSE claims[m]]
    /\ \E pairs \in SUBSET InTransit(r) : Receive(pairs)
    /\ UNCHANGED <<now, msg, spool, savedHealth, console>>

(* QueueRunner::new: the verdict is read back from the health file. *)
Restart(r) ==
    /\ round[r] = "down"
    /\ round' = [round EXCEPT ![r] = "idle"]
    /\ failures' = [failures EXCEPT ![r] = savedHealth]
    /\ halfOpenUsed' = [halfOpenUsed EXCEPT ![r] = FALSE]
    /\ UNCHANGED <<now, store, savedHealth, roundNow, due, roundFails, task, console,
                   mishap, history>>

Tick ==
    /\ now < MaxTime
    /\ now' = now + 1
    /\ UNCHANGED <<store, savedHealth, runner, task, console, mishap, history>>

-----------------------------------------------------------------------------

TaskStep(r, m) ==
    \/ AcquirePermit(r, m) \/ DeliverLocal(r, m) \/ Gate(r, m) \/ DeliverRemote(r, m)
    \/ Persist(r, m) \/ Unlink(r, m) \/ WriteBack(r, m)
    \/ FlushBounce(r, m) \/ FlushEnd(r, m) \/ TaskEnd(r, m)

RunnerStep(r) ==
    \/ StartRound(r) \/ EndRound(r) \/ Restart(r)
    \/ \E m \in Ids : ClaimEntry(r, m) \/ TaskStep(r, m)

ConsoleStep ==
    \/ ConsoleFlush \/ ConsoleFails \/ ConsoleDone
    \/ \E m \in Ids : ConsoleRetry(m) \/ ConsoleWrite(m) \/ ConsoleDelete(m) \/ ConsoleUnlink(m)

Next ==
    \/ \E m \in Ids, env \in Envelopes : Enqueue(m, env)
    \/ \E r \in Runners : RunnerStep(r) \/ Crash(r) \/ Abort(r)
    \/ ConsoleStep
    \/ Tick

Spec == Init /\ [][Next]_vars

(* The scheduler keeps starting rounds and every transport call ends by    *)
(* its timeout, so a runner always gets to its next step; the console's    *)
(* request handler runs to its end; time passes.  Nothing is assumed about *)
(* which of its tasks a runner serves first.                               *)
ConsoleEnds == ConsoleDone \/ \E m \in Ids : ConsoleWrite(m) \/ ConsoleUnlink(m)

Fairness ==
    /\ \A r \in Runners : WF_vars(RunnerStep(r))
    /\ WF_vars(ConsoleEnds)
    /\ WF_vars(Tick)

FairSpec == Spec /\ Fairness

-----------------------------------------------------------------------------
(* Properties. *)

Waiting(m)    == IF spool[m].file THEN spool[m].rcpts ELSE {}
InFlush(m, x) == \E r \in Runners : x \in Pending(r, m)

(* Recipient x of message m is taken care of: still queued, delivered,     *)
(* reported to the sender, dropped by the rule against bouncing bounces,   *)
(* deleted by the operator, or about to be reported by a running task.     *)
Accounted(m, x) ==
    \/ x \in Waiting(m) \/ InFlush(m, x)
    \/ <<m, x>> \in delivered \cup reported \cup discarded
    \/ m \in deleted

Never(kinds) == \A k \in kinds : mishap[k] = 0

(* mailstackd creates one QueueRunner; the claim files exist for others.   *)
OneRunner == \A r, q \in Runners : r = q

(* Every DSN could be written, or the recipients it gave back were written *)
(* back by the one runner with no console request in the way.  A console   *)
(* flush or retry that read the entry while they were pending in memory,   *)
(* or a second runner's snapshot from that time, writes the entry without  *)
(* them once they are back (readers.rs, queue_action, takes no claim).     *)
ReturnsUndisturbed ==
    \/ Never({"dsn"})
    \/ Never({"write", "flush", "retry"}) /\ OneRunner

(* Nothing the queue accepted ever vanishes: for every recipient the spool *)
(* still has it, or process() has settled it, whatever the rounds, the     *)
(* console and the failing writes do in between (runner.rs, the order of   *)
(* process(), apply_failure and flush_bounces), unless the process is      *)
(* killed or the return of an unreported recipient is disturbed.           *)
AllAccounted ==
    Never({"crash"}) /\ ReturnsUndisturbed =>
      \A m \in Ids : ~Unused(m) => \A x \in msg[m].rcpts : Accounted(m, x)

(* The same when processes die, any number of times: the only recipients   *)
(* that can vanish are those whose DSN was pending, in memory only, when   *)
(* the process died after persisting their removal.                        *)
LostOnlyInBounceWindow ==
    ReturnsUndisturbed =>
      \A m \in Ids : ~Unused(m) =>
        \A x \in msg[m].rcpts : Accounted(m, x) \/ <<m, x>> \in dropped

(* The inductive strengthening of LostOnlyInBounceWindow.  A recipient is  *)
(* settled once some fate other than waiting in a copy is certain ...      *)
Settled(m, x) ==
    \/ InFlush(m, x)
    \/ <<m, x>> \in delivered \cup reported \cup discarded \cup dropped
    \/ m \in deleted

Covers(m, S) == \A x \in msg[m].rcpts : x \in S \/ Settled(m, x)

CopyCovers(m, e) == e.file => ~Unused(m) /\ Covers(m, e.rcpts)

Held(t) == t.rcpts \cup t.pendLocal \cup t.pendRemote

SpoolCovered == \A m \in Ids : /\ spool[m].file => ~Unused(m)
                               /\ ~Unused(m) => Covers(m, Waiting(m))

DueCovered == \A r \in Runners, m \in Ids : CopyCovers(m, due[r][m])

TasksCovered == \A r \in Runners : \A m \in Live(r) :
    /\ ~Unused(m)
    /\ task[r][m].stage # "end" => Covers(m, Held(task[r][m]))
    /\ task[r][m].stage = "unlink" => task[r][m].rcpts = {}
    /\ task[r][m].bounceError => task[r][m].stage \in {"flush", "end"}

ConsoleCovered == console.verb # "delete" => \A m \in Ids : CopyCovers(m, console.copies[m])

(* ... and every copy of an entry, wherever a round, a task or the console *)
(* holds it and however stale it is, still names the recipients that are   *)
(* not settled: writing it back can resurrect a recipient, never lose one. *)
CopiesCovered ==
    ReturnsUndisturbed => SpoolCovered /\ DueCovered /\ TasksCovered /\ ConsoleCovered

(* What makes the queue try again what was already settled: a delivery cut *)
(* off or misreported, an entry that cannot be written, a stale console    *)
(* write.                                                                  *)
Interrupted == {"crash", "abort"}
Misled      == {"reply", "receipt", "write", "flush", "retry"}

(* No mailbox receives a message twice: what a transport accepted is off   *)
(* the spool before the entry can be claimed again, also when a DSN, a     *)
(* claim or the health file cannot be written, the signer fails or the     *)
(* console deletes the entry.                                              *)
NoDuplicate == Never(Interrupted \cup Misled) => again = {}

(* What docs/REVIEW_FIXES.md says of interrupted deliveries: as long as no *)
(* claim can be older than its TTL, nothing is delivered again.            *)
LeaseHolds == Never(Misled) /\ now < ClaimTTL => again = {}

(* One fate per recipient: never delivered and also reported as failed     *)
(* under the same conditions.                                              *)
OneFate == Never(Interrupted \cup Misled) => delivered \cap (reported \cup discarded) = {}

(* A recipient's failure is reported at most once even when the process    *)
(* dies or a write fails in the middle: the removal is on disk before the  *)
(* DSN is.  Only a stale console write can bring the recipient back, or a  *)
(* short receipt whose best-effort write fails as well.                    *)
ReportedOnce ==
    Never({"flush", "retry"}) /\ (Never({"receipt"}) \/ Never({"write"})) => rereported = {}

(* A blocked route is not hammered: in a round that finds the route        *)
(* blocked, and as long as nothing gets through, at most one attempt       *)
(* fails, however many entries and permits there are (may_attempt_remote). *)
(* The health file tells how the one runner began the round; a second one  *)
(* would write its own verdict there.                                      *)
RouteSpared == OneRunner => \A r \in Runners :
    /\ mishap["health"] = 0 /\ savedHealth >= GreaterOf(Threshold, 1)
    /\ failures[r] = savedHealth + roundFails[r]
    => roundFails[r] <= 1

(* Every message leaves the queue in the end: delivered, reported or       *)
(* discarded within the retry budget, whatever finite number of mishaps    *)
(* interferes.                                                             *)
HasLeft(m) == ~spool[m].file
Drains == \A m \in Ids : ~Unused(m) ~> HasLeft(m)

(* Every recipient of every message is dealt with once: delivered at most  *)
(* once, or reported at most once, and never both, each as far as the      *)
(* three statements above promise it (process() of the one runner; a       *)
(* second one may take a claim over that has outlived its TTL).            *)
DealtWithOnce == OneRunner => NoDuplicate /\ OneFate /\ ReportedOnce
=============================================================================
