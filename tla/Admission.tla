----------------------------- MODULE Admission -----------------------------
(***************************************************************************)
(* How mailstackd lets SMTP connections in: the accept loop and the        *)
(* connection tasks of its listeners (crates/smtpd/src/listener.rs), the   *)
(* ban table and the rate limiter the listeners share, and the operator's  *)
(* ban file (crates/core/src/bans.rs) that the daemon reloads              *)
(* (bin/mailstackd/src/manual_bans.rs).                                    *)
(*                                                                         *)
(* A step is a critical section of one lock: admit looks at the bans, at   *)
(* the rate and at the bans again under three locks, and the failures of   *)
(* one connection are charged one by one.                                  *)
(***************************************************************************)
EXTENDS Integers, Sequences, FiniteSets, Functions, FiniteSetsExt

CONSTANTS
    Peers,           \* PeerKey: an IPv4 address or an IPv6 /64
    BanFailures,     \* BanConfig::max_failures
    BanWindow,       \* BanConfig::window_secs
    TempBan,         \* BanConfig::temp_ban_secs
    PermanentAfter,  \* BanConfig::permanent_after, 0 for never
    BanEntries,      \* BanConfig::max_entries
    Burst,           \* RateLimitConfig::burst
    RateEntries,     \* RateLimitConfig::max_entries
    Ips,             \* addresses, as peers connect and operators write them
    Key,             \* PeerKey::from_ip of each
    Listeners,       \* the SMTP ports
    Implicit,        \* those that speak TLS from the first byte
    StartTls,        \* those that offer STARTTLS
    Conns,           \* connection tasks
    MaxConnections,  \* ServerConfig::max_connections, per listener
    MaxPerPeer,      \* ServerConfig::max_connections_per_ip, per listener
    AuthFailures,    \* MAX_CONSECUTIVE_AUTH_FAILURES
    MaxNow,          \* bound: the last second of the clock
    Bounds           \* bounds: a behaviour stays below one of these records

\* What is left of the bounds of a behaviour.
Budgets ==
    [conns   : Nat,               \* connections at a time
     ports   : SUBSET Listeners,  \* where they arrive
     ips     : SUBSET Ips,        \* where they come from and what operators ban
     until   : 0..MaxNow,         \* the last second of the clock
     back    : Nat,               \* how often the clock is set back
     fault   : Nat,               \* how often the ban file is damaged from outside
     restart : Nat,               \* how often the daemon is started again
     order   : Nat,               \* how many bans and unbans operators order
     allowed : Nat]               \* how far the history counts admissions

\* What the constants must be for the module to make sense.
ConstantsOK ==
    /\ {BanFailures, BanWindow, TempBan, BanEntries, Burst, RateEntries} \subseteq Nat \ {0}
    /\ PermanentAfter \in Nat
    /\ Key \in [Ips -> Peers]
    /\ Implicit \subseteq Listeners /\ StartTls \subseteq Listeners \ Implicit
    /\ {MaxConnections, MaxPerPeer, AuthFailures} \subseteq Nat \ {0}
    /\ MaxNow \in Nat /\ Bounds \subseteq Budgets

ASSUME ConstantsAssumption == ConstantsOK

-----------------------------------------------------------------------------
(* The two in-memory tables the listeners keep about their peers: the ban  *)
(* table (crates/smtpd/src/ban.rs) and the token buckets of the rate       *)
(* limiter (crates/smtpd/src/ratelimit.rs).  An operator is what one       *)
(* critical section does to a table; where the code's answer depends on    *)
(* the iteration order of its HashMap, it is the set of tables it may      *)
(* leave.  The unit of time of the buckets is the time in which one token  *)
(* flows back, so tokens are whole numbers; retry_after is only told to    *)
(* the peer and is left out.                                               *)

NoTime == -1

Entry(times) == [failures : Seq(times), strikes : Nat, permanent : BOOLEAN,
                 until : times \cup {NoTime}, manual : BOOLEAN, seen : times]

DefaultEntry == [failures |-> <<>>, strikes |-> 0, permanent |-> FALSE,
                 until |-> NoTime, manual |-> FALSE, seen |-> 0]

IsActive(e, now) == e.permanent \/ e.until > now

Banned(table, p, now) == p \in DOMAIN table /\ IsActive(table[p], now)

LapseForgetsStrikes(e, now) ==
    IF ~e.permanent /\ e.until # NoTime /\ e.until <= now
    THEN DefaultEntry
    ELSE e

\* A ban that has run out takes its failures with it, and leaves the strikes.
Lapse(e, now) ==
    IF ~e.permanent /\ e.until # NoTime /\ e.until <= now
    THEN [e EXCEPT !.until = NoTime, !.failures = <<>>]
    ELSE e

Checked(table, p, now) ==
    [q \in DOMAIN table |-> IF q = p THEN Lapse(table[q], now) ELSE table[q]]

-----------------------------------------------------------------------------
(* evict: what makes room, in the order the code gives it up.              *)

\* Entries the first pass keeps: all but the idle ones.
Retained(table, now) ==
    {p \in DOMAIN table : \/ table[p].permanent
                          \/ table[p].manual
                          \/ table[p].until > now
                          \/ table[p].failures # <<>>}

Evictable(table, now) ==
    {p \in DOMAIN table : /\ ~table[p].permanent
                          /\ ~table[p].manual
                          /\ table[p].until <= now}

HistoryValue(e) == IF e.until = NoTime /\ e.failures # <<>> THEN 1 ELSE 0

GoesFirst(e, f) == \/ HistoryValue(e) < HistoryValue(f)
                   \/ HistoryValue(e) = HistoryValue(f) /\ e.seen <= f.seen

Evicted(table, now) ==
    LET kept  == Restrict(table, Retained(table, now))
        size  == Cardinality(DOMAIN kept)
        cands == Evictable(kept, now)
        count == Min({size - (BanEntries - 1), Cardinality(cands)})
    IN  IF size < BanEntries
        THEN {kept}
        ELSE {Restrict(kept, DOMAIN kept \ victims) :
                 victims \in {v \in kSubset(count, cands) :
                     \A p \in v : \A q \in cands \ v : GoesFirst(kept[p], kept[q])}}

-----------------------------------------------------------------------------
(* record_failure *)

RecentUnbounded(times, now) == times

Recent(times, now) == SelectSeq(times, LAMBDA t : now - t < BanWindow)

Struck(e, now) ==
    LET strikes   == e.strikes + 1
        permanent == PermanentAfter > 0 /\ strikes >= PermanentAfter
    IN  [e EXCEPT !.failures = <<>>, !.strikes = strikes, !.permanent = permanent,
                  !.until = IF permanent THEN NoTime ELSE now + TempBan]

Charged(e0, now) ==
    LET e == Lapse([e0 EXCEPT !.seen = now], now)
        f == [e EXCEPT !.failures = Append(Recent(@, now), now)]
    IN  IF IsActive(e, now) THEN e
        ELSE IF Len(f.failures) < BanFailures THEN f
        ELSE Struck(f, now)

WithEntry(table, p, e) == [q \in DOMAIN table \cup {p} |-> IF q = p THEN e ELSE table[q]]

RecordFailureAlways(table, p, now) ==
    {WithEntry(table, p, Charged(IF p \in DOMAIN table THEN table[p]
                                 ELSE DefaultEntry, now))}

\* A full table first makes room; if it cannot, the failure is not recorded.
RecordFailure(table, p, now) ==
    IF p \in DOMAIN table
    THEN {WithEntry(table, p, Charged(table[p], now))}
    ELSE IF Cardinality(DOMAIN table) < BanEntries
    THEN {WithEntry(table, p, Charged(DefaultEntry, now))}
    ELSE {IF Cardinality(DOMAIN t) < BanEntries
          THEN WithEntry(t, p, Charged(DefaultEntry, now))
          ELSE t : t \in Evicted(table, now)}

-----------------------------------------------------------------------------
(* apply_manual: the table agrees with the manual list, and nothing else   *)
(* of it is touched.                                                       *)

ManualKeys(table) == {p \in DOMAIN table : table[p].manual}

MadeManualKeepsTerm(e) == [e EXCEPT !.manual = TRUE, !.failures = <<>>]

MadeManual(e) == [e EXCEPT !.manual = TRUE, !.permanent = TRUE,
                           !.until = NoTime, !.failures = <<>>]

ApplyManual(table, wanted) ==
    LET keep == DOMAIN table \ (ManualKeys(table) \ wanted)
    IN  [p \in keep \cup wanted |->
            IF p \in wanted
            THEN MadeManual(IF p \in keep THEN table[p] ELSE DefaultEntry)
            ELSE table[p]]

-----------------------------------------------------------------------------
(* The rate limiter *)

Bucket(times) == [tokens : 0..Burst, last : times]

RefilledResetsBase(b, now) ==
    [tokens |-> IF now > b.last THEN Min({b.tokens + (now - b.last), Burst})
                ELSE b.tokens,
     last |-> now]

\* Time that has run backwards neither adds tokens nor moves the base.
Refilled(b, now) ==
    IF now > b.last
    THEN [tokens |-> Min({b.tokens + (now - b.last), Burst}), last |-> now]
    ELSE b

WithBucket(buckets, p, b) ==
    [q \in DOMAIN buckets \cup {p} |-> IF q = p THEN b ELSE buckets[q]]

\* Full buckets go first, then the longest unused; ties as the map iterates.
RateEvicted(buckets, now) ==
    LET kept  == Restrict(buckets, {p \in DOMAIN buckets :
                     buckets[p].tokens + (now - buckets[p].last) < Burst})
        size  == Cardinality(DOMAIN kept)
    IN  IF size < RateEntries
        THEN {kept}
        ELSE {Restrict(kept, DOMAIN kept \ victims) :
                 victims \in {v \in kSubset(size - (RateEntries - 1), DOMAIN kept) :
                     \A p \in v : \A q \in DOMAIN kept \ v : kept[p].last <= kept[q].last}}

NewBucket(now) == [tokens |-> Burst - 1, last |-> now]

\* The answers of RateLimiter::check: the verdict and the buckets it leaves.
RateCheck(buckets, p, now) ==
    IF p \in DOMAIN buckets
    THEN LET b == Refilled(buckets[p], now)
         IN  IF b.tokens >= 1
             THEN {<<TRUE, WithBucket(buckets, p, [b EXCEPT !.tokens = @ - 1])>>}
             ELSE {<<FALSE, WithBucket(buckets, p, b)>>}
    ELSE {<<TRUE, WithBucket(t, p, NewBucket(now))>> :
             t \in IF Cardinality(DOMAIN buckets) < RateEntries
                   THEN {buckets} ELSE RateEvicted(buckets, now)}

-----------------------------------------------------------------------------
VARIABLES
    now,        \* Clock
    entries,    \* BanList::entries
    buckets,    \* RateLimiter::buckets
    file,       \* manual-bans.json: "none", "bad", or "list" and what it lists
    hadEntries, \* ReloadState::had_entries
    up,         \* "run", "drain" (shutdown seen) or "down"
    active,     \* PeerConnections::active, per listener
    permits,    \* permits left in the semaphore, per listener
    conn,       \* the connection tasks
    budget,     \* what is left of the bounds
    loaded,     \* history: keys of the last list apply_manual was given
    charges,    \* history: failures charged since the last ban, by second
    allowed,    \* history: connections let in since the peer has its bucket
    latest      \* history: the latest time there has been

bans    == <<entries, buckets, charges, allowed>>
manual  == <<file, hadEntries, loaded>>
clock   == <<now, latest>>
slots   == <<active, permits>>
vars    == <<bans, manual, clock, slots, up, conn, budget>>

Times == 0..MaxNow

Absent         == [kind |-> "none", list |-> {}]
Corrupt        == [kind |-> "bad", list |-> {}]
FileWith(list) == [kind |-> "list", list |-> list]

Idle  == [stage |-> "idle"]
Task(l, ip, stage, blame) == [stage |-> stage, l |-> l, ip |-> ip, blame |-> blame]

Tasks == [l : Listeners, ip : Ips, blame : 0..AuthFailures,
          stage : {"check", "rate", "handshake", "serve", "upgrade", "blame", "close"}]

KeysOf(list) == {Key[ip] : ip \in list}
Busy == {c \in Conns : conn[c] # Idle}

Init ==
    /\ now = 0 /\ latest = 0
    /\ entries = <<>> /\ buckets = <<>>
    /\ file = Absent /\ hadEntries = FALSE /\ loaded = {}
    /\ up = "run"
    /\ active = [l \in Listeners |-> [p \in Peers |-> 0]]
    /\ permits = [l \in Listeners |-> MaxConnections]
    /\ conn = [c \in Conns |-> Idle]
    /\ budget \in Bounds
    /\ charges = [p \in Peers |-> [t \in Times |-> 0]]
    /\ allowed = [p \in Peers |-> 0]

-----------------------------------------------------------------------------
(* The accept loop: the peer's slot, then the listener's permit; a         *)
(* connection refused for want of a permit gives the slot back.            *)

OverloadKeepsSlot(l, p) ==
    /\ active' = [active EXCEPT ![l][p] = @ + 1]
    /\ UNCHANGED <<permits, conn>>

Overload(l, p) == UNCHANGED <<active, permits, conn>>

Accept(l, ip, c) ==
    LET p == Key[ip] IN
    /\ up = "run"
    /\ conn[c] = Idle
    /\ l \in budget.ports /\ ip \in budget.ips /\ Cardinality(Busy) < budget.conns
    /\ active[l][p] < MaxPerPeer
    /\ \/ /\ permits[l] = 0
          /\ Overload(l, p)
       \/ /\ permits[l] > 0
          /\ active'  = [active EXCEPT ![l][p] = @ + 1]
          /\ permits' = [permits EXCEPT ![l] = @ - 1]
          /\ conn'    = [conn EXCEPT ![c] = Task(l, ip, "check", 0)]
    /\ UNCHANGED <<bans, manual, clock, up, budget>>

-----------------------------------------------------------------------------
(* A connection task: admit, the TLS handshake of an implicit port, then   *)
(* serving, with at most one upgrade.  What the peer's misbehaviour costs  *)
(* is charged after the session.                                           *)

At(c, stage) == up # "down" /\ conn[c] # Idle /\ conn[c].stage = stage
Peer(c)      == Key[conn[c].ip]
Move(c, stage)         == conn' = [conn EXCEPT ![c].stage = stage]
MoveToBlame(c, blame)  == conn' = [conn EXCEPT ![c].stage = "blame", ![c].blame = blame]

CheckBan(c) ==
    /\ At(c, "check")
    /\ entries' = Checked(entries, Peer(c), now)
    /\ Move(c, IF Banned(entries, Peer(c), now) THEN "close" ELSE "rate")
    /\ UNCHANGED <<buckets, charges, allowed, manual, clock, slots, up, budget>>

AfterAdmit(l) == IF l \in Implicit THEN "handshake" ELSE "serve"

\* The history counts one more for the peer, and forgets whose bucket is gone.
CountedIn(table, p) ==
    [q \in Peers |-> IF q = p THEN Min({allowed[q] + 1, budget.allowed})
                     ELSE IF q \in DOMAIN table THEN allowed[q] ELSE 0]

CheckRate(c) ==
    /\ At(c, "rate")
    /\ \E answer \in RateCheck(buckets, Peer(c), now) :
          /\ buckets' = answer[2]
          /\ IF answer[1]
             THEN /\ allowed' = CountedIn(answer[2], Peer(c))
                  /\ Move(c, AfterAdmit(conn[c].l))
             ELSE /\ MoveToBlame(c, 1)
                  /\ UNCHANGED allowed
    /\ UNCHANGED <<entries, charges, manual, clock, slots, up, budget>>

\* One BanList::record_failure.  The history forgets a peer's charges when
\* they have led to a ban or left the window.
Charge(p) ==
    /\ entries' \in RecordFailure(entries, p, now)
    /\ charges' = [charges EXCEPT ![p] =
           IF Banned(entries', p, now) THEN [t \in Times |-> 0]
           ELSE [t \in Times |-> IF t = now THEN Min({@[t] + 1, BanFailures})
                                 ELSE IF now - t < BanWindow THEN @[t] ELSE 0]]

Blame(c) ==
    /\ At(c, "blame")
    /\ Charge(Peer(c))
    /\ conn' = [conn EXCEPT ![c].blame = @ - 1,
                            ![c].stage = IF conn[c].blame = 1 THEN "close" ELSE "blame"]
    /\ UNCHANGED <<buckets, allowed, manual, clock, slots, up, budget>>

\* A handshake that fails, or does not end in time, closes the connection.
Handshake(c) ==
    /\ \/ At(c, "handshake")
       \/ At(c, "upgrade")
    /\ \E next \in {"serve", "close"} : Move(c, next)
    /\ UNCHANGED <<bans, manual, clock, slots, up, budget>>

\* QUIT, end of input, a protocol error, a benign disconnect or the deadline
\* of the session; an upgrade; an I/O error; too many failed AUTHs.
Serve(c) ==
    /\ At(c, "serve")
    /\ \/ Move(c, "close")
       \/ conn[c].l \in StartTls /\ Move(c, "upgrade")
       \/ MoveToBlame(c, 1)
       \/ MoveToBlame(c, AuthFailures)
    /\ UNCHANGED <<bans, manual, clock, slots, up, budget>>

\* The task ends, or is aborted: its slot and its permit drop.
Released(c) ==
    /\ active'  = [active EXCEPT ![conn[c].l][Peer(c)] = @ - 1]
    /\ permits' = [permits EXCEPT ![conn[c].l] = @ + 1]

Close(c) ==
    /\ At(c, "close")
    /\ Released(c)
    /\ conn' = [conn EXCEPT ![c] = Idle]
    /\ UNCHANGED <<bans, manual, clock, up, budget>>

-----------------------------------------------------------------------------
(* The ban file: security.ban and security.unban rewrite it under its      *)
(* lock and refuse to touch one they cannot read; outside the program it   *)
(* may vanish or be damaged, and an operator may put a list back.          *)

Order ==
    /\ budget.order > 0
    /\ budget' = [budget EXCEPT !.order = @ - 1]
    /\ UNCHANGED <<hadEntries, loaded, bans, clock, slots, up, conn>>

SecurityBan(ip) ==
    /\ Order
    /\ ip \in budget.ips
    /\ file.kind # "bad"
    /\ file' = FileWith(file.list \cup {ip})

SecurityUnban(ip) ==
    /\ Order
    /\ ip \in budget.ips
    /\ file.kind # "bad"
    /\ file' = FileWith(file.list \ {ip})

FileDamaged ==
    /\ budget.fault > 0
    /\ budget' = [budget EXCEPT !.fault = @ - 1]
    /\ file' \in {Absent, Corrupt}
    /\ UNCHANGED <<hadEntries, loaded, bans, clock, slots, up, conn>>

KnownEmptyAnyway == file = Absent

\* reload_once_with: an unreadable file changes nothing, and neither does
\* one that vanished after it had entries.
KnownEmpty == file = Absent /\ ~hadEntries

ApplyAddsOnly(list) ==
    /\ entries' = ApplyManual(entries, KeysOf(list) \cup ManualKeys(entries))
    /\ loaded' = KeysOf(list)

Apply(list) ==
    /\ entries' = ApplyManual(entries, KeysOf(list))
    /\ loaded' = KeysOf(list)

Reload ==
    /\ up = "run"
    /\ \/ /\ KnownEmpty
          /\ Apply({})
          /\ UNCHANGED hadEntries
       \/ /\ file.kind = "list"
          /\ Apply(file.list)
          /\ hadEntries' = (file.list # {})
    /\ UNCHANGED <<file, buckets, charges, allowed, clock, slots, up, conn, budget>>

-----------------------------------------------------------------------------
(* Shutdown: listeners stop accepting, connections get a grace period and  *)
(* are aborted at its end.  A new process starts with empty tables.        *)

Shutdown ==
    /\ up = "run"
    /\ up' = "drain"
    /\ UNCHANGED <<bans, manual, clock, slots, conn, budget>>

StopWaits ==
    /\ up = "drain"
    /\ Busy = {}
    /\ up' = "down"
    /\ UNCHANGED <<conn, active, permits, bans, manual, clock, budget>>

Stop ==
    /\ up = "drain"
    /\ up' = "down"
    /\ conn' = [c \in Conns |-> Idle]
    /\ active' = [l \in Listeners |-> [p \in Peers |-> 0]]
    /\ permits' = [l \in Listeners |-> MaxConnections]
    /\ UNCHANGED <<bans, manual, clock, budget>>

Restart ==
    /\ up = "down"
    /\ budget.restart > 0
    /\ budget' = [budget EXCEPT !.restart = @ - 1]
    /\ up' = "run"
    /\ entries' = <<>> /\ buckets' = <<>>
    /\ hadEntries' = FALSE /\ loaded' = {}
    /\ charges' = [p \in Peers |-> [t \in Times |-> 0]]
    /\ allowed' = [p \in Peers |-> 0]
    /\ UNCHANGED <<file, clock, slots, conn>>

Tick ==
    /\ now < budget.until
    /\ now' = now + 1
    /\ latest' = Max({latest, now'})
    /\ UNCHANGED <<bans, manual, slots, up, conn, budget>>

SetBack ==
    /\ budget.back > 0
    /\ budget' = [budget EXCEPT !.back = @ - 1]
    /\ now' \in {t \in Times : t < now}
    /\ UNCHANGED <<latest, bans, manual, slots, up, conn>>

Step(c) == \/ CheckBan(c) \/ CheckRate(c) \/ Blame(c)
           \/ Handshake(c) \/ Serve(c) \/ Close(c)

Next ==
    \/ \E l \in Listeners, ip \in Ips, c \in Conns : Accept(l, ip, c)
    \/ \E c \in Conns : Step(c)
    \/ \E ip \in Ips : SecurityBan(ip) \/ SecurityUnban(ip)
    \/ FileDamaged \/ Reload
    \/ Shutdown \/ Stop \/ Restart
    \/ Tick \/ SetBack

\* The daemon's timer reloads the file, its tasks are polled, and the grace
\* period ends; the peers, the operator and the clock owe nothing.
Fairness == /\ WF_vars(Reload) /\ WF_vars(Stop)
            /\ \A c \in Conns : WF_vars(CheckBan(c)) /\ WF_vars(CheckRate(c))
                                /\ WF_vars(Blame(c)) /\ WF_vars(Close(c))

Spec     == Init /\ [][Next]_vars
FairSpec == Spec /\ Fairness
-----------------------------------------------------------------------------
(* Properties *)

\* The tables stay within their limits; only the operator's own list may
\* exceed the limit of the ban table (max_entries in ban.rs, ratelimit.rs).
TablesBounded ==
    /\ Cardinality(DOMAIN entries \ ManualKeys(entries)) <= BanEntries
    /\ Cardinality(DOMAIN buckets) <= RateEntries

\* Type invariant: the tables, the file, the slots and the tasks hold what
\* their Rust types and bounds allow.
TypeOK ==
    /\ {now, latest} \subseteq Times
    /\ DOMAIN entries \subseteq Peers
    /\ \A p \in DOMAIN entries : entries[p] \in Entry(0..(MaxNow + TempBan))
    /\ DOMAIN buckets \subseteq Peers
    /\ \A p \in DOMAIN buckets : buckets[p] \in Bucket(Times)
    /\ file \in {Absent, Corrupt} \cup {FileWith(list) : list \in SUBSET Ips}
    /\ hadEntries \in BOOLEAN /\ loaded \subseteq Peers
    /\ up \in {"run", "drain", "down"}
    /\ conn \in [Conns -> Tasks \cup {Idle}]
    /\ TablesBounded

\* The connections that hold a permit of a listener, and those of one peer.
Held(l)       == {c \in Busy : conn[c].l = l}
HeldFor(l, p) == {c \in Held(l) : Peer(c) = p}

\* Slots and permits are conserved along every path of the accept loop, every
\* end of a task and the abort at shutdown: the counters agree with the live
\* tasks, so no listener starves and no peer exceeds its quota.
SlotsConserved ==
    \A l \in Listeners :
        /\ permits[l] + Cardinality(Held(l)) = MaxConnections
        /\ \A p \in Peers :
              /\ active[l][p] = Cardinality(HeldFor(l, p))
              /\ active[l][p] <= MaxPerPeer

\* The manual bans of the table are those of the last list that was read,
\* and are permanent, whatever failures, evictions, missing or damaged files
\* came since (apply_manual, record_failure, evict, reload_once_with).
ManualListHolds ==
    /\ ManualKeys(entries) = loaded
    /\ \A p \in loaded : IsActive(entries[p], MaxNow + TempBan + 1)

\* A ban that has time left ends by nothing but the operator's hand: no
\* failure, eviction or lookup lifts it, and no reload but one that reads a
\* list without that manual ban; a file that is gone or damaged lifts none.
BansStand ==
    \A p \in Peers :
        (Banned(entries, p, now) /\ ~Banned(entries', p, now) /\ up # "down")
            => /\ p \in loaded
               /\ file.kind = "list" /\ p \notin KeysOf(file.list)

\* An automatic ban is earned: when it begins, as many failures of that peer
\* as the threshold asks for, none of them older than the window and none
\* used for an earlier ban, have been charged (record_failure).
BansEarned ==
    \A p \in Peers \ loaded' :
        (Banned(entries', p, now) /\ ~Banned(entries, p, now))
            => 1 + SumFunctionOnSet(charges[p], {t \in Times : now - t < BanWindow})
                 >= BanFailures

\* Strikes: a tracked peer keeps them when a ban runs out, gains one only
\* when it was not banned (a ban does not escalate itself), and with the
\* last one the ban is permanent.
Escalation ==
    \A p \in DOMAIN entries \cap DOMAIN entries' :
        LET old == entries[p]  new == entries'[p] IN
        /\ up # "down" => new.strikes >= old.strikes
        /\ new.strikes > old.strikes =>
              /\ ~IsActive(old, now)
              /\ PermanentAfter \in 1..new.strikes => new.permanent

\* What no step may do to the bans there are: a ban with time left stands
\* unless the operator lifts it, bans escalate by strikes, and the manual bans
\* are those of the last list that was read (ban.rs).
BanRules == [][BansStand /\ Escalation /\ ManualListHolds']_vars

\* No step bans a peer that did not earn it (record_failure).
OnlyEarnedBans == [][BansEarned]_vars

\* Until a bucket is evicted, a peer is let in at most burst times plus once
\* per refilled token, also when the clock is set back and forth (refill).
RateQuota == \A p \in Peers : allowed[p] <= Burst + latest

\* A list that stays in the file of a running daemon is in force in the end
\* (watch reloads every RELOAD_INTERVAL).
Stands(list)  == file = FileWith(list) /\ up = "run"
InForce(list) == ManualKeys(entries) = KeysOf(list)
ReloadConverges == \A list \in SUBSET Ips : <>[]Stands(list) => <>[]InForce(list)

\* A shutdown ends, whatever the connected peers do (shutdown_grace).
Draining == up = "drain"
ShutdownEnds == Draining ~> up = "down"
=============================================================================
