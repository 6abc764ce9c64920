----------------------------- MODULE LoginLimits -----------------------------
(***************************************************************************)
(* The three limiters of password guessing, one per front door:            *)
(*   "console"  crates/web/src/ratelimit.rs      LoginLimiter              *)
(*   "webmail"  crates/webmail/src/auth.rs       LoginThrottle             *)
(*   "access"   crates/imappop3/src/auth.rs      AuthThrottle              *)
(* An attempt is checked, its password is verified in another task, and    *)
(* its outcome is recorded; attempts of several clients overlap.  Every    *)
(* table is bounded and forgets something when it is full.                 *)
(***************************************************************************)
EXTENDS Integers, Sequences, FiniteSets, Functions

CONSTANTS
    Ips, Logins,        \* where attempts come from and the accounts they name
    Threshold,          \* failures that lock
    Locks,              \* the lengths of successive locks, in time units
    Window,             \* length of the counting window
    Day,                \* after this long the failures are forgotten
    PerIp, PerLogin, PerAll,    \* attempts let through in a window
    MaxTracked,         \* entries a table keeps
    MaxClock, MaxFlights        \* bounds

VARIABLES
    door,               \* which of the three limiters this is
    clock,
    byIp, byLogin, all, \* attempt counters (webmail keeps its locks in them)
    failures,           \* console: per source; access: per login
    flights,            \* attempts let through whose outcome is not recorded yet
    served,             \* attempts let through so far
    due                 \* for each key, until when the last lock must hold at least

limitVars == <<door, clock, byIp, byLogin, all, failures, flights, served, due>>

Sources == Ips \X Logins
LimitKeys == Sources \cup Ips \cup Logins
Empty == [k \in {} |-> 0]
Put(t, k, v) == [x \in DOMAIN t \cup {k} |-> IF x = k THEN v ELSE t[x]]
At(t, k, default) == IF k \in DOMAIN t THEN t[k] ELSE default
Least(a, b) == IF a < b THEN a ELSE b
LockFor(n) == Locks[Least(n, Cardinality(DOMAIN Locks))]

LimitsInit ==
    /\ door \in {"console", "webmail", "access"}
    /\ clock = 1
    /\ byIp = Empty /\ byLogin = Empty /\ all = <<0, 0>> /\ failures = Empty
    /\ flights = {} /\ served = 0
    /\ due = [k \in LimitKeys |-> 0]

\* The tables t can become when the entries of the set "may" are dropped, one by one,
\* until t fits or none is left that may go.
Cuts(t, may) ==
    LET over == Cardinality(DOMAIN t) - MaxTracked
        n == Least(over, Cardinality(may))
    IN IF over <= 0 THEN {t}
       ELSE {Restrict(t, DOMAIN t \ gone) : gone \in {g \in SUBSET may : Cardinality(g) = n}}

\* The same, when the entry with the earliest of the "start" moments goes first.
OldestFirst(t, start) ==
    LET over == Cardinality(DOMAIN t) - MaxTracked
    IN IF over <= 0 THEN {t}
       ELSE {Restrict(t, DOMAIN t \ gone) : gone \in {g \in SUBSET DOMAIN t :
                /\ Cardinality(g) = over
                /\ \A k \in g, j \in DOMAIN t \ g : start[k] <= start[j]}}

-----------------------------------------------------------------------------
(* The console.  A counter is <<window start, count>>.                     *)

Peeked(c) == IF clock - c[1] >= Window THEN <<clock, 0>> ELSE c
Counted(t, k) == Put(t, k, [Peeked(At(t, k, <<clock, 0>>)) EXCEPT ![2] = @ + 1])
NewFailure == [failures |-> 0, until |-> 0, lockouts |-> 0, start |-> clock]

\* A lock that has run out is taken off, and the escalation with it after a day.
Expired(r) ==
    LET free == [r EXCEPT !.until = 0, !.failures = 0]
    IN IF r.until = 0 \/ r.until > clock THEN r
       ELSE IF clock - r.start >= Day THEN [free EXCEPT !.lockouts = 0, !.start = clock] ELSE free

\* Room made at the expense of any entry.
AnyEntry(f) == DOMAIN f

\* The entries evict_expired may drop to make room: those without a lock.
Victims(f) == {s \in DOMAIN f : f[s].until = 0}

Evictions(f) ==
    LET live == Restrict(f, {s \in DOMAIN f : f[s].until > clock \/ f[s].failures > 0})
    IN Cuts(live, Victims(live))

Fresh(t) == Restrict(t, {k \in DOMAIN t : clock - t[k][1] < Window})
Full(t) == Cardinality(DOMAIN t) > MaxTracked

\* What check_at sees of a source: its failure record and its three counters, the
\* windows that are over started anew.
SeenFailures(ip, login) ==
    [s \in DOMAIN failures |-> IF s = <<ip, login>> THEN Expired(failures[s]) ELSE failures[s]]
Seen(t, k) == IF k \in DOMAIN t THEN Put(t, k, Peeked(t[k])) ELSE t
Locked(ip, login) == At(SeenFailures(ip, login), <<ip, login>>, NewFailure).until > clock
Within(ip, login) ==
    /\ At(Seen(byIp, ip), ip, <<clock, 0>>)[2] < PerIp
    /\ At(Seen(byLogin, login), login, <<clock, 0>>)[2] < PerLogin
    /\ Peeked(all)[2] < PerAll

ConsoleCheck(ip, login) ==
    LET f == SeenFailures(ip, login)
        ips == Counted(byIp, ip)
        logins == Counted(byLogin, login)
    IN /\ door = "console" /\ ~Locked(ip, login) /\ Within(ip, login)
       /\ all' = [Peeked(all) EXCEPT ![2] = @ + 1]
       /\ IF Full(ips) \/ Full(logins) \/ Full(f)
          THEN /\ byIp' \in OldestFirst(Fresh(ips), [k \in DOMAIN ips |-> ips[k][1]])
               /\ byLogin' \in OldestFirst(Fresh(logins), [k \in DOMAIN logins |-> logins[k][1]])
               /\ failures' \in Evictions(f)
          ELSE byIp' = ips /\ byLogin' = logins /\ failures' = f
       /\ UNCHANGED due

\* Over a limit: the attempt is refused, and the windows it looked at are renewed.
ConsoleRefused(ip, login) ==
    /\ door = "console" /\ ~Locked(ip, login) /\ ~Within(ip, login)
    /\ failures' = SeenFailures(ip, login)
    /\ byIp' = Seen(byIp, ip) /\ byLogin' = Seen(byLogin, login) /\ all' = Peeked(all)
    /\ UNCHANGED <<door, clock, flights, served, due>>

\* The fifth failure locks the source, the longer the more often it was locked
\* within a day.
ConsoleFailure(ip, login) ==
    LET s == <<ip, login>>
        old == At(failures, s, NewFailure)
        r == IF clock - old.start >= Day THEN [old EXCEPT !.lockouts = 0, !.start = clock] ELSE old
        n == r.failures + 1
        locks == n >= Threshold
        new == IF locks THEN [r EXCEPT !.lockouts = @ + 1, !.until = clock + LockFor(r.lockouts + 1), !.failures = 0]
               ELSE [r EXCEPT !.failures = n]
        f == Put(failures, s, new)
    IN /\ door = "console"
       /\ IF Full(f) THEN failures' \in Evictions(f) ELSE failures' = f
       /\ due' = IF locks THEN [due EXCEPT ![s] = clock + LockFor(1)] ELSE due
       /\ UNCHANGED <<byIp, byLogin, all>>

ConsoleSuccess(ip, login) ==
    /\ door = "console"
    /\ failures' = Restrict(failures, DOMAIN failures \ {<<ip, login>>})
    /\ due' = [due EXCEPT ![<<ip, login>>] = 0]
    /\ UNCHANGED <<byIp, byLogin, all>>

-----------------------------------------------------------------------------
(* Webmail: one entry per address and one per login name.                  *)

NewKey == [start |-> 0, attempts |-> 0, failures |-> 0, until |-> 0, last |-> 0]

Verdict(t, k) ==
    LET e == At(t, k, NewKey)
    IN k \in DOMAIN t => ~(e.until > clock) /\ ~(clock - e.start < Window /\ e.attempts >= PerLogin)

Attempted(t, k) ==
    LET e == At(t, k, NewKey)
        fresh == e.start = 0 \/ clock - e.start >= Window
    IN Put(t, k, IF fresh THEN [e EXCEPT !.start = clock, !.attempts = IF e.start = 0 THEN e.attempts + 1 ELSE 1]
                 ELSE [e EXCEPT !.attempts = @ + 1])

Failed(t, k) ==
    LET e == At(t, k, NewKey)
        n == (IF e.last # 0 /\ clock - e.last > Day THEN 0 ELSE e.failures) + 1
        kept == IF e.until # 0 /\ clock >= e.until THEN 0 ELSE e.until
    IN Put(t, k, [e EXCEPT !.failures = n, !.last = clock,
                           !.until = IF n >= Threshold THEN clock + LockFor(n - Threshold + 1) ELSE kept])

\* evict_if_needed: what is neither locked nor in its window goes; then the oldest.
Retained(t) == {k \in DOMAIN t : t[k].until > clock \/ clock - t[k].start < Window}

Kept(t) == Restrict(t, Retained(t))

\* Both tables are cut when either is too full; a lock the cut itself removes for
\* want of room is no longer due.
WebmailEvict(ips, logins, locked) ==
    /\ IF Full(ips) \/ Full(logins)
       THEN /\ byIp' \in OldestFirst(Kept(ips), [k \in DOMAIN ips |-> ips[k].start])
            /\ byLogin' \in OldestFirst(Kept(logins), [k \in DOMAIN logins |-> logins[k].start])
       ELSE byIp' = ips /\ byLogin' = logins
    /\ due' = [k \in LimitKeys |->
                 CASE k \in Ips /\ k \in Retained(ips) /\ k \notin DOMAIN byIp' -> 0
                   [] k \in Logins /\ k \in Retained(logins) /\ k \notin DOMAIN byLogin' -> 0
                   [] OTHER -> locked[k]]

\* The check and the count are two calls; the handler makes them in a row, and
\* another request may come between them.
WebmailCheck(ip, login) ==
    /\ door = "webmail" /\ Verdict(byIp, ip) /\ Verdict(byLogin, login)
    /\ UNCHANGED <<byIp, byLogin, all, failures, due>>

WebmailAttempt(ip, login) ==
    /\ door = "webmail"
    /\ WebmailEvict(Attempted(byIp, ip), Attempted(byLogin, login), due)
    /\ UNCHANGED <<all, failures>>

WebmailFailure(ip, login) ==
    /\ door = "webmail"
    /\ LET ips == Failed(byIp, ip)
           logins == Failed(byLogin, login)
           locks(e) == e.failures >= Threshold
       IN WebmailEvict(ips, logins,
             [k \in LimitKeys |-> IF (k = ip /\ locks(ips[k])) \/ (k = login /\ locks(logins[k]))
                             THEN clock + LockFor(1) ELSE due[k]])
    /\ UNCHANGED <<all, failures>>

\* record_success forgets the login name, not the address.
WebmailSuccess(ip, login) ==
    /\ door = "webmail"
    /\ byLogin' = Restrict(byLogin, DOMAIN byLogin \ {login})
    /\ due' = [due EXCEPT ![login] = 0]
    /\ UNCHANGED <<byIp, all, failures>>

-----------------------------------------------------------------------------
(* Mail access: penalties per login name.                                  *)

AccessCheck(login) ==
    /\ door = "access" /\ ~(At(failures, login, NewFailure).until > clock)
    /\ UNCHANGED <<byIp, byLogin, all, failures, due>>

\* A full table takes no new name.
AccessFailure(login) ==
    /\ door = "access"
    /\ LET room == Cardinality(DOMAIN failures) < MaxTracked
           f == IF room THEN failures
                ELSE Restrict(failures, {k \in DOMAIN failures :
                        failures[k].until > clock \/ clock - failures[k].start < Window})
           taken == login \in DOMAIN f \/ Cardinality(DOMAIN f) < MaxTracked
           old == At(f, login, NewFailure)
           over == (old.until # 0 /\ old.until <= clock)
           r == IF over THEN NewFailure
                ELSE IF clock - old.start >= Window THEN [old EXCEPT !.start = clock, !.failures = 0] ELSE old
           locks == r.failures + 1 >= Threshold
       IN IF ~taken THEN failures' = f /\ UNCHANGED due
          ELSE /\ failures' = Put(f, login, IF locks THEN [r EXCEPT !.until = clock + LockFor(1), !.failures = 0]
                                            ELSE [r EXCEPT !.failures = @ + 1])
               /\ due' = IF locks THEN [due EXCEPT ![login] = clock + LockFor(1)] ELSE due
    /\ UNCHANGED <<byIp, byLogin, all>>

AccessSuccess(login) ==
    /\ door = "access"
    /\ failures' = Restrict(failures, DOMAIN failures \ {login})
    /\ due' = [due EXCEPT ![login] = 0]
    /\ UNCHANGED <<byIp, byLogin, all>>

-----------------------------------------------------------------------------
(* The life of an attempt.                                                 *)

\* The handlers ask the limiter first; a refused attempt ends there.
LoginStart(ip, login) ==
    /\ served < MaxFlights
    /\ ConsoleCheck(ip, login) \/ WebmailCheck(ip, login) \/ AccessCheck(login)
    /\ flights' = flights \cup {[id |-> served, ip |-> ip, login |-> login,
                                 at |-> IF door = "webmail" THEN "checked" ELSE "verify"]}
    /\ served' = served + 1
    /\ UNCHANGED <<door, clock>>

LoginCounted(a) ==
    /\ a.at = "checked"
    /\ WebmailAttempt(a.ip, a.login)
    /\ flights' = (flights \ {a}) \cup {[a EXCEPT !.at = "verify"]}
    /\ UNCHANGED <<door, clock, served>>

LoginFails(a) ==
    /\ a.at = "verify"
    /\ ConsoleFailure(a.ip, a.login) \/ WebmailFailure(a.ip, a.login) \/ AccessFailure(a.login)
    /\ flights' = flights \ {a}
    /\ UNCHANGED <<door, clock, served>>

LoginSucceeds(a) ==
    /\ a.at = "verify"
    /\ ConsoleSuccess(a.ip, a.login) \/ WebmailSuccess(a.ip, a.login) \/ AccessSuccess(a.login)
    /\ flights' = flights \ {a}
    /\ UNCHANGED <<door, clock, served>>

\* The helper or the verification task was unavailable: nothing is recorded.
LoginAborts(a) ==
    /\ a.at = "verify" /\ flights' = flights \ {a}
    /\ UNCHANGED <<door, clock, byIp, byLogin, all, failures, served, due>>

TimePasses ==
    /\ clock < MaxClock /\ clock' = clock + 1
    /\ UNCHANGED <<door, byIp, byLogin, all, failures, flights, served, due>>

LimitsNext ==
    \/ \E ip \in Ips, login \in Logins : LoginStart(ip, login) \/ ConsoleRefused(ip, login)
    \/ \E a \in flights : LoginCounted(a) \/ LoginFails(a) \/ LoginSucceeds(a) \/ LoginAborts(a)
    \/ TimePasses

Spec == LimitsInit /\ [][LimitsNext]_limitVars

\* Assumed of the constants: there is a first lock, and none is shorter.
LimitConstants ==
    /\ Threshold \in Nat /\ Locks \in Seq(Nat) /\ Locks # <<>>
    /\ \A i \in DOMAIN Locks : Locks[1] <= Locks[i]

-----------------------------------------------------------------------------
\* Whether the next attempt under this key would be refused.
Refuses(k) ==
    \/ door # "webmail" /\ k \in DOMAIN failures /\ failures[k].until > clock
    \/ door = "webmail" /\ k \in Ips /\ ~Verdict(byIp, k)
    \/ door = "webmail" /\ k \in Logins /\ ~Verdict(byLogin, k)

\* A source that has failed often enough is refused for the length of a lock at
\* least, however the attempts still under way end and whatever the full tables
\* forget; only a success of its own ends the lock early.
LockHolds == \A k \in LimitKeys : clock < due[k] => Refuses(k)
=============================================================================
