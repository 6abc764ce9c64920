----------------------------- MODULE MailDaemon -----------------------------
(***************************************************************************)
(* mailstack-imap: the listeners for IMAP, POP3 and ManageSieve, the       *)
(* connection tasks each of them spawns and drains, and the supervisor     *)
(* that starts the listeners and decides the exit code                     *)
(* (crates/imapd/src/servers.rs, crates/imappop3/src/{imap,pop3}/server.rs,*)
(* managesieve.rs, limiter.rs, metrics.rs).  A connection is its stage.    *)
(***************************************************************************)
EXTENDS Integers, FiniteSets, FiniteSetsExt

CONSTANTS
    PortSets,       \* sets of listeners a configuration may enable
    Peers,          \* client addresses
    MaxConnections, \* permits of a listener
    MaxPerWindow,   \* connections of one address in one window
    MaxTracked,     \* windows the limiter keeps
    MaxArrivals,    \* bound: connections over all listeners
    MaxClock        \* bound: window lengths that pass

VARIABLES
    has,        \* the configuration: listeners, certificate
    stopping,   \* the shutdown watch channel
    listener,   \* per listener, "off", "listening", "draining", "ended" or "broken"
    tasks,      \* per listener and stage, its connection tasks
    metrics,    \* per protocol, the counters
    windows,    \* per limited listener and peer, [start, count] of its window
    now,        \* time in window lengths
    daemon,     \* "starting", "running", "draining", "ok" or "failed"
    blamed,     \* why the supervisor stopped waiting
    lost        \* history, per protocol: tasks that panicked or were aborted

vars == <<has, stopping, listener, tasks, metrics, windows, now, daemon, blamed, lost>>

Listeners == {"imap", "imaps", "pop3", "pop3s", "sieve"}
ImapPorts == {"imap", "imaps"}
Pop3Ports == {"pop3", "pop3s"}
Implicit(l) == l \in {"imaps", "pop3s"}
Protocol(l) == CASE l \in ImapPorts -> "imap" [] l \in Pop3Ports -> "pop3" [] OTHER -> "managesieve"
Protocols == {"imap", "pop3", "managesieve"}

\* "spawned": not polled yet; "plain" may still ask for STARTTLS.
Stages == {"spawned", "handshake", "plain", "secure"}
Counters == {"accepted", "limited", "busy", "active", "completed", "errors", "tlsFailed"}
NoWindow == [start |-> -1, count |-> 0]
Live(l) == MapThenSumSet(LAMBDA s : tasks[l][s], Stages)

Init ==
    /\ has \in [ports : PortSets, cert : BOOLEAN, requireTls : BOOLEAN]
    /\ stopping = FALSE
    /\ listener = [l \in Listeners |-> "off"]
    /\ tasks = [l \in Listeners |-> [s \in Stages |-> 0]]
    /\ metrics = [p \in Protocols |-> [c \in Counters |-> 0]]
    /\ windows = [l \in Listeners |-> [p \in Peers |-> NoWindow]]
    /\ now = 0 /\ daemon = "starting" /\ blamed = "nobody"
    /\ lost = [p \in Protocols |-> 0]

-----------------------------------------------------------------------------
(* Starting *)

\* assemble refuses what would take passwords in the clear or could not
\* speak TLS; run refuses to serve nothing.
Assembled ==
    /\ has.requireTls => has.cert
    /\ (\E l \in has.ports : Implicit(l)) => has.cert
    /\ has.ports # {}

Start ==
    /\ daemon = "starting"
    /\ IF Assembled
       THEN /\ daemon' = "running"
            /\ listener' = [l \in Listeners |-> IF l \in has.ports THEN "listening" ELSE "off"]
            /\ UNCHANGED blamed
       ELSE daemon' = "failed" /\ blamed' = "config" /\ UNCHANGED listener
    /\ UNCHANGED <<has, stopping, tasks, metrics, windows, now, lost>>

-----------------------------------------------------------------------------
(* The accept loops *)

\* RateLimiter::allow: a fixed window per address; a full table forgets the
\* windows that are over and refuses a new address when none was.
Kept(l) ==
    LET full == Cardinality({p \in Peers : windows[l][p] # NoWindow}) >= MaxTracked
    IN [p \in Peers |-> IF full /\ now - windows[l][p].start >= 1 THEN NoWindow ELSE windows[l][p]]

Allow(l, p) ==
    LET kept == Kept(l)
        tracked == {q \in Peers : kept[q] # NoWindow}
        win == IF kept[p] = NoWindow \/ now - kept[p].start >= 1
               THEN [start |-> now, count |-> 0] ELSE kept[p]
        refused == p \notin tracked /\ Cardinality(tracked) >= MaxTracked
    IN  IF refused THEN [ok |-> FALSE, windows |-> kept]
        ELSE IF win.count >= MaxPerWindow THEN [ok |-> FALSE, windows |-> [kept EXCEPT ![p] = win]]
        ELSE [ok |-> TRUE, windows |-> [kept EXCEPT ![p] = [win EXCEPT !.count = @ + 1]]]

Count(l, c) == metrics' = [metrics EXCEPT ![Protocol(l)][c] = @ + 1]

Arrivals == MapThenSumSet(LAMBDA p : metrics[p]["accepted"] + metrics[p]["busy"] + metrics[p]["limited"],
                          Protocols)

Accepting(l) ==
    /\ listener[l] = "listening" /\ Arrivals < MaxArrivals
    /\ UNCHANGED <<has, stopping, listener, now, daemon, blamed, lost>>

\* A permit, or the busy answer.
Admit(l) ==
    IF Live(l) < MaxConnections
    THEN Count(l, "accepted") /\ tasks' = [tasks EXCEPT ![l]["spawned"] = @ + 1]
    ELSE Count(l, "busy") /\ UNCHANGED tasks

Limited(l, p) ==
    LET verdict == Allow(l, p)
    IN  /\ windows' = [windows EXCEPT ![l] = verdict.windows]
        /\ IF verdict.ok THEN Admit(l) ELSE Count(l, "limited") /\ UNCHANGED tasks

ImapAccept(l, p) == l \in ImapPorts /\ Accepting(l) /\ Limited(l, p)
Pop3Accept(l, p) == l \in Pop3Ports /\ Accepting(l) /\ Limited(l, p)
SieveAccept      == Accepting("sieve") /\ Admit("sieve") /\ UNCHANGED windows

-----------------------------------------------------------------------------
(* A connection task *)

Becomes(l, s, t) ==
    /\ tasks[l][s] > 0 /\ s # t
    /\ tasks' = [tasks EXCEPT ![l] = [@ EXCEPT ![s] = tasks[l][s] - 1, ![t] = tasks[l][t] + 1]]
    /\ UNCHANGED <<has, stopping, listener, windows, now, daemon, blamed, lost>>

\* The active gauge goes down when the task is dropped, whatever it counted.
Ends(l, s, c) ==
    /\ tasks[l][s] > 0
    /\ tasks' = [tasks EXCEPT ![l][s] = @ - 1]
    /\ metrics' = [metrics EXCEPT ![Protocol(l)] =
                      [@ EXCEPT !["active"] = metrics[Protocol(l)]["active"] - 1,
                                ![c] = metrics[Protocol(l)][c] + 1]]
    /\ UNCHANGED <<has, stopping, listener, windows, now, daemon, blamed, lost>>

FirstPoll(l) ==
    /\ Becomes(l, "spawned", IF Implicit(l) THEN "handshake" ELSE "plain")
    /\ Count(l, "active")

OfferAlways(l) == TRUE

\* STARTTLS is offered where there is an acceptor to hand the stream to.
OffersStartTls(l) == has.cert

\* After STARTTLS without an acceptor the task would simply return.
Upgrade(l) ==
    /\ OffersStartTls(l)
    /\ IF has.cert THEN Becomes(l, "plain", "handshake") /\ UNCHANGED metrics
       ELSE /\ tasks[l]["plain"] > 0
            /\ tasks' = [tasks EXCEPT ![l]["plain"] = @ - 1]
            /\ metrics' = [metrics EXCEPT ![Protocol(l)]["active"] = @ - 1]
            /\ UNCHANGED <<has, stopping, listener, windows, now, daemon, blamed, lost>>

Conversation(l) ==
    \/ FirstPoll(l)
    \/ Upgrade(l)
    \/ Becomes(l, "handshake", "secure") /\ UNCHANGED metrics
    \/ Ends(l, "handshake", "tlsFailed")
    \/ \E s \in {"plain", "secure"}, c \in {"completed", "errors"} : Ends(l, s, c)

ImapConnection(l)  == l \in ImapPorts /\ Conversation(l)
Pop3Connection(l)  == l \in Pop3Ports /\ Conversation(l)
SieveConnection    == Conversation("sieve")

\* A panic unwinds through the guard: the gauge goes down, nothing else counts it.
Panic(l, s) ==
    /\ tasks[l][s] > 0 /\ s # "spawned"
    /\ tasks' = [tasks EXCEPT ![l][s] = @ - 1]
    /\ metrics' = [metrics EXCEPT ![Protocol(l)]["active"] = @ - 1]
    /\ lost' = [lost EXCEPT ![Protocol(l)] = @ + 1]
    /\ UNCHANGED <<has, stopping, listener, windows, now, daemon, blamed>>

-----------------------------------------------------------------------------
(* Stopping *)

\* main's signal task
Signal ==
    /\ daemon # "starting" /\ ~stopping /\ stopping' = TRUE
    /\ UNCHANGED <<has, listener, tasks, metrics, windows, now, daemon, blamed, lost>>

ListenerStops(l) ==
    /\ stopping /\ listener[l] = "listening"
    /\ listener' = [listener EXCEPT ![l] = "draining"]
    /\ UNCHANGED <<has, stopping, tasks, metrics, windows, now, daemon, blamed, lost>>

\* Binding the port failed, or the task panicked.
ListenerBreaks(l) ==
    /\ listener[l] = "listening"
    /\ listener' = [listener EXCEPT ![l] = "broken"]
    /\ UNCHANGED <<has, stopping, tasks, metrics, windows, now, daemon, blamed, lost>>

Drained(l) ==
    /\ listener[l] = "draining" /\ Live(l) = 0
    /\ listener' = [listener EXCEPT ![l] = "ended"]
    /\ UNCHANGED <<has, stopping, tasks, metrics, windows, now, daemon, blamed, lost>>

\* The grace period is over: abort_all, and the task set is dropped.
GraceOver(l) ==
    /\ listener[l] = "draining" /\ Live(l) > 0
    /\ listener' = [listener EXCEPT ![l] = "ended"]
    /\ tasks' = [tasks EXCEPT ![l] = [s \in Stages |-> 0]]
    /\ metrics' = [metrics EXCEPT ![Protocol(l)]["active"] = @ - (Live(l) - tasks[l]["spawned"])]
    /\ lost' = [lost EXCEPT ![Protocol(l)] = @ + Live(l)]
    /\ UNCHANGED <<has, stopping, windows, now, daemon, blamed>>

\* The supervisor's select takes whichever branch it finds ready.
SupervisorWakes ==
    /\ daemon = "running"
    /\ \/ stopping /\ UNCHANGED blamed
       \/ \E l \in Listeners : listener[l] \in {"ended", "broken"}
            /\ blamed' = IF listener[l] = "ended" THEN "left" ELSE "io"
    /\ daemon' = "draining"
    /\ UNCHANGED <<has, stopping, listener, tasks, metrics, windows, now, lost>>

\* Every listener is joined, or DRAIN_TIMEOUT passed first.
SupervisorEnds ==
    /\ daemon = "draining"
    /\ LET joined == \A l \in Listeners : listener[l] \in {"off", "ended", "broken"}
       IN daemon' = IF blamed = "nobody" /\ joined THEN "ok" ELSE "failed"
    /\ UNCHANGED <<has, stopping, listener, tasks, metrics, windows, now, blamed, lost>>

Tick == now < MaxClock /\ now' = now + 1
        /\ UNCHANGED <<has, stopping, listener, tasks, metrics, windows, daemon, blamed, lost>>

Serving(l) ==
    \/ \E p \in Peers : ImapAccept(l, p) \/ Pop3Accept(l, p)
    \/ l = "sieve" /\ (SieveAccept \/ SieveConnection)
    \/ ImapConnection(l) \/ Pop3Connection(l)
    \/ \E s \in Stages : Panic(l, s)
    \/ ListenerStops(l) \/ ListenerBreaks(l) \/ Drained(l) \/ GraceOver(l)

Running == daemon \in {"starting", "running", "draining"}

Next ==
    \/ Start
    \/ Running /\ ((\E l \in Listeners : Serving(l)) \/ Signal \/ Tick)
    \/ SupervisorWakes \/ SupervisorEnds

\* The timers fire and a woken task is polled.
Fairness ==
    /\ WF_vars(Start) /\ WF_vars(SupervisorWakes) /\ WF_vars(SupervisorEnds)
    /\ \A l \in Listeners : WF_vars(Running /\ ListenerStops(l))
                            /\ WF_vars(Running /\ (Drained(l) \/ GraceOver(l)))

Spec == Init /\ [][Next]_vars /\ Fairness

-----------------------------------------------------------------------------
(* Properties *)

\* Every connection the counters say was accepted is accounted for: waiting
\* for its first poll, active, completed, failed, refused by TLS, or cut off
\* by a panic or the shutdown.  A path of handle_connection that returned
\* without counting would leave the metrics short.
CountersBalance ==
    \A p \in Protocols :
        LET ports == {l \in Listeners : Protocol(l) = p}
            m == metrics[p]
        IN  m["accepted"] = MapThenSumSet(LAMBDA l : tasks[l]["spawned"], ports) + m["active"]
                            + m["completed"] + m["errors"] + m["tlsFailed"] + lost[p]

\* A stop signal always ends the process, however long the sessions stay.
Stopping == stopping
StopEnds == Stopping ~> ~Running

\* The exit is blamed on a listener that "left without a stop signal" only
\* when no stop signal was given.
BlamedJustly == blamed = "left" => ~stopping
=============================================================================
