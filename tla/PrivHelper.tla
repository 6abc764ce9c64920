----------------------------- MODULE PrivHelper -----------------------------
(***************************************************************************)
(* Calls of privileged actions: PrivilegedCaller (crates/priv/src/         *)
(* client.rs), used by the web console and mailstackctl, the read-only     *)
(* socket of mailstackd (server.rs, framing.rs, bin/mailstackd/src/rpc.rs) *)
(* and the sudo wrapper, which is mailstackctl --privileged-stdin.  Both   *)
(* ends have deadlines; an operation that runs on the blocking pool goes   *)
(* on when the one who waits for it has given up.                          *)
(***************************************************************************)
EXTENDS Naturals, FiniteSets

CONSTANTS
    Callers,      \* calls that may be under way
    MaxWorkers,   \* max_workers of the read-only socket
    PublicMode    \* the mode the caller was started in

VARIABLES
    request,   \* per call, [action, confirm]
    stage,     \* per call, where the caller is
    answer,    \* per call, what the caller was told
    conn,      \* per call, the connection task on the socket
    work,      \* per call, the operation: on the socket's behalf or sudo's
    ran        \* history: how often the action was started, per call and face

helperVars == <<request, stage, answer, conn, work, ran>>

\* One action of each kind; "bogus" is in no list.
Actions == {"read", "write", "destroy", "bogus"}
IsRw(a) == a \in {"write", "destroy"}
IsAllowed(a) == a \in {"read", "write", "destroy"}

NoAnswer == "none"

HelperInit ==
    /\ request \in [Callers -> [action : Actions, confirm : BOOLEAN]]
    /\ stage = [c \in Callers |-> "new"]
    /\ answer = [c \in Callers |-> NoAnswer]
    /\ conn = [c \in Callers |-> "none"]
    /\ work = [c \in Callers |-> "none"]
    /\ ran = [c \in Callers |-> [Ro |-> 0, Rw |-> 0]]

-----------------------------------------------------------------------------
(* The caller *)

Set(f, c, v) == [f EXCEPT ![c] = v]
Finish(c, told) == stage' = Set(stage, c, "done") /\ answer' = Set(answer, c, told)

\* Mutating actions go to sudo at once, everything else to the socket.
Call(c) ==
    /\ stage[c] = "new"
    /\ stage' = Set(stage, c, IF IsRw(request[c].action) THEN "sudo" ELSE "connect")
    /\ UNCHANGED <<request, answer, conn, work, ran>>

FallbackOnTimeout(kind) == kind \in {"unavailable", "timeout"} /\ ~PublicMode

MayFallbackToSudo(kind) == kind = "unavailable" /\ ~PublicMode

\* call_read_only: what a failure of the socket leads to.
SocketFailed(c, kind) ==
    IF MayFallbackToSudo(kind) THEN stage' = Set(stage, c, "sudo") /\ UNCHANGED answer
                               ELSE Finish(c, kind)

ConnectFails(c) ==
    /\ stage[c] = "connect"
    /\ SocketFailed(c, "unavailable")
    /\ UNCHANGED <<request, conn, work, ran>>

\* The connection waits in the backlog until serve accepts it.
Connected(c) ==
    /\ stage[c] = "connect"
    /\ stage' = Set(stage, c, "exchange") /\ conn' = Set(conn, c, "backlog")
    /\ UNCHANGED <<request, answer, work, ran>>

\* exchange: the answer, a broken connection, or the caller's deadline.
ReadsAnswer(c) ==
    /\ stage[c] = "exchange" /\ conn[c] \in {"ok", "failed", "closed"}
    /\ IF conn[c] = "ok" THEN Finish(c, "ok") ELSE SocketFailed(c, "business")
    /\ conn' = Set(conn, c, "none")
    /\ UNCHANGED <<request, work, ran>>

ExchangeTimesOut(c) ==
    /\ stage[c] = "exchange"
    /\ SocketFailed(c, "timeout")
    /\ conn' = Set(conn, c, CASE conn[c] = "working" -> "orphan"
                              [] conn[c] \in {"backlog", "reading"} -> conn[c] [] OTHER -> "none")
    /\ UNCHANGED <<request, work, ran>>

-----------------------------------------------------------------------------
(* The socket's server *)

Busy == {c \in Callers : conn[c] \in {"reading", "working", "orphan"}}

\* serve: a connection beyond max_workers is dropped.
Accept(c) ==
    /\ conn[c] = "backlog"
    /\ conn' = Set(conn, c, IF Cardinality(Busy) < MaxWorkers THEN "reading" ELSE "closed")
    /\ UNCHANGED <<request, stage, answer, work, ran>>

\* ActionGate::evaluate
Gate(face, r) ==
    /\ IsAllowed(r.action)
    /\ face = "Ro" => ~IsRw(r.action)
    /\ r.action = "destroy" => r.confirm

\* dispatch: the handler runs on the blocking pool.
Start(c, face) == work' = Set(work, c, "running") /\ ran' = [ran EXCEPT ![c][face] = @ + 1]

Reads(c) == stage[c] = "exchange"

\* A frame arrives whole, maybe from a caller that has given up meanwhile;
\* it is refused, or its handler started.
ServeRequest(c) ==
    /\ conn[c] = "reading"
    /\ IF Gate("Ro", request[c])
       THEN Start(c, "Ro") /\ conn' = Set(conn, c, IF Reads(c) THEN "working" ELSE "orphan")
       ELSE conn' = Set(conn, c, IF Reads(c) THEN "failed" ELSE "none") /\ UNCHANGED <<work, ran>>
    /\ UNCHANGED <<request, stage, answer>>

\* End of file, a bad frame, or RPC_REQUEST_READ_TIMEOUT.
ReadEnds(c) ==
    /\ conn[c] = "reading"
    /\ conn' = Set(conn, c, IF Reads(c) THEN "closed" ELSE "none")
    /\ UNCHANGED <<request, stage, answer, work, ran>>

\* The handler ends; its answer is written, unless nobody reads any more.
HandlerEnds(c) ==
    /\ work[c] = "running"
    /\ work' = Set(work, c, "ended")
    /\ IF conn[c] \in {"working", "orphan"}
       THEN \E o \in {"ok", "failed"} : conn' = Set(conn, c, IF conn[c] = "working" THEN o ELSE "none")
       ELSE UNCHANGED conn
    /\ UNCHANGED <<request, stage, answer, ran>>

\* RPC_REQUEST_EXEC_TIMEOUT: the caller is answered, the handler runs on.
ExecTimesOut(c) ==
    /\ conn[c] \in {"working", "orphan"}
    /\ conn' = Set(conn, c, IF conn[c] = "working" THEN "failed" ELSE "none")
    /\ UNCHANGED <<request, stage, answer, work, ran>>

-----------------------------------------------------------------------------
(* sudo *)

SpawnFails(c) ==
    /\ stage[c] = "sudo"
    /\ Finish(c, "unavailable")
    /\ UNCHANGED <<request, conn, work, ran>>

\* The wrapper reads the request and evaluates the same gate.
SudoRuns(c) ==
    /\ stage[c] = "sudo"
    /\ IF Gate("Rw", request[c])
       THEN Start(c, "Rw") /\ stage' = Set(stage, c, "waiting") /\ UNCHANGED answer
       ELSE Finish(c, "business") /\ UNCHANGED <<work, ran>>
    /\ UNCHANGED <<request, conn>>

\* wait_with_output, its exit status and its answer; or the deadline.
SudoAnswers(c) ==
    /\ stage[c] = "waiting" /\ work[c] = "ended"
    /\ \E told \in {"ok", "business"} : Finish(c, told)
    /\ UNCHANGED <<request, conn, work, ran>>

SudoTimesOut(c) ==
    /\ stage[c] = "waiting"
    /\ Finish(c, "timeout")
    /\ UNCHANGED <<request, conn, work, ran>>

-----------------------------------------------------------------------------
Step(c) ==
    \/ Call(c) \/ ConnectFails(c) \/ Connected(c) \/ ReadsAnswer(c) \/ ExchangeTimesOut(c)
    \/ Accept(c) \/ ServeRequest(c) \/ ReadEnds(c) \/ HandlerEnds(c) \/ ExecTimesOut(c)
    \/ SpawnFails(c) \/ SudoRuns(c) \/ SudoAnswers(c) \/ SudoTimesOut(c)

HelperNext == \E c \in Callers : Step(c)

Spec == HelperInit /\ [][HelperNext]_helperVars

-----------------------------------------------------------------------------
\* Whatever deadline fires first and whichever way the socket breaks, a call
\* starts its action at most once, a call that is told the helper is not
\* available started nothing, what was refused by a gate never ran, and
\* nothing that changes the system runs on behalf of the read-only socket.
\* A fallback to sudo after anything but a failed connection would break it.
RunsAtMostOnce ==
    \A c \in Callers :
        LET n == ran[c].Ro + ran[c].Rw IN
        /\ n <= 1
        /\ answer[c] = "unavailable" => n = 0
        /\ answer[c] = "ok" => n = 1
        /\ ran[c].Ro > 0 => ~IsRw(request[c].action)
        /\ n > 0 => IsAllowed(request[c].action) /\ (request[c].action = "destroy" => request[c].confirm)
=============================================================================
