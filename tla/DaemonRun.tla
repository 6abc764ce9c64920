----------------------------- MODULE DaemonRun -----------------------------
(***************************************************************************)
(* mailstackd from start to exit (bin/mailstackd/src/lib.rs and the parts  *)
(* it wires: config.rs, listeners.rs, queue.rs, lmtp.rs, rpc.rs,           *)
(* shutdown.rs).  Several processes may be started against one host: what  *)
(* they share is the kernel's table of ports and the socket files under    *)
(* the run directory.                                                      *)
(***************************************************************************)
EXTENDS Naturals, FiniteSets

CONSTANTS
    Daemons,    \* processes; each is started at most once
    AskedPorts, \* the port sets a process may be asked for; any two share a port
    Nobody,     \* not a process
    MaxStops,   \* bound: processes that that are asked to stop
    MaxMishaps  \* bound: tasks that fail and processes that are killed

VARIABLES
    host,       \* what the configuration offers: the set of good things in it
    phase,      \* per process, where it is in run, or "off", "killed", "exited"
    asked,      \* per process, its ports
    owner,      \* per port, the process that holds it or Nobody
    socket,     \* per socket file, the process that bound it, Nobody or "file"
    task,       \* per process and task, its life
    round,      \* per process, whether a queue round is in flight
    shutdown,   \* per process, the watch channel's value
    failures,   \* per process, the tasks recorded as failed
    code        \* per process, its exit code: "none", "success" or "failure"

daemonVars == <<host, phase, asked, owner, socket, task, round, shutdown, failures, code>>

Ports == UNION AskedPorts
Faces == {"ro", "rw"}
Sockets == Faces \cup {"lmtp"}
TaskNames == Ports \cup Sockets \cup {"queue", "bans"}
Needed == {"setup", "domains", "spool", "relay", "certificate", "resolver", "admingroup"}

Starting == {"assemble", "ports", "servers", "runner", "lmtp", "ro", "rw", "spawn"}
Alive(d) == phase[d] \in Starting \cup {"serving"}
Mishaps == Cardinality({d \in Daemons : phase[d] = "killed"})
           + Cardinality({x \in Daemons \X TaskNames : task[x[1]][x[2]] \in {"failed", "buried"}})
TasksOf(d) == asked[d] \cup Sockets \cup {"queue", "bans"}

DaemonInit ==
    /\ host \in {Needed} \cup {Needed \ {n} : n \in Needed}
    /\ phase = [d \in Daemons |-> "off"]
    /\ asked = [d \in Daemons |-> {}]
    /\ owner = [p \in Ports |-> Nobody]
    /\ socket \in [Sockets -> {Nobody}] \cup {[s \in Sockets |-> IF s = "lmtp" THEN "file" ELSE Nobody]}
    /\ task = [d \in Daemons |-> [t \in TaskNames |-> "none"]]
    /\ round = [d \in Daemons |-> FALSE]
    /\ shutdown = [d \in Daemons |-> FALSE]
    /\ failures = [d \in Daemons |-> {}]
    /\ code = [d \in Daemons |-> "none"]

-----------------------------------------------------------------------------
(* Start-up: every step may refuse, and a refusal ends the process. *)

\* main turns the error of run into the exit code; the process's ports close.
Refuse(d) ==
    /\ phase' = [phase EXCEPT ![d] = "exited"]
    /\ code' = [code EXCEPT ![d] = "failure"]
    /\ owner' = [p \in Ports |-> IF owner[p] = d THEN Nobody ELSE owner[p]]

GoesOn(d, next) == phase' = [phase EXCEPT ![d] = next] /\ UNCHANGED <<code, owner>>

Launch(d, ports) ==
    /\ phase[d] = "off"
    /\ phase' = [phase EXCEPT ![d] = "assemble"]
    /\ asked' = [asked EXCEPT ![d] = ports]
    /\ UNCHANGED <<host, owner, socket, task, round, shutdown, failures, code>>

\* The spool is probed with a write, so a process that cannot take mail
\* never listens for it.
PrepareQueueDir == "spool" \in host

\* Setup, domain table, spool and relay are read before anything is opened.
Assembled(d) == asked[d] # {} /\ {"setup", "domains", "relay"} \subseteq host /\ PrepareQueueDir

Assemble(d) ==
    /\ phase[d] = "assemble"
    /\ IF Assembled(d) THEN GoesOn(d, "ports") ELSE Refuse(d)
    /\ UNCHANGED <<host, asked, socket, task, round, shutdown, failures>>

\* listeners::bind_all: the certificate, then the ports one by one.
BindPort(d) ==
    /\ phase[d] = "ports"
    /\ IF "certificate" \notin host \/ \E p \in asked[d] : owner[p] \notin {d, Nobody}
       THEN Refuse(d)
       ELSE \/ /\ \E p \in asked[d] : owner[p] = Nobody
                    /\ owner' = [owner EXCEPT ![p] = d]
               /\ UNCHANGED <<phase, code>>
            \/ (\A p \in asked[d] : owner[p] = d) /\ GoesOn(d, "servers")
    /\ UNCHANGED <<host, asked, socket, task, round, shutdown, failures>>

\* What a port offers: 465 speaks TLS at once, 587 and 25 offer STARTTLS,
\* and only the submission ports offer, and ask for, a login.
ForPort(p) == [implicit |-> p = "465", starttls |-> p # "465",
               auth |-> p \in {"465", "587"}, needsAuth |-> p \in {"465", "587"}]

\* A server that would promise TLS or AUTH it cannot give is refused.
Validate(plan, tls, authenticator) ==
    /\ plan.implicit => tls /\ ~plan.starttls
    /\ plan.starttls => tls
    /\ plan.auth => authenticator

\* build_server gives an authenticator to the ports that offer a login.
BuildServers(d) ==
    /\ phase[d] = "servers"
    /\ IF \A p \in asked[d] : Validate(ForPort(p), "certificate" \in host, ForPort(p).auth)
       THEN GoesOn(d, "runner") ELSE Refuse(d)
    /\ UNCHANGED <<host, asked, socket, task, round, shutdown, failures>>

BuildRunner(d) ==
    /\ phase[d] = "runner"
    /\ IF "resolver" \in host THEN GoesOn(d, "lmtp") ELSE Refuse(d)
    /\ UNCHANGED <<host, asked, socket, task, round, shutdown, failures>>

\* The LMTP server is only put together; its task binds the socket.
BuildLmtp(d) ==
    /\ phase[d] = "lmtp" /\ GoesOn(d, "ro")
    /\ UNCHANGED <<host, asked, socket, task, round, shutdown, failures>>

\* bind_unix_socket takes the path from whoever had it, and takes its own
\* file away again when the group cannot be set.
BindFace(d, f) ==
    /\ phase[d] = f
    /\ IF f = "ro" /\ "admingroup" \notin host
       THEN Refuse(d) /\ socket' = [socket EXCEPT ![f] = Nobody]
       ELSE /\ GoesOn(d, IF f = "ro" THEN "rw" ELSE "spawn")
            /\ socket' = [socket EXCEPT ![f] = d]
    /\ UNCHANGED <<host, asked, task, round, shutdown, failures>>

\* Every waiter is subscribed before any task runs.
Spawn(d) ==
    /\ phase[d] = "spawn" /\ GoesOn(d, "serving")
    /\ task' = [task EXCEPT ![d] = [t \in TaskNames |->
                  IF t = "lmtp" THEN "binding" ELSE IF t \in TasksOf(d) THEN "running" ELSE "none"]]
    /\ UNCHANGED <<host, asked, socket, round, shutdown, failures>>

-----------------------------------------------------------------------------
(* The tasks *)

Polled(d, t, from, to) ==
    /\ phase[d] = "serving" /\ task[d][t] = from
    /\ task' = [task EXCEPT ![d][t] = to]
    /\ UNCHANGED <<host, phase, asked, shutdown, failures, code>>

\* A server's run gives its port back when it returns.
Closes(d, t) == owner' = [p \in Ports |-> IF p = t /\ owner[p] = d THEN Nobody ELSE owner[p]]

\* serve_unix replaces a socket, refuses anything else, and goes away at
\* once when the shutdown came first.
LmtpBind(d) ==
    /\ IF socket["lmtp"] = "file"
       THEN Polled(d, "lmtp", "binding", "failed") /\ UNCHANGED socket
       ELSE IF shutdown[d]
       THEN Polled(d, "lmtp", "binding", "ok") /\ socket' = [socket EXCEPT !["lmtp"] = Nobody]
       ELSE Polled(d, "lmtp", "binding", "running") /\ socket' = [socket EXCEPT !["lmtp"] = d]
    /\ UNCHANGED <<owner, round>>

\* A listener stops accepting and lets its sessions finish, for a while.
StopAccepting(d, t) ==
    /\ t \in Ports \cup {"lmtp"} /\ shutdown[d]
    /\ Polled(d, t, "running", "draining")
    /\ UNCHANGED <<owner, socket, round>>

ServerDrained(d, t) ==
    /\ t \in Ports /\ Polled(d, t, "draining", "ok") /\ Closes(d, t)
    /\ UNCHANGED <<socket, round>>

\* serve_unix removes the path it served, whoever bound it last.
LmtpDrained(d) ==
    /\ Polled(d, "lmtp", "draining", "ok")
    /\ socket' = [socket EXCEPT !["lmtp"] = Nobody]
    /\ UNCHANGED <<owner, round>>

FaceStops(d, f) ==
    /\ f \in Faces /\ shutdown[d]
    /\ Polled(d, f, "running", "ok")
    /\ UNCHANGED <<owner, socket, round>>

\* accept failed on a face; anything may panic and drops what it held.
TaskFails(d, t) ==
    /\ Mishaps < MaxMishaps
    /\ \E from \in {"binding", "running", "draining"} : Polled(d, t, from, "failed")
    /\ Closes(d, t)
    /\ UNCHANGED <<socket, round>>

RoundStartsAnyway(d) ==
    /\ task[d]["queue"] = "running" /\ ~round[d] /\ phase[d] = "serving"
    /\ round' = [round EXCEPT ![d] = TRUE]
    /\ UNCHANGED <<host, phase, asked, owner, socket, task, shutdown, failures, code>>

\* The ticker starts a round unless one is in flight.
RoundStarts(d) ==
    /\ task[d]["queue"] = "running" /\ ~shutdown[d] /\ ~round[d] /\ phase[d] = "serving"
    /\ round' = [round EXCEPT ![d] = TRUE]
    /\ UNCHANGED <<host, phase, asked, owner, socket, task, shutdown, failures, code>>

\* A round ends, or is cancelled when the scheduler has waited ROUND_TIMEOUT.
RoundEnds(d) ==
    /\ round[d] /\ phase[d] = "serving"
    /\ round' = [round EXCEPT ![d] = FALSE]
    /\ UNCHANGED <<host, phase, asked, owner, socket, task, shutdown, failures, code>>

\* The scheduler leaves only once no round is in flight.
SchedulerStops(d) ==
    /\ shutdown[d] /\ ~round[d]
    /\ Polled(d, "queue", "running", "ok")
    /\ UNCHANGED <<owner, socket, round>>

BanWatchStops(d) ==
    /\ shutdown[d]
    /\ Polled(d, "bans", "running", "ok")
    /\ UNCHANGED <<owner, socket, round>>

-----------------------------------------------------------------------------
(* The supervising loop *)

OnlyFirstFailure(d, t) == IF shutdown[d] THEN failures[d] ELSE failures[d] \cup {t}

\* Every failure is kept; the first also triggers the shutdown.
Recorded(d, t) == failures[d] \cup {t}

\* join_next: a task that ended well changes nothing.
Join(d, t) ==
    /\ phase[d] = "serving" /\ task[d][t] = "failed"
    /\ task' = [task EXCEPT ![d][t] = "buried"]
    /\ failures' = [failures EXCEPT ![d] = Recorded(d, t)]
    /\ shutdown' = [shutdown EXCEPT ![d] = TRUE]
    /\ UNCHANGED <<host, phase, asked, owner, socket, round, code>>

\* SIGTERM or SIGINT
Signal(d) ==
    /\ phase[d] = "serving" /\ ~shutdown[d]
    /\ Cardinality({e \in Daemons : shutdown[e]}) < MaxStops
    /\ shutdown' = [shutdown EXCEPT ![d] = TRUE]
    /\ UNCHANGED <<host, phase, asked, owner, socket, task, round, failures, code>>

\* join_next has nothing left; the runtime goes and with it every detached task.
Exit(d) ==
    /\ phase[d] = "serving" /\ \A t \in TasksOf(d) : task[d][t] \in {"ok", "buried"}
    /\ phase' = [phase EXCEPT ![d] = "exited"]
    /\ code' = [code EXCEPT ![d] = IF failures[d] = {} THEN "success" ELSE "failure"]
    /\ round' = [round EXCEPT ![d] = FALSE]
    /\ UNCHANGED <<host, asked, owner, socket, task, shutdown, failures>>

\* SIGKILL: ports close, socket files stay behind.
Kill(d) ==
    /\ Alive(d) /\ Mishaps < MaxMishaps
    /\ phase' = [phase EXCEPT ![d] = "killed"]
    /\ owner' = [p \in Ports |-> IF owner[p] = d THEN Nobody ELSE owner[p]]
    /\ UNCHANGED <<host, asked, socket, task, round, shutdown, failures, code>>

Startup(d) ==
    \/ \E ports \in AskedPorts \cup {{}} : Launch(d, ports)
    \/ Assemble(d) \/ BindPort(d) \/ BuildServers(d) \/ BuildRunner(d) \/ BuildLmtp(d)
    \/ \E f \in Faces : BindFace(d, f)
    \/ Spawn(d)

Works(d) ==
    \/ LmtpBind(d) \/ LmtpDrained(d) \/ SchedulerStops(d) \/ BanWatchStops(d) \/ RoundEnds(d)
    \/ \E t \in TaskNames : StopAccepting(d, t) \/ ServerDrained(d, t) \/ FaceStops(d, t) \/ Join(d, t)
    \/ Exit(d)

DaemonNext ==
    \E d \in Daemons :
        \/ Startup(d) \/ Works(d)
        \/ RoundStarts(d) \/ Signal(d) \/ Kill(d)
        \/ \E t \in TaskNames : TaskFails(d, t)

\* Every drain, every round and every join has an end: the sessions by the
\* grace period, a round by ROUND_TIMEOUT, the tasks by being polled.
DaemonFairness == \A d \in Daemons : WF_daemonVars(Works(d))

Spec == DaemonInit /\ [][DaemonNext]_daemonVars /\ DaemonFairness

-----------------------------------------------------------------------------
(* Properties *)

\* A process whose listeners all run keeps the privileged helper's sockets,
\* whatever other processes are started beside it: they give up on a port
\* before they reach the socket files, which they would take without asking.
FacesHeld ==
    \A d \in Daemons :
        phase[d] = "serving" /\ (\A p \in asked[d] : task[d][p] = "running")
          => \A f \in Faces : task[d][f] = "running" => socket[f] = d

\* The exit code is success exactly when the process got as far as serving
\* and none of its tasks failed, before the shutdown or during it, and then
\* nothing of it is left: no port, no round, no task.
ExitTrue ==
    \A d \in Daemons : phase[d] = "exited" =>
        /\ (code[d] = "success") <=> \A t \in TasksOf(d) : task[d][t] = "ok"
        /\ \A p \in Ports : owner[p] # d
        /\ \A t \in TaskNames : task[d][t] \in {"none", "ok", "buried"}
        /\ ~round[d]

\* Both promises of a process to its neighbours and to its supervisor: its
\* sockets stay its own while it serves, and its exit code is true.
DaemonTrue == FacesHeld /\ ExitTrue

\* A shutdown, asked for or caused by a task that failed, ends the process.
Leaving(d) == shutdown[d]
Gone(d)    == phase[d] \in {"exited", "killed"}
ProcessEnds == \A d \in Daemons : Leaving(d) ~> Gone(d)
=============================================================================
