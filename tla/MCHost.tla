------------------------------- MODULE MCHost -------------------------------
(***************************************************************************)
(* The modules about the daemons and the host they run on, put together.   *)
(* A behaviour belongs to one component, its part, and a configuration     *)
(* chooses the parts its run explores.  The components HostProofs is about *)
(* have variables of their own and their constants are declared here, so   *)
(* that the theorems hold for every value of them; the others are small    *)
(* instances and share the variables v1, v2, ...                           *)
(***************************************************************************)
EXTENDS Integers, Sequences, FiniteSets, TLC

CONSTANTS
    InPlay,     \* the components a run is about
    Actors,     \* the callers, clients or operators of a component, where they
                \* are interchangeable
    Users, Emails, LocalPart, Passwords, Browsers, MaxRequests, MaxTicks, MaxFaults,   \* Accounts
    MaxWorkers, PublicMode,                                                            \* PrivHelper
    Files, Secrets, Values, Foreign, Names, MaxBackupChanges, MaxFailures,             \* Backup
    MaxRecords, MaxCuts,                                                               \* AuditLog
    Endpoints, MaxRelayCalls, MaxRelayFaults,                                          \* Relay
    Hosts, MaxTableChanges, MaxBroken,                                                 \* Tables
    CertDomains, TlsServers, MaxPairs, MaxCertFaults                                   \* Certificates

VARIABLE part     \* the component in play

\* PrivHelper
VARIABLES request, stage, helperAnswer, conn, work, ran
\* Backup
VARIABLES public, disk, archives, notes, backupOp, report, before, warned, backupChanges,
          failures
\* AuditLog
VARIABLES log, tail, head, auditLock, writer, last, kept, done, cuts, auditTorn
\* Accounts
VARIABLES account, locked, maildirs, record, managed, boxes, registry, epochs, now, op,
          answer, session, served, stale, requests, faults
\* Relay
VARIABLES doc, relayCall, relayLock, loading, daemon, relayCalls, relayFaults
\* Tables
VARIABLES table, compiled, intended, locks, tableOp, programs, running, mail, tableChanges,
          broken
\* Certificates
VARIABLES certDisk, stages, held, certCall, server, issued, certTorn, faulty
\* The other components share these.
VARIABLES v1, v2, v3, v4, v5, v6, v7, v8, v9, v10, v11, v12, v13, v14, v15, v16, v17, v18,
          v19, v20, v21

\* The variables a component does not use are zero and stay so.
HelperVars == <<request, stage, helperAnswer, conn, work, ran>>
HelperOff == request = 0 /\ stage = 0 /\ helperAnswer = 0 /\ conn = 0 /\ work = 0 /\
             ran = 0
ArchiveVars == <<public, disk, archives, notes, backupOp, report, before, warned,
                 backupChanges, failures>>
ArchiveOff == public = 0 /\ disk = 0 /\ archives = 0 /\ notes = 0 /\ backupOp = 0 /\
              report = 0 /\ before = 0 /\ warned = 0 /\ backupChanges = 0 /\
              failures = 0
AuditVars == <<log, tail, head, auditLock, writer, last, kept, done, cuts, auditTorn>>
AuditOff == log = 0 /\ tail = 0 /\ head = 0 /\ auditLock = 0 /\ writer = 0 /\ last = 0 /\
            kept = 0 /\ done = 0 /\ cuts = 0 /\ auditTorn = 0
StaffVars == <<account, locked, maildirs, record, managed, boxes, registry, epochs, now,
               op, answer, session, served, stale, requests, faults>>
StaffOff == account = 0 /\ locked = 0 /\ maildirs = 0 /\ record = 0 /\ managed = 0 /\
            boxes = 0 /\ registry = 0 /\ epochs = 0 /\ now = 0 /\ op = 0 /\ answer = 0 /\
            session = 0 /\ served = 0 /\ stale = 0 /\ requests = 0 /\ faults = 0
SmartVars == <<doc, relayCall, relayLock, loading, daemon, relayCalls, relayFaults>>
SmartOff == doc = 0 /\ relayCall = 0 /\ relayLock = 0 /\ loading = 0 /\ daemon = 0 /\
            relayCalls = 0 /\ relayFaults = 0
MapsVars == <<table, compiled, intended, locks, tableOp, programs, running, mail,
              tableChanges, broken>>
MapsOff == table = 0 /\ compiled = 0 /\ intended = 0 /\ locks = 0 /\ tableOp = 0 /\
           programs = 0 /\ running = 0 /\ mail = 0 /\ tableChanges = 0 /\ broken = 0
CertsVars == <<certDisk, stages, held, certCall, server, issued, certTorn, faulty>>
CertsOff == certDisk = 0 /\ stages = 0 /\ held = 0 /\ certCall = 0 /\ server = 0 /\
            issued = 0 /\ certTorn = 0 /\ faulty = 0
From21 == <<v21>>
Blank21 == v21 = 0
From20 == <<v20, From21>>
Blank20 == v20 = 0 /\ Blank21
From19 == <<v19, From20>>
Blank19 == v19 = 0 /\ Blank20
From18 == <<v18, From19>>
Blank18 == v18 = 0 /\ Blank19
From17 == <<v17, From18>>
Blank17 == v17 = 0 /\ Blank18
From16 == <<v16, From17>>
Blank16 == v16 = 0 /\ Blank17
From15 == <<v15, From16>>
Blank15 == v15 = 0 /\ Blank16
From14 == <<v14, From15>>
Blank14 == v14 = 0 /\ Blank15
From13 == <<v13, From14>>
Blank13 == v13 = 0 /\ Blank14
From12 == <<v12, From13>>
Blank12 == v12 = 0 /\ Blank13
From11 == <<v11, From12>>
Blank11 == v11 = 0 /\ Blank12
From10 == <<v10, From11>>
Blank10 == v10 = 0 /\ Blank11
Shared == <<v1, v2, v3, v4, v5, v6, v7, v8, v9, From10>>
SharedOff == v1 = 0 /\ v2 = 0 /\ v3 = 0 /\ v4 = 0 /\ v5 = 0 /\ v6 = 0 /\ v7 = 0 /\
             v8 = 0 /\ v9 = 0 /\ Blank10

vars == <<part, HelperVars, ArchiveVars, AuditVars, StaffVars, SmartVars, MapsVars,
          CertsVars, Shared>>
NamedVars == <<HelperVars, ArchiveVars, AuditVars, StaffVars, SmartVars, MapsVars,
               CertsVars>>
NamedOff == HelperOff /\ ArchiveOff /\ AuditOff /\ StaffOff /\ SmartOff /\ MapsOff /\
            CertsOff

Symmetry == Permutations(Actors)

-----------------------------------------------------------------------------
(* Constants of the instances *)

\* Admission: two peers, one of them an IPv6 prefix with two addresses.
PeerOf == ("a" :> "pa") @@ ("b1" :> "pb") @@ ("b2" :> "pb")

Quiet == [conns |-> 1, ports |-> {"smtp"}, ips |-> {"a", "b1"}, until |-> 0, back |-> 0, fault |-> 0,
          restart |-> 0, order |-> 0, allowed |-> 0]

\* A shutdown with connections, and reloads of a file that changes.
LiveScenario == [Quiet EXCEPT !.ips = {"b1", "b2"}, !.fault = 1, !.restart = 1, !.order = 2]

\* OutboundQueue: one remote message and its report, one mishap of each kind.
OneRemote == {[from |-> "alice", rcpts |-> {"bob"}]}
OneOfEach == [k \in {"crash", "abort", "write", "dsn", "claim", "health", "reply", "receipt", "sign", "flush", "retry", "delete"} |-> IF k \in {"crash", "dsn", "write", "receipt"} THEN 1 ELSE 0]
FlatPolicy == [base_secs |-> 1, factor |-> 1, max_secs |-> 1, max_attempts |-> 2]

\* Accounts: whose mailbox an address is.
LocalPartOf == "ann@x" :> "ann"

\* Relay: two relays, and one without stored credentials.
Endpoint(h, p, t, u) == [host |-> h, port |-> p, tls |-> t, user |-> u]
SomeEndpoints == {Endpoint("h1", 587, "STARTTLS", "u1"), Endpoint("h2", 465, "SSL/TLS", "u2"),
                  Endpoint("h1", 2525, "SSL/TLS", "nobody")}

\* HostView, telemetry: who writes under which name, two rings, two machines.
DaemonOf == ("smtpd" :> "postfix") @@ ("imap" :> "dovecot") @@ ("sh" :> "none")
Rings == <<[every |-> 1, cap |-> 2], [every |-> 2, cap |-> 2]>>
Core(idle, total) == [idle |-> idle, total |-> total]
Machines == {[cpu |-> <<Core(1, 2)>>, disk |-> "used", queue |-> <<"fails">>],
             [cpu |-> <<Core(1, 2), Core(0, 1)>>, disk |-> "fails", queue |-> <<"deferred", "junk", "active">>]}

\* HostView, setup checks: what a zone may hold, right and nearly right.
MxTexts == {[host |-> h, dot |-> d] : h \in {"mail.d1"}, d \in BOOLEAN} \cup {[host |-> "x", dot |-> TRUE]}
DkimTexts == {[version |-> TRUE, key |-> 1, long |-> l] : l \in BOOLEAN}
DmarcTexts == {[version |-> TRUE, rua |-> r] : r \in BOOLEAN}
Identities == {[host |-> "mail.d1", ip |-> "i1", spf |-> ""], [host |-> "mail.d1", ip |-> "i2", spf |-> "s1"]}
Mailbox(u, d) == [user |-> u, domain |-> d]
UpTo(n, A) == UNION {[1..k -> A] : k \in 0..n}

-----------------------------------------------------------------------------
Stop == INSTANCE Admission WITH
    now <- v1, entries <- v2, buckets <- v3, file <- v4, hadEntries <- v5, up <- v6,
    active <- v7, permits <- v8, conn <- v9, budget <- v10, loaded <- v11, charges <- v12,
    allowed <- v13, latest <- v14, Peers <- {"pa", "pb"}, BanFailures <- 2, BanWindow <- 2,
    TempBan <- 2, PermanentAfter <- 2, BanEntries <- 1, Burst <- 2, RateEntries <- 1,
    Ips <- {"a", "b1", "b2"}, Key <- PeerOf, Listeners <- {"smtp", "smtps"},
    Implicit <- {"smtps"}, StartTls <- {"smtp"}, Conns <- {"c1"}, MaxConnections <- 2,
    MaxPerPeer <- 2, AuthFailures <- 2, MaxNow <- 0, Bounds <- {LiveScenario}
StopInit == part = "stop" /\ Stop!Init /\ NamedOff /\ Blank15
StopStep == part = "stop" /\ Stop!Next /\ UNCHANGED <<part, NamedVars, From15>>

Queue == INSTANCE OutboundQueue WITH
    now <- v1, msg <- v2, spool <- v3, claims <- v4, savedHealth <- v5, round <- v6,
    roundNow <- v7, due <- v8, halfOpenUsed <- v9, failures <- v10, roundFails <- v11,
    task <- v12, console <- v13, mishap <- v14, delivered <- v15, again <- v16,
    reported <- v17, rereported <- v18, discarded <- v19, deleted <- v20, dropped <- v21,
    Runners <- {"r1"}, Ids <- {"m1", "m2"}, Rcpts <- {"alice", "bob"},
    LocalRcpts <- {"alice"}, Null <- "null", Envelopes <- OneRemote, Policy <- FlatPolicy,
    Threshold <- 1, Permits <- 1, ClaimTTL <- 1, MaxTime <- 1, MaxMessages <- 1,
    MaxFailures <- 5, Budgets <- {OneOfEach}
QueueInit == part = "queue" /\ Queue!Init /\ NamedOff
QueueStep == part = "queue" /\ Queue!Next /\ UNCHANGED <<part, NamedVars>>

Imapd == INSTANCE MailDaemon WITH
    has <- v1, stopping <- v2, listener <- v3, tasks <- v4, metrics <- v5, windows <- v6,
    now <- v7, daemon <- v8, blamed <- v9, lost <- v10,
    PortSets <- {{}, {"imap", "imaps"}, {"pop3s"}, {"sieve"}}, Peers <- {"p1", "p2"},
    MaxConnections <- 1, MaxPerWindow <- 1, MaxTracked <- 1,
    MaxArrivals <- Cardinality(Actors), MaxClock <- 1
ImapdInit == part = "imapd" /\ Imapd!Init /\ NamedOff /\ Blank11
ImapdStep == part = "imapd" /\ Imapd!Next /\ UNCHANGED <<part, NamedVars, From11>>

Process == INSTANCE DaemonRun WITH
    host <- v1, phase <- v2, asked <- v3, owner <- v4, socket <- v5, task <- v6,
    round <- v7, shutdown <- v8, failures <- v9, code <- v10, Daemons <- Actors,
    AskedPorts <- {{"25"}}, Nobody <- "nobody", MaxStops <- 1, MaxMishaps <- 1
ProcessInit == part = "process" /\ Process!DaemonInit /\ NamedOff /\ Blank11
ProcessStep == part = "process" /\ Process!DaemonNext /\ UNCHANGED <<part, NamedVars, From11>>

Helper == INSTANCE PrivHelper WITH
    answer <- helperAnswer, Callers <- Actors
HelperInit == part = "helper" /\ Helper!HelperInit /\ ArchiveOff /\ AuditOff /\
    StaffOff /\ SmartOff /\ MapsOff /\ CertsOff /\ SharedOff
HelperStep ==
    part = "helper" /\ Helper!HelperNext /\ UNCHANGED <<part, ArchiveVars, AuditVars, StaffVars, SmartVars, MapsVars, CertsVars, Shared>>

Archive == INSTANCE Backup WITH
    op <- backupOp, changes <- backupChanges, MaxChanges <- MaxBackupChanges
ArchiveInit == part = "backup" /\ Archive!BackupInit /\ HelperOff /\ AuditOff /\
    StaffOff /\ SmartOff /\ MapsOff /\ CertsOff /\ SharedOff
ArchiveStep ==
    part = "backup" /\ Archive!BackupNext /\ UNCHANGED <<part, HelperVars, AuditVars, StaffVars, SmartVars, MapsVars, CertsVars, Shared>>

Audit == INSTANCE AuditLog WITH
    lock <- auditLock, torn <- auditTorn, Writers <- Actors
AuditInit == part = "audit" /\ Audit!AuditInit /\ HelperOff /\ ArchiveOff /\
    StaffOff /\ SmartOff /\ MapsOff /\ CertsOff /\ SharedOff
AuditStep ==
    part = "audit" /\ Audit!AuditNext /\ UNCHANGED <<part, HelperVars, ArchiveVars, StaffVars, SmartVars, MapsVars, CertsVars, Shared>>

Staff == INSTANCE Accounts WITH
    Operators <- Actors
StaffInit == part = "accounts" /\ Staff!AccountsInit /\ HelperOff /\ ArchiveOff /\
    AuditOff /\ SmartOff /\ MapsOff /\ CertsOff /\ SharedOff
StaffStep ==
    part = "accounts" /\ Staff!AccountsNext /\ UNCHANGED <<part, HelperVars, ArchiveVars, AuditVars, SmartVars, MapsVars, CertsVars, Shared>>

Smart == INSTANCE Relay WITH
    call <- relayCall, lock <- relayLock, RelayCallers <- Actors
SmartInit == part = "relay" /\ Smart!RelayInit /\ HelperOff /\ ArchiveOff /\
    AuditOff /\ StaffOff /\ MapsOff /\ CertsOff /\ SharedOff
SmartStep ==
    part = "relay" /\ Smart!RelayNext /\ UNCHANGED <<part, HelperVars, ArchiveVars, AuditVars, StaffVars, MapsVars, CertsVars, Shared>>

Maps == INSTANCE Tables WITH
    op <- tableOp, changes <- tableChanges, Operators <- Actors,
    MaxChanges <- MaxTableChanges
MapsInit == part = "tables" /\ Maps!TablesInit /\ HelperOff /\ ArchiveOff /\
    AuditOff /\ StaffOff /\ SmartOff /\ CertsOff /\ SharedOff
MapsStep ==
    part = "tables" /\ Maps!TablesNext /\ UNCHANGED <<part, HelperVars, ArchiveVars, AuditVars, StaffVars, SmartVars, CertsVars, Shared>>

Certs == INSTANCE Certificates WITH
    disk <- certDisk, call <- certCall, torn <- certTorn, CertCallers <- Actors
CertsInit == part = "certs" /\ Certs!CertInit /\ HelperOff /\ ArchiveOff /\
    AuditOff /\ StaffOff /\ SmartOff /\ MapsOff /\ SharedOff
CertsStep ==
    part = "certs" /\ Certs!CertNext /\ UNCHANGED <<part, HelperVars, ArchiveVars, AuditVars, StaffVars, SmartVars, MapsVars, Shared>>

Monitor == INSTANCE HostView WITH
    clock <- v1, procs <- v2, machine <- v3, inner <- v4, asking <- v5, answer <- v6,
    changes <- v7, sampled <- v8, missed <- v9, kind <- 0, setup <- 0, keys <- 0,
    zone <- 0, edits <- 0, tests <- 0, queued <- 0, boxes <- 0, letters <- 0, scan <- 0,
    probe <- 0, Pids <- {1}, WebPid <- 9, CommToDaemon <- DaemonOf, Ranges <- Rings,
    FullScanEvery <- 2, Refresh <- 2, Viewers <- Actors, MaxSamples <- 1,
    MaxTelemetryClock <- 3, MaxMachineChanges <- 2, Zone <- <<>>, MxTexts <- {},
    SpfTexts <- {}, DkimTexts <- {}, DmarcTexts <- {}, Identities <- {}, Ips <- {},
    Testers <- {}, Addresses <- {}, Managed <- {}, Locked <- {}, Needle <- <<>>,
    Contents <- {}, ChunkSizes <- {}, Targets <- {}, MaxZoneEdits <- 0, MaxLoopbacks <- 0
MonitorInit == part = "telemetry" /\ Monitor!TelemetryInit /\ NamedOff /\ Blank10
MonitorStep == part = "telemetry" /\ Monitor!TelemetryNext /\ UNCHANGED <<part, NamedVars, From10>>

Checks == INSTANCE HostView WITH
    kind <- v1, setup <- v2, keys <- v3, zone <- v4, edits <- v5, tests <- v6,
    queued <- v7, boxes <- v8, letters <- v9, scan <- v10, probe <- v11, clock <- 0,
    procs <- 0, machine <- 0, inner <- 0, asking <- 0, answer <- 0, changes <- 0,
    sampled <- 0, missed <- 0, Pids <- {}, WebPid <- 0, CommToDaemon <- <<>>,
    Ranges <- <<>>, FullScanEvery <- 0, Refresh <- 0, Machines <- {}, Viewers <- {},
    MaxSamples <- 0, MaxTelemetryClock <- 0, MaxMachineChanges <- 0,
    Zone <- <<"d1", "d2">>, SpfTexts <- {"v=spf1 mx -all", "s1", "other"},
    Ips <- {"i1", "i2"}, Testers <- Actors,
    Addresses <- {Mailbox("ann", "d1"), Mailbox("ann", "d2"), Mailbox("bob", "d1")},
    Managed <- {Mailbox("ann", "d1")}, Locked <- {}, Needle <- <<"a", "b", "a">>,
    Contents <- UpTo(5, {"a", "b"}), ChunkSizes <- 1 .. 3,
    Targets <- UpTo(2, {"connects", "refused", "private"}), MaxZoneEdits <- 4,
    MaxLoopbacks <- 2
ChecksInit == part = "setup" /\ Checks!SetupInit /\ NamedOff /\ Blank12
ChecksStep == part = "setup" /\ Checks!SetupNext /\ UNCHANGED <<part, NamedVars, From12>>

-----------------------------------------------------------------------------
Init ==
    /\ part \in InPlay
    /\ \/ StopInit
       \/ QueueInit
       \/ ImapdInit
       \/ ProcessInit
       \/ HelperInit
       \/ ArchiveInit
       \/ AuditInit
       \/ StaffInit
       \/ SmartInit
       \/ MapsInit
       \/ CertsInit
       \/ MonitorInit
       \/ ChecksInit

Next ==
    \/ StopStep \/ QueueStep \/ ImapdStep \/ ProcessStep \/ HelperStep
    \/ ArchiveStep \/ AuditStep \/ StaffStep \/ SmartStep \/ MapsStep
    \/ CertsStep \/ MonitorStep \/ ChecksStep

Spec == Init /\ [][Next]_vars

ASSUME StopConstants == Stop!ConstantsOK

\* The constants are as the proofs of HostProofs take them to be.
ASSUME ServiceAssumptions ==
    /\ Audit!AuditConstants /\ Staff!AccountConstants /\ Smart!RelayConstants /\ Maps!TablesConstants

\* The fairness of the daemons: their own timers and tasks, never their
\* peers, clients or operators.
StopVars == Stop!vars
QueueVars == Queue!vars
ImapdVars == Imapd!vars
ProcessVars == Process!daemonVars
Fairness ==
    /\ WF_StopVars(part = "stop" /\ Stop!Reload) /\ WF_StopVars(part = "stop" /\ Stop!Stop)
    /\ \A c \in {"c1"} :
          /\ WF_StopVars(part = "stop" /\ Stop!CheckBan(c)) /\ WF_StopVars(part = "stop" /\ Stop!CheckRate(c))
          /\ WF_StopVars(part = "stop" /\ Stop!Blame(c)) /\ WF_StopVars(part = "stop" /\ Stop!Close(c))
    /\ WF_QueueVars(part = "queue" /\ Queue!RunnerStep("r1"))
    /\ WF_QueueVars(part = "queue" /\ Queue!ConsoleEnds)
    /\ WF_QueueVars(part = "queue" /\ Queue!Tick)
    /\ WF_ImapdVars(part = "imapd" /\ Imapd!Start)
    /\ WF_ImapdVars(part = "imapd" /\ Imapd!SupervisorWakes)
    /\ WF_ImapdVars(part = "imapd" /\ Imapd!SupervisorEnds)
    /\ \A l \in {"imap", "imaps", "pop3s", "sieve"} :
          /\ WF_ImapdVars(part = "imapd" /\ Imapd!Running /\ Imapd!ListenerStops(l))
          /\ WF_ImapdVars(part = "imapd" /\ Imapd!Running /\ (Imapd!Drained(l) \/ Imapd!GraceOver(l)))
    /\ \A d \in Actors : WF_ProcessVars(part = "process" /\ Process!Works(d))

FairSpec == Spec /\ Fairness

-----------------------------------------------------------------------------
(* Properties, each for the parts it is about *)

\* OutboundQueue: every message leaves the spool in the end, although a kill,
\* a short receipt, a failing DSN and a failing write each happen once.
Drains ==
    \A m \in {"m1", "m2"} :
        (part = "queue" /\ ~Queue!Unused(m)) ~> (part = "queue" /\ Queue!HasLeft(m))

\* Admission: a list that stays in the file of a running daemon is in force
\* in the end (watch reloads every RELOAD_INTERVAL).
ReloadConverges ==
    \A list \in SUBSET {"b1", "b2"} :
        <>[](part = "stop" /\ Stop!Stands(list)) => <>[](part = "stop" /\ Stop!InForce(list))

\* A stop ends: the SMTP listeners whatever connected peers do, the mail
\* access daemon however long its sessions stay, and the whole process, also
\* when it was a failing task that caused the shutdown.
StopsEnd ==
    /\ (part = "stop" /\ Stop!Draining) ~> (part = "stop" /\ ~Stop!Draining)
    /\ (part = "imapd" /\ Imapd!Stopping) ~> (part = "imapd" /\ ~Imapd!Running)
    /\ \A d \in Actors : (part = "process" /\ Process!Leaving(d)) ~> (part = "process" /\ Process!Gone(d))

\* Accounts and the helper that makes them: one mailbox per address, answers
\* that agree with the files, and no request that runs twice because the
\* first attempt timed out.
AccountsTrue ==
    /\ part = "accounts" => Staff!OneMailboxPerAddress /\ Staff!AnswerTrue
    /\ part = "helper" => Helper!RunsAtMostOnce

\* docs/TEST_REPORT.md:423: a change of password and a lock must also end the
\* webmail sessions that are already open ("已经在线的 webmail 会话也必须失效").
SessionsRevoked == part = "accounts" => Staff!SessionsRevoked

\* A change of several files is all or nothing for whoever reads its answer:
\* a restore, a relay that is applied or rolled back with its password, a
\* certificate with its key.
AllOrNothing ==
    /\ part = "backup" => Archive!RestoreExact
    /\ part = "relay" => Smart!ApplyAnswerTrue /\ Smart!PasswordToItsRelay
    /\ part = "certs" => Certs!PairsMatch /\ Certs!NoStrayKey

\* What was written stays written: no operator's change of a table is lost to
\* another's, and the audit log's verdict is true of the records written.
RecordsKept ==
    /\ part = "tables" => Maps!NoChangeLost
    /\ part = "audit" => Audit!VerdictTrue

\* A service action that answers success left the service as it was asked.
ServiceAnswerTrue == [][part = "tables" => Maps!ServiceAnswer]_vars

\* What the host is told about itself is so: counters of connections balance,
\* a process keeps its sockets and its exit code is true, monitoring shows
\* samples that were taken, and setup checks find exactly what is there.
HostTold ==
    /\ part = "imapd" => Imapd!CountersBalance
    /\ part = "process" => Process!DaemonTrue
    /\ part = "telemetry" => Monitor!TelemetryTrue
    /\ part = "setup" => Checks!SetupChecksTrue
=============================================================================
