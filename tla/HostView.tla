------------------------------ MODULE HostView ------------------------------
(***************************************************************************)
(* What the console shows of its host and checks about it.                 *)
(*                                                                         *)
(* Telemetry (telemetry.rs): a sampler and the requests read the machine   *)
(* under one lock and keep what they saw, the samples in one ring per      *)
(* range, the processes, the disk and the queue in caches that spare the   *)
(* next reading the work.  Rounding, megabytes and the load averages are   *)
(* left out; the memory of a daemon is the set of processes it sums.  The  *)
(* clock is the wall clock and is assumed not to step back.                *)
(*                                                                         *)
(* The setup wizard's checks (readers.rs, mailtest.rs, probe.rs): the DNS  *)
(* records the console asks the operator to publish, the verification of   *)
(* what is published, the loopback letter and the search for its token,    *)
(* and the probe of an outbound port.  Lookups of one call see one zone.   *)
(*                                                                         *)
(* The two share no state.                                                 *)
(***************************************************************************)
EXTENDS Integers, Sequences, FiniteSets, FiniteSetsExt, SequencesExt

CONSTANTS
    \* Telemetry
    Pids, WebPid,       \* processes; the console's own
    CommToDaemon,       \* [process names -> daemons or "none"]
    Ranges,             \* <<[every, cap], ...>>, the shortest first
    FullScanEvery,      \* FULL_SCAN_EVERY_CYCLES
    Refresh,            \* DISK_REFRESH_MS, QUEUE_REFRESH_MS
    Machines,           \* the readings the machine may give, see machine
    Viewers, MaxSamples,    \* requests; TELEMETRY_MAX_CONCURRENT_SAMPLES
    MaxTelemetryClock, MaxMachineChanges,
    \* Setup checks
    Zone,           \* the managed domains, the wizard's own first
    MxTexts,        \* MX targets as DNS prints them: [host, dot]
    SpfTexts, DkimTexts, DmarcTexts,   \* TXT records, see below
    Identities,     \* [host, ip, spf] the wizard may be given; spf "" for the default
    Ips,
    Testers,        \* calls of the mail tests
    Addresses,      \* [user, domain]
    Managed, Locked,    \* addresses with a managed mailbox; users locked out
    Needle, Contents, ChunkSizes,      \* the token, file contents, sizes of a read
    Targets,        \* of the port probe: sequence
    MaxZoneEdits, MaxLoopbacks

VARIABLES
    \* Telemetry
    clock,
    procs,      \* [pids running -> their names]
    machine,    \* [cpu: per core [idle, total], disk: used or "fails", queue: lines of postqueue or "fails"]
    inner,      \* what the lock guards
    asking,     \* requests that hold a permit, and the range they ask for
    answer,     \* [refused, samples, daemons]: the last answer
    changes,
    sampled,    \* history: the times of all samples
    missed,     \* history: per daemon, readings in a row that missed it
    \* Setup checks
    kind,       \* which of the checks, they share no state
    setup,      \* the identity saved, or none
    keys,       \* per domain, the DKIM key on disk: its number, 0 for none
    zone,       \* [a, mx, spf, dkim, dmarc]: what DNS serves
    edits,
    tests,      \* per call of a mail test, how far it is
    queued,     \* letters the local daemon accepted
    boxes,      \* per user, the letters in the mailbox
    letters,
    scan,       \* the search of one file for the token
    probe       \* the probe of a port

Daemons == {"postfix", "dovecot", "mailstack-web", "mailstack-webmail"}
NoTime == -1

telemetryVars == <<clock, procs, machine, inner, asking, answer, changes, sampled, missed>>

-----------------------------------------------------------------------------
(* Readings, each a function from what is kept to what is kept next        *)

(* daemons_locked: names are read again only of processes that are new,     *)
(* known as a daemon's, or at a full scan; one that is gone before its name *)
(* is read is dropped                                                      *)
FullScan(in) == in.cycles >= FullScanEvery
Candidates(in) == {p \in DOMAIN procs : FullScan(in) \/ p \in in.pidCache \/ p \notin in.seen}
DaemonOf(p) == CommToDaemon[procs[p]]
Found(in, dying) == {p \in Candidates(in) \ dying : DaemonOf(p) # "none"}
CyclesFromZero(in) == IF FullScan(in) THEN 0 ELSE in.cycles + 1
CyclesAfter(in) == IF FullScan(in) THEN 1 ELSE in.cycles + 1
DaemonStats(in, dying) ==
    [d \in Daemons |-> {p \in Found(in, dying) : DaemonOf(p) = d} \cup (IF d = "mailstack-web" THEN {WebPid} ELSE {})]
AfterDaemons(in, dying) ==
    [in EXCEPT !.pidCache = Found(in, dying), !.seen = DOMAIN procs, !.cycles = CyclesAfter(in)]

(* usage: the share of the time since the last reading that was not idle;   *)
(* counters that fell count as unmoved                                     *)
Fell(a, b) == IF a > b THEN a - b ELSE 0
Usage(total, idle, oldTotal, oldIdle) ==
    LET t == Fell(total, oldTotal)
    IN  IF t = 0 THEN 0 ELSE ((t - Min({Fell(idle, oldIdle), t})) * 100) \div t
Summed(cpu, of(_)) == SumFunction([c \in DOMAIN cpu |-> of(cpu[c])])
(* sample_cpu_locked: after a core came or went there is nothing to compare *)
SampleCpu(in) ==
    LET old == IF Len(in.prevCpu) = Len(machine.cpu) THEN in.prevCpu ELSE machine.cpu
        total(c) == c.total
        idle(c) == c.idle
    IN  Usage(Summed(machine.cpu, total), Summed(machine.cpu, idle), Summed(old, total), Summed(old, idle))
AfterCpu(in) == IF machine.cpu = <<>> THEN in ELSE [in EXCEPT !.prevCpu = machine.cpu]

(* queue_metrics: every line that parses counts; without an answer none do  *)
QueueMetrics ==
    IF machine.queue = <<"fails">> THEN [total |-> 0, deferred |-> 0]
    ELSE [total |-> Cardinality({i \in DOMAIN machine.queue : machine.queue[i] # "junk"}),
          deferred |-> Cardinality({i \in DOMAIN machine.queue : machine.queue[i] = "deferred"})]
Stale(at) == at = NoTime \/ clock - at >= Refresh
AfterQueue(in) == IF Stale(in.queueAt) THEN [in EXCEPT !.queue = QueueMetrics, !.queueAt = clock] ELSE in
(* disk_locked, read_disk: without an answer the last one stays             *)
ReadDisk(last) == IF machine.disk = "fails" THEN last ELSE machine.disk
AfterDisk(in) == IF Stale(in.diskAt) THEN [in EXCEPT !.disk = ReadDisk(@), !.diskAt = clock] ELSE in

(* sample_locked: the point enters the shortest ring always, another once   *)
(* its interval has passed since the ring's last point; a full ring drops   *)
(* its oldest                                                              *)
DueLater(i, ring) == i = 1 \/ ring = <<>> \/ clock - ring[Len(ring)].ts > Ranges[i].every
Due(i, ring) == i = 1 \/ ring = <<>> \/ clock - ring[Len(ring)].ts >= Ranges[i].every
Pushed(i, ring, point) ==
    IF ~Due(i, ring) THEN ring
    ELSE LET longer == Append(ring, point) IN IF Len(longer) > Ranges[i].cap THEN Tail(longer) ELSE longer
Sampled(in, dying) ==
    LET read == AfterQueue(AfterDaemons(AfterCpu(in), dying))
        point == [ts |-> clock, cpu |-> SampleCpu(in), queue |-> read.queue]
    IN  [read EXCEPT !.rings = [i \in DOMAIN Ranges |-> Pushed(i, in.rings[i], point)]]

(* History: what a reading missed *)
Missing(stats, dying) ==
    [d \in Daemons |-> IF stats[d] = {} /\ \E p \in DOMAIN procs \ dying : DaemonOf(p) = d THEN missed[d] + 1 ELSE 0]
Gone(dying) == [p \in DOMAIN procs \ dying |-> procs[p]]

-----------------------------------------------------------------------------
(* start_sampling: one sample per tick, each after the one before; some     *)
(* processes die while they are being read                                 *)
Sample(dying) ==
    /\ clock \notin sampled
    /\ inner' = Sampled(inner, dying)
    /\ sampled' = sampled \cup {clock}
    /\ missed' = Missing(DaemonStats(inner, dying), dying)
    /\ procs' = Gone(dying)
    /\ UNCHANGED <<clock, machine, asking, answer, changes>>

(* metrics_telemetry: a request without a permit is refused at once         *)
Ask(v, range) ==
    /\ v \notin DOMAIN asking
    /\ IF Cardinality(DOMAIN asking) < MaxSamples
       THEN /\ asking' = [w \in DOMAIN asking \cup {v} |-> IF w = v THEN range ELSE asking[w]]
            /\ UNCHANGED answer
       ELSE /\ answer' = [answer EXCEPT !.refused = TRUE]
            /\ UNCHANGED asking
    /\ UNCHANGED <<clock, procs, machine, inner, changes, sampled, missed>>

(* telemetry: the ring's points as they are, a sample of its own when there *)
(* are none, and a reading of the processes and the disk as of now          *)
Answer(v, dying) ==
    LET points == inner.rings[asking[v]]
        first == points = <<>>
        read == IF first THEN Sampled(inner, {}) ELSE inner
    IN  /\ v \in DOMAIN asking
        /\ inner' = AfterDisk(AfterDaemons(read, dying))
        /\ sampled' = IF first THEN sampled \cup {clock} ELSE sampled
        /\ answer' = [refused |-> FALSE, samples |-> Len(points), daemons |-> DaemonStats(read, dying)]
        /\ missed' = Missing(DaemonStats(read, dying), dying)
        /\ procs' = Gone(dying)
        /\ asking' = [w \in DOMAIN asking \ {v} |-> asking[w]]
        /\ UNCHANGED <<clock, machine, changes>>

-----------------------------------------------------------------------------
(* The machine                                                             *)

PassTime ==
    /\ clock < MaxTelemetryClock
    /\ clock' = clock + 1
    /\ UNCHANGED <<procs, machine, inner, asking, answer, changes, sampled, missed>>
(* A process appears, takes another name (exec), or a pid is used again     *)
Run(p, name) ==
    /\ changes < MaxMachineChanges /\ p # WebPid
    /\ changes' = changes + 1
    /\ procs' = [q \in DOMAIN procs \cup {p} |-> IF q = p THEN name ELSE procs[q]]
    /\ UNCHANGED <<clock, machine, inner, asking, answer, sampled, missed>>
MachineMoves(to) ==
    /\ changes < MaxMachineChanges
    /\ changes' = changes + 1
    /\ machine' = to
    /\ UNCHANGED <<clock, procs, inner, asking, answer, sampled, missed>>
TelemetryInit ==
    /\ clock = 0
    /\ procs = [p \in {WebPid} |-> CHOOSE n \in DOMAIN CommToDaemon : CommToDaemon[n] = "none"]
    /\ machine \in Machines
    /\ inner = [rings |-> [i \in DOMAIN Ranges |-> <<>>], prevCpu |-> machine.cpu, pidCache |-> {}, seen |-> {},
                cycles |-> FullScanEvery, disk |-> "none", diskAt |-> NoTime,
                queue |-> [total |-> 0, deferred |-> 0], queueAt |-> NoTime]
    /\ asking = <<>>
    /\ answer = [refused |-> FALSE, samples |-> 0, daemons |-> [d \in Daemons |-> {}]]
    /\ changes = 0
    /\ sampled = {}
    /\ missed = [d \in Daemons |-> 0]

TelemetryNext ==
    \/ \E dying \in SUBSET (DOMAIN procs \ {WebPid}) : Sample(dying) \/ \E v \in Viewers : Answer(v, dying)
    \/ \E v \in Viewers, range \in DOMAIN Ranges : Ask(v, range)
    \/ PassTime
    \/ \E p \in Pids, name \in DOMAIN CommToDaemon : Run(p, name)
    \/ \E to \in Machines : MachineMoves(to)

-----------------------------------------------------------------------------
(* A daemon that runs is shown as stopped, because its process was first    *)
(* seen under another name, in fewer readings in a row than lie between two *)
(* full scans, whoever takes the readings                                  *)
DaemonsShown ==
    \A d \in Daemons : missed[d] < FullScanEvery
(* Every ring holds, from its oldest point on, a point less than its        *)
(* interval before each sample taken (the shortest each sample), none two   *)
(* closer than that, and begins with the first sample until it is full      *)
RingsCover ==
    \A i \in DOMAIN Ranges :
        LET ring == inner.rings[i]
            reaches(k, s) == ring[k].ts <= s /\ s - ring[k].ts < (IF i = 1 THEN 1 ELSE Ranges[i].every)
        IN  /\ \A s \in sampled : s >= ring[1].ts => \E k \in DOMAIN ring : reaches(k, s)
            /\ \A k \in 1..(Len(ring) - 1) : i = 1 \/ ring[k + 1].ts - ring[k].ts >= Ranges[i].every
            /\ sampled # {} /\ Len(ring) < Ranges[i].cap => ring[1].ts = Min(sampled)
TelemetryTrue == DaemonsShown /\ RingsCover

-----------------------------------------------------------------------------
(* Setup checks *)

setupVars == <<kind, setup, keys, zone, edits, tests, queued, boxes, letters, scan, probe>>

Home == Zone[1]
Domains == Range(Zone)
NoSetup == [host |-> "", ip |-> "", spf |-> ""]
NoScan == [file |-> <<>>, pos |-> 0, window |-> <<>>, answer |-> "none"]
NoProbe == [targets |-> <<>>, tried |-> 0, open |-> FALSE]
NoTest == [at |-> "idle", to |-> [user |-> "", domain |-> ""], token |-> 0, found |-> FALSE]

-----------------------------------------------------------------------------
(* DNS.  A DKIM text is [version, key, long]: its tag, the number of the     *)
(* key, and whether the key is there in full; a DMARC text [version, rua]    *)

(* mx_records_contain: the dot at the end and the case aside *)
SameText(mx, host) == [host |-> host, dot |-> FALSE] \in mx
MxContains(mx, host) == host # "" /\ \E m \in mx : m.host = host
HasDkimPublicKey(text) == text.version /\ text.long
IsSpf(text) == text # "other"
DefaultSpf == "v=spf1 mx -all"
ExpectedSpf(id) == IF id.spf = "" THEN DefaultSpf ELSE id.spf

(* dns_records: the mail host for a domain it lies in, mail.<domain> else   *)
HostFor(d) == IF setup # NoSetup /\ d = Home THEN setup.host ELSE "mail." \o d
Told(d) ==
    [mx |-> HostFor(d),
     spf |-> ExpectedSpf(setup),
     dmarc |-> [version |-> TRUE, rua |-> TRUE],
     dkim |-> keys[d]]
(* zone_txt_value of the fragment on disk: the text in full *)
DkimTold(d) == [version |-> TRUE, key |-> keys[d], long |-> TRUE]
ListedOk(d) ==
    /\ setup # NoSetup => setup.ip \in zone.a
    /\ MxContains(zone.mx[d], HostFor(d))
    /\ ExpectedSpf(setup) \in zone.spf[d]
    /\ \E t \in zone.dmarc[d] : t.version
    /\ keys[d] # 0 => \E t \in zone.dkim[d] : HasDkimPublicKey(t)

(* setup_dns_verify of an identity: exactly one SPF record, the expected    *)
(* one, and a DMARC record that asks for reports                            *)
Verified(id, d) ==
    LET spf == {t \in zone.spf[d] : IsSpf(t)} IN
    /\ id.ip \in zone.a
    /\ MxContains(zone.mx[d], id.host)
    /\ Cardinality(spf) = 1
    /\ ExpectedSpf(id) \in spf
    /\ \E t \in zone.dkim[d] : HasDkimPublicKey(t)
    /\ \E t \in zone.dmarc[d] : t.version /\ t.rua

(* setup_identity_apply saves the identity and rotates the domain's key     *)
ApplyIdentity(id) ==
    /\ edits < MaxZoneEdits
    /\ edits' = edits + 1
    /\ setup' = id
    /\ keys' = [keys EXCEPT ![Home] = @ + 1]
    /\ UNCHANGED <<kind, zone, tests, queued, boxes, letters, scan, probe>>

(* The operator publishes what the console lists for a domain               *)
PublishTold(d) ==
    /\ edits < MaxZoneEdits
    /\ edits' = edits + 1
    /\ zone' = [a |-> IF setup = NoSetup THEN zone.a ELSE {setup.ip},
                mx |-> [zone.mx EXCEPT ![d] = {[host |-> Told(d).mx, dot |-> TRUE]}],
                spf |-> [zone.spf EXCEPT ![d] = {Told(d).spf}],
                dkim |-> [zone.dkim EXCEPT ![d] = IF keys[d] = 0 THEN {} ELSE {DkimTold(d)}],
                dmarc |-> [zone.dmarc EXCEPT ![d] = {Told(d).dmarc}]]
    /\ UNCHANGED <<kind, setup, keys, tests, queued, boxes, letters, scan, probe>>
(* or something else *)
EditZone(d) ==
    /\ edits < MaxZoneEdits
    /\ edits' = edits + 1
    /\ \/ \E to \in SUBSET Ips : zone' = [zone EXCEPT !.a = to]
       \/ \E to \in SUBSET MxTexts : zone' = [zone EXCEPT !.mx[d] = to]
       \/ \E to \in SUBSET SpfTexts : zone' = [zone EXCEPT !.spf[d] = to]
       \/ \E to \in SUBSET DkimTexts : zone' = [zone EXCEPT !.dkim[d] = to]
       \/ \E to \in SUBSET DmarcTexts : zone' = [zone EXCEPT !.dmarc[d] = to]
    /\ UNCHANGED <<kind, setup, keys, tests, queued, boxes, letters, scan, probe>>

-----------------------------------------------------------------------------
(* Mail tests                                                              *)

(* setup_mail_test: only from a managed mailbox that is not locked, to      *)
(* anyone; mail_test_loopback: to a managed domain or to localhost, with a  *)
(* token nobody has seen                                                    *)
MailTest(c, from, to) ==
    /\ tests[c].at = "idle" /\ letters < MaxLoopbacks
    /\ from \in Managed /\ from.user \notin Locked
    /\ letters' = letters + 1
    /\ tests' = [tests EXCEPT ![c] = [NoTest EXCEPT !.at = "sending", !.to = to]]
    /\ UNCHANGED <<kind, setup, keys, zone, edits, queued, boxes, scan, probe>>
Loopback(c, to) ==
    /\ tests[c].at = "idle" /\ letters < MaxLoopbacks
    /\ to.domain \in Domains \cup {"localhost"}
    /\ letters' = letters + 1
    /\ tests' = [tests EXCEPT ![c] = [NoTest EXCEPT !.at = "sending", !.to = to, !.token = letters + 1]]
    /\ UNCHANGED <<kind, setup, keys, zone, edits, queued, boxes, scan, probe>>
(* submit: over STARTTLS to this host; an error ends the call, also when    *)
(* the letter was taken and its answer lost                                *)
Submit(c, taken, answered) ==
    LET t == tests[c] IN
    /\ t.at = "sending"
    /\ queued' = IF taken THEN queued \cup {[to |-> t.to, token |-> t.token]} ELSE queued
    /\ tests' = [tests EXCEPT ![c].at = IF ~(taken /\ answered) THEN "failed" ELSE IF t.token = 0 THEN "answered" ELSE "looking"]
    /\ UNCHANGED <<kind, setup, keys, zone, edits, boxes, letters, scan, probe>>
(* find_loopback_token: in the mailbox of the local part, once, at once     *)
Look(c) ==
    /\ tests[c].at = "looking"
    /\ tests' = [tests EXCEPT ![c].at = "answered", ![c].found = tests[c].token \in boxes[tests[c].to.user]]
    /\ UNCHANGED <<kind, setup, keys, zone, edits, queued, boxes, letters, scan, probe>>
Forget(c) ==
    /\ tests[c].at \in {"answered", "failed"}
    /\ tests' = [tests EXCEPT ![c] = NoTest]
    /\ UNCHANGED <<kind, setup, keys, zone, edits, queued, boxes, letters, scan, probe>>
(* The queue delivers, later *)
Arrive(m) ==
    /\ m \in queued
    /\ queued' = queued \ {m}
    /\ boxes' = [boxes EXCEPT ![m.to.user] = @ \cup {m.token}]
    /\ UNCHANGED <<kind, setup, keys, zone, edits, tests, letters, scan, probe>>

-----------------------------------------------------------------------------
(* file_contains_token: reads of any size, and between two of them as much  *)
(* is kept as a token that straddles them may have begun                    *)
HasToken(s) == \E i \in 0..(Len(s) - Len(Needle)) : SubSeq(s, i + 1, i + Len(Needle)) = Needle
LastOf(s, n) == IF Len(s) <= n THEN s ELSE SubSeq(s, Len(s) - n + 1, Len(s))
KeepTooLittle(window) == LastOf(window, Len(Needle) - 2)
Keep(window) == LastOf(window, Len(Needle) - 1)
ReadChunk(n) ==
    LET read == SubSeq(scan.file, scan.pos + 1, Min({scan.pos + n, Len(scan.file)}))
        window == scan.window \o read
    IN  /\ scan.answer = "none"
        /\ scan' = IF read = <<>> THEN [scan EXCEPT !.answer = "no"]
                   ELSE IF HasToken(window) THEN [scan EXCEPT !.answer = "yes"]
                   ELSE [scan EXCEPT !.window = Keep(window), !.pos = @ + Len(read)]
        /\ UNCHANGED <<kind, setup, keys, zone, edits, tests, queued, boxes, letters, probe>>

(* probe_outbound_port_with_policy: the targets in turn until one connects;  *)
(* a private address is not tried                                           *)
ProbeTarget ==
    LET outcome == probe.targets[probe.tried + 1] IN
    /\ ~probe.open /\ probe.tried < Len(probe.targets)
    /\ probe' = [probe EXCEPT !.tried = @ + 1, !.open = outcome = "connects"]
    /\ UNCHANGED <<kind, setup, keys, zone, edits, tests, queued, boxes, letters, scan>>

-----------------------------------------------------------------------------
SetupInit ==
    /\ setup = NoSetup
    /\ keys = [d \in Domains |-> 0]
    /\ zone = [a |-> {}, mx |-> [d \in Domains |-> {}], spf |-> [d \in Domains |-> {}],
               dkim |-> [d \in Domains |-> {}], dmarc |-> [d \in Domains |-> {}]]
    /\ edits = 0
    /\ tests = [c \in Testers |-> NoTest]
    /\ queued = {}
    /\ boxes = [u \in {a.user : a \in Addresses} |-> {}]
    /\ letters = 0
    /\ \/ kind \in {"dns", "mail"} /\ scan = NoScan /\ probe = NoProbe
       \/ kind = "scan" /\ probe = NoProbe /\ \E f \in Contents : scan = [NoScan EXCEPT !.file = f]
       \/ kind = "probe" /\ scan = NoScan /\ \E t \in Targets : probe = [NoProbe EXCEPT !.targets = t]

SetupNext ==
    \/ kind = "dns" /\ \/ \E id \in Identities : ApplyIdentity(id)
                       \/ \E d \in Domains : PublishTold(d) \/ EditZone(d)
    \/ kind = "mail" /\ \/ \E c \in Testers, to \in Addresses : Loopback(c, to) \/ \E from \in Addresses : MailTest(c, from, to)
                        \/ \E c \in Testers : Look(c) \/ Forget(c) \/ \E taken, answered \in BOOLEAN : Submit(c, taken, answered)
                        \/ \E m \in queued : Arrive(m)
    \/ kind = "scan" /\ \E n \in ChunkSizes : ReadChunk(n)
    \/ kind = "probe" /\ ProbeTarget

-----------------------------------------------------------------------------
(* Whoever publishes what the console lists for the wizard's domain passes  *)
(* its verification, and whatever passes is also shown as published         *)
DnsChecksAgree ==
    setup # NoSetup =>
        /\ Verified(setup, Home) => ListedOk(Home)
        /\ zone.a = {setup.ip} /\ zone.mx[Home] = {[host |-> Told(Home).mx, dot |-> TRUE]} /\ zone.spf[Home] = {Told(Home).spf}
           /\ zone.dkim[Home] = {DkimTold(Home)} /\ zone.dmarc[Home] = {Told(Home).dmarc} => Verified(setup, Home)
(* The search of a file finds the token wherever the reads cut it, and a    *)
(* port is reported blocked only after every target failed                  *)
FoundIsThere ==
    /\ scan.answer # "none" => (scan.answer = "yes") = HasToken(scan.file)
    /\ probe.tried = Len(probe.targets) \/ probe.open => probe.open = ("connects" \in Range(probe.targets))
(* A letter reported found is in the mailbox, and one reported sent is      *)
(* there or on its way                                                      *)
SentIsUnderWay ==
    \A c \in Testers :
        /\ tests[c].found => tests[c].token \in boxes[tests[c].to.user]
        /\ tests[c].at \in {"looking", "answered"} =>
              tests[c].token \in boxes[tests[c].to.user] \/ [to |-> tests[c].to, token |-> tests[c].token] \in queued
SetupChecksTrue == DnsChecksAgree /\ FoundIsThere /\ SentIsUnderWay
=============================================================================
