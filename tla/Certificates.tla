---------------------------- MODULE Certificates ----------------------------
(***************************************************************************)
(* The TLS certificates of the installation.  The console uploads a pair    *)
(* or has acme.sh issue one (priv::acme); either way a certificate chain    *)
(* and a private key are two files of the domain's directory, replaced one  *)
(* after the other.  The daemons read the two files, one after the other    *)
(* too, when they start (smtpd::tls, imappop3::tls) and refuse to start     *)
(* without a matching pair.  A file's content is the number of the pair it  *)
(* belongs to.  acme.sh is external.                                        *)
(***************************************************************************)
EXTENDS Integers, FiniteSets

CONSTANTS
    CertCallers,    \* console calls that may run at the same time
    CertDomains,
    TlsServers,     \* daemons that load a pair at start
    MaxPairs,       \* bound on the pairs issued or uploaded
    MaxCertFaults   \* bound on writes that fail, commands that fail and crashes

VARIABLES
    disk,    \* disk[d]: [dir, cert, key] of /etc/mailstack/tls/<d>, 0 = no file
    stages,  \* stages[d]: staging directories with a copy of a private key
    held,    \* held[d]: the pair acme.sh keeps for d
    call,    \* call[c]
    server,  \* server[s]: [at, cert, key]
    issued,  \* pairs made so far
    torn,    \* domains where a call broke off between the files, or two overlapped
    faulty

certVars == <<disk, stages, held, call, server, issued, torn, faulty>>

NoFile == 0
IdleCall == [at |-> "idle"]
Fault == faulty < MaxCertFaults /\ faulty' = faulty + 1
NoFault == faulty' = faulty
Busy(c) == call[c].at \notin {"idle", "ok", "failed"}
Writing(c) == call[c].at \in {"first", "second"}

-----------------------------------------------------------------------------
(* setup.cert.issue                                                        *)

(* validate_custom_certificate: openssl accepts the certificate, it has not *)
(* expired, it names the host, and its public key is the private key's      *)
ValidateWithoutKey(u) == u.parses /\ u.current /\ u.host
ValidateCustomCertificate(u) == u.parses /\ u.current /\ u.host /\ u.cert = u.key

Uploads(n) == [parses : BOOLEAN, current : BOOLEAN, host : BOOLEAN, cert : {n}, key : {n, n + 1}]
IssueCustom(c) ==
    /\ call[c] = IdleCall /\ issued < MaxPairs
    /\ issued' = issued + 1
    /\ \E d \in CertDomains, u \in Uploads(issued + 1) :
         IF ValidateCustomCertificate(u)
         THEN /\ call' = [call EXCEPT ![c] = [at |-> "first", d |-> d, kind |-> "custom", cert |-> u.cert, key |-> u.key]]
              /\ disk' = [disk EXCEPT ![d].dir = TRUE]
         ELSE call' = [call EXCEPT ![c].at = "failed"] /\ UNCHANGED disk
    /\ UNCHANGED <<stages, held, server, torn, faulty>>

(* An ACME issue checks the address, that acme.sh is there and the webroot  *)
(* before it makes the directory                                            *)
IssueAcme(c) ==
    /\ call[c] = IdleCall
    /\ \E d \in CertDomains, valid \in BOOLEAN :
         IF valid
         THEN /\ call' = [call EXCEPT ![c] = [at |-> "issue", d |-> d, kind |-> "acme", cert |-> NoFile, key |-> NoFile]]
              /\ disk' = [disk EXCEPT ![d].dir = TRUE]
         ELSE call' = [call EXCEPT ![c].at = "failed"] /\ UNCHANGED disk
    /\ UNCHANGED <<stages, held, server, issued, torn, faulty>>

(* remove_empty_dir_best_effort: remove_dir leaves a directory with files *)
WithoutEmptyDir(d) == [disk EXCEPT ![d].dir = @ /\ (disk[d].cert # NoFile \/ disk[d].key # NoFile \/ stages[d] # {})]
(* acme.sh --issue, ISSUE_TIMEOUT *)
RunIssue(c) ==
    LET d == call[c].d IN
    /\ call[c].at = "issue"
    /\ \/ /\ issued < MaxPairs
          /\ issued' = issued + 1
          /\ held' = [held EXCEPT ![d] = issued + 1]
          /\ call' = [call EXCEPT ![c].at = "stage"]
          /\ NoFault /\ UNCHANGED disk
       \/ /\ Fault
          /\ call' = [call EXCEPT ![c].at = "failed"]
          /\ disk' = WithoutEmptyDir(d)
          /\ UNCHANGED <<held, issued>>
    /\ UNCHANGED <<stages, server, torn>>

(* The reload script, then a directory of its own for this call; another   *)
(* call that failed meanwhile may have removed the parent                  *)
Stage(c) ==
    LET d == call[c].d IN
    /\ call[c].at = "stage"
    /\ \/ /\ disk[d].dir
          /\ stages' = [stages EXCEPT ![d] = @ \cup {c}]
          /\ call' = [call EXCEPT ![c].at = "install"] /\ NoFault
       \/ /\ IF disk[d].dir THEN Fault ELSE NoFault
          /\ call' = [call EXCEPT ![c].at = "failed"] /\ UNCHANGED stages
    /\ UNCHANGED <<disk, held, server, issued, torn>>

(* PrivateCertStage is removed on every way out of the function *)
KeptStages(c) == IF call'[c].at = "failed" THEN stages ELSE [stages EXCEPT ![call[c].d] = @ \ {c}]
DroppedStages(c) == [stages EXCEPT ![call[c].d] = @ \ {c}]
(* acme.sh --install-cert copies what it holds into the stage *)
Install(c) ==
    /\ call[c].at = "install"
    /\ \/ /\ call' = [call EXCEPT ![c].at = "first", ![c].cert = held[call[c].d], ![c].key = held[call[c].d]]
          /\ NoFault /\ UNCHANGED stages
       \/ Fault /\ call' = [call EXCEPT ![c].at = "failed"] /\ stages' = DroppedStages(c)
    /\ UNCHANGED <<disk, held, server, issued, torn>>

(* The two files: an upload writes the chain first, ACME the key   *)
(* (atomic_as makes the directory when it is gone)                         *)
Written(c, part) ==
    IF (call[c].kind = "custom") = (part = "first")
    THEN [disk EXCEPT ![call[c].d].dir = TRUE, ![call[c].d].cert = call[c].cert]
    ELSE [disk EXCEPT ![call[c].d].dir = TRUE, ![call[c].d].key = call[c].key]
Overlaps(c) == \E o \in CertCallers \ {c} : Writing(o) /\ call[o].d = call[c].d
WriteFirst(c) ==
    LET d == call[c].d IN
    /\ call[c].at = "first"
    /\ \/ /\ disk' = Written(c, "first")
          /\ call' = [call EXCEPT ![c].at = "second"] /\ NoFault /\ UNCHANGED stages
          /\ torn' = IF Overlaps(c) THEN torn \cup {d} ELSE torn
       \/ /\ Fault
          /\ call' = [call EXCEPT ![c].at = "failed"]
          /\ stages' = DroppedStages(c) /\ UNCHANGED <<disk, torn>>
    /\ UNCHANGED <<held, server, issued>>
WriteSecond(c) ==
    LET d == call[c].d IN
    /\ call[c].at = "second"
    /\ \/ /\ disk' = Written(c, "second")
          /\ call' = [call EXCEPT ![c].at = "reload"]
          /\ NoFault
          /\ torn' = IF Overlaps(c) THEN torn \cup {d}
                     ELSE IF disk'[d].cert = disk'[d].key THEN torn \ {d} ELSE torn
       \/ Fault /\ call' = [call EXCEPT ![c].at = "failed"] /\ torn' = torn \cup {d} /\ UNCHANGED disk
    /\ stages' = DroppedStages(c)
    /\ UNCHANGED <<held, server, issued>>

(* read_certificate: what the console shows of a domain *)
ReadCertificate(d) ==
    IF ~disk[d].dir \/ disk[d].cert = NoFile THEN [present |-> FALSE, key |-> disk[d].key # NoFile]
    ELSE [present |-> TRUE, key |-> disk[d].key # NoFile, pair |-> disk[d].cert]
ListCertificates == [d \in {x \in CertDomains : disk[x].dir} |-> ReadCertificate(d)]
(* postconf and the reloads are best effort; the answer tells each *)
Finish(c) ==
    /\ call[c].at = "reload"
    /\ \E reloads \in SUBSET {"postfix", "dovecot"} :
         call' = [call EXCEPT ![c] = [at |-> "ok", reloads |-> reloads, shown |-> ReadCertificate(call[c].d)]]
    /\ UNCHANGED <<disk, stages, held, server, issued, torn, faulty>>

(* certs.renew: acme.sh renews what it holds; a failure is data, not an     *)
(* error, and the files of the domain are listed as they are                *)
Renew(c) ==
    /\ call[c] = IdleCall
    /\ \E d \in CertDomains :
         \/ /\ held[d] # NoFile /\ issued < MaxPairs
            /\ issued' = issued + 1 /\ held' = [held EXCEPT ![d] = issued + 1]
            /\ call' = [call EXCEPT ![c] = [at |-> "ok", shown |-> ListCertificates]] /\ NoFault
         \/ Fault /\ call' = [call EXCEPT ![c].at = "failed"] /\ UNCHANGED <<issued, held>>
    /\ UNCHANGED <<disk, stages, server, torn>>

(* The helper dies in the middle of a call *)
Crash(c) ==
    /\ Busy(c) /\ Fault
    /\ torn' = IF call[c].at = "second" THEN torn \cup {call[c].d} ELSE torn
    /\ call' = [call EXCEPT ![c] = [at |-> "failed", left |-> TRUE]]
    /\ UNCHANGED <<disk, stages, held, server, issued>>

-----------------------------------------------------------------------------
(* A daemon's start: server_config                                         *)

(* with_single_cert refuses a key that is not the certificate's *)
AnyKey(cert, key) == TRUE
KeysMatch(cert, key) == cert = key
Down == [at |-> "down"]
ReadChain(s) ==
    /\ server[s] = Down
    /\ \E d \in CertDomains :
         server' = [server EXCEPT ![s] = IF disk[d].cert = NoFile THEN [at |-> "refused"] ELSE [at |-> "chain", d |-> d, cert |-> disk[d].cert]]
    /\ UNCHANGED <<disk, stages, held, call, issued, torn, faulty>>
ReadKey(s) ==
    /\ server[s].at = "chain"
    /\ LET key == disk[server[s].d].key IN
       server' = [server EXCEPT ![s] = IF key # NoFile /\ KeysMatch(server[s].cert, key)
                                       THEN [at |-> "up", cert |-> server[s].cert, key |-> key]
                                       ELSE [at |-> "refused"]]
    /\ UNCHANGED <<disk, stages, held, call, issued, torn, faulty>>

(* A daemon is stopped, or its supervisor starts it once more *)
Stop(s) ==
    /\ server[s].at \in {"up", "refused"}
    /\ server' = [server EXCEPT ![s] = Down]
    /\ UNCHANGED <<disk, stages, held, call, issued, torn, faulty>>

CertInit ==
    /\ disk = [d \in CertDomains |-> [dir |-> FALSE, cert |-> NoFile, key |-> NoFile]]
    /\ stages = [d \in CertDomains |-> {}]
    /\ held = [d \in CertDomains |-> NoFile]
    /\ call = [c \in CertCallers |-> IdleCall]
    /\ server = [s \in TlsServers |-> Down]
    /\ issued = 0
    /\ torn = {}
    /\ faulty = 0

CertNext ==
    \/ \E c \in CertCallers :
         \/ IssueCustom(c) \/ IssueAcme(c) \/ RunIssue(c) \/ Stage(c) \/ Install(c)
         \/ WriteFirst(c) \/ WriteSecond(c) \/ Finish(c) \/ Renew(c) \/ Crash(c)
    \/ \E s \in TlsServers : ReadChain(s) \/ ReadKey(s) \/ Stop(s)

Spec == CertInit /\ [][CertNext]_certVars

-----------------------------------------------------------------------------
(* The chain and the key of a domain belong together unless a call is      *)
(* writing them, broke off between them, or overlapped with another; and a *)
(* daemon that runs serves a pair, whatever was being written as it read.  *)
PairsMatch ==
    /\ \A d \in CertDomains :
         disk[d].cert # disk[d].key => d \in torn \/ \E c \in CertCallers : call[c].at = "second" /\ call[c].d = d
    /\ \A s \in TlsServers : server[s].at = "up" => server[s].cert = server[s].key

(* No copy of a private key stays behind in a staging directory once its   *)
(* call has ended, unless the helper died                                  *)
NoStrayKey ==
    \A d \in CertDomains : \A c \in stages[d] : Busy(c) \/ "left" \in DOMAIN call[c]
=============================================================================
