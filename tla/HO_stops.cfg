SPECIFICATION FairSpec
CONSTANTS
    InPlay = {"stop", "queue", "imapd", "process"}
    Actors = {a1}
    Users = {"ann", "eve"}
    Emails = {"ann@x"}
    LocalPart <- LocalPartOf
    Passwords = {"p1", "p2"}
    Browsers = {"b1"}
    MaxRequests = 3
    MaxTicks = 2
    MaxFaults = 1
    MaxWorkers = 1
    PublicMode = FALSE
    Files = {"conf", "key"}
    Secrets = {"key"}
    Values = {"v1", "v2"}
    Foreign = "shadow"
    Names = {"n1"}
    MaxBackupChanges = 1
    MaxFailures = 1
    MaxRecords = 5
    MaxCuts = 1
    Endpoints <- SomeEndpoints
    MaxRelayCalls = 2
    MaxRelayFaults = 2
    Hosts = {{}, {"postmap", "systemctl"}, {"postmap", "rc-service"}, {"postmap", "postfix", "fail2ban", "dovecot"}}
    MaxTableChanges = 2
    MaxBroken = 1
    CertDomains = {"d"}
    TlsServers = {"s1"}
    MaxPairs = 3
    MaxCertFaults = 2
CHECK_DEADLOCK FALSE
PROPERTIES Drains ReloadConverges StopsEnd
