SPECIFICATION Spec
CONSTANTS
    InPlay = {"console", "limits", "sasl", "pop3", "imap", "webmail", "lmtp", "delivery", "auth", "dkim"}
    Actors = {a1, a2}
    Keys = {"ann@x", "ann"}
    LocalPart <- LoginOf
    Words = {"p", "q"}
    Slots = 1
    Stored <- Strengths
    Files <- PasswordFiles
    Mixes = {{"smtp"}, {"imap"}, {"scram"}, {"dovecot"}}
    MaxWrites = 1
    Ips <- TwoIps
    Logins <- TwoLogins
    Threshold = 2
    Locks <- TwoLocks
    Window = 1
    Day = 2
    PerIp = 2
    PerLogin = 2
    PerAll = 3
    MaxTracked = 1
    MaxClock = 3
    MaxFlights = 3
    AdminNames = {"root"}
    AdminPasswords = {"p1"}
    MaxStep = 1
    StepsKept = 3
    MaxSecrets = 1
    MaxCalls = 4
    Users = {"ann", "bob"}
    Homeless = {"bob"}
    MaxAuthFailures = 2
    TlsRequired = TRUE
    MaxUid = 3
    ImapFolders = {"INBOX", "Work"}
    ImapUids = {1, 2, 3}
    Grants <- NoneOrAll
    MaxFailures = 2
    RequireTls = TRUE
    MaxImapChanges = 2
    MaxFaults = 1
    WebFolders = {"INBOX", "Drafts", "Work"}
    MaxLetters = 2
    MaxRequests = 2
    MaxWebFaults = 1
    Envelopes <- SomeEnvelopes
    Key <- LowerCase
    Routed = {"ann", "bob"}
    MaxRecipients = 2
    Domains <- TwoDomains
    Recipients <- RecipientsAt
    Hosts = {0, 1, 2}
    Prefs = {1, 2}
    MaxMx = 2
    Addresses = {"public", "private", "none"}
    AllowPrivate = FALSE
    Sinks = {"s1"}
    MaxEntries = 2
    MaxTtl = 1
    Ttls = {2}
    MaxAuthClock = 1
    MaxChanges = 1
    MaxPins = 1
    Selectors = {"s"}
    MaxKeys = 3
    MaxBroken = 1
SYMMETRY Symmetry
CHECK_DEADLOCK FALSE
INVARIANTS  MailKept   DeliveryTrue 
PROPERTY HandsOff
