----------------------------- MODULE MCServices -----------------------------
(***************************************************************************)
(* The services between the mailboxes and their users, put together:       *)
(* logins and their limits, the console's login, IMAP, POP3 and webmail,   *)
(* LMTP, remote delivery, authentication of incoming and signing of        *)
(* outgoing mail. A behaviour belongs to one component, its part, and a    *)
(* configuration chooses the parts its run explores. MailProofs declares   *)
(* the components' constants and state, makes the instances and proves     *)
(* each of them correct; here they are composed, and the last section      *)
(* carries the results over to the composition, for every value of the     *)
(* constants.                                                              *)
(***************************************************************************)
EXTENDS MailProofs, TLC

CONSTANTS
    InPlay,     \* the components a run is about
    AdminNames, AdminPasswords, MaxStep, StepsKept, MaxSecrets, MaxCalls     \* AdminConsole

VARIABLE part     \* the component in play

\* AdminConsole
VARIABLES config, step, adminLogin, call, open, spent, secrets, calls, old

\* The variables a component does not use are zero and stay so.
LoginVars == <<file, writes, cache, free, login, wire, kinds>>
LoginOff == file = 0 /\ writes = 0 /\ cache = 0 /\ free = 0 /\ login = 0 /\ wire = 0 /\
            kinds = 0
LimitsVars == <<door, clock, byIp, byLogin, all, failures, flights, served, due>>
LimitsOff == door = 0 /\ clock = 0 /\ byIp = 0 /\ byLogin = 0 /\ all = 0 /\ failures = 0 /\
             flights = 0 /\ served = 0 /\ due = 0
ConsoleVars == <<config, step, adminLogin, call, open, spent, secrets, calls, old>>
ConsoleOff == config = 0 /\ step = 0 /\ adminLogin = 0 /\ call = 0 /\ open = 0 /\
              spent = 0 /\ secrets = 0 /\ calls = 0 /\ old = 0
Pop3Vars == <<pop, inbox, nextUid, lockedBy, claimed, gone>>
Pop3Off == pop = 0 /\ inbox = 0 /\ nextUid = 0 /\ lockedBy = 0 /\ claimed = 0 /\
           gone = 0
ImapVars == <<imap, numbering, imapBox, imapMark, places, valid, acl, next, changes,
              faults, missed, opened, selectTorn, granted, slips>>
ImapOff == imap = 0 /\ numbering = 0 /\ imapBox = 0 /\ imapMark = 0 /\ places = 0 /\
           valid = 0 /\ acl = 0 /\ next = 0 /\ changes = 0 /\ faults = 0 /\ missed = 0 /\
           opened = 0 /\ selectTorn = 0 /\ granted = 0 /\ slips = 0
BrowserVars == <<folders, queue, request, shown, draft, letters, validity, requests,
                 webFaults, stored, asked, mistaken, swept>>
BrowserOff == folders = 0 /\ queue = 0 /\ request = 0 /\ shown = 0 /\ draft = 0 /\
              letters = 0 /\ validity = 0 /\ requests = 0 /\ webFaults = 0 /\ stored = 0 /\
              asked = 0 /\ mistaken = 0 /\ swept = 0
DialogueVars == <<envelope, client, server, command, lmtpWire, cut, boxes, result>>
DialogueOff == envelope = 0 /\ client = 0 /\ server = 0 /\ command = 0 /\ lmtpWire = 0 /\
               cut = 0 /\ boxes = 0 /\ result = 0
RemoteVars == <<route, credentials, at, domain, targets, tls, caps, rcpts, named, soft,
                hard, last, accepted, deliveryFailures, verdict, holders, lostReply,
                softened, exposed>>
RemoteOff == route = 0 /\ credentials = 0 /\ at = 0 /\ domain = 0 /\ targets = 0 /\
             tls = 0 /\ caps = 0 /\ rcpts = 0 /\ named = 0 /\ soft = 0 /\ hard = 0 /\
             last = 0 /\ accepted = 0 /\ deliveryFailures = 0 /\ verdict = 0 /\
             holders = 0 /\ lostReply = 0 /\ softened = 0 /\ exposed = 0
AuthVars == <<dns, published, now, entries, raw, task, pins>>
AuthOff == dns = 0 /\ published = 0 /\ now = 0 /\ entries = 0 /\ raw = 0 /\ task = 0 /\
           pins = 0
DkimVars == <<key, readable, record, locks, setup, rotation, made, cached, holder, signing,
              torn, broken>>
DkimOff == key = 0 /\ readable = 0 /\ record = 0 /\ locks = 0 /\ setup = 0 /\
           rotation = 0 /\ made = 0 /\ cached = 0 /\ holder = 0 /\ signing = 0 /\
           torn = 0 /\ broken = 0

vars == <<part, LoginVars, LimitsVars, ConsoleVars, Pop3Vars, ImapVars, BrowserVars,
          DialogueVars, RemoteVars, AuthVars, DkimVars>>

Symmetry == Permutations(Actors)

-----------------------------------------------------------------------------
(* Values of the constants *)

\* Sasl: one password under two names, records of different strength.
LoginOf == ("ann@x" :> "ann") @@ ("ann" :> "ann")
OnFile(w, r) == [word |-> w, rounds |-> r]
Strengths == {OnFile("p", 2), OnFile("p", 3)}
PasswordFiles == {("ann" :> OnFile("q", 2)) @@ ("ann@x" :> OnFile("", 0))}

\* RemoteDelivery: two recipients at one domain, one at another.
TwoDomains == <<"x", "y">>
RecipientsAt == ("x" :> <<"r1", "r2">>) @@ ("y" :> <<"r3">>)

\* LoginLimits: two addresses and two names, a second lock longer than the first.
TwoIps == {<<"i1">>, <<"i2">>}
TwoLogins == {<<"a">>, <<"b">>}
TwoLocks == <<1, 2>>

\* ImapSession: a peer shares nothing or everything.
NoneOrAll == {{}, {"l", "r", "i", "w", "t", "a"}}

\* Lmtp: a recipient named twice, once in other case; one nobody has; more
\* recipients than the server takes.
LowerCase == [a \in {"ann", "Ann", "bob", "cat", "nil"} |-> IF a = "Ann" THEN "ann" ELSE a]
SomeEnvelopes == {<<"ann">>, <<"nil">>, <<"ann", "bob">>, <<"ann", "nil", "bob">>, <<"ann", "Ann", "bob">>,
                  <<"bob", "ann", "cat">>}

-----------------------------------------------------------------------------
LoginInit == part = "sasl" /\ Login!SaslInit /\ LimitsOff /\ ConsoleOff /\
    Pop3Off /\ ImapOff /\ BrowserOff /\ DialogueOff /\ RemoteOff /\ AuthOff /\ DkimOff
LoginStep ==
    part = "sasl" /\ Login!SaslNext /\ UNCHANGED <<part, LimitsVars, ConsoleVars, Pop3Vars, ImapVars, BrowserVars, DialogueVars,
        RemoteVars, AuthVars, DkimVars>>

LimitsInit == part = "limits" /\ Limits!LimitsInit /\ LoginOff /\ ConsoleOff /\
    Pop3Off /\ ImapOff /\ BrowserOff /\ DialogueOff /\ RemoteOff /\ AuthOff /\ DkimOff
LimitsStep ==
    part = "limits" /\ Limits!LimitsNext /\ UNCHANGED <<part, LoginVars, ConsoleVars, Pop3Vars, ImapVars, BrowserVars, DialogueVars,
        RemoteVars, AuthVars, DkimVars>>

Console == INSTANCE AdminConsole WITH
    login <- adminLogin, Clients <- Actors
ConsoleInit == part = "console" /\ Console!AdminInit /\ LoginOff /\ LimitsOff /\
    Pop3Off /\ ImapOff /\ BrowserOff /\ DialogueOff /\ RemoteOff /\ AuthOff /\ DkimOff
ConsoleStep ==
    part = "console" /\ Console!AdminNext /\ UNCHANGED <<part, LoginVars, LimitsVars, Pop3Vars, ImapVars, BrowserVars, DialogueVars,
        RemoteVars, AuthVars, DkimVars>>

Pop3Init == part = "pop3" /\ Pop3!Init /\ LoginOff /\ LimitsOff /\
    ConsoleOff /\ ImapOff /\ BrowserOff /\ DialogueOff /\ RemoteOff /\ AuthOff /\
    DkimOff
Pop3Step ==
    part = "pop3" /\ Pop3!Next /\ UNCHANGED <<part, LoginVars, LimitsVars, ConsoleVars, ImapVars, BrowserVars, DialogueVars,
        RemoteVars, AuthVars, DkimVars>>

ImapInit == part = "imap" /\ Imap!Init /\ LoginOff /\ LimitsOff /\
    ConsoleOff /\ Pop3Off /\ BrowserOff /\ DialogueOff /\ RemoteOff /\ AuthOff /\
    DkimOff
ImapStep ==
    part = "imap" /\ Imap!Next /\ UNCHANGED <<part, LoginVars, LimitsVars, ConsoleVars, Pop3Vars, BrowserVars, DialogueVars,
        RemoteVars, AuthVars, DkimVars>>

BrowserInit == part = "webmail" /\ Browser!WebmailInit /\ LoginOff /\ LimitsOff /\
    ConsoleOff /\ Pop3Off /\ ImapOff /\ DialogueOff /\ RemoteOff /\ AuthOff /\ DkimOff
BrowserStep ==
    part = "webmail" /\ Browser!WebmailNext /\ UNCHANGED <<part, LoginVars, LimitsVars, ConsoleVars, Pop3Vars, ImapVars, DialogueVars,
        RemoteVars, AuthVars, DkimVars>>

DialogueInit == part = "lmtp" /\ Dialogue!Init /\ LoginOff /\ LimitsOff /\
    ConsoleOff /\ Pop3Off /\ ImapOff /\ BrowserOff /\ RemoteOff /\ AuthOff /\ DkimOff
DialogueStep ==
    part = "lmtp" /\ Dialogue!Next /\ UNCHANGED <<part, LoginVars, LimitsVars, ConsoleVars, Pop3Vars, ImapVars, BrowserVars,
        RemoteVars, AuthVars, DkimVars>>

RemoteInit == part = "delivery" /\ Remote!DeliveryInit /\ LoginOff /\ LimitsOff /\
    ConsoleOff /\ Pop3Off /\ ImapOff /\ BrowserOff /\ DialogueOff /\ AuthOff /\ DkimOff
RemoteStep ==
    part = "delivery" /\ Remote!DeliveryNext /\ UNCHANGED <<part, LoginVars, LimitsVars, ConsoleVars, Pop3Vars, ImapVars, BrowserVars,
        DialogueVars, AuthVars, DkimVars>>

AuthInit == part = "auth" /\ Auth!AuthInit /\ LoginOff /\ LimitsOff /\
    ConsoleOff /\ Pop3Off /\ ImapOff /\ BrowserOff /\ DialogueOff /\ RemoteOff /\
    DkimOff
AuthStep ==
    part = "auth" /\ Auth!AuthNext /\ UNCHANGED <<part, LoginVars, LimitsVars, ConsoleVars, Pop3Vars, ImapVars, BrowserVars,
        DialogueVars, RemoteVars, DkimVars>>

DkimInit == part = "dkim" /\ Dkim!DkimInit /\ LoginOff /\ LimitsOff /\
    ConsoleOff /\ Pop3Off /\ ImapOff /\ BrowserOff /\ DialogueOff /\ RemoteOff /\
    AuthOff
DkimStep ==
    part = "dkim" /\ Dkim!DkimNext /\ UNCHANGED <<part, LoginVars, LimitsVars, ConsoleVars, Pop3Vars, ImapVars, BrowserVars,
        DialogueVars, RemoteVars, AuthVars>>

-----------------------------------------------------------------------------
Init ==
    /\ part \in InPlay
    /\ \/ LoginInit
       \/ LimitsInit
       \/ ConsoleInit
       \/ Pop3Init
       \/ ImapInit
       \/ BrowserInit
       \/ DialogueInit
       \/ RemoteInit
       \/ AuthInit
       \/ DkimInit

Next ==
    \/ LoginStep \/ LimitsStep \/ ConsoleStep \/ Pop3Step \/ ImapStep
    \/ BrowserStep \/ DialogueStep \/ RemoteStep \/ AuthStep \/ DkimStep

Spec == Init /\ [][Next]_vars

\* The constants are as the proofs of MailProofs take them to be.
ASSUME ServiceAssumptions ==
    /\ Login!LoginConstants /\ Limits!LimitConstants /\ Console!ConsoleConstants /\ Pop3!Pop3Constants
    /\ Dialogue!EnvelopesSound /\ Remote!DeliveryConstants /\ Auth!AuthConstants /\ Dkim!DkimConstants

-----------------------------------------------------------------------------
(* Properties, each for the parts it is about *)

\* Nobody logs in who should not: a login succeeds only with the password on
\* file for that name when it was asked, a verification slot is never lost,
\* a lock on an address or a name holds for its term, and a one-time code of
\* the console opens one session.
LoginsTrue ==
    /\ part = "sasl" => Login!LoginTrue /\ Login!VerifySlotsKept
    /\ part = "limits" => Limits!LockHolds
    /\ part = "console" => Console!CodeOnce

\* No message disappears that nobody asked to remove: POP3 removes what its
\* session marked and no other, one session at a time; webmail moves, drafts
\* and deletions keep a copy until the next one is there.
MailKept ==
    /\ part = "pop3" => Pop3!RemovedOnlyIfMarked /\ Pop3!OneTransaction
    /\ part = "webmail" => Browser!LettersKept

\* An IMAP session works on the mailbox it says is selected, and on a peer's
\* only with the rights the peer granted.
AccessTrue == part = "imap" => Imap!WorksWhereItSays /\ Imap!OutsidersKeptOut

\* An IMAP command works on the message its client means, because both count
\* the same sequence numbers from the EXISTS and EXPUNGE lines.
SequenceNumbersAgree == part = "imap" => Imap!SequenceNumbersAgree

\* The LMTP dialogue implements the abstract hand-off: the initial states map
\* to initial states, and every step of client, server or network to a step
\* of Handoff or to none.
HandsOff ==
    /\ part = "lmtp" => Dialogue!Promise!Init
    /\ [][part = "lmtp" => Dialogue!Promise!Next \/ UNCHANGED Dialogue!Promise!vars]_vars

\* A remote delivery reports of every recipient what the hosts said, and
\* credentials and mail that must be encrypted never leave in clear.
DeliveryTrue == part = "delivery" => Remote!DeliveryTrue

\* Identity of mail: what DMARC says of incoming mail follows the published
\* record as far as its lifetime allows, with the text it was decided by; and
\* outgoing mail is signed with the key the published record announces.
IdentityTrue ==
    /\ part = "auth" => Auth!DmarcHonoured /\ Auth!TextOfItsRecord
    /\ part = "dkim" => Dkim!SignedWithCurrentKey /\ Dkim!RecordMatchesKey

-----------------------------------------------------------------------------
(***************************************************************************)
(* The results in the form in which MCServices states them, for the        *)
(* composition of its parts. A behaviour stays in the part it begins in    *)
(* and takes that component's steps, so what was proved of a component's   *)
(* specification holds of the composition while the component is in play.  *)
(***************************************************************************)
\* The component in play.
InPart(p) == part = p

\* Each part begins as its component does.
LEMMA PartsBegin ==
    Init =>
        /\ part = "sasl" => Login!SaslInit
        /\ part = "limits" => Limits!LimitsInit
        /\ part = "console" => Console!AdminInit
        /\ part = "pop3" => Pop3!Init
        /\ part = "imap" => Imap!Init
        /\ part = "webmail" => Browser!WebmailInit
        /\ part = "lmtp" => Dialogue!Init
        /\ part = "delivery" => Remote!DeliveryInit
        /\ part = "auth" => Auth!AuthInit
        /\ part = "dkim" => Dkim!DkimInit
BY DEF Init, LoginInit, LimitsInit, ConsoleInit, Pop3Init, ImapInit, BrowserInit, DialogueInit, RemoteInit,
       AuthInit, DkimInit

\* Each part takes its component's steps, and stays in play.
LEMMA PartsStep ==
    Next =>
        /\ part' = part
        /\ part = "sasl" => Login!SaslNext
        /\ part = "limits" => Limits!LimitsNext
        /\ part = "console" => Console!AdminNext
        /\ part = "pop3" => Pop3!Next
        /\ part = "imap" => Imap!Next
        /\ part = "webmail" => Browser!WebmailNext
        /\ part = "lmtp" => Dialogue!Next
        /\ part = "delivery" => Remote!DeliveryNext
        /\ part = "auth" => Auth!AuthNext
        /\ part = "dkim" => Dkim!DkimNext
BY DEF Next, LoginStep, LimitsStep, ConsoleStep, Pop3Step, ImapStep, BrowserStep, DialogueStep, RemoteStep,
       AuthStep, DkimStep

\* Logins: the composition implements the component while it is in play.
LEMMA SaslPart ==
    /\ Init /\ InPart("sasl") => Login!SaslInit
    /\ [Next]_vars /\ InPart("sasl") => [Login!SaslNext]_(Login!saslVars)
    /\ [Next]_vars => (InPart("sasl") <=> InPart("sasl")')
<1>1. UNCHANGED vars => UNCHANGED Login!saslVars /\ part' = part
  BY DEF vars, LoginVars, Login!saslVars
<1>. QED
  BY <1>1, PartsBegin, PartsStep DEF InPart

\* The limits on failed logins: the composition implements the component while it is in play.
LEMMA LimitsPart ==
    /\ Init /\ InPart("limits") => Limits!LimitsInit
    /\ [Next]_vars /\ InPart("limits") => [Limits!LimitsNext]_(Limits!limitVars)
    /\ [Next]_vars => (InPart("limits") <=> InPart("limits")')
<1>1. UNCHANGED vars => UNCHANGED Limits!limitVars /\ part' = part
  BY DEF vars, LimitsVars, Limits!limitVars
<1>. QED
  BY <1>1, PartsBegin, PartsStep DEF InPart

\* The administrator's login: the composition implements the component while it is in play.
LEMMA ConsolePart ==
    /\ Init /\ InPart("console") => Console!AdminInit
    /\ [Next]_vars /\ InPart("console") => [Console!AdminNext]_(Console!adminVars)
    /\ [Next]_vars => (InPart("console") <=> InPart("console")')
<1>1. UNCHANGED vars => UNCHANGED Console!adminVars /\ part' = part
  BY DEF vars, ConsoleVars, Console!adminVars
<1>. QED
  BY <1>1, PartsBegin, PartsStep DEF InPart

\* POP3: the composition implements the component while it is in play.
LEMMA Pop3Part ==
    /\ Init /\ InPart("pop3") => Pop3!Init
    /\ [Next]_vars /\ InPart("pop3") => [Pop3!Next]_(Pop3!vars)
    /\ [Next]_vars => (InPart("pop3") <=> InPart("pop3")')
<1>1. UNCHANGED vars => UNCHANGED Pop3!vars /\ part' = part
  BY DEF vars, Pop3Vars, Pop3!vars
<1>. QED
  BY <1>1, PartsBegin, PartsStep DEF InPart

\* IMAP: the composition implements the component while it is in play.
LEMMA ImapPart ==
    /\ Init /\ InPart("imap") => Imap!Init
    /\ [Next]_vars /\ InPart("imap") => [Imap!Next]_(Imap!vars)
    /\ [Next]_vars => (InPart("imap") <=> InPart("imap")')
<1>1. UNCHANGED vars => UNCHANGED Imap!vars /\ part' = part
  BY DEF vars, ImapVars, Imap!vars, Imap!mail, Imap!history
<1>. QED
  BY <1>1, PartsBegin, PartsStep DEF InPart

\* Webmail: the composition implements the component while it is in play.
LEMMA WebmailPart ==
    /\ Init /\ InPart("webmail") => Browser!WebmailInit
    /\ [Next]_vars /\ InPart("webmail") => [Browser!WebmailNext]_(Browser!webmailVars)
    /\ [Next]_vars => (InPart("webmail") <=> InPart("webmail")')
<1>1. UNCHANGED vars => UNCHANGED Browser!webmailVars /\ part' = part
  BY DEF vars, BrowserVars, Browser!webmailVars
<1>. QED
  BY <1>1, PartsBegin, PartsStep DEF InPart

\* LMTP: the composition implements the component while it is in play.
LEMMA LmtpPart ==
    /\ Init /\ InPart("lmtp") => Dialogue!Init
    /\ [Next]_vars /\ InPart("lmtp") => [Dialogue!Next]_(Dialogue!vars)
    /\ [Next]_vars => (InPart("lmtp") <=> InPart("lmtp")')
<1>1. UNCHANGED vars => UNCHANGED Dialogue!vars /\ part' = part
  BY DEF vars, DialogueVars, Dialogue!vars
<1>. QED
  BY <1>1, PartsBegin, PartsStep DEF InPart

\* Remote delivery: the composition implements the component while it is in play.
LEMMA DeliveryPart ==
    /\ Init /\ InPart("delivery") => Remote!DeliveryInit
    /\ [Next]_vars /\ InPart("delivery") => [Remote!DeliveryNext]_(Remote!deliveryVars)
    /\ [Next]_vars => (InPart("delivery") <=> InPart("delivery")')
<1>1. UNCHANGED vars => UNCHANGED Remote!deliveryVars /\ part' = part
  BY DEF vars, RemoteVars, Remote!deliveryVars
<1>. QED
  BY <1>1, PartsBegin, PartsStep DEF InPart

\* Authentication of incoming mail: the composition implements the component while it is in play.
LEMMA AuthPart ==
    /\ Init /\ InPart("auth") => Auth!AuthInit
    /\ [Next]_vars /\ InPart("auth") => [Auth!AuthNext]_(Auth!authVars)
    /\ [Next]_vars => (InPart("auth") <=> InPart("auth")')
<1>1. UNCHANGED vars => UNCHANGED Auth!authVars /\ part' = part
  BY DEF vars, AuthVars, Auth!authVars
<1>. QED
  BY <1>1, PartsBegin, PartsStep DEF InPart

\* Signing of outgoing mail: the composition implements the component while it is in play.
LEMMA DkimPart ==
    /\ Init /\ InPart("dkim") => Dkim!DkimInit
    /\ [Next]_vars /\ InPart("dkim") => [Dkim!DkimNext]_(Dkim!dkimVars)
    /\ [Next]_vars => (InPart("dkim") <=> InPart("dkim")')
<1>1. UNCHANGED vars => UNCHANGED Dkim!dkimVars /\ part' = part
  BY DEF vars, DkimVars, Dkim!dkimVars
<1>. QED
  BY <1>1, PartsBegin, PartsStep DEF InPart

\* Nobody logs in who should not, at any door and for every value of the constants: a
\* login succeeds only with the password on file (sasl.rs, auth of mail access), a lock
\* holds for its term (the three failure tables), and a one-time code opens one session
\* (totp::verify).
THEOREM LoginsAlwaysTrue == Spec => []LoginsTrue
<1>1. Login!Spec => [](Login!LoginTrue /\ Login!VerifySlotsKept)
  BY LoginsAreTrue, ServiceAssumptions
<1>2. Limits!Spec => [](Limits!LockHolds)
  BY LoginLocksHold, ServiceAssumptions
<1>3. Console!Spec => [](Console!CodeOnce)
  BY Console!CodesWorkOnce, ServiceAssumptions
<1>4. /\ InPart("sasl") => Login!LoginTrue /\ Login!VerifySlotsKept
      /\ InPart("limits") => Limits!LockHolds
      /\ InPart("console") => Console!CodeOnce
      => LoginsTrue
  BY DEF LoginsTrue, InPart
<1>. QED
  BY <1>1, <1>2, <1>3, SaslPart, LimitsPart, ConsolePart, <1>4, PTL
     DEF Spec, Login!Spec, Limits!Spec, Console!Spec

\* No message disappears that nobody asked to remove: POP3 removes what the session
\* marked and nothing else, one session at a time (session.rs of pop3), and webmail keeps
\* a letter until it is asked to delete it (maildir_service.rs), for every value of the
\* constants.
THEOREM MailAlwaysKept == Spec => []MailKept
<1>1. Pop3!Spec => [](Pop3!RemovedOnlyIfMarked /\ Pop3!OneTransaction)
  BY Pop3RemovesMarked, ServiceAssumptions
<1>2. Browser!Spec => [](Browser!LettersKept)
  BY WebmailKeepsLetters, ServiceAssumptions
<1>3. /\ InPart("pop3") => Pop3!RemovedOnlyIfMarked /\ Pop3!OneTransaction
      /\ InPart("webmail") => Browser!LettersKept
      => MailKept
  BY DEF MailKept, InPart
<1>. QED
  BY <1>1, <1>2, Pop3Part, WebmailPart, <1>3, PTL
     DEF Spec, Pop3!Spec, Browser!Spec

\* An IMAP session works on the mailbox it says is selected and on a peer's only with the
\* rights the peer granted (imap/session.rs), for every value of the constants.
THEOREM AccessAlwaysTrue == Spec => []AccessTrue
<1>1. Imap!Spec => [](Imap!WorksWhereItSays /\ Imap!OutsidersKeptOut)
  BY SessionsKeepToTheirMail, ServiceAssumptions
<1>2. /\ InPart("imap") => Imap!WorksWhereItSays /\ Imap!OutsidersKeptOut
      => AccessTrue
  BY DEF AccessTrue, InPart
<1>. QED
  BY <1>1, ImapPart, <1>2, PTL
     DEF Spec, Imap!Spec

\* What the queue is told of a remote delivery is what the servers hold, and nothing
\* secret leaves in clear (remote.rs), for every value of the constants.
THEOREM DeliveryAlwaysTrue == Spec => []DeliveryTrue
<1>1. Remote!Spec => [](Remote!DeliveryTrue)
  BY DeliveryReportsTrue, ServiceAssumptions
<1>2. /\ InPart("delivery") => Remote!DeliveryTrue
      => DeliveryTrue
  BY DEF DeliveryTrue, InPart
<1>. QED
  BY <1>1, DeliveryPart, <1>2, PTL
     DEF Spec, Remote!Spec

\* What DMARC says of incoming mail follows a record that was published recently enough
\* (mailauth's cache), and outgoing mail is signed with a key that was in place (DKIM
\* signing and rotation), for every value of the constants.
THEOREM IdentityAlwaysTrue == Spec => []IdentityTrue
<1>1. Auth!Spec => [](Auth!DmarcHonoured /\ Auth!TextOfItsRecord)
  BY DmarcIsHonoured, ServiceAssumptions
<1>2. Dkim!Spec => [](Dkim!SignedWithCurrentKey /\ Dkim!RecordMatchesKey)
  BY SignedWithItsKey, ServiceAssumptions
<1>3. /\ InPart("auth") => Auth!DmarcHonoured /\ Auth!TextOfItsRecord
      /\ InPart("dkim") => Dkim!SignedWithCurrentKey /\ Dkim!RecordMatchesKey
      => IdentityTrue
  BY DEF IdentityTrue, InPart
<1>. QED
  BY <1>1, <1>2, AuthPart, DkimPart, <1>3, PTL
     DEF Spec, Auth!Spec, Dkim!Spec

\* The dialogue of lmtp.rs with the server's handlers implements the hand-off, step by step, while LMTP is
\* the part in play, and for every value of the constants.
THEOREM AlwaysHandsOff == Spec => HandsOff
<1>1. Init => (part = "lmtp" => Dialogue!Promise!Init)
  <2>1. Dialogue!Init => Dialogue!Promise!Init
    BY DEF Dialogue!Init, Dialogue!Promise!Init, Dialogue!Promise!Untold, Dialogue!StoredFor, Dialogue!Told
  <2>. QED
    BY <2>1, PartsBegin
<1>2. Dialogue!Spec => []LmtpInv
  BY InStepAlways, ServiceAssumptions
<1>3. [Next]_vars /\ (InPart("lmtp") => LmtpInv) /\ (InPart("lmtp") => LmtpInv)'
        => [part = "lmtp" => Dialogue!Promise!Next \/ UNCHANGED Dialogue!Promise!vars]_vars
  BY LmtpPart, StepImplements DEF InPart
<1>. QED
  BY <1>1, <1>2, <1>3, LmtpPart, PTL DEF Spec, Dialogue!Spec, HandsOff
=============================================================================
