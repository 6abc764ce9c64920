---------------------------- MODULE AdminConsole ----------------------------
(***************************************************************************)
(* The administrator's account: the console's login and sessions           *)
(* (crates/web: routes.rs, session.rs, lib.rs), the credentials file and   *)
(* its two-factor block (crates/core: config.rs, totp.rs).                 *)
(*                                                                         *)
(* A login reads the credentials once, checks the password in a blocking   *)
(* task and asks the privileged helper about the second factor; other      *)
(* requests run between those steps.  Every change of the credentials file *)
(* is one read-modify-write under its lock.  A code is the pair of a       *)
(* secret and a time step, which is what the HMAC tells apart.             *)
(***************************************************************************)
EXTENDS Integers, Sequences, FiniteSets, TLAPS, FiniteSetTheorems

CONSTANTS
    Clients,            \* browsers of the administrator
    AdminNames, AdminPasswords,
    MaxStep,            \* bound on the 30-second time steps
    StepsKept,          \* USED_STEPS_KEPT
    MaxSecrets,         \* bound on enrolments
    MaxCalls            \* bound on logins and requests

VARIABLES
    config,             \* the credentials file
    step,               \* the present time step
    login,              \* each client's login under way
    call,               \* each client's request under way
    open,               \* the user name of each client's session, or NoName
    spent,              \* the codes totp::verify has accepted, in order
    secrets, calls,
    old                 \* clients whose session was open when the credentials last changed

adminVars == <<config, step, login, call, open, spent, secrets, calls, old>>

NoName == "no name"
NoTotp == [state |-> "disabled", secret |-> 0, recovery |-> {}, used |-> {}]
Enrolled == [state |-> "enabled", secret |-> 1, recovery |-> {1}, used |-> {}]
Idle == [at |-> "idle"]
Steps == 0 .. MaxStep
\* What a user may type as a second factor: nothing, the code a secret shows at a
\* time step, or a secret's recovery code.
Codes == [is : {"none"}] \cup [is : {"totp"}, secret : 1 .. MaxSecrets, step : Steps]
            \cup [is : {"recovery"}, secret : 1 .. MaxSecrets]

AdminInit ==
    /\ config \in [name : {CHOOSE n \in AdminNames : TRUE}, password : {CHOOSE p \in AdminPasswords : TRUE},
                   totp : {NoTotp, Enrolled}]
    /\ step = 0
    /\ login = [c \in Clients |-> Idle] /\ call = [c \in Clients |-> Idle]
    /\ open = [c \in Clients |-> NoName]
    /\ spent = <<>> /\ secrets = config.totp.secret /\ calls = 0 /\ old = {}

-----------------------------------------------------------------------------
(* The two-factor block.                                                   *)

\* matching_step: the code's step is within one step of the present one.
MatchingStep(t, code) == /\ code.is = "totp" /\ code.secret = t.secret
                         /\ code.step \in (step - 1) .. (step + 1)

\* A ledger that remembers only the step used last.
LastStepOnly(t, code) == {code.step}

\* block_with_step_used: the ledger keeps its newest entries.
Newest(S, n) == {s \in S : Cardinality({x \in S : x > s}) < n}
UsedSteps(t, code) == Newest(t.used \cup {code.step}, StepsKept)

\* consume_totp_step and consume_recovery: each under the file's lock.
AcceptsTotp(t, code) == t.state = "enabled" /\ MatchingStep(t, code) /\ code.step \notin t.used
AcceptsRecovery(t, code) == t.state = "enabled" /\ code.is = "recovery" /\ code.secret \in t.recovery
Accepts(t, code) == AcceptsTotp(t, code) \/ AcceptsRecovery(t, code)

Consumed(t, code) ==
    IF code.is = "totp" THEN [t EXCEPT !.used = UsedSteps(t, code)]
    ELSE [t EXCEPT !.recovery = @ \ {code.secret}]

\* totp::verify.
Verify(code) ==
    IF Accepts(config.totp, code)
    THEN config' = [config EXCEPT !.totp = Consumed(@, code)] /\ spent' = Append(spent, code)
    ELSE UNCHANGED <<config, spent>>

-----------------------------------------------------------------------------
(* Login.                                                                  *)

\* The limiter has let the attempt through; the credentials are read.
LoginRead(c, n, p, code) ==
    /\ login[c] = Idle /\ calls < MaxCalls
    /\ login' = [login EXCEPT ![c] = [at |-> "password", name |-> n, password |-> p, code |-> code, seen |-> config]]
    /\ calls' = calls + 1
    /\ UNCHANGED <<config, step, call, open, spent, secrets, old>>

LoginPassword(c) ==
    /\ login[c].at = "password"
    /\ LET l == login[c]
           known == l.name = l.seen.name /\ l.password = l.seen.password
           next == IF ~known THEN Idle
                   ELSE IF l.seen.totp.state # "enabled" THEN [l EXCEPT !.at = "admit"]
                   ELSE IF l.code.is = "none" THEN Idle
                   ELSE [l EXCEPT !.at = "second"]
       IN login' = [login EXCEPT ![c] = next]
    /\ UNCHANGED <<config, step, call, open, spent, secrets, calls, old>>

\* admin.totp.verify; the helper may also be unavailable.
LoginSecond(c) ==
    /\ login[c].at = "second"
    /\ \/ /\ Verify(login[c].code)
          /\ login' = [login EXCEPT ![c] = IF Accepts(config.totp, login[c].code) THEN [@ EXCEPT !.at = "admit"] ELSE Idle]
       \/ login' = [login EXCEPT ![c] = Idle] /\ UNCHANGED <<config, spent>>
    /\ UNCHANGED <<step, call, open, secrets, calls, old>>

\* create_session.
LoginAdmit(c) ==
    /\ login[c].at = "admit"
    /\ open' = [open EXCEPT ![c] = login[c].name]
    /\ login' = [login EXCEPT ![c] = Idle]
    /\ old' = old \ {c}
    /\ UNCHANGED <<config, step, call, spent, secrets, calls>>

-----------------------------------------------------------------------------
(* Requests of a session: require_auth, the action in the helper, and what *)
(* the console does when it has succeeded.                                 *)

Ask(c, request) ==
    /\ open[c] # NoName /\ call[c] = Idle /\ calls < MaxCalls
    /\ call' = [call EXCEPT ![c] = request]
    /\ calls' = calls + 1
    /\ UNCHANGED <<config, step, login, open, spent, secrets, old>>

AskAdminSet(c, n, p) == Ask(c, [at |-> "admin.set", name |-> n, password |-> p])
AskBegin(c) == Ask(c, [at |-> "totp.begin"])
AskEnable(c, code) == Ask(c, [at |-> "totp.enable", code |-> code])
AskDisable(c, code) == Ask(c, [at |-> "totp.disable", code |-> code])

Done(c) == call' = [call EXCEPT ![c] = [at |-> "finalize"]]
Refused(c) == call' = [call EXCEPT ![c] = Idle]

\* The sessions the change is to end.
Changed == old' = {d \in Clients : open[d] # NoName}

\* admin_set: an empty password keeps the present one; the two-factor block stays.
AdminSet(c) ==
    /\ call[c].at = "admin.set"
    /\ config' = [config EXCEPT !.name = call[c].name,
                                !.password = IF call[c].password = "" THEN @ ELSE call[c].password]
    /\ Changed /\ Done(c)
    /\ UNCHANGED <<step, login, open, spent, secrets, calls>>

PendingOf(secret) == [state |-> "pending", secret |-> secret, recovery |-> {}, used |-> {}]

\* begin replaces a pending enrolment and refuses an enabled one.
TotpBegin(c) ==
    /\ call[c].at = "totp.begin" /\ Refused(c)
    /\ IF config.totp.state = "enabled" \/ secrets = MaxSecrets
       THEN UNCHANGED <<config, secrets>>
       ELSE /\ secrets' = secrets + 1
            /\ config' = [config EXCEPT !.totp = PendingOf(secrets + 1)]
    /\ UNCHANGED <<step, login, open, spent, calls, old>>

TotpEnable(c) ==
    /\ call[c].at = "totp.enable"
    /\ IF config.totp.state = "pending" /\ MatchingStep(config.totp, call[c].code)
       THEN /\ config' = [config EXCEPT !.totp.state = "enabled", !.totp.recovery = {config.totp.secret}]
            /\ Changed /\ Done(c)
       ELSE Refused(c) /\ UNCHANGED <<config, old>>
    /\ UNCHANGED <<step, login, open, spent, secrets, calls>>

\* disable asks for a code when the block is enabled, and drops it in a second step.
TotpDisable(c) ==
    /\ call[c].at = "totp.disable"
    /\ IF config.totp.state = "enabled"
       THEN /\ Verify(call[c].code)
            /\ IF Accepts(config.totp, call[c].code)
               THEN call' = [call EXCEPT ![c] = [at |-> "drop"]] ELSE Refused(c)
       ELSE call' = [call EXCEPT ![c] = [at |-> "drop"]] /\ UNCHANGED <<config, spent>>
    /\ UNCHANGED <<step, login, open, secrets, calls, old>>

TotpDrop(c) ==
    /\ call[c].at = "drop"
    /\ config' = [config EXCEPT !.totp = NoTotp]
    /\ Changed /\ Done(c)
    /\ UNCHANGED <<step, login, open, spent, secrets, calls>>

\* The call timed out: what the helper did stands, and no session is revoked.
TimesOut(c) ==
    /\ call[c].at = "finalize"
    /\ Refused(c) /\ old' = {}
    /\ UNCHANGED <<config, step, login, open, spent, secrets, calls>>

\* finalize_successful_action: revoke_user of the name the file holds now.
Revoked(n) == {d \in Clients : open[d] = n}

Finalize(c) ==
    /\ call[c].at = "finalize"
    /\ open' = [d \in Clients |-> IF d \in Revoked(config.name) THEN NoName ELSE open[d]]
    /\ call' = [call EXCEPT ![c] = [at |-> "told"]]
    /\ UNCHANGED <<config, step, login, spent, secrets, calls, old>>

Told(c) == call[c].at = "told" /\ Refused(c)
           /\ UNCHANGED <<config, step, login, open, spent, secrets, calls, old>>

\* Logout, revoke_session, expiry and eviction; and revoke_other_sessions.
Logout(c) ==
    /\ open[c] # NoName /\ call[c] = Idle
    /\ open' = [open EXCEPT ![c] = NoName]
    /\ UNCHANGED <<config, step, login, call, spent, secrets, calls, old>>

RevokeOthers(c) ==
    /\ open[c] # NoName /\ call[c] = Idle
    /\ open' = [d \in Clients |-> IF d = c THEN open[d] ELSE NoName]
    /\ UNCHANGED <<config, step, login, call, spent, secrets, calls, old>>

Tick == step < MaxStep /\ step' = step + 1
        /\ UNCHANGED <<config, login, call, open, spent, secrets, calls, old>>

ClientStep(c) ==
    \/ \E n \in AdminNames, p \in AdminPasswords, code \in Codes : LoginRead(c, n, p, code)
    \/ LoginPassword(c) \/ LoginSecond(c) \/ LoginAdmit(c)
    \/ \E n \in AdminNames, p \in AdminPasswords \cup {""} : AskAdminSet(c, n, p)
    \/ AskBegin(c) \/ (\E code \in Codes : AskEnable(c, code) \/ AskDisable(c, code))
    \/ AdminSet(c) \/ TotpBegin(c) \/ TotpEnable(c) \/ TotpDisable(c) \/ TotpDrop(c)
    \/ TimesOut(c) \/ Finalize(c) \/ Told(c) \/ Logout(c) \/ RevokeOthers(c)

AdminNext == Tick \/ (\E c \in Clients : ClientStep(c))

Spec == AdminInit /\ [][AdminNext]_adminVars

-----------------------------------------------------------------------------
\* A dynamic code, and a recovery code, lets one request through and no other,
\* however the requests that carry it interleave and whenever they come: the used
\* step is looked up and recorded under the lock, and the bounded ledger forgets
\* only steps the window has left behind.
CodeOnce == \A i, j \in DOMAIN spent : spent[i] = spent[j] => i = j

\* README.md:292: when a change of the administrator's password or second factor
\* is answered, no session opened before it is left.
ChangeEndsSessions ==
    (\E c \in Clients : call[c].at = "told") => \A d \in old : open[d] = NoName

-----------------------------------------------------------------------------
(* The proof of CodeOnce, for any browsers, names, passwords, time steps   *)
(* and enrolments.                                                         *)

\* The ledger must hold at least as many steps as matching_step accepts at one
\* moment; USED_STEPS_KEPT is 8.
ConsoleConstants ==
    /\ AdminNames # {} /\ AdminPasswords # {}
    /\ MaxStep \in Nat /\ MaxSecrets \in Nat
    /\ StepsKept \in Nat /\ StepsKept >= 3

TotpBlocks == [state : {"disabled", "pending", "enabled"}, secret : Nat, recovery : SUBSET Nat, used : SUBSET Int]
Configs == [name : AdminNames, password : AdminPasswords \cup {""}, totp : TotpBlocks]
LoginStates == {Idle} \cup [at : {"password", "second", "admit"}, name : AdminNames, password : AdminPasswords,
                            code : Codes, seen : Configs]
Calls == [at : {"idle", "totp.begin", "drop", "finalize", "told"}]
            \cup [at : {"admin.set"}, name : AdminNames, password : AdminPasswords \cup {""}]
            \cup [at : {"totp.enable", "totp.disable"}, code : Codes]

ConsoleType ==
    /\ config \in Configs /\ step \in Nat /\ secrets \in Nat
    /\ login \in [Clients -> LoginStates] /\ call \in [Clients -> Calls]
    /\ spent \in Seq(Codes)

\* The block is of the latest enrolment or an empty one, and its ledger holds no
\* step beyond the window.
BlockOf(t, now, n) ==
    /\ t.secret <= n
    /\ t.recovery \subseteq {t.secret}
    /\ \A s \in t.used : s <= now + 1

\* A code that was accepted can not be accepted again: its secret is gone for
\* good, or the enabled block remembers it, or the window has left it behind.
Blocked(code, t, now, n) ==
    /\ code.is \in {"totp", "recovery"}
    /\ code.secret >= 1 /\ code.secret <= n
    /\ code.secret = t.secret =>
          /\ t.state = "enabled"
          /\ code.is = "recovery" => code.secret \notin t.recovery
          /\ code.is = "totp" => code.step \in t.used \/ code.step < now - 1

ConsoleInv ==
    /\ ConsoleType
    /\ BlockOf(config.totp, step, secrets)
    /\ \A i \in DOMAIN spent : Blocked(spent[i], config.totp, step, secrets)
    /\ CodeOnce

\* The ledger forgets only steps that are three below the newest it may hold.
LEMMA ForgetsOnlyOld ==
  ASSUME NEW S \in SUBSET Int, NEW k \in Int, \A x \in S : x <= k,
         NEW s \in S, NEW n \in Nat, n >= 3, s \notin Newest(S, n)
  PROVE  s < k - 2
<1> DEFINE T == {x \in S : x > s}
<1>1. T \in SUBSET ((s + 1) .. k)
  <2> SUFFICES ASSUME NEW x \in T PROVE x \in (s + 1) .. k
    OBVIOUS
  <2>1. x \in Int /\ x > s /\ x <= k /\ s \in Int
    OBVIOUS
  <2>. QED
    BY <2>1
<1>2. IsFiniteSet((s + 1) .. k) /\ Cardinality((s + 1) .. k) = IF s + 1 > k THEN 0 ELSE k - (s + 1) + 1
  BY FS_Interval
<1>3. IsFiniteSet(T) /\ Cardinality(T) <= Cardinality((s + 1) .. k)
  BY <1>1, <1>2, FS_Subset
<1>4. Cardinality(T) \in Nat
  BY <1>3, FS_CardinalityType
<1>5. ~(Cardinality(T) < n)
  BY DEF Newest
<1> HIDE DEF T
<1>. QED
  BY <1>2, <1>3, <1>4, <1>5

LEMMA CodeShapes ==
  ASSUME ConsoleConstants, NEW code \in Codes
  PROVE  /\ code.is \in {"none", "totp", "recovery"}
         /\ code.is = "totp" => code.secret \in Nat /\ code.secret >= 1 /\ code.step \in Int
         /\ code.is = "recovery" => code.secret \in Nat /\ code.secret >= 1
  BY DEF Codes, Steps, ConsoleConstants

\* totp::verify accepts no code it has accepted before, and remembers this one.
LEMMA VerifyBlocks ==
  ASSUME ConsoleConstants, ConsoleInv, NEW code \in Codes, Verify(code), UNCHANGED <<step, secrets>>
  PROVE  /\ config' \in Configs /\ spent' \in Seq(Codes)
         /\ BlockOf(config.totp, step, secrets)'
         /\ \A i \in DOMAIN spent' : Blocked(spent'[i], config'.totp, step, secrets)
         /\ CodeOnce'
<1> DEFINE t == config.totp
<1> USE DEF ConsoleInv, ConsoleType
<1>1. CASE ~Accepts(t, code)
  BY <1>1 DEF Verify, CodeOnce, BlockOf
<1>2. CASE Accepts(t, code)
  <2>1. config' = [config EXCEPT !.totp = Consumed(t, code)] /\ spent' = Append(spent, code)
    BY <1>2 DEF Verify
  <2>2. t \in TotpBlocks /\ step \in Int
    <3>1. config \in Configs /\ step \in Nat
      OBVIOUS
    <3>2. config.totp \in TotpBlocks
      BY ONLY <3>1 DEF Configs
    <3>. QED
      BY <3>1, <3>2
  <2>3. code.is \in {"totp", "recovery"} /\ t.state = "enabled" /\ code.secret = t.secret
        /\ code.secret \in Nat /\ code.secret >= 1 /\ code.secret <= secrets
    BY <1>2, CodeShapes DEF Accepts, AcceptsTotp, AcceptsRecovery, MatchingStep, BlockOf
  <2>4. /\ Consumed(t, code) \in TotpBlocks
        /\ Consumed(t, code).state = t.state /\ Consumed(t, code).secret = t.secret
        /\ Consumed(t, code).recovery \subseteq t.recovery
        /\ code.is = "recovery" => code.secret \notin Consumed(t, code).recovery /\ Consumed(t, code).used = t.used
        /\ code.is = "totp" => Consumed(t, code).used = UsedSteps(t, code)
    <3>1. CASE code.is = "totp"
      <4>1. UsedSteps(t, code) \in SUBSET Int
        BY <2>2, <3>1, CodeShapes DEF UsedSteps, Newest, TotpBlocks
      <4>. QED
        BY <2>2, <3>1, <4>1 DEF Consumed, TotpBlocks
    <3>2. CASE code.is = "recovery"
      BY <2>2, <3>2 DEF Consumed, TotpBlocks
    <3>. QED
      BY <2>3, <3>1, <3>2
  <2>5. \A s \in t.used \cup {code.step} : code.is = "totp" => s \in Int /\ s <= step + 1
    BY <1>2, <2>2, CodeShapes DEF Accepts, AcceptsTotp, AcceptsRecovery, MatchingStep, BlockOf, TotpBlocks
  <2>6. \A s \in Consumed(t, code).used : s <= step + 1
    <3>1. CASE code.is = "totp"
      BY <2>4, <2>5, <3>1 DEF UsedSteps, Newest
    <3>2. CASE code.is = "recovery"
      BY <2>4, <3>2 DEF BlockOf
    <3>. QED
      BY <2>3, <3>1, <3>2
  <2>7. \A s \in t.used \cup {code.step} :
           code.is = "totp" => s \in Consumed(t, code).used \/ s < step - 1
    <3> SUFFICES ASSUME NEW s \in t.used \cup {code.step}, code.is = "totp", s \notin Consumed(t, code).used
                 PROVE  s < step - 1
      OBVIOUS
    <3>1. t.used \cup {code.step} \in SUBSET Int /\ \A x \in t.used \cup {code.step} : x <= step + 1
      BY <2>5
    <3>2. s \notin Newest(t.used \cup {code.step}, StepsKept)
      BY <2>4 DEF UsedSteps
    <3>3. step + 1 \in Int /\ StepsKept \in Nat /\ StepsKept >= 3
      BY <2>2 DEF ConsoleConstants
    <3>4. s < (step + 1) - 2
      BY ONLY <3>1, <3>2, <3>3, ForgetsOnlyOld, s \in t.used \cup {code.step}
    <3>. QED
      BY <2>2, <2>5, <3>4
  <2>8. config' \in Configs /\ config'.totp = Consumed(t, code)
    BY <2>1, <2>4 DEF Configs
  <2>9. \A i \in DOMAIN spent : spent[i] # code
    BY <1>2, <2>2, <2>3 DEF Blocked, Accepts, AcceptsTotp, AcceptsRecovery, MatchingStep
  <2>10. /\ spent' \in Seq(Codes) /\ DOMAIN spent' = 1 .. (Len(spent) + 1) /\ DOMAIN spent = 1 .. Len(spent)
         /\ Len(spent) \in Nat /\ spent'[Len(spent) + 1] = code
         /\ \A i \in DOMAIN spent : spent'[i] = spent[i]
    BY <2>1
  <2>11. Blocked(code, Consumed(t, code), step, secrets)
    BY <2>3, <2>4, <2>7 DEF Blocked
  <2>12. ASSUME NEW i \in DOMAIN spent PROVE Blocked(spent[i], Consumed(t, code), step, secrets)
    <3>1. Blocked(spent[i], t, step, secrets)
      OBVIOUS
    <3>2. code.is = "recovery" => Consumed(t, code).used = t.used
      BY <2>4
    <3>. QED
      BY <2>3, <2>4, <2>7, <3>1, <3>2 DEF Blocked
  <2>13. \A i \in DOMAIN spent' : Blocked(spent'[i], config'.totp, step, secrets)
    BY <2>8, <2>10, <2>11, <2>12
  <2>14. CodeOnce'
    BY <2>9, <2>10 DEF CodeOnce
  <2>15. BlockOf(config.totp, step, secrets)'
    BY <2>4, <2>6, <2>8 DEF BlockOf
  <2>. QED
    BY <2>8, <2>10, <2>13, <2>14, <2>15
<1>. QED
  BY <1>1, <1>2

\* What no step but a verification touches is kept.
LEMMA BlockedKept ==
  ASSUME ConsoleInv, UNCHANGED <<config, step, secrets, spent>>
  PROVE  /\ config' \in Configs /\ step' \in Nat /\ secrets' \in Nat /\ spent' \in Seq(Codes)
         /\ BlockOf(config.totp, step, secrets)'
         /\ \A i \in DOMAIN spent' : Blocked(spent'[i], config'.totp, step', secrets')
         /\ CodeOnce'
  BY DEF ConsoleInv, ConsoleType, CodeOnce

LEMMA TypesKept ==
  ASSUME ConsoleConstants, ConsoleInv, NEW c \in Clients, ClientStep(c)
  PROVE  login' \in [Clients -> LoginStates] /\ call' \in [Clients -> Calls]
<1> USE DEF ConsoleInv, ConsoleType
<1>0. Idle \in LoginStates /\ Idle \in Calls
  BY DEF Idle, LoginStates, Calls
<1>00. \A x \in {"totp.begin", "drop", "finalize", "told"} : [at |-> x] \in Calls
  BY DEF Calls
<1>1. CASE \E n \in AdminNames, p \in AdminPasswords, code \in Codes : LoginRead(c, n, p, code)
  BY <1>1 DEF LoginRead, LoginStates
<1>2. CASE LoginPassword(c)
  <2>1. login[c] # Idle
    BY <1>2 DEF LoginPassword, Idle
  <2>2. \A x \in {"admit", "second"} : [login[c] EXCEPT !.at = x] \in LoginStates
    BY <2>1 DEF LoginStates
  <2>. QED
    BY <1>0, <1>2, <2>2 DEF LoginPassword
<1>3. CASE LoginSecond(c)
  <2>1. login[c] # Idle
    BY <1>3 DEF LoginSecond, Idle
  <2>2. [login[c] EXCEPT !.at = "admit"] \in LoginStates
    BY <2>1 DEF LoginStates
  <2>. QED
    BY <1>0, <1>3, <2>2 DEF LoginSecond
<1>4. CASE LoginAdmit(c)
  BY <1>0, <1>4 DEF LoginAdmit
<1>5. CASE \E n \in AdminNames, p \in AdminPasswords \cup {""} : AskAdminSet(c, n, p)
  <2>1. \A n \in AdminNames, p \in AdminPasswords \cup {""} :
           [at |-> "admin.set", name |-> n, password |-> p] \in Calls
    BY DEF Calls
  <2>. QED
    BY <1>5, <2>1 DEF AskAdminSet, Ask
<1>6. CASE AskBegin(c) \/ \E code \in Codes : AskEnable(c, code) \/ AskDisable(c, code)
  <2>1. \A x \in {"totp.enable", "totp.disable"}, code \in Codes : [at |-> x, code |-> code] \in Calls
    BY DEF Calls
  <2>. QED
    BY <1>00, <1>6, <2>1 DEF AskBegin, AskEnable, AskDisable, Ask
<1>7. CASE AdminSet(c) \/ TotpBegin(c) \/ TotpDrop(c) \/ TimesOut(c) \/ Finalize(c) \/ Told(c)
  BY <1>0, <1>00, <1>7 DEF AdminSet, TotpBegin, TotpDrop, TimesOut, Finalize, Told, Done, Refused
<1>8. CASE TotpEnable(c) \/ TotpDisable(c)
  BY <1>0, <1>00, <1>8 DEF TotpEnable, TotpDisable, Done, Refused
<1>9. CASE Logout(c) \/ RevokeOthers(c)
  BY <1>9 DEF Logout, RevokeOthers
<1>. QED
  BY <1>1, <1>2, <1>3, <1>4, <1>5, <1>6, <1>7, <1>8, <1>9 DEF ClientStep

LEMMA CodesKept ==
  ASSUME ConsoleConstants, ConsoleInv, NEW c \in Clients, ClientStep(c)
  PROVE  /\ config' \in Configs /\ step' \in Nat /\ secrets' \in Nat /\ spent' \in Seq(Codes)
         /\ BlockOf(config.totp, step, secrets)'
         /\ \A i \in DOMAIN spent' : Blocked(spent'[i], config'.totp, step', secrets')
         /\ CodeOnce'
<1>0. config \in Configs /\ step \in Nat /\ secrets \in Nat /\ spent \in Seq(Codes)
      /\ login[c] \in LoginStates /\ call[c] \in Calls
  BY DEF ConsoleInv, ConsoleType
<1>00. config.totp \in TotpBlocks
  BY <1>0 DEF Configs
<1>1. CASE UNCHANGED <<config, step, secrets, spent>>
  BY <1>1, BlockedKept
<1>2. CASE LoginSecond(c)
  <2>1. login[c].code \in Codes
    BY <1>0, <1>2 DEF LoginSecond, LoginStates, Idle
  <2>2. UNCHANGED <<step, secrets>> /\ (Verify(login[c].code) \/ UNCHANGED <<config, spent>>)
    BY <1>2 DEF LoginSecond
  <2>. QED
    BY <1>0, <1>1, <2>1, <2>2, VerifyBlocks
<1>3. CASE TotpDisable(c)
  <2>1. call[c].code \in Codes
    BY <1>0, <1>3 DEF TotpDisable, Calls
  <2>2. UNCHANGED <<step, secrets>> /\ (Verify(call[c].code) \/ UNCHANGED <<config, spent>>)
    BY <1>3 DEF TotpDisable
  <2>. QED
    BY <1>0, <1>1, <2>1, <2>2, VerifyBlocks
<1>4. CASE AdminSet(c)
  <2>1. call[c].name \in AdminNames /\ call[c].password \in AdminPasswords \cup {""}
    BY <1>0, <1>4 DEF AdminSet, Calls
  <2>2. config' \in Configs /\ config'.totp = config.totp
    BY <1>0, <1>4, <2>1 DEF AdminSet, Configs
  <2>3. UNCHANGED <<step, secrets, spent>>
    BY <1>4 DEF AdminSet
  <2>. QED
    BY <1>0, <2>2, <2>3 DEF ConsoleInv, BlockOf, CodeOnce
<1>5. CASE TotpBegin(c)
  <2>1. CASE UNCHANGED <<config, secrets>>
    BY <1>1, <1>5, <2>1 DEF TotpBegin
  <2>2. CASE ~UNCHANGED <<config, secrets>>
    <3>1. /\ secrets' = secrets + 1 /\ UNCHANGED <<step, spent>>
          /\ config' = [config EXCEPT !.totp = PendingOf(secrets + 1)]
      BY <1>5, <2>2 DEF TotpBegin
    <3>2. /\ PendingOf(secrets + 1) \in TotpBlocks /\ PendingOf(secrets + 1).secret = secrets + 1
          /\ PendingOf(secrets + 1).recovery = {} /\ PendingOf(secrets + 1).used = {}
      BY <1>0 DEF PendingOf, TotpBlocks
    <3>3. config' \in Configs /\ config'.totp = PendingOf(secrets + 1)
      BY <1>0, <3>1, <3>2 DEF Configs
    <3>4. BlockOf(config.totp, step, secrets)'
      BY <1>0, <3>1, <3>2, <3>3 DEF BlockOf
    <3>5. ASSUME NEW i \in DOMAIN spent' PROVE Blocked(spent'[i], config'.totp, step', secrets')
      <4>1. Blocked(spent[i], config.totp, step, secrets) /\ spent[i] \in Codes /\ spent'[i] = spent[i]
        BY <1>0, <3>1 DEF ConsoleInv
      <4>2. spent[i].secret \in Nat
        BY <4>1, CodeShapes DEF Blocked
      <4>. QED
        BY <1>0, <3>1, <3>2, <3>3, <4>1, <4>2 DEF Blocked
    <3>. QED
      BY <1>0, <3>1, <3>3, <3>4, <3>5 DEF ConsoleInv, CodeOnce
  <2>. QED
    BY <2>1, <2>2
<1>6. CASE TotpEnable(c)
  <2>1. CASE UNCHANGED config
    BY <1>1, <1>6, <2>1 DEF TotpEnable
  <2>2. CASE ~UNCHANGED config
    <3>1. /\ config.totp.state = "pending" /\ UNCHANGED <<step, secrets, spent>>
          /\ config' = [config EXCEPT !.totp.state = "enabled", !.totp.recovery = {config.totp.secret}]
      BY <1>6, <2>2 DEF TotpEnable
    <3>2. config' \in Configs
          /\ config'.totp = [config.totp EXCEPT !.state = "enabled", !.recovery = {config.totp.secret}]
      BY <1>0, <1>00, <3>1 DEF Configs, TotpBlocks
    <3>3. BlockOf(config.totp, step, secrets)'
      <4>1. config'.totp.secret = config.totp.secret /\ config'.totp.used = config.totp.used
            /\ config'.totp.recovery = {config.totp.secret}
        BY <1>00, <3>2 DEF TotpBlocks
      <4>. QED
        BY <3>1, <4>1 DEF ConsoleInv, BlockOf
    <3>4. ASSUME NEW i \in DOMAIN spent' PROVE Blocked(spent'[i], config'.totp, step', secrets')
      <4>1. Blocked(spent[i], config.totp, step, secrets) /\ spent'[i] = spent[i]
        BY <3>1 DEF ConsoleInv
      <4>. QED
        BY <1>00, <3>1, <3>2, <4>1 DEF Blocked, TotpBlocks
    <3>. QED
      BY <1>0, <3>1, <3>2, <3>3, <3>4 DEF ConsoleInv, CodeOnce
  <2>. QED
    BY <2>1, <2>2
<1>7. CASE TotpDrop(c)
  <2>1. config' = [config EXCEPT !.totp = NoTotp] /\ UNCHANGED <<step, secrets, spent>>
    BY <1>7 DEF TotpDrop
  <2>2. config' \in Configs /\ config'.totp = NoTotp
    BY <1>0, <2>1 DEF Configs, TotpBlocks, NoTotp
  <2>3. BlockOf(config.totp, step, secrets)'
    BY <1>0, <2>1, <2>2 DEF BlockOf, NoTotp
  <2>4. ASSUME NEW i \in DOMAIN spent' PROVE Blocked(spent'[i], config'.totp, step', secrets')
    <3>1. Blocked(spent[i], config.totp, step, secrets) /\ spent'[i] = spent[i]
      BY <2>1 DEF ConsoleInv
    <3>. QED
      BY <2>1, <2>2, <3>1 DEF Blocked, NoTotp
  <2>. QED
    BY <1>0, <2>1, <2>2, <2>3, <2>4 DEF ConsoleInv, CodeOnce
<1>8. \/ UNCHANGED <<config, step, secrets, spent>>
      \/ LoginSecond(c) \/ TotpDisable(c) \/ AdminSet(c) \/ TotpBegin(c) \/ TotpEnable(c) \/ TotpDrop(c)
  <2>1. CASE \E n \in AdminNames, p \in AdminPasswords, code \in Codes : LoginRead(c, n, p, code)
    BY <2>1 DEF LoginRead
  <2>2. CASE \E n \in AdminNames, p \in AdminPasswords \cup {""} : AskAdminSet(c, n, p)
    BY <2>2 DEF AskAdminSet, Ask
  <2>3. CASE AskBegin(c) \/ \E code \in Codes : AskEnable(c, code) \/ AskDisable(c, code)
    BY <2>3 DEF AskBegin, AskEnable, AskDisable, Ask
  <2>4. CASE LoginPassword(c) \/ LoginAdmit(c)
    BY <2>4 DEF LoginPassword, LoginAdmit
  <2>5. CASE TimesOut(c) \/ Finalize(c) \/ Told(c) \/ Logout(c) \/ RevokeOthers(c)
    BY <2>5 DEF TimesOut, Finalize, Told, Logout, RevokeOthers
  <2>. QED
    BY <2>1, <2>2, <2>3, <2>4, <2>5 DEF ClientStep
<1>. QED
  BY <1>1, <1>2, <1>3, <1>4, <1>5, <1>6, <1>7, <1>8

\* However the requests that carry a code interleave and however long ago it was
\* used, totp::verify accepts it once, as long as the ledger holds three steps
\* and the clock does not go back: a step the bounded ledger has forgotten is
\* outside matching_step's window for ever.
THEOREM CodesWorkOnce == ConsoleConstants => (Spec => []CodeOnce)
<1> SUFFICES ASSUME ConsoleConstants PROVE Spec => []CodeOnce
  OBVIOUS
<1>1. AdminInit => ConsoleInv
  <2> SUFFICES ASSUME AdminInit PROVE ConsoleInv
    OBVIOUS
  <2>1. config \in Configs /\ config.totp \in {NoTotp, Enrolled}
    <3>1. (CHOOSE n \in AdminNames : TRUE) \in AdminNames /\ (CHOOSE p \in AdminPasswords : TRUE) \in AdminPasswords
      BY DEF ConsoleConstants
    <3>2. NoTotp \in TotpBlocks /\ Enrolled \in TotpBlocks
      BY DEF NoTotp, Enrolled, TotpBlocks
    <3>. QED
      BY <3>1, <3>2 DEF AdminInit, Configs
  <2>2. login \in [Clients -> LoginStates] /\ call \in [Clients -> Calls]
    BY DEF AdminInit, LoginStates, Calls, Idle
  <2>3. step = 0 /\ spent = <<>> /\ secrets = config.totp.secret
    BY DEF AdminInit
  <2>4. secrets \in Nat /\ BlockOf(config.totp, step, secrets)
    BY <2>1, <2>3 DEF BlockOf, NoTotp, Enrolled
  <2>. QED
    BY <2>1, <2>2, <2>3, <2>4 DEF ConsoleInv, ConsoleType, CodeOnce
<1>2. ConsoleInv /\ [AdminNext]_adminVars => ConsoleInv'
  <2> SUFFICES ASSUME ConsoleInv, [AdminNext]_adminVars PROVE ConsoleInv'
    OBVIOUS
  <2>1. CASE UNCHANGED adminVars
    BY <2>1, BlockedKept DEF adminVars, ConsoleInv, ConsoleType
  <2>2. CASE Tick
    <3>1. step' = step + 1 /\ UNCHANGED <<config, login, call, spent, secrets>> /\ step \in Nat
      BY <2>2 DEF Tick, ConsoleInv, ConsoleType
    <3>2. config.totp \in TotpBlocks
      BY DEF ConsoleInv, ConsoleType, Configs
    <3>3. BlockOf(config.totp, step, secrets)'
      BY <3>1, <3>2 DEF ConsoleInv, BlockOf, TotpBlocks
    <3>4. ASSUME NEW i \in DOMAIN spent' PROVE Blocked(spent'[i], config'.totp, step', secrets')
      <4>1. Blocked(spent[i], config.totp, step, secrets) /\ spent'[i] = spent[i] /\ spent[i] \in Codes
        BY <3>1 DEF ConsoleInv, ConsoleType
      <4>2. spent[i].is = "totp" => spent[i].step \in Int
        BY <4>1, CodeShapes
      <4>. QED
        BY <3>1, <4>1, <4>2 DEF Blocked
    <3>. QED
      BY <3>1, <3>3, <3>4 DEF ConsoleInv, ConsoleType, CodeOnce
  <2>3. ASSUME NEW c \in Clients, ClientStep(c) PROVE ConsoleInv'
    BY <2>3, TypesKept, CodesKept DEF ConsoleInv, ConsoleType
  <2>. QED
    BY <2>1, <2>2, <2>3 DEF AdminNext
<1>3. ConsoleInv => CodeOnce
  BY DEF ConsoleInv
<1>. QED
  BY <1>1, <1>2, <1>3, PTL DEF Spec
=============================================================================
