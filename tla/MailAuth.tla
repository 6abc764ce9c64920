------------------------------ MODULE MailAuth ------------------------------
(***************************************************************************)
(* How inbound mail is authenticated before it is queued: the sink of the  *)
(* SMTP server (crates/smtpd/src/sink.rs) counts the message's hops, asks  *)
(* for SPF, DKIM and DMARC (crates/auth), refuses what fails a "reject"    *)
(* policy and queues the rest with an Authentication-Results header.  The  *)
(* three checks of several connections share one cache of DNS answers,     *)
(* whose entries expire and are thrown out when it is full; the owners of  *)
(* the domains change their records meanwhile.  The verification itself is *)
(* the mail-auth library's and is modelled by what the code asks of it.    *)
(***************************************************************************)
EXTENDS Integers, Sequences, FiniteSets

CONSTANTS
    Sinks,        \* the connections that hand over a message at the same time
    MaxEntries,   \* cache::MAX_ENTRIES
    MaxTtl,       \* cache::MAX_TTL
    Ttls,         \* the times to live DNS answers carry
    MaxClock,     \* bound on the time
    MaxChanges,   \* bound on the changes domain owners make
    MaxPins       \* bound on the records injected into the cache

VARIABLES
    dns,       \* dns[n]: what the owner of n publishes now
    published, \* published[n][t]: everything n held during time t
    now,
    entries,   \* TxtCache.entries: name -> [rec, until]; until = Never for an injected one
    raw,       \* TxtCache.dmarc_raw: name -> the text of an injected DMARC record
    task,      \* task[s]: the message connection s is handing over
    pins       \* the records injected so far

authVars == <<dns, published, now, entries, raw, task, pins>>

Never == MaxClock + MaxTtl + 1
Absent == [kind |-> "absent"]

Policy(p, pct) == [kind |-> "dmarc", p |-> p, pct |-> pct]
(* The library keeps no pct of a record it parses. *)
Parsed(rec) == IF rec.kind = "dmarc" THEN [rec EXCEPT !.pct = 100] ELSE rec

Names == {"spf.x", "key.x", "dmarc.x", "dmarc.a.x"}
Records(n) == CASE n = "spf.x" -> {[kind |-> "spf"], Absent}
                [] n = "key.x" -> {[kind |-> "key"], Absent}
                [] n = "dmarc.a.x" -> {Policy("none", 100), Absent}
                [] OTHER -> {Policy("reject", 100), Policy("reject", 0), Policy("none", 100), Absent}

(* The From domains, the envelope's domain, whether the peer's address is  *)
(* one of x's, the domain of a signature that verifies, the hops, the      *)
(* encoding and the port.                                                  *)
Message(from, sender, ip, sig, hops, utf8, submission) ==
    [from |-> from, sender |-> sender, ip |-> ip, sig |-> sig, hops |-> hops, utf8 |-> utf8, submission |-> submission]
Messages ==
    {Message(f, "x", i, d, "few", TRUE, FALSE) : f \in {{"x"}, {"a.x"}}, i \in BOOLEAN, d \in {"x", "none"}}
    \cup {Message({"x", "y"}, "x", TRUE, "x", "few", TRUE, FALSE), Message({}, "x", TRUE, "none", "few", TRUE, FALSE),
          Message({"x"}, "x", TRUE, "x", "many", TRUE, FALSE), Message({"x"}, "x", TRUE, "x", "ours", TRUE, FALSE),
          Message({"x"}, "y", TRUE, "x", "few", FALSE, FALSE), Message({"x"}, "y", FALSE, "none", "few", TRUE, TRUE)}

Idle == [at |-> "idle"]

-----------------------------------------------------------------------------
(* TxtCache *)

Without(f, ks) == [k \in DOMAIN f \ ks |-> f[k]]
With(f, k, v) == [j \in DOMAIN f \cup {k} |-> IF j = k THEN v ELSE f[j]]

(* What enforce_capacity throws out to make room for name: expired        *)
(* entries, then the ones that expire first, then injected ones in any    *)
(* order, never name's own.                                               *)
Expired(e) == e.until <= now
Survivors(keys, name) ==
    LET live == {k \in keys : k = name \/ ~Expired(entries[k])}
        ttl(k) == entries[k].until
        legal(kept) ==
            \A gone \in live \ kept, k \in kept \ {name} : ttl(gone) <= ttl(k)
        least == IF Cardinality(live) < MaxEntries THEN Cardinality(live) ELSE MaxEntries - 1
    IN  {kept \in SUBSET live : Cardinality(kept) = least /\ live \cap {name} \subseteq kept /\ legal(kept)}

(* insert, as the library calls it with a DNS answer *)
ExpiryUncapped(ttl) == now + ttl
Expiry(ttl) == IF ttl < MaxTtl THEN now + ttl ELSE now + MaxTtl
Insert(name, rec, ttl) ==
    \E kept \in Survivors(DOMAIN entries, name) :
        /\ entries' = With([k \in kept |-> entries[k]], name, [rec |-> Parsed(rec), until |-> Expiry(ttl)])
        /\ raw' = [k \in (DOMAIN raw \cap kept) \ {name} |-> raw[k]]

(* store: add_dmarc, add_spf, add_domain_key *)
Store ==
    /\ Cardinality(pins) < MaxPins
    /\ \E name \in Names : \E rec \in Records(name) \ {Absent} :
         /\ pins' = pins \cup {<<name, rec>>}
         /\ \E kept \in Survivors(DOMAIN entries, name) :
            /\ entries' = With([k \in kept |-> entries[k]], name, [rec |-> rec, until |-> Never])
            /\ raw' = LET rest == [k \in (DOMAIN raw \cap kept) \ {name} |-> raw[k]]
                      IN  IF rec.kind = "dmarc" THEN With(rest, name, rec) ELSE rest
    /\ UNCHANGED <<dns, published, now, task>>

(* store_if_absent: pin_dmarc_walk stops the search at x's parents *)
PinDmarcWalk ==
    /\ Cardinality(pins) < MaxPins
    /\ pins' = pins \cup {<<"dmarc.x", Absent>>}
    /\ LET name == "dmarc.x"
       IN  \/ name \in DOMAIN entries /\ UNCHANGED <<entries, raw>>
           \/ /\ name \notin DOMAIN entries
              /\ \E kept \in Survivors(DOMAIN entries, name) :
                    /\ entries' = With([k \in kept |-> entries[k]], name, [rec |-> Absent, until |-> Never])
                    /\ raw' = [k \in DOMAIN raw \cap kept |-> raw[k]]
    /\ UNCHANGED <<dns, published, now, task>>

(* One lookup of the library through the cache: get, and on a miss the    *)
(* DNS and insert.  A name that does not exist, or a resolver that does   *)
(* not answer, leaves nothing in the cache.                               *)
Hit(name) == name \in DOMAIN entries /\ ~Expired(entries[name])
Look(name, rec) ==
    \/ Hit(name) /\ rec = entries[name].rec /\ UNCHANGED <<entries, raw>>
    \/ /\ ~Hit(name)
       /\ dns[name] # Absent
       /\ rec = Parsed(dns[name])
       /\ \E ttl \in Ttls : Insert(name, dns[name], ttl)
    \/ /\ ~Hit(name)
       /\ dns[name] = Absent
       /\ rec = Absent
       /\ entries' = Without(entries, {name})
       /\ raw' = Without(raw, {name})

-----------------------------------------------------------------------------
(* QueueSink::handle *)

Answer(s, code) == task' = [task EXCEPT ![s].at = "done", ![s].answer = code]
Known(t) == {n \in Names : t.used[n] # {}}
Used(t, n, rec) == [t EXCEPT !.used[n] = @ \cup {rec}]

(* A message arrives; hops are counted before anything is looked up, and  *)
(* mail a user submits is not authenticated.                              *)
Arrive(s) ==
    /\ task[s] = Idle
    /\ \E m \in Messages :
         LET t == [at |-> "spf", m |-> m, since |-> now, spf |-> "none", dkim |-> "none", dmarc |-> "none",
                   policy |-> "none", pct |-> 100, used |-> [n \in Names |-> {}], marked |-> FALSE, answer |-> 0]
         IN  task' = [task EXCEPT ![s] =
                 IF m.hops # "few" THEN [t EXCEPT !.at = "done", !.answer = 554]
                 ELSE IF m.submission THEN [t EXCEPT !.at = "queue"] ELSE t]
    /\ UNCHANGED <<dns, published, now, entries, raw, pins>>

(* spf::check_raw: the record of the envelope's domain; y publishes none *)
CheckSpf(s) ==
    LET t == task[s] IN
    /\ t.at = "spf"
    /\ \/ /\ t.m.sender = "x"
          /\ \E rec \in Records("spf.x") :
                /\ Look("spf.x", rec)
                /\ task' = [task EXCEPT ![s] = Used([t EXCEPT !.at = "dkim",
                        !.spf = IF rec = Absent THEN "none" ELSE IF t.m.ip THEN "pass" ELSE "fail"], "spf.x", rec)]
       \/ t.m.sender # "x" /\ task' = [task EXCEPT ![s].at = "dkim"] /\ UNCHANGED <<entries, raw>>
    /\ UNCHANGED <<dns, published, now, pins>>

(* verify_dkim, then the From domains: more than one fails outright *)
AfterDkim(t) == IF Cardinality(t.m.from) > 1
                THEN [t EXCEPT !.at = "decide", !.dmarc = "fail", !.policy = "reject"]
                ELSE [t EXCEPT !.at = IF t.m.from = {} THEN "decide" ELSE "dmarc"]
CheckDkim(s) ==
    LET t == task[s] IN
    /\ t.at = "dkim"
    /\ \/ /\ t.m.sig = "x"
          /\ \E rec \in Records("key.x") :
                /\ Look("key.x", rec)
                /\ task' = [task EXCEPT ![s] = AfterDkim(Used([t EXCEPT !.dkim = IF rec = Absent THEN "permerror" ELSE "pass"], "key.x", rec))]
       \/ t.m.sig = "none" /\ task' = [task EXCEPT ![s] = AfterDkim(t)] /\ UNCHANGED <<entries, raw>>
    /\ UNCHANGED <<dns, published, now, pins>>

(* verify_dmarc: the record of the From domain, or of the domain above it *)
Aligned(t) == (t.spf = "pass" /\ t.m.sender = "x") \/ t.dkim = "pass"
Judged(t, rec) == [t EXCEPT !.at = "pct", !.dmarc = IF Aligned(t) THEN "pass" ELSE "fail", !.policy = rec.p]
CheckDmarc(s) ==
    LET t == task[s]
        name == IF t.at = "dmarc" /\ t.m.from = {"a.x"} THEN "dmarc.a.x" ELSE "dmarc.x"
    IN
    /\ t.at \in {"dmarc", "above"}
    /\ \E rec \in Records(name) :
         /\ Look(name, rec)
         /\ task' = [task EXCEPT ![s] = Used(
                IF rec # Absent THEN Judged(t, rec)
                ELSE IF name = "dmarc.a.x" THEN [t EXCEPT !.at = "above"] ELSE [t EXCEPT !.at = "decide"], name, rec)]
    /\ UNCHANGED <<dns, published, now, pins>>

(* raw_dmarc_record: the nearest domain upwards whose injected text is    *)
(* still there                                                            *)
RawDmarcRecord(t) ==
    LET walk == IF t.m.from = {"a.x"} THEN <<"dmarc.a.x", "dmarc.x">> ELSE <<"dmarc.x">>
        held == {i \in DOMAIN walk : walk[i] \in DOMAIN raw \cap DOMAIN entries}
    IN  IF held = {} THEN {} ELSE {raw[walk[CHOOSE i \in held : \A j \in held : i <= j]]}

WeakenOneStep(p) == CASE p = "reject" -> "quarantine" [] p = "quarantine" -> "none" [] OTHER -> p
(* effective_policy, over the draws that matter: below and not below pct *)
EffectivePolicy(p, pct, drawn) == IF drawn >= pct THEN WeakenOneStep(p) ELSE p

(* evaluate's last part: a failure under an injected record is sampled *)
ApplyPct(s) ==
    LET t == task[s] IN
    /\ t.at = "pct"
    /\ \E drawn \in {0, 99} :
         LET texts == IF t.dmarc = "fail" /\ t.policy # "none" THEN RawDmarcRecord(t) ELSE {}
             pct == IF texts = {} THEN 100 ELSE (CHOOSE r \in texts : TRUE).pct
         IN  task' = [task EXCEPT ![s].at = "decide", ![s].pct = pct,
                                  ![s].policy = EffectivePolicy(t.policy, pct, drawn)]
    /\ UNCHANGED <<dns, published, now, entries, raw, pins>>

(* Refused under "reject"; otherwise Return-Path and the rendered results *)
(* go on top of the message.                                              *)
RefusesAnyPolicy(t) == t.dmarc = "fail"
Refuses(t) == t.dmarc = "fail" /\ t.policy = "reject"
Decide(s) ==
    LET t == task[s] IN
    /\ t.at = "decide"
    /\ \/ Refuses(t) /\ Answer(s, 550)
       \/ ~Refuses(t) /\ task' = [task EXCEPT ![s].at = "queue", ![s].marked = TRUE]
    /\ UNCHANGED <<dns, published, now, entries, raw, pins>>

(* The text must be UTF-8 and the queue must take it *)
Enqueue(s) ==
    LET t == task[s] IN
    /\ t.at = "queue"
    /\ IF ~t.m.utf8 THEN Answer(s, 554) ELSE Answer(s, 250) \/ Answer(s, 451)
    /\ UNCHANGED <<dns, published, now, entries, raw, pins>>

-----------------------------------------------------------------------------
(* The world *)

(* A lookup of one more connection, for a message that is not followed *)
LookElsewhere ==
    /\ \E n \in Names : \E rec \in Records(n) : Look(n, rec)
    /\ UNCHANGED <<dns, published, now, task, pins>>

Tick ==
    /\ now < MaxClock
    /\ now' = now + 1
    /\ published' = [n \in Names |-> [published[n] EXCEPT ![now + 1] = {dns[n]}]]
    /\ UNCHANGED <<dns, entries, raw, task, pins>>

Changes == Cardinality(UNION {{<<n, t>>} \X (published[n][t] \ {dns[n]}) : n \in Names, t \in 0..MaxClock})
Publish ==
    /\ Changes < MaxChanges
    /\ \E n \in Names : \E rec \in Records(n) \ {dns[n]} :
         /\ dns' = [dns EXCEPT ![n] = rec]
         /\ published' = [published EXCEPT ![n][now] = @ \cup {rec}]
    /\ UNCHANGED <<now, entries, raw, task, pins>>

Empty == [n \in {} |-> 0]
AuthInit ==
    /\ dns = [n \in Names |-> CASE n = "spf.x" -> [kind |-> "spf"] [] n = "key.x" -> [kind |-> "key"]
                                [] n = "dmarc.x" -> Policy("reject", 100) [] OTHER -> Absent]
    /\ published = [n \in Names |-> [t \in 0..MaxClock |-> IF t = 0 THEN {dns[n]} ELSE {}]]
    /\ now = 0 /\ pins = {}
    /\ entries = Empty /\ raw = Empty
    /\ task = [s \in Sinks |-> Idle]

AuthNext ==
    \/ \E s \in Sinks : Arrive(s) \/ CheckSpf(s) \/ CheckDkim(s) \/ CheckDmarc(s) \/ ApplyPct(s) \/ Decide(s) \/ Enqueue(s)
    \/ LookElsewhere \/ Store \/ PinDmarcWalk \/ Tick \/ Publish

Spec == AuthInit /\ [][AuthNext]_authVars

\* Assumed of the constants: the cache holds something, for some time.
AuthConstants ==
    /\ MaxEntries \in Nat \ {0} /\ MaxTtl \in Nat \ {0} /\ MaxClock \in Nat
    /\ Ttls \subseteq Nat

-----------------------------------------------------------------------------
(* What a record said while a message was checked: published less than     *)
(* MaxTtl before the message came, or injected by hand.              *)
Recent(t, n, rec) ==
    \/ \E u \in 0..now : u > t.since - MaxTtl /\ \E r \in published[n][u] : Parsed(r) = Parsed(rec)
    \/ <<n, rec>> \in pins

(* A message that came from outside is refused for DMARC only on what the *)
(* domains published less than MaxTtl before it came (entries of the cache   *)
(* expire by the shorter of their own time and MAX_TTL, and are looked up  *)
(* again), and mail that fails a "reject" policy is queued only when the   *)
(* record's own pct let it off.                                           *)
DmarcHonoured ==
    \A s \in Sinks : task[s] # Idle =>
        LET t == task[s]
            dmarcs == UNION {t.used[n] : n \in {"dmarc.x", "dmarc.a.x"}}
        IN  /\ t.answer = 550 =>
                 \/ Cardinality(t.m.from) > 1
                 \/ ~Aligned(t) /\ \E rec \in dmarcs : rec # Absent /\ rec.p = "reject"
            /\ t.answer = 250 /\ ~t.m.submission =>
                 \/ Aligned(t) /\ Cardinality(t.m.from) < 2
                 \/ t.pct < 100
                 \/ Cardinality(t.m.from) < 2 /\ \A rec \in dmarcs : rec # Absent => rec.p # "reject"
            /\ \A n \in Names : \A rec \in t.used[n] : Recent(t, n, rec)

(* The text kept of an injected DMARC record is the text of the very       *)
(* record in the cache, whatever was injected, looked up, expired or       *)
(* thrown out since, and the cache never outgrows MAX_ENTRIES.             *)
TextOfItsRecord ==
    /\ \A n \in DOMAIN raw : n \in DOMAIN entries /\ entries[n].rec = raw[n] /\ entries[n].until = Never
    /\ Cardinality(DOMAIN entries) <= MaxEntries
=============================================================================
