------------------------------ MODULE MailProofs -----------------------------
(***************************************************************************)
(* The services between the mailboxes and their users, one section for     *)
(* each: its constants and state, its instance and the proofs about it.    *)
(* (The administrator's login has its theorem in AdminConsole.)            *)
(*                                                                         *)
(* A section states the inductive invariant, proves it preserved with one  *)
(* lemma per action, and derives the component's properties from it. What  *)
(* a proof takes of the constants is defined in the component's module     *)
(* (LoginConstants, ...). MCServices extends this module, composes the     *)
(* components, assumes those hypotheses of its constants, where TLC        *)
(* evaluates them, and carries the theorems over to the composition.       *)
(***************************************************************************)
EXTENDS Integers, Sequences, FiniteSets, FiniteSetTheorems, TLAPS

CONSTANT Actors

-----------------------------------------------------------------------------
(***************************************************************************)
(* Authentication of incoming mail (MailAuth). What the DNS cache holds    *)
(* was published within its lifetime, or is pinned; a message's verdict    *)
(* follows from records that were recent when it was examined.             *)
(***************************************************************************)
CONSTANTS Sinks, MaxEntries, MaxTtl, Ttls, MaxAuthClock, MaxChanges, MaxPins
VARIABLES dns, published, now, entries, raw, task, pins

Auth == INSTANCE MailAuth WITH
    MaxClock <- MaxAuthClock

\* The times a behaviour reaches.
ClockTimes == 0 .. MaxAuthClock

\* What was published when, and what is published now.
WorldOK ==
    /\ now \in ClockTimes
    /\ DOMAIN dns = Auth!Names /\ DOMAIN published = Auth!Names
    /\ \A n \in Auth!Names : /\ dns[n] \in Auth!Records(n)
                             /\ published[n] \in [ClockTimes -> SUBSET Auth!Records(n)]
                             /\ dns[n] \in published[n][now]

\* Where a cached entry comes from: it is pinned, or was published so lately that its
\* lifetime has not run out.
Sourced(n, e) ==
    \/ e.until = Auth!Never /\ <<n, e.rec>> \in pins
    \/ \E u \in 0 .. now : e.until <= u + MaxTtl /\ \E r \in published[n][u] : Auth!Parsed(r) = e.rec

EntryOK(n, e) ==
    /\ DOMAIN e = {"rec", "until"} /\ e.until \in Nat /\ Sourced(n, e)

\* The cache within its limit, and the texts beside it.
DnsCacheOK ==
    /\ DOMAIN entries \subseteq Auth!Names
    /\ \A n \in DOMAIN entries : EntryOK(n, entries[n])
    /\ Cardinality(DOMAIN entries) <= MaxEntries
    /\ \A n \in DOMAIN raw :
          /\ n \in DOMAIN entries /\ entries[n].rec = raw[n] /\ entries[n].until = Auth!Never
          /\ raw[n].pct \in Int

\* The fields of a message under examination.
TaskFields == {"at", "m", "since", "spf", "dkim", "dmarc", "policy", "pct", "used", "marked", "answer"}
\* The DMARC records consulted for a message.
Dmarcs(t) == t.used["dmarc.x"] \cup t.used["dmarc.a.x"]
\* The message names one author.
Single(t) == ~(Auth!Cardinality(t.m.from) > 1)

\* What must be so before a message is refused, and before it is queued.
Refusal(t) == ~Single(t) \/ (~Auth!Aligned(t) /\ \E rec \in Dmarcs(t) : rec # Auth!Absent /\ rec.p = "reject")
Accepted(t) ==
    \/ Auth!Aligned(t) /\ Single(t)
    \/ t.pct < 100
    \/ Single(t) /\ \A rec \in Dmarcs(t) : rec # Auth!Absent => rec.p # "reject"

\* What DMARC made of the records consulted.
DmarcJudged(t) ==
    /\ Single(t)
    /\ t.dmarc = IF Auth!Aligned(t) THEN "pass" ELSE "fail"
    /\ \E rec \in Dmarcs(t) : rec # Auth!Absent /\ rec.p = t.policy
    /\ \A rec \in Dmarcs(t) : rec # Auth!Absent => rec.p = t.policy

\* A message, stage by stage.
TaskSound(t) ==
    /\ DOMAIN t = TaskFields /\ DOMAIN t.used = Auth!Names /\ t.used = [n \in Auth!Names |-> t.used[n]]
    /\ t.m \in Auth!Messages /\ t.since \in Int
    /\ t.at \in {"spf", "dkim", "dmarc", "above", "pct", "decide", "queue", "done"}
    /\ t.at # "done" => t.answer = 0
    /\ t.at \in {"spf", "dkim", "dmarc", "above"} => t.dmarc = "none"
    /\ t.at \in {"spf", "dkim", "dmarc"} => Dmarcs(t) = {}
    /\ t.at = "above" => Dmarcs(t) \subseteq {Auth!Absent}
    /\ t.at \in {"dmarc", "above"} => Single(t)
    /\ t.at = "pct" => DmarcJudged(t)
    /\ t.at = "decide" => IF Auth!Refuses(t) THEN Refusal(t) ELSE Accepted(t)
    /\ t.at = "queue" => t.m.submission \/ Accepted(t)
    /\ t.answer = 550 => Refusal(t)
    /\ t.answer = 250 /\ ~t.m.submission => Accepted(t)

\* Every record used was recent when it was used.
RecentUse(t) == t.since <= now /\ \A n \in Auth!Names : \A rec \in t.used[n] : Auth!Recent(t, n, rec)

\* The inductive invariant.
AuthInv ==
    /\ WorldOK /\ DnsCacheOK
    /\ DOMAIN task = Sinks
    /\ \A s \in Sinks : task[s] = Auth!Idle \/ (TaskSound(task[s]) /\ RecentUse(task[s]))

\* The instance's Cardinality is Cardinality.
LEMMA AuthCardinality == \A S : Auth!Cardinality(S) = Cardinality(S)
BY DEF Auth!Cardinality, Cardinality, Auth!IsFiniteSet, IsFiniteSet

LEMMA FromCounts ==
    ASSUME NEW m \in Auth!Messages
    PROVE  Auth!Cardinality(m.from) \in Nat
<1>1. m.from \in {{"x"}, {"a.x"}, {"x", "y"}, {}}
  BY DEF Auth!Messages, Auth!Message
<1>2. IsFiniteSet({"x"}) /\ IsFiniteSet({"a.x"}) /\ IsFiniteSet({})
  BY FS_Singleton, FS_EmptySet
<1>3. IsFiniteSet({"x", "y"})
  <2>1. {"x", "y"} = {"x"} \cup {"y"}
    OBVIOUS
  <2>2. QED
    BY <1>2, <2>1, FS_AddElement
<1>4. QED
  BY <1>1, <1>2, <1>3, FS_CardinalityType, AuthCardinality

LEMMA RecordShapes ==
    ASSUME NEW n \in Auth!Names, NEW r \in Auth!Records(n)
    PROVE  /\ Auth!Parsed(Auth!Parsed(r)) = Auth!Parsed(r)
           /\ r.kind = "dmarc" => r.pct \in {0, 100}
<1>1. r.kind = "dmarc" => DOMAIN r = {"kind", "p", "pct"} /\ r.pct \in {0, 100}
  BY DEF Auth!Records, Auth!Policy, Auth!Absent, Auth!Names
<1>2. QED
  BY <1>1 DEF Auth!Parsed

\* What was recent stays recent: the past does not change, and pins only grow.
Later ==
    /\ now' \in {now, now + 1}
    /\ \A n \in Auth!Names : \A u \in 0 .. now : published[n][u] \subseteq published'[n][u]
    /\ pins \subseteq pins'

LEMMA StaysRecent ==
    ASSUME WorldOK, Later, NEW t, RecentUse(t), t.since \in Int, Auth!AuthConstants
    PROVE  RecentUse(t)'
<1>1. now \in Nat /\ now' \in Nat /\ now <= now'
  BY DEF WorldOK, Later, ClockTimes, Auth!AuthConstants
<1>2. ASSUME NEW n \in Auth!Names, NEW rec \in t.used[n] PROVE Auth!Recent(t, n, rec)'
  <2>1. Auth!Recent(t, n, rec)
    BY DEF RecentUse
  <2>2. CASE \E u \in 0 .. now : u > t.since - MaxTtl /\ \E r \in published[n][u] : Auth!Parsed(r) = Auth!Parsed(rec)
    <3>1. PICK u \in 0 .. now : u > t.since - MaxTtl /\ \E r \in published[n][u] : Auth!Parsed(r) = Auth!Parsed(rec)
      BY <2>2
    <3>2. u \in 0 .. now' /\ published[n][u] \subseteq published'[n][u]
      BY <1>1 DEF Later
    <3>3. QED
      BY <3>1, <3>2 DEF Auth!Recent
  <2>3. CASE <<n, rec>> \in pins
    BY <2>3 DEF Auth!Recent, Later
  <2>4. QED
    BY <2>1, <2>2, <2>3 DEF Auth!Recent
<1>3. t.since <= now'
  BY <1>1 DEF RecentUse
<1>4. QED
  BY <1>2, <1>3 DEF RecentUse, Auth!Names

LEMMA StaysSourced ==
    ASSUME WorldOK, Later, NEW n \in Auth!Names, NEW e, Sourced(n, e), Auth!AuthConstants
    PROVE  Sourced(n, e)'
<1>1. now \in Nat /\ now' \in Nat /\ now <= now'
  BY DEF WorldOK, Later, ClockTimes, Auth!AuthConstants
<1>2. CASE \E u \in 0 .. now : e.until <= u + MaxTtl /\ \E r \in published[n][u] : Auth!Parsed(r) = e.rec
  <2>1. PICK u \in 0 .. now : e.until <= u + MaxTtl /\ \E r \in published[n][u] : Auth!Parsed(r) = e.rec
    BY <1>2
  <2>2. u \in 0 .. now' /\ published[n][u] \subseteq published'[n][u]
    BY <1>1 DEF Later
  <2>3. QED
    BY <2>1, <2>2 DEF Sourced
<1>3. CASE e.until = Auth!Never /\ <<n, e.rec>> \in pins
  BY <1>3 DEF Sourced, Later, Auth!Never
<1>4. QED
  BY <1>2, <1>3 DEF Sourced

LEMMA NamesFinite == IsFiniteSet(Auth!Names)
<1>1. Auth!Names = (({"spf.x"} \cup {"key.x"}) \cup {"dmarc.x"}) \cup {"dmarc.a.x"}
  BY DEF Auth!Names
<1>2. IsFiniteSet({"spf.x"})
  BY FS_Singleton
<1>3. IsFiniteSet({"spf.x"} \cup {"key.x"})
  BY <1>2, FS_AddElement
<1>4. IsFiniteSet(({"spf.x"} \cup {"key.x"}) \cup {"dmarc.x"})
  BY <1>3, FS_AddElement
<1>5. QED
  BY <1>1, <1>4, FS_AddElement

\* An entry put into the cache in the room that is left for it.
LEMMA Placing ==
    ASSUME WorldOK, DnsCacheOK, Auth!AuthConstants, Later, NEW name \in Auth!Names, NEW e, EntryOK(name, e)',
           NEW left \in Auth!Survivors(DOMAIN entries, name),
           entries' = Auth!With([k \in left |-> entries[k]], name, e),
           \A k \in DOMAIN raw' : raw'[k].pct \in Int
                /\ (IF k = name THEN e.rec = raw'[k] /\ e.until = Auth!Never
                    ELSE k \in DOMAIN raw /\ k \in left /\ raw'[k] = raw[k])
    PROVE  DnsCacheOK'
<1>1. left \subseteq DOMAIN entries
  BY DEF Auth!Survivors
<1>2. IsFiniteSet(DOMAIN entries) /\ IsFiniteSet(left)
  BY <1>1, NamesFinite, FS_Subset DEF DnsCacheOK
<1>3. Cardinality(left) \in Nat /\ Cardinality(left) + 1 <= MaxEntries
  <2> DEFINE live == {k \in DOMAIN entries : k = name \/ ~Auth!Expired(entries[k])}
  <2>1. Auth!Cardinality(left) = IF Auth!Cardinality(live) < MaxEntries THEN Auth!Cardinality(live) ELSE MaxEntries - 1
    BY DEF Auth!Survivors
  <2>2. IsFiniteSet(live)
    BY <1>2, FS_Subset
  <2>3. Cardinality(live) \in Nat /\ Cardinality(left) \in Nat
    BY <1>2, <2>2, FS_CardinalityType
  <2> HIDE DEF live
  <2>4. QED
    BY <2>1, <2>3, AuthCardinality DEF Auth!AuthConstants
<1>4. DOMAIN entries' = left \cup {name} /\ entries'[name] = e /\ \A k \in left : k # name => entries'[k] = entries[k]
  BY DEF Auth!With
<1>5. Cardinality(DOMAIN entries') <= MaxEntries
  <2>1. Cardinality(left \cup {name}) = IF name \in left THEN Cardinality(left) ELSE Cardinality(left) + 1
    BY <1>2, FS_AddElement
  <2>2. QED
    BY <1>3, <1>4, <2>1 DEF Auth!AuthConstants
<1>6. \A n \in DOMAIN entries' : EntryOK(n, entries[n])'
  <2>1. SUFFICES ASSUME NEW n \in DOMAIN entries', n # name PROVE EntryOK(n, entries[n])'
    BY <1>4
  <2>2. n \in left /\ n \in Auth!Names /\ entries'[n] = entries[n] /\ EntryOK(n, entries[n])
    BY <1>1, <1>4, <2>1 DEF DnsCacheOK
  <2>3. QED
    BY <2>2, StaysSourced DEF EntryOK
<1>7. \A n \in DOMAIN raw' : /\ n \in DOMAIN entries' /\ entries'[n].rec = raw'[n] /\ entries'[n].until = Auth!Never
                             /\ raw'[n].pct \in Int
  BY <1>4 DEF DnsCacheOK
<1>8. DOMAIN entries' \subseteq Auth!Names
  BY <1>1, <1>4 DEF DnsCacheOK
<1>9. QED
  BY <1>5, <1>6, <1>7, <1>8 DEF DnsCacheOK, Auth!Names, Auth!Never

LEMMA LookingUpName ==
    ASSUME WorldOK, DnsCacheOK, Auth!AuthConstants, NEW name \in Auth!Names, NEW rec \in Auth!Records(name),
           Auth!Look(name, rec), UNCHANGED <<dns, published, now, pins>>
    PROVE  /\ DnsCacheOK'
           /\ \A t : t.since \in Int /\ t.since <= now => Auth!Recent(t, name, rec)
<1>1. now \in Nat /\ now \in 0 .. now /\ Later
  BY DEF WorldOK, ClockTimes, Later, Auth!AuthConstants
<1>2. dns[name] \in Auth!Records(name) /\ dns[name] \in published[name][now]
  BY DEF WorldOK
<1>3. CASE Auth!Hit(name) /\ rec = entries[name].rec /\ UNCHANGED <<entries, raw>>
  <2>1. EntryOK(name, entries[name]) /\ entries[name].until > now
    BY <1>1, <1>3 DEF DnsCacheOK, Auth!Hit, Auth!Expired, EntryOK
  <2>2. DnsCacheOK'
    BY <1>3 DEF DnsCacheOK, EntryOK, Sourced, Auth!Never, Auth!Names
  <2>3. ASSUME NEW t, t.since \in Int, t.since <= now PROVE Auth!Recent(t, name, rec)
    <3>1. CASE entries[name].until = Auth!Never /\ <<name, entries[name].rec>> \in pins
      BY <1>3, <3>1 DEF Auth!Recent
    <3>2. CASE \E u \in 0 .. now : entries[name].until <= u + MaxTtl /\ \E r \in published[name][u] : Auth!Parsed(r) = entries[name].rec
      <4>1. PICK u \in 0 .. now : entries[name].until <= u + MaxTtl /\ \E r \in published[name][u] : Auth!Parsed(r) = entries[name].rec
        BY <3>2
      <4>2. PICK r \in published[name][u] : Auth!Parsed(r) = entries[name].rec
        BY <4>1
      <4>3. u > t.since - MaxTtl
        BY <1>1, <2>1, <2>3, <4>1 DEF EntryOK, Auth!AuthConstants
      <4>4. r \in Auth!Records(name)
        BY <1>1, <4>2 DEF WorldOK, ClockTimes, Auth!AuthConstants
      <4>5. Auth!Parsed(r) = Auth!Parsed(rec)
        BY <1>3, <4>2, <4>4, RecordShapes
      <4>6. QED
        BY <4>2, <4>3, <4>5 DEF Auth!Recent
    <3>3. QED
      BY <2>1, <3>1, <3>2 DEF EntryOK, Sourced
  <2>4. QED
    BY <2>2, <2>3
<1>4. CASE ~Auth!Hit(name) /\ rec = Auth!Parsed(dns[name]) /\ \E ttl \in Ttls : Auth!Insert(name, dns[name], ttl)
  <2>1. PICK ttl \in Ttls : Auth!Insert(name, dns[name], ttl)
    BY <1>4
  <2>2. PICK e : e = [rec |-> Auth!Parsed(dns[name]), until |-> Auth!Expiry(ttl)]
    OBVIOUS
  <2>3. PICK left \in Auth!Survivors(DOMAIN entries, name) :
            /\ entries' = Auth!With([k \in left |-> entries[k]], name, e)
            /\ raw' = [k \in (DOMAIN raw \cap left) \ {name} |-> raw[k]]
    BY <2>1, <2>2 DEF Auth!Insert
  <2>4. Auth!Expiry(ttl) \in Nat /\ Auth!Expiry(ttl) <= now + MaxTtl
    BY <1>1 DEF Auth!Expiry, Auth!AuthConstants
  <2>5. DOMAIN e = {"rec", "until"} /\ e.until = Auth!Expiry(ttl) /\ e.rec = Auth!Parsed(dns[name])
    BY <2>2
  <2>6. EntryOK(name, e)'
    BY <1>1, <1>2, <2>4, <2>5 DEF EntryOK, Sourced
  <2>7. \A k \in DOMAIN raw' : raw'[k].pct \in Int
                /\ (IF k = name THEN e.rec = raw'[k] /\ e.until = Auth!Never
                    ELSE k \in DOMAIN raw /\ k \in left /\ raw'[k] = raw[k])
    BY <2>3 DEF DnsCacheOK
  <2>8. DnsCacheOK'
    BY <1>1, <2>3, <2>6, <2>7, Placing
  <2>9. ASSUME NEW t, t.since \in Int, t.since <= now PROVE Auth!Recent(t, name, rec)
    <3>1. now > t.since - MaxTtl
      BY <1>1, <2>9 DEF Auth!AuthConstants
    <3>2. Auth!Parsed(dns[name]) = Auth!Parsed(rec)
      BY <1>2, <1>4, RecordShapes
    <3>3. QED
      BY <1>1, <1>2, <3>1, <3>2 DEF Auth!Recent
  <2>10. QED
    BY <2>8, <2>9
<1>5. CASE dns[name] = Auth!Absent /\ rec = Auth!Absent /\ entries' = Auth!Without(entries, {name}) /\ raw' = Auth!Without(raw, {name})
  <2>1. /\ DOMAIN entries' = DOMAIN entries \ {name} /\ \A k \in DOMAIN entries' : entries'[k] = entries[k]
        /\ DOMAIN raw' = DOMAIN raw \ {name} /\ \A k \in DOMAIN raw' : raw'[k] = raw[k]
    BY <1>5 DEF Auth!Without
  <2>2. IsFiniteSet(DOMAIN entries)
    BY NamesFinite, FS_Subset DEF DnsCacheOK
  <2>3. Cardinality(DOMAIN entries') <= MaxEntries
    <3>1. Cardinality(DOMAIN entries \ {name}) <= Cardinality(DOMAIN entries) /\ Cardinality(DOMAIN entries \ {name}) \in Nat
          /\ Cardinality(DOMAIN entries) \in Nat
      BY <2>2, FS_Subset, FS_CardinalityType
    <3>2. QED
      BY <2>1, <3>1 DEF DnsCacheOK, Auth!AuthConstants
  <2>4. \A k \in DOMAIN entries' : EntryOK(k, entries[k])'
    BY <2>1 DEF DnsCacheOK, EntryOK, Sourced, Auth!Never
  <2>5. DnsCacheOK'
    BY <2>1, <2>3, <2>4 DEF DnsCacheOK, Auth!Never, Auth!Names
  <2>6. ASSUME NEW t, t.since \in Int, t.since <= now PROVE Auth!Recent(t, name, rec)
    <3>1. now > t.since - MaxTtl
      BY <1>1, <2>6 DEF Auth!AuthConstants
    <3>2. QED
      BY <1>1, <1>2, <1>5, <3>1 DEF Auth!Recent
  <2>7. QED
    BY <2>5, <2>6
<1>6. QED
  BY <1>3, <1>4, <1>5 DEF Auth!Look

\* A step of one connection: its task alone changes.
LEMMA TaskStep ==
    ASSUME AuthInv, Auth!AuthConstants, DnsCacheOK', UNCHANGED <<dns, published, now, pins>>, NEW s \in Sinks, NEW m,
           task' = [task EXCEPT ![s] = m], TaskSound(m), RecentUse(m)
    PROVE  AuthInv'
<1>1. WorldOK' /\ DOMAIN task' = Sinks
  BY DEF AuthInv, WorldOK, Auth!Names
<1>2. \A t : RecentUse(t) => RecentUse(t)'
  BY DEF RecentUse, Auth!Recent, Auth!Names
<1>3. ASSUME NEW r \in Sinks PROVE task'[r] = Auth!Idle \/ (TaskSound(task'[r]) /\ RecentUse(task[r])')
  <2>1. CASE r = s
    BY <1>2, <2>1 DEF AuthInv
  <2>2. CASE r # s
    BY <1>2, <2>2 DEF AuthInv
  <2>3. QED
    BY <2>1, <2>2
<1>4. QED
  BY <1>1, <1>3 DEF AuthInv, TaskSound, Auth!Idle, Dmarcs, Auth!Names

\* The task of a message that has just come.
Arrived(msg) ==
    [at |-> "spf", m |-> msg, since |-> now, spf |-> "none", dkim |-> "none", dmarc |-> "none",
     policy |-> "none", pct |-> 100, used |-> [n \in Auth!Names |-> {}], marked |-> FALSE, answer |-> 0]
TakenIn(msg) ==
    IF msg.hops # "few" THEN [Arrived(msg) EXCEPT !.at = "done", !.answer = 554]
    ELSE IF msg.submission THEN [Arrived(msg) EXCEPT !.at = "queue"] ELSE Arrived(msg)

LEMMA MessageArrives ==
    ASSUME AuthInv, Auth!AuthConstants, NEW s \in Sinks, Auth!Arrive(s) PROVE AuthInv'
<1>1. PICK msg \in Auth!Messages : task' = [task EXCEPT ![s] = TakenIn(msg)]
  BY DEF Auth!Arrive, TakenIn, Arrived
<1>2. UNCHANGED <<dns, published, now, pins, entries, raw>>
  BY DEF Auth!Arrive
<1>3. DnsCacheOK'
  BY <1>2 DEF AuthInv, DnsCacheOK, EntryOK, Sourced, Auth!Never, Auth!Names
<1>4. PICK m : m = TakenIn(msg)
  OBVIOUS
<1>5. /\ DOMAIN m = TaskFields /\ m.m = msg /\ m.since = now /\ m.dmarc = "none" /\ m.pct = 100
      /\ m.used = [n \in Auth!Names |-> {}]
      /\ \/ m.at = "done" /\ m.answer = 554
         \/ m.at = "queue" /\ m.answer = 0 /\ msg.submission
         \/ m.at = "spf" /\ m.answer = 0
  BY <1>1, <1>4 DEF TaskFields, TakenIn, Arrived
<1>6. Dmarcs(m) = {}
  BY <1>5 DEF Dmarcs, Auth!Names
<1>7. now \in Int
  BY DEF AuthInv, WorldOK, ClockTimes, Auth!AuthConstants
<1>8. TaskSound(m)
  BY <1>5, <1>6, <1>7 DEF TaskSound
<1>9. RecentUse(m)
  BY <1>5, <1>7 DEF RecentUse
<1>10. QED
  BY <1>1, <1>2, <1>3, <1>4, <1>8, <1>9, TaskStep

\* What Used leaves alone.
LEMMA Using ==
    ASSUME NEW t, DOMAIN t = TaskFields, t.used = [n \in Auth!Names |-> t.used[n]], NEW n \in Auth!Names, NEW rec,
           NEW m, m = Auth!Used(t, n, rec)
    PROVE  /\ DOMAIN m = TaskFields /\ DOMAIN m.used = Auth!Names /\ m.used = [k \in Auth!Names |-> m.used[k]]
           /\ m.at = t.at /\ m.m = t.m /\ m.since = t.since /\ m.spf = t.spf /\ m.dkim = t.dkim /\ m.dmarc = t.dmarc
           /\ m.policy = t.policy /\ m.pct = t.pct /\ m.answer = t.answer
           /\ m.used[n] = t.used[n] \cup {rec} /\ \A k \in Auth!Names : k # n => m.used[k] = t.used[k]
BY DEF Auth!Used, TaskFields

\* A record that was looked up is added to what the task used.
LEMMA UsesRecent ==
    ASSUME NEW t, RecentUse(t), NEW m, NEW n \in Auth!Names, NEW rec, m.since = t.since,
           m.used[n] = t.used[n] \cup {rec}, \A k \in Auth!Names : k # n => m.used[k] = t.used[k],
           Auth!Recent(t, n, rec)
    PROVE  RecentUse(m)
BY DEF RecentUse, Auth!Recent

LEMMA CheckingSpf ==
    ASSUME AuthInv, Auth!AuthConstants, NEW s \in Sinks, Auth!CheckSpf(s) PROVE AuthInv'
<1> DEFINE t == task[s]
<1>1. t.at = "spf" /\ UNCHANGED <<dns, published, now, pins>>
  BY DEF Auth!CheckSpf
<1>2. WorldOK /\ DnsCacheOK /\ TaskSound(t) /\ RecentUse(t)
  BY <1>1 DEF AuthInv, Auth!Idle
<1>3. /\ DOMAIN t = TaskFields /\ t.used = [n \in Auth!Names |-> t.used[n]] /\ t.since \in Int /\ t.since <= now
      /\ t.dmarc = "none" /\ t.answer = 0 /\ Dmarcs(t) = {} /\ t.m \in Auth!Messages
  BY <1>1, <1>2 DEF TaskSound, RecentUse
<1>4. CASE t.m.sender # "x" /\ task' = [task EXCEPT ![s].at = "dkim"] /\ UNCHANGED <<entries, raw>>
  <2>1. PICK m : m = [t EXCEPT !.at = "dkim"]
    OBVIOUS
  <2>2. /\ DOMAIN m = TaskFields /\ m.used = t.used /\ m.since = t.since /\ m.dmarc = t.dmarc /\ m.answer = t.answer
        /\ m.at = "dkim" /\ m.m = t.m
    BY <1>3, <2>1 DEF TaskFields
  <2>3. TaskSound(m)
    BY <1>3, <2>2 DEF TaskSound, Dmarcs
  <2>4. RecentUse(m)
    BY <1>2, <2>2 DEF RecentUse, Auth!Recent
  <2>5. DnsCacheOK'
    BY <1>1, <1>2, <1>4 DEF DnsCacheOK, EntryOK, Sourced, Auth!Never, Auth!Names
  <2>6. task' = [task EXCEPT ![s] = m]
    BY <1>4, <2>1
  <2>7. QED
    BY <1>1, <2>3, <2>4, <2>5, <2>6, TaskStep
<1>5. ASSUME NEW rec \in Auth!Records("spf.x"), Auth!Look("spf.x", rec),
             task' = [task EXCEPT ![s] = Auth!Used([t EXCEPT !.at = "dkim",
                        !.spf = IF rec = Auth!Absent THEN "none" ELSE IF t.m.ip THEN "pass" ELSE "fail"], "spf.x", rec)]
      PROVE  AuthInv'
  <2>1. "spf.x" \in Auth!Names
    BY DEF Auth!Names
  <2>2. DnsCacheOK' /\ Auth!Recent(t, "spf.x", rec)
    BY <1>1, <1>2, <1>3, <1>5, <2>1, LookingUpName
  <2>3. PICK t1 : t1 = [t EXCEPT !.at = "dkim",
                            !.spf = IF rec = Auth!Absent THEN "none" ELSE IF t.m.ip THEN "pass" ELSE "fail"]
    OBVIOUS
  <2>4. /\ DOMAIN t1 = TaskFields /\ t1.used = t.used /\ t1.since = t.since /\ t1.dmarc = t.dmarc /\ t1.answer = t.answer
        /\ t1.at = "dkim" /\ t1.m = t.m
    BY <1>3, <2>3 DEF TaskFields
  <2>5. PICK m : m = Auth!Used(t1, "spf.x", rec)
    OBVIOUS
  <2>6. /\ DOMAIN m = TaskFields /\ DOMAIN m.used = Auth!Names /\ m.used = [k \in Auth!Names |-> m.used[k]]
        /\ m.at = "dkim" /\ m.m = t.m /\ m.since = t.since /\ m.dmarc = t.dmarc /\ m.answer = t.answer
        /\ m.used["spf.x"] = t.used["spf.x"] \cup {rec} /\ \A k \in Auth!Names : k # "spf.x" => m.used[k] = t.used[k]
    BY <1>3, <2>1, <2>4, <2>5, Using
  <2>7. Dmarcs(m) = {}
    BY <1>3, <2>6 DEF Dmarcs, Auth!Names
  <2>8. TaskSound(m)
    BY <1>3, <2>6, <2>7 DEF TaskSound
  <2>9. RecentUse(m)
    BY <1>2, <2>1, <2>2, <2>6, UsesRecent
  <2>10. task' = [task EXCEPT ![s] = m]
    BY <1>5, <2>3, <2>5
  <2>11. QED
    BY <1>1, <2>2, <2>8, <2>9, <2>10, TaskStep
<1>6. QED
  BY <1>4, <1>5 DEF Auth!CheckSpf

\* What DKIM leaves for DMARC to do.
LEMMA AfterDkimSound ==
    ASSUME NEW t, DOMAIN t = TaskFields, t.used = [n \in Auth!Names |-> t.used[n]], t.m \in Auth!Messages, t.since \in Int,
           t.dmarc = "none", t.answer = 0, Dmarcs(t) = {}, NEW m, m = Auth!AfterDkim(t)
    PROVE  TaskSound(m) /\ m.since = t.since /\ m.used = t.used
<1>1. Auth!Cardinality(t.m.from) \in Nat
  BY FromCounts
<1>2. CASE Auth!Cardinality(t.m.from) > 1
  <2>1. /\ DOMAIN m = TaskFields /\ m.used = t.used /\ m.since = t.since /\ m.m = t.m /\ m.answer = t.answer
        /\ m.at = "decide" /\ m.dmarc = "fail" /\ m.policy = "reject"
    BY <1>2 DEF Auth!AfterDkim, TaskFields
  <2>2. Refusal(m) /\ Auth!Refuses(m)
    BY <1>2, <2>1 DEF Refusal, Single, Auth!Refuses
  <2>3. QED
    BY <2>1, <2>2 DEF TaskSound
<1>3. CASE ~(Auth!Cardinality(t.m.from) > 1)
  <2>1. /\ DOMAIN m = TaskFields /\ m.used = t.used /\ m.since = t.since /\ m.m = t.m /\ m.answer = t.answer
        /\ m.at \in {"decide", "dmarc"} /\ m.dmarc = t.dmarc
    BY <1>3 DEF Auth!AfterDkim, TaskFields
  <2>2. Dmarcs(m) = {} /\ Single(m) /\ ~Auth!Refuses(m)
    BY <1>3, <2>1 DEF Dmarcs, Single, Auth!Refuses
  <2>3. Accepted(m)
    BY <2>2 DEF Accepted
  <2>4. QED
    BY <2>1, <2>2, <2>3 DEF TaskSound
<1>4. QED
  BY <1>2, <1>3

LEMMA CheckingDkim ==
    ASSUME AuthInv, Auth!AuthConstants, NEW s \in Sinks, Auth!CheckDkim(s) PROVE AuthInv'
<1> DEFINE t == task[s]
<1>1. t.at = "dkim" /\ UNCHANGED <<dns, published, now, pins>>
  BY DEF Auth!CheckDkim
<1>2. WorldOK /\ DnsCacheOK /\ TaskSound(t) /\ RecentUse(t)
  BY <1>1 DEF AuthInv, Auth!Idle
<1>3. /\ DOMAIN t = TaskFields /\ t.used = [n \in Auth!Names |-> t.used[n]] /\ t.since \in Int /\ t.since <= now
      /\ t.dmarc = "none" /\ t.answer = 0 /\ Dmarcs(t) = {} /\ t.m \in Auth!Messages
  BY <1>1, <1>2 DEF TaskSound, RecentUse
<1>4. CASE task' = [task EXCEPT ![s] = Auth!AfterDkim(t)] /\ UNCHANGED <<entries, raw>>
  <2>1. PICK m : m = Auth!AfterDkim(t)
    OBVIOUS
  <2>2. TaskSound(m) /\ m.since = t.since /\ m.used = t.used
    BY <1>3, <2>1, AfterDkimSound
  <2>3. RecentUse(m)
    BY <1>2, <2>2 DEF RecentUse, Auth!Recent
  <2>4. DnsCacheOK'
    BY <1>1, <1>2, <1>4 DEF DnsCacheOK, EntryOK, Sourced, Auth!Never, Auth!Names
  <2>5. QED
    BY <1>1, <1>4, <2>1, <2>2, <2>3, <2>4, TaskStep
<1>5. ASSUME NEW rec \in Auth!Records("key.x"), Auth!Look("key.x", rec),
             task' = [task EXCEPT ![s] = Auth!AfterDkim(Auth!Used([t EXCEPT !.dkim =
                         IF rec = Auth!Absent THEN "permerror" ELSE "pass"], "key.x", rec))]
      PROVE  AuthInv'
  <2>1. "key.x" \in Auth!Names
    BY DEF Auth!Names
  <2>2. DnsCacheOK' /\ Auth!Recent(t, "key.x", rec)
    BY <1>1, <1>2, <1>3, <1>5, <2>1, LookingUpName
  <2>3. PICK t1 : t1 = [t EXCEPT !.dkim = IF rec = Auth!Absent THEN "permerror" ELSE "pass"]
    OBVIOUS
  <2>4. /\ DOMAIN t1 = TaskFields /\ t1.used = t.used /\ t1.since = t.since /\ t1.dmarc = t.dmarc /\ t1.answer = t.answer
        /\ t1.m = t.m
    BY <1>3, <2>3 DEF TaskFields
  <2>5. PICK t2 : t2 = Auth!Used(t1, "key.x", rec)
    OBVIOUS
  <2>6. /\ DOMAIN t2 = TaskFields /\ t2.used = [k \in Auth!Names |-> t2.used[k]]
        /\ t2.m = t.m /\ t2.since = t.since /\ t2.dmarc = t.dmarc /\ t2.answer = t.answer
        /\ t2.used["key.x"] = t.used["key.x"] \cup {rec} /\ \A k \in Auth!Names : k # "key.x" => t2.used[k] = t.used[k]
    BY <1>3, <2>1, <2>4, <2>5, Using
  <2>7. Dmarcs(t2) = {}
    BY <1>3, <2>6 DEF Dmarcs, Auth!Names
  <2>8. PICK m : m = Auth!AfterDkim(t2)
    OBVIOUS
  <2>9. TaskSound(m) /\ m.since = t2.since /\ m.used = t2.used
    BY <1>3, <2>6, <2>7, <2>8, AfterDkimSound
  <2>10. RecentUse(m)
    BY <1>2, <2>1, <2>2, <2>6, <2>9, UsesRecent
  <2>11. task' = [task EXCEPT ![s] = m]
    BY <1>5, <2>3, <2>5, <2>8
  <2>12. QED
    BY <1>1, <2>2, <2>9, <2>10, <2>11, TaskStep
<1>6. QED
  BY <1>4, <1>5 DEF Auth!CheckDkim

\* What verify_dmarc makes of the task before the record is noted.
DmarcSeen(t, name, rec) ==
    IF rec # Auth!Absent THEN Auth!Judged(t, rec)
    ELSE IF name = "dmarc.a.x" THEN [t EXCEPT !.at = "above"] ELSE [t EXCEPT !.at = "decide"]

LEMMA CheckingDmarc ==
    ASSUME AuthInv, Auth!AuthConstants, NEW s \in Sinks, Auth!CheckDmarc(s) PROVE AuthInv'
<1> DEFINE t == task[s]
<1>1. t.at \in {"dmarc", "above"} /\ UNCHANGED <<dns, published, now, pins>>
  BY DEF Auth!CheckDmarc
<1>2. WorldOK /\ DnsCacheOK /\ TaskSound(t) /\ RecentUse(t)
  BY <1>1 DEF AuthInv, Auth!Idle
<1>3. /\ DOMAIN t = TaskFields /\ t.used = [n \in Auth!Names |-> t.used[n]] /\ t.since \in Int /\ t.since <= now
      /\ t.dmarc = "none" /\ t.answer = 0 /\ Dmarcs(t) \subseteq {Auth!Absent} /\ t.m \in Auth!Messages /\ Single(t)
  BY <1>1, <1>2 DEF TaskSound, RecentUse
<1>4. PICK name \in {"dmarc.x", "dmarc.a.x"} : \E rec \in Auth!Records(name) :
            Auth!Look(name, rec) /\ task' = [task EXCEPT ![s] = Auth!Used(DmarcSeen(t, name, rec), name, rec)]
  BY DEF Auth!CheckDmarc, DmarcSeen
<1>5. PICK rec \in Auth!Records(name) :
            Auth!Look(name, rec) /\ task' = [task EXCEPT ![s] = Auth!Used(DmarcSeen(t, name, rec), name, rec)]
  BY <1>4
<1>6. name \in Auth!Names
  BY DEF Auth!Names
<1>7. DnsCacheOK' /\ Auth!Recent(t, name, rec)
  BY <1>1, <1>2, <1>3, <1>5, <1>6, LookingUpName
<1>8. PICK t1 : t1 = DmarcSeen(t, name, rec)
  OBVIOUS
<1>9. /\ DOMAIN t1 = TaskFields /\ t1.used = t.used /\ t1.since = t.since /\ t1.answer = t.answer /\ t1.m = t.m
      /\ t1.spf = t.spf /\ t1.dkim = t.dkim
      /\ rec # Auth!Absent => t1.at = "pct" /\ t1.policy = rec.p /\ t1.dmarc = IF Auth!Aligned(t) THEN "pass" ELSE "fail"
      /\ rec = Auth!Absent => t1.at \in {"above", "decide"} /\ t1.dmarc = t.dmarc
  BY <1>3, <1>8 DEF TaskFields, DmarcSeen, Auth!Judged
<1>10. PICK m : m = Auth!Used(t1, name, rec)
  OBVIOUS
<1>11. /\ DOMAIN m = TaskFields /\ DOMAIN m.used = Auth!Names /\ m.used = [k \in Auth!Names |-> m.used[k]]
       /\ m.at = t1.at /\ m.m = t.m /\ m.since = t.since /\ m.spf = t.spf /\ m.dkim = t.dkim /\ m.dmarc = t1.dmarc
       /\ m.policy = t1.policy /\ m.answer = t.answer
       /\ m.used[name] = t.used[name] \cup {rec} /\ \A k \in Auth!Names : k # name => m.used[k] = t.used[k]
  BY <1>3, <1>6, <1>9, <1>10, Using
<1>12. Dmarcs(m) = Dmarcs(t) \cup {rec}
  BY <1>11 DEF Dmarcs, Auth!Names
<1>13. Single(m) /\ (Auth!Aligned(m) <=> Auth!Aligned(t))
  BY <1>3, <1>11 DEF Single, Auth!Aligned
<1>14. TaskSound(m)
  <2>1. CASE rec # Auth!Absent
    <3>1. m.at = "pct" /\ m.policy = rec.p /\ m.dmarc = IF Auth!Aligned(m) THEN "pass" ELSE "fail"
      BY <1>9, <1>11, <1>13, <2>1
    <3>2. DmarcJudged(m)
      BY <1>3, <1>12, <1>13, <2>1, <3>1 DEF DmarcJudged
    <3>3. QED
      BY <1>3, <1>11, <3>1, <3>2 DEF TaskSound
  <2>2. CASE rec = Auth!Absent
    <3>1. Dmarcs(m) \subseteq {Auth!Absent} /\ m.dmarc = "none" /\ m.at \in {"above", "decide"}
      BY <1>3, <1>9, <1>11, <1>12, <2>2
    <3>2. Accepted(m) /\ ~Auth!Refuses(m)
      BY <1>13, <3>1 DEF Accepted, Auth!Refuses
    <3>3. QED
      BY <1>3, <1>11, <1>13, <3>1, <3>2 DEF TaskSound
  <2>3. QED
    BY <2>1, <2>2
<1>15. RecentUse(m)
  BY <1>2, <1>6, <1>7, <1>11, UsesRecent
<1>16. task' = [task EXCEPT ![s] = m]
  BY <1>5, <1>8, <1>10
<1>17. QED
  BY <1>1, <1>7, <1>14, <1>15, <1>16, TaskStep

\* The sample of an injected record's pct.
LEMMA PctKnown ==
    ASSUME DnsCacheOK, NEW t, NEW r \in Auth!RawDmarcRecord(t)
    PROVE  r.pct \in Int
<1> DEFINE walk == IF t.m.from = {"a.x"} THEN <<"dmarc.a.x", "dmarc.x">> ELSE <<"dmarc.x">>
           holds == {i \in DOMAIN walk : walk[i] \in DOMAIN raw \cap DOMAIN entries}
           i == CHOOSE i \in holds : \A j \in holds : i <= j
<1>1. holds # {} /\ r = raw[walk[i]]
  BY DEF Auth!RawDmarcRecord
<1>2. DOMAIN walk = {1} \/ DOMAIN walk = {1, 2}
  BY DEF walk
<1>3. \E k \in holds : \A j \in holds : k <= j
  <2> HIDE DEF walk
  <2>1. holds \subseteq {1, 2}
    BY <1>2
  <2>2. CASE 1 \in holds
    BY <2>1, <2>2
  <2>3. CASE 1 \notin holds
    BY <1>1, <2>1, <2>3
  <2>4. QED
    BY <2>2, <2>3
<1>4. i \in holds
  <2> HIDE DEF holds
  <2>1. QED
    BY <1>3
<1> HIDE DEF walk, i
<1>5. QED
  BY <1>1, <1>4 DEF DnsCacheOK

\* The policy and the sample a failure ends with.
Sampled(t, pct, drawn) ==
    [[[t EXCEPT !.at = "decide"] EXCEPT !.pct = pct] EXCEPT !.policy = Auth!EffectivePolicy(t.policy, pct, drawn)]

LEMMA ApplyingPct ==
    ASSUME AuthInv, Auth!AuthConstants, NEW s \in Sinks, Auth!ApplyPct(s) PROVE AuthInv'
<1> DEFINE t == task[s]
           texts == IF t.dmarc = "fail" /\ t.policy # "none" THEN Auth!RawDmarcRecord(t) ELSE {}
           pct == IF texts = {} THEN 100 ELSE (CHOOSE r \in texts : TRUE).pct
<1>1. t.at = "pct" /\ UNCHANGED <<dns, published, now, pins, entries, raw>>
  BY DEF Auth!ApplyPct
<1>2. WorldOK /\ DnsCacheOK /\ TaskSound(t) /\ RecentUse(t) /\ DOMAIN task = Sinks
  BY <1>1 DEF AuthInv, Auth!Idle
<1>3. DOMAIN t = TaskFields /\ DmarcJudged(t)
  BY <1>1, <1>2 DEF TaskSound
<1>4. PICK drawn \in {0, 99} :
        task' = [task EXCEPT ![s].at = "decide", ![s].pct = pct, ![s].policy = Auth!EffectivePolicy(t.policy, pct, drawn)]
  BY DEF Auth!ApplyPct
<1>5. pct \in Int /\ (t.policy = "none" => pct = 100)
  <2>1. CASE texts = {}
    BY <2>1
  <2>2. CASE texts # {}
    <3>1. texts = Auth!RawDmarcRecord(t) /\ t.policy # "none"
      BY <2>2
    <3> HIDE DEF texts
    <3>2. (CHOOSE r \in texts : TRUE) \in texts
      BY <2>2
    <3>3. QED
      BY <1>2, <2>2, <3>1, <3>2, PctKnown
  <2>3. QED
    BY <2>1, <2>2
<1> HIDE DEF texts, pct
<1>6. task' = [task EXCEPT ![s] = Sampled(t, pct, drawn)]
  BY <1>2, <1>3, <1>4 DEF Sampled, TaskFields
<1>7. PICK m : m = Sampled(t, pct, drawn)
  OBVIOUS
<1>8. /\ DOMAIN m = TaskFields /\ m.at = "decide" /\ m.pct = pct /\ m.policy = Auth!EffectivePolicy(t.policy, pct, drawn)
      /\ m.used = t.used /\ m.m = t.m /\ m.since = t.since /\ m.spf = t.spf /\ m.dkim = t.dkim /\ m.dmarc = t.dmarc
      /\ m.answer = t.answer
  BY <1>3, <1>7 DEF Sampled, TaskFields
<1>9. Dmarcs(m) = Dmarcs(t) /\ (Single(m) <=> Single(t)) /\ (Auth!Aligned(m) <=> Auth!Aligned(t))
  BY <1>8 DEF Dmarcs, Single, Auth!Aligned
<1>10. m.policy = t.policy \/ (m.policy # "reject" /\ m.pct < 100)
  <2>1. CASE drawn >= pct
    <3>1. m.policy = Auth!WeakenOneStep(t.policy) /\ m.pct < 100
      BY <1>5, <1>8, <2>1 DEF Auth!EffectivePolicy
    <3>2. QED
      BY <3>1 DEF Auth!WeakenOneStep
  <2>2. CASE ~(drawn >= pct)
    BY <1>8, <2>2 DEF Auth!EffectivePolicy
  <2>3. QED
    BY <2>1, <2>2
<1>11. CASE Auth!Refuses(m)
  <2>1. Refusal(m)
    BY <1>3, <1>8, <1>9, <1>10, <1>11 DEF Refusal, DmarcJudged, Auth!Refuses
  <2>2. TaskSound(m)
    BY <1>1, <1>2, <1>8, <1>11, <2>1 DEF TaskSound
  <2>3. RecentUse(m)
    BY <1>2, <1>8 DEF RecentUse, Auth!Recent
  <2>4. DnsCacheOK'
    BY <1>1, <1>2 DEF DnsCacheOK, EntryOK, Sourced, Auth!Never, Auth!Names
  <2>5. QED
    BY <1>1, <1>6, <1>7, <2>2, <2>3, <2>4, TaskStep
<1>12. CASE ~Auth!Refuses(m)
  <2>1. Accepted(m)
    BY <1>3, <1>8, <1>9, <1>10, <1>12 DEF Accepted, DmarcJudged, Auth!Refuses
  <2>2. TaskSound(m)
    BY <1>1, <1>2, <1>8, <1>12, <2>1 DEF TaskSound
  <2>3. RecentUse(m)
    BY <1>2, <1>8 DEF RecentUse, Auth!Recent
  <2>4. DnsCacheOK'
    BY <1>1, <1>2 DEF DnsCacheOK, EntryOK, Sourced, Auth!Never, Auth!Names
  <2>5. QED
    BY <1>1, <1>6, <1>7, <2>2, <2>3, <2>4, TaskStep
<1>13. QED
  BY <1>11, <1>12

\* A verdict that only moves the task on.
Moved(t, stage, code, mark) == [[[t EXCEPT !.at = stage] EXCEPT !.answer = code] EXCEPT !.marked = mark]
Moves(s, stage, code, mark) == task' = [task EXCEPT ![s] = Moved(task[s], stage, code, mark)]

LEMMA MovingOn ==
    ASSUME AuthInv, Auth!AuthConstants, UNCHANGED <<dns, published, now, pins, entries, raw>>, NEW s \in Sinks,
           task[s] # Auth!Idle, NEW stage \in {"queue", "done"}, NEW code, NEW mark,
           Moves(s, stage, code, mark),
           stage # "done" => code = 0,
           stage = "queue" => Accepted(task[s]),
           code = 550 => Refusal(task[s]),
           code = 250 => task[s].m.submission \/ Accepted(task[s])
    PROVE  AuthInv'
<1> DEFINE t == task[s]
<1>1. WorldOK /\ DnsCacheOK /\ TaskSound(t) /\ RecentUse(t)
  BY DEF AuthInv
<1>2. PICK m : m = Moved(t, stage, code, mark)
  OBVIOUS
<1>3. /\ DOMAIN m = TaskFields /\ m.at = stage /\ m.answer = code
      /\ m.used = t.used /\ m.m = t.m /\ m.since = t.since /\ m.spf = t.spf /\ m.dkim = t.dkim /\ m.dmarc = t.dmarc
      /\ m.pct = t.pct /\ m.policy = t.policy
  BY <1>1, <1>2 DEF Moved, TaskSound, TaskFields
<1>4. Dmarcs(m) = Dmarcs(t) /\ (Single(m) <=> Single(t)) /\ (Auth!Aligned(m) <=> Auth!Aligned(t))
  BY <1>3 DEF Dmarcs, Single, Auth!Aligned
<1>5. (Refusal(m) <=> Refusal(t)) /\ (Accepted(m) <=> Accepted(t))
  BY <1>3, <1>4 DEF Refusal, Accepted
<1>6. TaskSound(m)
  BY <1>1, <1>3, <1>5 DEF TaskSound
<1>7. RecentUse(m)
  BY <1>1, <1>3 DEF RecentUse, Auth!Recent
<1>8. DnsCacheOK'
  BY <1>1 DEF DnsCacheOK, EntryOK, Sourced, Auth!Never, Auth!Names
<1>9. task' = [task EXCEPT ![s] = m]
  BY <1>2 DEF Moves
<1>10. QED
  BY <1>6, <1>7, <1>8, <1>9, TaskStep

LEMMA AnsweringMessage ==
    ASSUME NEW s, NEW code, Auth!Answer(s, code), task[s] # Auth!Idle, TaskSound(task[s]), DOMAIN task = Sinks, s \in Sinks
    PROVE  Moves(s, "done", code, task[s].marked)
<1>1. DOMAIN task[s] = TaskFields
  BY DEF TaskSound
<1>2. task' = [task EXCEPT ![s] = [[task[s] EXCEPT !.at = "done"] EXCEPT !.answer = code]]
  BY <1>1 DEF Auth!Answer, TaskFields
<1>3. [[task[s] EXCEPT !.at = "done"] EXCEPT !.answer = code] = Moved(task[s], "done", code, task[s].marked)
  BY <1>1 DEF Moved, TaskFields
<1>4. QED
  BY <1>2, <1>3 DEF Moves

LEMMA DecidingMessage ==
    ASSUME AuthInv, Auth!AuthConstants, NEW s \in Sinks, Auth!Decide(s) PROVE AuthInv'
<1> DEFINE t == task[s]
<1>1. t.at = "decide" /\ UNCHANGED <<dns, published, now, pins, entries, raw>>
  BY DEF Auth!Decide
<1>2. t # Auth!Idle /\ TaskSound(t) /\ DOMAIN t = TaskFields /\ t.answer = 0 /\ DOMAIN task = Sinks
  BY <1>1 DEF AuthInv, Auth!Idle, TaskSound
<1>3. CASE Auth!Refuses(t) /\ Auth!Answer(s, 550)
  <2>1. Moves(s, "done", 550, t.marked)
    BY <1>2, <1>3, AnsweringMessage
  <2>2. Refusal(t)
    BY <1>1, <1>2, <1>3 DEF TaskSound
  <2>3. QED
    BY <1>1, <1>2, <2>1, <2>2, MovingOn
<1>4. CASE ~Auth!Refuses(t) /\ task' = [task EXCEPT ![s].at = "queue", ![s].marked = TRUE]
  <2>1. PICK mark : mark = TRUE
    OBVIOUS
  <2>2. Moves(s, "queue", 0, mark)
    BY <1>2, <1>4, <2>1 DEF Moves, Moved, TaskFields
  <2>3. Accepted(t)
    BY <1>1, <1>2, <1>4 DEF TaskSound
  <2>4. QED
    BY <1>1, <1>2, <2>2, <2>3, MovingOn
<1>5. QED
  BY <1>3, <1>4 DEF Auth!Decide

LEMMA QueueingMessage ==
    ASSUME AuthInv, Auth!AuthConstants, NEW s \in Sinks, Auth!Enqueue(s) PROVE AuthInv'
<1> DEFINE t == task[s]
<1>1. t.at = "queue" /\ UNCHANGED <<dns, published, now, pins, entries, raw>>
  BY DEF Auth!Enqueue
<1>2. t # Auth!Idle /\ TaskSound(t) /\ (t.m.submission \/ Accepted(t)) /\ DOMAIN task = Sinks
  BY <1>1 DEF AuthInv, Auth!Idle, TaskSound
<1>3. CASE Auth!Answer(s, 250)
  <2>1. Moves(s, "done", 250, t.marked)
    BY <1>2, <1>3, AnsweringMessage
  <2>2. QED
    BY <1>1, <1>2, <2>1, MovingOn
<1>4. CASE Auth!Answer(s, 451)
  <2>1. Moves(s, "done", 451, t.marked)
    BY <1>2, <1>4, AnsweringMessage
  <2>2. QED
    BY <1>1, <1>2, <2>1, MovingOn
<1>5. CASE Auth!Answer(s, 554)
  <2>1. Moves(s, "done", 554, t.marked)
    BY <1>2, <1>5, AnsweringMessage
  <2>2. QED
    BY <1>1, <1>2, <2>1, MovingOn
<1>6. QED
  BY <1>3, <1>4, <1>5 DEF Auth!Enqueue

\* A step of the world leaves the tasks alone.
LEMMA WorldStep ==
    ASSUME AuthInv, Auth!AuthConstants, Later, WorldOK', DnsCacheOK', UNCHANGED task PROVE AuthInv'
<1>1. ASSUME NEW s \in Sinks PROVE task'[s] = Auth!Idle \/ (TaskSound(task'[s]) /\ RecentUse(task[s])')
  <2>1. CASE task[s] = Auth!Idle
    BY <2>1
  <2>2. CASE TaskSound(task[s]) /\ RecentUse(task[s])
    <3>1. PICK t : t = task[s]
      OBVIOUS
    <3>2. RecentUse(t)'
      BY <2>2, <3>1, StaysRecent DEF AuthInv, TaskSound
    <3>3. RecentUse(task[s])'
      BY <3>1, <3>2 DEF RecentUse, Auth!Recent
    <3>4. QED
      BY <2>2, <3>3
  <2>3. QED
    BY <2>1, <2>2 DEF AuthInv
<1>2. QED
  BY <1>1 DEF AuthInv, TaskSound, Auth!Idle, Dmarcs, Auth!Names

LEMMA LookingElsewhere ==
    ASSUME AuthInv, Auth!AuthConstants, Auth!LookElsewhere PROVE AuthInv'
<1>1. UNCHANGED <<dns, published, now, pins, task>>
  BY DEF Auth!LookElsewhere
<1>2. PICK n \in Auth!Names : \E rec \in Auth!Records(n) : Auth!Look(n, rec)
  BY DEF Auth!LookElsewhere
<1>3. PICK rec \in Auth!Records(n) : Auth!Look(n, rec)
  BY <1>2
<1>4. DnsCacheOK'
  BY <1>1, <1>3, LookingUpName DEF AuthInv
<1>5. WorldOK' /\ Later
  BY <1>1 DEF AuthInv, WorldOK, Later, Auth!Names
<1>6. QED
  BY <1>1, <1>4, <1>5, WorldStep

LEMMA NeverIsTime ==
    ASSUME Auth!AuthConstants PROVE Auth!Never \in Nat
BY DEF Auth!AuthConstants, Auth!Never

LEMMA InjectingRecord ==
    ASSUME AuthInv, Auth!AuthConstants, Auth!Store PROVE AuthInv'
<1>1. UNCHANGED <<dns, published, now, task>>
  BY DEF Auth!Store
<1>2. PICK name \in Auth!Names : \E rec \in Auth!Records(name) \ {Auth!Absent} :
         /\ pins' = pins \cup {<<name, rec>>}
         /\ \E left \in Auth!Survivors(DOMAIN entries, name) :
            /\ entries' = Auth!With([k \in left |-> entries[k]], name, [rec |-> rec, until |-> Auth!Never])
            /\ raw' = LET rest == [k \in (DOMAIN raw \cap left) \ {name} |-> raw[k]]
                      IN  IF rec.kind = "dmarc" THEN Auth!With(rest, name, rec) ELSE rest
  BY DEF Auth!Store
<1>3. PICK rec \in Auth!Records(name) \ {Auth!Absent} :
         /\ pins' = pins \cup {<<name, rec>>}
         /\ \E left \in Auth!Survivors(DOMAIN entries, name) :
            /\ entries' = Auth!With([k \in left |-> entries[k]], name, [rec |-> rec, until |-> Auth!Never])
            /\ raw' = LET rest == [k \in (DOMAIN raw \cap left) \ {name} |-> raw[k]]
                      IN  IF rec.kind = "dmarc" THEN Auth!With(rest, name, rec) ELSE rest
  BY <1>2
<1>4. PICK left \in Auth!Survivors(DOMAIN entries, name) :
            /\ entries' = Auth!With([k \in left |-> entries[k]], name, [rec |-> rec, until |-> Auth!Never])
            /\ raw' = LET rest == [k \in (DOMAIN raw \cap left) \ {name} |-> raw[k]]
                      IN  IF rec.kind = "dmarc" THEN Auth!With(rest, name, rec) ELSE rest
  BY <1>3
<1>5. PICK e : e = [rec |-> rec, until |-> Auth!Never]
  OBVIOUS
<1>6. WorldOK' /\ Later /\ WorldOK /\ DnsCacheOK
  BY <1>1, <1>3 DEF AuthInv, WorldOK, Later, Auth!Names
<1>7. EntryOK(name, e)'
  BY <1>3, <1>5, NeverIsTime DEF EntryOK, Sourced, Auth!Never
<1>8. ASSUME NEW k \in DOMAIN raw'
      PROVE  /\ raw'[k].pct \in Int
             /\ IF k = name THEN e.rec = raw'[k] /\ e.until = Auth!Never
                ELSE k \in DOMAIN raw /\ k \in left /\ raw'[k] = raw[k]
  <2> DEFINE rest == [j \in (DOMAIN raw \cap left) \ {name} |-> raw[j]]
  <2>1. \A j \in DOMAIN rest : j \in DOMAIN raw /\ j \in left /\ j # name /\ rest[j] = raw[j] /\ raw[j].pct \in Int
    BY <1>6 DEF DnsCacheOK
  <2>2. raw' = IF rec.kind = "dmarc" THEN Auth!With(rest, name, rec) ELSE rest
    BY <1>4
  <2> HIDE DEF rest
  <2>3. CASE rec.kind = "dmarc"
    <3>1. DOMAIN raw' = DOMAIN rest \cup {name} /\ raw'[name] = rec /\ \A j \in DOMAIN rest : j # name => raw'[j] = rest[j]
      BY <2>2, <2>3 DEF Auth!With
    <3>2. rec.pct \in Int
      BY <2>3, RecordShapes
    <3>3. QED
      BY <1>5, <2>1, <3>1, <3>2
  <2>4. CASE rec.kind # "dmarc"
    BY <2>1, <2>2, <2>4
  <2>5. QED
    BY <2>3, <2>4
<1>9. DnsCacheOK'
  BY <1>4, <1>5, <1>6, <1>7, <1>8, Placing
<1>10. QED
  BY <1>1, <1>6, <1>9, WorldStep

LEMMA PinningWalk ==
    ASSUME AuthInv, Auth!AuthConstants, Auth!PinDmarcWalk PROVE AuthInv'
<1>1. UNCHANGED <<dns, published, now, task>> /\ pins' = pins \cup {<<"dmarc.x", Auth!Absent>>}
  BY DEF Auth!PinDmarcWalk
<1>2. WorldOK' /\ Later /\ WorldOK /\ DnsCacheOK /\ "dmarc.x" \in Auth!Names
  BY <1>1 DEF AuthInv, WorldOK, Later, Auth!Names
<1>3. CASE UNCHANGED <<entries, raw>>
  <2>1. \A n \in DOMAIN entries : EntryOK(n, entries[n])'
    BY <1>1, <1>2, <1>3 DEF DnsCacheOK, EntryOK, Sourced, Auth!Never
  <2>2. DnsCacheOK'
    BY <1>2, <1>3, <2>1 DEF DnsCacheOK, Auth!Never, Auth!Names
  <2>3. QED
    BY <1>1, <1>2, <2>2, WorldStep
<1>4. CASE /\ "dmarc.x" \notin DOMAIN entries
           /\ \E left \in Auth!Survivors(DOMAIN entries, "dmarc.x") :
                 /\ entries' = Auth!With([k \in left |-> entries[k]], "dmarc.x", [rec |-> Auth!Absent, until |-> Auth!Never])
                 /\ raw' = [k \in DOMAIN raw \cap left |-> raw[k]]
  <2>1. PICK left \in Auth!Survivors(DOMAIN entries, "dmarc.x") :
                 /\ entries' = Auth!With([k \in left |-> entries[k]], "dmarc.x", [rec |-> Auth!Absent, until |-> Auth!Never])
                 /\ raw' = [k \in DOMAIN raw \cap left |-> raw[k]]
    BY <1>4
  <2>2. PICK e : e = [rec |-> Auth!Absent, until |-> Auth!Never]
    OBVIOUS
  <2>3. EntryOK("dmarc.x", e)'
    BY <1>1, <2>2, NeverIsTime DEF EntryOK, Sourced, Auth!Never, Auth!Absent
  <2>4. \A k \in DOMAIN raw' : raw'[k].pct \in Int
                /\ (IF k = "dmarc.x" THEN e.rec = raw'[k] /\ e.until = Auth!Never
                    ELSE k \in DOMAIN raw /\ k \in left /\ raw'[k] = raw[k])
    BY <1>2, <1>4, <2>1 DEF DnsCacheOK
  <2>5. DnsCacheOK'
    BY <1>2, <2>1, <2>2, <2>3, <2>4, Placing
  <2>6. QED
    BY <1>1, <1>2, <2>5, WorldStep
<1>5. QED
  BY <1>3, <1>4 DEF Auth!PinDmarcWalk

LEMMA ClockTicks ==
    ASSUME AuthInv, Auth!AuthConstants, Auth!Tick PROVE AuthInv'
<1>1. /\ now < MaxAuthClock /\ now' = now + 1 /\ UNCHANGED <<dns, entries, raw, task, pins>>
      /\ published' = [n \in Auth!Names |-> [published[n] EXCEPT ![now + 1] = {dns[n]}]]
  BY DEF Auth!Tick
<1>2. WorldOK /\ DnsCacheOK /\ now \in Nat /\ now' \in ClockTimes
  BY <1>1 DEF AuthInv, WorldOK, ClockTimes, Auth!AuthConstants
<1>3. ASSUME NEW n \in Auth!Names
      PROVE  /\ published'[n] \in [ClockTimes -> SUBSET Auth!Records(n)] /\ dns[n] \in published'[n][now']
             /\ \A u \in 0 .. now : published[n][u] \subseteq published'[n][u]
  <2>1. published'[n] = [published[n] EXCEPT ![now + 1] = {dns[n]}] /\ published[n] \in [ClockTimes -> SUBSET Auth!Records(n)]
        /\ dns[n] \in Auth!Records(n)
    BY <1>1, <1>2 DEF WorldOK
  <2>2. \A u \in 0 .. now : u # now + 1 /\ u \in ClockTimes
    BY <1>2 DEF ClockTimes, WorldOK, Auth!AuthConstants
  <2>3. QED
    BY <1>1, <1>2, <2>1, <2>2
<1>4. WorldOK'
  BY <1>1, <1>2, <1>3 DEF WorldOK, Auth!Names, ClockTimes
<1>5. Later
  BY <1>1, <1>3 DEF Later
<1>6. DnsCacheOK'
  <2>1. \A n \in DOMAIN entries : EntryOK(n, entries[n])'
    BY <1>1, <1>2, <1>5, StaysSourced DEF DnsCacheOK, EntryOK
  <2>2. QED
    BY <1>1, <1>2, <2>1 DEF DnsCacheOK, Auth!Never, Auth!Names
<1>7. QED
  BY <1>1, <1>4, <1>5, <1>6, WorldStep

LEMMA PublishingRecordText ==
    ASSUME AuthInv, Auth!AuthConstants, Auth!Publish PROVE AuthInv'
<1>1. UNCHANGED <<now, entries, raw, task, pins>>
  BY DEF Auth!Publish
<1>2. PICK n \in Auth!Names : \E rec \in Auth!Records(n) \ {dns[n]} :
         dns' = [dns EXCEPT ![n] = rec] /\ published' = [published EXCEPT ![n][now] = @ \cup {rec}]
  BY DEF Auth!Publish
<1>3. PICK rec \in Auth!Records(n) :
         dns' = [dns EXCEPT ![n] = rec] /\ published' = [published EXCEPT ![n][now] = @ \cup {rec}]
  BY <1>2
<1>4. WorldOK /\ DnsCacheOK /\ now \in Nat /\ now \in ClockTimes
  BY DEF AuthInv, WorldOK, ClockTimes, Auth!AuthConstants
<1>5. published' = [published EXCEPT ![n] = [published[n] EXCEPT ![now] = published[n][now] \cup {rec}]]
  BY <1>3, <1>4 DEF WorldOK
<1>6. ASSUME NEW k \in Auth!Names
      PROVE  /\ dns'[k] \in Auth!Records(k)
             /\ published'[k] \in [ClockTimes -> SUBSET Auth!Records(k)] /\ dns'[k] \in published'[k][now]
             /\ \A u \in 0 .. now : published[k][u] \subseteq published'[k][u]
  <2>1. published[k] \in [ClockTimes -> SUBSET Auth!Records(k)] /\ \A u \in 0 .. now : u \in ClockTimes
    BY <1>4 DEF WorldOK, ClockTimes, Auth!AuthConstants
  <2>2. CASE k = n
    <3>1. dns'[k] = rec /\ published'[k] = [published[k] EXCEPT ![now] = published[k][now] \cup {rec}]
      BY <1>3, <1>4, <1>5, <2>2 DEF WorldOK
    <3>2. QED
      BY <1>4, <2>1, <2>2, <3>1
  <2>3. CASE k # n
    <3>1. dns'[k] = dns[k] /\ published'[k] = published[k]
      BY <1>3, <1>4, <1>5, <2>3 DEF WorldOK
    <3>2. QED
      BY <1>4, <2>1, <3>1 DEF WorldOK
  <2>4. QED
    BY <2>2, <2>3
<1>7. DOMAIN dns' = Auth!Names /\ DOMAIN published' = Auth!Names
  BY <1>3, <1>4, <1>5 DEF WorldOK
<1>8. WorldOK' /\ Later
  BY <1>1, <1>4, <1>6, <1>7 DEF WorldOK, Later, Auth!Names, ClockTimes
<1>9. DnsCacheOK'
  <2>1. \A k \in DOMAIN entries : EntryOK(k, entries[k])'
    BY <1>1, <1>4, <1>8, StaysSourced DEF DnsCacheOK, EntryOK
  <2>2. QED
    BY <1>1, <1>4, <2>1 DEF DnsCacheOK, Auth!Never, Auth!Names
<1>10. QED
  BY <1>1, <1>8, <1>9, WorldStep

LEMMA AuthInits ==
    ASSUME Auth!AuthConstants, Auth!AuthInit PROVE AuthInv
<1>1. \A n \in Auth!Names : dns[n] \in Auth!Records(n)
  BY DEF Auth!AuthInit, Auth!Names, Auth!Records, Auth!Policy, Auth!Absent
<1>2. now = 0 /\ now \in ClockTimes /\ DOMAIN dns = Auth!Names
  BY DEF Auth!AuthInit, ClockTimes, Auth!AuthConstants
<1>3. WorldOK
  BY <1>1, <1>2 DEF Auth!AuthInit, WorldOK, ClockTimes
<1>4. DOMAIN entries = {} /\ DOMAIN raw = {}
  BY DEF Auth!AuthInit, Auth!Empty
<1>5. DnsCacheOK
  BY <1>4, FS_EmptySet DEF DnsCacheOK, Auth!AuthConstants
<1>6. QED
  BY <1>3, <1>5 DEF Auth!AuthInit, AuthInv

\* For any cache size, lifetimes and number of messages: mail from outside is refused for
\* DMARC only on a record that was published less than MAX_TTL before it came or is
\* pinned, mail that fails a reject policy is queued only if the record's own pct let it
\* off, the text kept of an injected record is that of the cached record, and the cache
\* stays within MAX_ENTRIES.
THEOREM DmarcIsHonoured ==
    ASSUME Auth!AuthConstants
    PROVE  Auth!Spec => [](Auth!DmarcHonoured /\ Auth!TextOfItsRecord)
<1>1. Auth!AuthInit => AuthInv
  BY AuthInits
<1>2. AuthInv /\ [Auth!AuthNext]_(Auth!authVars) => AuthInv'
  <2>1. SUFFICES ASSUME AuthInv, [Auth!AuthNext]_(Auth!authVars) PROVE AuthInv'
    OBVIOUS
  <2>2. CASE UNCHANGED Auth!authVars
    <3>1. UNCHANGED <<dns, published, now, entries, raw, task, pins>>
      BY <2>2 DEF Auth!authVars
    <3>2. WorldOK' /\ Later /\ DnsCacheOK'
      BY <2>1, <3>1 DEF AuthInv, WorldOK, Later, DnsCacheOK, EntryOK, Sourced, Auth!Never, Auth!Names
    <3>3. QED
      BY <2>1, <3>1, <3>2, WorldStep
  <2>3. QED
    BY <2>1, <2>2, MessageArrives, CheckingSpf, CheckingDkim, CheckingDmarc, ApplyingPct, DecidingMessage, QueueingMessage, LookingElsewhere,
       InjectingRecord, PinningWalk, ClockTicks, PublishingRecordText DEF Auth!AuthNext
<1>3. AuthInv => Auth!DmarcHonoured /\ Auth!TextOfItsRecord
  <2>1. SUFFICES ASSUME AuthInv PROVE Auth!DmarcHonoured /\ Auth!TextOfItsRecord
    OBVIOUS
  <2>2. Auth!TextOfItsRecord
    BY <2>1, AuthCardinality DEF AuthInv, DnsCacheOK, Auth!TextOfItsRecord
  <2>3. ASSUME NEW s \in Sinks, task[s] # Auth!Idle, NEW t, t = task[s]
        PROVE  LET dmarcs == UNION {t.used[n] : n \in {"dmarc.x", "dmarc.a.x"}}
               IN  /\ t.answer = 550 =>
                        \/ Auth!Cardinality(t.m.from) > 1
                        \/ ~Auth!Aligned(t) /\ \E rec \in dmarcs : rec # Auth!Absent /\ rec.p = "reject"
                   /\ t.answer = 250 /\ ~t.m.submission =>
                        \/ Auth!Aligned(t) /\ Auth!Cardinality(t.m.from) < 2
                        \/ t.pct < 100
                        \/ Auth!Cardinality(t.m.from) < 2 /\ \A rec \in dmarcs : rec # Auth!Absent => rec.p # "reject"
                   /\ \A n \in Auth!Names : \A rec \in t.used[n] : Auth!Recent(t, n, rec)
    <3> DEFINE dmarcs == UNION {t.used[n] : n \in {"dmarc.x", "dmarc.a.x"}}
    <3>1. TaskSound(t) /\ RecentUse(t)
      BY <2>1, <2>3 DEF AuthInv
    <3>2. dmarcs = Dmarcs(t)
      BY DEF Dmarcs
    <3>3. Auth!Cardinality(t.m.from) \in Nat
      BY <3>1, FromCounts DEF TaskSound
    <3>4. Single(t) <=> Auth!Cardinality(t.m.from) < 2
      BY <3>3 DEF Single
    <3> HIDE DEF dmarcs
    <3>5. t.answer = 550 =>
              \/ Auth!Cardinality(t.m.from) > 1
              \/ ~Auth!Aligned(t) /\ \E rec \in dmarcs : rec # Auth!Absent /\ rec.p = "reject"
      BY <3>1, <3>2 DEF TaskSound, Refusal, Single
    <3>6. t.answer = 250 /\ ~t.m.submission =>
              \/ Auth!Aligned(t) /\ Auth!Cardinality(t.m.from) < 2
              \/ t.pct < 100
              \/ Auth!Cardinality(t.m.from) < 2 /\ \A rec \in dmarcs : rec # Auth!Absent => rec.p # "reject"
      BY <3>1, <3>2, <3>4 DEF TaskSound, Accepted
    <3>7. \A n \in Auth!Names : \A rec \in t.used[n] : Auth!Recent(t, n, rec)
      BY <3>1 DEF RecentUse
    <3>8. QED
      BY <3>5, <3>6, <3>7 DEF dmarcs
  <2>4. QED
    BY <2>2, <2>3 DEF Auth!DmarcHonoured
<1>4. QED
  BY <1>1, <1>2, <1>3, PTL DEF Auth!Spec

-----------------------------------------------------------------------------
(***************************************************************************)
(* Webmail (Webmail), for any number of tabs, folders, letters and failing *)
(* calls. A letter nobody asked to delete is in a message that no request  *)
(* is about to expunge: a request dooms a message only after its copy is   *)
(* stored, and the copy has a UID no mark can name. A mark is followed     *)
(* through renames by the UIDVALIDITY of the folder it was taken in.       *)
(***************************************************************************)
CONSTANTS WebFolders, MaxLetters, MaxRequests, MaxWebFaults
VARIABLES folders, queue, request, shown, draft, letters, validity, requests,
    webFaults, stored, asked, mistaken, swept

Browser == INSTANCE Webmail WITH
    faults <- webFaults, Tabs <- Actors, Names <- WebFolders, MaxFaults <- MaxWebFaults

\* A folder of the tree fs, where v is the last UIDVALIDITY given.
WebFolderOK(b, v) ==
    /\ DOMAIN b = {"validity", "next", "mail"}
    /\ b.validity \in Nat \ {0} /\ b.validity <= v /\ b.next \in Nat
    /\ \A u \in DOMAIN b.mail : u \in Nat /\ u < b.next /\ DOMAIN b.mail[u] = {"letter", "flags"}

\* INBOX is always there, and no two other folders have one UIDVALIDITY.
WebTreeOK(fs, v) ==
    /\ v \in Nat
    /\ "INBOX" \in DOMAIN fs
    /\ \A f \in DOMAIN fs : WebFolderOK(fs[f], v)
    /\ \A f, g \in DOMAIN fs \ {"INBOX"} : fs[f].validity = fs[g].validity => f = g

\* A mark was taken in the folder that is called f now.
TakenUnder(k, fs, f) == k.validity = fs[f].validity /\ (k.folder = "INBOX" <=> f = "INBOX")

\* A mark names the letter its UID has, if it has one.
MarkKnown(k, fs, v) ==
    /\ k.validity \in Nat /\ k.validity <= v /\ k.uid \in Nat
    /\ \A f \in DOMAIN fs : TakenUnder(k, fs, f) =>
          k.uid < fs[f].next /\ (k.uid \in DOMAIN fs[f].mail => fs[f].mail[k.uid].letter = k.letter)

\* The fields of a request about messages, and of one that stores a letter.
MessageFields == {"op", "do", "folder", "uids", "target", "marks", "left", "seen"}
LetterFields == {"op", "folder", "letter", "flags", "old"}

\* A request: its marks are known, and what it is asked to delete is asked for.
WebRequestOK(r, fs, v, given) ==
    /\ r.op \in {"none", "open", "each", "expunge", "rmdir", "ensure", "append"}
    /\ r.op \in {"open", "each"} => DOMAIN r = MessageFields
    /\ r.op \in {"open", "each", "expunge"} => \A k \in r.marks : MarkKnown(k, fs, v) /\ k.folder = r.folder
    /\ r.op = "each" /\ r.do = "delete" => \A k \in r.marks : k.letter \in given
    /\ r.op = "rmdir" => r.folder # "INBOX"
    /\ r.op \in {"ensure", "append"} =>
          DOMAIN r = LetterFields /\ r.folder # "INBOX" /\ MarkKnown(r.old, fs, v) /\ r.old.folder = "Drafts"

\* A message that a request has copied, or has no need to copy, and will expunge.
Doomed(r, fs, f, u) ==
    /\ r.op = "expunge" \/ (r.op = "each" /\ r.do = "move" /\ u \notin r.left)
    /\ u \in r.uids
    /\ \E k \in r.marks : k.uid = u /\ TakenUnder(k, fs, f)

\* A letter is in a message that no request is about to expunge.
LetterSafe(n) ==
    \E f \in DOMAIN folders : \E u \in DOMAIN folders[f].mail :
        /\ folders[f].mail[u].letter = n
        /\ \A t \in Actors : ~Doomed(request[t], folders, f, u)

\* The pages: what they show and edit is known.
PagesOK ==
    /\ DOMAIN request = Actors /\ DOMAIN shown = Actors /\ DOMAIN draft = Actors
    /\ \A t \in Actors :
          /\ WebRequestOK(request[t], folders, validity, asked)
          /\ \A k \in shown[t] : MarkKnown(k, folders, validity)
          /\ MarkKnown(draft[t], folders, validity) /\ draft[t].folder = "Drafts"

\* The inductive invariant.
WebInv ==
    /\ WebTreeOK(folders, validity)
    /\ PagesOK
    /\ \A n \in stored : n \in asked \cup mistaken \cup swept \/ LetterSafe(n)

LEMMA WebInits == Browser!WebmailInit => WebInv
<1>. SUFFICES ASSUME Browser!WebmailInit PROVE WebInv
  OBVIOUS
<1>. USE DEF Browser!WebmailInit
<1>1. WebTreeOK(folders, validity)
  BY DEF WebTreeOK, WebFolderOK, Browser!NewFolder, Browser!NoMail
<1>2. \A f \in DOMAIN folders : folders[f].validity = 1 /\ DOMAIN folders[f].mail = {}
  BY DEF Browser!NewFolder, Browser!NoMail
<1>3. MarkKnown(Browser!NoDraft, folders, validity)
  BY <1>2 DEF MarkKnown, TakenUnder, Browser!NoDraft
<1>4. PagesOK
  BY <1>3 DEF PagesOK, WebRequestOK, Browser!NoRequest, Browser!NoDraft
<1>. QED
  BY <1>1, <1>4 DEF WebInv

\* The folder c is the folder b, later.
LaterFolder(b, c) ==
    /\ c.validity = b.validity /\ b.next <= c.next
    /\ \A u \in DOMAIN c.mail : u < b.next => u \in DOMAIN b.mail /\ c.mail[u].letter = b.mail[u].letter

\* Every folder of the next state is new, or one of the present ones.
TreeDescends ==
    /\ validity <= validity'
    /\ \A g \in DOMAIN folders' :
          \/ folders'[g].validity > validity
          \/ \E f \in DOMAIN folders : (f = "INBOX" <=> g = "INBOX") /\ LaterFolder(folders[f], folders'[g])

LEMMA MarkStays ==
    ASSUME WebTreeOK(folders, validity), WebTreeOK(folders', validity'), TreeDescends,
           NEW k, MarkKnown(k, folders, validity)
    PROVE  MarkKnown(k, folders', validity')
<1>1. k.validity \in Nat /\ k.validity <= validity' /\ k.uid \in Nat
  BY DEF MarkKnown, TreeDescends, WebTreeOK
<1>2. ASSUME NEW g \in DOMAIN folders', TakenUnder(k, folders', g)
      PROVE  k.uid < folders'[g].next
             /\ (k.uid \in DOMAIN folders'[g].mail => folders'[g].mail[k.uid].letter = k.letter)
  <2>1. ~(folders'[g].validity > validity)
    BY <1>1, <1>2 DEF TakenUnder, MarkKnown, WebTreeOK
  <2>2. PICK f \in DOMAIN folders : (f = "INBOX" <=> g = "INBOX") /\ LaterFolder(folders[f], folders'[g])
    BY <2>1 DEF TreeDescends
  <2>3. TakenUnder(k, folders, f)
    BY <1>2, <2>2 DEF TakenUnder, LaterFolder
  <2>4. folders[f].next \in Nat /\ folders'[g].next \in Nat
    BY DEF WebTreeOK, WebFolderOK
  <2>5. k.uid < folders[f].next /\ (k.uid \in DOMAIN folders[f].mail => folders[f].mail[k.uid].letter = k.letter)
    BY <2>3 DEF MarkKnown
  <2>. QED
    BY <1>1, <2>2, <2>4, <2>5 DEF LaterFolder
<1>. QED
  BY <1>1, <1>2 DEF MarkKnown

LEMMA RequestStays ==
    ASSUME WebTreeOK(folders, validity), WebTreeOK(folders', validity'), TreeDescends, asked \subseteq asked',
           NEW r, WebRequestOK(r, folders, validity, asked')
    PROVE  WebRequestOK(r, folders', validity', asked')
<1>1. \A k : MarkKnown(k, folders, validity) => MarkKnown(k, folders', validity')
  BY MarkStays
<1>. QED
  BY <1>1 DEF WebRequestOK

LEMMA MoreAsked ==
    ASSUME asked \subseteq asked', NEW r, WebRequestOK(r, folders, validity, asked)
    PROVE  WebRequestOK(r, folders, validity, asked')
BY DEF WebRequestOK

\* The common part of every step.
LEMMA PagesStep ==
    ASSUME WebInv, WebTreeOK(folders', validity'), TreeDescends, asked \subseteq asked',
           DOMAIN request' = Actors, shown' = shown, DOMAIN draft' = Actors,
           \A t \in Actors : WebRequestOK(request'[t], folders, validity, asked'),
           \A t \in Actors : draft'[t] = draft[t]
                             \/ (MarkKnown(draft'[t], folders', validity') /\ draft'[t].folder = "Drafts")
    PROVE  PagesOK'
<1>1. \A k : MarkKnown(k, folders, validity) => MarkKnown(k, folders', validity')
  BY MarkStays DEF WebInv
<1>2. \A t \in Actors : WebRequestOK(request'[t], folders', validity', asked')
  BY RequestStays DEF WebInv
<1>. QED
  BY <1>1, <1>2 DEF PagesOK, WebInv

\* No request is about to expunge the next UID of a folder.
LEMMA NextNotDoomed ==
    ASSUME NEW r, WebRequestOK(r, folders, validity, asked'), NEW f \in DOMAIN folders, WebTreeOK(folders, validity)
    PROVE  ~Doomed(r, folders, f, folders[f].next)
<1>1. folders[f].next \in Nat
  BY DEF WebTreeOK, WebFolderOK
<1>. QED
  BY <1>1 DEF Doomed, WebRequestOK, MarkKnown

\* Every message stays where it is.
MessagesStay ==
    \A f \in DOMAIN folders :
        /\ f \in DOMAIN folders' /\ folders'[f].validity = folders[f].validity
        /\ \A u \in DOMAIN folders[f].mail :
              u \in DOMAIN folders'[f].mail /\ folders'[f].mail[u].letter = folders[f].mail[u].letter

\* Steps that remove nothing: what they doom anew is asked for, or is the letter that is stored.
LEMMA StayingStep ==
    ASSUME WebInv, WebTreeOK(folders', validity'), PagesOK', MessagesStay,
           asked \subseteq asked', mistaken \subseteq mistaken', swept \subseteq swept',
           NEW more, stored' \subseteq stored \cup more,
           \A n \in more : n \in asked' \/ LetterSafe(n)',
           \A t \in Actors : \A f \in DOMAIN folders : \A u \in DOMAIN folders[f].mail :
               Doomed(request'[t], folders, f, u) =>
                   Doomed(request[t], folders, f, u) \/ folders[f].mail[u].letter \in asked' \cup more
    PROVE  WebInv'
<1>1. ASSUME NEW n \in stored, n \notin asked' \cup mistaken' \cup swept', n \notin more PROVE LetterSafe(n)'
  <2>1. LetterSafe(n)
    BY <1>1 DEF WebInv
  <2>2. PICK f \in DOMAIN folders : \E u \in DOMAIN folders[f].mail :
            /\ folders[f].mail[u].letter = n
            /\ \A t \in Actors : ~Doomed(request[t], folders, f, u)
    BY <2>1 DEF LetterSafe
  <2>3. PICK u \in DOMAIN folders[f].mail :
            /\ folders[f].mail[u].letter = n
            /\ \A t \in Actors : ~Doomed(request[t], folders, f, u)
    BY <2>2
  <2>4. \A t \in Actors : ~Doomed(request'[t], folders, f, u)
    BY <1>1, <2>3
  <2>5. \A t \in Actors : ~Doomed(request'[t], folders', f, u)
    BY <2>4 DEF Doomed, TakenUnder, MessagesStay
  <2>. QED
    BY <2>3, <2>5 DEF LetterSafe, MessagesStay
<1>. QED
  BY <1>1 DEF WebInv

\* Nothing happens to the folders.
LEMMA QuietTree ==
    ASSUME WebInv, folders' = folders, validity' = validity
    PROVE  TreeDescends /\ MessagesStay /\ WebTreeOK(folders', validity')
BY DEF WebInv, TreeDescends, LaterFolder, MessagesStay, WebTreeOK, WebFolderOK

\* Steps of one tab that leave the folders alone.
LEMMA TabOnly ==
    ASSUME WebInv, NEW t \in Actors, NEW r, request' = [request EXCEPT ![t] = r],
           folders' = folders, validity' = validity, shown' = shown, draft' = draft, stored' = stored,
           asked \subseteq asked', mistaken' = mistaken, swept' = swept,
           WebRequestOK(r, folders, validity, asked'),
           \A f \in DOMAIN folders : \A u \in DOMAIN folders[f].mail :
               Doomed(r, folders, f, u) =>
                   Doomed(request[t], folders, f, u) \/ folders[f].mail[u].letter \in asked'
    PROVE  WebInv'
<1>1. TreeDescends /\ MessagesStay /\ WebTreeOK(folders', validity')
  BY QuietTree
<1>2. DOMAIN request' = Actors /\ \A s \in Actors : request'[s] = IF s = t THEN r ELSE request[s]
  BY DEF WebInv, PagesOK
<1>3. \A s \in Actors : WebRequestOK(request'[s], folders, validity, asked')
  BY <1>2, MoreAsked DEF WebInv, PagesOK
<1>4. PagesOK'
  BY <1>1, <1>2, <1>3, PagesStep DEF WebInv, PagesOK
<1>5. \A s \in Actors : \A f \in DOMAIN folders : \A u \in DOMAIN folders[f].mail :
          Doomed(request'[s], folders, f, u) =>
              Doomed(request[s], folders, f, u) \/ folders[f].mail[u].letter \in asked' \cup {}
  BY <1>2
<1>. QED
  BY <1>1, <1>4, <1>5, StayingStep

\* A request ends, begins, or goes on to a stage in which it expunges nothing.
LEMMA Harmless ==
    ASSUME WebInv, NEW t \in Actors, NEW r, request' = [request EXCEPT ![t] = r],
           folders' = folders, validity' = validity, shown' = shown, draft' = draft, stored' = stored,
           asked \subseteq asked', mistaken' = mistaken, swept' = swept,
           WebRequestOK(r, folders, validity, asked'), r.op \notin {"each", "expunge"}
    PROVE  WebInv'
BY TabOnly DEF Doomed

LEMMA Ends ==
    ASSUME WebInv, NEW t \in Actors, Browser!End(t),
           folders' = folders, validity' = validity, shown' = shown, draft' = draft, stored' = stored,
           asked \subseteq asked', mistaken' = mistaken, swept' = swept
    PROVE  WebInv'
BY Harmless DEF Browser!End, Browser!Goes, Browser!NoRequest, WebRequestOK

\* What append does to the tree.
LEMMA WithIs ==
    ASSUME WebTreeOK(folders, validity), NEW f \in DOMAIN folders, NEW n, NEW flags,
           folders' = Browser!With(folders, f, n, flags)
    PROVE  /\ DOMAIN folders' = DOMAIN folders
           /\ \A g \in DOMAIN folders : g # f => folders'[g] = folders[g]
           /\ DOMAIN folders'[f] = {"validity", "next", "mail"}
           /\ folders'[f].validity = folders[f].validity
           /\ folders'[f].next = folders[f].next + 1
           /\ DOMAIN folders'[f].mail = DOMAIN folders[f].mail \cup {folders[f].next}
           /\ \A u \in DOMAIN folders[f].mail : folders'[f].mail[u] = folders[f].mail[u]
           /\ folders'[f].mail[folders[f].next] = [letter |-> n, flags |-> flags]
<1>1. DOMAIN folders[f] = {"validity", "next", "mail"} /\ folders[f].next \notin DOMAIN folders[f].mail
  BY DEF WebTreeOK, WebFolderOK
<1>. QED
  BY <1>1 DEF Browser!With

LEMMA GrowTree ==
    ASSUME WebInv, NEW f \in DOMAIN folders, NEW n, NEW flags,
           folders' = Browser!With(folders, f, n, flags), validity' = validity
    PROVE  TreeDescends /\ MessagesStay /\ WebTreeOK(folders', validity')
<1>. DEFINE old1 == folders[f].next
<1>1. WebTreeOK(folders, validity)
  BY DEF WebInv
<1>2. /\ DOMAIN folders' = DOMAIN folders
      /\ \A g \in DOMAIN folders : g # f => folders'[g] = folders[g]
      /\ DOMAIN folders'[f] = {"validity", "next", "mail"}
      /\ folders'[f].validity = folders[f].validity
      /\ folders'[f].next = folders[f].next + 1
      /\ DOMAIN folders'[f].mail = DOMAIN folders[f].mail \cup {folders[f].next}
      /\ \A u \in DOMAIN folders[f].mail : folders'[f].mail[u] = folders[f].mail[u]
      /\ folders'[f].mail[folders[f].next] = [letter |-> n, flags |-> flags]
  BY <1>1, WithIs
<1>3. \A g \in DOMAIN folders : folders'[g].validity = folders[g].validity
  BY <1>2
<1>4. \A g \in DOMAIN folders : WebFolderOK(folders'[g], validity)
  <2>1. WebFolderOK(folders[f], validity)
    BY <1>1 DEF WebTreeOK
  <2>2. WebFolderOK(folders'[f], validity)
    BY <1>2, <2>1 DEF WebFolderOK
  <2>. QED
    BY <1>1, <1>2, <2>2 DEF WebTreeOK
<1>5. WebTreeOK(folders', validity')
  BY <1>1, <1>2, <1>3, <1>4 DEF WebTreeOK
<1>6. MessagesStay
  BY <1>2, <1>3 DEF MessagesStay
<1>7. \A g \in DOMAIN folders : LaterFolder(folders[g], folders'[g])
  <2>1. folders[f].next \in Nat
    BY <1>1 DEF WebTreeOK, WebFolderOK
  <2>2. LaterFolder(folders[f], folders'[f])
    BY <1>2, <2>1 DEF LaterFolder
  <2>3. \A g \in DOMAIN folders : folders[g].next \in Nat
    BY <1>1 DEF WebTreeOK, WebFolderOK
  <2>. QED
    BY <1>2, <2>2, <2>3 DEF LaterFolder
<1>. QED
  BY <1>1, <1>2, <1>5, <1>6, <1>7 DEF TreeDescends, WebTreeOK

\* A letter is stored, as a new message that no request is about to expunge.
LEMMA GrowStep ==
    ASSUME WebInv, NEW f \in DOMAIN folders, NEW n, NEW flags,
           folders' = Browser!With(folders, f, n, flags), validity' = validity,
           DOMAIN request' = Actors, shown' = shown, DOMAIN draft' = Actors,
           stored' \subseteq stored \cup {n}, asked \subseteq asked', mistaken' = mistaken, swept' = swept,
           \A t \in Actors : WebRequestOK(request'[t], folders, validity, asked'),
           \A t \in Actors : draft'[t] = draft[t]
                             \/ (MarkKnown(draft'[t], folders', validity') /\ draft'[t].folder = "Drafts"),
           \A t \in Actors : \A g \in DOMAIN folders : \A u \in DOMAIN folders[g].mail :
               Doomed(request'[t], folders, g, u) =>
                   Doomed(request[t], folders, g, u) \/ folders[g].mail[u].letter \in asked' \cup {n}
    PROVE  WebInv'
<1>1. TreeDescends /\ MessagesStay /\ WebTreeOK(folders', validity')
  BY GrowTree
<1>2. PagesOK'
  BY <1>1, PagesStep
<1>3. LetterSafe(n)'
  <2>1. WebTreeOK(folders, validity)
    BY DEF WebInv
  <2>2. f \in DOMAIN folders' /\ folders[f].next \in DOMAIN folders'[f].mail
        /\ folders'[f].mail[folders[f].next] = [letter |-> n, flags |-> flags]
        /\ folders'[f].validity = folders[f].validity
    BY <2>1, WithIs
  <2>3. \A t \in Actors : ~Doomed(request'[t], folders, f, folders[f].next)
    BY <2>1, NextNotDoomed
  <2>4. \A t \in Actors : ~Doomed(request'[t], folders', f, folders[f].next)
    BY <2>2, <2>3 DEF Doomed, TakenUnder
  <2>. QED
    BY <2>2, <2>4 DEF LetterSafe
<1>. QED
  BY <1>1, <1>2, <1>3, StayingStep

LEMMA DeliverKeeps == ASSUME WebInv, Browser!Deliver PROVE WebInv'
<1>. USE DEF Browser!Deliver
<1>1. "INBOX" \in DOMAIN folders
  BY DEF WebInv, WebTreeOK
<1>2. \A t \in Actors : WebRequestOK(request'[t], folders, validity, asked')
  BY DEF WebInv, PagesOK
<1>. QED
  BY <1>1, <1>2, GrowStep DEF WebInv, PagesOK

LEMMA ListKeeps ==
    ASSUME WebInv, NEW t \in Actors, NEW f, Browser!ListMessages(t, f)
    PROVE  WebInv'
<1>. USE DEF Browser!ListMessages, Browser!counters, Browser!history, Browser!Exists
<1>1. UNCHANGED <<folders, validity, request, draft, stored, asked, mistaken, swept>> /\ f \in DOMAIN folders
  OBVIOUS
<1>2. ASSUME NEW k \in shown'[t] PROVE MarkKnown(k, folders, validity)
  <2>1. PICK u \in DOMAIN folders[f].mail :
            k = [folder |-> f, validity |-> folders[f].validity, uid |-> u, letter |-> folders[f].mail[u].letter]
    BY <1>2 DEF WebInv, PagesOK, Browser!Uids
  <2>2. WebFolderOK(folders[f], validity) /\ u \in Nat /\ u < folders[f].next
    BY <1>1 DEF WebInv, WebTreeOK, WebFolderOK
  <2>3. \A g \in DOMAIN folders : TakenUnder(k, folders, g) => g = f
    BY <1>1, <2>1 DEF WebInv, WebTreeOK, TakenUnder
  <2>. QED
    BY <2>1, <2>2, <2>3 DEF MarkKnown, WebFolderOK
<1>3. DOMAIN shown' = Actors /\ \A s \in Actors : s # t => shown'[s] = shown[s]
  BY DEF WebInv, PagesOK
<1>4. PagesOK'
  BY <1>1, <1>2, <1>3 DEF WebInv, PagesOK
<1>. QED
  BY <1>1, <1>4 DEF WebInv, LetterSafe

LEMMA AskKeeps ==
    ASSUME WebInv, NEW t \in Actors, NEW what, NEW marks, NEW target, Browser!AskMessages(t, what, marks, target)
    PROVE  WebInv'
<1>. DEFINE f == (CHOOSE k \in marks : TRUE).folder
            r == [op |-> "open", do |-> what, folder |-> f, uids |-> {k.uid : k \in marks},
                  target |-> target, marks |-> marks, left |-> {}, seen |-> Browser!NoMail]
<1>1. Browser!Begin(t, r)
  BY DEF Browser!AskMessages
<1>2. \A k \in marks : k.folder = f
  BY DEF Browser!AskMessages
<1>3. \A k \in marks : MarkKnown(k, folders, validity)
  BY DEF Browser!AskMessages, WebInv, PagesOK
<1>. HIDE DEF f
<1>4. WebRequestOK(r, folders, validity, asked)
  BY <1>2, <1>3 DEF WebRequestOK, MessageFields
<1>. QED
  BY <1>1, <1>4, Harmless DEF Browser!Begin, Browser!history

LEMMA FailsKeeps ==
    ASSUME WebInv, NEW t \in Actors, Browser!Fails(t) \/ Browser!CopyRefused(t)
    PROVE  WebInv'
BY Ends DEF Browser!Fails, Browser!CopyRefused, Browser!AfterMissing, Browser!history

LEMMA OpenKeeps ==
    ASSUME WebInv, NEW t \in Actors, Browser!OpenFolder(t)
    PROVE  WebInv'
<1>. DEFINE r == request[t]
            uids == r.uids \cap Browser!Uids(r.folder)
            gone1 == uids = {} \/ (r.do \in {"move", "copy"} /\ ~Browser!Exists(r.target))
            s == [r EXCEPT !.op = "each", !.uids = uids, !.left = uids,
                           !.seen = Browser!Restrict(folders[r.folder].mail, uids)]
<1>1. /\ r.op = "open"
      /\ IF gone1 THEN Browser!End(t) ELSE Browser!Goes(t, s)
      /\ asked' = IF r.do = "delete" /\ uids # {} THEN asked \cup {k.letter : k \in r.marks} ELSE asked
      /\ UNCHANGED <<folders, shown, draft, validity, stored, mistaken, swept>>
  BY DEF Browser!OpenFolder, Browser!counters
<1>2. WebRequestOK(r, folders, validity, asked)
  BY DEF WebInv, PagesOK
<1>3. CASE gone1
  <2>1. asked \subseteq asked'
    BY <1>1
  <2>. QED
    BY <1>1, <1>3, <2>1, Ends
<1>4. CASE ~gone1
  <2>1. /\ DOMAIN s = MessageFields /\ s.op = "each" /\ s.do = r.do /\ s.uids = uids /\ s.left = uids
        /\ s.marks = r.marks /\ s.folder = r.folder
    BY <1>1, <1>2 DEF WebRequestOK, MessageFields
  <2>2. request' = [request EXCEPT ![t] = s]
    BY <1>1, <1>4 DEF Browser!Goes
  <2>3. WebRequestOK(s, folders, validity, asked')
    BY <1>1, <1>2, <1>4, <2>1 DEF WebRequestOK
  <2>4. \A f, u : ~Doomed(s, folders, f, u)
    BY <2>1 DEF Doomed
  <2>5. asked \subseteq asked'
    BY <1>1
  <2>. HIDE DEF s
  <2>. QED
    BY <1>1, <2>2, <2>3, <2>4, <2>5, TabOnly
<1>. QED
  BY <1>3, <1>4

\* The copy of a message is stored before the message is doomed; a mark whose copy was made from
\* a later folder of its name is struck off.
LEMMA CopyKeepsLetters ==
    ASSUME WebInv, NEW t \in Actors, NEW u, Browser!CopyOne(t, u)
    PROVE  WebInv'
<1>. DEFINE r == request[t]
            here == u \in Browser!Uids(r.folder) /\ Browser!Exists(r.target)
            s == [r EXCEPT !.left = @ \ {u},
                           !.marks = {k \in @ : k.uid = u => k.validity = folders[r.folder].validity}]
            n == folders[r.folder].mail[u].letter
            flags == folders[r.folder].mail[u].flags
<1>1. /\ r.op = "each" /\ u \in r.left
      /\ UNCHANGED <<shown, draft, validity, stored, asked, mistaken, swept>>
  BY DEF Browser!CopyOne, Browser!counters, Browser!history
<1>2. WebRequestOK(r, folders, validity, asked)
  BY DEF WebInv, PagesOK
<1>3. CASE ~here
  BY <1>1, <1>3, Ends DEF Browser!CopyOne, Browser!AfterMissing
<1>4. CASE here
  <2>1. r.target \in DOMAIN folders /\ r.folder \in DOMAIN folders /\ u \in DOMAIN folders[r.folder].mail
    BY <1>4 DEF Browser!Exists, Browser!Uids
  <2>2. folders' = Browser!With(folders, r.target, n, flags) /\ request' = [request EXCEPT ![t] = s]
    BY <1>4 DEF Browser!CopyOne, Browser!Goes
  <2>3. /\ DOMAIN s = MessageFields /\ s.op = "each" /\ s.do = r.do /\ s.uids = r.uids /\ s.left = r.left \ {u}
        /\ s.marks = {k \in r.marks : k.uid = u => k.validity = folders[r.folder].validity} /\ s.folder = r.folder
    BY <1>1, <1>2 DEF WebRequestOK, MessageFields
  <2>. HIDE DEF s
  <2>4. WebRequestOK(s, folders, validity, asked)
    BY <1>1, <1>2, <2>3 DEF WebRequestOK
  <2>5. ASSUME NEW g \in DOMAIN folders, NEW w \in DOMAIN folders[g].mail, Doomed(s, folders, g, w)
        PROVE  Doomed(r, folders, g, w) \/ folders[g].mail[w].letter = n
    <3>1. PICK k \in s.marks : k.uid = w /\ TakenUnder(k, folders, g)
      BY <2>5 DEF Doomed
    <3>2. k \in r.marks /\ k.folder = r.folder
      BY <1>1, <1>2, <2>3, <3>1 DEF WebRequestOK
    <3>3. CASE w # u
      BY <1>1, <2>3, <2>5, <3>1, <3>2, <3>3 DEF Doomed
    <3>4. CASE w = u
      <4>1. TakenUnder(k, folders, r.folder)
        BY <2>3, <3>1, <3>2, <3>4 DEF TakenUnder
      <4>2. g = r.folder
        BY <2>1, <3>1, <4>1 DEF WebInv, WebTreeOK, TakenUnder
      <4>. QED
        BY <3>4, <4>2
    <3>. QED
      BY <3>3, <3>4
  <2>6. DOMAIN request' = Actors /\ \A x \in Actors : request'[x] = IF x = t THEN s ELSE request[x]
    BY <2>2 DEF WebInv, PagesOK
  <2>7. \A x \in Actors : WebRequestOK(request'[x], folders, validity, asked')
    BY <1>1, <2>4, <2>6 DEF WebInv, PagesOK
  <2>8. \A x \in Actors : \A g \in DOMAIN folders : \A w \in DOMAIN folders[g].mail :
            Doomed(request'[x], folders, g, w) =>
                Doomed(request[x], folders, g, w) \/ folders[g].mail[w].letter \in asked' \cup {n}
    BY <2>5, <2>6
  <2>9. DOMAIN draft' = Actors /\ draft' = draft
    BY <1>1 DEF WebInv, PagesOK
  <2>. HIDE DEF n, flags
  <2>. QED
    BY <1>1, <2>1, <2>2, <2>6, <2>7, <2>8, <2>9, GrowStep
<1>. QED
  BY <1>3, <1>4

LEMMA FlagOneKeeps ==
    ASSUME WebInv, NEW t \in Actors, NEW u, Browser!FlagOne(t, u)
    PROVE  WebInv'
<1>. DEFINE r == request[t]
            s == [r EXCEPT !.left = @ \ {u}]
<1>1. /\ r.op = "each" /\ r.do \in {"delete", "seen", "unseen"}
      /\ UNCHANGED <<shown, draft, validity, stored, asked, mistaken, swept>>
  BY DEF Browser!FlagOne, Browser!counters, Browser!history
<1>2. WebRequestOK(r, folders, validity, asked)
  BY DEF WebInv, PagesOK
<1>3. CASE u \notin Browser!Uids(r.folder)
  BY <1>1, <1>3, Ends DEF Browser!FlagOne
<1>4. CASE u \in Browser!Uids(r.folder)
  <2>. DEFINE f == r.folder
              b == [folders[f] EXCEPT !.mail[u].flags = Browser!Patched(r.do, r.seen[u].flags)]
  <2>1. f \in DOMAIN folders /\ u \in DOMAIN folders[f].mail
    BY <1>4 DEF Browser!Uids, Browser!Exists
  <2>2. WebFolderOK(folders[f], validity) /\ WebTreeOK(folders, validity)
    BY <2>1 DEF WebInv, WebTreeOK
  <2>3. folders' = [folders EXCEPT ![f] = b] /\ request' = [request EXCEPT ![t] = s]
    BY <1>4 DEF Browser!FlagOne, Browser!Goes
  <2>4. /\ DOMAIN b = DOMAIN folders[f] /\ b.validity = folders[f].validity /\ b.next = folders[f].next
        /\ DOMAIN b.mail = DOMAIN folders[f].mail
        /\ \A w \in DOMAIN b.mail : b.mail[w].letter = folders[f].mail[w].letter
                                    /\ DOMAIN b.mail[w] = {"letter", "flags"}
    BY <2>1, <2>2 DEF WebFolderOK
  <2>. HIDE DEF b
  <2>5. DOMAIN folders' = DOMAIN folders /\ folders'[f] = b /\ \A g \in DOMAIN folders : g # f => folders'[g] = folders[g]
    BY <2>1, <2>3
  <2>6. WebFolderOK(b, validity)
    BY <2>2, <2>4 DEF WebFolderOK
  <2>7. WebTreeOK(folders', validity')
    BY <1>1, <2>2, <2>4, <2>5, <2>6 DEF WebTreeOK
  <2>8. MessagesStay
    BY <2>4, <2>5 DEF MessagesStay
  <2>9. TreeDescends
    <3>1. \A g \in DOMAIN folders : folders[g].next \in Nat /\ validity \in Nat
      BY <2>2 DEF WebTreeOK, WebFolderOK
    <3>2. \A g \in DOMAIN folders : LaterFolder(folders[g], folders'[g])
      BY <2>4, <2>5, <3>1 DEF LaterFolder
    <3>. QED
      BY <1>1, <2>2, <2>5, <3>2 DEF TreeDescends, WebTreeOK
  <2>10. /\ DOMAIN s = MessageFields /\ s.op = "each" /\ s.do = r.do /\ s.marks = r.marks /\ s.folder = r.folder
    BY <1>1, <1>2 DEF WebRequestOK, MessageFields
  <2>. HIDE DEF s
  <2>11. WebRequestOK(s, folders, validity, asked)
    BY <1>1, <1>2, <2>10 DEF WebRequestOK
  <2>12. DOMAIN request' = Actors /\ \A x \in Actors : request'[x] = IF x = t THEN s ELSE request[x]
    BY <2>3 DEF WebInv, PagesOK
  <2>13. \A x \in Actors : WebRequestOK(request'[x], folders, validity, asked')
    BY <1>1, <2>11, <2>12 DEF WebInv, PagesOK
  <2>14. PagesOK'
    BY <1>1, <2>7, <2>9, <2>12, <2>13, PagesStep DEF WebInv, PagesOK
  <2>15. \A g, w : ~Doomed(s, folders, g, w)
    BY <1>1, <2>10 DEF Doomed
  <2>16. \A x \in Actors : \A g \in DOMAIN folders : \A w \in DOMAIN folders[g].mail :
            Doomed(request'[x], folders, g, w) =>
                Doomed(request[x], folders, g, w) \/ folders[g].mail[w].letter \in asked' \cup {}
    BY <2>12, <2>15
  <2>. QED
    BY <1>1, <2>7, <2>8, <2>14, <2>16, StayingStep
<1>. QED
  BY <1>3, <1>4

LEMMA LoopEndsKeeps ==
    ASSUME WebInv, NEW t \in Actors, Browser!LoopEnds(t)
    PROVE  WebInv'
<1>. DEFINE r == request[t]
            s == [r EXCEPT !.op = "expunge"]
<1>1. /\ r.op = "each" /\ r.left = {}
      /\ UNCHANGED <<folders, shown, draft, validity, stored, asked, mistaken, swept>>
  BY DEF Browser!LoopEnds, Browser!counters, Browser!history
<1>2. WebRequestOK(r, folders, validity, asked)
  BY DEF WebInv, PagesOK
<1>3. CASE r.do \notin {"move", "delete"}
  BY <1>1, <1>3, Ends DEF Browser!LoopEnds
<1>4. CASE r.do \in {"move", "delete"}
  <2>1. request' = [request EXCEPT ![t] = s]
    BY <1>4 DEF Browser!LoopEnds, Browser!Goes
  <2>2. s.op = "expunge" /\ s.uids = r.uids /\ s.marks = r.marks /\ s.folder = r.folder
    BY <1>1, <1>2 DEF WebRequestOK, MessageFields
  <2>. HIDE DEF s
  <2>3. WebRequestOK(s, folders, validity, asked)
    BY <1>1, <1>2, <2>2 DEF WebRequestOK
  <2>4. ASSUME NEW f \in DOMAIN folders, NEW u \in DOMAIN folders[f].mail, Doomed(s, folders, f, u)
        PROVE  Doomed(r, folders, f, u) \/ folders[f].mail[u].letter \in asked
    <3>1. PICK k \in r.marks : k.uid = u /\ TakenUnder(k, folders, f)
      BY <2>2, <2>4 DEF Doomed
    <3>2. folders[f].mail[u].letter = k.letter
      BY <1>1, <1>2, <3>1 DEF WebRequestOK, MarkKnown
    <3>3. CASE r.do = "delete"
      BY <1>1, <1>2, <3>2, <3>3 DEF WebRequestOK
    <3>4. CASE r.do = "move"
      BY <1>1, <2>2, <2>4, <3>4 DEF Doomed
    <3>. QED
      BY <1>4, <3>3, <3>4
  <2>. QED
    BY <1>1, <2>1, <2>3, <2>4, TabOnly
<1>. QED
  BY <1>3, <1>4

\* A letter that is safe stays so if its message stays, where the folder is renamed or not.
LEMMA StillSafe ==
    ASSUME NEW n, NEW f \in DOMAIN folders, NEW u \in DOMAIN folders[f].mail, folders[f].mail[u].letter = n,
           \A t \in Actors : ~Doomed(request[t], folders, f, u),
           \A t \in Actors : request'[t] = request[t] \/ request'[t].op \notin {"each", "expunge"},
           NEW g \in DOMAIN folders', g = "INBOX" <=> f = "INBOX",
           folders'[g].validity = folders[f].validity, u \in DOMAIN folders'[g].mail,
           folders'[g].mail[u].letter = n
    PROVE  LetterSafe(n)'
<1>1. \A t \in Actors : ~Doomed(request'[t], folders', g, u)
  BY DEF Doomed, TakenUnder
<1>. QED
  BY <1>1 DEF LetterSafe

\* expunge removes what the request has copied, what was asked for, or what it mistakes.
LEMMA ExpungeKeeps ==
    ASSUME WebInv, NEW t \in Actors, Browser!Expunge(t)
    PROVE  WebInv'
<1>. DEFINE r == request[t]
            f == r.folder
<1>1. /\ r.op = "expunge"
      /\ mistaken' = mistaken \cup Browser!Mistaken(f, r.uids, r.marks)
      /\ request' = [request EXCEPT ![t] = Browser!NoRequest]
      /\ UNCHANGED <<shown, draft, validity, stored, asked, swept>>
  BY DEF Browser!Expunge, Browser!counters, Browser!End, Browser!Goes
<1>2. WebRequestOK(r, folders, validity, asked) /\ WebTreeOK(folders, validity)
  BY DEF WebInv, PagesOK
<1>3. /\ DOMAIN folders' = DOMAIN folders
      /\ \A g \in DOMAIN folders : g # f => folders'[g] = folders[g]
      /\ f \in DOMAIN folders =>
            /\ DOMAIN folders'[f] = {"validity", "next", "mail"}
            /\ folders'[f].validity = folders[f].validity /\ folders'[f].next = folders[f].next
            /\ DOMAIN folders'[f].mail = DOMAIN folders[f].mail \ r.uids
            /\ \A u \in DOMAIN folders'[f].mail : folders'[f].mail[u] = folders[f].mail[u]
  <2>1. CASE f \in DOMAIN folders
    <3>1. DOMAIN folders[f] = {"validity", "next", "mail"}
      BY <1>2, <2>1 DEF WebTreeOK, WebFolderOK
    <3>2. folders' = Browser!Without(folders, f, r.uids)
      BY <2>1 DEF Browser!Expunge, Browser!Exists
    <3>. QED
      BY <2>1, <3>1, <3>2 DEF Browser!Without, Browser!Restrict
  <2>2. CASE f \notin DOMAIN folders
    BY <2>2 DEF Browser!Expunge, Browser!Exists
  <2>. QED
    BY <2>1, <2>2
<1>4. \A g \in DOMAIN folders :
          /\ folders'[g].validity = folders[g].validity /\ folders'[g].next = folders[g].next
          /\ \A u \in DOMAIN folders'[g].mail : u \in DOMAIN folders[g].mail /\ folders'[g].mail[u] = folders[g].mail[u]
  BY <1>3
<1>5. WebTreeOK(folders', validity')
  <2>1. \A g \in DOMAIN folders : WebFolderOK(folders'[g], validity)
    BY <1>2, <1>3, <1>4 DEF WebTreeOK, WebFolderOK
  <2>. QED
    BY <1>1, <1>2, <1>3, <1>4, <2>1 DEF WebTreeOK
<1>6. TreeDescends
  <2>1. \A g \in DOMAIN folders : folders[g].next \in Nat
    BY <1>2 DEF WebTreeOK, WebFolderOK
  <2>2. \A g \in DOMAIN folders : LaterFolder(folders[g], folders'[g])
    BY <1>4, <2>1 DEF LaterFolder
  <2>. QED
    BY <1>1, <1>2, <1>3, <2>2 DEF TreeDescends, WebTreeOK
<1>7. DOMAIN request' = Actors /\ \A x \in Actors : request'[x] = IF x = t THEN Browser!NoRequest ELSE request[x]
  BY <1>1 DEF WebInv, PagesOK
<1>8. PagesOK'
  <2>1. WebRequestOK(Browser!NoRequest, folders, validity, asked)
    BY DEF WebRequestOK, Browser!NoRequest
  <2>2. \A x \in Actors : WebRequestOK(request'[x], folders, validity, asked')
    BY <1>1, <1>7, <2>1 DEF WebInv, PagesOK
  <2>. QED
    BY <1>1, <1>5, <1>6, <1>7, <2>2, PagesStep DEF WebInv, PagesOK
<1>9. ASSUME NEW n \in stored, n \notin asked \cup mistaken' \cup swept PROVE LetterSafe(n)'
  <2>1. PICK g \in DOMAIN folders : \E u \in DOMAIN folders[g].mail :
            folders[g].mail[u].letter = n /\ \A x \in Actors : ~Doomed(request[x], folders, g, u)
    BY <1>1, <1>9 DEF WebInv, LetterSafe
  <2>2. PICK u \in DOMAIN folders[g].mail :
            folders[g].mail[u].letter = n /\ \A x \in Actors : ~Doomed(request[x], folders, g, u)
    BY <2>1
  <2>3. ~(g = f /\ u \in r.uids)
    <3>. SUFFICES ASSUME g = f, u \in r.uids PROVE FALSE
      OBVIOUS
    <3>1. u \in Browser!Uids(f)
      BY DEF Browser!Uids, Browser!Exists
    <3>2. \E k \in r.marks : k.uid = u /\ k.validity = folders[f].validity
      BY <1>1, <1>9, <2>2, <3>1 DEF Browser!Mistaken
    <3>3. PICK k \in r.marks : k.uid = u /\ k.validity = folders[f].validity
      BY <3>2
    <3>4. TakenUnder(k, folders, f)
      BY <1>1, <1>2, <3>3 DEF WebRequestOK, TakenUnder
    <3>. QED
      BY <1>1, <2>2, <3>3, <3>4 DEF Doomed
  <2>4. u \in DOMAIN folders'[g].mail /\ folders'[g].mail[u] = folders[g].mail[u]
    BY <1>3, <2>3
  <2>5. \A x \in Actors : request'[x] = request[x] \/ request'[x].op \notin {"each", "expunge"}
    BY <1>7 DEF Browser!NoRequest
  <2>. QED
    BY <1>3, <1>4, <2>2, <2>4, <2>5, StillSafe
<1>. QED
  BY <1>1, <1>5, <1>8, <1>9 DEF WebInv

\* A new folder has a UIDVALIDITY no mark was taken under.
LEMMA NewTree ==
    ASSUME WebInv, NEW f, f \notin DOMAIN folders,
           folders' = Browser!Created(folders, f, validity + 1), validity' = validity + 1
    PROVE  TreeDescends /\ MessagesStay /\ WebTreeOK(folders', validity')
<1>1. WebTreeOK(folders, validity)
  BY DEF WebInv
<1>2. /\ DOMAIN folders' = DOMAIN folders \cup {f}
      /\ \A g \in DOMAIN folders : folders'[g] = folders[g]
      /\ folders'[f] = Browser!NewFolder(validity + 1)
  BY DEF Browser!Created
<1>3. /\ DOMAIN folders'[f] = {"validity", "next", "mail"}
      /\ folders'[f].validity = validity + 1 /\ folders'[f].next = 1 /\ DOMAIN folders'[f].mail = {}
  BY <1>2 DEF Browser!NewFolder, Browser!NoMail
<1>4. validity \in Nat /\ \A g \in DOMAIN folders : folders[g].validity \in Nat /\ folders[g].validity <= validity
                                                    /\ folders[g].next \in Nat
  BY <1>1 DEF WebTreeOK, WebFolderOK
<1>5. WebTreeOK(folders', validity')
  <2>1. \A g \in DOMAIN folders : WebFolderOK(folders'[g], validity')
    BY <1>1, <1>2, <1>4 DEF WebTreeOK, WebFolderOK
  <2>2. WebFolderOK(folders'[f], validity')
    BY <1>3, <1>4 DEF WebFolderOK
  <2>3. \A g, h \in DOMAIN folders' \ {"INBOX"} : folders'[g].validity = folders'[h].validity => g = h
    BY <1>1, <1>2, <1>3, <1>4 DEF WebTreeOK
  <2>. QED
    BY <1>1, <1>2, <1>4, <2>1, <2>2, <2>3 DEF WebTreeOK
<1>6. \A g \in DOMAIN folders : LaterFolder(folders[g], folders'[g])
  BY <1>2, <1>4 DEF LaterFolder
<1>7. TreeDescends
  BY <1>2, <1>3, <1>4, <1>6 DEF TreeDescends
<1>8. MessagesStay
  BY <1>2 DEF MessagesStay
<1>. QED
  BY <1>5, <1>7, <1>8

\* Steps that make a folder, and of one tab.
LEMMA CreatingStep ==
    ASSUME WebInv, NEW f, f \notin DOMAIN folders,
           folders' = Browser!Created(folders, f, validity + 1), validity' = validity + 1,
           DOMAIN request' = Actors,
           UNCHANGED <<shown, draft, stored, asked, mistaken, swept>>,
           \A t \in Actors : request'[t] = request[t]
               \/ (WebRequestOK(request'[t], folders, validity, asked) /\ request'[t].op \notin {"each", "expunge"})
    PROVE  WebInv'
<1>1. TreeDescends /\ MessagesStay /\ WebTreeOK(folders', validity')
  BY NewTree
<1>2. \A t \in Actors : WebRequestOK(request'[t], folders, validity, asked')
  BY DEF WebInv, PagesOK
<1>3. PagesOK'
  BY <1>1, <1>2, PagesStep DEF WebInv, PagesOK
<1>4. \A t \in Actors : \A g \in DOMAIN folders : \A u \in DOMAIN folders[g].mail :
          Doomed(request'[t], folders, g, u) =>
              Doomed(request[t], folders, g, u) \/ folders[g].mail[u].letter \in asked' \cup {}
  BY DEF Doomed
<1>. QED
  BY <1>1, <1>3, <1>4, StayingStep

LEMMA CreateKeeps ==
    ASSUME WebInv, NEW t \in Actors, NEW f, Browser!CreateFolder(t, f)
    PROVE  WebInv'
<1>1. /\ f \notin DOMAIN folders /\ UNCHANGED <<request, shown, draft, stored, asked, mistaken, swept>>
      /\ folders' = Browser!Created(folders, f, validity + 1) /\ validity' = validity + 1
  BY DEF Browser!CreateFolder, Browser!Exists, Browser!history
<1>. QED
  BY <1>1, CreatingStep DEF WebInv, PagesOK

LEMMA RenameKeeps ==
    ASSUME WebInv, NEW t \in Actors, NEW f, NEW g, Browser!RenameFolder(t, f, g)
    PROVE  WebInv'
<1>1. /\ f # "INBOX" /\ f \in DOMAIN folders /\ g \notin DOMAIN folders
      /\ folders' = [x \in (DOMAIN folders \ {f}) \cup {g} |-> IF x = g THEN folders[f] ELSE folders[x]]
      /\ UNCHANGED <<request, shown, draft, validity, stored, asked, mistaken, swept>>
  BY DEF Browser!RenameFolder, Browser!Exists, Browser!history
<1>2. WebTreeOK(folders, validity) /\ g # "INBOX" /\ f # g
  BY <1>1 DEF WebInv, WebTreeOK
<1>3. /\ DOMAIN folders' = (DOMAIN folders \ {f}) \cup {g} /\ folders'[g] = folders[f]
      /\ \A x \in DOMAIN folders \ {f} : folders'[x] = folders[x]
  BY <1>1
<1>4. WebTreeOK(folders', validity')
  BY <1>1, <1>2, <1>3 DEF WebTreeOK
<1>5. TreeDescends
  <2>1. validity \in Nat /\ \A x \in DOMAIN folders : folders[x].next \in Nat
    BY <1>2 DEF WebTreeOK, WebFolderOK
  <2>2. \A x \in DOMAIN folders : LaterFolder(folders[x], folders[x])
    BY <2>1 DEF LaterFolder
  <2>. QED
    BY <1>1, <1>2, <1>3, <2>1, <2>2 DEF TreeDescends
<1>6. PagesOK'
  BY <1>1, <1>4, <1>5, PagesStep DEF WebInv, PagesOK
<1>7. ASSUME NEW n \in stored, n \notin asked \cup mistaken \cup swept PROVE LetterSafe(n)'
  <2>1. PICK h \in DOMAIN folders : \E u \in DOMAIN folders[h].mail :
            folders[h].mail[u].letter = n /\ \A x \in Actors : ~Doomed(request[x], folders, h, u)
    BY <1>7 DEF WebInv, LetterSafe
  <2>2. PICK u \in DOMAIN folders[h].mail :
            folders[h].mail[u].letter = n /\ \A x \in Actors : ~Doomed(request[x], folders, h, u)
    BY <2>1
  <2>3. \A x \in Actors : request'[x] = request[x]
    BY <1>1
  <2>4. CASE h = f
    BY <1>1, <1>2, <1>3, <2>2, <2>3, <2>4, StillSafe
  <2>5. CASE h # f
    BY <1>1, <1>2, <1>3, <2>2, <2>3, <2>5, StillSafe
  <2>. QED
    BY <2>4, <2>5
<1>. QED
  BY <1>1, <1>4, <1>6, <1>7 DEF WebInv

LEMMA DeleteCheckKeeps ==
    ASSUME WebInv, NEW t \in Actors, NEW f, Browser!DeleteCheck(t, f)
    PROVE  WebInv'
<1>. DEFINE r == [op |-> "rmdir", folder |-> f]
<1>1. f # "INBOX" /\ Browser!Begin(t, r)
  BY DEF Browser!DeleteCheck
<1>2. WebRequestOK(r, folders, validity, asked)
  BY <1>1 DEF WebRequestOK
<1>. QED
  BY <1>1, <1>2, Harmless DEF Browser!Begin, Browser!history

\* What goes with a deleted folder is swept.
LEMMA DeleteKeeps ==
    ASSUME WebInv, NEW t \in Actors, Browser!DeleteFolder(t)
    PROVE  WebInv'
<1>. DEFINE f == request[t].folder
<1>1. /\ request[t].op = "rmdir" /\ f # "INBOX"
      /\ folders' = Browser!Restrict(folders, DOMAIN folders \ {f})
      /\ swept' = swept \cup {folders[f].mail[u].letter : u \in Browser!Uids(f)}
      /\ request' = [request EXCEPT ![t] = Browser!NoRequest]
      /\ UNCHANGED <<shown, draft, validity, stored, asked, mistaken>>
  BY DEF Browser!DeleteFolder, Browser!End, Browser!Goes, Browser!counters, WebInv, PagesOK, WebRequestOK
<1>2. WebTreeOK(folders, validity)
  BY DEF WebInv
<1>3. DOMAIN folders' = DOMAIN folders \ {f} /\ \A g \in DOMAIN folders' : folders'[g] = folders[g]
  BY <1>1 DEF Browser!Restrict
<1>4. WebTreeOK(folders', validity')
  BY <1>1, <1>2, <1>3 DEF WebTreeOK
<1>5. TreeDescends
  <2>1. validity \in Nat /\ \A x \in DOMAIN folders : folders[x].next \in Nat
    BY <1>2 DEF WebTreeOK, WebFolderOK
  <2>2. \A x \in DOMAIN folders : LaterFolder(folders[x], folders[x])
    BY <2>1 DEF LaterFolder
  <2>3. validity' = validity
    BY <1>1
  <2>. QED
    <3>1. \A g \in DOMAIN folders' : g \in DOMAIN folders /\ LaterFolder(folders[g], folders'[g])
      BY <1>3, <2>2
    <3>. QED
      BY <2>1, <2>3, <3>1 DEF TreeDescends
<1>6. DOMAIN request' = Actors /\ \A x \in Actors : request'[x] = IF x = t THEN Browser!NoRequest ELSE request[x]
  BY <1>1 DEF WebInv, PagesOK
<1>7. PagesOK'
  <2>1. WebRequestOK(Browser!NoRequest, folders, validity, asked)
    BY DEF WebRequestOK, Browser!NoRequest
  <2>2. \A x \in Actors : WebRequestOK(request'[x], folders, validity, asked')
    BY <1>1, <1>6, <2>1 DEF WebInv, PagesOK
  <2>. QED
    BY <1>1, <1>4, <1>5, <1>6, <2>2, PagesStep DEF WebInv, PagesOK
<1>8. ASSUME NEW n \in stored, n \notin asked \cup mistaken \cup swept' PROVE LetterSafe(n)'
  <2>1. PICK g \in DOMAIN folders : \E u \in DOMAIN folders[g].mail :
            folders[g].mail[u].letter = n /\ \A x \in Actors : ~Doomed(request[x], folders, g, u)
    BY <1>1, <1>8 DEF WebInv, LetterSafe
  <2>2. PICK u \in DOMAIN folders[g].mail :
            folders[g].mail[u].letter = n /\ \A x \in Actors : ~Doomed(request[x], folders, g, u)
    BY <2>1
  <2>3. g # f
    BY <1>1, <1>8, <2>2 DEF Browser!Uids, Browser!Exists
  <2>4. g \in DOMAIN folders' /\ folders'[g] = folders[g]
    BY <1>3, <2>3
  <2>5. \A x \in Actors : request'[x] = request[x] \/ request'[x].op \notin {"each", "expunge"}
    BY <1>6 DEF Browser!NoRequest
  <2>. QED
    BY <2>2, <2>4, <2>5, StillSafe
<1>. QED
  BY <1>1, <1>4, <1>7, <1>8 DEF WebInv

LEMMA LetterKeeps ==
    ASSUME WebInv, NEW t \in Actors, Browser!Send(t) \/ Browser!SaveDraft(t)
    PROVE  WebInv'
<1>1. MarkKnown(Browser!NoDraft, folders, validity) /\ Browser!NoDraft.folder = "Drafts"
  <2>1. validity \in Nat /\ \A f \in DOMAIN folders : folders[f].validity # 0
    BY DEF WebInv, WebTreeOK, WebFolderOK
  <2>. QED
    BY <2>1 DEF MarkKnown, TakenUnder, Browser!NoDraft
<1>2. PICK r : /\ Browser!Goes(t, r) /\ r.op = "ensure" /\ DOMAIN r = LetterFields /\ r.folder # "INBOX"
               /\ r.old = Browser!NoDraft \/ r.old = draft[t]
  BY DEF Browser!Send, Browser!SaveDraft, LetterFields
<1>3. WebRequestOK(r, folders, validity, asked)
  BY <1>1, <1>2 DEF WebRequestOK, WebInv, PagesOK
<1>4. UNCHANGED <<folders, validity, shown, draft, stored, asked, mistaken, swept>>
  BY DEF Browser!Send, Browser!SaveDraft, Browser!history
<1>. QED
  BY <1>2, <1>3, <1>4, Harmless DEF Browser!Goes

LEMMA EnsureKeeps ==
    ASSUME WebInv, NEW t \in Actors, Browser!EnsureFolder(t)
    PROVE  WebInv'
<1>. DEFINE r == request[t]
            s == [r EXCEPT !.op = "append"]
<1>1. /\ r.op = "ensure" /\ request' = [request EXCEPT ![t] = s]
      /\ UNCHANGED <<shown, draft, stored, asked, mistaken, swept>>
  BY DEF Browser!EnsureFolder, Browser!Goes, Browser!history
<1>2. WebRequestOK(r, folders, validity, asked)
  BY DEF WebInv, PagesOK
<1>3. s.op = "append" /\ DOMAIN s = LetterFields /\ s.folder = r.folder /\ s.old = r.old
  BY <1>1, <1>2 DEF WebRequestOK, LetterFields
<1>. HIDE DEF s
<1>4. WebRequestOK(s, folders, validity, asked)
  BY <1>1, <1>2, <1>3 DEF WebRequestOK
<1>5. CASE UNCHANGED <<folders, validity>>
  BY <1>1, <1>3, <1>4, <1>5, Harmless
<1>6. CASE /\ r.folder \notin DOMAIN folders
           /\ folders' = Browser!Created(folders, r.folder, validity + 1) /\ validity' = validity + 1
  <2>1. DOMAIN request' = Actors /\ \A x \in Actors : request'[x] = IF x = t THEN s ELSE request[x]
    BY <1>1 DEF WebInv, PagesOK
  <2>. QED
    BY <1>1, <1>3, <1>4, <1>6, <2>1, CreatingStep
<1>. QED
  BY <1>5, <1>6 DEF Browser!EnsureFolder, Browser!Exists

\* The new version of a draft is stored before the old one is doomed.
LEMMA AppendLetterKeeps ==
    ASSUME WebInv, NEW t \in Actors, Browser!AppendLetter(t)
    PROVE  WebInv'
<1>. DEFINE r == request[t]
            f == r.folder
            new == [folder |-> f, validity |-> folders[f].validity, uid |-> folders[f].next, letter |-> r.letter]
            s == [op |-> "expunge", folder |-> "Drafts", uids |-> {r.old.uid}, marks |-> {r.old}]
<1>1. r.op = "append" /\ UNCHANGED <<shown, validity, mistaken, swept>>
  BY DEF Browser!AppendLetter, Browser!counters
<1>2. WebRequestOK(r, folders, validity, asked) /\ WebTreeOK(folders, validity)
  BY DEF WebInv, PagesOK
<1>3. CASE f \notin DOMAIN folders
  BY <1>1, <1>3, Ends DEF Browser!AppendLetter, Browser!Exists
<1>4. CASE f \in DOMAIN folders
  <2>1. /\ folders' = Browser!With(folders, f, r.letter, r.flags) /\ stored' = stored \cup {r.letter}
        /\ draft' = draft \/ (f = "Drafts" /\ draft' = [draft EXCEPT ![t] = new])
        /\ \/ Browser!End(t) /\ asked' = asked
           \/ Browser!Goes(t, s) /\ asked' = asked \cup {r.old.letter}
    BY <1>4 DEF Browser!AppendLetter, Browser!Exists
  <2>2. MarkKnown(new, folders', validity')
    <3>1. /\ f \in DOMAIN folders' /\ folders'[f].validity = folders[f].validity
          /\ folders'[f].next = folders[f].next + 1
          /\ folders'[f].mail[folders[f].next] = [letter |-> r.letter, flags |-> r.flags]
      BY <1>2, <1>4, <2>1, WithIs
    <3>2. WebTreeOK(folders', validity')
      BY <1>1, <1>4, <2>1, GrowTree
    <3>3. \A g \in DOMAIN folders' : TakenUnder(new, folders', g) => g = f
      BY <3>1, <3>2 DEF WebTreeOK, TakenUnder
    <3>4. folders[f].next \in Nat /\ folders[f].validity \in Nat /\ folders[f].validity <= validity
      BY <1>2, <1>4 DEF WebTreeOK, WebFolderOK
    <3>. QED
      BY <1>1, <3>1, <3>3, <3>4 DEF MarkKnown
  <2>3. DOMAIN draft' = Actors /\ \A x \in Actors :
            draft'[x] = draft[x] \/ (MarkKnown(draft'[x], folders', validity') /\ draft'[x].folder = "Drafts")
    BY <2>1, <2>2 DEF WebInv, PagesOK
  <2>4. asked \subseteq asked'
    BY <2>1
  <2>5. PICK q : /\ request' = [request EXCEPT ![t] = q]
                 /\ q = Browser!NoRequest \/ (q = s /\ r.old.letter \in asked')
    BY <2>1 DEF Browser!End, Browser!Goes
  <2>6. WebRequestOK(q, folders, validity, asked')
    BY <1>1, <1>2, <2>5 DEF WebRequestOK, Browser!NoRequest
  <2>7. DOMAIN request' = Actors /\ \A x \in Actors : request'[x] = IF x = t THEN q ELSE request[x]
    BY <2>5 DEF WebInv, PagesOK
  <2>8. \A x \in Actors : WebRequestOK(request'[x], folders, validity, asked')
    BY <2>4, <2>6, <2>7, MoreAsked DEF WebInv, PagesOK
  <2>9. ASSUME NEW g \in DOMAIN folders, NEW u \in DOMAIN folders[g].mail, Doomed(q, folders, g, u)
        PROVE  folders[g].mail[u].letter \in asked'
    <3>1. q = s /\ r.old.letter \in asked' /\ r.old.uid = u /\ TakenUnder(r.old, folders, g)
      BY <2>5, <2>9 DEF Doomed, Browser!NoRequest
    <3>2. MarkKnown(r.old, folders, validity)
      BY <1>1, <1>2 DEF WebRequestOK
    <3>. QED
      BY <3>1, <3>2 DEF MarkKnown
  <2>10. \A x \in Actors : \A g \in DOMAIN folders : \A u \in DOMAIN folders[g].mail :
            Doomed(request'[x], folders, g, u) =>
                Doomed(request[x], folders, g, u) \/ folders[g].mail[u].letter \in asked' \cup {r.letter}
    BY <2>7, <2>9
  <2>. HIDE DEF r
  <2>. QED
    BY <1>1, <1>4, <2>1, <2>3, <2>4, <2>7, <2>8, <2>10, GrowStep
<1>. QED
  BY <1>3, <1>4

LEMMA WebSteps == WebInv /\ [Browser!WebmailNext]_(Browser!webmailVars) => WebInv'
<1>. SUFFICES ASSUME WebInv, [Browser!WebmailNext]_(Browser!webmailVars) PROVE WebInv'
  OBVIOUS
<1>1. CASE UNCHANGED Browser!webmailVars
  BY <1>1 DEF Browser!webmailVars, WebInv, PagesOK, LetterSafe
<1>2. CASE Browser!Deliver
  BY <1>2, DeliverKeeps
<1>3. ASSUME NEW t \in Actors, Browser!TabStep(t) PROVE WebInv'
  BY <1>3, ListKeeps, CreateKeeps, DeleteCheckKeeps, RenameKeeps, AskKeeps, OpenKeeps, LoopEndsKeeps, ExpungeKeeps,
     FailsKeeps, CopyKeepsLetters, FlagOneKeeps, DeleteKeeps, LetterKeeps, EnsureKeeps, AppendLetterKeeps
     DEF Browser!TabStep
<1>. QED
  BY <1>1, <1>2, <1>3 DEF Browser!WebmailNext

\* For any number of tabs, folders, letters, requests and failing calls: a letter that
\* was stored is in some folder, or somebody asked to delete or replace it, or it went
\* with a folder deleted after it was seen empty, or a UID of an earlier folder of that
\* name took it (move_message, batch, save_draft, delete_folder).
THEOREM WebmailKeepsLetters == Browser!Spec => []Browser!LettersKept
<1>1. WebInv => Browser!LettersKept
  <2>. SUFFICES ASSUME WebInv, NEW n \in stored, n \notin asked \cup mistaken \cup swept PROVE n \in Browser!Held
    BY DEF Browser!LettersKept
  <2>1. PICK f \in DOMAIN folders : \E u \in DOMAIN folders[f].mail : folders[f].mail[u].letter = n
    BY DEF WebInv, LetterSafe
  <2>2. PICK u \in DOMAIN folders[f].mail : folders[f].mail[u].letter = n
    BY <2>1
  <2>3. n \in {folders[f].mail[w].letter : w \in Browser!Uids(f)}
    BY <2>2 DEF Browser!Uids, Browser!Exists
  <2>. QED
    BY <2>3 DEF Browser!Held
<1>. QED
  BY <1>1, WebInits, WebSteps, PTL DEF Browser!Spec

-----------------------------------------------------------------------------
(***************************************************************************)
(* Logins (Sasl). A login reads the password file more than once and in    *)
(* other moments than the one it answers in. The invariant keeps, for each *)
(* attempt, that every state the file had since it began is among those    *)
(* seen, and that what the attempt holds (keys still to try, the record it *)
(* found) came from one of them; the cache never holds a stamp newer than  *)
(* the file's; and free slots and slot holders add up.                     *)
(***************************************************************************)
CONSTANTS Keys, LocalPart, Words, Slots, Stored, Files, Mixes, MaxWrites
VARIABLES file, writes, cache, free, login, wire, kinds

Login == INSTANCE Sasl WITH
    Attempts <- Actors

\* The fields of an attempt that has begun.
LoginFields == {"at", "kind", "user", "word", "keys", "stamp", "record", "seen", "gone", "nonce", "said"}

\* The second key of candidate_keys.
LocalOf(l) == LocalPart[l.user]

\* The name as given was looked up, and had no record.
OwnMissed(l) == \E s \in l.seen : s.ok /\ s.records[l.user] = Login!Missing

\* The keys still to look up: both, or the local part after the name was found missing.
KeysRight(l) ==
    \/ l.keys = Login!CandidateKeys(l.user)
    \/ LocalOf(l) # l.user /\ l.keys = <<LocalOf(l)>> /\ OwnMissed(l)

\* The record found is one the file held while the attempt ran, under a key it was
\* allowed to use.
FoundRight(l) ==
    \/ \E s \in l.seen : s.ok /\ l.record = s.records[l.user] /\ (LocalOf(l) = l.user \/ l.record # Login!Missing)
    \/ /\ LocalOf(l) # l.user /\ OwnMissed(l)
       /\ \E s \in l.seen : s.ok /\ l.record = s.records[LocalOf(l)]

\* What an attempt was told is backed by what it has seen.
LoginConcluded(a, l) ==
    /\ l.at = "success" /\ l.kind # "dovecot" => Login!LeadsTo(l.user, l.word, l.seen)
    /\ l.at = "success" /\ l.kind = "scram" => l.said = {a}
    /\ l.at = "success" /\ l.kind = "dovecot" => {"version", "mech", "done", "OK"} \subseteq l.said
    /\ l.at = "invalid" /\ l.kind \in {"smtp", "imap"} /\ "malformed" \notin l.said => Login!Refusable(l)
    /\ l.at = "invalid" /\ l.kind = "dovecot" => "FAIL" \in l.said

\* The stages at which an attempt needs nothing more of the file.
LoginEnded == {"ack", "success", "invalid", "temporary"}

\* An attempt, stage by stage.
LoginSound(a, l) ==
    /\ l.at = "idle" => l = Login!Idle
    /\ l.at # "idle" => /\ DOMAIN l = LoginFields /\ IsFiniteSet(l.seen)
                        /\ l.kind # "dovecot" => l.user \in Keys /\ l.word \in Words
    /\ l.at \in {"queue", "stat", "load"} =>
          l.kind \in {"smtp", "imap", "scram"} /\ KeysRight(l) /\ l.record = Login!Missing
    /\ l.at = "queue" => l.kind = "smtp"
    /\ l.at = "verify" => l.kind \in {"smtp", "imap"} /\ FoundRight(l)
    /\ l.at \in {"challenge", "final"} => l.kind = "scram" /\ (FoundRight(l) \/ l.record = Login!Missing)
    /\ l.at = "final" => l.nonce = <<"client", a>>
    /\ l.at = "ack" => l.kind = "scram" /\ Login!LeadsTo(l.user, l.word, l.seen) /\ l.said = {a}
    /\ l.at \in {"handshake", "asked"} => l.kind = "dovecot"
    /\ l.at = "asked" => {"version", "mech", "done"} \subseteq l.said
    /\ l.at \in {"idle", "queue", "stat", "load", "verify", "challenge", "final", "handshake", "asked"} \cup LoginEnded
    /\ LoginConcluded(a, l)

\* An SMTP login holds one of the verification slots from its turn to its answer.
HoldsSlot(a) == login[a].kind = "smtp" /\ login[a].at \in {"stat", "load", "verify"}
\* The attempts that hold a slot.
SlotHolders == {a \in Actors : HoldsSlot(a)}
\* No slot is lost and none is given twice.
SlotsBalance == free \in Int /\ free + Cardinality(SlotHolders) = Slots

\* The password file: its stamp, whether it can be read, its records.
PasswordFileOK == DOMAIN file = {"stamp", "ok", "records"} /\ file.stamp \in Nat \ {0} /\ file.ok \in BOOLEAN

\* A cached copy is never newer than the file, and one of the same stamp is its contents.
PasswordCacheOK ==
    /\ DOMAIN cache = {"smtp", "imap"}
    /\ \A d \in {"smtp", "imap"} :
          /\ cache[d].stamp \in Nat /\ cache[d].stamp <= file.stamp
          /\ cache[d].stamp = file.stamp => file.ok /\ cache[d].records = file.records

\* The present contents are among those seen by every attempt that is still reading.
Watching(a) ==
    /\ Login!Active(a) => Login!Now \in login[a].seen
    /\ login[a].at = "load" => login[a].stamp \in Nat /\ login[a].stamp <= file.stamp

\* Messages on the wire carry the nonce of the attempt that sent them.
WireOK == \A m \in wire : m.by \in Actors /\ m.nonce = <<"client", m.by>> /\ login[m.by].at \in LoginEnded

\* The inductive invariant.
SaslInv ==
    /\ DOMAIN login = Actors /\ PasswordFileOK /\ PasswordCacheOK /\ WireOK /\ SlotsBalance
    /\ \A a \in Actors : LoginSound(a, login[a]) /\ Watching(a)

\* The instance's Cardinality is Cardinality.
LEMMA SaslCardinality == \A S : Login!Cardinality(S) = Cardinality(S)
BY DEF Login!Cardinality, Cardinality, Login!IsFiniteSet, IsFiniteSet

\* And its finite sets are the finite sets.
LEMMA SaslFinite == \A S : Login!IsFiniteSet(S) <=> IsFiniteSet(S)
BY DEF Login!IsFiniteSet, IsFiniteSet

\* A step of one attempt that takes, keeps or gives back a slot.
LEMMA SlotStep ==
    ASSUME SaslInv, Login!LoginConstants, NEW a \in Actors, DOMAIN login' = Actors,
           \A o \in Actors \ {a} : login'[o] = login[o],
           \/ (HoldsSlot(a)' <=> HoldsSlot(a)) /\ free' = free
           \/ ~HoldsSlot(a) /\ HoldsSlot(a)' /\ free' = free - 1
           \/ HoldsSlot(a) /\ ~HoldsSlot(a)' /\ free' = free + 1
    PROVE  SlotsBalance'
<1>1. IsFiniteSet(SlotHolders) /\ Cardinality(SlotHolders) \in Nat
  BY SaslFinite, FS_Subset, FS_CardinalityType DEF Login!LoginConstants, SlotHolders
<1>2. \A o \in Actors \ {a} : HoldsSlot(o)' <=> HoldsSlot(o)
  BY DEF HoldsSlot
<1>3. CASE HoldsSlot(a)' <=> HoldsSlot(a)
  BY <1>2, <1>3 DEF SaslInv, SlotsBalance, SlotHolders
<1>4. CASE ~HoldsSlot(a) /\ HoldsSlot(a)'
  <2>1. SlotHolders' = SlotHolders \cup {a} /\ a \notin SlotHolders
    BY <1>2, <1>4 DEF SlotHolders
  <2>2. free' = free - 1 /\ Cardinality(SlotHolders') = Cardinality(SlotHolders) + 1
    BY <1>1, <1>4, <2>1, FS_AddElement
  <2>3. QED
    BY <1>1, <2>2 DEF SaslInv, SlotsBalance, Login!LoginConstants
<1>5. CASE HoldsSlot(a) /\ ~HoldsSlot(a)'
  <2>1. SlotHolders' = SlotHolders \ {a} /\ a \in SlotHolders
    BY <1>2, <1>5 DEF SlotHolders
  <2>2. free' = free + 1 /\ Cardinality(SlotHolders') = Cardinality(SlotHolders) - 1
    BY <1>1, <1>5, <2>1, FS_RemoveElement
  <2>3. QED
    BY <1>1, <2>2 DEF SaslInv, SlotsBalance, Login!LoginConstants
<1>6. QED
  BY <1>3, <1>4, <1>5

\* A step of one attempt preserves what is kept of the others.
LEMMA LoginGoesOn ==
    ASSUME SaslInv, Login!LoginConstants, NEW a \in Actors, NEW l, login' = [login EXCEPT ![a] = l],
           LoginSound(a, l), PasswordCacheOK', UNCHANGED file,
           l.at \notin {"idle", "success", "invalid", "temporary"} => Login!Now \in l.seen,
           l.at = "load" => l.stamp \in Nat /\ l.stamp <= file.stamp,
           login[a].at \in LoginEnded => l.at \in LoginEnded,
           \A m \in wire' \ wire : m.by = a /\ m.nonce = <<"client", a>> /\ l.at \in LoginEnded,
           \/ ((l.kind = "smtp" /\ l.at \in {"stat", "load", "verify"}) <=> HoldsSlot(a)) /\ free' = free
           \/ ~HoldsSlot(a) /\ l.kind = "smtp" /\ l.at \in {"stat", "load", "verify"} /\ free' = free - 1
           \/ HoldsSlot(a) /\ ~(l.kind = "smtp" /\ l.at \in {"stat", "load", "verify"}) /\ free' = free + 1
    PROVE  SaslInv'
<1>1. DOMAIN login' = Actors /\ login'[a] = l /\ \A o \in Actors \ {a} : login'[o] = login[o]
  BY DEF SaslInv
<1>2. SlotsBalance'
  BY <1>1, SlotStep DEF HoldsSlot
<1>3. WireOK'
  BY <1>1 DEF SaslInv, WireOK
<1>4. ASSUME NEW o \in Actors PROVE LoginSound(o, login[o])' /\ Watching(o)'
  <2>1. CASE o = a
    BY <1>1, <2>1 DEF Watching, Login!Active, Login!Now
  <2>2. CASE o # a
    BY <1>1, <2>2 DEF SaslInv, Watching, Login!Active, Login!Now
  <2>3. QED
    BY <2>1, <2>2
<1>5. PasswordFileOK'
  BY DEF SaslInv, PasswordFileOK
<1>6. QED
  BY <1>1, <1>2, <1>3, <1>4, <1>5 DEF SaslInv

LEMMA SaslInits ==
    ASSUME Login!LoginConstants, Login!SaslInit PROVE SaslInv
<1>1. \A a \in Actors : login[a] = Login!Idle /\ login[a].at = "idle" /\ login[a].kind = "none"
  BY DEF Login!SaslInit, Login!Idle
<1>2. \A a \in Actors : LoginSound(a, login[a]) /\ Watching(a)
  BY <1>1 DEF LoginSound, LoginConcluded, Watching, Login!Active, LoginEnded
<1>3. SlotsBalance
  <2>1. SlotHolders = {}
    BY <1>1 DEF SlotHolders, HoldsSlot
  <2>2. QED
    BY <2>1, FS_EmptySet DEF SlotsBalance, Login!SaslInit, Login!LoginConstants
<1>4. PasswordFileOK /\ PasswordCacheOK
  BY DEF Login!SaslInit, PasswordFileOK, PasswordCacheOK, Login!NoCopy
<1>5. QED
  BY <1>2, <1>3, <1>4 DEF SaslInv, WireOK, Login!SaslInit

LEMMA LoginBegins ==
    ASSUME SaslInv, Login!LoginConstants, NEW a \in Actors,
           Login!AskSmtp(a) \/ Login!AskImap(a) \/ Login!AskScram(a) \/ Login!AskDovecot(a)
    PROVE  SaslInv'
<1>1. login[a] = Login!Idle /\ UNCHANGED <<file, cache, free, wire>>
  BY DEF Login!AskSmtp, Login!AskImap, Login!AskScram, Login!AskDovecot
<1>2. PICK kind, user, word, stage :
        /\ Login!Begin(a, kind, user, word, stage)
        /\ \/ kind = "smtp" /\ user \in Keys /\ word \in Words /\ stage \in {"queue", "temporary", "invalid"}
           \/ kind \in {"imap", "scram"} /\ user \in Keys /\ word \in Words /\ stage \in {"stat"}
           \/ kind = "scram" /\ user \in Keys /\ word \in Words /\ stage = "invalid"
           \/ kind = "dovecot" /\ stage \in {"handshake", "temporary"}
  <2>1. CASE Login!AskSmtp(a)
    <3>1. PICK user \in Keys, word \in Words, shape \in Login!Shapes :
            Login!Begin(a, "smtp", user, word,
               CASE shape = "plain" -> "queue" [] shape = "mechanism" -> "temporary" [] OTHER -> "invalid")
      BY <2>1 DEF Login!AskSmtp
    <3>2. (CASE shape = "plain" -> "queue" [] shape = "mechanism" -> "temporary" [] OTHER -> "invalid") \in {"queue", "temporary", "invalid"}
      OBVIOUS
    <3>3. QED
      BY <3>1, <3>2
  <2>2. CASE Login!AskImap(a)
    BY <2>2 DEF Login!AskImap
  <2>3. CASE Login!AskScram(a)
    BY <2>3 DEF Login!AskScram
  <2>4. CASE Login!AskDovecot(a)
    <3>1. PICK safe \in BOOLEAN : Login!Begin(a, "dovecot", "", "", IF safe THEN "handshake" ELSE "temporary")
      BY <2>4 DEF Login!AskDovecot
    <3>2. (IF safe THEN "handshake" ELSE "temporary") \in {"handshake", "temporary"}
      OBVIOUS
    <3>3. QED
      BY <3>1, <3>2
  <2>5. QED
    BY <2>1, <2>2, <2>3, <2>4
<1> DEFINE l == [at |-> stage, kind |-> kind, user |-> user, word |-> word,
                 keys |-> IF kind = "dovecot" THEN <<>> ELSE Login!CandidateKeys(user),
                 stamp |-> 0, record |-> Login!Missing, seen |-> {Login!Now}, gone |-> FALSE, nonce |-> <<>>,
                 said |-> IF stage = "invalid" THEN {"malformed"} ELSE {}]
<1>3. login' = [login EXCEPT ![a] = l]
  BY <1>2 DEF Login!Begin
<1>4. /\ DOMAIN l = LoginFields /\ l.at = stage /\ l.kind = kind /\ l.user = user /\ l.word = word
      /\ l.record = Login!Missing /\ l.seen = {Login!Now} /\ IsFiniteSet(l.seen)
      /\ kind # "dovecot" => l.keys = Login!CandidateKeys(user)
      /\ stage = "invalid" => "malformed" \in l.said
  BY FS_Singleton DEF LoginFields
<1> HIDE DEF l
<1>5. LoginSound(a, l)
  BY <1>2, <1>4 DEF LoginSound, LoginConcluded, KeysRight, LoginEnded
<1>6. ~HoldsSlot(a) /\ login[a].at = "idle"
  BY <1>1 DEF HoldsSlot, Login!Idle
<1>7. PasswordCacheOK'
  BY <1>1 DEF SaslInv, PasswordCacheOK
<1>8. QED
  BY <1>1, <1>2, <1>3, <1>4, <1>5, <1>6, <1>7, LoginGoesOn DEF LoginEnded

\* What Found makes of a login, of the records of the file.
LookedUp(l) ==
    IF file.records[Head(l.keys)] = Login!Missing /\ Len(l.keys) > 1
    THEN [l EXCEPT !.keys = Tail(l.keys), !.at = "stat"]
    ELSE [l EXCEPT !.record = file.records[Head(l.keys)], !.at = Login!AfterLookup(l.kind)]

LEMMA LookingUp ==
    ASSUME NEW a, NEW l, NEW m, m = LookedUp(l), LoginSound(a, l), l.at \in {"stat", "load"}, Login!LoginConstants,
           file.ok, Login!Now \in l.seen
    PROVE  /\ LoginSound(a, m) /\ m.kind = l.kind /\ m.seen = l.seen
           /\ m.at \in {"stat", "verify", "challenge"} /\ (l.kind = "smtp" => m.at \in {"stat", "verify"})
<1>1. /\ DOMAIN l = LoginFields /\ IsFiniteSet(l.seen) /\ l.user \in Keys /\ l.word \in Words
      /\ l.kind \in {"smtp", "imap", "scram"} /\ KeysRight(l) /\ l.record = Login!Missing
  BY DEF LoginSound
<1>2. /\ Login!Now.ok /\ Login!Now.records = file.records
      /\ LocalOf(l) \in Keys
  BY <1>1 DEF Login!Now, Login!LoginConstants, LocalOf
<1>3. CASE file.records[Head(l.keys)] = Login!Missing /\ Len(l.keys) > 1
  <2>1. l.keys = <<l.user, LocalOf(l)>> /\ LocalOf(l) # l.user
    <3>1. l.keys = <<l.user>> \/ l.keys = <<LocalOf(l)>> \/ (l.keys = <<l.user, LocalOf(l)>> /\ LocalOf(l) # l.user)
      BY <1>1 DEF KeysRight, Login!CandidateKeys, LocalOf
    <3>2. l.keys # <<l.user>> /\ l.keys # <<LocalOf(l)>>
      <4>1. l.keys = <<l.user>> => Len(l.keys) = 1
        OBVIOUS
      <4>2. l.keys = <<LocalOf(l)>> => Len(l.keys) = 1
        OBVIOUS
      <4>3. \A n : n = 1 => ~(n > 1)
        OBVIOUS
      <4>4. QED
        BY <1>3, <4>1, <4>2, <4>3
    <3>3. QED
      BY <3>1, <3>2
  <2>2. Head(l.keys) = l.user /\ Tail(l.keys) = <<LocalOf(l)>>
    BY <2>1
  <2>3. m = [l EXCEPT !.keys = <<LocalOf(l)>>, !.at = "stat"]
    BY <1>3, <2>2 DEF LookedUp
  <2>4. /\ DOMAIN m = LoginFields /\ m.keys = <<LocalOf(l)>> /\ m.at = "stat" /\ m.user = l.user /\ m.word = l.word
        /\ m.kind = l.kind /\ m.seen = l.seen /\ m.record = l.record
    BY <1>1, <2>3 DEF LoginFields
  <2>5. OwnMissed(m)
    BY <1>2, <1>3, <2>2, <2>4 DEF OwnMissed
  <2>6. KeysRight(m)
    BY <2>1, <2>4, <2>5 DEF KeysRight, LocalOf
  <2>7. LoginSound(a, m)
    BY <1>1, <2>4, <2>6 DEF LoginSound, LoginConcluded, LoginEnded
  <2>8. QED
    BY <2>4, <2>7
<1>4. CASE ~(file.records[Head(l.keys)] = Login!Missing /\ Len(l.keys) > 1)
  <2>1. /\ DOMAIN m = LoginFields /\ m.record = file.records[Head(l.keys)] /\ m.at = Login!AfterLookup(l.kind) /\ m.user = l.user
        /\ m.word = l.word /\ m.kind = l.kind /\ m.seen = l.seen
    BY <1>1, <1>4 DEF LoginFields, LookedUp
  <2>2. m.at = IF l.kind = "scram" THEN "challenge" ELSE "verify"
    BY <2>1 DEF Login!AfterLookup
  <2>3. FoundRight(m)
    <3>1. CASE l.keys = <<l.user>> /\ LocalOf(l) = l.user
      BY <1>2, <2>1, <3>1 DEF FoundRight, LocalOf
    <3>2. CASE l.keys = <<l.user, LocalOf(l)>> /\ LocalOf(l) # l.user
      <4>1. m.record = file.records[l.user] /\ m.record # Login!Missing
        BY <1>4, <2>1, <3>2
      <4>2. QED
        BY <1>2, <2>1, <4>1 DEF FoundRight
    <3>3. CASE LocalOf(l) # l.user /\ l.keys = <<LocalOf(l)>> /\ OwnMissed(l)
      <4>1. m.record = file.records[LocalOf(l)] /\ LocalOf(m) = LocalOf(l) /\ OwnMissed(m)
        BY <2>1, <3>3 DEF LocalOf, OwnMissed
      <4>2. QED
        BY <1>2, <2>1, <3>3, <4>1 DEF FoundRight
    <3>4. QED
      BY <1>1, <3>1, <3>2, <3>3 DEF KeysRight, Login!CandidateKeys, LocalOf
  <2>4. LoginSound(a, m)
    <3>1. CASE l.kind = "scram"
      BY <1>1, <2>1, <2>2, <2>3, <3>1 DEF LoginSound, LoginConcluded, LoginEnded
    <3>2. CASE l.kind \in {"smtp", "imap"}
      BY <1>1, <2>1, <2>2, <2>3, <3>2 DEF LoginSound, LoginConcluded, LoginEnded
    <3>3. QED
      BY <1>1, <3>1, <3>2
  <2>5. QED
    BY <1>1, <2>1, <2>2, <2>4
<1>5. QED
  BY <1>3, <1>4

\* What Answer makes of a login that was looked up or verified.
Answered(l, what) ==
    [[[[[l EXCEPT !.at = what] EXCEPT !.record = Login!Missing] EXCEPT !.keys = <<>>] EXCEPT !.stamp = 0] EXCEPT !.gone = FALSE]

LEMMA AnswerFields ==
    ASSUME NEW l, NEW what, DOMAIN l = LoginFields
    PROVE  LET m == Answered(l, what) IN
           /\ DOMAIN m = LoginFields /\ m.at = what /\ m.kind = l.kind /\ m.user = l.user /\ m.word = l.word
           /\ m.seen = l.seen /\ m.said = l.said
BY DEF Answered, LoginFields

LEMMA AnsweringLogin ==
    ASSUME SaslInv, Login!LoginConstants, NEW a \in Actors, NEW what \in {"success", "invalid", "temporary"},
           login[a].at \in {"load", "verify"}, login[a].kind \in {"smtp", "imap"}, Login!Answer(a, what),
           UNCHANGED <<file, wire>>, PasswordCacheOK',
           what = "success" => Login!LeadsTo(login[a].user, login[a].word, login[a].seen),
           what = "invalid" => Login!Refusable(Answered(login[a], what))
    PROVE  SaslInv'
<1>1. DOMAIN login = Actors /\ LoginSound(a, login[a]) /\ DOMAIN login[a] = LoginFields
  BY DEF SaslInv, LoginSound
<1>2. login' = [login EXCEPT ![a] = Answered(login[a], what)]
  BY <1>1 DEF Login!Answer, Answered
<1>3. free' = IF login[a].kind = "smtp" THEN free + 1 ELSE free
  BY DEF Login!Answer
<1> DEFINE m == Answered(login[a], what)
<1>4. /\ DOMAIN m = LoginFields /\ m.at = what /\ m.kind = login[a].kind /\ m.user = login[a].user /\ m.word = login[a].word
      /\ m.seen = login[a].seen /\ m.said = login[a].said
  BY <1>1, AnswerFields
<1> HIDE DEF m
<1>5. LoginSound(a, m)
  <2>1. LoginConcluded(a, m)
    BY <1>4 DEF LoginConcluded, m
  <2>2. QED
    BY <1>1, <1>4, <2>1 DEF LoginSound, LoginEnded
<1>6. QED
  BY <1>2, <1>3, <1>4, <1>5, LoginGoesOn DEF HoldsSlot, LoginEnded, m

LEMMA StattingFile ==
    ASSUME SaslInv, Login!LoginConstants, NEW a \in Actors, Login!Stat(a)
    PROVE  SaslInv'
<1>1. login[a].at = "stat" /\ UNCHANGED <<file, cache, free, wire>>
  BY DEF Login!Stat
<1>2. DOMAIN login = Actors /\ LoginSound(a, login[a]) /\ Login!Now \in login[a].seen /\ PasswordCacheOK'
  BY <1>1 DEF SaslInv, Watching, Login!Active, PasswordCacheOK
<1>3. DOMAIN login[a] = LoginFields /\ login[a].kind \in {"smtp", "imap", "scram"}
  BY <1>1, <1>2 DEF LoginSound
<1> DEFINE d == Login!DaemonOf(a)
<1>4. d \in {"smtp", "imap"}
  BY DEF Login!DaemonOf
<1>5. CASE Login!Fresh(d)
  <2>1. file.ok /\ cache[d].records = file.records
    BY <1>4, <1>5 DEF SaslInv, PasswordCacheOK, Login!Fresh
  <2>2. login' = [login EXCEPT ![a] = Login!Found(a, file.records)]
    BY <1>5, <2>1 DEF Login!Stat
  <2> DEFINE m == Login!Found(a, file.records)
  <2>3. m = LookedUp(login[a])
    BY DEF Login!Found, LookedUp
  <2> HIDE DEF m
  <2>4. /\ LoginSound(a, m) /\ m.kind = login[a].kind /\ m.seen = login[a].seen
        /\ m.at \in {"stat", "verify", "challenge"} /\ (login[a].kind = "smtp" => m.at \in {"stat", "verify"})
    BY <1>1, <1>2, <2>1, <2>3, LookingUp
  <2>5. QED
    BY <1>1, <1>2, <2>2, <2>4, LoginGoesOn DEF HoldsSlot, LoginEnded, m
<1>6. CASE ~Login!Fresh(d)
  <2> DEFINE m == [login[a] EXCEPT !.at = "load", !.stamp = file.stamp]
  <2>1. login' = [login EXCEPT ![a] = m]
    BY <1>6 DEF Login!Stat
  <2>2. /\ DOMAIN m = LoginFields /\ m.at = "load" /\ m.stamp = file.stamp /\ m.kind = login[a].kind /\ m.user = login[a].user
        /\ m.word = login[a].word /\ m.keys = login[a].keys /\ m.record = login[a].record /\ m.seen = login[a].seen
    BY <1>3 DEF LoginFields
  <2> HIDE DEF m
  <2>3. LoginSound(a, m)
    BY <1>1, <1>2, <2>2 DEF LoginSound, KeysRight, OwnMissed, LocalOf, LoginConcluded, LoginEnded
  <2>4. file.stamp \in Nat
    BY DEF SaslInv, PasswordFileOK
  <2>5. /\ (m.kind = "smtp" /\ m.at \in {"stat", "load", "verify"}) <=> HoldsSlot(a)
        /\ Login!Now \in m.seen /\ m.stamp \in Nat /\ m.stamp <= file.stamp /\ login[a].at \notin LoginEnded
    BY <1>1, <1>2, <2>2, <2>4 DEF HoldsSlot, LoginEnded
  <2>6. QED
    BY <1>1, <1>2, <2>1, <2>3, <2>5, LoginGoesOn
<1>7. QED
  BY <1>5, <1>6

LEMMA LoadingFile ==
    ASSUME SaslInv, Login!LoginConstants, NEW a \in Actors, Login!Load(a)
    PROVE  SaslInv'
<1>1. login[a].at = "load" /\ UNCHANGED <<file, wire>>
  BY DEF Login!Load
<1>2. /\ DOMAIN login = Actors /\ LoginSound(a, login[a]) /\ Login!Now \in login[a].seen
      /\ login[a].stamp \in Nat /\ login[a].stamp <= file.stamp
  BY <1>1 DEF SaslInv, Watching, Login!Active
<1>3. DOMAIN login[a] = LoginFields /\ login[a].kind \in {"smtp", "imap", "scram"} /\ login[a].record = Login!Missing
  BY <1>1, <1>2 DEF LoginSound
<1> DEFINE d == Login!DaemonOf(a)
<1>4. d \in {"smtp", "imap"}
  BY DEF Login!DaemonOf
<1>5. CASE file.ok
  <2>1. /\ cache' = [cache EXCEPT ![d] = Login!Copied(a)] /\ free' = free
        /\ login' = [login EXCEPT ![a] = Login!Found(a, file.records)]
    BY <1>5 DEF Login!Load
  <2>2. PasswordCacheOK'
    BY <1>1, <1>2, <1>4, <1>5, <2>1 DEF SaslInv, PasswordCacheOK, Login!Copied
  <2> DEFINE m == Login!Found(a, file.records)
  <2>3. m = LookedUp(login[a])
    BY DEF Login!Found, LookedUp
  <2> HIDE DEF m
  <2>4. /\ LoginSound(a, m) /\ m.kind = login[a].kind /\ m.seen = login[a].seen
        /\ m.at \in {"stat", "verify", "challenge"} /\ (login[a].kind = "smtp" => m.at \in {"stat", "verify"})
    BY <1>1, <1>2, <1>5, <2>3, LookingUp
  <2>5. QED
    BY <1>1, <1>2, <2>1, <2>2, <2>4, LoginGoesOn DEF HoldsSlot, LoginEnded, m
<1>6. CASE ~file.ok
  <2>1. cache' = [cache EXCEPT ![d] = Login!NoCopy]
    BY <1>6 DEF Login!Load
  <2>2. PasswordCacheOK'
    BY <1>1, <1>4, <2>1 DEF SaslInv, PasswordCacheOK, Login!NoCopy, PasswordFileOK
  <2>3. CASE login[a].kind = "scram"
    <3> DEFINE m == [login[a] EXCEPT !.at = "challenge"]
    <3>1. login' = [login EXCEPT ![a] = m] /\ free' = free
      BY <1>6, <2>3 DEF Login!Load
    <3>2. /\ DOMAIN m = LoginFields /\ m.at = "challenge" /\ m.kind = "scram" /\ m.user = login[a].user
          /\ m.word = login[a].word /\ m.record = Login!Missing /\ m.seen = login[a].seen
      BY <1>3, <2>3 DEF LoginFields
    <3> HIDE DEF m
    <3>3. LoginSound(a, m)
      BY <1>1, <1>2, <2>3, <3>2 DEF LoginSound, LoginConcluded, LoginEnded
    <3>4. QED
      BY <1>1, <1>2, <2>2, <2>3, <3>1, <3>2, <3>3, LoginGoesOn DEF HoldsSlot, LoginEnded
  <2>4. CASE login[a].kind # "scram"
    <3>1. Login!Answer(a, "invalid") /\ login[a].kind \in {"smtp", "imap"}
      BY <1>3, <1>6, <2>4 DEF Login!Load
    <3> DEFINE m == Answered(login[a], "invalid")
    <3>2. m.seen = login[a].seen
      BY <1>3, AnswerFields
    <3> HIDE DEF m
    <3>3. IsFiniteSet(m.seen) /\ Login!Now \in m.seen /\ ~Login!Now.ok
      BY <1>1, <1>2, <1>6, <3>2 DEF LoginSound, Login!Now
    <3>4. Cardinality(m.seen) = 1 => m.seen = {Login!Now}
      BY <3>3, FS_Singleton
    <3>5. Login!Refusable(m)
      BY <3>3, <3>4, SaslCardinality DEF Login!Refusable
    <3>6. QED
      BY <1>1, <2>2, <3>1, <3>5, AnsweringLogin DEF m
  <2>5. QED
    BY <2>3, <2>4
<1>7. QED
  BY <1>5, <1>6

\* A record that was found and bears the word of the login
LEMMA FoundLeads ==
    ASSUME NEW l, l.user \in Keys, FoundRight(l), l.record.word = l.word
    PROVE  Login!LeadsTo(l.user, l.word, l.seen)
<1>1. CASE \E s \in l.seen : s.ok /\ l.record = s.records[l.user]
  <2>1. 1 \in DOMAIN Login!CandidateKeys(l.user) /\ Login!CandidateKeys(l.user)[1] = l.user
    BY DEF Login!CandidateKeys
  <2>2. \A j \in 1..(1 - 1) : FALSE
    OBVIOUS
  <2>3. QED
    BY <1>1, <2>1, <2>2 DEF Login!LeadsTo
<1>2. CASE LocalOf(l) # l.user /\ OwnMissed(l) /\ \E s \in l.seen : s.ok /\ l.record = s.records[LocalOf(l)]
  <2>1. /\ 2 \in DOMAIN Login!CandidateKeys(l.user) /\ Login!CandidateKeys(l.user)[2] = LocalOf(l)
        /\ Login!CandidateKeys(l.user)[1] = l.user
    BY <1>2 DEF Login!CandidateKeys, LocalOf
  <2>2. \A j \in 1..(2 - 1) : j = 1
    OBVIOUS
  <2>3. QED
    BY <1>2, <2>1, <2>2 DEF Login!LeadsTo, OwnMissed
<1>3. QED
  BY <1>1, <1>2 DEF FoundRight

LEMMA FoundRefuses ==
    ASSUME NEW l, NEW m, l.user \in Keys, FoundRight(l), IsFiniteSet(l.seen), ~Login!VerifyPassword(l.record, l.word),
           m.user = l.user, m.word = l.word, m.seen = l.seen
    PROVE  Login!Refusable(m)
<1> DEFINE keys == Login!CandidateKeys(l.user)
<1>1. SUFFICES ASSUME NEW s \in l.seen, Cardinality(l.seen) = 1, s.ok
               PROVE ~Login!VerifyPassword(IF s.records[keys[1]] = Login!Missing THEN s.records[keys[Len(keys)]]
                                           ELSE s.records[keys[1]], l.word)
  BY SaslCardinality DEF Login!Refusable
<1>2. l.seen = {s}
  BY <1>1, FS_Singleton
<1>3. keys[1] = l.user /\ (LocalOf(l) = l.user => keys[Len(keys)] = l.user) /\ (LocalOf(l) # l.user => keys[Len(keys)] = LocalOf(l))
  BY DEF Login!CandidateKeys, LocalOf
<1>4. l.record = IF s.records[keys[1]] = Login!Missing THEN s.records[keys[Len(keys)]] ELSE s.records[keys[1]]
  BY <1>2, <1>3 DEF FoundRight, OwnMissed
<1>5. QED
  BY <1>4

LEMMA VerifyingPassword ==
    ASSUME SaslInv, Login!LoginConstants, NEW a \in Actors, Login!Verify(a)
    PROVE  SaslInv'
<1>1. login[a].at = "verify" /\ UNCHANGED <<file, cache, wire>>
  BY DEF Login!Verify
<1>2. LoginSound(a, login[a]) /\ PasswordCacheOK'
  BY <1>1 DEF SaslInv, PasswordCacheOK
<1>3. /\ DOMAIN login[a] = LoginFields /\ login[a].kind \in {"smtp", "imap"} /\ FoundRight(login[a])
      /\ login[a].user \in Keys /\ IsFiniteSet(login[a].seen)
  BY <1>1, <1>2 DEF LoginSound
<1>4. CASE Login!Answer(a, "temporary")
  BY <1>1, <1>2, <1>3, <1>4, AnsweringLogin
<1>5. CASE Login!Answer(a, Login!Outcome(login[a].record, login[a].word)) /\ Login!VerifyPassword(login[a].record, login[a].word)
  <2>1. login[a].record.word = login[a].word
    BY <1>5 DEF Login!VerifyPassword, Login!Derived
  <2>2. Login!LeadsTo(login[a].user, login[a].word, login[a].seen)
    BY <1>3, <2>1, FoundLeads
  <2>3. Login!Answer(a, "success")
    BY <1>5 DEF Login!Outcome
  <2>4. QED
    BY <1>1, <1>2, <1>3, <2>2, <2>3, AnsweringLogin
<1>6. CASE Login!Answer(a, Login!Outcome(login[a].record, login[a].word)) /\ ~Login!VerifyPassword(login[a].record, login[a].word)
  <2> DEFINE m == Answered(login[a], "invalid")
  <2>1. m.user = login[a].user /\ m.word = login[a].word /\ m.seen = login[a].seen
    BY <1>3, AnswerFields
  <2> HIDE DEF m
  <2>2. Login!Refusable(m)
    BY <1>3, <1>6, <2>1, FoundRefuses
  <2>3. Login!Answer(a, "invalid")
    BY <1>6 DEF Login!Outcome
  <2>4. QED
    BY <1>1, <1>2, <1>3, <2>2, <2>3, AnsweringLogin DEF m
<1>7. QED
  BY <1>4, <1>5, <1>6 DEF Login!Verify

\* The fields the state of a login is about, besides its stage
SameBut(l, m) ==
    /\ DOMAIN m = LoginFields /\ m.kind = l.kind /\ m.user = l.user /\ m.word = l.word /\ m.keys = l.keys
    /\ m.record = l.record /\ m.seen = l.seen

LEMMA QueueingForSlot ==
    ASSUME SaslInv, Login!LoginConstants, NEW a \in Actors, Login!TakeSlot(a) \/ Login!Saturated(a)
    PROVE  SaslInv'
<1>1. login[a].at = "queue" /\ UNCHANGED <<file, cache, wire>>
  BY DEF Login!TakeSlot, Login!Saturated
<1>2. /\ DOMAIN login = Actors /\ LoginSound(a, login[a]) /\ PasswordCacheOK' /\ Login!Now \in login[a].seen
  BY <1>1 DEF SaslInv, PasswordCacheOK, Watching, Login!Active
<1>3. DOMAIN login[a] = LoginFields /\ login[a].kind = "smtp" /\ ~HoldsSlot(a)
  BY <1>1, <1>2 DEF LoginSound, HoldsSlot
<1>4. PICK what \in {"stat", "temporary"} :
        /\ login' = [login EXCEPT ![a] = [login[a] EXCEPT !.at = what]]
        /\ what = "stat" => free' = free - 1
        /\ what = "temporary" => free' = free
  BY <1>2 DEF Login!TakeSlot, Login!Saturated
<1> DEFINE m == [login[a] EXCEPT !.at = what]
<1>5. m.at = what /\ SameBut(login[a], m)
  BY <1>3 DEF LoginFields, SameBut
<1> HIDE DEF m
<1>6. LoginSound(a, m)
  BY <1>1, <1>2, <1>3, <1>5 DEF LoginSound, LoginConcluded, SameBut, KeysRight, OwnMissed, LocalOf, LoginEnded
<1>7. QED
  BY <1>1, <1>2, <1>3, <1>4, <1>5, <1>6, LoginGoesOn DEF LoginEnded, SameBut, m

LEMMA HangingUp ==
    ASSUME SaslInv, Login!LoginConstants, NEW a \in Actors, Login!HangUp(a)
    PROVE  SaslInv'
<1>1. /\ login[a].kind = "smtp" /\ Login!Active(a) /\ UNCHANGED <<file, cache, wire, free>>
      /\ login' = [login EXCEPT ![a] = IF login[a].at = "queue" THEN Login!Idle ELSE [login[a] EXCEPT !.gone = TRUE]]
  BY DEF Login!HangUp, Login!FreeAfterHangUp, SaslInv
<1>2. /\ DOMAIN login = Actors /\ LoginSound(a, login[a]) /\ PasswordCacheOK' /\ Login!Now \in login[a].seen /\ Watching(a)
  BY <1>1 DEF SaslInv, PasswordCacheOK, Watching
<1>3. DOMAIN login[a] = LoginFields /\ login[a].at \in {"queue", "stat", "load", "verify"}
  BY <1>1, <1>2 DEF LoginSound, Login!Active, LoginEnded
<1>4. CASE login[a].at = "queue"
  <2>1. login' = [login EXCEPT ![a] = Login!Idle]
    BY <1>1, <1>4
  <2>2. Login!Idle.at = "idle" /\ Login!Idle.kind = "none"
    BY DEF Login!Idle
  <2>3. LoginSound(a, Login!Idle)
    BY <2>2 DEF LoginSound, LoginConcluded, LoginEnded
  <2>4. QED
    BY <1>1, <1>2, <1>4, <2>1, <2>2, <2>3, LoginGoesOn DEF HoldsSlot, LoginEnded
<1>5. CASE login[a].at # "queue"
  <2> DEFINE m == [login[a] EXCEPT !.gone = TRUE]
  <2>1. login' = [login EXCEPT ![a] = m]
    BY <1>1, <1>5
  <2>2. m.at = login[a].at /\ SameBut(login[a], m) /\ m.stamp = login[a].stamp
    BY <1>3 DEF LoginFields, SameBut
  <2> HIDE DEF m
  <2>3. LoginSound(a, m)
    BY <1>1, <1>2, <1>3, <2>2 DEF LoginSound, LoginConcluded, SameBut, KeysRight, FoundRight, OwnMissed, LocalOf, LoginEnded
  <2>4. QED
    BY <1>1, <1>2, <1>3, <2>1, <2>2, <2>3, LoginGoesOn DEF HoldsSlot, LoginEnded, SameBut, Watching
<1>6. QED
  BY <1>4, <1>5

LEMMA Challenging ==
    ASSUME SaslInv, Login!LoginConstants, NEW a \in Actors, Login!Challenge(a)
    PROVE  SaslInv'
<1>1. /\ login[a].at = "challenge" /\ UNCHANGED <<file, cache, wire, free>>
  BY DEF Login!Challenge
<1>2. /\ DOMAIN login = Actors /\ LoginSound(a, login[a]) /\ PasswordCacheOK' /\ Login!Now \in login[a].seen
  BY <1>1 DEF SaslInv, PasswordCacheOK, Watching, Login!Active
<1>3. DOMAIN login[a] = LoginFields /\ login[a].kind = "scram"
  BY <1>1, <1>2 DEF LoginSound
<1> DEFINE m == [[login[a] EXCEPT !.at = "final"] EXCEPT !.nonce = <<"client", a>>]
<1>4. login' = [login EXCEPT ![a] = m]
  BY <1>2 DEF Login!Challenge, Login!ServerNonce
<1>5. m.at = "final" /\ SameBut(login[a], m) /\ m.nonce = <<"client", a>>
  BY <1>3 DEF LoginFields, SameBut
<1> HIDE DEF m
<1>6. LoginSound(a, m)
  BY <1>1, <1>2, <1>3, <1>5 DEF LoginSound, LoginConcluded, SameBut, FoundRight, OwnMissed, LocalOf, LoginEnded
<1>7. QED
  BY <1>1, <1>2, <1>3, <1>4, <1>5, <1>6, LoginGoesOn DEF LoginEnded, SameBut, HoldsSlot

LEMMA ProvingPassword ==
    ASSUME SaslInv, Login!LoginConstants, NEW a \in Actors, Login!Final(a)
    PROVE  SaslInv'
<1>1. /\ login[a].at = "final" /\ UNCHANGED <<file, cache, free>>
  BY DEF Login!Final
<1>2. /\ DOMAIN login = Actors /\ LoginSound(a, login[a]) /\ PasswordCacheOK' /\ Login!Now \in login[a].seen
  BY <1>1 DEF SaslInv, PasswordCacheOK, Watching, Login!Active
<1>3. /\ DOMAIN login[a] = LoginFields /\ login[a].kind = "scram" /\ login[a].nonce = <<"client", a>>
      /\ login[a].word \in Words /\ login[a].user \in Keys
      /\ FoundRight(login[a]) \/ login[a].record = Login!Missing
  BY <1>1, <1>2 DEF LoginSound
<1>4. PICK f \in Login!Finals(a) :
        /\ wire' = wire \cup {f}
        /\ login' = [login EXCEPT ![a].at = IF Login!VerifyClientFinal(a, f) THEN "ack" ELSE "invalid", ![a].said = {f.by}]
  BY DEF Login!Final
<1> DEFINE m == [[login[a] EXCEPT !.at = IF Login!VerifyClientFinal(a, f) THEN "ack" ELSE "invalid"] EXCEPT !.said = {f.by}]
<1>5. login' = [login EXCEPT ![a] = m]
  BY <1>2, <1>4
<1>6. m.at = (IF Login!VerifyClientFinal(a, f) THEN "ack" ELSE "invalid") /\ SameBut(login[a], m) /\ m.said = {f.by}
  BY <1>3 DEF LoginFields, SameBut
<1> HIDE DEF m
<1>7. f \in wire => f.nonce # <<"client", a>>
  <2>1. f \in wire => f.nonce = <<"client", f.by>> /\ login[f.by].at \in LoginEnded
    BY DEF SaslInv, WireOK
  <2>2. login[a].at \notin LoginEnded
    BY <1>1 DEF LoginEnded
  <2>3. QED
    BY <2>1, <2>2
<1>8. ASSUME f \notin wire
      PROVE f.by = a /\ f.nonce = <<"client", a>> /\ f.key[1] = login[a].word
  <2>1. /\ Login!Own(a).by = a /\ Login!Own(a).nonce = <<"client", a>> /\ Login!Own(a).key[1] = login[a].word
        /\ DOMAIN Login!Own(a) = {"nonce", "binding", "extension", "key", "by"}
    BY <1>3 DEF Login!Own, Login!Derived
  <2>2. f = Login!Own(a) \/ f = [Login!Own(a) EXCEPT !.binding = "p=tls"] \/ f = [Login!Own(a) EXCEPT !.extension = TRUE]
    BY <1>8 DEF Login!Finals
  <2>3. QED
    BY <2>1, <2>2
<1>9. LoginSound(a, m)
  <2>1. CASE Login!VerifyClientFinal(a, f)
    <3>1. f.nonce = <<"client", a>> /\ f.key = Login!Credentials(login[a].record)
      BY <1>3, <2>1 DEF Login!VerifyClientFinal
    <3>2. f.by = a /\ f.key[1] = login[a].word
      BY <1>7, <1>8, <3>1
    <3>3. login[a].record # Login!Missing /\ login[a].record.word = login[a].word
      <4>1. CASE Login!Credentials(login[a].record) = Login!Derived("dummy", 2)
        BY <1>3, <3>1, <3>2, <4>1 DEF Login!Derived, Login!LoginConstants
      <4>2. CASE login[a].record # Login!Missing /\ Login!Credentials(login[a].record) = Login!Derived(login[a].record.word, login[a].record.rounds)
        BY <3>1, <3>2, <4>2 DEF Login!Derived
      <4>3. QED
        BY <4>1, <4>2 DEF Login!Credentials
    <3>4. Login!LeadsTo(login[a].user, login[a].word, login[a].seen)
      BY <1>3, <3>3, FoundLeads
    <3>5. m.at = "ack" /\ m.said = {a}
      BY <1>6, <2>1, <3>2
    <3>6. QED
      BY <1>1, <1>2, <1>3, <1>6, <3>4, <3>5 DEF LoginSound, LoginConcluded, SameBut, LoginEnded
  <2>2. CASE ~Login!VerifyClientFinal(a, f)
    <3>1. m.at = "invalid"
      BY <1>6, <2>2
    <3>2. QED
      BY <1>1, <1>2, <1>3, <1>6, <3>1 DEF LoginSound, LoginConcluded, SameBut, LoginEnded
  <2>3. QED
    BY <2>1, <2>2
<1>10. m.at \in LoginEnded /\ m.at # "load" /\ (m.at \notin {"idle", "success", "invalid", "temporary"} => Login!Now \in m.seen)
  BY <1>2, <1>6 DEF LoginEnded, SameBut
<1>11. \A x \in wire' \ wire : x.by = a /\ x.nonce = <<"client", a>>
  BY <1>4, <1>8
<1>12. m.kind # "smtp" /\ ~HoldsSlot(a)
  BY <1>3, <1>6 DEF SameBut, HoldsSlot
<1>13. QED
  BY <1>1, <1>2, <1>5, <1>9, <1>10, <1>11, <1>12, LoginGoesOn

LEMMA Acknowledging ==
    ASSUME SaslInv, Login!LoginConstants, NEW a \in Actors, Login!Acknowledge(a)
    PROVE  SaslInv'
<1>1. /\ login[a].at = "ack" /\ UNCHANGED <<file, cache, free, wire>>
  BY DEF Login!Acknowledge
<1>2. /\ DOMAIN login = Actors /\ LoginSound(a, login[a]) /\ PasswordCacheOK'
  BY <1>1 DEF SaslInv, PasswordCacheOK
<1>3. DOMAIN login[a] = LoginFields /\ login[a].kind = "scram"
  BY <1>1, <1>2 DEF LoginSound
<1>4. PICK what \in {"success", "invalid", "temporary"} : login' = [login EXCEPT ![a] = [login[a] EXCEPT !.at = what]]
  BY <1>2 DEF Login!Acknowledge
<1> DEFINE m == [login[a] EXCEPT !.at = what]
<1>5. m.at = what /\ SameBut(login[a], m) /\ m.said = login[a].said
  BY <1>3 DEF LoginFields, SameBut
<1> HIDE DEF m
<1>6. LoginSound(a, m)
  BY <1>1, <1>2, <1>3, <1>5 DEF LoginSound, LoginConcluded, SameBut, LoginEnded
<1>7. QED
  BY <1>1, <1>2, <1>3, <1>4, <1>5, <1>6, LoginGoesOn DEF LoginEnded, SameBut, HoldsSlot, m

LEMMA AskingDovecot ==
    ASSUME SaslInv, Login!LoginConstants, NEW a \in Actors, Login!Handshake(a) \/ Login!Reply(a) \/ Login!Unanswered(a)
    PROVE  SaslInv'
<1>1. /\ login[a].at \in {"handshake", "asked"} /\ UNCHANGED <<file, cache, free, wire>>
  BY DEF Login!Handshake, Login!Reply, Login!Unanswered
<1>2. /\ DOMAIN login = Actors /\ LoginSound(a, login[a]) /\ PasswordCacheOK' /\ Login!Now \in login[a].seen
  BY <1>1 DEF SaslInv, PasswordCacheOK, Watching, Login!Active
<1>3. DOMAIN login[a] = LoginFields /\ login[a].kind = "dovecot"
  BY <1>1, <1>2, Zenon DEF LoginSound
<1>4. SUFFICES ASSUME NEW said, NEW what \in {"handshake", "asked", "success", "invalid", "temporary"},
                      login' = [login EXCEPT ![a] = [[login[a] EXCEPT !.said = said] EXCEPT !.at = what]],
                      what = "asked" => {"version", "mech", "done"} \subseteq said,
                      what = "success" => {"version", "mech", "done", "OK"} \subseteq said,
                      what = "invalid" => "FAIL" \in said
               PROVE SaslInv'
  <2>1. CASE Login!Unanswered(a)
    <3>1. login' = [login EXCEPT ![a] = [[login[a] EXCEPT !.said = login[a].said] EXCEPT !.at = "temporary"]]
      BY <1>2, <1>3, <2>1 DEF Login!Unanswered, LoginFields
    <3>2. QED
      BY <1>4, <3>1
  <2>2. CASE Login!Handshake(a)
    <3>1. PICK line \in Login!Hello :
            login' = [login EXCEPT ![a].said = @ \cup {line},
                ![a].at = CASE line = "badversion" -> "temporary"
                            [] line = "done" -> IF {"version", "mech"} \subseteq login[a].said THEN "asked" ELSE "temporary"
                            [] OTHER -> "handshake"]
      BY <2>2 DEF Login!Handshake
    <3> DEFINE what == CASE line = "badversion" -> "temporary"
                         [] line = "done" -> IF {"version", "mech"} \subseteq login[a].said THEN "asked" ELSE "temporary"
                         [] OTHER -> "handshake"
    <3>2. login' = [login EXCEPT ![a] = [[login[a] EXCEPT !.said = login[a].said \cup {line}] EXCEPT !.at = what]]
      BY <1>2, <3>1, Zenon
    <3>3. what \in {"handshake", "asked", "temporary"} /\ (what = "asked" => {"version", "mech", "done"} \subseteq login[a].said \cup {line})
      BY Zenon
    <3> HIDE DEF what
    <3>4. QED
      BY <1>4, <3>2, <3>3
  <2>3. CASE Login!Reply(a)
    <3>1. PICK reply \in Login!Replies :
            login' = [login EXCEPT ![a].said = @ \cup {reply}, ![a].at = Login!AuthResponse(reply)]
      BY <2>3 DEF Login!Reply
    <3> DEFINE what == Login!AuthResponse(reply)
    <3>2. login' = [login EXCEPT ![a] = [[login[a] EXCEPT !.said = login[a].said \cup {reply}] EXCEPT !.at = what]]
      BY <1>2, <3>1
    <3>3. {"version", "mech", "done"} \subseteq login[a].said
      BY <1>2, <2>3, Zenon DEF Login!Reply, LoginSound
    <3>4. /\ what \in {"success", "invalid", "temporary"} /\ (what = "success" => reply = "OK") /\ (what = "invalid" => reply = "FAIL")
      BY Zenon DEF Login!AuthResponse
    <3> DEFINE said == login[a].said \cup {reply}
    <3>5. /\ what = "success" => {"version", "mech", "done", "OK"} \subseteq said
          /\ what = "invalid" => "FAIL" \in said
          /\ what # "asked"
      BY <3>3, <3>4, Zenon
    <3>6. login' = [login EXCEPT ![a] = [[login[a] EXCEPT !.said = said] EXCEPT !.at = what]]
      BY <3>2
    <3> HIDE DEF what, said
    <3>7. QED
      BY <1>4, <3>4, <3>5, <3>6
  <2>4. QED
    BY <2>1, <2>2, <2>3, Zenon
<1> DEFINE m == [[login[a] EXCEPT !.said = said] EXCEPT !.at = what]
<1>5. m.at = what /\ SameBut(login[a], m) /\ m.said = said
  BY <1>3 DEF LoginFields, SameBut
<1>6. login' = [login EXCEPT ![a] = m]
  BY <1>4
<1> HIDE DEF m
<1>7. LoginSound(a, m)
  BY <1>1, <1>2, <1>3, <1>4, <1>5 DEF LoginSound, LoginConcluded, SameBut, LoginEnded
<1>8. QED
  BY <1>1, <1>2, <1>3, <1>5, <1>6, <1>7, LoginGoesOn DEF LoginEnded, SameBut, HoldsSlot

\* A login that has also seen the file stage new.
Grown(l, new) == [l EXCEPT !.seen = l.seen \cup {new}]

LEMMA SeenGrows ==
    ASSUME NEW a, NEW l, NEW new, NEW m, m = Grown(l, new), LoginSound(a, l),
           l.at \notin {"idle", "success", "invalid", "temporary"}
    PROVE  LoginSound(a, m) /\ m.at = l.at /\ m.kind = l.kind /\ m.stamp = l.stamp /\ new \in m.seen
<1>1. DOMAIN l = LoginFields /\ IsFiniteSet(l.seen)
  BY DEF LoginSound
<1>2. /\ DOMAIN m = LoginFields /\ m.at = l.at /\ m.kind = l.kind /\ m.user = l.user /\ m.word = l.word /\ m.keys = l.keys
      /\ m.record = l.record /\ m.seen = l.seen \cup {new} /\ m.nonce = l.nonce /\ m.said = l.said /\ m.stamp = l.stamp
  BY <1>1 DEF LoginFields, Grown
<1>3. IsFiniteSet(m.seen)
  BY <1>1, <1>2, FS_AddElement
<1>4. OwnMissed(l) => OwnMissed(m)
  BY <1>2 DEF OwnMissed
<1>5. KeysRight(l) => KeysRight(m)
  BY <1>2, <1>4 DEF KeysRight, LocalOf
<1>6. FoundRight(l) => FoundRight(m)
  BY <1>2, <1>4 DEF FoundRight, LocalOf
<1>7. Login!LeadsTo(l.user, l.word, l.seen) => Login!LeadsTo(m.user, m.word, m.seen)
  BY <1>2 DEF Login!LeadsTo
<1>8. LoginSound(a, m)
  BY <1>2, <1>3, <1>5, <1>6, <1>7 DEF LoginSound, LoginConcluded, LoginEnded
<1>9. QED
  BY <1>2, <1>8

LEMMA Rewriting ==
    ASSUME SaslInv, Login!LoginConstants, Login!Rewrite
    PROVE  SaslInv'
<1>1. DOMAIN login = Actors /\ PasswordFileOK /\ PasswordCacheOK /\ WireOK /\ SlotsBalance /\ UNCHANGED <<cache, free, wire>>
  BY DEF SaslInv, Login!Rewrite
<1>2. PasswordFileOK' /\ file'.stamp = file.stamp + 1
  <2>1. CASE \E k \in Keys, r \in Login!Records :
                  file' = [file EXCEPT !.stamp = file.stamp + 1, !.records[k] = r]
    BY <1>1, <2>1 DEF PasswordFileOK
  <2>2. CASE file' = [file EXCEPT !.stamp = file.stamp + 1, !.ok = ~file.ok]
    BY <1>1, <2>2 DEF PasswordFileOK
  <2>3. QED
    BY <2>1, <2>2 DEF Login!Rewrite
<1>3. PasswordCacheOK'
  BY <1>1, <1>2 DEF PasswordCacheOK, PasswordFileOK
<1>4. login' = [a \in Actors |-> IF Login!Active(a) THEN [login[a] EXCEPT !.seen = login[a].seen \cup {Login!Now'}] ELSE login[a]]
  BY DEF Login!Rewrite, Login!SeenAfter, Login!Now
<1>5. ASSUME NEW a \in Actors
      PROVE LoginSound(a, login'[a]) /\ login'[a].at = login[a].at /\ login'[a].kind = login[a].kind /\ Watching(a)'
  <2>1. LoginSound(a, login[a]) /\ Watching(a)
    BY DEF SaslInv
  <2>2. CASE Login!Active(a)
    <3>1. login'[a] = Grown(login[a], Login!Now')
      BY <1>4, <2>2 DEF Grown
    <3>2. LoginSound(a, login'[a]) /\ login'[a].at = login[a].at /\ login'[a].kind = login[a].kind /\ login'[a].stamp = login[a].stamp
          /\ Login!Now' \in login'[a].seen
      BY <2>1, <2>2, <3>1, SeenGrows DEF Login!Active
    <3>3. QED
      BY <1>1, <1>2, <2>1, <3>2 DEF Watching, PasswordFileOK
  <2>3. CASE ~Login!Active(a)
    <3>1. login'[a] = login[a]
      BY <1>4, <2>3
    <3>2. QED
      BY <2>1, <2>3, <3>1 DEF Watching, Login!Active
  <2>4. QED
    BY <2>2, <2>3
<1>6. WireOK'
  BY <1>1, <1>5 DEF WireOK
<1>7. SlotsBalance'
  <2>1. SlotHolders' = SlotHolders
    BY <1>5 DEF SlotHolders, HoldsSlot
  <2>2. QED
    BY <1>1, <2>1 DEF SlotsBalance
<1>8. QED
  BY <1>2, <1>3, <1>4, <1>5, <1>6, <1>7 DEF SaslInv

\* For any number of attempts, slots and names: a login succeeds only if states the
\* password file had since the attempt began led from its name to its password, a SCRAM
\* proof is for the attempt's own nonce, and Dovecot answered after its whole handshake;
\* a password is refused only if it was wrong in the one state the file had meanwhile
\* (authenticate and lookup, under changes of the file and behind its cache); and the
\* verification slots are neither lost nor exceeded, also when clients hang up
\* (spawn_blocking under a permit).
THEOREM LoginsAreTrue ==
    ASSUME Login!LoginConstants
    PROVE  Login!Spec => [](Login!LoginTrue /\ Login!VerifySlotsKept)
<1>1. SaslInv /\ [Login!SaslNext]_(Login!saslVars) => SaslInv'
  <2>1. SUFFICES ASSUME SaslInv, [Login!SaslNext]_(Login!saslVars) PROVE SaslInv'
    OBVIOUS
  <2>2. CASE UNCHANGED Login!saslVars
    <3>1. UNCHANGED <<file, cache, free, login, wire>>
      BY <2>2 DEF Login!saslVars
    <3>2. \A a \in Actors : LoginSound(a, login'[a]) /\ Watching(a)'
      BY <2>1, <3>1 DEF SaslInv, Watching, Login!Active, Login!Now
    <3>3. PasswordFileOK' /\ PasswordCacheOK' /\ WireOK' /\ SlotsBalance'
      BY <2>1, <3>1 DEF SaslInv, PasswordFileOK, PasswordCacheOK, WireOK, SlotsBalance, SlotHolders, HoldsSlot
    <3>4. QED
      BY <2>1, <3>1, <3>2, <3>3 DEF SaslInv
  <2>3. QED
    BY <2>1, <2>2, Rewriting, StattingFile, LoadingFile, VerifyingPassword, LoginBegins, QueueingForSlot, HangingUp, Challenging, ProvingPassword, Acknowledging,
       AskingDovecot DEF Login!SaslNext
<1>2. SaslInv => Login!LoginTrue /\ Login!VerifySlotsKept
  <2>1. SUFFICES ASSUME SaslInv PROVE Login!LoginTrue /\ Login!VerifySlotsKept
    OBVIOUS
  <2>2. Login!LoginTrue
    BY <2>1 DEF SaslInv, LoginSound, LoginConcluded, Login!LoginTrue
  <2>3. Login!VerifySlotsKept
    BY <2>1, SaslCardinality DEF SaslInv, SlotsBalance, SlotHolders, HoldsSlot, Login!VerifySlotsKept
  <2>4. QED
    BY <2>2, <2>3
<1>3. Login!SaslInit => SaslInv
  BY SaslInits
<1>4. QED
  BY <1>1, <1>2, <1>3, PTL DEF Login!Spec

-----------------------------------------------------------------------------
(***************************************************************************)
(* Limits on guessing (LoginLimits). A lock that is due stands in a table  *)
(* until it is over, although the tables are bounded and entries are       *)
(* evicted: eviction takes what is not locked, or the lock it takes is     *)
(* struck from what is due.                                                *)
(***************************************************************************)
CONSTANTS Ips, Logins, Threshold, Locks, Window, Day, PerIp, PerLogin,
    PerAll, MaxTracked, MaxClock, MaxFlights
VARIABLES door, clock, byIp, byLogin, all, failures, flights, served, due

Limits == INSTANCE LoginLimits

\* An entry of the failure table of the console and of mail access.
FailureOK(r) ==
    /\ DOMAIN r = {"failures", "until", "lockouts", "start"}
    /\ r.failures \in Nat /\ r.until \in Nat /\ r.lockouts \in Nat

\* An entry of one of the two tables of webmail.
KeyOK(e) ==
    /\ DOMAIN e = {"start", "attempts", "failures", "until", "last"}
    /\ e.failures \in Nat /\ e.until \in Nat

FailuresOK(f) == \A k \in DOMAIN f : FailureOK(f[k])
KeysOK(t) == \A k \in DOMAIN t : KeyOK(t[k])

\* A login that was let through and has not ended.
FlightOK(a) == DOMAIN a = {"id", "ip", "login", "at"} /\ a.ip \in Ips /\ a.login \in Logins

LockedUntil(t, k, u) == k \in DOMAIN t /\ t[k].until >= u

\* The lock of an address or of a name, in the table it is kept in.
ByKey(ips, logins, k, u) == (k \in Ips /\ LockedUntil(ips, k, u)) \/ (k \in Logins /\ LockedUntil(logins, k, u))

\* The key of the proof: a lock that is due stands in its table.
LocksKept ==
    \A k \in Limits!LimitKeys : clock < due[k] =>
        IF door = "webmail" THEN ByKey(byIp, byLogin, k, due[k]) ELSE LockedUntil(failures, k, due[k])

\* The inductive invariant.
LimitInv ==
    /\ clock \in Nat \ {0}
    /\ due \in [Limits!LimitKeys -> Nat]
    /\ FailuresOK(failures)
    /\ door = "webmail" => KeysOK(byIp) /\ KeysOK(byLogin)
    /\ \A a \in flights : FlightOK(a)
    /\ LocksKept

\* The instance's Cardinality is Cardinality.
LEMMA LimitCardinality == \A S : Limits!Cardinality(S) = Cardinality(S)
BY DEF Limits!Cardinality, Cardinality, Limits!IsFiniteSet, IsFiniteSet

\* No lock is shorter than the first.
LEMMA LockLengths ==
    ASSUME Limits!LimitConstants, NEW n \in Nat \ {0}
    PROVE  Limits!LockFor(n) \in Nat /\ Limits!LockFor(1) <= Limits!LockFor(n)
<1>1. PICK m \in Nat \ {0} : DOMAIN Locks = 1 .. m
  BY DEF Limits!LimitConstants
<1>2. Cardinality(DOMAIN Locks) = m
  BY <1>1, FS_Interval
<1>3. Limits!LockFor(n) = Locks[Limits!Least(n, m)] /\ Limits!LockFor(1) = Locks[Limits!Least(1, m)]
  BY <1>2, LimitCardinality DEF Limits!LockFor
<1>4. Limits!Least(n, m) \in 1 .. m /\ Limits!Least(1, m) = 1
  BY <1>1 DEF Limits!Least
<1>5. QED
  BY <1>1, <1>3, <1>4 DEF Limits!LimitConstants

\* Eviction at MAX_TRACKED takes entries that are not locked.
LEMMA EvictionKeeps ==
    ASSUME NEW f, NEW g \in Limits!Evictions(f), clock \in Nat \ {0}
    PROVE  /\ \A k \in DOMAIN g : k \in DOMAIN f /\ g[k] = f[k]
           /\ \A k \in DOMAIN f : f[k].until \in Nat /\ f[k].until > clock => k \in DOMAIN g
<1> DEFINE live == Limits!Restrict(f, {s \in DOMAIN f : f[s].until > clock \/ f[s].failures > 0})
<1>1. g \in Limits!Cuts(live, Limits!Victims(live))
  BY DEF Limits!Evictions
<1>2. g = live \/ \E out \in SUBSET Limits!Victims(live) : g = Limits!Restrict(live, DOMAIN live \ out)
  BY <1>1 DEF Limits!Cuts
<1>3. /\ DOMAIN live = {s \in DOMAIN f : f[s].until > clock \/ f[s].failures > 0}
      /\ \A k \in DOMAIN live : live[k] = f[k]
  BY DEF Limits!Restrict
<1>4. PICK out \in SUBSET Limits!Victims(live) : /\ DOMAIN g = DOMAIN live \ out
                                                  /\ \A k \in DOMAIN g : g[k] = live[k]
  <2>1. CASE g = live
    <3>1. {} \in SUBSET Limits!Victims(live) /\ DOMAIN g = DOMAIN live \ {}
      BY <2>1
    <3>2. QED
      BY <2>1, <3>1
  <2>2. CASE \E out \in SUBSET Limits!Victims(live) : g = Limits!Restrict(live, DOMAIN live \ out)
    BY <2>2 DEF Limits!Restrict
  <2>3. QED
    BY <1>2, <2>1, <2>2
<1>5. \A k \in out : live[k].until = 0
  BY <1>4 DEF Limits!Victims
<1> HIDE DEF live
<1>6. QED
  BY <1>3, <1>4, <1>5

LEMMA OldestDropped ==
    ASSUME NEW t, NEW start, NEW u \in Limits!OldestFirst(t, start)
    PROVE  \A k \in DOMAIN u : k \in DOMAIN t /\ u[k] = t[k]
BY DEF Limits!OldestFirst, Limits!Restrict

LEMMA LimitInits ==
    ASSUME Limits!LimitConstants, Limits!LimitsInit PROVE LimitInv
<1>1. \A k \in Limits!LimitKeys : due[k] = 0
  BY DEF Limits!LimitsInit
<1>2. DOMAIN failures = {} /\ DOMAIN byIp = {} /\ DOMAIN byLogin = {}
  BY DEF Limits!LimitsInit, Limits!Empty
<1>3. QED
  BY <1>1, <1>2 DEF Limits!LimitsInit, LimitInv, LocksKept, FailuresOK, KeysOK

\* A change of the failure table that keeps every running lock keeps the invariant.
LEMMA TableStep ==
    ASSUME LimitInv, door # "webmail", UNCHANGED <<door, clock>>, FailuresOK(failures'),
           due' \in [Limits!LimitKeys -> Nat],
           \A a \in flights' : FlightOK(a),
           \A k \in Limits!LimitKeys : clock < due'[k] => LockedUntil(failures', k, due'[k])
    PROVE  LimitInv'
<1>1. Limits!LimitKeys' = Limits!LimitKeys
  BY DEF Limits!LimitKeys, Limits!Sources
<1>2. QED
  BY <1>1 DEF LimitInv, LocksKept

LEMMA NewRecord ==
    ASSUME LimitInv PROVE FailureOK(Limits!NewFailure)
BY DEF LimitInv, FailureOK, Limits!NewFailure

LEMMA SeenSound ==
    ASSUME LimitInv, NEW ip, NEW name
    PROVE  /\ FailuresOK(Limits!SeenFailures(ip, name))
           /\ ~Limits!Locked(ip, name) => \A k \in DOMAIN failures : failures[k].until > clock =>
                 Limits!SeenFailures(ip, name)[k] = failures[k]
           /\ DOMAIN Limits!SeenFailures(ip, name) = DOMAIN failures
<1> DEFINE s == <<ip, name>>
           f == Limits!SeenFailures(ip, name)
<1>1. DOMAIN f = DOMAIN failures /\ \A k \in DOMAIN f : f[k] = IF k = s THEN Limits!Expired(failures[k]) ELSE failures[k]
  BY DEF Limits!SeenFailures
<1>2. ASSUME NEW r, FailureOK(r)
      PROVE  FailureOK(Limits!Expired(r)) /\ (r.until > clock => Limits!Expired(r) = r)
  BY <1>2 DEF FailureOK, Limits!Expired, LimitInv
<1>3. QED
  BY <1>1, <1>2 DEF LimitInv, FailuresOK

LEMMA Checking ==
    ASSUME LimitInv, Limits!LimitConstants, NEW ip \in Ips, NEW name \in Logins, Limits!LoginStart(ip, name)
    PROVE  LimitInv'
<1>1. UNCHANGED <<door, clock>> /\ \A a \in flights' : FlightOK(a)
  BY DEF LimitInv, Limits!LoginStart, FlightOK
<1>2. CASE Limits!ConsoleCheck(ip, name)
  <2> DEFINE f == Limits!SeenFailures(ip, name)
  <2>1. door = "console" /\ ~Limits!Locked(ip, name) /\ due' = due /\ (failures' = f \/ failures' \in Limits!Evictions(f))
    BY <1>2 DEF Limits!ConsoleCheck
  <2>2. FailuresOK(f) /\ DOMAIN f = DOMAIN failures /\ \A k \in DOMAIN failures : failures[k].until > clock => f[k] = failures[k]
    BY <2>1, SeenSound
  <2> HIDE DEF f
  <2>3. /\ \A k \in DOMAIN failures' : k \in DOMAIN f /\ failures'[k] = f[k]
        /\ \A k \in DOMAIN f : f[k].until > clock => k \in DOMAIN failures'
    <3>1. CASE failures' = f
      BY <3>1
    <3>2. CASE failures' \in Limits!Evictions(f)
      BY <2>2, <3>2, EvictionKeeps DEF LimitInv, FailuresOK, FailureOK
    <3>3. QED
      BY <2>1, <3>1, <3>2
  <2>4. FailuresOK(failures')
    BY <2>2, <2>3 DEF FailuresOK
  <2>5. \A k \in Limits!LimitKeys : clock < due'[k] => LockedUntil(failures', k, due'[k])
    <3>1. SUFFICES ASSUME NEW k \in Limits!LimitKeys, clock < due[k] PROVE LockedUntil(failures', k, due[k])
      BY <2>1
    <3>2. k \in DOMAIN failures /\ failures[k].until >= due[k] /\ failures[k].until \in Nat /\ due[k] \in Nat /\ clock \in Nat
      BY <2>1, <3>1 DEF LimitInv, LocksKept, LockedUntil, FailuresOK, FailureOK
    <3>3. failures[k].until > clock
      BY <3>1, <3>2
    <3>4. QED
      BY <2>2, <2>3, <3>2, <3>3 DEF LockedUntil
  <2>6. QED
    BY <1>1, <2>1, <2>4, <2>5, TableStep DEF LimitInv
<1>3. CASE Limits!WebmailCheck(ip, name) \/ Limits!AccessCheck(name)
  <2>1. UNCHANGED <<byIp, byLogin, failures, due>>
    BY <1>3 DEF Limits!WebmailCheck, Limits!AccessCheck
  <2>2. Limits!LimitKeys' = Limits!LimitKeys
    BY DEF Limits!LimitKeys, Limits!Sources
  <2>3. QED
    BY <1>1, <2>1, <2>2 DEF LimitInv, LocksKept
<1>4. QED
  BY <1>2, <1>3 DEF Limits!LoginStart

LEMMA RefusingAtConsole ==
    ASSUME LimitInv, NEW ip \in Ips, NEW name \in Logins, Limits!ConsoleRefused(ip, name)
    PROVE  LimitInv'
<1>1. /\ door = "console" /\ ~Limits!Locked(ip, name) /\ failures' = Limits!SeenFailures(ip, name)
      /\ UNCHANGED <<door, clock, flights, due>>
  BY DEF Limits!ConsoleRefused
<1>2. \A k \in Limits!LimitKeys : clock < due[k] => LockedUntil(failures', k, due[k])
  <2>1. SUFFICES ASSUME NEW k \in Limits!LimitKeys, clock < due[k] PROVE LockedUntil(failures', k, due[k])
    OBVIOUS
  <2>2. k \in DOMAIN failures /\ failures[k].until >= due[k] /\ failures[k].until \in Nat /\ due[k] \in Nat /\ clock \in Nat
    BY <1>1, <2>1 DEF LimitInv, LocksKept, LockedUntil, FailuresOK, FailureOK
  <2>3. failures[k].until > clock
    BY <2>1, <2>2
  <2>4. QED
    BY <1>1, <2>2, <2>3, SeenSound DEF LockedUntil
<1>3. QED
  BY <1>1, <1>2, SeenSound, TableStep DEF LimitInv

LEMMA FailingAtConsole ==
    ASSUME LimitInv, Limits!LimitConstants, NEW ip \in Ips, NEW name \in Logins, Limits!ConsoleFailure(ip, name),
           UNCHANGED <<door, clock>>, flights' \subseteq flights
    PROVE  LimitInv'
<1> DEFINE s == <<ip, name>>
           previous == Limits!At(failures, s, Limits!NewFailure)
           r == IF clock - previous.start >= Day THEN [previous EXCEPT !.lockouts = 0, !.start = clock] ELSE previous
           n == r.failures + 1
           locksNow == n >= Threshold
           new == IF locksNow
                  THEN [r EXCEPT !.lockouts = @ + 1, !.until = clock + Limits!LockFor(r.lockouts + 1), !.failures = 0]
                  ELSE [r EXCEPT !.failures = n]
           f == Limits!Put(failures, s, new)
<1>1. /\ door = "console"
      /\ failures' = f \/ failures' \in Limits!Evictions(f)
      /\ due' = IF locksNow THEN [due EXCEPT ![s] = clock + Limits!LockFor(1)] ELSE due
  BY DEF Limits!ConsoleFailure
<1>2. clock \in Nat \ {0} /\ due \in [Limits!LimitKeys -> Nat] /\ s \in Limits!LimitKeys
  BY DEF LimitInv, Limits!LimitKeys, Limits!Sources
<1>3. FailureOK(previous) /\ (s \in DOMAIN failures => previous = failures[s])
  BY NewRecord DEF LimitInv, FailuresOK, Limits!At
<1>4. FailureOK(r) /\ r.until = previous.until
  BY <1>3 DEF FailureOK
<1>5. FailureOK(new) /\ (~locksNow => new.until = previous.until)
      /\ (locksNow => new.until >= clock + Limits!LockFor(1) /\ clock + Limits!LockFor(1) \in Nat)
  <2>1. CASE locksNow
    <3>1. r.lockouts + 1 \in Nat \ {0} /\ 1 \in Nat \ {0}
      BY <1>4 DEF FailureOK
    <3>2. /\ Limits!LockFor(r.lockouts + 1) \in Nat /\ Limits!LockFor(1) \in Nat
          /\ Limits!LockFor(1) <= Limits!LockFor(r.lockouts + 1)
      BY <3>1, LockLengths
    <3>3. new = [r EXCEPT !.lockouts = @ + 1, !.until = clock + Limits!LockFor(r.lockouts + 1), !.failures = 0]
      BY <2>1
    <3> HIDE DEF r, new, locksNow, n
    <3>4. QED
      BY <1>2, <1>4, <2>1, <3>2, <3>3 DEF FailureOK
  <2>2. CASE ~locksNow
    <3>1. new = [r EXCEPT !.failures = n]
      BY <2>2
    <3>2. n \in Nat
      BY <1>4 DEF FailureOK
    <3> HIDE DEF r, new, locksNow, n
    <3>3. QED
      BY <1>4, <2>2, <3>1, <3>2 DEF FailureOK
  <2>3. QED
    BY <2>1, <2>2
<1> HIDE DEF r, new, locksNow, n, previous
<1>6. DOMAIN f = DOMAIN failures \cup {s} /\ f[s] = new /\ \A k \in DOMAIN failures : k # s => f[k] = failures[k]
  BY DEF Limits!Put
<1> HIDE DEF f
<1>7. FailuresOK(f)
  BY <1>5, <1>6 DEF FailuresOK, LimitInv
<1>8. due' \in [Limits!LimitKeys -> Nat]
  <2>1. CASE locksNow
    <3>1. due' = [due EXCEPT ![s] = clock + Limits!LockFor(1)] /\ clock + Limits!LockFor(1) \in Nat
      BY <1>1, <1>5, <2>1
    <3>2. QED
      BY <1>2, <3>1
  <2>2. CASE ~locksNow
    BY <1>1, <1>2, <2>2
  <2>3. QED
    BY <2>1, <2>2
<1>9. \A k \in Limits!LimitKeys : clock < due'[k] => k \in DOMAIN f /\ f[k].until >= due'[k] /\ f[k].until > clock
  <2>1. SUFFICES ASSUME NEW k \in Limits!LimitKeys, clock < due'[k]
                 PROVE  k \in DOMAIN f /\ f[k].until >= due'[k]
    BY <1>2, <1>7, <1>8 DEF FailuresOK, FailureOK
  <2>2. CASE k = s /\ locksNow
    <3>1. due'[k] = clock + Limits!LockFor(1)
      BY <1>1, <1>2, <2>2
    <3>2. QED
      BY <1>5, <1>6, <2>2, <3>1
  <2>3. CASE k # s \/ ~locksNow
    <3>1. due'[k] = due[k]
      BY <1>1, <1>2, <2>3
    <3>2. k \in DOMAIN failures /\ failures[k].until >= due[k]
      BY <1>1, <2>1, <3>1 DEF LimitInv, LocksKept, LockedUntil
    <3>3. QED
      BY <1>3, <1>5, <1>6, <2>3, <3>1, <3>2
  <2>4. QED
    BY <2>2, <2>3
<1>10. /\ \A k \in DOMAIN failures' : k \in DOMAIN f /\ failures'[k] = f[k]
       /\ \A k \in DOMAIN f : f[k].until > clock => k \in DOMAIN failures'
  <2>1. CASE failures' = f
    BY <2>1
  <2>2. CASE failures' \in Limits!Evictions(f)
    BY <1>2, <1>7, <2>2, EvictionKeeps DEF FailuresOK, FailureOK
  <2>3. QED
    BY <1>1, <2>1, <2>2
<1>11. FailuresOK(failures')
  BY <1>7, <1>10 DEF FailuresOK
<1>12. \A k \in Limits!LimitKeys : clock < due'[k] => LockedUntil(failures', k, due'[k])
  BY <1>9, <1>10 DEF LockedUntil
<1>13. \A a \in flights' : FlightOK(a)
  BY DEF LimitInv
<1>14. QED
  BY <1>1, <1>8, <1>11, <1>12, <1>13, TableStep

LEMMA FailingAtAccess ==
    ASSUME LimitInv, Limits!LimitConstants, NEW name \in Logins, Limits!AccessFailure(name),
           UNCHANGED <<door, clock>>, flights' \subseteq flights
    PROVE  LimitInv'
<1> DEFINE room == Limits!Cardinality(DOMAIN failures) < MaxTracked
           f == IF room THEN failures
                ELSE Limits!Restrict(failures, {k \in DOMAIN failures :
                        failures[k].until > clock \/ clock - failures[k].start < Window})
           taken == name \in DOMAIN f \/ Limits!Cardinality(DOMAIN f) < MaxTracked
           previous == Limits!At(f, name, Limits!NewFailure)
           over == (previous.until # 0 /\ previous.until <= clock)
           r == IF over THEN Limits!NewFailure
                ELSE IF clock - previous.start >= Window THEN [previous EXCEPT !.start = clock, !.failures = 0] ELSE previous
           locksNow == r.failures + 1 >= Threshold
           new == IF locksNow THEN [r EXCEPT !.until = clock + Limits!LockFor(1), !.failures = 0]
                  ELSE [r EXCEPT !.failures = @ + 1]
<1>1. /\ door = "access"
      /\ \/ failures' = f /\ due' = due
         \/ failures' = Limits!Put(f, name, new) /\ due' = IF locksNow THEN [due EXCEPT ![name] = clock + Limits!LockFor(1)] ELSE due
  BY DEF Limits!AccessFailure
<1>2. clock \in Nat \ {0} /\ due \in [Limits!LimitKeys -> Nat] /\ name \in Limits!LimitKeys /\ FailuresOK(failures)
  BY DEF LimitInv, Limits!LimitKeys
<1>3. /\ \A k \in DOMAIN f : k \in DOMAIN failures /\ f[k] = failures[k]
      /\ \A k \in DOMAIN failures : failures[k].until > clock => k \in DOMAIN f
  <2>1. CASE room
    BY <2>1
  <2>2. CASE ~room
    BY <2>2 DEF Limits!Restrict
  <2>3. QED
    BY <2>1, <2>2
<1> HIDE DEF room, f
<1>4. FailuresOK(f)
  BY <1>2, <1>3 DEF FailuresOK
<1>5. FailureOK(Limits!NewFailure) /\ FailureOK(previous) /\ (name \in DOMAIN f => previous = f[name])
  BY <1>4, NewRecord DEF FailuresOK, Limits!At
<1> HIDE DEF previous
<1>6. FailureOK(r) /\ (previous.until > clock => r.until = previous.until)
  BY <1>2, <1>5 DEF FailureOK
<1>7. Limits!LockFor(1) \in Nat
  BY LockLengths
<1>8. FailureOK(new) /\ (~locksNow => new.until = r.until) /\ (locksNow => new.until = clock + Limits!LockFor(1))
  <2>1. r.failures + 1 \in Nat
    BY <1>6 DEF FailureOK
  <2> HIDE DEF r, locksNow
  <2>2. CASE locksNow
    BY <1>2, <1>6, <1>7, <2>2 DEF FailureOK
  <2>3. CASE ~locksNow
    BY <1>6, <2>1, <2>3 DEF FailureOK
  <2>4. QED
    BY <2>2, <2>3
<1> HIDE DEF r, locksNow, new
<1>9. \A k \in Limits!LimitKeys : clock < due[k] => k \in DOMAIN f /\ f[k].until >= due[k] /\ f[k].until > clock
  <2>1. SUFFICES ASSUME NEW k \in Limits!LimitKeys, clock < due[k]
                 PROVE  k \in DOMAIN f /\ f[k].until >= due[k] /\ f[k].until > clock
    OBVIOUS
  <2>2. k \in DOMAIN failures /\ failures[k].until >= due[k] /\ failures[k].until \in Nat /\ due[k] \in Nat
    BY <1>1, <1>2, <2>1 DEF LimitInv, LocksKept, LockedUntil, FailuresOK, FailureOK
  <2>3. failures[k].until > clock
    BY <1>2, <2>1, <2>2
  <2>4. QED
    BY <1>3, <2>2, <2>3
<1>10. \A a \in flights' : FlightOK(a)
  BY DEF LimitInv
<1>11. CASE failures' = f /\ due' = due
  <2>1. \A k \in Limits!LimitKeys : clock < due'[k] => LockedUntil(failures', k, due'[k])
    BY <1>9, <1>11 DEF LockedUntil
  <2>2. QED
    BY <1>1, <1>2, <1>4, <1>10, <1>11, <2>1, TableStep
<1>12. CASE failures' = Limits!Put(f, name, new) /\ due' = IF locksNow THEN [due EXCEPT ![name] = clock + Limits!LockFor(1)] ELSE due
  <2>1. /\ DOMAIN failures' = DOMAIN f \cup {name} /\ failures'[name] = new
        /\ \A k \in DOMAIN f : k # name => failures'[k] = f[k]
    BY <1>12 DEF Limits!Put
  <2>2. FailuresOK(failures')
    BY <1>4, <1>8, <2>1 DEF FailuresOK
  <2>3. due' \in [Limits!LimitKeys -> Nat]
    <3>1. CASE locksNow
      <4>1. due' = [due EXCEPT ![name] = clock + Limits!LockFor(1)] /\ clock + Limits!LockFor(1) \in Nat
        BY <1>2, <1>7, <1>12, <3>1
      <4>2. QED
        BY <1>2, <4>1
    <3>2. CASE ~locksNow
      BY <1>2, <1>12, <3>2
    <3>3. QED
      BY <3>1, <3>2
  <2>4. ASSUME NEW k \in Limits!LimitKeys, clock < due'[k] PROVE LockedUntil(failures', k, due'[k])
    <3>1. CASE k = name /\ locksNow
      <4>1. due'[k] = clock + Limits!LockFor(1)
        BY <1>2, <1>12, <3>1
      <4>2. clock + Limits!LockFor(1) >= clock + Limits!LockFor(1)
        BY <1>2, <1>7
      <4>3. QED
        BY <1>8, <2>1, <3>1, <4>1, <4>2 DEF LockedUntil
    <3>2. CASE k # name \/ ~locksNow
      <4>1. due'[k] = due[k]
        BY <1>2, <1>12, <3>2
      <4>2. k \in DOMAIN f /\ f[k].until >= due[k] /\ f[k].until > clock
        BY <1>9, <2>4, <4>1
      <4>3. QED
        BY <1>5, <1>6, <1>8, <2>1, <3>2, <4>1, <4>2 DEF LockedUntil
    <3>3. QED
      BY <3>1, <3>2
  <2>5. QED
    BY <1>1, <1>10, <2>2, <2>3, <2>4, TableStep
<1>13. QED
  BY <1>1, <1>11, <1>12

\* A record whose name is forgotten after its name succeeded.
LEMMA SucceedingElsewhere ==
    ASSUME LimitInv, NEW s \in Limits!LimitKeys, door # "webmail",
           failures' = Limits!Restrict(failures, DOMAIN failures \ {s}), due' = [due EXCEPT ![s] = 0],
           UNCHANGED <<door, clock>>, flights' \subseteq flights
    PROVE  LimitInv'
<1>1. due \in [Limits!LimitKeys -> Nat] /\ FailuresOK(failures) /\ clock \in Nat
  BY DEF LimitInv
<1>2. DOMAIN failures' = DOMAIN failures \ {s} /\ \A k \in DOMAIN failures' : failures'[k] = failures[k]
  BY DEF Limits!Restrict
<1>3. FailuresOK(failures')
  BY <1>1, <1>2 DEF FailuresOK
<1>4. due' \in [Limits!LimitKeys -> Nat]
  BY <1>1
<1>5. ASSUME NEW k \in Limits!LimitKeys, clock < due'[k] PROVE LockedUntil(failures', k, due'[k])
  <2>1. k # s /\ due'[k] = due[k]
    BY <1>1, <1>5
  <2>2. LockedUntil(failures, k, due[k])
    BY <1>5, <2>1 DEF LimitInv, LocksKept
  <2>3. QED
    BY <1>2, <2>1, <2>2 DEF LockedUntil
<1>6. \A a \in flights' : FlightOK(a)
  BY DEF LimitInv
<1>7. QED
  BY <1>3, <1>4, <1>5, <1>6, TableStep

\* One side of WebmailEvict: an entry it removes under its lock is no longer due.
LEMMA EvictedTogether ==
    ASSUME LimitInv, NEW ips, NEW logins, NEW ends, Limits!WebmailEvict(ips, logins, ends), KeysOK(ips), KeysOK(logins),
           ends \in [Limits!LimitKeys -> Nat],
           \A k \in Limits!LimitKeys : clock < ends[k] => ByKey(ips, logins, k, ends[k]),
           door = "webmail", UNCHANGED <<door, clock, failures>>,
           \A a \in flights' : FlightOK(a)
    PROVE  LimitInv'
<1>1. /\ \A k \in DOMAIN byIp' : k \in DOMAIN ips /\ byIp'[k] = ips[k]
      /\ \A k \in DOMAIN byLogin' : k \in DOMAIN logins /\ byLogin'[k] = logins[k]
  <2>1. CASE Limits!Full(ips) \/ Limits!Full(logins)
    <3>1. /\ byIp' \in Limits!OldestFirst(Limits!Kept(ips), [k \in DOMAIN ips |-> ips[k].start])
          /\ byLogin' \in Limits!OldestFirst(Limits!Kept(logins), [k \in DOMAIN logins |-> logins[k].start])
      BY <2>1 DEF Limits!WebmailEvict
    <3>2. /\ \A k \in DOMAIN byIp' : k \in DOMAIN Limits!Kept(ips) /\ byIp'[k] = Limits!Kept(ips)[k]
          /\ \A k \in DOMAIN byLogin' : k \in DOMAIN Limits!Kept(logins) /\ byLogin'[k] = Limits!Kept(logins)[k]
      BY <3>1, OldestDropped
    <3>3. QED
      BY <3>2 DEF Limits!Kept, Limits!Restrict, Limits!Retained
  <2>2. CASE ~(Limits!Full(ips) \/ Limits!Full(logins))
    BY <2>2 DEF Limits!WebmailEvict
  <2>3. QED
    BY <2>1, <2>2
<1>2. due' = [k \in Limits!LimitKeys |->
                 CASE k \in Ips /\ k \in Limits!Retained(ips) /\ k \notin DOMAIN byIp' -> 0
                   [] k \in Logins /\ k \in Limits!Retained(logins) /\ k \notin DOMAIN byLogin' -> 0
                   [] OTHER -> ends[k]]
  BY DEF Limits!WebmailEvict
<1>3. ASSUME NEW k \in Limits!LimitKeys
      PROVE  /\ due'[k] \in {0, ends[k]}
             /\ due'[k] # 0 => ~(k \in Ips /\ k \in Limits!Retained(ips) /\ k \notin DOMAIN byIp')
                               /\ ~(k \in Logins /\ k \in Limits!Retained(logins) /\ k \notin DOMAIN byLogin')
  BY <1>2
<1>4. due' \in [Limits!LimitKeys -> Nat]
  BY <1>2, <1>3
<1>5. clock \in Nat
  BY DEF LimitInv
<1>6. ASSUME NEW k \in Limits!LimitKeys, clock < due'[k] PROVE ByKey(byIp', byLogin', k, due'[k])
  <2>1. due'[k] = ends[k] /\ due'[k] # 0 /\ due'[k] \in Nat
    BY <1>3, <1>4, <1>5, <1>6
  <2>2. CASE k \in Ips /\ LockedUntil(ips, k, ends[k])
    <3>1. k \in DOMAIN ips /\ ips[k].until > clock
      BY <1>5, <1>6, <2>1, <2>2 DEF LockedUntil, KeysOK, KeyOK
    <3>2. k \in Limits!Retained(ips)
      BY <3>1 DEF Limits!Retained
    <3>3. k \in DOMAIN byIp' /\ byIp'[k] = ips[k]
      BY <1>1, <1>3, <2>1, <2>2, <3>2
    <3>4. QED
      BY <2>1, <2>2, <3>3 DEF ByKey, LockedUntil
  <2>3. CASE k \in Logins /\ LockedUntil(logins, k, ends[k])
    <3>1. k \in DOMAIN logins /\ logins[k].until > clock
      BY <1>5, <1>6, <2>1, <2>3 DEF LockedUntil, KeysOK, KeyOK
    <3>2. k \in Limits!Retained(logins)
      BY <3>1 DEF Limits!Retained
    <3>3. k \in DOMAIN byLogin' /\ byLogin'[k] = logins[k]
      BY <1>1, <1>3, <2>1, <2>3, <3>2
    <3>4. QED
      BY <2>1, <2>3, <3>3 DEF ByKey, LockedUntil
  <2>4. QED
    BY <1>6, <2>1, <2>2, <2>3 DEF ByKey
<1>7. KeysOK(byIp') /\ KeysOK(byLogin')
  BY <1>1 DEF KeysOK
<1>8. Limits!LimitKeys' = Limits!LimitKeys
  BY DEF Limits!LimitKeys, Limits!Sources
<1>9. QED
  BY <1>4, <1>6, <1>7, <1>8 DEF LimitInv, LocksKept

LEMMA AttemptKeeps ==
    ASSUME NEW t, NEW k, KeysOK(t)
    PROVE  /\ KeysOK(Limits!Attempted(t, k))
           /\ \A j \in DOMAIN t : j \in DOMAIN Limits!Attempted(t, k) /\ Limits!Attempted(t, k)[j].until = t[j].until
<1> DEFINE e == Limits!At(t, k, Limits!NewKey)
           fresh == e.start = 0 \/ clock - e.start >= Window
           v == IF fresh THEN [e EXCEPT !.start = clock, !.attempts = IF e.start = 0 THEN e.attempts + 1 ELSE 1]
                ELSE [e EXCEPT !.attempts = @ + 1]
<1>1. Limits!Attempted(t, k) = Limits!Put(t, k, v)
  BY DEF Limits!Attempted
<1>2. KeyOK(e) /\ (k \in DOMAIN t => e = t[k])
  BY DEF KeysOK, KeyOK, Limits!At, Limits!NewKey
<1> HIDE DEF e
<1>3. KeyOK(v) /\ v.until = e.until
  BY <1>2 DEF KeyOK
<1> HIDE DEF v
<1>4. /\ DOMAIN Limits!Attempted(t, k) = DOMAIN t \cup {k} /\ Limits!Attempted(t, k)[k] = v
      /\ \A j \in DOMAIN t : j # k => Limits!Attempted(t, k)[j] = t[j]
  BY <1>1 DEF Limits!Put
<1>5. QED
  BY <1>2, <1>3, <1>4 DEF KeysOK

LEMMA FailureKeeps ==
    ASSUME NEW t, NEW k, KeysOK(t), Limits!LimitConstants, clock \in Nat \ {0}
    PROVE  LET u == Limits!Failed(t, k)
           IN  /\ KeysOK(u) /\ k \in DOMAIN u
               /\ \A j \in DOMAIN t : /\ j \in DOMAIN u /\ (j # k => u[j] = t[j])
                                      /\ u[k].failures < Threshold /\ t[j].until > clock => u[j].until = t[j].until
               /\ u[k].failures >= Threshold => u[k].until >= clock + Limits!LockFor(1)
<1> DEFINE e == Limits!At(t, k, Limits!NewKey)
           n == (IF e.last # 0 /\ clock - e.last > Day THEN 0 ELSE e.failures) + 1
           had == IF e.until # 0 /\ clock >= e.until THEN 0 ELSE e.until
           until == IF n >= Threshold THEN clock + Limits!LockFor(n - Threshold + 1) ELSE had
           v == [e EXCEPT !.failures = n, !.last = clock, !.until = until]
           u == Limits!Failed(t, k)
<1>1. u = Limits!Put(t, k, v)
  BY DEF Limits!Failed
<1>2. KeyOK(e) /\ (k \in DOMAIN t => e = t[k])
  BY DEF KeysOK, KeyOK, Limits!At, Limits!NewKey
<1> HIDE DEF e
<1>3. n \in Nat \ {0} /\ had \in Nat /\ (e.until > clock => had = e.until) /\ Threshold \in Nat
  BY <1>2 DEF KeyOK, Limits!LimitConstants
<1> HIDE DEF n, had
<1>4. /\ n >= Threshold => until >= clock + Limits!LockFor(1) /\ until \in Nat
      /\ ~(n >= Threshold) => until = had
  <2>1. CASE n >= Threshold
    <3>1. n - Threshold + 1 \in Nat \ {0} /\ 1 \in Nat \ {0}
      BY <1>3, <2>1
    <3>2. /\ Limits!LockFor(n - Threshold + 1) \in Nat /\ Limits!LockFor(1) \in Nat
          /\ Limits!LockFor(1) <= Limits!LockFor(n - Threshold + 1)
      BY <3>1, LockLengths
    <3>3. QED
      BY <2>1, <3>2
  <2>2. QED
    BY <2>1
<1> HIDE DEF until
<1>5. KeyOK(v) /\ v.failures = n /\ v.until = until
  BY <1>2, <1>3, <1>4 DEF KeyOK
<1> HIDE DEF v
<1>6. DOMAIN u = DOMAIN t \cup {k} /\ u[k] = v /\ \A j \in DOMAIN t : j # k => u[j] = t[j]
  BY <1>1 DEF Limits!Put
<1> HIDE DEF u
<1>7. KeysOK(u)
  BY <1>5, <1>6 DEF KeysOK
<1>8. u[k].failures >= Threshold => u[k].until >= clock + Limits!LockFor(1)
  BY <1>4, <1>5, <1>6
<1>9. ASSUME NEW j \in DOMAIN t
      PROVE  /\ j \in DOMAIN u /\ (j # k => u[j] = t[j])
             /\ u[k].failures < Threshold /\ t[j].until > clock => u[j].until = t[j].until
  <2>1. u[k].failures < Threshold => until = had
    BY <1>3, <1>4, <1>5, <1>6
  <2>2. QED
    BY <1>2, <1>3, <1>5, <1>6, <2>1
<1>10. QED
  BY <1>6, <1>7, <1>8, <1>9 DEF u

LEMMA CountingAtWebmail ==
    ASSUME LimitInv, NEW a \in flights, Limits!LoginCounted(a) PROVE LimitInv'
<1>1. /\ door = "webmail" /\ Limits!WebmailEvict(Limits!Attempted(byIp, a.ip), Limits!Attempted(byLogin, a.login), due)
      /\ UNCHANGED <<door, clock, failures>> /\ flights' = (flights \ {a}) \cup {[a EXCEPT !.at = "verify"]}
  BY DEF Limits!LoginCounted, Limits!WebmailAttempt
<1> DEFINE ips == Limits!Attempted(byIp, a.ip)
           logins == Limits!Attempted(byLogin, a.login)
<1>2. KeysOK(byIp) /\ KeysOK(byLogin) /\ due \in [Limits!LimitKeys -> Nat]
  BY <1>1 DEF LimitInv
<1>3. /\ KeysOK(ips) /\ \A k \in DOMAIN byIp : k \in DOMAIN ips /\ ips[k].until = byIp[k].until
      /\ KeysOK(logins) /\ \A k \in DOMAIN byLogin : k \in DOMAIN logins /\ logins[k].until = byLogin[k].until
  BY <1>2, AttemptKeeps
<1> HIDE DEF ips, logins
<1>4. ASSUME NEW k \in Limits!LimitKeys, clock < due[k] PROVE ByKey(ips, logins, k, due[k])
  <2>1. ByKey(byIp, byLogin, k, due[k])
    BY <1>1, <1>4 DEF LimitInv, LocksKept
  <2>2. QED
    BY <1>3, <2>1 DEF ByKey, LockedUntil
<1>5. \A b \in flights' : FlightOK(b)
  BY <1>1 DEF LimitInv, FlightOK
<1>6. Limits!WebmailEvict(ips, logins, due)
  BY <1>1 DEF ips, logins
<1>7. QED
  BY <1>1, <1>2, <1>3, <1>4, <1>5, <1>6, EvictedTogether

LEMMA FailingAtWebmail ==
    ASSUME LimitInv, Limits!LimitConstants, NEW ip \in Ips, NEW name \in Logins, Limits!WebmailFailure(ip, name),
           UNCHANGED <<door, clock>>, flights' \subseteq flights
    PROVE  LimitInv'
<1> DEFINE ips == Limits!Failed(byIp, ip)
           logins == Limits!Failed(byLogin, name)
           ends == [k \in Limits!LimitKeys |->
                         IF (k = ip /\ ips[k].failures >= Threshold) \/ (k = name /\ logins[k].failures >= Threshold)
                         THEN clock + Limits!LockFor(1) ELSE due[k]]
<1>1. door = "webmail" /\ Limits!WebmailEvict(ips, logins, ends) /\ UNCHANGED failures
  BY DEF Limits!WebmailFailure
<1>2. KeysOK(byIp) /\ KeysOK(byLogin) /\ due \in [Limits!LimitKeys -> Nat] /\ clock \in Nat \ {0} /\ Threshold \in Nat
  BY <1>1 DEF LimitInv, Limits!LimitConstants
<1>3. Limits!LockFor(1) \in Nat
  BY LockLengths
<1>4. /\ KeysOK(ips) /\ ip \in DOMAIN ips
      /\ \A j \in DOMAIN byIp : /\ j \in DOMAIN ips /\ (j # ip => ips[j] = byIp[j])
                                /\ ips[ip].failures < Threshold /\ byIp[j].until > clock => ips[j].until = byIp[j].until
      /\ ips[ip].failures >= Threshold => ips[ip].until >= clock + Limits!LockFor(1)
  BY <1>2, FailureKeeps
<1>5. /\ KeysOK(logins) /\ name \in DOMAIN logins
      /\ \A j \in DOMAIN byLogin : /\ j \in DOMAIN logins /\ (j # name => logins[j] = byLogin[j])
                                   /\ logins[name].failures < Threshold /\ byLogin[j].until > clock => logins[j].until = byLogin[j].until
      /\ logins[name].failures >= Threshold => logins[name].until >= clock + Limits!LockFor(1)
  BY <1>2, FailureKeeps
<1> HIDE DEF ips, logins
<1>6. ends \in [Limits!LimitKeys -> Nat]
  BY <1>2, <1>3
<1>7. ASSUME NEW k \in Limits!LimitKeys, clock < ends[k] PROVE ByKey(ips, logins, k, ends[k])
  <2>1. CASE k = ip /\ ips[k].failures >= Threshold
    BY <1>4, <2>1 DEF ByKey, LockedUntil
  <2>2. CASE k = name /\ logins[k].failures >= Threshold
    BY <1>5, <2>2 DEF ByKey, LockedUntil
  <2>3. CASE ~(k = ip /\ ips[k].failures >= Threshold) /\ ~(k = name /\ logins[k].failures >= Threshold)
    <3>1. ends[k] = due[k] /\ due[k] \in Nat
      BY <1>2, <2>3
    <3>2. ByKey(byIp, byLogin, k, due[k])
      BY <1>1, <1>7, <3>1 DEF LimitInv, LocksKept
    <3>3. CASE k \in Ips /\ LockedUntil(byIp, k, due[k])
      <4>1. k \in DOMAIN byIp /\ byIp[k].until >= due[k] /\ byIp[k].until > clock
        BY <1>2, <1>7, <3>1, <3>3 DEF LockedUntil, KeysOK, KeyOK
      <4>2. k = ip => ips[ip].failures < Threshold
        BY <1>2, <1>4, <2>3 DEF KeysOK, KeyOK
      <4>3. ips[k].until = byIp[k].until
        BY <1>4, <4>1, <4>2
      <4>4. QED
        BY <1>4, <3>1, <3>3, <4>1, <4>3 DEF ByKey, LockedUntil
    <3>4. CASE k \in Logins /\ LockedUntil(byLogin, k, due[k])
      <4>1. k \in DOMAIN byLogin /\ byLogin[k].until >= due[k] /\ byLogin[k].until > clock
        BY <1>2, <1>7, <3>1, <3>4 DEF LockedUntil, KeysOK, KeyOK
      <4>2. k = name => logins[name].failures < Threshold
        BY <1>2, <1>5, <2>3 DEF KeysOK, KeyOK
      <4>3. logins[k].until = byLogin[k].until
        BY <1>5, <4>1, <4>2
      <4>4. QED
        BY <1>5, <3>1, <3>4, <4>1, <4>3 DEF ByKey, LockedUntil
    <3>5. QED
      BY <3>2, <3>3, <3>4 DEF ByKey
  <2>4. QED
    BY <2>1, <2>2, <2>3
<1> HIDE DEF ends
<1>8. \A b \in flights' : FlightOK(b)
  BY DEF LimitInv
<1>9. QED
  BY <1>1, <1>4, <1>5, <1>6, <1>7, <1>8, EvictedTogether

LEMMA SucceedingAtWebmail ==
    ASSUME LimitInv, NEW ip \in Ips, NEW name \in Logins, Limits!WebmailSuccess(ip, name),
           UNCHANGED <<door, clock>>, flights' \subseteq flights
    PROVE  LimitInv'
<1>1. /\ door = "webmail" /\ due' = [due EXCEPT ![name] = 0] /\ UNCHANGED <<byIp, failures>>
      /\ DOMAIN byLogin' = DOMAIN byLogin \ {name} /\ \A k \in DOMAIN byLogin' : byLogin'[k] = byLogin[k]
  BY DEF Limits!WebmailSuccess, Limits!Restrict
<1>2. KeysOK(byIp) /\ KeysOK(byLogin) /\ due \in [Limits!LimitKeys -> Nat] /\ clock \in Nat \ {0} /\ name \in Limits!LimitKeys
  BY <1>1 DEF LimitInv, Limits!LimitKeys
<1>3. due' \in [Limits!LimitKeys -> Nat] /\ KeysOK(byIp') /\ KeysOK(byLogin')
  BY <1>1, <1>2 DEF KeysOK
<1>4. ASSUME NEW k \in Limits!LimitKeys, clock < due'[k] PROVE ByKey(byIp', byLogin', k, due'[k])
  <2>1. k # name /\ due'[k] = due[k]
    BY <1>1, <1>2, <1>4
  <2>2. ByKey(byIp, byLogin, k, due[k])
    BY <1>1, <1>4, <2>1 DEF LimitInv, LocksKept
  <2>3. QED
    BY <1>1, <2>1, <2>2 DEF ByKey, LockedUntil
<1>5. \A b \in flights' : FlightOK(b)
  BY DEF LimitInv
<1>6. Limits!LimitKeys' = Limits!LimitKeys
  BY DEF Limits!LimitKeys, Limits!Sources
<1>7. QED
  BY <1>1, <1>3, <1>4, <1>5, <1>6 DEF LimitInv, LocksKept

LEMMA LimitsSteps ==
    ASSUME LimitInv, Limits!LimitConstants, [Limits!LimitsNext]_(Limits!limitVars) PROVE LimitInv'
<1>1. Limits!LimitKeys' = Limits!LimitKeys
  BY DEF Limits!LimitKeys, Limits!Sources
<1>2. CASE UNCHANGED Limits!limitVars
  BY <1>1, <1>2 DEF Limits!limitVars, LimitInv, LocksKept
<1>3. ASSUME NEW a \in flights, Limits!LoginFails(a) PROVE LimitInv'
  BY <1>3, FailingAtConsole, FailingAtWebmail, FailingAtAccess DEF Limits!LoginFails, LimitInv, FlightOK
<1>4. ASSUME NEW a \in flights, Limits!LoginSucceeds(a) PROVE LimitInv'
  <2>1. a.ip \in Ips /\ a.login \in Logins /\ UNCHANGED <<door, clock>> /\ flights' \subseteq flights
    BY <1>4 DEF Limits!LoginSucceeds, LimitInv, FlightOK
  <2>2. <<a.ip, a.login>> \in Limits!LimitKeys /\ a.login \in Limits!LimitKeys
    BY <2>1 DEF Limits!LimitKeys, Limits!Sources
  <2>3. CASE Limits!ConsoleSuccess(a.ip, a.login)
    BY <2>1, <2>2, <2>3, SucceedingElsewhere DEF Limits!ConsoleSuccess
  <2>4. CASE Limits!AccessSuccess(a.login)
    BY <2>1, <2>2, <2>4, SucceedingElsewhere DEF Limits!AccessSuccess
  <2>5. QED
    BY <1>4, <2>1, <2>3, <2>4, SucceedingAtWebmail DEF Limits!LoginSucceeds
<1>5. ASSUME NEW a \in flights, Limits!LoginAborts(a) PROVE LimitInv'
  BY <1>1, <1>5 DEF Limits!LoginAborts, LimitInv, LocksKept
<1>6. CASE Limits!TimePasses
  <2>1. UNCHANGED <<door, byIp, byLogin, failures, flights, due>> /\ clock' = clock + 1
    BY <1>6 DEF Limits!TimePasses
  <2>2. clock \in Nat \ {0} /\ due \in [Limits!LimitKeys -> Nat]
    BY DEF LimitInv
  <2>3. \A k \in Limits!LimitKeys : clock' < due'[k] => clock < due[k]
    BY <2>1, <2>2
  <2>4. QED
    BY <1>1, <2>1, <2>2, <2>3 DEF LimitInv, LocksKept
<1>7. QED
  BY <1>2, <1>3, <1>4, <1>5, <1>6, Checking, RefusingAtConsole, CountingAtWebmail DEF Limits!LimitsNext

\* Whatever the sizes of the tables and the lengths of the locks: while a lock on an
\* address or a name is due, the next attempt under it is refused, at each of the doors
\* (console, mail access, webmail), although full tables forget entries and attempts that
\* were let through earlier end meanwhile; only a success of its own ends a lock early.
THEOREM LoginLocksHold ==
    ASSUME Limits!LimitConstants
    PROVE  Limits!Spec => []Limits!LockHolds
<1>1. Limits!LimitsInit => LimitInv
  BY LimitInits
<1>2. LimitInv /\ [Limits!LimitsNext]_(Limits!limitVars) => LimitInv'
  BY LimitsSteps
<1>3. LimitInv => Limits!LockHolds
  <2>1. SUFFICES ASSUME LimitInv, NEW k \in Limits!LimitKeys, clock < due[k] PROVE Limits!Refuses(k)
    BY DEF Limits!LockHolds
  <2>2. clock \in Nat /\ due[k] \in Nat
    BY <2>1 DEF LimitInv
  <2>3. CASE door = "webmail"
    <3>1. CASE k \in Ips /\ LockedUntil(byIp, k, due[k])
      <4>1. k \in DOMAIN byIp /\ byIp[k].until > clock
        BY <2>1, <2>2, <2>3, <3>1 DEF LimitInv, LockedUntil, KeysOK, KeyOK
      <4>2. QED
        BY <2>3, <3>1, <4>1 DEF Limits!Refuses, Limits!Verdict, Limits!At
    <3>2. CASE k \in Logins /\ LockedUntil(byLogin, k, due[k])
      <4>1. k \in DOMAIN byLogin /\ byLogin[k].until > clock
        BY <2>1, <2>2, <2>3, <3>2 DEF LimitInv, LockedUntil, KeysOK, KeyOK
      <4>2. QED
        BY <2>3, <3>2, <4>1 DEF Limits!Refuses, Limits!Verdict, Limits!At
    <3>3. QED
      BY <2>1, <2>3, <3>1, <3>2 DEF LimitInv, LocksKept, ByKey
  <2>4. CASE door # "webmail"
    <3>1. k \in DOMAIN failures /\ failures[k].until > clock
      BY <2>1, <2>2, <2>4 DEF LimitInv, LocksKept, LockedUntil, FailuresOK, FailureOK
    <3>2. QED
      BY <2>4, <3>1 DEF Limits!Refuses
  <2>5. QED
    BY <2>3, <2>4
<1>4. QED
  BY <1>1, <1>2, <1>3, PTL DEF Limits!Spec

-----------------------------------------------------------------------------
(***************************************************************************)
(* Signing of outgoing mail (DkimKeys). A pair of key and record that does *)
(* not match is in the hands of a rotation under the selector's lock, or a *)
(* crash left it torn; a delivery that found the stamp a cached key was    *)
(* loaded under has seen that key in the file.                             *)
(***************************************************************************)
CONSTANTS Selectors, MaxKeys, MaxBroken
VARIABLES key, readable, record, locks, setup, rotation, made, cached,
    holder, signing, torn, broken

Dkim == INSTANCE DkimKeys WITH
    Rotators <- Actors, Signers <- Actors

\* A rotation at work holds the lock of its selector; while it does, nobody else
\* touches the pair, and the key it made is newer than the one in the file.
RotationOK(r) ==
    \/ rotation[r] = Dkim!Idle
    \/ /\ DOMAIN rotation[r] = {"at", "s", "apply", "old", "new", "readable"}
       /\ rotation[r].at # "idle" /\ rotation[r].s \in Selectors
       /\ rotation[r].at \in {"stage", "record", "key", "rollback"} => locks[rotation[r].s] = r
       /\ rotation[r].at \in {"stage", "record"} => rotation[r].old = record[rotation[r].s]
       /\ rotation[r].at \in {"record", "key"} =>
             /\ rotation[r].new \in Nat /\ key[rotation[r].s] < rotation[r].new /\ rotation[r].new <= made
       /\ rotation[r].at = "key" => record[rotation[r].s] = rotation[r].new
       /\ rotation[r].at \in {"key", "rollback"} /\ rotation[r].s \notin torn => rotation[r].old = key[rotation[r].s]
       /\ rotation[r].at = "setup" => key[rotation[r].s] # Dkim!NoKey

\* A pair that does not match is in the hands of a rotation, or torn.
PairHeld ==
    \A s \in Selectors \ torn :
       record[s] # key[s] => \E r \in Actors : rotation[r] # Dkim!Idle /\ rotation[r].s = s /\ rotation[r].at \in {"key", "rollback"}

\* The files: keys are numbered as they are made.
KeyFilesOK ==
    /\ DOMAIN key = Selectors /\ DOMAIN record = Selectors /\ DOMAIN locks = Selectors
    /\ DOMAIN rotation = Actors /\ DOMAIN signing = Actors
    /\ made \in Nat /\ \A s \in Selectors : key[s] \in Nat /\ key[s] <= made
    /\ setup # "none" => setup \in Selectors /\ key[setup] # Dkim!NoKey

RotationsInv == KeyFilesOK /\ PairHeld /\ \A r \in Actors : RotationOK(r)

\* A delivery, stage by stage.
SigningOK(d) ==
    \/ signing[d] = Dkim!Idle
    \/ /\ DOMAIN signing[d] = {"at", "ours", "s", "configured", "stamp", "loaded", "seen", "with"}
       /\ signing[d].at # "idle"
       /\ signing[d].at = "policy" => setup \in signing[d].configured
       /\ signing[d].at \in {"stat", "cache", "keep"} =>
             signing[d].s \in Selectors /\ key[signing[d].s] \in signing[d].seen
       /\ signing[d].at \in {"cache", "keep"} => signing[d].stamp \in Nat /\ signing[d].stamp <= key[signing[d].s]
       /\ signing[d].at = "keep" =>
             /\ signing[d].loaded \in Nat /\ signing[d].loaded \in signing[d].seen
             /\ signing[d].stamp <= signing[d].loaded /\ signing[d].loaded <= key[signing[d].s]
       /\ signing[d].at = "signed" => signing[d].with \in signing[d].seen
       /\ signing[d].at = "unsigned" /\ signing[d].ours => "none" \in signing[d].configured

\* A delivery that found the stamp a key was loaded under has seen that key.
Knows(d, of, stamp, k) ==
    signing[d] # Dkim!Idle /\ signing[d].at = "cache" /\ signing[d].s = of /\ signing[d].stamp = stamp => k \in signing[d].seen

\* The cached key is not newer than the file's, and whoever relies on its stamp has seen
\* it.
KeyCacheOK ==
    /\ cached.of \in Selectors =>
          /\ cached.stamp \in Nat /\ cached.key \in Nat
          /\ cached.stamp <= cached.key /\ cached.key <= key[cached.of]
    /\ \A d \in Actors : Knows(d, cached.of, cached.stamp, cached.key)
    /\ \A d, e \in Actors : signing[e] # Dkim!Idle /\ signing[e].at = "keep" =>
          Knows(d, signing[e].s, signing[e].stamp, signing[e].loaded)

SigningInv == KeyCacheOK /\ \A d \in Actors : SigningOK(d)

\* The inductive invariant.
DkimInv == RotationsInv /\ SigningInv

LEMMA DkimInits ==
  ASSUME Dkim!DkimConstants, Dkim!DkimInit
  PROVE  DkimInv
BY DEF Dkim!DkimInit, DkimInv, RotationsInv, SigningInv, KeyFilesOK, PairHeld, RotationOK, SigningOK, KeyCacheOK, Knows,
       Dkim!DkimConstants, Dkim!NoKey

LEMMA DkimImplies ==
  ASSUME Dkim!DkimConstants, DkimInv
  PROVE  Dkim!SignedWithCurrentKey /\ Dkim!RecordMatchesKey
<1>1. Dkim!SignedWithCurrentKey
  BY DEF Dkim!SignedWithCurrentKey, DkimInv, SigningInv, SigningOK, Dkim!Idle
<1>2. Dkim!RecordMatchesKey
  BY DEF Dkim!RecordMatchesKey, DkimInv, RotationsInv, PairHeld, RotationOK, Dkim!DkimConstants
<1>3. QED
  BY <1>1, <1>2

\* The rotations one step leaves alone.
LEMMA OtherRotations ==
  ASSUME Dkim!DkimConstants, RotationsInv, NEW r \in Actors, rotation[r] # Dkim!Idle,
         rotation[r].at \in {"stage", "record", "key", "rollback"},
         made \in Nat, made' \in Nat, made <= made',
         NEW q \in Actors \ {r}, rotation'[q] = rotation[q],
         \A s \in Selectors \ {rotation[r].s} :
            /\ key'[s] = key[s] /\ record'[s] = record[s] /\ locks'[s] = locks[s]
            /\ s \in torn' <=> s \in torn,
         key'[rotation[r].s] = key[rotation[r].s] \/ key'[rotation[r].s] # Dkim!NoKey
  PROVE  RotationOK(q)'
<1>1. RotationOK(q) /\ RotationOK(r)
  BY DEF RotationsInv
<1>2. rotation[q] # Dkim!Idle /\ rotation[q].at \in {"stage", "record", "key", "rollback"} => rotation[q].s # rotation[r].s
  BY <1>1 DEF RotationOK
<1>3. QED
  BY <1>1, <1>2 DEF RotationOK, RotationsInv, KeyFilesOK

LEMMA LockingPair ==
  ASSUME Dkim!DkimConstants, RotationsInv, NEW r \in Actors, Dkim!Lock(r)
  PROVE  RotationsInv'
<1>1. PICK s \in Selectors, apply \in BOOLEAN :
         /\ locks[s] = "none"
         /\ locks' = [locks EXCEPT ![s] = r]
         /\ rotation' = [rotation EXCEPT ![r] = [at |-> "stage", s |-> s, apply |-> apply, old |-> record[s],
                                                 new |-> Dkim!NoKey, readable |-> TRUE]]
  BY DEF Dkim!Lock
<1>2. UNCHANGED <<key, record, setup, made, torn, signing>> /\ rotation[r] = Dkim!Idle
  BY DEF Dkim!Lock
<1>3. \A q \in Actors : RotationOK(q)'
  BY <1>1, <1>2 DEF RotationsInv, RotationOK, KeyFilesOK, Dkim!Idle, Dkim!DkimConstants
<1>4. KeyFilesOK'
  BY <1>1, <1>2 DEF RotationsInv, KeyFilesOK
<1>5. PairHeld'
  BY <1>1, <1>2 DEF RotationsInv, PairHeld, KeyFilesOK
<1>6. QED
  BY <1>3, <1>4, <1>5 DEF RotationsInv

LEMMA StagingPair ==
  ASSUME Dkim!DkimConstants, RotationsInv, NEW r \in Actors, Dkim!Stage(r)
  PROVE  RotationsInv'
<1>1. PICK ok \in BOOLEAN :
         rotation' = [rotation EXCEPT ![r].at = "record", ![r].new = made + 1, ![r].readable = ok]
  BY DEF Dkim!Stage
<1>2. /\ UNCHANGED <<key, record, locks, setup, torn, signing>> /\ made' = made + 1
      /\ rotation[r].at = "stage" /\ rotation[r] # Dkim!Idle
  BY DEF Dkim!Stage, Dkim!Idle
<1>3. KeyFilesOK'
  BY <1>1, <1>2 DEF RotationsInv, KeyFilesOK
<1>4. RotationOK(r) /\ made \in Nat
  BY DEF RotationsInv, KeyFilesOK
<1>5. /\ DOMAIN rotation'[r] = {"at", "s", "apply", "old", "new", "readable"}
      /\ rotation'[r].at = "record" /\ rotation'[r].s = rotation[r].s /\ rotation'[r].old = rotation[r].old
      /\ rotation'[r].new = made + 1
      /\ \A q \in Actors \ {r} : rotation'[q] = rotation[q]
  BY <1>1, <1>2, <1>4 DEF RotationOK, RotationsInv, KeyFilesOK
<1>6. RotationOK(r)'
  <2>1. rotation[r].s \in Selectors /\ key[rotation[r].s] \in Nat /\ key[rotation[r].s] <= made
    BY <1>2, <1>4 DEF RotationOK, RotationsInv, KeyFilesOK
  <2>2. key[rotation[r].s] < made + 1 /\ made + 1 \in Nat
    BY <2>1, <1>4
  <2>3. QED
    BY <1>2, <1>4, <1>5, <2>1, <2>2 DEF RotationOK
<1>7. \A q \in Actors \ {r} : RotationOK(q)'
  BY <1>2, <1>4, <1>5, OtherRotations
<1>8. PairHeld'
  BY <1>2, <1>5 DEF RotationsInv, PairHeld
<1>9. QED
  BY <1>3, <1>6, <1>7, <1>8 DEF RotationsInv

LEMMA PublishingRecord ==
  ASSUME Dkim!DkimConstants, RotationsInv, NEW r \in Actors, Dkim!PublishRecord(r)
  PROVE  RotationsInv'
<1>. DEFINE s == rotation[r].s
<1>1. /\ UNCHANGED <<key, setup, torn, signing, made>>
      /\ rotation[r].at = "record" /\ rotation[r] # Dkim!Idle /\ RotationOK(r) /\ KeyFilesOK
  BY DEF Dkim!PublishRecord, Dkim!Idle, RotationsInv
<1>2. /\ \A q \in Actors \ {r} : rotation'[q] = rotation[q]
      /\ \A u \in Selectors \ {s} : record'[u] = record[u] /\ locks'[u] = locks[u]
      /\ KeyFilesOK'
  BY <1>1 DEF Dkim!PublishRecord, Dkim!End, Dkim!Release, KeyFilesOK
<1>3. \A q \in Actors \ {r} : RotationOK(q)'
  BY <1>1, <1>2, OtherRotations DEF KeyFilesOK
<1>4. CASE /\ record' = [record EXCEPT ![s] = rotation[r].new]
           /\ rotation' = [rotation EXCEPT ![r].at = "key"]
           /\ UNCHANGED locks
  <2>1. /\ rotation'[r] = [rotation[r] EXCEPT !.at = "key"]
        /\ record'[s] = rotation[r].new
    BY <1>1, <1>4 DEF KeyFilesOK, RotationOK
  <2>2. s \notin torn => rotation[r].old = key[s]
    <3>1. ASSUME s \notin torn, NEW q \in Actors, rotation[q] # Dkim!Idle, rotation[q].s = s,
                 rotation[q].at \in {"key", "rollback"}
          PROVE  FALSE
      BY <3>1, <1>1 DEF RotationsInv, RotationOK
    <3>2. QED
      BY <3>1, <1>1 DEF RotationsInv, PairHeld, RotationOK
  <2>3. RotationOK(r)'
    BY <1>1, <1>4, <2>1, <2>2 DEF RotationOK
  <2>4. PairHeld'
    <3>1. SUFFICES ASSUME NEW u \in Selectors \ torn, record'[u] # key[u]
                   PROVE  \E q \in Actors : rotation'[q] # Dkim!Idle /\ rotation'[q].s = u /\ rotation'[q].at \in {"key", "rollback"}
      BY <1>1 DEF PairHeld
    <3>2. CASE u = s
      <4>1. rotation'[r] # Dkim!Idle /\ rotation'[r].s = u /\ rotation'[r].at = "key"
        BY <1>1, <2>1, <3>2 DEF RotationOK, Dkim!Idle
      <4>2. QED
        BY <4>1
    <3>3. CASE u # s
      BY <1>1, <1>2, <3>1, <3>3 DEF RotationsInv, PairHeld
    <3>4. QED
      BY <3>2, <3>3
  <2>5. QED
    BY <1>2, <1>3, <2>3, <2>4 DEF RotationsInv
<1>5. CASE Dkim!End(r, "failed") /\ UNCHANGED record
  <2>1. rotation'[r] = [rotation[r] EXCEPT !.at = "failed"]
    BY <1>1, <1>5 DEF KeyFilesOK, RotationOK, Dkim!End
  <2>2. RotationOK(r)'
    BY <1>1, <1>5, <2>1 DEF RotationOK
  <2>3. PairHeld'
    BY <1>1, <1>2, <1>5 DEF RotationsInv, PairHeld
  <2>4. QED
    BY <1>2, <1>3, <2>2, <2>3 DEF RotationsInv
<1>6. QED
  BY <1>4, <1>5 DEF Dkim!PublishRecord

LEMMA PublishingKey ==
  ASSUME Dkim!DkimConstants, RotationsInv, NEW r \in Actors, Dkim!PublishKey(r)
  PROVE  RotationsInv'
<1>. DEFINE s == rotation[r].s
<1>1. /\ UNCHANGED <<record, setup, made>>
      /\ rotation[r].at = "key" /\ rotation[r] # Dkim!Idle /\ RotationOK(r) /\ KeyFilesOK
  BY DEF Dkim!PublishKey, Dkim!Idle, RotationsInv
<1>2. /\ s \in Selectors /\ key[s] \in Nat /\ rotation[r].new \in Nat /\ key[s] < rotation[r].new
      /\ rotation[r].new <= made /\ record[s] = rotation[r].new /\ rotation[r].new # Dkim!NoKey
  BY <1>1 DEF RotationOK, KeyFilesOK, Dkim!NoKey
<1>3. CASE /\ key' = [key EXCEPT ![s] = rotation[r].new]
           /\ rotation' = [rotation EXCEPT ![r].at = IF rotation[r].apply THEN "setup" ELSE "ok"]
           /\ signing' = Dkim!Noticed(s, rotation[r].new)
           /\ Dkim!Release(r)
           /\ torn' = torn \ {s}
  <2>1. /\ DOMAIN key' = Selectors /\ DOMAIN rotation' = Actors /\ DOMAIN signing' = Actors
        /\ DOMAIN locks' = Selectors
        /\ \A u \in Selectors \ {s} : key'[u] = key[u] /\ locks'[u] = locks[u]
        /\ key'[s] = rotation[r].new
        /\ \A q \in Actors \ {r} : rotation'[q] = rotation[q]
    BY <1>1, <1>2, <1>3 DEF KeyFilesOK, Dkim!Noticed, Dkim!Release
  <2>2. /\ rotation'[r].at \in {"setup", "ok"} /\ rotation'[r].s = s
        /\ DOMAIN rotation'[r] = {"at", "s", "apply", "old", "new", "readable"}
    BY <1>1, <1>3 DEF RotationOK, KeyFilesOK
  <2>3. KeyFilesOK'
    BY <1>1, <1>2, <2>1 DEF KeyFilesOK
  <2>4. \A q \in Actors \ {r} : RotationOK(q)'
    BY <1>1, <1>2, <1>3, <2>1, OtherRotations DEF KeyFilesOK
  <2>5. RotationOK(r)'
    BY <1>1, <1>2, <2>1, <2>2 DEF RotationOK
  <2>6. PairHeld'
    <3>1. SUFFICES ASSUME NEW u \in Selectors \ torn', record[u] # key'[u]
                   PROVE  \E q \in Actors : rotation'[q] # Dkim!Idle /\ rotation'[q].s = u /\ rotation'[q].at \in {"key", "rollback"}
      BY <1>1 DEF PairHeld
    <3>2. u # s /\ u \notin torn
      BY <1>2, <1>3, <2>1, <3>1
    <3>3. QED
      BY <2>1, <3>1, <3>2 DEF RotationsInv, PairHeld
  <2>7. QED
    BY <2>3, <2>4, <2>5, <2>6 DEF RotationsInv
<1>4. CASE /\ rotation' = [rotation EXCEPT ![r].at = "rollback"]
           /\ UNCHANGED <<key, readable, signing, locks, torn>>
  <2>1. /\ rotation'[r] = [rotation[r] EXCEPT !.at = "rollback"]
        /\ \A q \in Actors \ {r} : rotation'[q] = rotation[q]
        /\ KeyFilesOK'
    BY <1>1, <1>4 DEF KeyFilesOK
  <2>2. \A q \in Actors \ {r} : RotationOK(q)'
    BY <1>1, <1>4, <2>1, OtherRotations DEF KeyFilesOK
  <2>3. RotationOK(r)' /\ rotation'[r] # Dkim!Idle /\ rotation'[r].s = s /\ rotation'[r].at = "rollback"
    BY <1>1, <1>4, <2>1 DEF RotationOK, Dkim!Idle
  <2>4. PairHeld'
    BY <1>1, <1>4, <2>1, <2>3 DEF RotationsInv, PairHeld
  <2>5. QED
    BY <2>1, <2>2, <2>3, <2>4 DEF RotationsInv
<1>5. QED
  BY <1>3, <1>4 DEF Dkim!PublishKey

LEMMA RollingRecordBack ==
  ASSUME Dkim!DkimConstants, RotationsInv, NEW r \in Actors, Dkim!RollbackRecord(r)
  PROVE  RotationsInv'
<1>. DEFINE s == rotation[r].s
<1>1. /\ UNCHANGED <<key, setup, made, signing>> /\ Dkim!End(r, "failed")
      /\ rotation[r].at = "rollback" /\ rotation[r] # Dkim!Idle /\ RotationOK(r) /\ KeyFilesOK
      /\ s \in Selectors
  BY DEF Dkim!RollbackRecord, Dkim!Idle, RotationsInv, RotationOK
<1>2. /\ \A q \in Actors \ {r} : rotation'[q] = rotation[q]
      /\ \A u \in Selectors \ {s} : record'[u] = record[u] /\ locks'[u] = locks[u] /\ (u \in torn' <=> u \in torn)
      /\ rotation'[r] = [rotation[r] EXCEPT !.at = "failed"]
      /\ KeyFilesOK'
  BY <1>1 DEF Dkim!RollbackRecord, Dkim!Restored, Dkim!End, Dkim!Release, KeyFilesOK
<1>3. \A q \in Actors \ {r} : RotationOK(q)'
  BY <1>1, <1>2, OtherRotations DEF KeyFilesOK
<1>4. RotationOK(r)'
  BY <1>1, <1>2 DEF RotationOK
<1>5. s \notin torn' => record'[s] = key[s]
  <2>1. s \notin torn => rotation[r].old = key[s]
    BY <1>1 DEF RotationOK
  <2>2. \/ record' = [record EXCEPT ![s] = rotation[r].old] /\ torn' = torn
        \/ torn' = torn \cup {s}
    BY DEF Dkim!RollbackRecord, Dkim!Restored
  <2>3. QED
    BY <1>1, <2>1, <2>2 DEF KeyFilesOK
<1>6. PairHeld'
  BY <1>1, <1>2, <1>5 DEF RotationsInv, PairHeld
<1>7. QED
  BY <1>2, <1>3, <1>4, <1>6 DEF RotationsInv

LEMMA WritingSetup ==
  ASSUME Dkim!DkimConstants, RotationsInv, NEW r \in Actors, Dkim!WriteSetup(r)
  PROVE  RotationsInv'
<1>1. /\ UNCHANGED <<key, record, locks, made, torn>>
      /\ rotation[r].at = "setup" /\ rotation[r] # Dkim!Idle /\ RotationOK(r) /\ KeyFilesOK
  BY DEF Dkim!WriteSetup, Dkim!Idle, RotationsInv
<1>2. \E end \in {"ok", "failed"} : rotation' = [rotation EXCEPT ![r].at = end]
  BY DEF Dkim!WriteSetup
<1>3. /\ rotation'[r].at \in {"ok", "failed"} /\ rotation'[r].s = rotation[r].s
      /\ DOMAIN rotation'[r] = DOMAIN rotation[r]
      /\ \A q \in Actors \ {r} : rotation'[q] = rotation[q]
      /\ DOMAIN rotation' = Actors
  BY <1>1, <1>2 DEF RotationOK, KeyFilesOK
<1>4. KeyFilesOK'
  BY <1>1, <1>3 DEF Dkim!WriteSetup, KeyFilesOK, RotationOK
<1>5. RotationOK(r)'
  BY <1>1, <1>3 DEF RotationOK
<1>6. \A q \in Actors \ {r} : RotationOK(q)'
  BY <1>1, <1>3 DEF RotationOK, RotationsInv
<1>7. PairHeld'
  BY <1>1, <1>3 DEF RotationsInv, PairHeld
<1>8. QED
  BY <1>4, <1>5, <1>6, <1>7 DEF RotationsInv

LEMMA RotationCrashes ==
  ASSUME Dkim!DkimConstants, RotationsInv, NEW r \in Actors, Dkim!Crash(r)
  PROVE  RotationsInv'
<1>. DEFINE s == rotation[r].s
<1>1. /\ UNCHANGED <<key, record, setup, made, signing>> /\ rotation' = [rotation EXCEPT ![r] = Dkim!Idle]
      /\ rotation[r] # Dkim!Idle /\ RotationOK(r) /\ KeyFilesOK
  BY DEF Dkim!Crash, Dkim!Idle, RotationsInv
<1>2. /\ rotation'[r] = Dkim!Idle /\ \A q \in Actors \ {r} : rotation'[q] = rotation[q]
      /\ DOMAIN rotation' = Actors
  BY <1>1 DEF KeyFilesOK
<1>3. CASE rotation[r].at = "setup"
  BY <1>1, <1>2, <1>3 DEF Dkim!Crash, RotationsInv, KeyFilesOK, PairHeld, RotationOK
<1>4. CASE rotation[r].at # "setup"
  <2>1. /\ locks' = [locks EXCEPT ![s] = "none"]
        /\ torn' = IF rotation[r].at \in {"key", "rollback"} THEN torn \cup {s} ELSE torn
        /\ rotation[r].at \in {"stage", "record", "key", "rollback"}
    BY <1>4 DEF Dkim!Crash, Dkim!Release
  <2>2. KeyFilesOK'
    BY <1>1, <1>2, <2>1 DEF KeyFilesOK
  <2>3. \A q \in Actors \ {r} : RotationOK(q)'
    BY <1>1, <1>2, <2>1, OtherRotations DEF KeyFilesOK
  <2>4. PairHeld'
    BY <1>1, <1>2, <2>1 DEF RotationsInv, PairHeld
  <2>5. QED
    BY <1>2, <2>2, <2>3, <2>4 DEF RotationsInv, RotationOK
<1>5. QED
  BY <1>3, <1>4

\* A step that touches neither the deliveries, nor the cache, nor what they read.
LEMMA SigningQuiet ==
  ASSUME SigningInv, UNCHANGED <<key, setup, cached, signing>>
  PROVE  SigningInv'
BY DEF SigningInv, SigningOK, KeyCacheOK, Knows

LEMMA KeyNoticed ==
  ASSUME Dkim!DkimConstants, DkimInv, NEW r \in Actors, Dkim!PublishKey(r)
  PROVE  SigningInv'
<1>. DEFINE s == rotation[r].s
            new == rotation[r].new
<1>1. /\ UNCHANGED <<setup, cached>>
      /\ rotation[r].at = "key" /\ rotation[r] # Dkim!Idle /\ RotationOK(r) /\ KeyFilesOK
  BY DEF Dkim!PublishKey, Dkim!Idle, DkimInv, RotationsInv
<1>2. s \in Selectors /\ key[s] \in Nat /\ new \in Nat /\ key[s] < new
  BY <1>1 DEF RotationOK, KeyFilesOK
<1>3. CASE key' = [key EXCEPT ![s] = new] /\ signing' = Dkim!Noticed(s, new)
  <2>1. /\ \A u \in Selectors : key'[u] \in Nat /\ key[u] \in Nat /\ key[u] <= key'[u] /\ key'[u] \in {key[u], new}
        /\ \A u \in Selectors : u # s => key'[u] = key[u]
        /\ key'[s] = new
    BY <1>1, <1>2, <1>3 DEF KeyFilesOK
  <2>2. \A d \in Actors :
           signing'[d] = IF signing[d] # Dkim!Idle /\ signing[d].s = s
                         THEN [signing[d] EXCEPT !.seen = @ \cup {new}] ELSE signing[d]
    BY <1>3 DEF Dkim!Noticed
  <2>3. ASSUME NEW d \in Actors, signing[d] # Dkim!Idle
        PROVE  /\ signing'[d] # Dkim!Idle
               /\ DOMAIN signing'[d] = DOMAIN signing[d]
               /\ signing'[d].at = signing[d].at /\ signing'[d].ours = signing[d].ours /\ signing'[d].s = signing[d].s
               /\ signing'[d].configured = signing[d].configured /\ signing'[d].stamp = signing[d].stamp
               /\ signing'[d].loaded = signing[d].loaded /\ signing'[d].with = signing[d].with
               /\ signing[d].seen \subseteq signing'[d].seen
               /\ signing[d].s = s => new \in signing'[d].seen
    <3>1. SigningOK(d)
      BY DEF DkimInv, SigningInv
    <3>2. DOMAIN signing[d] = {"at", "ours", "s", "configured", "stamp", "loaded", "seen", "with"} /\ signing[d].at # "idle"
      BY <2>3, <3>1 DEF SigningOK
    <3>3. CASE signing[d].s = s
      BY <2>2, <2>3, <3>2, <3>3 DEF Dkim!Idle
    <3>4. CASE signing[d].s # s
      BY <2>2, <2>3, <3>4
    <3>5. QED
      BY <3>3, <3>4
  <2>4. ASSUME NEW d \in Actors
        PROVE  SigningOK(d)'
    <3>1. SigningOK(d)
      BY DEF DkimInv, SigningInv
    <3>2. CASE signing[d] = Dkim!Idle
      BY <2>2, <3>2 DEF SigningOK
    <3>3. CASE signing[d] # Dkim!Idle
      <4>1. signing[d].at \in {"stat", "cache", "keep"} => signing[d].s \in Selectors /\ key'[signing[d].s] \in signing'[d].seen
        BY <2>1, <2>3, <3>1, <3>3 DEF SigningOK
      <4>2. signing[d].at \in {"cache", "keep"} => signing[d].stamp \in Nat /\ signing[d].stamp <= key'[signing[d].s]
        BY <2>1, <3>1, <3>3 DEF SigningOK
      <4>3. signing[d].at = "keep" => signing[d].loaded <= key'[signing[d].s]
        BY <2>1, <3>1, <3>3 DEF SigningOK
      <4>4. QED
        BY <1>1, <2>3, <3>1, <3>3, <4>1, <4>2, <4>3 DEF SigningOK
    <3>4. QED
      BY <3>2, <3>3
  <2>5. ASSUME NEW d \in Actors, NEW of, NEW stamp, NEW k, Knows(d, of, stamp, k)
        PROVE  Knows(d, of, stamp, k)'
    BY <2>2, <2>3, <2>5 DEF Knows
  <2>6. KeyCacheOK'
    <3>1. cached.of \in Selectors => cached.key \in Nat /\ cached.key <= key'[cached.of]
      BY <2>1 DEF DkimInv, SigningInv, KeyCacheOK
    <3>2. \A d \in Actors : Knows(d, cached.of, cached.stamp, cached.key)'
      BY <1>1, <2>5 DEF DkimInv, SigningInv, KeyCacheOK, Knows
    <3>3. ASSUME NEW d \in Actors, NEW e \in Actors, signing'[e] # Dkim!Idle, signing'[e].at = "keep"
          PROVE  Knows(d, signing[e].s, signing[e].stamp, signing[e].loaded)'
      <4>1. signing[e] # Dkim!Idle /\ signing[e].at = "keep" /\ UNCHANGED <<signing[e].s, signing[e].stamp, signing[e].loaded>>
        BY <2>2, <2>3, <3>3
      <4>2. Knows(d, signing[e].s, signing[e].stamp, signing[e].loaded)
        BY <4>1 DEF DkimInv, SigningInv, KeyCacheOK
      <4>3. QED
        BY <4>1, <4>2, <2>2, <2>3 DEF Knows
    <3>4. QED
      BY <1>1, <3>1, <3>2, <3>3 DEF KeyCacheOK, DkimInv, SigningInv
  <2>7. QED
    BY <2>4, <2>6 DEF SigningInv
<1>4. CASE UNCHANGED <<key, signing>>
  BY <1>1, <1>4, SigningQuiet DEF DkimInv
<1>5. QED
  BY <1>3, <1>4 DEF Dkim!PublishKey

LEMMA SetupNoticed ==
  ASSUME Dkim!DkimConstants, DkimInv, NEW r \in Actors, Dkim!WriteSetup(r)
  PROVE  SigningInv'
<1>1. UNCHANGED <<key, cached>>
  BY DEF Dkim!WriteSetup
<1>2. CASE signing' = [d \in Actors |-> IF signing[d] # Dkim!Idle /\ signing[d].at = "policy"
                                          THEN [signing[d] EXCEPT !.configured = @ \cup {setup'}] ELSE signing[d]]
  <2>1. ASSUME NEW d \in Actors
        PROVE  /\ SigningOK(d)'
               /\ (signing[d] = Dkim!Idle \/ signing[d].at # "policy") => signing'[d] = signing[d]
               /\ signing[d] # Dkim!Idle /\ signing[d].at = "policy" => signing'[d].at = "policy"
    <3>1. SigningOK(d) /\ signing'[d] = IF signing[d] # Dkim!Idle /\ signing[d].at = "policy"
                                          THEN [signing[d] EXCEPT !.configured = @ \cup {setup'}] ELSE signing[d]
      BY <1>2 DEF DkimInv, SigningInv
    <3>2. CASE signing[d] # Dkim!Idle /\ signing[d].at = "policy"
      <4>1. /\ signing'[d].at = "policy" /\ setup' \in signing'[d].configured
            /\ DOMAIN signing'[d] = DOMAIN signing[d]
        BY <3>1, <3>2 DEF SigningOK
      <4>2. QED
        BY <3>1, <3>2, <4>1 DEF SigningOK
    <3>3. CASE ~(signing[d] # Dkim!Idle /\ signing[d].at = "policy")
      BY <1>1, <3>1, <3>3 DEF SigningOK
    <3>4. QED
      BY <3>2, <3>3
  <2>2. KeyCacheOK'
    <3>2. ASSUME NEW e \in Actors, signing'[e] # Dkim!Idle, signing'[e].at = "keep"
          PROVE  signing'[e] = signing[e]
      BY <2>1, <3>2
    <3>3. \A d \in Actors : Knows(d, cached.of, cached.stamp, cached.key)'
      BY <1>1, <2>1 DEF DkimInv, SigningInv, KeyCacheOK, Knows
    <3>4. ASSUME NEW d \in Actors, NEW e \in Actors, signing'[e] # Dkim!Idle, signing'[e].at = "keep"
          PROVE  Knows(d, signing[e].s, signing[e].stamp, signing[e].loaded)'
      <4>1. Knows(d, signing[e].s, signing[e].stamp, signing[e].loaded)
        BY <3>2, <3>4 DEF DkimInv, SigningInv, KeyCacheOK
      <4>2. QED
        BY <4>1, <3>2, <3>4, <2>1 DEF Knows
    <3>5. QED
      BY <1>1, <3>3, <3>4 DEF KeyCacheOK, DkimInv, SigningInv
  <2>3. QED
    BY <2>1, <2>2 DEF SigningInv
<1>3. CASE UNCHANGED <<setup, signing>>
  BY <1>1, <1>3, SigningQuiet DEF DkimInv
<1>4. QED
  BY <1>2, <1>3 DEF Dkim!WriteSetup

\* A step of one delivery that leaves the cache alone.
LEMMA OneDelivery ==
  ASSUME DkimInv, NEW d \in Actors, UNCHANGED <<key, setup, cached>>,
         \A e \in Actors \ {d} : signing'[e] = signing[e],
         SigningOK(d)',
         signing'[d] # Dkim!Idle /\ signing'[d].at = "cache" =>
            /\ Knows(d, cached.of, cached.stamp, cached.key)'
            /\ \A e \in Actors \ {d} : signing[e] # Dkim!Idle /\ signing[e].at = "keep" =>
                  Knows(d, signing[e].s, signing[e].stamp, signing[e].loaded)',
         signing'[d] # Dkim!Idle /\ signing'[d].at = "keep" =>
            \A e \in Actors \ {d} : Knows(e, signing[d].s, signing[d].stamp, signing[d].loaded)'
  PROVE  SigningInv'
<1>1. \A e \in Actors : SigningOK(e)'
  BY DEF DkimInv, SigningInv, SigningOK
<1>2. \A e \in Actors : Knows(e, cached.of, cached.stamp, cached.key)'
  BY DEF DkimInv, SigningInv, KeyCacheOK, Knows
<1>3. ASSUME NEW e \in Actors, NEW f \in Actors, signing'[f] # Dkim!Idle, signing'[f].at = "keep"
      PROVE  Knows(e, signing[f].s, signing[f].stamp, signing[f].loaded)'
  <2>1. CASE f = d /\ e = d
    BY <1>3, <2>1 DEF Knows
  <2>2. CASE f = d /\ e # d
    BY <1>3, <2>2
  <2>3. CASE f # d /\ e = d
    BY <1>3, <2>3 DEF Knows
  <2>4. CASE f # d /\ e # d
    BY <1>3, <2>4 DEF Knows, DkimInv, SigningInv, KeyCacheOK
  <2>5. QED
    BY <2>1, <2>2, <2>3, <2>4
<1>4. QED
  BY <1>1, <1>2, <1>3 DEF SigningInv, KeyCacheOK, DkimInv

LEMMA SigningBegins ==
  ASSUME Dkim!DkimConstants, DkimInv, NEW d \in Actors, Dkim!Begin(d)
  PROVE  SigningInv'
<1>1. UNCHANGED <<key, setup, cached>> /\ DOMAIN signing = Actors
  BY DEF Dkim!Begin, DkimInv, RotationsInv, KeyFilesOK
<1>2. /\ \A e \in Actors \ {d} : signing'[e] = signing[e]
      /\ DOMAIN signing'[d] = {"at", "ours", "s", "configured", "stamp", "loaded", "seen", "with"}
      /\ signing'[d].at = "policy" /\ setup \in signing'[d].configured
  BY <1>1 DEF Dkim!Begin
<1>3. SigningOK(d)'
  BY <1>1, <1>2 DEF SigningOK
<1>4. QED
  BY <1>1, <1>2, <1>3, OneDelivery

LEMMA ReadingPolicy ==
  ASSUME Dkim!DkimConstants, DkimInv, NEW d \in Actors, Dkim!Policy(d)
  PROVE  SigningInv'
<1>1. /\ UNCHANGED <<key, setup, cached>> /\ DOMAIN signing = Actors /\ SigningOK(d) /\ KeyFilesOK
      /\ signing[d].at = "policy" /\ signing[d] # Dkim!Idle
  BY DEF Dkim!Policy, DkimInv, RotationsInv, SigningInv, KeyFilesOK, Dkim!Idle
<1>2. setup \in signing[d].configured /\ (setup # "none" => setup \in Selectors /\ key[setup] # Dkim!NoKey)
  BY <1>1 DEF SigningOK, KeyFilesOK
<1>3. CASE Dkim!Unsigned(d) /\ (setup = "none" \/ ~signing[d].ours)
  <2>1. signing'[d] = [signing[d] EXCEPT !.at = "unsigned"] /\ \A e \in Actors \ {d} : signing'[e] = signing[e]
    BY <1>1, <1>3 DEF Dkim!Unsigned
  <2>2. SigningOK(d)' /\ signing'[d].at = "unsigned"
    BY <1>1, <1>2, <1>3, <2>1 DEF SigningOK
  <2>3. QED
    BY <1>1, <2>1, <2>2, OneDelivery
<1>4. CASE setup # "none" /\ signing' = [signing EXCEPT ![d].at = "stat", ![d].s = setup, ![d].seen = {key[setup]}]
  <2>1. /\ \A e \in Actors \ {d} : signing'[e] = signing[e]
        /\ DOMAIN signing'[d] = DOMAIN signing[d] /\ signing'[d].at = "stat" /\ signing'[d].s = setup
        /\ signing'[d].seen = {key[setup]}
    BY <1>1, <1>4 DEF SigningOK
  <2>2. SigningOK(d)'
    BY <1>1, <1>2, <1>4, <2>1 DEF SigningOK
  <2>3. QED
    BY <1>1, <2>1, <2>2, OneDelivery
<1>5. QED
  BY <1>2, <1>3, <1>4 DEF Dkim!Policy

LEMMA StampingKey ==
  ASSUME Dkim!DkimConstants, DkimInv, NEW d \in Actors, Dkim!Stat(d)
  PROVE  SigningInv'
<1>. DEFINE s == signing[d].s
<1>1. /\ UNCHANGED <<key, setup, cached>> /\ DOMAIN signing = Actors /\ SigningOK(d) /\ KeyFilesOK
      /\ signing[d].at = "stat" /\ signing[d] # Dkim!Idle
      /\ signing' = [signing EXCEPT ![d].at = "cache", ![d].stamp = key[s]]
  BY DEF Dkim!Stat, DkimInv, RotationsInv, SigningInv, KeyFilesOK, Dkim!Idle
<1>2. s \in Selectors /\ key[s] \in Nat /\ key[s] \in signing[d].seen
  BY <1>1 DEF SigningOK, KeyFilesOK
<1>3. /\ \A e \in Actors \ {d} : signing'[e] = signing[e]
      /\ DOMAIN signing'[d] = DOMAIN signing[d] /\ signing'[d].at = "cache" /\ signing'[d].s = s
      /\ signing'[d].seen = signing[d].seen /\ signing'[d].stamp = key[s]
  BY <1>1 DEF SigningOK
<1>4. SigningOK(d)'
  BY <1>1, <1>2, <1>3 DEF SigningOK
<1>5. Knows(d, cached.of, cached.stamp, cached.key)'
  <2>1. ASSUME cached.of = s, cached.stamp = key[s]
        PROVE  cached.key = key[s]
    <3>1. cached.key \in Nat /\ key[s] <= cached.key /\ cached.key <= key[s]
      BY <1>2, <2>1 DEF DkimInv, SigningInv, KeyCacheOK
    <3>2. QED
      BY <1>2, <3>1
  <2>2. QED
    BY <1>1, <1>2, <1>3, <2>1 DEF Knows
<1>6. ASSUME NEW e \in Actors \ {d}, signing[e] # Dkim!Idle, signing[e].at = "keep"
      PROVE  Knows(d, signing[e].s, signing[e].stamp, signing[e].loaded)'
  <2>1. ASSUME signing[e].s = s, signing[e].stamp = key[s]
        PROVE  signing[e].loaded = key[s]
    <3>1. SigningOK(e)
      BY DEF DkimInv, SigningInv
    <3>2. signing[e].loaded \in Nat /\ key[s] <= signing[e].loaded /\ signing[e].loaded <= key[s]
      BY <1>6, <2>1, <3>1 DEF SigningOK
    <3>3. QED
      BY <1>2, <3>2
  <2>2. QED
    BY <1>2, <1>3, <2>1 DEF Knows
<1>7. QED
  BY <1>1, <1>3, <1>4, <1>5, <1>6, OneDelivery

LEMMA LoadingKey ==
  ASSUME Dkim!DkimConstants, DkimInv, NEW d \in Actors, Dkim!Load(d)
  PROVE  SigningInv'
<1>. DEFINE s == signing[d].s
<1>1. /\ UNCHANGED <<key, setup, cached>> /\ DOMAIN signing = Actors /\ SigningOK(d) /\ KeyFilesOK
      /\ signing[d].at = "cache" /\ signing[d] # Dkim!Idle
  BY DEF Dkim!Load, DkimInv, RotationsInv, SigningInv, KeyFilesOK, Dkim!Idle
<1>2. /\ s \in Selectors /\ key[s] \in Nat /\ key[s] \in signing[d].seen
      /\ signing[d].stamp \in Nat /\ signing[d].stamp <= key[s]
  BY <1>1 DEF SigningOK, KeyFilesOK
<1>3. CASE Dkim!Fresh(signing[d]) /\ signing' = [signing EXCEPT ![d].at = "signed", ![d].with = cached.key]
  <2>1. /\ \A e \in Actors \ {d} : signing'[e] = signing[e]
        /\ DOMAIN signing'[d] = DOMAIN signing[d] /\ signing'[d].at = "signed"
        /\ signing'[d].seen = signing[d].seen /\ signing'[d].with = cached.key
    BY <1>1, <1>3 DEF SigningOK
  <2>2. cached.key \in signing[d].seen
    BY <1>1, <1>3 DEF Dkim!Fresh, DkimInv, SigningInv, KeyCacheOK, Knows
  <2>3. SigningOK(d)'
    BY <1>1, <2>1, <2>2 DEF SigningOK
  <2>4. QED
    BY <1>1, <2>1, <2>3, OneDelivery
<1>4. CASE signing' = [signing EXCEPT ![d].at = "keep", ![d].loaded = key[s]]
  <2>1. /\ \A e \in Actors \ {d} : signing'[e] = signing[e]
        /\ DOMAIN signing'[d] = DOMAIN signing[d] /\ signing'[d].at = "keep" /\ signing'[d].s = s
        /\ signing'[d].seen = signing[d].seen /\ signing'[d].loaded = key[s] /\ signing'[d].stamp = signing[d].stamp
    BY <1>1, <1>4 DEF SigningOK
  <2>2. SigningOK(d)'
    BY <1>1, <1>2, <2>1 DEF SigningOK
  <2>3. ASSUME NEW e \in Actors \ {d}
        PROVE  Knows(e, signing[d].s, signing[d].stamp, signing[d].loaded)'
    <3>1. SigningOK(e)
      BY DEF DkimInv, SigningInv
    <3>2. QED
      BY <2>1, <3>1 DEF Knows, SigningOK
  <2>4. QED
    BY <1>1, <2>1, <2>2, <2>3, OneDelivery
<1>5. CASE Dkim!Failed(d)
  <2>1. /\ \A e \in Actors \ {d} : signing'[e] = signing[e]
        /\ DOMAIN signing'[d] = DOMAIN signing[d] /\ signing'[d].at = "deferred"
    BY <1>1, <1>5 DEF SigningOK, Dkim!Failed
  <2>2. SigningOK(d)'
    BY <1>1, <2>1 DEF SigningOK
  <2>3. QED
    BY <1>1, <2>1, <2>2, OneDelivery
<1>6. QED
  BY <1>3, <1>4, <1>5 DEF Dkim!Load

LEMMA KeepingKey ==
  ASSUME Dkim!DkimConstants, DkimInv, NEW d \in Actors, Dkim!Keep(d)
  PROVE  SigningInv'
<1>. DEFINE t == signing[d]
<1>1. /\ UNCHANGED <<key, setup>> /\ DOMAIN signing = Actors /\ SigningOK(d)
      /\ t.at = "keep" /\ t # Dkim!Idle
      /\ signing' = [signing EXCEPT ![d].at = "signed", ![d].with = t.loaded]
      /\ cached' = [of |-> t.s, stamp |-> t.stamp, key |-> t.loaded]
  BY DEF Dkim!Keep, Dkim!StampOf, DkimInv, RotationsInv, SigningInv, KeyFilesOK, Dkim!Idle
<1>2. /\ \A e \in Actors \ {d} : signing'[e] = signing[e]
      /\ DOMAIN signing'[d] = DOMAIN t /\ signing'[d].at = "signed" /\ signing'[d].seen = t.seen
      /\ signing'[d].with = t.loaded
  BY <1>1 DEF SigningOK
<1>3. \A e \in Actors : SigningOK(e)'
  BY <1>1, <1>2 DEF SigningOK, DkimInv, SigningInv
<1>4. cached'.of = t.s /\ cached'.stamp = t.stamp /\ cached'.key = t.loaded
  BY <1>1
<1>5. cached'.of \in Selectors =>
          /\ cached'.stamp \in Nat /\ cached'.key \in Nat
          /\ cached'.stamp <= cached'.key /\ cached'.key <= key'[cached'.of]
  BY <1>1, <1>4 DEF SigningOK
<1>6. ASSUME NEW e \in Actors
      PROVE  Knows(e, cached.of, cached.stamp, cached.key)'
  BY <1>1, <1>2, <1>4 DEF Knows, DkimInv, SigningInv, KeyCacheOK
<1>7. ASSUME NEW e \in Actors, NEW f \in Actors, signing'[f] # Dkim!Idle, signing'[f].at = "keep"
      PROVE  Knows(e, signing[f].s, signing[f].stamp, signing[f].loaded)'
  BY <1>2, <1>7 DEF Knows, DkimInv, SigningInv, KeyCacheOK
<1>8. QED
  BY <1>3, <1>5, <1>6, <1>7 DEF SigningInv, KeyCacheOK

LEMMA HandingKeyOn ==
  ASSUME Dkim!DkimConstants, DkimInv, NEW d \in Actors, Dkim!Handed(d)
  PROVE  SigningInv'
<1>1. /\ UNCHANGED <<key, setup, cached>> /\ signing'[d] = Dkim!Idle
      /\ \A e \in Actors \ {d} : signing'[e] = signing[e]
  BY DEF Dkim!Handed, DkimInv, RotationsInv, KeyFilesOK
<1>2. QED
  BY <1>1, OneDelivery DEF SigningOK

LEMMA DkimSteps ==
  ASSUME Dkim!DkimConstants, DkimInv, [Dkim!DkimNext]_Dkim!dkimVars
  PROVE  DkimInv'
<1>1. ASSUME NEW r \in Actors,
             Dkim!Lock(r) \/ Dkim!Stage(r) \/ Dkim!PublishRecord(r) \/ Dkim!RollbackRecord(r) \/ Dkim!Crash(r)
      PROVE  DkimInv'
  <2>1. UNCHANGED <<key, setup, cached, signing>>
    BY <1>1 DEF Dkim!Lock, Dkim!Stage, Dkim!PublishRecord, Dkim!RollbackRecord, Dkim!Crash
  <2>2. QED
    BY <1>1, <2>1, SigningQuiet, LockingPair, StagingPair, PublishingRecord, RollingRecordBack, RotationCrashes DEF DkimInv
<1>2. ASSUME NEW r \in Actors, Dkim!PublishKey(r) \/ Dkim!WriteSetup(r)
      PROVE  DkimInv'
  BY <1>2, PublishingKey, WritingSetup, KeyNoticed, SetupNoticed DEF DkimInv
<1>3. ASSUME NEW d \in Actors, Dkim!Begin(d) \/ Dkim!Policy(d) \/ Dkim!Stat(d) \/ Dkim!Load(d) \/ Dkim!Keep(d) \/ Dkim!Handed(d)
      PROVE  DkimInv'
  <2>1. UNCHANGED <<key, record, locks, setup, rotation, made, torn>> /\ \E x : signing' = [signing EXCEPT ![d] = x]
    BY <1>3 DEF Dkim!Begin, Dkim!Policy, Dkim!Stat, Dkim!Load, Dkim!Keep, Dkim!Handed, Dkim!Unsigned, Dkim!Failed
  <2>2. RotationsInv'
    BY <2>1 DEF DkimInv, RotationsInv, KeyFilesOK, PairHeld, RotationOK
  <2>3. QED
    BY <1>3, <2>2, SigningBegins, ReadingPolicy, StampingKey, LoadingKey, KeepingKey, HandingKeyOn DEF DkimInv
<1>4. ASSUME UNCHANGED Dkim!dkimVars
      PROVE  DkimInv'
  <2>1. UNCHANGED <<key, record, locks, setup, rotation, made, torn, signing, cached>>
    BY <1>4 DEF Dkim!dkimVars
  <2>2. QED
    BY <2>1, SigningQuiet DEF DkimInv, RotationsInv, KeyFilesOK, PairHeld, RotationOK
<1>5. QED
  BY <1>1, <1>2, <1>3, <1>4 DEF Dkim!DkimNext

\* For any number of rotations and deliveries: a signature is made with a key that was in
\* the selector's file while that delivery signed, in spite of the cache
\* (cached_private_key), mail of the own domain goes unsigned only if the set-up was not
\* done when its delivery began, and whenever no rotation holds the lock the record shown
\* describes the key in use, unless a crash or a failed roll-back came between
\* (rotate_locked).
THEOREM SignedWithItsKey ==
  ASSUME Dkim!DkimConstants
  PROVE  Dkim!Spec => [](Dkim!SignedWithCurrentKey /\ Dkim!RecordMatchesKey)
<1>1. Dkim!DkimInit => DkimInv
  BY DkimInits
<1>2. DkimInv /\ [Dkim!DkimNext]_Dkim!dkimVars => DkimInv'
  BY DkimSteps
<1>3. DkimInv => Dkim!SignedWithCurrentKey /\ Dkim!RecordMatchesKey
  BY DkimImplies
<1>4. QED
  BY <1>1, <1>2, <1>3, PTL DEF Dkim!Spec

-----------------------------------------------------------------------------
(***************************************************************************)
(* Remote delivery (RemoteDelivery). The books of a delivery: who was      *)
(* reported accepted, who is still to do, who of the present group was     *)
(* named to the server, and which servers have the message.                *)
(***************************************************************************)
CONSTANTS Domains, Recipients, Hosts, Prefs, MaxMx, Addresses, AllowPrivate
VARIABLES route, credentials, at, domain, targets, tls, caps, rcpts, named,
    soft, hard, last, accepted, deliveryFailures, verdict, holders,
    lostReply, softened, exposed

Remote == INSTANCE RemoteDelivery WITH
    failures <- deliveryFailures

\* The recipients not dealt with yet, the present group among them.
StillToDo == IF route = "direct" THEN UNION {Remote!InGroup(i) : i \in {j \in DOMAIN Domains : domain <= j}}
           ELSE Remote!Everyone
\* The recipients of the present transaction.
PresentGroup == Remote!Range(Remote!Group)

\* AUTH is spoken under TLS only.
NothingInClear ==
    /\ route \in {"direct", "relay", "relay465"} /\ ~exposed
    /\ (at = "auth" => tls) /\ (at = "ehlo" /\ route = "relay465" => tls)

\* What has been reported so far, and to whom.
ReportedOK ==
    /\ domain \in DOMAIN Domains /\ accepted \subseteq Remote!Everyone
    /\ deliveryFailures \in Seq({"transient", "permanent"})
    /\ at # "done" => /\ accepted \cap StillToDo = {} /\ verdict = "none"
                      /\ deliveryFailures = <<>> => Remote!Everyone \ StillToDo \subseteq accepted
    /\ verdict = "delivered" => accepted = Remote!Everyone

\* The transaction under way.
NamedOK ==
    /\ at \in {"rcpt", "data", "body"} =>
          /\ rcpts \in Seq(Remote!Everyone) /\ named \in Seq(Remote!Everyone)
          /\ Remote!Range(rcpts) \subseteq PresentGroup /\ Remote!Range(named) \subseteq PresentGroup
          /\ ~soft /\ ~hard => PresentGroup \subseteq Remote!Range(named) \cup Remote!Range(rcpts)
    /\ at \in {"data", "body"} => rcpts = <<>>
    /\ at \notin {"rcpt", "data", "body"} => rcpts = <<>> /\ named = <<>> /\ ~soft /\ ~hard

\* Who has the message.
HeldOK ==
    /\ DOMAIN holders = Remote!Everyone
    /\ \A r \in accepted : holders[r] # {}
    /\ ~lostReply => \A r \in Remote!Everyone : IF r \in accepted THEN \E x : holders[r] = {x} ELSE holders[r] = {}

\* The inductive invariant.
DeliveryInv == NothingInClear /\ ReportedOK /\ NamedOK /\ HeldOK

LEMMA GroupFacts ==
  ASSUME Remote!DeliveryConstants, domain \in DOMAIN Domains
  PROVE  /\ Remote!Group \in Seq(Remote!Everyone)
         /\ PresentGroup \subseteq StillToDo /\ StillToDo \subseteq Remote!Everyone
         /\ route # "direct" => PresentGroup = Remote!Everyone
         /\ route = "direct" => PresentGroup = Remote!InGroup(domain)
<1>1. \A i \in DOMAIN Domains : Remote!InGroup(i) \subseteq Remote!Everyone
  BY DEF Remote!Everyone, Remote!Range, Remote!InGroup
<1>2. CASE route = "direct"
  <2>1. Remote!Group = Recipients[Domains[domain]]
    BY <1>2 DEF Remote!Group
  <2>2. PresentGroup = Remote!InGroup(domain)
    BY <2>1 DEF PresentGroup, Remote!InGroup
  <2>3. Remote!Group \in Seq(Remote!Everyone)
    BY <1>1, <2>1 DEF Remote!DeliveryConstants
  <2>4. domain <= domain
    BY DEF Remote!DeliveryConstants
  <2>5. QED
    BY <1>1, <1>2, <2>2, <2>3, <2>4 DEF StillToDo
<1>3. CASE route # "direct"
  BY <1>3 DEF Remote!Group, Remote!DeliveryConstants, PresentGroup, StillToDo
<1>4. QED
  BY <1>2, <1>3

LEMMA SequenceFacts ==
  ASSUME NEW S, NEW s \in Seq(S)
  PROVE  /\ \A x \in S : Append(s, x) \in Seq(S) /\ Remote!Range(Append(s, x)) = Remote!Range(s) \cup {x}
         /\ s # <<>> => /\ Head(s) \in S /\ Tail(s) \in Seq(S)
                        /\ Remote!Range(s) = {Head(s)} \cup Remote!Range(Tail(s))
         /\ s = <<>> => Remote!Range(s) = {}
<1>1. Len(s) \in Nat /\ DOMAIN s = 1..Len(s) /\ \A i \in 1..Len(s) : s[i] \in S
  OBVIOUS
<1>2. ASSUME NEW x \in S
      PROVE  Append(s, x) \in Seq(S) /\ Remote!Range(Append(s, x)) = Remote!Range(s) \cup {x}
  <2>1. /\ Append(s, x) \in Seq(S) /\ DOMAIN Append(s, x) = 1..(Len(s) + 1)
        /\ Append(s, x)[Len(s) + 1] = x /\ \A i \in 1..Len(s) : Append(s, x)[i] = s[i]
    OBVIOUS
  <2>2. 1..(Len(s) + 1) = 1..Len(s) \cup {Len(s) + 1}
    BY <1>1
  <2>3. {Append(s, x)[i] : i \in 1..(Len(s) + 1)} = {s[i] : i \in 1..Len(s)} \cup {x}
    BY <2>1, <2>2
  <2>4. QED
    BY <1>1, <2>1, <2>3 DEF Remote!Range
<1>3. ASSUME s # <<>>
      PROVE  /\ Head(s) \in S /\ Tail(s) \in Seq(S)
             /\ Remote!Range(s) = {Head(s)} \cup Remote!Range(Tail(s))
  <2>1. Head(s) \in S /\ Tail(s) \in Seq(S) /\ Len(s) > 0 /\ Len(Tail(s)) = Len(s) - 1
    BY <1>3
  <2>2. \A i \in 1..Len(s) : i = 1 \/ (i - 1 \in 1..Len(Tail(s)) /\ Tail(s)[i - 1] = s[i])
    BY <1>3, <2>1
  <2>3. \A i \in 1..Len(Tail(s)) : i + 1 \in 1..Len(s) /\ Tail(s)[i] = s[i + 1]
    BY <1>3, <2>1
  <2>4. s[1] = Head(s) /\ 1 \in 1..Len(s) /\ DOMAIN Tail(s) = 1..Len(Tail(s))
    BY <1>1, <1>3, <2>1
  <2>5. {s[i] : i \in 1..Len(s)} \subseteq {Head(s)} \cup {Tail(s)[i] : i \in 1..Len(Tail(s))}
    BY <2>2, <2>4
  <2>6. {Head(s)} \cup {Tail(s)[i] : i \in 1..Len(Tail(s))} \subseteq {s[i] : i \in 1..Len(s)}
    BY <2>3, <2>4
  <2>7. QED
    BY <1>1, <2>1, <2>4, <2>5, <2>6 DEF Remote!Range
<1>4. s = <<>> => Remote!Range(s) = {}
  BY <1>1 DEF Remote!Range
<1>5. QED
  BY <1>2, <1>3, <1>4

LEMMA DeliveryInits ==
  ASSUME Remote!DeliveryConstants, Remote!DeliveryInit
  PROVE  DeliveryInv
<1>1. 1 \in DOMAIN Domains
  BY DEF Remote!DeliveryConstants
<1>2. Remote!Everyone \subseteq StillToDo
  <2>1. \A i \in DOMAIN Domains : domain <= i
    BY DEF Remote!DeliveryConstants, Remote!DeliveryInit
  <2>2. ASSUME NEW r \in Remote!Everyone
        PROVE  \E i \in DOMAIN Domains : r \in Remote!InGroup(i)
    BY DEF Remote!Everyone, Remote!Range, Remote!InGroup
  <2>3. QED
    BY <2>1, <2>2 DEF StillToDo
<1>3. ReportedOK
  BY <1>1, <1>2 DEF ReportedOK, Remote!DeliveryInit
<1>4. QED
  BY <1>3 DEF DeliveryInv, NothingInClear, NamedOK, HeldOK, Remote!DeliveryInit

LEMMA SameCardinality ==
  \A S : Remote!Cardinality(S) = Cardinality(S)
BY DEF Remote!Cardinality, Cardinality

LEMMA DeliveryImplies ==
  ASSUME DeliveryInv
  PROVE  Remote!ReportTrue /\ Remote!NeverInClear
<1>1. ASSUME ~lostReply, NEW r \in Remote!Everyone
      PROVE  Cardinality(holders[r]) = IF r \in accepted THEN 1 ELSE 0
  BY <1>1, FS_EmptySet, FS_Singleton DEF DeliveryInv, HeldOK
<1>2. QED
  BY <1>1, SameCardinality DEF DeliveryInv, NothingInClear, ReportedOK, HeldOK, Remote!ReportTrue, Remote!NeverInClear

\* The end of a group leaves the books in order.
LEMMA GroupEnds ==
  ASSUME Remote!DeliveryConstants, ReportedOK, at # "done", UNCHANGED route,
         NEW acc \in SUBSET PresentGroup, NEW class \in {"none", "transient", "permanent"},
         class = "none" => acc = PresentGroup,
         Remote!GroupOver(acc, class)
  PROVE  ReportedOK' /\ at' \in {"resolve", "done"} /\ accepted' = accepted \cup acc
<1>. DEFINE fs == IF class = "none" THEN deliveryFailures ELSE Append(deliveryFailures, class)
            more == route = "direct" /\ domain < Len(Domains)
<1>1. /\ accepted' = accepted \cup acc /\ deliveryFailures' = fs
      /\ IF more THEN domain' = domain + 1 /\ at' = "resolve" /\ UNCHANGED verdict
         ELSE /\ at' = "done" /\ UNCHANGED domain
              /\ verdict' = IF fs = <<>> THEN "delivered" ELSE Remote!Merged(fs)
  BY DEF Remote!GroupOver
<1>2. domain \in DOMAIN Domains /\ domain \in Nat /\ DOMAIN Domains = 1..Len(Domains) /\ Len(Domains) \in Nat
  BY DEF ReportedOK, Remote!DeliveryConstants
<1>3. /\ PresentGroup \subseteq StillToDo /\ StillToDo \subseteq Remote!Everyone
      /\ route # "direct" => PresentGroup = Remote!Everyone
      /\ route = "direct" => PresentGroup = Remote!InGroup(domain)
  BY <1>2, GroupFacts
<1>4. fs \in Seq({"transient", "permanent"}) /\ (fs = <<>> => class = "none" /\ deliveryFailures = <<>>)
  BY DEF ReportedOK
<1>5. accepted' \subseteq Remote!Everyone
  BY <1>1, <1>3 DEF ReportedOK
<1>6. CASE more
  <2>1. domain' = domain + 1 /\ at' = "resolve" /\ verdict' = "none" /\ domain' \in DOMAIN Domains
    BY <1>1, <1>2, <1>6 DEF ReportedOK
  <2>2. StillToDo' \cap PresentGroup = {} /\ StillToDo \subseteq StillToDo' \cup PresentGroup /\ StillToDo' \subseteq StillToDo
    <3>1. StillToDo = UNION {Remote!InGroup(i) : i \in {j \in DOMAIN Domains : domain <= j}}
      BY <1>6 DEF StillToDo
    <3>2. StillToDo' = UNION {Remote!InGroup(i) : i \in {j \in DOMAIN Domains : domain + 1 <= j}}
      BY <1>6, <2>1 DEF StillToDo, Remote!InGroup
    <3>3. \A j \in DOMAIN Domains : domain <= j <=> (j = domain \/ domain + 1 <= j)
      BY <1>2
    <3>4. \A j \in DOMAIN Domains : domain + 1 <= j => j # domain
      BY <1>2
    <3>5. \A j \in DOMAIN Domains : j # domain => Remote!InGroup(j) \cap Remote!InGroup(domain) = {}
      BY <1>2 DEF Remote!DeliveryConstants
    <3>6. QED
      BY <1>3, <1>6, <3>1, <3>2, <3>3, <3>4, <3>5
  <2>3. accepted' \cap StillToDo' = {}
    BY <1>1, <1>3, <2>2 DEF ReportedOK
  <2>4. deliveryFailures' = <<>> => Remote!Everyone \ StillToDo' \subseteq accepted'
    BY <1>1, <1>4, <2>2 DEF ReportedOK
  <2>5. QED
    BY <1>1, <1>4, <1>5, <2>1, <2>3, <2>4 DEF ReportedOK
<1>7. CASE ~more
  <2>1. at' = "done" /\ domain' = domain /\ verdict' = IF fs = <<>> THEN "delivered" ELSE Remote!Merged(fs)
    BY <1>1, <1>7
  <2>2. StillToDo \subseteq PresentGroup
    <3>1. CASE route = "direct"
      <4>1. \A j \in DOMAIN Domains : domain <= j => j = domain
        BY <1>2, <1>7, <3>1
      <4>2. QED
        BY <3>1, <4>1, <1>3 DEF StillToDo
    <3>2. QED
      BY <3>1, <1>3
  <2>3. Remote!Merged(fs) # "delivered"
    BY DEF Remote!Merged
  <2>4. fs = <<>> => accepted' = Remote!Everyone
    BY <1>1, <1>3, <1>4, <1>5, <2>2 DEF ReportedOK
  <2>5. QED
    BY <1>1, <1>2, <1>4, <1>5, <2>1, <2>3, <2>4 DEF ReportedOK
<1>8. QED
  BY <1>6, <1>7

\* A step within a group: no book is touched.
LEMMA SameGroup ==
  ASSUME ReportedOK, at # "done", at' # "done", UNCHANGED <<route, domain, accepted, deliveryFailures, verdict>>
  PROVE  ReportedOK' /\ PresentGroup' = PresentGroup
BY DEF ReportedOK, StillToDo, PresentGroup, Remote!Group

LEMMA FailureEnds ==
  ASSUME Remote!DeliveryConstants, ReportedOK, at # "done", UNCHANGED route,
         NEW acc \in SUBSET PresentGroup, NEW class \in {"transient", "permanent"},
         Remote!OneFailed(class, acc)
  PROVE  ReportedOK' /\ NamedOK' /\ accepted' = accepted \cup acc /\ at' \in {"connect", "resolve", "done"}
<1>1. rcpts' = <<>> /\ named' = <<>> /\ ~soft' /\ ~hard'
  BY DEF Remote!OneFailed
<1>2. ReportedOK' /\ accepted' = accepted \cup acc /\ at' \in {"connect", "resolve", "done"}
  <2>1. CASE Remote!TriesNext(class, acc)
    <3>1. acc = {} /\ at' = "connect" /\ UNCHANGED <<domain, accepted, deliveryFailures, verdict>>
      BY <2>1 DEF Remote!OneFailed, Remote!TriesNext, Remote!outcome
    <3>2. QED
      BY <3>1, SameGroup
  <2>2. CASE ~Remote!TriesNext(class, acc)
    BY <2>2, GroupEnds DEF Remote!OneFailed
  <2>3. QED
    BY <2>1, <2>2
<1>3. QED
  BY <1>1, <1>2 DEF NamedOK

\* A failure before the message was given up: nothing changed hands.
LEMMA NothingHandedOver ==
  ASSUME Remote!DeliveryConstants, DeliveryInv, at # "done", UNCHANGED <<route, holders, lostReply>>, ~exposed',
         NEW class \in {"transient", "permanent"}, Remote!OneFailed(class, {})
  PROVE  DeliveryInv'
<1>1. ReportedOK' /\ NamedOK' /\ accepted' = accepted \cup {} /\ at' \in {"connect", "resolve", "done"}
  BY FailureEnds DEF DeliveryInv
<1>2. HeldOK'
  BY <1>1 DEF DeliveryInv, HeldOK
<1>3. QED
  BY <1>1, <1>2 DEF DeliveryInv, NothingInClear

LEMMA RefusedClass ==
  \A reply : Remote!Refused(reply) \in {"transient", "permanent"}
BY DEF Remote!Refused

\* The search for servers.
LEMMA GivingUpDelivery ==
  ASSUME Remote!DeliveryConstants, DeliveryInv, at \in {"resolve", "connect"},
         UNCHANGED <<route, tls, rcpts, named, soft, hard, holders, lostReply, exposed>>,
         NEW class \in {"transient", "permanent"}, Remote!GroupOver({}, class)
  PROVE  DeliveryInv'
<1>1. ReportedOK' /\ at' \in {"resolve", "done"} /\ accepted' = accepted \cup {}
  BY GroupEnds DEF DeliveryInv
<1>2. NamedOK' /\ HeldOK' /\ NothingInClear'
  BY <1>1 DEF DeliveryInv, NamedOK, HeldOK, NothingInClear
<1>3. QED
  BY <1>1, <1>2 DEF DeliveryInv

LEMMA GoingOnInGroup ==
  ASSUME Remote!DeliveryConstants, DeliveryInv, at \in {"resolve", "connect"}, at' \in {"connect", "ehlo"},
         at' = "ehlo" => (tls' = (route = "relay465")),
         UNCHANGED <<route, rcpts, named, soft, hard, holders, lostReply, exposed, domain, accepted, deliveryFailures, verdict>>
  PROVE  DeliveryInv'
<1>1. ReportedOK'
  BY SameGroup DEF DeliveryInv
<1>2. NamedOK' /\ HeldOK'
  BY DEF DeliveryInv, NamedOK, HeldOK
<1>3. NothingInClear'
  BY DEF DeliveryInv, NothingInClear
<1>4. QED
  BY <1>1, <1>2, <1>3 DEF DeliveryInv

LEMMA FindingServers ==
  ASSUME Remote!DeliveryConstants, DeliveryInv, Remote!ResolveMx \/ Remote!ResolveRelay \/ Remote!Connect
  PROVE  DeliveryInv'
<1>. USE DEF Remote!setting, Remote!transaction, Remote!truth, Remote!outcome
<1>1. CASE Remote!ResolveMx
  <2>1. /\ at = "resolve" /\ UNCHANGED <<route, tls, rcpts, named, soft, hard, holders, lostReply, exposed>>
        /\ \/ \E class \in {"transient", "permanent"} : Remote!GroupOver({}, class)
           \/ at' = "connect" /\ UNCHANGED <<domain, accepted, deliveryFailures, verdict>>
    BY <1>1 DEF Remote!ResolveMx
  <2>2. QED
    BY <2>1, GivingUpDelivery, GoingOnInGroup
<1>2. CASE Remote!ResolveRelay
  <2>1. /\ at = "resolve" /\ UNCHANGED <<route, tls, rcpts, named, soft, hard, holders, lostReply, exposed>>
        /\ \/ \E class \in {"transient", "permanent"} : Remote!GroupOver({}, class)
           \/ at' = "connect" /\ UNCHANGED <<domain, accepted, deliveryFailures, verdict>>
    BY <1>2 DEF Remote!ResolveRelay
  <2>2. QED
    BY <2>1, GivingUpDelivery, GoingOnInGroup
<1>3. CASE Remote!Connect
  <2>1. /\ at = "connect" /\ UNCHANGED <<route, rcpts, named, soft, hard, holders, lostReply, exposed>>
        /\ \/ /\ at' = "ehlo" /\ tls' = (route = "relay465")
              /\ UNCHANGED <<domain, accepted, deliveryFailures, verdict>>
           \/ at' = at /\ UNCHANGED <<domain, accepted, deliveryFailures, verdict>>
           \/ UNCHANGED tls /\ Remote!GroupOver({}, "transient")
    BY <1>3 DEF Remote!Connect
  <2>2. QED
    BY <2>1, GivingUpDelivery, GoingOnInGroup
<1>4. QED
  BY <1>1, <1>2, <1>3

LEMMA GreetingServer ==
  ASSUME Remote!DeliveryConstants, DeliveryInv, NEW reply \in Remote!Replies
  PROVE  /\ \A offer : Remote!Ehlo(reply, offer) => DeliveryInv'
         /\ Remote!StartTls(reply) => DeliveryInv'
         /\ Remote!Authenticate(reply) => DeliveryInv'
<1>. USE DEF Remote!setting, Remote!transaction, Remote!truth, Remote!outcome, Remote!Stays
<1>1. ASSUME NEW offer, Remote!Ehlo(reply, offer)
      PROVE  DeliveryInv'
  <2>1. CASE reply # "ok"
    <3>1. /\ at = "ehlo" /\ Remote!OneFailed(Remote!Refused(reply), {}) /\ UNCHANGED <<route, holders, lostReply, exposed>>
          /\ ~exposed
      BY <1>1, <2>1 DEF Remote!Ehlo, DeliveryInv, NothingInClear
    <3>2. QED
      BY <3>1, NothingHandedOver, RefusedClass
  <2>2. CASE reply = "ok"
    <3>1. /\ at = "ehlo"
          /\ at' = IF route = "relay" /\ ~tls THEN "starttls"
                   ELSE IF route # "direct" /\ credentials THEN "auth" ELSE "mail"
          /\ UNCHANGED <<route, tls, rcpts, named, soft, hard, holders, lostReply, exposed, domain, accepted, deliveryFailures, verdict>>
      BY <1>1, <2>2 DEF Remote!Ehlo
    <3>2. ReportedOK' /\ NamedOK' /\ HeldOK'
      BY <3>1, SameGroup DEF DeliveryInv, NamedOK, HeldOK
    <3>3. NothingInClear'
      BY <3>1 DEF DeliveryInv, NothingInClear
    <3>4. QED
      BY <3>2, <3>3 DEF DeliveryInv
  <2>3. QED
    BY <2>1, <2>2
<1>2. ASSUME Remote!StartTls(reply)
      PROVE  DeliveryInv'
  <2>1. CASE \E class \in {"transient", "permanent"} : Remote!OneFailed(class, {}) /\ UNCHANGED <<route, holders, lostReply, exposed>>
    <3>1. at = "starttls" /\ ~exposed
      BY <1>2 DEF Remote!StartTls, DeliveryInv, NothingInClear
    <3>2. QED
      BY <2>1, <3>1, NothingHandedOver
  <2>2. CASE /\ tls' = TRUE /\ at' = "ehlo"
             /\ UNCHANGED <<route, rcpts, named, soft, hard, holders, lostReply, exposed, domain, accepted, deliveryFailures, verdict>>
    <3>1. at = "starttls"
      BY <1>2 DEF Remote!StartTls
    <3>2. ReportedOK' /\ NamedOK' /\ HeldOK' /\ NothingInClear'
      BY <2>2, <3>1, SameGroup DEF DeliveryInv, NamedOK, HeldOK, NothingInClear
    <3>3. QED
      BY <3>2 DEF DeliveryInv
  <2>3. QED
    BY <1>2, <2>1, <2>2 DEF Remote!StartTls
<1>3. ASSUME Remote!Authenticate(reply)
      PROVE  DeliveryInv'
  <2>1. at = "auth" /\ ~exposed' /\ UNCHANGED <<route, holders, lostReply>>
    BY <1>3 DEF Remote!Authenticate, DeliveryInv, NothingInClear
  <2>2. CASE \E class \in {"transient", "permanent"} : Remote!OneFailed(class, {})
    BY <2>1, <2>2, NothingHandedOver
  <2>3. CASE at' = "mail" /\ UNCHANGED <<rcpts, named, soft, hard, domain, accepted, deliveryFailures, verdict>>
    <3>1. ReportedOK' /\ NamedOK' /\ HeldOK' /\ NothingInClear'
      BY <2>1, <2>3, SameGroup DEF DeliveryInv, NamedOK, HeldOK, NothingInClear
    <3>2. QED
      BY <3>1 DEF DeliveryInv
  <2>4. QED
    BY <1>3, <2>2, <2>3, RefusedClass DEF Remote!Authenticate
<1>4. QED
  BY <1>1, <1>2, <1>3

LEMMA NamingStep ==
  ASSUME Remote!DeliveryConstants, DeliveryInv, NEW reply \in Remote!Replies
  PROVE  /\ Remote!MailFrom(reply) => DeliveryInv'
         /\ Remote!RcptTo(reply) => DeliveryInv'
         /\ Remote!RcptOver => DeliveryInv'
         /\ Remote!Data(reply) => DeliveryInv'
<1>. USE DEF Remote!setting, Remote!transaction, Remote!truth, Remote!outcome, Remote!Stays
<1>1. ASSUME Remote!MailFrom(reply)
      PROVE  DeliveryInv'
  <2>1. at = "mail" /\ ~exposed /\ UNCHANGED <<route, holders, lostReply, exposed>>
    BY <1>1 DEF Remote!MailFrom, DeliveryInv, NothingInClear
  <2>2. CASE Remote!OneFailed(Remote!Refused(reply), {})
    BY <2>1, <2>2, NothingHandedOver, RefusedClass
  <2>3. CASE at' = "rcpt" /\ rcpts' = Remote!Group /\ UNCHANGED <<named, soft, hard, domain, accepted, deliveryFailures, verdict>>
    <3>1. ReportedOK' /\ PresentGroup' = PresentGroup
      BY <2>1, <2>3, SameGroup DEF DeliveryInv
    <3>2. rcpts' \in Seq(Remote!Everyone) /\ Remote!Range(rcpts') = PresentGroup
      BY <2>3, GroupFacts DEF PresentGroup, DeliveryInv, ReportedOK
    <3>3. named' = <<>> /\ named' \in Seq(Remote!Everyone) /\ Remote!Range(named') = {}
      <4>1. named' = <<>>
        BY <2>1, <2>3 DEF DeliveryInv, NamedOK
      <4>2. <<>> \in Seq(Remote!Everyone)
        OBVIOUS
      <4>3. QED
        BY <4>1, <4>2, SequenceFacts
    <3>4. NamedOK'
      BY <2>1, <2>3, <3>1, <3>2, <3>3 DEF DeliveryInv, NamedOK
    <3>5. HeldOK' /\ NothingInClear'
      BY <2>1, <2>3 DEF DeliveryInv, HeldOK, NothingInClear
    <3>6. QED
      BY <3>1, <3>4, <3>5 DEF DeliveryInv
  <2>4. QED
    BY <1>1, <2>2, <2>3 DEF Remote!MailFrom
<1>2. ASSUME Remote!RcptTo(reply)
      PROVE  DeliveryInv'
  <2>1. at = "rcpt" /\ rcpts # <<>> /\ ~exposed /\ UNCHANGED <<route, holders, lostReply, exposed>>
    BY <1>2 DEF Remote!RcptTo, DeliveryInv, NothingInClear
  <2>2. CASE Remote!OneFailed("transient", {})
    BY <2>1, <2>2, NothingHandedOver
  <2>3. CASE /\ rcpts' = Tail(rcpts)
             /\ named' = IF reply = "ok" THEN Append(named, Head(rcpts)) ELSE named
             /\ soft' = (soft \/ reply = "soft") /\ hard' = (hard \/ reply = "hard")
             /\ reply # "lost"
             /\ UNCHANGED <<at, domain, accepted, deliveryFailures, verdict>>
    <3>1. ReportedOK' /\ PresentGroup' = PresentGroup
      BY <2>1, <2>3, SameGroup DEF DeliveryInv
    <3>2. /\ rcpts \in Seq(Remote!Everyone) /\ named \in Seq(Remote!Everyone)
          /\ Remote!Range(rcpts) \subseteq PresentGroup /\ Remote!Range(named) \subseteq PresentGroup
          /\ ~soft /\ ~hard => PresentGroup \subseteq Remote!Range(named) \cup Remote!Range(rcpts)
      BY <2>1 DEF DeliveryInv, NamedOK
    <3>3. /\ Head(rcpts) \in Remote!Everyone /\ rcpts' \in Seq(Remote!Everyone)
          /\ Remote!Range(rcpts) = {Head(rcpts)} \cup Remote!Range(rcpts')
      BY <2>1, <2>3, <3>2, SequenceFacts
    <3>4. CASE reply = "ok"
      <4>1. /\ named' \in Seq(Remote!Everyone) /\ Remote!Range(named') = Remote!Range(named) \cup {Head(rcpts)}
        BY <2>3, <3>2, <3>3, <3>4, SequenceFacts
      <4>2. QED
        <5>1. ~soft' /\ ~hard' => ~soft /\ ~hard
          BY <2>3
        <5>2. Remote!Range(rcpts') \subseteq PresentGroup /\ Remote!Range(named') \subseteq PresentGroup
          BY <3>2, <3>3, <4>1
        <5>3. ~soft' /\ ~hard' => PresentGroup \subseteq Remote!Range(named') \cup Remote!Range(rcpts')
          BY <3>2, <3>3, <4>1, <5>1
        <5>4. NamedOK'
          BY <2>1, <2>3, <3>1, <3>3, <4>1, <5>2, <5>3 DEF NamedOK
        <5>5. HeldOK' /\ NothingInClear'
          BY <2>1, <2>3 DEF DeliveryInv, HeldOK, NothingInClear
        <5>6. QED
          BY <3>1, <5>4, <5>5 DEF DeliveryInv
    <3>5. CASE reply # "ok"
      <4>1. reply = "soft" \/ reply = "hard"
        BY <2>3, <3>5 DEF Remote!Replies
      <4>2. soft' \/ hard'
        BY <2>3, <4>1
      <4>3. NamedOK'
        BY <2>1, <2>3, <3>1, <3>2, <3>3, <3>5, <4>2 DEF NamedOK
      <4>4. HeldOK' /\ NothingInClear'
        BY <2>1, <2>3 DEF DeliveryInv, HeldOK, NothingInClear
      <4>5. QED
        BY <3>1, <4>3, <4>4 DEF DeliveryInv
    <3>6. QED
      BY <3>4, <3>5
  <2>4. QED
    BY <1>2, <2>2, <2>3 DEF Remote!RcptTo
<1>3. ASSUME Remote!RcptOver
      PROVE  DeliveryInv'
  <2>1. at = "rcpt" /\ rcpts = <<>> /\ ~exposed /\ UNCHANGED <<route, holders, lostReply, exposed>>
    BY <1>3 DEF Remote!RcptOver, DeliveryInv, NothingInClear
  <2>2. CASE \E class \in {"transient", "permanent"} : Remote!OneFailed(class, {})
    BY <2>1, <2>2, NothingHandedOver
  <2>3. CASE at' = "data" /\ UNCHANGED <<rcpts, named, soft, hard, domain, accepted, deliveryFailures, verdict>>
    <3>1. ReportedOK' /\ PresentGroup' = PresentGroup
      BY <2>1, <2>3, SameGroup DEF DeliveryInv
    <3>2. NamedOK' /\ HeldOK' /\ NothingInClear'
      BY <2>1, <2>3, <3>1 DEF DeliveryInv, NamedOK, HeldOK, NothingInClear
    <3>3. QED
      BY <3>1, <3>2 DEF DeliveryInv
  <2>4. QED
    BY <1>3, <2>2, <2>3 DEF Remote!RcptOver
<1>4. ASSUME Remote!Data(reply)
      PROVE  DeliveryInv'
  <2>1. at = "data" /\ ~exposed /\ UNCHANGED <<route, holders, lostReply, exposed>>
    BY <1>4 DEF Remote!Data, DeliveryInv, NothingInClear
  <2>2. CASE Remote!OneFailed(Remote!Refused(reply), {})
    BY <2>1, <2>2, NothingHandedOver, RefusedClass
  <2>3. CASE at' = "body" /\ UNCHANGED <<rcpts, named, soft, hard, domain, accepted, deliveryFailures, verdict>>
    <3>1. ReportedOK' /\ PresentGroup' = PresentGroup
      BY <2>1, <2>3, SameGroup DEF DeliveryInv
    <3>2. NamedOK' /\ HeldOK' /\ NothingInClear'
      BY <2>1, <2>3, <3>1 DEF DeliveryInv, NamedOK, HeldOK, NothingInClear
    <3>3. QED
      BY <3>1, <3>2 DEF DeliveryInv
  <2>4. QED
    BY <1>4, <2>2, <2>3 DEF Remote!Data
<1>5. QED
  BY <1>1, <1>2, <1>3, <1>4

LEMMA HandingMessageOver ==
  ASSUME Remote!DeliveryConstants, DeliveryInv, NEW reply \in Remote!Replies, NEW took \in BOOLEAN,
         Remote!Body(reply, took)
  PROVE  DeliveryInv'
<1>1. /\ at = "body" /\ (reply = "ok" => took) /\ (reply \in {"soft", "hard"} => ~took)
      /\ holders' = IF took THEN Remote!Taken ELSE holders
      /\ lostReply' = (lostReply \/ (reply = "lost" /\ took))
      /\ UNCHANGED <<route, exposed>> /\ ~exposed
  BY DEF Remote!Body, Remote!setting, DeliveryInv, NothingInClear
<1>2. /\ named \in Seq(Remote!Everyone) /\ Remote!Range(named) \subseteq PresentGroup
      /\ ~soft /\ ~hard => Remote!Range(named) = PresentGroup
  <2>1. rcpts = <<>> /\ Remote!Range(rcpts) = {}
    <3>1. rcpts = <<>> /\ rcpts \in Seq(Remote!Everyone)
      BY <1>1 DEF DeliveryInv, NamedOK
    <3>2. QED
      BY <3>1, SequenceFacts
  <2>2. QED
    BY <1>1, <2>1 DEF DeliveryInv, NamedOK
<1>3. PresentGroup \subseteq Remote!Everyone /\ accepted \cap PresentGroup = {} /\ accepted \subseteq Remote!Everyone
  BY <1>1, GroupFacts DEF DeliveryInv, ReportedOK
<1>4. /\ DOMAIN Remote!Taken = Remote!Everyone
      /\ \A r \in Remote!Everyone : holders[r] \subseteq Remote!Taken[r]
      /\ \A r \in Remote!Everyone \ Remote!Range(named) : Remote!Taken[r] = holders[r]
      /\ \A r \in Remote!Range(named) : \E x : Remote!Taken[r] = holders[r] \cup {x}
  BY <1>2, <1>3 DEF Remote!Taken
<1>5. CASE reply = "ok"
  <2>1. holders' = Remote!Taken /\ (~lostReply' => ~lostReply)
    BY <1>1, <1>5
  <2>2. /\ ReportedOK' /\ NamedOK' /\ accepted' = accepted \cup Remote!Range(named)
        /\ at' \in {"connect", "resolve", "done"}
    <3>1. CASE ~soft /\ ~hard
      <4>1. /\ Remote!GroupOver(PresentGroup, "none")
            /\ rcpts' = <<>> /\ named' = <<>> /\ ~soft' /\ ~hard'
        BY <1>5, <3>1 DEF Remote!Body, PresentGroup
      <4>2. ReportedOK' /\ at' \in {"resolve", "done"} /\ accepted' = accepted \cup PresentGroup
        BY <1>1, <4>1, GroupEnds DEF DeliveryInv
      <4>3. QED
        BY <1>2, <3>1, <4>1, <4>2 DEF NamedOK
    <3>2. CASE soft \/ hard
      <4>1. \E class \in {"transient", "permanent"} : Remote!OneFailed(class, Remote!Range(named))
        BY <1>5, <3>2 DEF Remote!Body
      <4>2. QED
        BY <1>1, <1>2, <4>1, FailureEnds DEF DeliveryInv
    <3>3. QED
      BY <3>1, <3>2
  <2>3. \A r \in accepted' : holders'[r] # {}
    BY <1>2, <1>3, <1>4, <2>1, <2>2 DEF DeliveryInv, HeldOK
  <2>4. ASSUME ~lostReply, NEW r \in Remote!Everyone
        PROVE  IF r \in accepted' THEN \E x : holders'[r] = {x} ELSE holders'[r] = {}
    <3>1. IF r \in accepted THEN \E x : holders[r] = {x} ELSE holders[r] = {}
      BY <2>4 DEF DeliveryInv, HeldOK
    <3>2. CASE r \in Remote!Range(named)
      <4>1. r \notin accepted /\ r \in accepted' /\ \E x : holders'[r] = {} \cup {x}
        BY <1>2, <1>3, <1>4, <2>1, <2>2, <3>1, <3>2
      <4>2. QED
        BY <4>1
    <3>3. CASE r \notin Remote!Range(named)
      BY <1>4, <2>1, <2>2, <3>1, <3>3
    <3>4. QED
      BY <3>2, <3>3
  <2>5. HeldOK'
    BY <1>4, <2>1, <2>3, <2>4 DEF HeldOK
  <2>6. QED
    BY <1>1, <2>2, <2>5 DEF DeliveryInv, NothingInClear
<1>6. CASE reply # "ok"
  <2>1. ReportedOK' /\ NamedOK' /\ accepted' = accepted \cup {} /\ at' \in {"connect", "resolve", "done"}
    BY <1>1, <1>6, FailureEnds, RefusedClass DEF Remote!Body, DeliveryInv
  <2>2. HeldOK'
    <3>1. CASE took
      <4>1. reply = "lost"
        BY <1>1, <1>6, <3>1 DEF Remote!Replies
      <4>2. lostReply' /\ holders' = Remote!Taken
        BY <1>1, <3>1, <4>1
      <4>3. \A r \in accepted' : holders'[r] # {}
        BY <1>3, <1>4, <2>1, <4>2 DEF DeliveryInv, HeldOK
      <4>4. QED
        BY <1>4, <4>2, <4>3 DEF HeldOK
    <3>2. CASE ~took
      BY <1>1, <2>1, <3>2 DEF DeliveryInv, HeldOK
    <3>3. QED
      BY <3>1, <3>2
  <2>3. QED
    BY <1>1, <2>1, <2>2 DEF DeliveryInv, NothingInClear
<1>7. QED
  BY <1>5, <1>6

LEMMA DeliverySteps ==
  ASSUME Remote!DeliveryConstants, DeliveryInv, [Remote!DeliveryNext]_Remote!deliveryVars
  PROVE  DeliveryInv'
<1>1. ASSUME UNCHANGED Remote!deliveryVars
      PROVE  DeliveryInv'
  <2>1. UNCHANGED <<route, at, domain, tls, rcpts, named, soft, hard, accepted, deliveryFailures, verdict, holders,
                    lostReply, exposed>>
    BY <1>1 DEF Remote!deliveryVars
  <2>2. StillToDo' = StillToDo /\ PresentGroup' = PresentGroup
    BY <2>1, Zenon DEF StillToDo, PresentGroup, Remote!Group
  <2>3. NothingInClear'
    BY <2>1 DEF DeliveryInv, NothingInClear
  <2>4. ReportedOK'
    BY <2>1, <2>2 DEF DeliveryInv, ReportedOK
  <2>5. NamedOK'
    BY <2>1, <2>2 DEF DeliveryInv, NamedOK
  <2>6. HeldOK'
    BY <2>1 DEF DeliveryInv, HeldOK
  <2>7. QED
    BY <2>3, <2>4, <2>5, <2>6 DEF DeliveryInv
<1>2. CASE Remote!ResolveMx \/ Remote!ResolveRelay \/ Remote!Connect
  BY <1>2, FindingServers
<1>3. ASSUME NEW reply \in Remote!Replies, NEW offer, Remote!Ehlo(reply, offer)
      PROVE  DeliveryInv'
  BY <1>3, GreetingServer
<1>4. ASSUME NEW reply \in Remote!Replies, Remote!StartTls(reply) \/ Remote!Authenticate(reply)
      PROVE  DeliveryInv'
  BY <1>4, GreetingServer
<1>5. ASSUME NEW reply \in Remote!Replies, Remote!MailFrom(reply) \/ Remote!RcptTo(reply) \/ Remote!Data(reply)
      PROVE  DeliveryInv'
  BY <1>5, NamingStep
<1>6. CASE Remote!RcptOver
  <2>1. "ok" \in Remote!Replies
    BY DEF Remote!Replies
  <2>2. QED
    BY <1>6, <2>1, NamingStep
<1>7. ASSUME NEW reply \in Remote!Replies, NEW took \in BOOLEAN, Remote!Body(reply, took)
      PROVE  DeliveryInv'
  BY <1>7, HandingMessageOver
<1>8. QED
  BY <1>1, <1>2, <1>3, <1>4, <1>5, <1>6, <1>7 DEF Remote!DeliveryNext

\* For any grouping of recipients over domains and hosts: a recipient reported as
\* delivered was taken over by a server, by one only, and nobody else was, unless the
\* reply to a whole message was lost; and the relay's password never crosses a connection
\* without TLS.
THEOREM DeliveryReportsTrue ==
  ASSUME Remote!DeliveryConstants
  PROVE  Remote!Spec => []Remote!DeliveryTrue
<1>1. Remote!DeliveryInit => DeliveryInv
  BY DeliveryInits
<1>2. DeliveryInv /\ [Remote!DeliveryNext]_Remote!deliveryVars => DeliveryInv'
  BY DeliverySteps
<1>3. DeliveryInv => Remote!DeliveryTrue
  BY DeliveryImplies DEF Remote!DeliveryTrue
<1>4. QED
  BY <1>1, <1>2, <1>3, PTL DEF Remote!Spec

-----------------------------------------------------------------------------
(***************************************************************************)
(* The LMTP dialogue (Lmtp) implements the hand-off: whatever breaks, the  *)
(* queue hears every recipient's own fate or that the attempt failed. The  *)
(* invariant says, phase by phase of the client, what the server's list,   *)
(* the answers under way and the mailboxes have to do with the recipients  *)
(* the client waits for.                                                   *)
(***************************************************************************)
CONSTANTS Envelopes, Key, Routed, MaxRecipients
VARIABLES envelope, client, server, command, lmtpWire, cut, boxes, result

Dialogue == INSTANCE Lmtp WITH
    wire <- lmtpWire

LmtpAnswers == {Dialogue!NoAnswer, "220", "221", "250", "354", "421", "451", "452", "501", "503", "550", "552"}
EnvelopeNames == {envelope[i] : i \in Dialogue!People}
EnvelopeKeys == {Key[envelope[i]] : i \in Dialogue!People}

LmtpClients == [at : {"connect", "greeting", "lhlo", "mail", "rcpt", "data", "answers", "done"},
            next : Nat \ {0}, pending : Seq(Dialogue!People), slots : [Dialogue!People -> LmtpAnswers]]
LmtpServers == [at : {"down", "accepted", "idle", "reading", "delivering"},
            recipients : Seq(EnvelopeNames), seen : SUBSET EnvelopeKeys, responses : Seq(LmtpAnswers)]
LmtpCommands == {Dialogue!Silence, "LHLO", "MAIL", "RCPT", "DATA", "message", "QUIT"}

LmtpType ==
    /\ envelope \in Envelopes
    /\ client \in LmtpClients /\ server \in LmtpServers
    /\ command \in LmtpCommands /\ lmtpWire \in Seq(LmtpAnswers)
    /\ cut \in BOOLEAN /\ boxes \subseteq EnvelopeKeys
    /\ result \in {"running", "failed", "collected"}

(* The server keeps each mailbox once, and an answer for each recipient it *)
(* has dealt with.                                                         *)
KeptOnce ==
    /\ \A k, l \in 1..Len(server.recipients) :
          Key[server.recipients[k]] = Key[server.recipients[l]] => k = l
    /\ \A k \in 1..Len(server.recipients) :
          Key[server.recipients[k]] \in server.seen /\ Key[server.recipients[k]] \in Routed
    /\ \A box \in server.seen : \E k \in 1..Len(server.recipients) : box = Key[server.recipients[k]]
    /\ server.at # "delivering" => server.responses = <<>>

(* The server's list runs in step with the recipients the client waits     *)
(* for, or has fallen behind for good: a repeated name is not kept.        *)
InStep(waiting) ==
    /\ Len(server.recipients) <= Len(waiting)
    /\ Len(server.recipients) = Len(waiting) =>
          \A k \in 1..Len(waiting) : server.recipients[k] = envelope[waiting[k]]

(* A recipient that was refused: its mailbox is not on the server's list   *)
(* and cannot come on it.                                                  *)
Barred(i) ==
    /\ Key[envelope[i]] \notin Routed \/ i > MaxRecipients
    /\ Key[envelope[i]] \notin server.seen

NamedUpTo(n) ==
    \A box \in server.seen : \E j \in Dialogue!People : j <= n /\ box = Key[envelope[j]]

WaitsFor(i) == \E k \in 1..Len(client.pending) : client.pending[k] = i

AskedUpTo(n) ==
    \A i \in Dialogue!People : i <= n => WaitsFor(i) \/ (~Dialogue!Ok(client.slots[i]) /\ Barred(i))

(* One phase of the client after the other, while the attempt runs *)
AtConnect ==
    /\ server.at = "down" /\ command = Dialogue!Silence /\ lmtpWire = <<>> /\ boxes = {}
    /\ client.next = 1 /\ client.pending = <<>> /\ server.recipients = <<>>

AtOpening ==
    /\ client.next = 1 /\ client.pending = <<>> /\ boxes = {} /\ server.recipients = <<>>
    /\ server.at \in {"accepted", "idle", "down"}
    /\ Len(lmtpWire) <= 1 /\ (lmtpWire # <<>> => command = Dialogue!Silence)
    /\ server.at = "accepted" => lmtpWire = <<>> /\ client.at = "greeting"
    /\ command \in {Dialogue!Silence, IF client.at = "lhlo" THEN "LHLO" ELSE IF client.at = "mail" THEN "MAIL" ELSE Dialogue!Silence}

AtRcpt ==
    /\ client.next <= Len(envelope) /\ boxes = {} /\ server.at \in {"idle", "down"}
    /\ AskedUpTo(client.next - 1) /\ Len(client.pending) < client.next
    /\ \/ /\ command = "RCPT" /\ lmtpWire = <<>>
          /\ InStep(client.pending) /\ NamedUpTo(client.next - 1)
       \/ /\ command = Dialogue!Silence /\ lmtpWire = <<"250">>
          /\ InStep(Append(client.pending, client.next)) /\ NamedUpTo(client.next)
       \/ /\ command = Dialogue!Silence /\ lmtpWire \in {<<"550">>, <<"452">>}
          /\ InStep(client.pending) /\ NamedUpTo(client.next - 1) /\ Barred(client.next)

AtData ==
    /\ boxes = {} /\ client.pending # <<>> /\ AskedUpTo(Len(envelope)) /\ InStep(client.pending)
    /\ \/ command = "DATA" /\ lmtpWire = <<>> /\ server.at \in {"idle", "down"}
       \/ command = Dialogue!Silence /\ lmtpWire = <<"503">> /\ server.at \in {"idle", "down"}
       \/ command = Dialogue!Silence /\ lmtpWire = <<"354">> /\ server.at \in {"reading", "down"}

AtDelivering ==
    /\ server.at = "delivering" /\ lmtpWire = <<>> /\ command = Dialogue!Silence
    /\ boxes \subseteq server.seen
    /\ Len(server.responses) <= Len(server.recipients)
    /\ \A k \in 1..Len(server.recipients) :
          IF k <= Len(server.responses)
          THEN Dialogue!Ok(server.responses[k]) <=> Key[server.recipients[k]] \in boxes
          ELSE Key[server.recipients[k]] \notin boxes

(* The answers are under way, too few of them or one for each recipient.   *)
AnsweredInStep ==
    /\ server.at \in {"idle", "down"} /\ command \in {Dialogue!Silence, "message"}
    /\ Len(lmtpWire) <= Len(client.pending)
    /\ Len(lmtpWire) = Len(client.pending) =>
          /\ \A k \in 1..Len(lmtpWire) : Dialogue!Ok(lmtpWire[k]) <=> Key[envelope[client.pending[k]]] \in boxes
          /\ \A i \in Dialogue!People : WaitsFor(i) \/ (Dialogue!Ok(client.slots[i]) <=> Key[envelope[i]] \in boxes)

AtAnswers ==
    /\ client.pending # <<>>
    /\ \/ /\ server.at = "reading" /\ command = "message" /\ lmtpWire = <<>> /\ boxes = {}
          /\ AskedUpTo(Len(envelope)) /\ InStep(client.pending)
       \/ AtDelivering /\ AskedUpTo(Len(envelope)) /\ InStep(client.pending)
       \/ AnsweredInStep

AllCollected ==
    /\ server.at \in {"idle", "down"} /\ command \in {Dialogue!Silence, "QUIT"}
    /\ \A i \in Dialogue!People : Dialogue!Ok(client.slots[i]) <=> Key[envelope[i]] \in boxes

InDialogue ==
    /\ KeptOnce
    /\ result = "running" => client.at # "done"
    /\ result = "running" /\ client.at = "connect" => AtConnect
    /\ result = "running" /\ client.at \in {"greeting", "lhlo", "mail"} => AtOpening
    /\ result = "running" /\ client.at = "rcpt" => AtRcpt
    /\ result = "running" /\ client.at = "data" => AtData
    /\ result = "running" /\ client.at = "answers" => AtAnswers
    /\ result = "collected" => AllCollected
    /\ result = "failed" => cut

LmtpInv == LmtpType /\ InDialogue

-----------------------------------------------------------------------------
(* Types *)

LEMMA FreshServer ==
  Dialogue!Fresh \in LmtpServers /\ [Dialogue!Fresh EXCEPT !.at = "down"] \in LmtpServers
<1>1. <<>> \in Seq(EnvelopeNames) /\ <<>> \in Seq(LmtpAnswers) /\ {} \in SUBSET EnvelopeKeys
  OBVIOUS
<1>. QED
  BY <1>1 DEF Dialogue!Fresh, LmtpServers

LEMMA ServerMoves ==
  ASSUME NEW s \in LmtpServers, NEW x \in {"down", "accepted", "idle", "reading", "delivering"}
  PROVE  [s EXCEPT !.at = x] \in LmtpServers
BY DEF LmtpServers

LEMMA ClientMoves ==
  ASSUME NEW c \in LmtpClients,
         NEW x \in {"connect", "greeting", "lhlo", "mail", "rcpt", "data", "answers", "done"}
  PROVE  [c EXCEPT !.at = x] \in LmtpClients
BY DEF LmtpClients

LEMMA AnswerNames ==
  {"220", "221", "250", "354", "421", "451", "452", "501", "503", "550", "552"} \subseteq LmtpAnswers
BY DEF LmtpAnswers

LEMMA AnswerTyped ==
  ASSUME LmtpType, NEW a \in {"220", "221", "250", "354", "421", "452", "501", "503", "550"}, Dialogue!Answer(a)
  PROVE  lmtpWire' \in Seq(LmtpAnswers)
<1>1. a \in LmtpAnswers
  BY AnswerNames
<1>. QED
  BY <1>1 DEF Dialogue!Answer, LmtpType

LEMMA TypeInit ==
  ASSUME Dialogue!EnvelopesSound, Dialogue!Init
  PROVE  LmtpType
<1>1. Len(envelope) \in Nat \ {0}
  BY DEF Dialogue!EnvelopesSound, Dialogue!Init
<1>2. client \in LmtpClients
  <2>1. <<>> \in Seq(Dialogue!People)
    OBVIOUS
  <2>2. [i \in 1..Len(envelope) |-> Dialogue!NoAnswer] \in [Dialogue!People -> LmtpAnswers]
    BY DEF Dialogue!People, LmtpAnswers
  <2>. QED
    BY <2>1, <2>2 DEF Dialogue!Init, LmtpClients
<1>3. <<>> \in Seq(LmtpAnswers) /\ {} \subseteq EnvelopeKeys
  OBVIOUS
<1>. QED
  BY <1>2, <1>3, FreshServer DEF Dialogue!Init, LmtpType, LmtpCommands

LEMMA ReadsTyped ==
  ASSUME LmtpType, Dialogue!Waiting
  PROVE  Head(lmtpWire) \in LmtpAnswers /\ lmtpWire' \in Seq(LmtpAnswers)
BY DEF LmtpType, Dialogue!Waiting

LEMMA TypeNext ==
  ASSUME Dialogue!EnvelopesSound, LmtpType, InDialogue, Dialogue!Next
  PROVE  LmtpType'
<1>len. Len(envelope) \in Nat \ {0}
  BY DEF Dialogue!EnvelopesSound, LmtpType
<1>env. envelope' = envelope
  BY DEF Dialogue!Next, Dialogue!Connect, Dialogue!ReadGreeting, Dialogue!ReadLhlo, Dialogue!ReadMail, Dialogue!Opening, Dialogue!ReadRcpt, Dialogue!ReadData, Dialogue!ReadAnswer,
         Dialogue!ReadFails, Dialogue!Greet, Dialogue!HandleLhlo, Dialogue!HandleMail, Dialogue!HandleRcpt, Dialogue!HandleData, Dialogue!ReadMessage,
         Dialogue!DeliverNext, Dialogue!WriteAnswers, Dialogue!HandleQuit, Dialogue!ServerGone
<1>same. LmtpClients' = LmtpClients /\ LmtpServers' = LmtpServers /\ EnvelopeKeys' = EnvelopeKeys
  BY <1>env DEF LmtpClients, LmtpServers, Dialogue!People, EnvelopeNames, EnvelopeKeys
<1>in. \A i \in Dialogue!People : envelope[i] \in EnvelopeNames /\ Key[envelope[i]] \in EnvelopeKeys
  BY DEF EnvelopeNames, EnvelopeKeys
<1> SUFFICES /\ client' \in LmtpClients /\ server' \in LmtpServers /\ command' \in LmtpCommands
             /\ lmtpWire' \in Seq(LmtpAnswers) /\ cut' \in BOOLEAN /\ boxes' \subseteq EnvelopeKeys
             /\ result' \in {"running", "failed", "collected"}
  BY <1>env, <1>same DEF LmtpType
<1> USE DEF LmtpType, LmtpCommands
<1>1. CASE Dialogue!Connect
  BY <1>1, ClientMoves, ServerMoves DEF Dialogue!Connect
<1>2. ASSUME NEW phase, NEW c \in {"LHLO", "MAIL", "RCPT"}, NEW then \in {"lhlo", "mail", "rcpt"},
             Dialogue!Opening(phase, c, then)
      PROVE  /\ client' \in LmtpClients /\ server' \in LmtpServers /\ command' \in LmtpCommands
             /\ lmtpWire' \in Seq(LmtpAnswers) /\ cut' \in BOOLEAN /\ boxes' \subseteq EnvelopeKeys
             /\ result' \in {"running", "failed", "collected"}
  <2>1. Dialogue!Waiting
    BY <1>2 DEF Dialogue!Opening
  <2>. QED
    BY <1>2, <2>1, ReadsTyped, ClientMoves DEF Dialogue!Opening, Dialogue!Send, Dialogue!Abandon
<1>3. CASE Dialogue!ReadGreeting \/ Dialogue!ReadLhlo \/ Dialogue!ReadMail
  BY <1>2, <1>3 DEF Dialogue!ReadGreeting, Dialogue!ReadLhlo, Dialogue!ReadMail
<1>4. CASE Dialogue!ReadRcpt
  <2>0. Dialogue!Waiting
    BY <1>4 DEF Dialogue!ReadRcpt
  <2>1. client.next \in Dialogue!People /\ client.next \in Nat \ {0}
    BY <1>4, <1>len DEF Dialogue!ReadRcpt, InDialogue, AtRcpt, Dialogue!Waiting, Dialogue!People, LmtpClients
  <2>2. Dialogue!PendingAfter(Head(lmtpWire), client.next) \in Seq(Dialogue!People)
    BY <2>1 DEF Dialogue!PendingAfter, LmtpClients
  <2>3. [client EXCEPT !.next = client.next + 1,
                       !.pending = Dialogue!PendingAfter(Head(lmtpWire), client.next),
                       !.slots[client.next] = IF Dialogue!Ok(Head(lmtpWire)) THEN @ ELSE Head(lmtpWire)] \in LmtpClients
    <3> DEFINE answer == IF Dialogue!Ok(Head(lmtpWire)) THEN client.slots[client.next] ELSE Head(lmtpWire)
    <3>1. answer \in LmtpAnswers
      BY <2>0, <2>1, ReadsTyped DEF LmtpClients
    <3>2. \A a \in LmtpAnswers : [client.slots EXCEPT ![client.next] = a] \in [Dialogue!People -> LmtpAnswers]
      BY DEF LmtpClients
    <3>3. [client.slots EXCEPT ![client.next] = answer] \in [Dialogue!People -> LmtpAnswers]
      BY <3>1, <3>2, Zenon
    <3>4. client.next + 1 \in Nat \ {0}
      BY <2>1
    <3>. QED
      BY <2>2, <3>3, <3>4 DEF LmtpClients
  <2>. QED
    BY <1>4, <2>0, <2>3, ReadsTyped, ClientMoves DEF Dialogue!ReadRcpt
<1>5. CASE Dialogue!ReadData
  <2>1. Dialogue!Waiting
    BY <1>5 DEF Dialogue!ReadData
  <2>. QED
    BY <1>5, <2>1, ReadsTyped, ClientMoves DEF Dialogue!ReadData, Dialogue!Send, Dialogue!Abandon
<1>6. CASE Dialogue!ReadAnswer
  <2>0. Dialogue!Waiting
    BY <1>6 DEF Dialogue!ReadAnswer
  <2>1. client.pending # <<>>
    BY <1>6 DEF Dialogue!ReadAnswer, InDialogue, AtAnswers, Dialogue!Waiting
  <2>2. Dialogue!SlotOfAnswer \in Dialogue!People /\ Tail(client.pending) \in Seq(Dialogue!People)
    BY <2>1 DEF Dialogue!SlotOfAnswer, LmtpClients
  <2>3. [client EXCEPT !.slots[Dialogue!SlotOfAnswer] = Head(lmtpWire), !.pending = Tail(@)] \in LmtpClients
    BY <2>0, <2>2, ReadsTyped DEF LmtpClients
  <2>. QED
    BY <1>6, <2>0, <2>3, ReadsTyped, ClientMoves DEF Dialogue!ReadAnswer
<1>7. CASE Dialogue!ReadFails
  BY <1>7 DEF Dialogue!ReadFails
<1>8. CASE Dialogue!Greet
  <2>1. Dialogue!Answer("220") \/ Dialogue!Answer("421")
    BY <1>8 DEF Dialogue!Greet, Dialogue!Answer
  <2>. QED
    BY <1>8, <2>1, ServerMoves, AnswerTyped DEF Dialogue!Greet
<1>9. CASE Dialogue!HandleLhlo \/ Dialogue!HandleMail \/ Dialogue!HandleQuit
  <2>1. CASE Dialogue!HandleLhlo
    BY <2>1, FreshServer, AnswerTyped DEF Dialogue!HandleLhlo, Dialogue!Handles
  <2>2. CASE Dialogue!HandleMail
    BY <2>2, FreshServer, AnswerTyped DEF Dialogue!HandleMail, Dialogue!Handles
  <2>3. CASE Dialogue!HandleQuit
    BY <2>3, FreshServer, AnswerTyped DEF Dialogue!HandleQuit, Dialogue!Handles
  <2>. QED
    BY <1>9, <2>1, <2>2, <2>3
<1>10. CASE Dialogue!HandleRcpt
  <2>1. client.next \in Dialogue!People
    BY <1>10, <1>len DEF Dialogue!HandleRcpt, Dialogue!Handles, InDialogue, AtConnect, AtOpening, AtRcpt, AtData, AtAnswers,
                         AtDelivering, AnsweredInStep, AllCollected, Dialogue!People, Dialogue!Silence, LmtpClients
  <2>2. [server EXCEPT !.seen = @ \cup {Key[envelope[client.next]]},
                       !.recipients = Append(@, envelope[client.next])] \in LmtpServers
    <3>1. \A a \in EnvelopeNames, k \in EnvelopeKeys :
             server.seen \cup {k} \in SUBSET EnvelopeKeys /\ Append(server.recipients, a) \in Seq(EnvelopeNames)
      BY DEF LmtpServers
    <3>2. /\ server.seen \cup {Key[envelope[client.next]]} \in SUBSET EnvelopeKeys
          /\ Append(server.recipients, envelope[client.next]) \in Seq(EnvelopeNames)
      BY <2>1, <3>1, <1>in
    <3>. QED
      BY <3>2 DEF LmtpServers
  <2>. QED
    BY <1>10, <2>2, AnswerTyped DEF Dialogue!HandleRcpt, Dialogue!Handles
<1>11. CASE Dialogue!HandleData
  BY <1>11, ServerMoves, AnswerTyped DEF Dialogue!HandleData, Dialogue!Handles
<1>12. CASE Dialogue!ReadMessage
  <2>1. Len(server.recipients) \in Nat
    BY DEF LmtpServers
  <2>2. [i \in 1..Len(server.recipients) |-> "552"] \in Seq(LmtpAnswers)
    <3>1. "552" \in LmtpAnswers
      BY AnswerNames
    <3>. QED
      BY <2>1, <3>1
  <2>3. lmtpWire \o [i \in 1..Len(server.recipients) |-> "552"] \in Seq(LmtpAnswers)
    BY <2>2
  <2>. QED
    BY <1>12, <2>3, ServerMoves, FreshServer DEF Dialogue!ReadMessage
<1>13. CASE Dialogue!DeliverNext
  <2> DEFINE box == Key[server.recipients[Len(server.responses) + 1]]
  <2>1. ASSUME NEW a \in LmtpAnswers PROVE [server EXCEPT !.responses = Append(@, a)] \in LmtpServers
    <3>1. Append(server.responses, a) \in Seq(LmtpAnswers)
      BY DEF LmtpServers
    <3>. QED
      BY <3>1 DEF LmtpServers
  <2>2. box \in EnvelopeKeys
    <3>1. server.recipients[Len(server.responses) + 1] \in EnvelopeNames
      BY <1>13 DEF Dialogue!DeliverNext, LmtpServers
    <3>. QED
      BY <3>1 DEF EnvelopeNames, EnvelopeKeys
  <2>. QED
    BY <1>13, <2>1, <2>2, AnswerNames DEF Dialogue!DeliverNext
<1>14. CASE Dialogue!WriteAnswers
  <2>1. lmtpWire \o server.responses \in Seq(LmtpAnswers)
    BY DEF LmtpServers
  <2>. QED
    BY <1>14, <2>1, FreshServer DEF Dialogue!WriteAnswers
<1>15. CASE Dialogue!ServerGone
  BY <1>15, FreshServer DEF Dialogue!ServerGone
<1>. QED
  BY <1>1, <1>3, <1>4, <1>5, <1>6, <1>7, <1>8, <1>9, <1>10, <1>11, <1>12, <1>13, <1>14, <1>15 DEF Dialogue!Next

-----------------------------------------------------------------------------
(* The dialogue *)

LEMMA PhasesInit ==
  ASSUME Dialogue!EnvelopesSound, Dialogue!Init
  PROVE  InDialogue
BY DEF Dialogue!EnvelopesSound, Dialogue!Init, InDialogue, KeptOnce, AtConnect, Dialogue!Fresh

LEMMA FreshOnce ==
  ASSUME server' = Dialogue!Fresh \/ server' = [Dialogue!Fresh EXCEPT !.at = "down"]
  PROVE  KeptOnce'
BY DEF KeptOnce, Dialogue!Fresh

LEMMA ServerSame ==
  ASSUME KeptOnce, LmtpType, server.at # "delivering",
         NEW x, server' = [server EXCEPT !.at = x]
  PROVE  KeptOnce'
<1>1. /\ server'.recipients = server.recipients /\ server'.seen = server.seen
      /\ server'.responses = server.responses
  BY DEF LmtpType, LmtpServers
<1>. QED
  BY <1>1 DEF KeptOnce

LEMMA ClientKeeps ==
  ASSUME KeptOnce, server' = server
  PROVE  KeptOnce'
BY DEF KeptOnce

LEMMA OneAnswer ==
  ASSUME NEW a
  PROVE  /\ Head(<<a>>) = a /\ Tail(<<a>>) = <<>> /\ <<a>> # <<>>
         /\ Append(<<>>, a) = <<a>> /\ Len(<<a>>) = 1 /\ Len(<<>>) = 0
OBVIOUS

LEMMA ConnectKeeps ==
  ASSUME Dialogue!EnvelopesSound, LmtpType, InDialogue, Dialogue!Connect
  PROVE  InDialogue'
<1>1. KeptOnce'
  BY ServerSame, ClientKeeps DEF Dialogue!Connect, InDialogue, AtConnect
<1>. QED
  BY <1>1 DEF Dialogue!Connect, InDialogue, AtConnect, AtOpening, LmtpType, LmtpClients, LmtpServers

LEMMA OpeningKeeps ==
  ASSUME Dialogue!EnvelopesSound, LmtpType, InDialogue, Dialogue!ReadGreeting \/ Dialogue!ReadLhlo
  PROVE  InDialogue'
<1>1. KeptOnce'
  BY ClientKeeps DEF Dialogue!ReadGreeting, Dialogue!ReadLhlo, Dialogue!Opening, InDialogue
<1>. QED
  BY <1>1 DEF Dialogue!ReadGreeting, Dialogue!ReadLhlo, Dialogue!Opening, Dialogue!Waiting, Dialogue!Send, Dialogue!Abandon, InDialogue, AtOpening, LmtpType, LmtpClients

LEMMA ReadMailKeeps ==
  ASSUME Dialogue!EnvelopesSound, LmtpType, InDialogue, Dialogue!ReadMail
  PROVE  InDialogue'
<1>1. KeptOnce'
  BY ClientKeeps DEF Dialogue!ReadMail, Dialogue!Opening, InDialogue
<1>len. Len(envelope) \in Nat \ {0}
  BY DEF Dialogue!EnvelopesSound, LmtpType
<1>2. CASE ~Dialogue!Ok(Head(lmtpWire))
  BY <1>1, <1>2 DEF Dialogue!ReadMail, Dialogue!Opening, Dialogue!Waiting, Dialogue!Abandon, InDialogue
<1>3. CASE Dialogue!Ok(Head(lmtpWire))
  <2>1. /\ result' = "running" /\ client'.at = "rcpt" /\ command' = "RCPT" /\ lmtpWire' = <<>>
        /\ client'.next = 1 /\ client'.pending = <<>> /\ server'.recipients = <<>>
        /\ server'.at \in {"idle", "down"} /\ boxes' = {} /\ envelope' = envelope
    BY <1>3 DEF Dialogue!ReadMail, Dialogue!Opening, Dialogue!Waiting, Dialogue!Send, InDialogue, AtOpening, LmtpType, LmtpClients
  <2>2. server'.seen = {}
    BY <2>1, <1>1 DEF KeptOnce
  <2>3. AtRcpt'
    BY <2>1, <2>2, <1>len DEF AtRcpt, AskedUpTo, InStep, NamedUpTo, Dialogue!People
  <2>. QED
    BY <1>1, <2>1, <2>3 DEF InDialogue
<1>. QED
  BY <1>2, <1>3

LEMMA ReadRcptKeeps ==
  ASSUME Dialogue!EnvelopesSound, LmtpType, InDialogue, Dialogue!ReadRcpt
  PROVE  InDialogue'
<1>i. PICK i : i = client.next
  OBVIOUS
<1>w. PICK waiting : waiting = Dialogue!PendingAfter(Head(lmtpWire), i)
  OBVIOUS
<1>len. Len(envelope) \in Nat \ {0}
  BY DEF Dialogue!EnvelopesSound, LmtpType
<1>1. KeptOnce' /\ server' = server /\ boxes' = boxes /\ envelope' = envelope
  BY ClientKeeps DEF Dialogue!ReadRcpt, InDialogue
<1>2. AtRcpt /\ result = "running" /\ lmtpWire # <<>> /\ lmtpWire' = Tail(lmtpWire)
  BY DEF Dialogue!ReadRcpt, Dialogue!Waiting, InDialogue
<1>3. i \in Dialogue!People /\ i \in Nat \ {0} /\ client.pending \in Seq(Dialogue!People) /\ client.slots \in [Dialogue!People -> LmtpAnswers]
  BY <1>i, <1>2, <1>len DEF AtRcpt, Dialogue!People, LmtpType, LmtpClients
<1>4. lmtpWire' = <<>> /\ Head(lmtpWire) \in {"250", "550", "452"}
  BY <1>2, OneAnswer DEF AtRcpt
<1>5. /\ client'.next = i + 1 /\ client'.pending = waiting
      /\ client'.slots = [client.slots EXCEPT ![i] = IF Dialogue!Ok(Head(lmtpWire)) THEN @ ELSE Head(lmtpWire)]
  BY <1>i, <1>w DEF Dialogue!ReadRcpt, LmtpType, LmtpClients
<1>6. InStep(waiting) /\ NamedUpTo(i) /\ Len(waiting) < i + 1
  <2>1. CASE Head(lmtpWire) = "250"
    <3>1. waiting = Append(client.pending, i) /\ lmtpWire = <<"250">>
      BY <2>1, <1>2, <1>i, <1>w, OneAnswer DEF Dialogue!PendingAfter, Dialogue!Ok, AtRcpt
    <3>. QED
      BY <3>1, <1>i, <1>2, <1>3 DEF AtRcpt
  <2>2. CASE Head(lmtpWire) # "250"
    <3>1. waiting = client.pending /\ InStep(client.pending) /\ NamedUpTo(i - 1)
      BY <2>2, <1>2, <1>4, <1>i, <1>w, OneAnswer DEF Dialogue!PendingAfter, Dialogue!Ok, AtRcpt
    <3>. QED
      BY <3>1, <1>i, <1>2, <1>3 DEF AtRcpt, NamedUpTo, Dialogue!People
  <2>. QED
    BY <2>1, <2>2
<1>7. ASSUME NEW j \in Dialogue!People, j <= i
      PROVE  WaitsFor(j)' \/ (~Dialogue!Ok(client.slots[j]) /\ Barred(j))'
  <2>1. CASE j = i /\ Head(lmtpWire) = "250"
    <3>1. waiting = Append(client.pending, i)
      BY <2>1, <1>w DEF Dialogue!PendingAfter, Dialogue!Ok
    <3>2. waiting[Len(client.pending) + 1] = i /\ Len(client.pending) + 1 \in 1..Len(waiting)
      BY <3>1, <1>3
    <3>. QED
      BY <3>2, <2>1, <1>5 DEF WaitsFor
  <2>2. CASE j = i /\ Head(lmtpWire) # "250"
    <3>1. client'.slots[j] = Head(lmtpWire) /\ ~Dialogue!Ok(Head(lmtpWire))
      BY <2>2, <1>3, <1>4, <1>5 DEF Dialogue!Ok
    <3>2. Barred(i)
      BY <2>2, <1>i, <1>2, <1>4, OneAnswer DEF AtRcpt
    <3>. QED
      BY <3>1, <3>2, <2>2, <1>1 DEF Barred
  <2>3. CASE j # i
    <3>1. client'.slots[j] = client.slots[j]
      BY <2>3, <1>3, <1>5
    <3>2. WaitsFor(j) \/ (~Dialogue!Ok(client.slots[j]) /\ Barred(j))
      BY <2>3, <1>i, <1>2, <1>3, <1>7 DEF AtRcpt, AskedUpTo, Dialogue!People
    <3>3. CASE WaitsFor(j)
      <4>1. PICK k \in 1..Len(client.pending) : client.pending[k] = j
        BY <3>3 DEF WaitsFor
      <4>2. k \in 1..Len(waiting) /\ waiting[k] = j
        BY <4>1, <1>3, <1>w DEF Dialogue!PendingAfter
      <4>. QED
        BY <4>2, <1>5 DEF WaitsFor
    <3>. QED
      BY <3>1, <3>2, <3>3, <1>1 DEF Barred
  <2>. QED
    BY <2>1, <2>2, <2>3
<1>8. AskedUpTo(i)' /\ InStep(client.pending)' /\ NamedUpTo(i)'
  BY <1>1, <1>5, <1>6, <1>7 DEF AskedUpTo, InStep, NamedUpTo, Dialogue!People
<1>9. CASE i < Len(envelope)
  <2>1. client'.at = "rcpt" /\ command' = "RCPT" /\ result' = "running"
    BY <1>i, <1>9, <1>2 DEF Dialogue!ReadRcpt, LmtpType, LmtpClients
  <2>2. i = client'.next - 1
    BY <1>3, <1>5
  <2>3. AskedUpTo(client.next - 1)' /\ NamedUpTo(client.next - 1)'
    BY <2>2, <1>8 DEF AskedUpTo, NamedUpTo
  <2>4. AtRcpt'
    BY <2>1, <2>3, <1>1, <1>2, <1>3, <1>4, <1>5, <1>6, <1>8, <1>9 DEF AtRcpt
  <2>. QED
    BY <2>1, <2>4, <1>1 DEF InDialogue
<1>10. CASE ~(i < Len(envelope)) /\ waiting = <<>>
  <2>0. i = Len(envelope)
    BY <1>10, <1>3, <1>len DEF Dialogue!People
  <2>1. command' = "QUIT" /\ result' = "collected"
    BY <1>i, <1>w, <1>10 DEF Dialogue!ReadRcpt, LmtpType, LmtpClients
  <2>2. \A j \in Dialogue!People : ~Dialogue!Ok(client'.slots[j])
    <3>1. \A j \in Dialogue!People : ~WaitsFor(j)'
      BY <1>5, <1>10 DEF WaitsFor
    <3>. QED
      BY <3>1, <2>0, <1>7 DEF Dialogue!People
  <2>3. AllCollected'
    BY <2>1, <2>2, <1>1, <1>2 DEF AllCollected, AtRcpt, Dialogue!People
  <2>. QED
    BY <2>1, <2>3, <1>1 DEF InDialogue
<1>11. CASE ~(i < Len(envelope)) /\ waiting # <<>>
  <2>0. i = Len(envelope)
    BY <1>11, <1>3, <1>len DEF Dialogue!People
  <2>1. client'.at = "data" /\ command' = "DATA" /\ result' = "running"
    BY <1>i, <1>w, <1>11, <1>2 DEF Dialogue!ReadRcpt, LmtpType, LmtpClients
  <2>2. AskedUpTo(Len(envelope))'
    BY <2>0, <1>1, <1>8 DEF AskedUpTo
  <2>3. AtData'
    BY <2>1, <2>2, <1>1, <1>2, <1>4, <1>5, <1>8, <1>11 DEF AtData, AtRcpt
  <2>. QED
    BY <2>1, <2>3, <1>1 DEF InDialogue
<1>. QED
  BY <1>9, <1>10, <1>11

LEMMA ReadDataKeeps ==
  ASSUME Dialogue!EnvelopesSound, LmtpType, InDialogue, Dialogue!ReadData
  PROVE  InDialogue'
<1>1. KeptOnce' /\ server' = server /\ boxes' = boxes /\ envelope' = envelope
  BY ClientKeeps DEF Dialogue!ReadData, InDialogue
<1>2. AtData /\ result = "running" /\ lmtpWire # <<>> /\ lmtpWire' = Tail(lmtpWire)
  BY DEF Dialogue!ReadData, Dialogue!Waiting, InDialogue
<1>3. CASE Head(lmtpWire) # "354"
  BY <1>1, <1>3 DEF Dialogue!ReadData, Dialogue!Abandon, InDialogue
<1>4. CASE Head(lmtpWire) = "354"
  <2>1. /\ client'.at = "answers" /\ client'.pending = client.pending /\ client'.slots = client.slots
        /\ command' = "message" /\ result' = "running"
    BY <1>2, <1>4 DEF Dialogue!ReadData, Dialogue!Send, LmtpType, LmtpClients
  <2>2. lmtpWire' = <<>> /\ server.at \in {"reading", "down"} /\ client.pending # <<>>
    BY <1>2, <1>4, OneAnswer DEF AtData
  <2>3. AskedUpTo(Len(envelope))' /\ InStep(client.pending)'
    BY <1>1, <1>2, <2>1 DEF AtData, AskedUpTo, InStep, Dialogue!People, WaitsFor, Barred
  <2>4. Len(client.pending) \in Nat \ {0}
    BY <2>2 DEF LmtpType, LmtpClients
  <2>5. CASE server.at = "reading"
    <3>1. AtAnswers'
      BY <2>1, <2>2, <2>3, <2>5, <1>1, <1>2 DEF AtAnswers, AtData
    <3>. QED
      BY <3>1, <2>1, <1>1 DEF InDialogue
  <2>6. CASE server.at = "down"
    <3>1. AtAnswers'
      BY <2>1, <2>2, <2>4, <2>6, <1>1 DEF AtAnswers, AnsweredInStep
    <3>. QED
      BY <3>1, <2>1, <1>1 DEF InDialogue
  <2>. QED
    BY <2>2, <2>5, <2>6
<1>. QED
  BY <1>3, <1>4

LEMMA ReadAnswerKeeps ==
  ASSUME Dialogue!EnvelopesSound, LmtpType, InDialogue, Dialogue!ReadAnswer
  PROVE  InDialogue'
<1>1. KeptOnce' /\ server' = server /\ boxes' = boxes /\ envelope' = envelope
  BY ClientKeeps DEF Dialogue!ReadAnswer, InDialogue
<1>2. /\ result = "running" /\ lmtpWire # <<>> /\ lmtpWire' = Tail(lmtpWire)
      /\ client.pending # <<>> /\ AnsweredInStep
  BY DEF Dialogue!ReadAnswer, Dialogue!Waiting, InDialogue, AtAnswers, AtDelivering
<1>3. /\ lmtpWire \in Seq(LmtpAnswers) /\ client.pending \in Seq(Dialogue!People)
      /\ client.slots \in [Dialogue!People -> LmtpAnswers] /\ client.pending[1] \in Dialogue!People
  BY <1>2 DEF LmtpType, LmtpClients
<1>4. PICK h \in Dialogue!People : h = client.pending[1]
  BY <1>3
<1>5. client'.pending = Tail(client.pending) /\ client'.slots = [client.slots EXCEPT ![h] = lmtpWire[1]]
  <2>1. Dialogue!SlotOfAnswer = h /\ Head(lmtpWire) = lmtpWire[1]
    BY <1>2, <1>3, <1>4 DEF Dialogue!SlotOfAnswer
  <2>. QED
    BY <2>1 DEF Dialogue!ReadAnswer, LmtpType, LmtpClients
<1>6. /\ Len(lmtpWire') = Len(lmtpWire) - 1 /\ Len(client'.pending) = Len(client.pending) - 1
      /\ Len(lmtpWire) \in Nat \ {0} /\ Len(client.pending) \in Nat \ {0}
      /\ Len(lmtpWire') \in Nat /\ Len(client'.pending) \in Nat
      /\ \A k \in 1..Len(lmtpWire') : lmtpWire'[k] = lmtpWire[k + 1]
      /\ \A k \in 1..Len(client'.pending) : client'.pending[k] = client.pending[k + 1]
  BY <1>2, <1>3, <1>5
<1>7. ASSUME Len(lmtpWire') = Len(client'.pending)
      PROVE  /\ \A k \in 1..Len(lmtpWire') : Dialogue!Ok(lmtpWire'[k]) <=> Key[envelope[client'.pending[k]]] \in boxes
             /\ \A j \in Dialogue!People : WaitsFor(j)' \/ (Dialogue!Ok(client'.slots[j]) <=> Key[envelope[j]] \in boxes)
  <2>1. Len(lmtpWire) = Len(client.pending)
    BY <1>6, <1>7
  <2>2. /\ \A k \in 1..Len(lmtpWire) : Dialogue!Ok(lmtpWire[k]) <=> Key[envelope[client.pending[k]]] \in boxes
        /\ \A j \in Dialogue!People : WaitsFor(j) \/ (Dialogue!Ok(client.slots[j]) <=> Key[envelope[j]] \in boxes)
    BY <2>1, <1>2 DEF AnsweredInStep
  <2>3. ASSUME NEW k \in 1..Len(lmtpWire')
        PROVE  Dialogue!Ok(lmtpWire'[k]) <=> Key[envelope[client'.pending[k]]] \in boxes
    <3>1. k + 1 \in 1..Len(lmtpWire) /\ lmtpWire'[k] = lmtpWire[k + 1] /\ client'.pending[k] = client.pending[k + 1]
      BY <1>6, <1>7
    <3>. QED
      BY <3>1, <2>2
  <2>4. ASSUME NEW j \in Dialogue!People
        PROVE  WaitsFor(j)' \/ (Dialogue!Ok(client'.slots[j]) <=> Key[envelope[j]] \in boxes)
    <3>1. CASE j = h
      <4>1. client'.slots[j] = lmtpWire[1] /\ 1 \in 1..Len(lmtpWire)
        BY <3>1, <1>3, <1>5, <1>6
      <4>. QED
        BY <4>1, <3>1, <2>2, <1>4
    <3>2. CASE j # h
      <4>1. client'.slots[j] = client.slots[j]
        BY <3>2, <1>3, <1>5
      <4>2. CASE WaitsFor(j)
        <5>1. PICK k \in 1..Len(client.pending) : client.pending[k] = j
          BY <4>2 DEF WaitsFor
        <5>2. k - 1 \in 1..Len(client'.pending) /\ client'.pending[k - 1] = client.pending[(k - 1) + 1]
          <6>1. k # 1 /\ k \in Nat
            BY <5>1, <3>2, <1>4
          <6>2. k - 1 \in 1..Len(client'.pending)
            BY <5>1, <6>1, <1>6
          <6>. QED
            BY <6>2, <1>6
        <5>3. client'.pending[k - 1] = j
          BY <5>1, <5>2
        <5>. QED
          BY <5>2, <5>3 DEF WaitsFor
      <4>. QED
        BY <4>1, <4>2, <2>2
    <3>. QED
      BY <3>1, <3>2
  <2>. QED
    BY <2>3, <2>4
<1>8. CASE Tail(client.pending) = <<>>
  <2>1. command' = "QUIT" /\ result' = "collected"
    BY <1>8 DEF Dialogue!ReadAnswer, Dialogue!SlotOfAnswer, LmtpType, LmtpClients
  <2>2. Len(client'.pending) = 0 /\ Len(lmtpWire') = Len(client'.pending)
    <3>1. Len(client'.pending) = 0
      BY <1>5, <1>8, OneAnswer
    <3>2. Len(lmtpWire) <= Len(client.pending)
      BY <1>2 DEF AnsweredInStep
    <3>. QED
      BY <3>1, <3>2, <1>6
  <2>3. \A j \in Dialogue!People : ~WaitsFor(j)'
    BY <2>2 DEF WaitsFor
  <2>4. AllCollected'
    BY <2>1, <2>2, <2>3, <1>1, <1>2, <1>7 DEF AllCollected, AnsweredInStep, Dialogue!People
  <2>. QED
    BY <2>1, <2>4, <1>1 DEF InDialogue
<1>9. CASE Tail(client.pending) # <<>>
  <2>1. client'.at = "answers" /\ command' = command /\ result' = "running"
    BY <1>2, <1>9 DEF Dialogue!ReadAnswer, Dialogue!SlotOfAnswer, LmtpType, LmtpClients
  <2>2. Len(lmtpWire') <= Len(client'.pending)
    BY <1>2, <1>6 DEF AnsweredInStep
  <2>3. AtAnswers'
    BY <2>1, <2>2, <1>1, <1>2, <1>5, <1>7, <1>9 DEF AtAnswers, AnsweredInStep, Dialogue!People
  <2>. QED
    BY <2>1, <2>3, <1>1 DEF InDialogue
<1>. QED
  BY <1>8, <1>9

LEMMA ReadFailsKeeps ==
  ASSUME InDialogue, Dialogue!ReadFails
  PROVE  InDialogue'
<1>1. KeptOnce'
  BY ClientKeeps DEF Dialogue!ReadFails, InDialogue
<1>. QED
  BY <1>1 DEF Dialogue!ReadFails, InDialogue

(* The server only matters to a running attempt, and to a collected one as *)
(* far as it keeps away from the mailboxes.                                *)
LEMMA ServerKeeps ==
  ASSUME LmtpType, InDialogue, KeptOnce', UNCHANGED <<envelope, client, result>>, cut => cut',
         result = "running" /\ client.at = "connect" => AtConnect',
         result = "running" /\ client.at \in {"greeting", "lhlo", "mail"} => AtOpening',
         result = "running" /\ client.at = "rcpt" => AtRcpt',
         result = "running" /\ client.at = "data" => AtData',
         result = "running" /\ client.at = "answers" => AtAnswers',
         result = "collected" => boxes' = boxes /\ server'.at \in {"idle", "down"}
                                 /\ command' \in {command, Dialogue!Silence}
  PROVE  InDialogue'
<1>1. result = "collected" => AllCollected'
  BY DEF InDialogue, AllCollected, Dialogue!People
<1>. QED
  BY <1>1 DEF InDialogue

LEMMA GreetKeeps ==
  ASSUME Dialogue!EnvelopesSound, LmtpType, InDialogue, Dialogue!Greet
  PROVE  InDialogue'
<1>1. KeptOnce'
  BY ServerSame DEF Dialogue!Greet, InDialogue
<1>2. /\ server'.at \in {"idle", "down"} /\ server'.recipients = server.recipients
      /\ lmtpWire = <<>> => Len(lmtpWire') = 1
  <2>1. server'.at \in {"idle", "down"} /\ server'.recipients = server.recipients
    BY DEF Dialogue!Greet, LmtpType, LmtpServers
  <2>2. \/ lmtpWire' = Append(lmtpWire, "220")
        \/ lmtpWire' = Append(lmtpWire, "421")
    BY DEF Dialogue!Greet
  <2>. QED
    BY <2>1, <2>2, OneAnswer
<1>3. result = "running" => client.at = "greeting" /\ AtOpening /\ AtOpening'
  BY <1>2 DEF Dialogue!Greet, InDialogue, AtConnect, AtOpening, AtRcpt, AtData, AtAnswers, AtDelivering, AnsweredInStep, LmtpType, LmtpClients
<1>4. result # "collected"
  BY DEF Dialogue!Greet, InDialogue, AllCollected
<1>. QED
  BY <1>1, <1>3, <1>4, ServerKeeps DEF Dialogue!Greet

LEMMA HandleOpeningKeeps ==
  ASSUME Dialogue!EnvelopesSound, LmtpType, InDialogue, Dialogue!HandleLhlo \/ Dialogue!HandleMail
  PROVE  InDialogue'
<1>1. KeptOnce'
  BY FreshOnce DEF Dialogue!HandleLhlo, Dialogue!HandleMail
<1>2. result = "running" /\ ~cut /\ client.at \in {"lhlo", "mail"} /\ AtOpening
  BY DEF Dialogue!HandleLhlo, Dialogue!HandleMail, Dialogue!Handles, InDialogue, AtConnect, AtOpening, AtRcpt, AtData, AtAnswers, AtDelivering,
         AnsweredInStep, AllCollected, LmtpType, LmtpClients, Dialogue!Silence
<1>3. server'.at = "idle" /\ server'.recipients = <<>> /\ command' = Dialogue!Silence /\ command # Dialogue!Silence
  BY DEF Dialogue!HandleLhlo, Dialogue!HandleMail, Dialogue!Handles, Dialogue!Fresh, Dialogue!Silence
<1>4. Len(lmtpWire') = 1 /\ client' = client /\ boxes' = boxes
  <2>1. lmtpWire = <<>>
    BY <1>2, <1>3 DEF AtOpening
  <2>. QED
    BY <2>1, OneAnswer DEF Dialogue!HandleLhlo, Dialogue!HandleMail, Dialogue!Answer
<1>5. AtOpening'
  BY <1>2, <1>3, <1>4 DEF AtOpening
<1>. QED
  BY <1>1, <1>2, <1>5, ServerKeeps DEF Dialogue!HandleLhlo, Dialogue!HandleMail

LEMMA HandleQuitKeeps ==
  ASSUME Dialogue!EnvelopesSound, LmtpType, InDialogue, Dialogue!HandleQuit
  PROVE  InDialogue'
<1>1. KeptOnce'
  BY FreshOnce DEF Dialogue!HandleQuit
<1>2. result = "collected"
  BY DEF Dialogue!HandleQuit, Dialogue!Handles, InDialogue, AtConnect, AtOpening, AtRcpt, AtData, AtAnswers, AtDelivering,
         AnsweredInStep, LmtpType, LmtpClients, Dialogue!Silence
<1>3. server'.at = "down"
  BY DEF Dialogue!HandleQuit, Dialogue!Fresh
<1>. QED
  BY <1>1, <1>2, <1>3, ServerKeeps DEF Dialogue!HandleQuit, Dialogue!Handles

LEMMA HandleRcptKeeps ==
  ASSUME Dialogue!EnvelopesSound, LmtpType, InDialogue, Dialogue!HandleRcpt
  PROVE  InDialogue'
<1>i. PICK i : i = client.next
  OBVIOUS
<1>k. PICK box : box = Key[envelope[i]]
  OBVIOUS
<1>len. Len(envelope) \in Nat \ {0} /\ MaxRecipients \in Nat
  BY DEF Dialogue!EnvelopesSound, LmtpType
<1>1. result = "running" /\ client.at = "rcpt" /\ AtRcpt
  BY DEF Dialogue!HandleRcpt, Dialogue!Handles, InDialogue, AtConnect, AtOpening, AtRcpt, AtData, AtAnswers, AtDelivering,
         AnsweredInStep, AllCollected, LmtpType, LmtpClients, Dialogue!Silence
<1>2. /\ lmtpWire = <<>> /\ InStep(client.pending) /\ NamedUpTo(i - 1) /\ AskedUpTo(i - 1)
      /\ Len(client.pending) < i /\ server.at = "idle" /\ boxes = {} /\ i <= Len(envelope)
  BY <1>1, <1>i DEF AtRcpt, Dialogue!HandleRcpt, Dialogue!Handles, Dialogue!Silence
<1>3. /\ i \in Dialogue!People /\ i \in Nat \ {0} /\ client.pending \in Seq(Dialogue!People)
      /\ server.recipients \in Seq(EnvelopeNames) /\ server.responses = <<>>
  BY <1>2, <1>i, <1>len DEF Dialogue!People, LmtpType, LmtpClients, LmtpServers, InDialogue, KeptOnce
<1>4. /\ client' = client /\ envelope' = envelope /\ boxes' = boxes /\ result' = result /\ cut' = cut
      /\ command' = Dialogue!Silence
  BY DEF Dialogue!HandleRcpt, Dialogue!Handles
<1>5. ASSUME NEW j \in Dialogue!People, j < i, box = Key[envelope[j]]
      PROVE  i <= MaxRecipients
  BY <1>5, <1>k, <1>3 DEF Dialogue!EnvelopesSound, LmtpType, Dialogue!People
<1>6. i > MaxRecipients => box \notin server.seen
  BY <1>2, <1>3, <1>5, <1>len DEF NamedUpTo, Dialogue!People
<1>7. CASE Len(server.recipients) >= MaxRecipients
  <2>1. lmtpWire' = <<"452">> /\ server' = server
    BY <1>7, <1>2, <1>i, OneAnswer DEF Dialogue!HandleRcpt, Dialogue!Answer
  <2>2. i > MaxRecipients
    BY <1>7, <1>2, <1>3, <1>len DEF InStep
  <2>3. Barred(i)
    BY <2>2, <1>6, <1>k DEF Barred
  <2>4. AtRcpt'
    BY <2>1, <2>3, <1>1, <1>2, <1>4, <1>i DEF AtRcpt, AskedUpTo, InStep, NamedUpTo, Barred, WaitsFor, Dialogue!People
  <2>5. KeptOnce'
    BY <2>1, ClientKeeps DEF InDialogue
  <2>. QED
    BY <2>4, <2>5, <1>1, <1>4, ServerKeeps
<1>8. CASE Len(server.recipients) < MaxRecipients /\ box \notin Routed
  <2>1. lmtpWire' = <<"550">> /\ server' = server
    BY <1>8, <1>2, <1>3, <1>len, <1>i, <1>k, OneAnswer DEF Dialogue!HandleRcpt, Dialogue!Answer
  <2>2. Barred(i)
    BY <1>8, <1>k DEF Barred, InDialogue, KeptOnce
  <2>4. AtRcpt'
    BY <2>1, <2>2, <1>1, <1>2, <1>4, <1>i DEF AtRcpt, AskedUpTo, InStep, NamedUpTo, Barred, WaitsFor, Dialogue!People
  <2>5. KeptOnce'
    BY <2>1, ClientKeeps DEF InDialogue
  <2>. QED
    BY <2>4, <2>5, <1>1, <1>4, ServerKeeps
<1>9. CASE Len(server.recipients) < MaxRecipients /\ box \in Routed
  <2>w. PICK waiting : waiting = Append(client.pending, i)
    OBVIOUS
  <2>0. /\ Len(waiting) = Len(client.pending) + 1 /\ waiting[Len(waiting)] = i
        /\ \A k \in 1..Len(client.pending) : waiting[k] = client.pending[k]
        /\ Len(client.pending) \in Nat /\ Len(server.recipients) \in Nat
    BY <1>3, <2>w
  <2>1. CASE box \in server.seen
    <3>1. lmtpWire' = <<"250">> /\ server' = server
      BY <1>9, <2>1, <1>2, <1>3, <1>len, <1>i, <1>k, OneAnswer DEF Dialogue!HandleRcpt, Dialogue!Answer
    <3>2. InStep(waiting)' /\ NamedUpTo(i)'
      BY <3>1, <2>0, <1>2, <1>3, <1>4 DEF InStep, NamedUpTo, Dialogue!People
    <3>3. AtRcpt'
      BY <3>1, <3>2, <2>w, <1>1, <1>2, <1>4, <1>i DEF AtRcpt, AskedUpTo, Barred, WaitsFor, Dialogue!People
    <3>4. KeptOnce'
      BY <3>1, ClientKeeps DEF InDialogue
    <3>. QED
      BY <3>3, <3>4, <1>1, <1>4, ServerKeeps
  <2>2. CASE box \notin server.seen
    <3>1. /\ lmtpWire' = <<"250">>
          /\ server' = [server EXCEPT !.seen = @ \cup {box}, !.recipients = Append(@, envelope[i])]
      BY <1>9, <2>2, <1>2, <1>3, <1>len, <1>i, <1>k, OneAnswer DEF Dialogue!HandleRcpt, Dialogue!Answer
    <3>2. /\ server'.seen = server.seen \cup {box} /\ server'.at = "idle" /\ server'.responses = <<>>
          /\ server'.recipients = Append(server.recipients, envelope[i])
      BY <3>1, <1>2, <1>3 DEF LmtpType, LmtpServers
    <3>3. /\ Len(server'.recipients) = Len(server.recipients) + 1
          /\ server'.recipients[Len(server.recipients) + 1] = envelope[i]
          /\ \A k \in 1..Len(server.recipients) : server'.recipients[k] = server.recipients[k]
      BY <3>2, <1>3
    <3>4. KeptOnce'
      <4>0. KeptOnce
        BY DEF InDialogue
      <4>1. ASSUME NEW k \in 1..Len(server'.recipients), NEW l \in 1..Len(server'.recipients),
                   Key[server'.recipients[k]] = Key[server'.recipients[l]]
            PROVE  k = l
        <5>1. ASSUME NEW m \in 1..Len(server'.recipients), m # Len(server.recipients) + 1
              PROVE  /\ m \in 1..Len(server.recipients) /\ server'.recipients[m] = server.recipients[m]
                     /\ Key[server'.recipients[m]] \in server.seen
          <6>1. m \in 1..Len(server.recipients)
            BY <5>1, <3>3, <1>3
          <6>2. server'.recipients[m] = server.recipients[m]
            BY <6>1, <3>3
          <6>3. Key[server.recipients[m]] \in server.seen
            BY <6>1, <4>0 DEF KeptOnce
          <6>. QED
            BY <6>1, <6>2, <6>3
        <5>2. Key[server'.recipients[Len(server.recipients) + 1]] \notin server.seen
          BY <3>3, <2>2, <1>k
        <5>3. CASE k = Len(server.recipients) + 1
          <6>1. l = Len(server.recipients) + 1
            BY <5>1, <5>2, <5>3, <4>1
          <6>. QED
            BY <6>1, <5>3
        <5>4. CASE l = Len(server.recipients) + 1
          <6>1. k = Len(server.recipients) + 1
            BY <5>1, <5>2, <5>4, <4>1
          <6>. QED
            BY <6>1, <5>4
        <5>5. CASE k # Len(server.recipients) + 1 /\ l # Len(server.recipients) + 1
          BY <5>1, <5>5, <4>0, <4>1 DEF KeptOnce
        <5>. QED
          BY <5>3, <5>4, <5>5
      <4>2. ASSUME NEW k \in 1..Len(server'.recipients)
            PROVE  Key[server'.recipients[k]] \in server'.seen /\ Key[server'.recipients[k]] \in Routed
        BY <4>0, <3>2, <3>3, <2>0, <1>9, <1>k DEF KeptOnce
      <4>3. ASSUME NEW x \in server'.seen
            PROVE  \E k \in 1..Len(server'.recipients) : x = Key[server'.recipients[k]]
        <5>1. CASE x = box
          BY <5>1, <3>3, <2>0, <1>k
        <5>2. CASE x # box
          <6>1. PICK k \in 1..Len(server.recipients) : x = Key[server.recipients[k]]
            BY <4>0, <5>2, <3>2 DEF KeptOnce
          <6>. QED
            BY <6>1, <3>3, <2>0
        <5>. QED
          BY <5>1, <5>2
      <4>. QED
        BY <4>1, <4>2, <4>3, <3>2 DEF KeptOnce
    <3>5. InStep(waiting)'
      <4>1. Len(server'.recipients) <= Len(waiting)
        BY <3>3, <2>0, <1>2 DEF InStep
      <4>2. ASSUME Len(server'.recipients) = Len(waiting), NEW k \in 1..Len(waiting)
            PROVE  server'.recipients[k] = envelope[waiting[k]]
        <5>1. Len(server.recipients) = Len(client.pending)
          <6>1. Len(server.recipients) + 1 = Len(client.pending) + 1
            BY <4>2, <3>3, <2>0, Zenon
          <6>2. Len(server.recipients) \in Nat /\ Len(client.pending) \in Nat
            BY <2>0, Zenon
          <6>. QED
            BY <6>1, <6>2
        <5>2. CASE k = Len(waiting)
          BY <5>1, <5>2, <3>3, <2>0
        <5>3. CASE k # Len(waiting)
          <6>1. k \in 1..Len(client.pending)
            BY <5>3, <2>0
          <6>2. server.recipients[k] = envelope[client.pending[k]]
            BY <6>1, <5>1, <1>2 DEF InStep
          <6>. QED
            BY <6>1, <6>2, <5>1, <3>3, <2>0
        <5>. QED
          BY <5>2, <5>3
      <4>. QED
        BY <4>1, <4>2, <1>4 DEF InStep
    <3>6. NamedUpTo(i)'
      BY <3>2, <1>2, <1>3, <1>4, <1>k DEF NamedUpTo, Dialogue!People
    <3>7. ASSUME NEW j \in Dialogue!People, j <= i - 1
          PROVE  WaitsFor(j)' \/ (~Dialogue!Ok(client.slots[j]) /\ Barred(j))'
      <4>1. WaitsFor(j) \/ (~Dialogue!Ok(client.slots[j]) /\ Barred(j))
        BY <3>7, <1>2 DEF AskedUpTo
      <4>2. ASSUME Barred(j)
            PROVE  Barred(j)'
        <5>1. Key[envelope[j]] # box
          BY <4>2, <3>7, <1>3, <1>5, <1>9, <1>len DEF Barred, Dialogue!People
        <5>. QED
          BY <4>2, <5>1, <3>2, <1>4 DEF Barred
      <4>. QED
        BY <4>1, <4>2, <1>4 DEF WaitsFor
    <3>8. AtRcpt'
      BY <3>1, <3>2, <3>5, <3>6, <3>7, <2>w, <1>1, <1>2, <1>4, <1>i DEF AtRcpt, AskedUpTo, Dialogue!People
    <3>. QED
      BY <3>4, <3>8, <1>1, <1>4, ServerKeeps
  <2>. QED
    BY <2>1, <2>2
<1>. QED
  BY <1>7, <1>8, <1>9, <1>3, <1>len

LEMMA HandleDataKeeps ==
  ASSUME Dialogue!EnvelopesSound, LmtpType, InDialogue, Dialogue!HandleData
  PROVE  InDialogue'
<1>1. result = "running" /\ client.at = "data" /\ AtData
  BY DEF Dialogue!HandleData, Dialogue!Handles, InDialogue, AtConnect, AtOpening, AtRcpt, AtData, AtAnswers, AtDelivering,
         AnsweredInStep, AllCollected, LmtpType, LmtpClients, Dialogue!Silence
<1>2. lmtpWire = <<>> /\ server.at = "idle"
  BY <1>1 DEF AtData, Dialogue!HandleData, Dialogue!Handles, Dialogue!Silence
<1>3. /\ client' = client /\ envelope' = envelope /\ boxes' = boxes /\ result' = result /\ cut' = cut
      /\ command' = Dialogue!Silence
  BY DEF Dialogue!HandleData, Dialogue!Handles
<1>4. \/ lmtpWire' = <<"503">> /\ server' = server
      \/ lmtpWire' = <<"354">> /\ server' = [server EXCEPT !.at = "reading"]
  BY <1>2, OneAnswer DEF Dialogue!HandleData, Dialogue!Answer
<1>5. KeptOnce'
  BY <1>2, <1>4, ServerSame, ClientKeeps DEF InDialogue
<1>6. server'.recipients = server.recipients /\ server'.seen = server.seen
  BY <1>4 DEF LmtpType, LmtpServers
<1>7. AskedUpTo(Len(envelope))' /\ InStep(client.pending)'
  BY <1>1, <1>3, <1>6 DEF AtData, AskedUpTo, InStep, Barred, WaitsFor, Dialogue!People
<1>8. \/ lmtpWire' = <<"503">> /\ server'.at = "idle"
      \/ lmtpWire' = <<"354">> /\ server'.at = "reading"
  BY <1>2, <1>4 DEF LmtpType, LmtpServers
<1>9. AtData'
  BY <1>1, <1>3, <1>7, <1>8 DEF AtData
<1>. QED
  BY <1>1, <1>3, <1>5, <1>9, ServerKeeps

LEMMA ReadMessageKeeps ==
  ASSUME Dialogue!EnvelopesSound, LmtpType, InDialogue, Dialogue!ReadMessage
  PROVE  InDialogue'
<1>1. result = "running" /\ client.at = "answers" /\ AtAnswers
  BY DEF Dialogue!ReadMessage, InDialogue, AtConnect, AtOpening, AtRcpt, AtData, AtAnswers, AtDelivering,
         AnsweredInStep, AllCollected, LmtpType, LmtpClients, Dialogue!Silence
<1>2. /\ client.pending # <<>> /\ server.at = "reading" /\ lmtpWire = <<>> /\ boxes = {}
      /\ AskedUpTo(Len(envelope)) /\ InStep(client.pending)
  BY <1>1 DEF AtAnswers, AtDelivering, AnsweredInStep, Dialogue!ReadMessage
<1>3. /\ client' = client /\ envelope' = envelope /\ boxes' = boxes /\ result' = result /\ cut' = cut
      /\ command' = Dialogue!Silence
  BY DEF Dialogue!ReadMessage
<1>4. server.responses = <<>> /\ Len(server.recipients) \in Nat /\ client.pending \in Seq(Dialogue!People)
  BY <1>2 DEF InDialogue, KeptOnce, LmtpType, LmtpServers, LmtpClients
<1>5. CASE server' = [server EXCEPT !.at = "delivering"] /\ lmtpWire' = lmtpWire
  <2>1. /\ server'.at = "delivering" /\ server'.recipients = server.recipients
        /\ server'.seen = server.seen /\ server'.responses = <<>>
    BY <1>4, <1>5 DEF LmtpType, LmtpServers
  <2>2. KeptOnce'
    BY <2>1 DEF KeptOnce, InDialogue
  <2>3. AskedUpTo(Len(envelope))' /\ InStep(client.pending)'
    BY <2>1, <1>2, <1>3 DEF AskedUpTo, InStep, Barred, WaitsFor, Dialogue!People
  <2>4. AtDelivering'
    BY <2>1, <1>2, <1>3, <1>4, <1>5 DEF AtDelivering
  <2>5. AtAnswers'
    BY <2>3, <2>4, <1>2, <1>3 DEF AtAnswers
  <2>. QED
    BY <2>2, <2>5, <1>1, <1>3, ServerKeeps
<1>6. CASE lmtpWire' = lmtpWire \o [k \in 1..Len(server.recipients) |-> "552"] /\ server' = Dialogue!Fresh
  <2>1. Len(lmtpWire') = Len(server.recipients) /\ \A k \in 1..Len(lmtpWire') : lmtpWire'[k] = "552"
    <3> DEFINE refusals == [k \in 1..Len(server.recipients) |-> "552"]
    <3>1. refusals \in Seq({"552"}) /\ Len(refusals) = Len(server.recipients)
      BY <1>4
    <3>2. <<>> \o refusals = refusals
      BY <3>1
    <3>. QED
      BY <3>1, <3>2, <1>2, <1>6
  <2>2. Len(lmtpWire') <= Len(client.pending)
    BY <2>1, <1>2 DEF InStep
  <2>3. \A i \in Dialogue!People : WaitsFor(i) \/ ~Dialogue!Ok(client.slots[i])
    BY <1>2 DEF AskedUpTo, Dialogue!People
  <2>4. AtAnswers'
    <3>1. server'.at = "idle"
      BY <1>6 DEF Dialogue!Fresh
    <3>2. AnsweredInStep'
      BY <3>1, <2>1, <2>2, <2>3, <1>2, <1>3 DEF AnsweredInStep, Dialogue!Ok, WaitsFor, Dialogue!People
    <3>. QED
      BY <3>2, <1>2, <1>3 DEF AtAnswers
  <2>5. KeptOnce'
    BY <1>6, FreshOnce
  <2>. QED
    BY <2>4, <2>5, <1>1, <1>3, ServerKeeps
<1>. QED
  BY <1>5, <1>6 DEF Dialogue!ReadMessage

(* A step of the server while it delivers, on a connection where the       *)
(* client waits or has given up.                                           *)
LEMMA WhileDelivering ==
  ASSUME LmtpType, InDialogue, server.at = "delivering"
  PROVE  /\ result # "collected"
         /\ result = "running" => /\ client.at = "answers" /\ AtDelivering /\ client.pending # <<>>
                                  /\ AskedUpTo(Len(envelope)) /\ InStep(client.pending)
BY DEF InDialogue, AtConnect, AtOpening, AtRcpt, AtData, AtAnswers, AnsweredInStep, AllCollected, LmtpType, LmtpClients

LEMMA DeliverNextKeeps ==
  ASSUME Dialogue!EnvelopesSound, LmtpType, InDialogue, Dialogue!DeliverNext
  PROVE  InDialogue'
<1>n. PICK n : n = Len(server.responses) + 1
  OBVIOUS
<1>k. PICK box : box = Key[server.recipients[n]]
  OBVIOUS
<1>1. /\ server.at = "delivering" /\ n \in Nat \ {0} /\ n <= Len(server.recipients)
      /\ Len(server.recipients) \in Nat /\ Len(server.responses) \in Nat /\ server.responses \in Seq(LmtpAnswers)
  BY <1>n DEF Dialogue!DeliverNext, LmtpType, LmtpServers
<1>2. /\ client' = client /\ envelope' = envelope /\ result' = result /\ cut' = cut
      /\ command' = command /\ lmtpWire' = lmtpWire
  BY DEF Dialogue!DeliverNext
<1>3. PICK a \in {"250", "550", "552", "451"} :
         /\ server' = [server EXCEPT !.responses = Append(@, a)]
         /\ boxes' = IF Dialogue!Ok(a) THEN boxes \cup {box} ELSE boxes
  BY <1>n, <1>k DEF Dialogue!DeliverNext, Dialogue!Ok
<1>4. /\ server'.at = "delivering" /\ server'.recipients = server.recipients /\ server'.seen = server.seen
      /\ server'.responses = Append(server.responses, a)
  BY <1>1, <1>3 DEF LmtpType, LmtpServers
<1>5. /\ Len(server'.responses) = n /\ server'.responses[n] = a
      /\ \A k \in 1..Len(server.responses) : server'.responses[k] = server.responses[k]
  BY <1>1, <1>4, <1>n
<1>6. KeptOnce'
  <2>1. KeptOnce
    BY DEF InDialogue
  <2>. QED
    BY <2>1, <1>4 DEF KeptOnce
<1>7. CASE result = "running"
  <2>1. /\ client.at = "answers" /\ AtDelivering /\ client.pending # <<>>
        /\ AskedUpTo(Len(envelope)) /\ InStep(client.pending)
    BY <1>1, <1>7, WhileDelivering
  <2>2. AskedUpTo(Len(envelope))' /\ InStep(client.pending)'
    BY <2>1, <1>2, <1>4 DEF AskedUpTo, InStep, Barred, WaitsFor, Dialogue!People
  <2>3. box \in server.seen /\ box \notin boxes
    BY <2>1, <1>1, <1>k, <1>n DEF AtDelivering, InDialogue, KeptOnce
  <2>4. ASSUME NEW k \in 1..Len(server.recipients)
        PROVE  IF k <= n THEN Dialogue!Ok(server'.responses[k]) <=> Key[server.recipients[k]] \in boxes'
                         ELSE Key[server.recipients[k]] \notin boxes'
    <3>1. CASE k = n
      BY <3>1, <2>3, <1>1, <1>3, <1>5, <1>k
    <3>2. CASE k # n
      <4>1. Key[server.recipients[k]] # box
        BY <3>2, <1>1, <1>k DEF InDialogue, KeptOnce
      <4>2. Key[server.recipients[k]] \in boxes' <=> Key[server.recipients[k]] \in boxes
        BY <4>1, <1>3
      <4>3. CASE k < n
        <5>1. k \in 1..Len(server.responses) /\ k <= Len(server.responses) /\ k <= n
          BY <4>3, <1>1, <1>n
        <5>2. Dialogue!Ok(server.responses[k]) <=> Key[server.recipients[k]] \in boxes
          BY <5>1, <2>1 DEF AtDelivering
        <5>. QED
          BY <5>1, <5>2, <4>2, <1>5
      <4>4. CASE k > n
        <5>1. ~(k <= Len(server.responses)) /\ ~(k <= n)
          BY <4>4, <1>1, <1>n
        <5>. QED
          BY <5>1, <4>2, <2>1 DEF AtDelivering
      <4>. QED
        BY <4>3, <4>4, <3>2, <1>1
    <3>. QED
      BY <3>1, <3>2
  <2>5. AtDelivering'
    BY <2>1, <2>3, <2>4, <1>1, <1>2, <1>3, <1>4, <1>5 DEF AtDelivering
  <2>6. AtAnswers'
    BY <2>1, <2>2, <2>5, <1>2 DEF AtAnswers
  <2>. QED
    BY <2>1, <2>6, <1>2, <1>6, <1>7, ServerKeeps
<1>8. CASE result # "running"
  BY <1>1, <1>2, <1>6, <1>8, WhileDelivering, ServerKeeps
<1>. QED
  BY <1>7, <1>8

LEMMA WriteAnswersKeeps ==
  ASSUME Dialogue!EnvelopesSound, LmtpType, InDialogue, Dialogue!WriteAnswers
  PROVE  InDialogue'
<1>1. /\ server.at = "delivering" /\ server.responses \in Seq(LmtpAnswers)
      /\ Len(server.responses) = Len(server.recipients) /\ Len(server.recipients) \in Nat
  BY DEF Dialogue!WriteAnswers, LmtpType, LmtpServers
<1>2. /\ client' = client /\ envelope' = envelope /\ result' = result /\ cut' = cut
      /\ command' = command /\ boxes' = boxes /\ server' = Dialogue!Fresh
  BY DEF Dialogue!WriteAnswers
<1>3. KeptOnce'
  BY <1>2, FreshOnce
<1>4. CASE result = "running"
  <2>1. /\ client.at = "answers" /\ AtDelivering /\ client.pending # <<>>
        /\ AskedUpTo(Len(envelope)) /\ InStep(client.pending)
    BY <1>1, <1>4, WhileDelivering
  <2>2. lmtpWire' = server.responses
    <3>1. lmtpWire = <<>> /\ lmtpWire' = lmtpWire \o server.responses
      BY <2>1 DEF AtDelivering, Dialogue!WriteAnswers
    <3>2. <<>> \o server.responses = server.responses
      BY <1>1
    <3>. QED
      BY <3>1, <3>2
  <2>3. Len(lmtpWire') = Len(server.recipients) /\ Len(lmtpWire') <= Len(client.pending)
    BY <2>1, <2>2, <1>1 DEF InStep
  <2>4. ASSUME Len(lmtpWire') = Len(client.pending)
        PROVE  /\ \A k \in 1..Len(lmtpWire') : Dialogue!Ok(lmtpWire'[k]) <=> Key[envelope[client.pending[k]]] \in boxes
               /\ \A i \in Dialogue!People : WaitsFor(i) \/ (Dialogue!Ok(client.slots[i]) <=> Key[envelope[i]] \in boxes)
    <3>1. ASSUME NEW k \in 1..Len(lmtpWire')
          PROVE  Dialogue!Ok(lmtpWire'[k]) <=> Key[envelope[client.pending[k]]] \in boxes
      <4>1. k \in 1..Len(server.recipients) /\ k <= Len(server.responses)
        BY <2>3, <1>1
      <4>2. server.recipients[k] = envelope[client.pending[k]]
        BY <4>1, <2>1, <2>3, <2>4 DEF InStep
      <4>3. Dialogue!Ok(server.responses[k]) <=> Key[server.recipients[k]] \in boxes
        BY <4>1, <2>1 DEF AtDelivering
      <4>. QED
        BY <4>2, <4>3, <2>2
    <3>2. ASSUME NEW i \in Dialogue!People
          PROVE  WaitsFor(i) \/ (Dialogue!Ok(client.slots[i]) <=> Key[envelope[i]] \in boxes)
      <4>1. WaitsFor(i) \/ (~Dialogue!Ok(client.slots[i]) /\ Barred(i))
        BY <2>1 DEF AskedUpTo, Dialogue!People
      <4>2. boxes \subseteq server.seen
        BY <2>1 DEF AtDelivering
      <4>. QED
        BY <4>1, <4>2 DEF Barred
    <3>. QED
      BY <3>1, <3>2
  <2>5. server'.at = "idle" /\ command' = Dialogue!Silence
    BY <2>1, <1>2 DEF Dialogue!Fresh, AtDelivering
  <2>6. AnsweredInStep'
    BY <2>3, <2>4, <2>5, <1>2 DEF AnsweredInStep, WaitsFor, Dialogue!People
  <2>7. AtAnswers'
    BY <2>1, <2>6, <1>2 DEF AtAnswers
  <2>. QED
    BY <2>1, <2>7, <1>2, <1>3, <1>4, ServerKeeps
<1>5. CASE result # "running"
  BY <1>1, <1>2, <1>3, <1>5, WhileDelivering, ServerKeeps
<1>. QED
  BY <1>4, <1>5

LEMMA ServerGoneKeeps ==
  ASSUME Dialogue!EnvelopesSound, LmtpType, InDialogue, Dialogue!ServerGone
  PROVE  InDialogue'
<1>1. /\ server'.at = "down" /\ server'.recipients = <<>> /\ server'.seen = {}
      /\ server.at \notin {"down", "accepted"}
  BY DEF Dialogue!ServerGone, Dialogue!Fresh
<1>2. /\ client' = client /\ envelope' = envelope /\ result' = result /\ cut'
      /\ command' = command /\ boxes' = boxes /\ lmtpWire' = lmtpWire
  BY DEF Dialogue!ServerGone
<1>3. KeptOnce'
  BY FreshOnce DEF Dialogue!ServerGone
<1>4. client.pending \in Seq(Dialogue!People) /\ Len(client.pending) \in Nat
  BY DEF LmtpType, LmtpClients
<1>5. \A waiting \in Seq(Dialogue!People) : InStep(waiting)'
  BY <1>1 DEF InStep
<1>6. \A n : NamedUpTo(n)'
  BY <1>1 DEF NamedUpTo
<1>7. \A i : Barred(i) => Barred(i)'
  BY <1>1, <1>2 DEF Barred
<1>8. \A n : AskedUpTo(n) => AskedUpTo(n)'
  BY <1>2, <1>7 DEF AskedUpTo, WaitsFor, Dialogue!People
<1>9. result = "running" /\ client.at = "connect" => AtConnect'
  BY <1>1 DEF InDialogue, AtConnect
<1>10. result = "running" /\ client.at \in {"greeting", "lhlo", "mail"} => AtOpening'
  BY <1>1, <1>2 DEF InDialogue, AtOpening
<1>11. ASSUME result = "running", client.at = "rcpt"
       PROVE  AtRcpt'
  <2>1. AtRcpt
    BY <1>11 DEF InDialogue
  <2>2. client.next \in Dialogue!People
    BY <2>1 DEF AtRcpt, LmtpType, LmtpClients, Dialogue!People, Dialogue!EnvelopesSound
  <2>3. Append(client.pending, client.next) \in Seq(Dialogue!People)
    BY <2>2, <1>4
  <2>4. /\ InStep(client.pending)' /\ InStep(Append(client.pending, client.next))'
        /\ NamedUpTo(client.next)' /\ NamedUpTo(client.next - 1)'
        /\ AskedUpTo(client.next - 1)' /\ (Barred(client.next) => Barred(client.next)')
    BY <2>1, <2>3, <1>2, <1>4, <1>5, <1>6, <1>7, <1>8 DEF AtRcpt
  <2>. QED
    BY <2>1, <2>4, <1>1, <1>2 DEF AtRcpt
<1>12. ASSUME result = "running", client.at = "data"
       PROVE  AtData'
  <2>1. AtData
    BY <1>12 DEF InDialogue
  <2>2. InStep(client.pending)' /\ AskedUpTo(Len(envelope))'
    BY <2>1, <1>2, <1>4, <1>5, <1>8 DEF AtData
  <2>. QED
    BY <2>1, <2>2, <1>1, <1>2 DEF AtData
<1>13. ASSUME result = "running", client.at = "answers"
       PROVE  AtAnswers'
  <2>1. AtAnswers /\ client.pending # <<>>
    BY <1>13 DEF InDialogue, AtAnswers
  <2>2. CASE AnsweredInStep
    BY <2>1, <2>2, <1>1, <1>2 DEF AtAnswers, AnsweredInStep, WaitsFor, Dialogue!People
  <2>3. CASE ~AnsweredInStep
    <3>1. lmtpWire = <<>> /\ command \in {Dialogue!Silence, "message"}
      BY <2>1, <2>3 DEF AtAnswers, AtDelivering
    <3>2. Len(client.pending) # 0 /\ Len(lmtpWire) = 0
      BY <3>1, <2>1, <1>4, OneAnswer
    <3>3. AnsweredInStep'
      BY <3>1, <3>2, <1>1, <1>2, <1>4 DEF AnsweredInStep
    <3>. QED
      BY <3>3, <2>1, <1>2 DEF AtAnswers
  <2>. QED
    BY <2>2, <2>3
<1>. QED
  BY <1>1, <1>2, <1>3, <1>9, <1>10, <1>11, <1>12, <1>13, ServerKeeps

LEMMA PhasesNext ==
  ASSUME Dialogue!EnvelopesSound, LmtpType, InDialogue, Dialogue!Next
  PROVE  InDialogue'
BY ConnectKeeps, OpeningKeeps, ReadMailKeeps, ReadRcptKeeps, ReadDataKeeps, ReadAnswerKeeps, ReadFailsKeeps,
   GreetKeeps, HandleOpeningKeeps, HandleRcptKeeps, HandleDataKeeps, ReadMessageKeeps, DeliverNextKeeps,
   WriteAnswersKeeps, HandleQuitKeeps, ServerGoneKeeps DEF Dialogue!Next

-----------------------------------------------------------------------------
(* The refinement *)

LEMMA LmtpInits ==
  ASSUME Dialogue!EnvelopesSound, Dialogue!Init
  PROVE  LmtpInv
BY TypeInit, PhasesInit DEF LmtpInv

LEMMA LmtpSteps ==
  ASSUME Dialogue!EnvelopesSound, LmtpInv, [Dialogue!Next]_(Dialogue!vars)
  PROVE  LmtpInv'
<1>1. CASE Dialogue!Next
  BY <1>1, TypeNext, PhasesNext DEF LmtpInv
<1>2. CASE UNCHANGED Dialogue!vars
  <2>1. LmtpType'
    <3>1. UNCHANGED <<envelope, client, server, command, lmtpWire, cut, boxes, result>> /\ LmtpType
      BY <1>2 DEF LmtpInv, Dialogue!vars
    <3>2. LmtpClients' = LmtpClients /\ LmtpServers' = LmtpServers /\ EnvelopeKeys' = EnvelopeKeys
      BY <3>1 DEF LmtpClients, LmtpServers, Dialogue!People, EnvelopeNames, EnvelopeKeys
    <3>. QED
      BY <3>1, <3>2 DEF LmtpType
  <2>2. InDialogue'
    <3>1. /\ envelope' = envelope /\ client' = client /\ server' = server /\ command' = command
          /\ lmtpWire' = lmtpWire /\ cut' = cut /\ boxes' = boxes /\ result' = result /\ InDialogue
      BY <1>2 DEF Dialogue!vars, LmtpInv
    <3>2. \A n : AskedUpTo(n) => AskedUpTo(n)'
      BY <3>1 DEF AskedUpTo, Barred, WaitsFor, Dialogue!People
    <3>3. (AtRcpt => AtRcpt') /\ (AtData => AtData')
      BY <3>1, <3>2 DEF AtRcpt, AtData, InStep, NamedUpTo, Barred, Dialogue!People
    <3>4. AtAnswers => AtAnswers'
      BY <3>1, <3>2 DEF AtAnswers, AtDelivering, AnsweredInStep, InStep, WaitsFor, Dialogue!People
    <3>5. (AtConnect => AtConnect') /\ (AtOpening => AtOpening') /\ (AllCollected => AllCollected')
      BY <3>1 DEF AtConnect, AtOpening, AllCollected, Dialogue!People
    <3>6. KeptOnce'
      BY <3>1, ClientKeeps DEF InDialogue
    <3>. QED
      BY <3>1, <3>3, <3>4, <3>5, <3>6 DEF InDialogue
  <2>. QED
    BY <2>1, <2>2 DEF LmtpInv
<1>. QED
  BY <1>1, <1>2

LEMMA VerdictOfAnswer ==
  ASSUME NEW a
  PROVE  Dialogue!Verdict(a) \in Dialogue!Promise!Verdicts /\ (Dialogue!Verdict(a) = "delivered" <=> Dialogue!Ok(a))
<1>1. CASE Dialogue!Ok(a)
  BY <1>1 DEF Dialogue!Verdict, Dialogue!Ok, Dialogue!Promise!Verdicts
<1>2. CASE ~Dialogue!Ok(a) /\ a \in {"550", "552", "501", "503"}
  BY <1>2 DEF Dialogue!Verdict, Dialogue!Ok, Dialogue!Promise!Verdicts
<1>3. CASE ~Dialogue!Ok(a) /\ a \notin {"550", "552", "501", "503"}
  BY <1>3 DEF Dialogue!Verdict, Dialogue!Ok, Dialogue!Promise!Verdicts
<1>. QED
  BY <1>1, <1>2, <1>3

(* Nothing the queue sees has changed. *)
LEMMA Unseen ==
  ASSUME envelope' = envelope, boxes' = boxes, result' = result,
         result = "running" \/ result = "failed" \/ client' = client
  PROVE  UNCHANGED Dialogue!Promise!vars
BY DEF Dialogue!Promise!vars, Dialogue!People, Dialogue!StoredFor, Dialogue!Told

LEMMA FailureReported ==
  ASSUME envelope' = envelope, boxes' = boxes, result = "running", result' = "failed"
  PROVE  Dialogue!Promise!GiveUp
BY DEF Dialogue!Promise!GiveUp, Dialogue!Promise!Untold, Dialogue!Promise!Failed, Dialogue!People, Dialogue!StoredFor, Dialogue!Told

LEMMA FatesReported ==
  ASSUME envelope' = envelope, boxes' = boxes, result = "running", result' = "collected",
         AllCollected'
  PROVE  Dialogue!Promise!Report
<1> DEFINE v == [i \in Dialogue!People |-> Dialogue!Verdict(client.slots[i])']
<1>1. Dialogue!People' = Dialogue!People /\ Dialogue!StoredFor' = Dialogue!StoredFor
  BY DEF Dialogue!People, Dialogue!StoredFor
<1>2. Dialogue!Told = Dialogue!Promise!Untold /\ Dialogue!Told' = [state |-> "told", verdict |-> v]
  BY <1>1 DEF Dialogue!Told, Dialogue!Promise!Untold
<1>3. v \in [Dialogue!People -> Dialogue!Promise!Verdicts]
  BY VerdictOfAnswer DEF Dialogue!Promise!Verdicts
<1>4. ASSUME NEW i \in Dialogue!People PROVE v[i] = "delivered" <=> i \in Dialogue!StoredFor
  <2>1. v[i] = Dialogue!Verdict(client'.slots[i])
    BY DEF Dialogue!Verdict, Dialogue!Ok
  <2>2. Dialogue!Ok(client'.slots[i]) <=> Key[envelope[i]] \in boxes
    BY <1>1 DEF AllCollected, Dialogue!Ok
  <2>. QED
    BY <2>1, <2>2, VerdictOfAnswer DEF Dialogue!StoredFor
<1>. QED
  BY <1>1, <1>2, <1>3, <1>4 DEF Dialogue!Promise!Report

LEMMA CopyStored ==
  ASSUME LmtpInv, Dialogue!DeliverNext
  PROVE  Dialogue!Promise!Store \/ UNCHANGED Dialogue!Promise!vars
<1>1. envelope' = envelope /\ result' = result /\ boxes \subseteq boxes' /\ client' = client
  BY DEF Dialogue!DeliverNext
<1>2. result \in {"running", "failed"}
  BY WhileDelivering DEF Dialogue!DeliverNext, LmtpInv, LmtpType
<1>3. Dialogue!People' = Dialogue!People /\ Dialogue!Told' = Dialogue!Told /\ Dialogue!Told \in {Dialogue!Promise!Untold, Dialogue!Promise!Failed}
  BY <1>1, <1>2 DEF Dialogue!People, Dialogue!Told, Dialogue!Promise!Untold, Dialogue!Promise!Failed
<1>4. Dialogue!StoredFor' \in SUBSET Dialogue!People /\ Dialogue!StoredFor' = Dialogue!StoredFor \cup Dialogue!StoredFor'
  BY <1>1 DEF Dialogue!StoredFor, Dialogue!People
<1>. QED
  BY <1>3, <1>4 DEF Dialogue!Promise!Store

LEMMA StepImplements ==
  ASSUME LmtpInv, LmtpInv', [Dialogue!Next]_(Dialogue!vars)
  PROVE  [Dialogue!Promise!Next]_(Dialogue!Promise!vars)
<1> USE DEF Dialogue!Promise!Next
<1>type. result \in {"running", "failed", "collected"}
  BY DEF LmtpInv, LmtpType
<1>told. result' = "collected" => AllCollected'
  BY DEF LmtpInv, InDialogue
<1>1. CASE Dialogue!Connect
  BY <1>1, Unseen, FailureReported DEF Dialogue!Connect
<1>2. CASE Dialogue!ReadGreeting \/ Dialogue!ReadLhlo \/ Dialogue!ReadMail
  BY <1>2, Unseen, FailureReported DEF Dialogue!ReadGreeting, Dialogue!ReadLhlo, Dialogue!ReadMail, Dialogue!Opening, Dialogue!Waiting, Dialogue!Send, Dialogue!Abandon
<1>3. CASE Dialogue!ReadRcpt
  BY <1>3, <1>told, Unseen, FatesReported DEF Dialogue!ReadRcpt, Dialogue!Waiting
<1>4. CASE Dialogue!ReadData
  BY <1>4, Unseen, FailureReported DEF Dialogue!ReadData, Dialogue!Waiting, Dialogue!Send, Dialogue!Abandon
<1>5. CASE Dialogue!ReadAnswer
  BY <1>5, <1>told, Unseen, FatesReported DEF Dialogue!ReadAnswer, Dialogue!Waiting
<1>6. CASE Dialogue!ReadFails
  BY <1>6, FailureReported DEF Dialogue!ReadFails
<1>7. CASE Dialogue!DeliverNext
  BY <1>7, CopyStored
<1>8. CASE Dialogue!Greet \/ Dialogue!HandleLhlo \/ Dialogue!HandleMail \/ Dialogue!HandleRcpt \/ Dialogue!HandleData \/ Dialogue!ReadMessage
           \/ Dialogue!WriteAnswers \/ Dialogue!HandleQuit \/ Dialogue!ServerGone
  BY <1>8, Unseen DEF Dialogue!Greet, Dialogue!HandleLhlo, Dialogue!HandleMail, Dialogue!HandleRcpt, Dialogue!HandleData, Dialogue!ReadMessage, Dialogue!WriteAnswers,
                      Dialogue!HandleQuit, Dialogue!ServerGone
<1>9. CASE UNCHANGED Dialogue!vars
  BY <1>9, Unseen DEF Dialogue!vars
<1>. QED
  BY <1>1, <1>2, <1>3, <1>4, <1>5, <1>6, <1>7, <1>8, <1>9 DEF Dialogue!Next

(* Client and server stay in step: types, and what each phase of the       *)
(* dialogue knows of the server's list, the answers under way and the      *)
(* mailboxes that took the message.                                        *)
THEOREM InStepAlways ==
  ASSUME Dialogue!EnvelopesSound
  PROVE  Dialogue!Spec => []LmtpInv
<1>1. Dialogue!Init => LmtpInv
  BY LmtpInits
<1>2. LmtpInv /\ [Dialogue!Next]_(Dialogue!vars) => LmtpInv'
  BY LmtpSteps
<1>. QED
  BY <1>1, <1>2, PTL DEF Dialogue!Spec

(* deliver of lmtp.rs and the server's handlers together implement the     *)
(* hand-off, for every set of envelopes that is sound, every table of      *)
(* mailboxes and every limit: the queue is told each recipient's own fate, *)
(* delivered exactly when the mailbox took the message, or that the        *)
(* attempt failed.                                                         *)
THEOREM DialogueHandsOff ==
  ASSUME Dialogue!EnvelopesSound
  PROVE  Dialogue!Spec => Dialogue!HandsOff
<1>1. Dialogue!Init => Dialogue!Promise!Init
  BY DEF Dialogue!Init, Dialogue!Promise!Init, Dialogue!Promise!Untold, Dialogue!StoredFor, Dialogue!Told
<1>2. LmtpInv /\ LmtpInv' /\ [Dialogue!Next]_(Dialogue!vars) => [Dialogue!Promise!Next]_(Dialogue!Promise!vars)
  BY StepImplements
<1>3. Dialogue!Spec => []LmtpInv
  BY InStepAlways
<1>. QED
  BY <1>1, <1>2, <1>3, PTL DEF Dialogue!Spec, Dialogue!HandsOff, Dialogue!Promise!Spec

-----------------------------------------------------------------------------
(***************************************************************************)
(* POP3 (Pop3Session). The maildrop's lock serialises transactions, and    *)
(* QUIT removes what was marked.                                           *)
(***************************************************************************)
CONSTANTS Users, Homeless, MaxAuthFailures, TlsRequired, MaxUid
VARIABLES pop, inbox, nextUid, lockedBy, claimed, gone

Pop3 == INSTANCE Pop3Session WITH
    Pop3Clients <- Actors

\* The inductive invariant. Per connection: a session in the transaction state holds the
\* lock, and the UIDs under its marks are among those it asked for.
Pop3Inv ==
    /\ DOMAIN pop = Actors /\ DOMAIN claimed = Actors
    /\ \A c \in Actors :
         /\ DOMAIN pop[c] = {"state", "user", "failures", "secured", "messages", "deleted", "reply"}
         /\ Pop3!Marked(c) \subseteq claimed[c]
         /\ pop[c].state # "transaction" => pop[c].deleted = {}
    /\ Pop3!OneTransaction
    /\ Pop3!RemovedOnlyIfMarked

LEMMA Pop3Inits ==
  ASSUME Pop3!Pop3Constants, Pop3!Init
  PROVE  Pop3Inv
<1>1. \A c \in Actors : pop[c] \in {Pop3!NewSession(FALSE), Pop3!NewSession(TRUE)}
  BY DEF Pop3!Init
<1>2. QED
  BY <1>1 DEF Pop3!Init, Pop3Inv, Pop3!NewSession, Pop3!Marked, Pop3!OneTransaction,
     Pop3!RemovedOnlyIfMarked, Pop3!Nobody, Pop3!Pop3Constants

LEMMA Pop3Steps ==
  ASSUME Pop3!Pop3Constants, Pop3Inv, [Pop3!Next]_Pop3!vars
  PROVE  Pop3Inv'
<1>. USE DEF Pop3Inv, Pop3!Pop3Constants, Pop3!OneTransaction, Pop3!RemovedOnlyIfMarked, Pop3!Marked,
             Pop3!Quiet, Pop3!Reply
<1>1. ASSUME NEW c \in Actors, NEW u \in Users, Pop3!User(c, u)
      PROVE  Pop3Inv'
  BY <1>1 DEF Pop3!User
<1>2. ASSUME NEW c \in Actors, Pop3!PassAccepted(c)
      PROVE  Pop3Inv'
  <2>1. ASSUME NEW m, lockedBy = Pop3!Nobody, lockedBy' = c,
               pop' = [pop EXCEPT ![c].state = "transaction", ![c].deleted = {}, ![c].reply = "+OK",
                                  ![c].messages = m]
        PROVE  Pop3Inv'
    BY <1>2, <2>1 DEF Pop3!PassAccepted
  <2>2. ASSUME NEW r, UNCHANGED lockedBy, pop' = [pop EXCEPT ![c].reply = r]
        PROVE  Pop3Inv'
    <3>1. /\ DOMAIN pop' = Actors
          /\ \A d \in Actors : /\ DOMAIN pop'[d] = DOMAIN pop[d] /\ pop'[d].state = pop[d].state
                               /\ pop'[d].deleted = pop[d].deleted /\ pop'[d].messages = pop[d].messages
      BY <2>2
    <3>2. UNCHANGED <<inbox, nextUid, claimed, gone, lockedBy>>
      BY <1>2, <2>2 DEF Pop3!PassAccepted
    <3>. QED
      BY <3>1, <3>2
  <2>3. CASE pop[c].user \in Homeless
    BY <1>2, <2>2, <2>3 DEF Pop3!PassAccepted
  <2>4. CASE pop[c].user \notin Homeless
    <3>1. Pop3!EnterTransaction(c)
      BY <1>2, <2>4 DEF Pop3!PassAccepted
    <3>2. QED
      BY <3>1, <2>1, <2>2 DEF Pop3!EnterTransaction, Pop3!AcquireMailboxLock
  <2>5. QED
    BY <2>3, <2>4
<1>3. ASSUME NEW c \in Actors, Pop3!PassRefused(c)
      PROVE  Pop3Inv'
  BY <1>3 DEF Pop3!PassRefused
<1>4. ASSUME NEW c \in Actors, Pop3!Stls(c)
      PROVE  Pop3Inv'
  BY <1>4 DEF Pop3!Stls, Pop3!NewSession
<1>5. ASSUME NEW c \in Actors, Pop3!Statistics(c) \/ \E n \in 1..MaxUid : Pop3!Retr(c, n)
      PROVE  Pop3Inv'
  BY <1>5 DEF Pop3!Statistics, Pop3!Retr
<1>6. ASSUME NEW c \in Actors, NEW n \in 1..MaxUid, Pop3!Dele(c, n)
      PROVE  Pop3Inv'
  BY <1>6 DEF Pop3!Dele, Pop3!LookupMessage
<1>7. ASSUME NEW c \in Actors, Pop3!Rset(c)
      PROVE  Pop3Inv'
  BY <1>7 DEF Pop3!Rset
<1>8. ASSUME NEW c \in Actors, Pop3!Quit(c)
      PROVE  Pop3Inv'
  <2>1. \A g \in gone' : g \in gone \/ g.asked
    <3>1. ASSUME NEW u \in claimed[c]
          PROVE  [uid |-> u, by |-> c, asked |-> u \in claimed[c]].asked
      OBVIOUS
    <3>2. QED
      BY <1>8, <3>1 DEF Pop3!Quit
  <2>2. QED
    BY <1>8, <2>1 DEF Pop3!Quit, Pop3!Hangs, Pop3!NewSession
<1>9. ASSUME NEW c \in Actors, Pop3!Closed(c)
      PROVE  Pop3Inv'
  BY <1>9 DEF Pop3!Closed, Pop3!Hangs, Pop3!NewSession
<1>10. ASSUME NEW c \in Actors, NEW removed \in SUBSET inbox, Pop3!QuitFails(c, removed)
      PROVE  Pop3Inv'
  <2>1. \A g \in gone' : g \in gone \/ g.asked
    <3>1. ASSUME NEW u \in claimed[c]
          PROVE  [uid |-> u, by |-> c, asked |-> u \in claimed[c]].asked
      OBVIOUS
    <3>2. QED
      BY <1>10, <3>1 DEF Pop3!QuitFails
  <2>2. QED
    BY <1>10, <2>1 DEF Pop3!QuitFails
<1>11. ASSUME Pop3!Delivered \/ \E u \in inbox : Pop3!ExpungedElsewhere(u)
       PROVE  Pop3Inv'
  BY <1>11 DEF Pop3!Delivered, Pop3!ExpungedElsewhere
<1>12. ASSUME UNCHANGED Pop3!vars
       PROVE  Pop3Inv'
  BY <1>12 DEF Pop3!vars
<1>13. QED
  BY <1>1, <1>2, <1>3, <1>4, <1>5, <1>6, <1>7, <1>8, <1>9, <1>10, <1>11, <1>12 DEF Pop3!Next

\* For any number of clients and messages: a message leaves through POP3 only if the very
\* session that removes it marked it with DELE and did not take the mark back, although
\* the maildrop changes between login and QUIT; and exactly the session that holds the
\* lock is in the TRANSACTION state.
THEOREM Pop3RemovesMarked ==
  ASSUME Pop3!Pop3Constants
  PROVE  Pop3!Spec => [](Pop3!RemovedOnlyIfMarked /\ Pop3!OneTransaction)
<1>1. Pop3!Init => Pop3Inv
  BY Pop3Inits
<1>2. Pop3Inv /\ [Pop3!Next]_Pop3!vars => Pop3Inv'
  BY Pop3Steps
<1>3. Pop3Inv => Pop3!RemovedOnlyIfMarked /\ Pop3!OneTransaction
  BY DEF Pop3Inv
<1>4. QED
  BY <1>1, <1>2, <1>3, PTL DEF Pop3!Spec

-----------------------------------------------------------------------------
(***************************************************************************)
(* An IMAP session (ImapSession), for any folders, rights and bounds. The  *)
(* peer's store is in use only after a SELECT that the peer's rights       *)
(* allowed, and every way out of the selected state leads back to the      *)
(* personal store.                                                         *)
(***************************************************************************)
CONSTANTS ImapFolders, ImapUids, Grants, MaxFailures, RequireTls,
    MaxImapChanges, MaxFaults
VARIABLES imap, numbering, imapBox, imapMark, places, valid, acl, next,
    changes, faults, missed, opened, selectTorn, granted, slips

Imap == INSTANCE ImapSession WITH
    client <- numbering, box <- imapBox, mark <- imapMark, torn <- selectTorn,
    Folders <- ImapFolders, Uids <- ImapUids, MaxChanges <- MaxImapChanges

\* The fields of a session.
SessionFields ==
    {"phase", "tls", "fails", "store", "own", "owner", "folder", "write", "view", "valid", "flags", "qresync", "idle"}

\* Before the login the session is on the placeholder store, and its personal store is never the peer's.
StoresOK(s) ==
    /\ DOMAIN s = SessionFields
    /\ s.own # "peer"
    /\ s.phase = "out" => s.store = s.own /\ s.owner = "none"

\* Where the session works, unless a SELECT stopped half-way.
WorksAt(s, place) ==
    /\ s.phase = "in" => s.store = s.own /\ s.owner = "none"
    /\ s.phase = "selected" => <<s.store, s.folder>> = place

\* The inductive invariant: the peer's store is in use only after a grant.
AccessInv ==
    /\ StoresOK(imap)
    /\ imap.store = "peer" => granted
    /\ ~selectTorn => WorksAt(imap, opened)
    /\ slips = {}

LEMMA AccessInits == Imap!Init => AccessInv
BY DEF Imap!Init, Imap!NewSession, Imap!NoOne, AccessInv, StoresOK, WorksAt, SessionFields

\* A step that goes on on the same store, with nothing new in the history.
LEMMA SameStore ==
    ASSUME AccessInv, StoresOK(imap'), imap'.store = imap.store, imap'.own = imap.own,
           WorksAt(imap, opened) => WorksAt(imap', opened'),
           UNCHANGED <<selectTorn, granted, slips>>
    PROVE  AccessInv'
BY DEF AccessInv

\* A step that goes back to the personal store, or closes the session.
LEMMA BackHome ==
    ASSUME AccessInv, imap' = Imap!Deselected(imap) \/ imap' = Imap!Closed,
           UNCHANGED <<selectTorn, granted, slips>>
    PROVE  AccessInv'
<1>1. CASE imap' = Imap!Closed
  BY <1>1 DEF AccessInv, StoresOK, WorksAt, SessionFields, Imap!Closed, Imap!NewSession
<1>2. CASE imap' = Imap!Deselected(imap)
  BY <1>2 DEF AccessInv, StoresOK, WorksAt, SessionFields, Imap!Deselected, Imap!NoOne
<1>. QED
  BY <1>1, <1>2

\* A step on a place of the store in use, or one the peer's rights were asked for, slips nowhere.
LEMMA NoSlip ==
    ASSUME AccessInv, NEW what, NEW place, NEW wasAsked \in BOOLEAN, Imap!Change(what, place, wasAsked),
           place[1] = imap.store \/ wasAsked
    PROVE  slips' = slips
BY DEF AccessInv, Imap!Change

\* Reading a folder again keeps the store.
LEMMA Rereading ==
    ASSUME AccessInv, NEW f, NEW uids, NEW flags, NEW v, Imap!Reread(f, uids, flags, v)
    PROVE  /\ StoresOK(imap') /\ imap'.store = imap.store /\ imap'.own = imap.own
           /\ imap'.owner = imap.owner /\ imap'.phase = imap.phase /\ imap'.folder = f
BY DEF AccessInv, StoresOK, SessionFields, Imap!Reread

LEMMA LoginKeeps ==
    ASSUME AccessInv, Imap!StartTls \/ Imap!AuthFailure \/ Imap!Scram \/ \E b \in BOOLEAN : Imap!FinishAuthentication(b)
    PROVE  AccessInv'
<1>1. CASE Imap!StartTls
  BY <1>1 DEF Imap!StartTls, Imap!NewSession, Imap!NoOne, Imap!Quiet, Imap!history, AccessInv, StoresOK, WorksAt, SessionFields
<1>2. CASE Imap!AuthFailure
  BY <1>2, BackHome, SameStore DEF Imap!AuthFailure, Imap!CanAuthenticate, Imap!Quiet, Imap!history, AccessInv, StoresOK, WorksAt, SessionFields
<1>3. CASE Imap!Scram
  BY <1>3 DEF Imap!Scram, Imap!CanAuthenticate, Imap!Quiet, Imap!history, AccessInv, StoresOK, WorksAt, SessionFields
<1>4. ASSUME NEW b \in BOOLEAN, Imap!FinishAuthentication(b) PROVE AccessInv'
  BY <1>4 DEF Imap!FinishAuthentication, Imap!CanAuthenticate, Imap!Quiet, Imap!history, AccessInv, StoresOK, WorksAt, SessionFields
<1>. QED
  BY <1>1, <1>2, <1>3, <1>4

LEMMA ResolvedStore ==
    ASSUME NEW shared \in BOOLEAN, NEW f
    PROVE  /\ Imap!Resolve(shared, f).place = <<IF shared THEN "peer" ELSE imap.store, f>>
           /\ Imap!Resolve(shared, f).owner = IF shared THEN "peer" ELSE "none"
BY DEF Imap!Resolve, Imap!NoOne

\* A SELECT that succeeds names the place it opened; a shared one was granted.
LEMMA SelectKeeps ==
    ASSUME AccessInv, NEW shared \in BOOLEAN, NEW f \in ImapFolders, NEW write \in BOOLEAN, Imap!Select(shared, f, write)
    PROVE  AccessInv'
<1>. DEFINE r == Imap!Resolve(shared, f)
<1>1. r.place = <<IF shared THEN "peer" ELSE imap.store, f>> /\ r.owner = IF shared THEN "peer" ELSE "none"
  BY ResolvedStore
<1>2. CASE Imap!MaySelect(r) /\ r.place \in places
  <2>1. (granted \/ (shared /\ {"l", "r"} \subseteq acl[f]) => granted') /\ opened' = r.place /\ slips' = slips
    BY <1>2, Zenon DEF Imap!Select
  <2>2. StoresOK(imap') /\ imap'.phase = "selected" /\ imap'.store = r.place[1] /\ imap'.folder = f
    BY <1>2 DEF Imap!Select, AccessInv, StoresOK, SessionFields
  <2>3. shared => {"l", "r"} \subseteq acl[f]
    BY <1>1, <1>2 DEF Imap!MaySelect, Imap!HasRights, Imap!NoOne
  <2>. QED
    BY <1>1, <2>1, <2>2, <2>3 DEF AccessInv, WorksAt
<1>3. CASE ~(Imap!MaySelect(r) /\ r.place \in places)
  BY <1>3, BackHome DEF Imap!Select
<1>. QED
  BY <1>2, <1>3

LEMMA SelectTornKeeps ==
    ASSUME AccessInv, NEW shared \in BOOLEAN, NEW f \in ImapFolders, Imap!SelectTorn(shared, f)
    PROVE  AccessInv'
<1>. DEFINE r == Imap!Resolve(shared, f)
<1>1. r.place = <<IF shared THEN "peer" ELSE imap.store, f>> /\ r.owner = IF shared THEN "peer" ELSE "none"
  BY ResolvedStore
<1>2. (granted \/ (shared /\ {"l", "r"} \subseteq acl[f]) => granted') /\ selectTorn' /\ slips' = slips
  BY Zenon DEF Imap!SelectTorn
<1>3. StoresOK(imap') /\ imap'.store = r.place[1]
  BY DEF Imap!SelectTorn, Imap!LoggedIn, AccessInv, StoresOK, SessionFields
<1>4. shared => {"l", "r"} \subseteq acl[f]
  BY <1>1 DEF Imap!SelectTorn, Imap!MaySelect, Imap!HasRights, Imap!NoOne
<1>. QED
  BY <1>1, <1>2, <1>3, <1>4 DEF AccessInv

\* Steps that only read, wait or leave.
LEMMA WaitingKeeps ==
    ASSUME AccessInv,
           \/ Imap!EnableQresync \/ Imap!Unselect \/ Imap!Idle \/ Imap!Leave
           \/ \E b \in BOOLEAN : Imap!IdleEnds(b)
           \/ \E left \in SUBSET imap.view : Imap!Refresh(left)
    PROVE  AccessInv'
<1>1. CASE Imap!EnableQresync \/ Imap!Idle
  BY <1>1, SameStore DEF Imap!EnableQresync, Imap!Idle, Imap!Quiet, Imap!history, AccessInv, StoresOK, WorksAt, SessionFields
<1>2. CASE Imap!Unselect \/ Imap!Leave
  BY <1>2, BackHome DEF Imap!Unselect, Imap!Leave, Imap!Quiet, Imap!history
<1>3. ASSUME NEW b \in BOOLEAN, Imap!IdleEnds(b) PROVE AccessInv'
  <2>1. CASE b
    BY <1>3, <2>1, BackHome DEF Imap!IdleEnds, Imap!Quiet, Imap!history
  <2>2. CASE ~b
    BY <1>3, <2>2, SameStore DEF Imap!IdleEnds, Imap!Quiet, Imap!history, AccessInv, StoresOK, WorksAt, SessionFields
  <2>. QED
    BY <2>1, <2>2
<1>4. ASSUME NEW left \in SUBSET imap.view, Imap!Refresh(left) PROVE AccessInv'
  <2>1. Imap!Reread(imap.folder, imapBox[Imap!Place] \ left, imapMark, valid[Imap!Place])
        /\ UNCHANGED <<opened, selectTorn, granted, slips>>
    BY <1>4 DEF Imap!Refresh
  <2>. QED
    BY <2>1, Rereading, SameStore DEF WorksAt
<1>. QED
  BY <1>1, <1>2, <1>3, <1>4

LEMMA FolderKeeps ==
    ASSUME AccessInv, NEW f \in ImapFolders, Imap!Create(f) \/ Imap!Delete(f) \/ \E g \in ImapFolders : Imap!Rename(f, g)
    PROVE  AccessInv'
<1>1. CASE Imap!Create(f)
  BY <1>1, NoSlip DEF Imap!Create, AccessInv
<1>2. CASE Imap!Delete(f)
  BY <1>2, NoSlip DEF Imap!Delete, AccessInv
<1>3. ASSUME NEW g \in ImapFolders, Imap!Rename(f, g) PROVE AccessInv'
  <2>. DEFINE from == <<imap.store, f>>
              kept == IF f = "INBOX" THEN f ELSE g
  <2>1. slips' = slips /\ UNCHANGED <<selectTorn, granted>>
    BY <1>3, NoSlip DEF Imap!Rename
  <2>2. CASE imap.phase = "selected" /\ imap.folder = f
    <3>1. Imap!Reread(kept, imapBox'[<<imap.store, kept>>], imapMark, valid'[<<imap.store, kept>>])
          /\ opened' = IF opened = from THEN <<imap.store, kept>> ELSE opened
      BY <1>3, <2>2 DEF Imap!Rename
    <3>. QED
      BY <2>1, <2>2, <3>1, Rereading, SameStore DEF WorksAt
  <2>3. CASE ~(imap.phase = "selected" /\ imap.folder = f)
    BY <1>3, <2>1, <2>3 DEF Imap!Rename, AccessInv
  <2>. QED
    BY <2>2, <2>3
<1>. QED
  BY <1>1, <1>2, <1>3

\* The refresh after an APPEND or COPY rereads the folder that is selected.
LEMMA NamedRefresh ==
    ASSUME AccessInv, NEW f, NEW uids, Imap!RefreshIfNamed(f, uids), UNCHANGED <<opened, selectTorn, granted, slips>>
    PROVE  AccessInv'
<1>1. CASE imap.phase = "selected" /\ imap.folder = f /\ Imap!Place \in places
  <2>1. Imap!Reread(f, uids, imapMark', valid[Imap!Place])
    BY <1>1 DEF Imap!RefreshIfNamed
  <2>. QED
    BY <1>1, <2>1, Rereading, SameStore DEF WorksAt
<1>2. CASE ~(imap.phase = "selected" /\ imap.folder = f /\ Imap!Place \in places)
  BY <1>2 DEF Imap!RefreshIfNamed, AccessInv
<1>. QED
  BY <1>1, <1>2

LEMMA AppendKeeps ==
    ASSUME AccessInv, NEW shared \in BOOLEAN, NEW f \in ImapFolders, Imap!AppendMessage(shared, f)
    PROVE  AccessInv'
<1>. DEFINE r == Imap!Resolve(shared, f)
<1>1. Imap!Change("append", r.place, shared) /\ (r.place[1] = imap.store \/ shared)
  BY ResolvedStore DEF Imap!AppendMessage
<1>2. slips' = slips
  BY <1>1, NoSlip
<1>3. Imap!RefreshIfNamed(f, imapBox'[Imap!Place]) /\ UNCHANGED <<opened, selectTorn, granted>>
  BY DEF Imap!AppendMessage
<1>. QED
  BY <1>2, <1>3, NamedRefresh

LEMMA CopyKeeps ==
    ASSUME AccessInv, NEW shared \in BOOLEAN, NEW f \in ImapFolders, NEW uids \in SUBSET imap.view,
           \/ Imap!Copy(uids, shared, f) \/ Imap!Move(uids, shared, f)
           \/ \E lost \in SUBSET uids : Imap!MoveTorn(uids, shared, f, lost)
    PROVE  AccessInv'
<1>1. CASE Imap!Copy(uids, shared, f)
  <2>1. Imap!Change("copy", <<imap.store, f>>, shared) /\ Imap!RefreshIfNamed(f, imapBox'[Imap!Place])
        /\ UNCHANGED <<opened, selectTorn, granted>>
    BY <1>1 DEF Imap!Copy
  <2>2. slips' = slips
    BY <2>1, NoSlip
  <2>. QED
    BY <2>1, <2>2, NamedRefresh
<1>2. CASE Imap!Move(uids, shared, f)
  <2>1. Imap!Change("move", Imap!Place, FALSE) /\ imap' = Imap!WithoutUids(imap, uids)
        /\ UNCHANGED <<opened, selectTorn, granted>>
    BY <1>2 DEF Imap!Move
  <2>2. slips' = slips
    BY <2>1, NoSlip DEF Imap!Place
  <2>. QED
    BY <2>1, <2>2, SameStore DEF Imap!WithoutUids, AccessInv, StoresOK, WorksAt, SessionFields
<1>3. ASSUME NEW lost \in SUBSET uids, Imap!MoveTorn(uids, shared, f, lost) PROVE AccessInv'
  <2>1. Imap!Change("move", Imap!Place, FALSE) /\ UNCHANGED <<imap, opened, selectTorn, granted>>
    BY <1>3 DEF Imap!MoveTorn
  <2>2. slips' = slips
    BY <2>1, NoSlip DEF Imap!Place
  <2>. QED
    BY <2>1, <2>2 DEF AccessInv
<1>. QED
  BY <1>1, <1>2, <1>3

LEMMA SetAclKeeps ==
    ASSUME AccessInv, NEW shared \in BOOLEAN, NEW f \in ImapFolders, NEW rights \in Grants, Imap!SetAcl(shared, f, rights)
    PROVE  AccessInv'
<1>. DEFINE r == Imap!Resolve(shared, f)
<1>1. Imap!Change("setacl", r.place, shared) /\ (r.place[1] = imap.store \/ shared)
  BY ResolvedStore DEF Imap!SetAcl
<1>2. slips' = slips
  BY <1>1, NoSlip
<1>. QED
  BY <1>2 DEF Imap!SetAcl, AccessInv

LEMMA FlagKeeps ==
    ASSUME AccessInv, NEW u \in imap.view,
           Imap!FetchBody(u) \/ \E mode \in {"add", "remove", "replace"} : Imap!Store(u, mode)
    PROVE  AccessInv'
<1>1. PICK what, flags : Imap!Change(what, Imap!Place, FALSE) /\ Imap!SetFlags(u, flags)
  BY DEF Imap!FetchBody, Imap!Store
<1>2. slips' = slips
  BY <1>1, NoSlip DEF Imap!Place
<1>3. StoresOK(imap') /\ imap'.store = imap.store /\ imap'.own = imap.own /\ imap'.phase = imap.phase
      /\ imap'.owner = imap.owner /\ imap'.folder = imap.folder
  BY <1>1 DEF Imap!SetFlags, AccessInv, StoresOK, SessionFields
<1>4. UNCHANGED <<opened, selectTorn, granted>>
  BY <1>1 DEF Imap!SetFlags
<1>. QED
  BY <1>2, <1>3, <1>4, SameStore DEF WorksAt

LEMMA RemovalKeeps ==
    ASSUME AccessInv, Imap!Close \/ \E uids \in SUBSET imap.view : Imap!Expunge(uids)
    PROVE  AccessInv'
<1>1. CASE Imap!Close
  <2>1. slips' = slips
    BY <1>1, NoSlip DEF Imap!Close, Imap!Place
  <2>. QED
    BY <1>1, <2>1, BackHome DEF Imap!Close
<1>2. ASSUME NEW uids \in SUBSET imap.view, Imap!Expunge(uids) PROVE AccessInv'
  <2>1. Imap!Change("expunge", Imap!Place, FALSE) /\ imap' = Imap!WithoutUids(imap, uids)
        /\ UNCHANGED <<opened, selectTorn, granted>>
    BY <1>2 DEF Imap!Expunge
  <2>2. slips' = slips
    BY <2>1, NoSlip DEF Imap!Place
  <2>. QED
    BY <2>1, <2>2, SameStore DEF Imap!WithoutUids, AccessInv, StoresOK, WorksAt, SessionFields
<1>. QED
  BY <1>1, <1>2

LEMMA OthersKeep ==
    ASSUME AccessInv,
           \/ \E p \in Imap!AllPlaces :
                 Imap!Deliver(p) \/ \E u \in imapBox[p] : Imap!OthersExpunge(p, u) \/ Imap!OthersStore(p, u)
           \/ \E f \in ImapFolders, rights \in Grants : Imap!PeerGrants(f, rights)
    PROVE  AccessInv'
<1>1. Imap!Others
  BY DEF Imap!Deliver, Imap!OthersExpunge, Imap!OthersStore, Imap!PeerGrants
<1>. QED
  BY <1>1 DEF Imap!Others, Imap!history, AccessInv

LEMMA AccessSteps == AccessInv /\ [Imap!Next]_(Imap!vars) => AccessInv'
<1>. SUFFICES ASSUME AccessInv, [Imap!Next]_(Imap!vars) PROVE AccessInv'
  OBVIOUS
<1>1. CASE UNCHANGED Imap!vars
  BY <1>1 DEF Imap!vars, Imap!history, AccessInv
<1>2. CASE Imap!Next
  BY <1>2, LoginKeeps, WaitingKeeps, SelectKeeps, SelectTornKeeps, FolderKeeps, AppendKeeps, CopyKeeps, SetAclKeeps,
     FlagKeeps, RemovalKeeps, OthersKeep DEF Imap!Next
<1>. QED
  BY <1>1, <1>2

\* For any folders, rights and bounds: unless a SELECT stopped half-way, a session works
\* on the mailbox it last opened, and out of the selected state on its own (select,
\* deselect, close_selected); and nothing of another user's mailbox is changed unless a
\* right of the command, or lookup and read at the SELECT, was granted (resolve_mailbox,
\* require_rights).
THEOREM SessionsKeepToTheirMail == Imap!Spec => [](Imap!WorksWhereItSays /\ Imap!OutsidersKeptOut)
<1>1. AccessInv => Imap!WorksWhereItSays /\ Imap!OutsidersKeptOut
  BY DEF AccessInv, WorksAt, Imap!WorksWhereItSays, Imap!OutsidersKeptOut, Imap!Place, Imap!NoOne
<1>. QED
  BY <1>1, AccessInits, AccessSteps, PTL DEF Imap!Spec
=============================================================================
