--------------------------- MODULE MaildirProofs ---------------------------
(***************************************************************************)
(* What one folder of the Maildir store guarantees for every number of     *)
(* sessions, messages and flags, and however many opens, torn operations   *)
(* and losses of the UID list there are.                                   *)
(***************************************************************************)
EXTENDS Maildir, TLAPS, FiniteSetTheorems

-----------------------------------------------------------------------------
(* The inductive invariant, in named parts *)

\* The list and the history of all it ever said: UIDVALIDITYs are used up in
\* order, what is listed was named, and uidnext is above what was named.
Ledger ==
    /\ list.valid <= fresh /\ list.next >= 1
    /\ \A t \in named : t[1] \in 1 .. fresh /\ t[2] # 0
    /\ \A t \in named : t[1] = list.valid => t[2] < list.next
    /\ \A b \in Bases : list.uid[b] # 0 => <<list.valid, list.uid[b], b>> \in named

\* A copy of the list that a session made once: its pairs were named, and its
\* HIGHESTMODSEQ is not ahead of the list of the same UIDVALIDITY.
CopyOf(valid, top, uid) ==
    /\ valid <= fresh
    /\ valid = 0 => top = 0
    /\ valid = list.valid => top <= list.top
    /\ \A b \in Bases : uid[b] # 0 => <<valid, uid[b], b>> \in named

Copies ==
    \A s \in Sessions :
        /\ CopyOf(view[s].valid, view[s].since, view[s].uid)
        /\ CopyOf(mapping[s].valid, mapping[s].top, mapping[s].uid)

\* A session on its way to assign a UID knows for which message.
Assigning == \A s \in Sessions : pc[s] = "assign" => base[s] \in Bases

\* A scan finds every message that did not arrive while somebody scanned:
\* new/ is read first, and files only ever move from new/ to cur/.
ScanFinds ==
    \A s \in Sessions : \A b \in Present \ raced :
        /\ pc[s] = "cur" => b \in Scanned(s) \/ file[b].dir = "cur"
        /\ pc[s] = "sync" => b \in Scanned(s)

\* So the list keeps the UID of such a message.
ListKeeps ==
    \A t \in named : t[1] = list.valid /\ t[3] \in Present \ raced => list.uid[t[3]] = t[2]

\* A message that a session was shown and that is still listed is there.
ShownIsThere ==
    \A s \in Sessions : \A b \in Viewed(s) \ (raced \cup torn) :
        view[s].valid = list.valid /\ list.uid[b] = view[s].uid[b] => b \in Present

\* As long as the list was never lost, there is one UIDVALIDITY.
OneValidity ==
    rebuilds = 0 => /\ \A t \in named : t[1] = list.valid
                    /\ \A s \in Sessions : pc[s] # "rename"

\* During an open: how the scanned name of a message nobody touched relates
\* to its file.  Of a SELECT, another one may have promoted the file.
Promoted(s, b) == /\ select[s] /\ scan[s][b].dir = "new"
                  /\ file[b] = [dir |-> "cur", flags |-> scan[s][b].flags]

OpenKnows ==
    \A s \in Sessions :
        /\ pc[s] = "promote" => select[s]
        /\ pc[s] = "stat" /\ select[s] => \A b \in Bases : scan[s][b].dir # "new"
        /\ pc[s] \in {"promote", "stat"} => \A b \in Scanned(s) : mapping[s].uid[b] # 0
        /\ \A b \in Present \ touched[s] :
              /\ pc[s] = "cur" => file[b].dir = "cur" \/ scan[s][b] = file[b]
              /\ pc[s] \in {"sync", "promote"} => scan[s][b] = file[b] \/ Promoted(s, b)
              /\ pc[s] = "stat" => scan[s][b] = file[b]

UidInv    == TypeOK /\ Ledger /\ Copies /\ Assigning /\ ScanFinds /\ ListKeeps /\ UidsStand
FolderInv == UidInv /\ ShownIsThere /\ ResyncComplete /\ OneValidity /\ OnlyNamedChanged /\ OpenKnows

-----------------------------------------------------------------------------
(* Facts about the operators on lists *)

LEMMA NoListTyped == NoList \in Lists /\ Loadable(NoList)
  BY DEF NoList, Lists, Loadable

\* A set of bases is finite, and so is the number of UIDs it needs.
LEMMA CountTyped == ASSUME NEW S \in SUBSET Bases PROVE Cardinality(S) \in Nat
  BY BasesFinite, FS_Subset, FS_CardinalityType

\* A loadable list gives out its uidnext.
LEMMA NextUidIsNext ==
  ASSUME NEW l \in Lists, Loadable(l) PROVE NextUid(l) = l.next
  BY DEF Loadable, NextUid, Lists

LEMMA RetainFacts ==
  ASSUME NEW l \in Lists, Loadable(l), NEW S \in SUBSET Bases
  PROVE  LET r == Retain(l, S) IN
         /\ r \in Lists /\ Loadable(r)
         /\ r.valid = l.valid /\ r.next = l.next /\ r.top = l.top
         /\ \A b \in S : r.uid[b] = l.uid[b] /\ r.mod[b] = l.mod[b]
         /\ \A b \in Bases \ S : r.uid[b] = 0 /\ r.mod[b] = 0
  <1> DEFINE r == Retain(l, S)
  <1>1. r \in Lists
    BY DEF Retain, Lists
  <1>2. /\ r.valid = l.valid /\ r.next = l.next /\ r.top = l.top
        /\ \A b \in S : r.uid[b] = l.uid[b] /\ r.mod[b] = l.mod[b]
        /\ \A b \in Bases \ S : r.uid[b] = 0 /\ r.mod[b] = 0
    BY DEF Retain, Lists
  <1> HIDE DEF r
  <1>3. Loadable(r)
    <2>1. \A b \in Bases : r.uid[b] < r.next /\ r.mod[b] <= r.top
      BY <1>1, <1>2 DEF Loadable, Lists
    <2>2. \A b \in Bases : (r.uid[b] = 0) = (r.mod[b] = 0)
      BY <1>1, <1>2 DEF Loadable, Lists
    <2>3. \A b, d \in Bases : r.uid[b] = r.uid[d] /\ r.uid[b] # 0 => b = d
      BY <1>1, <1>2 DEF Loadable, Lists
    <2> QED
      BY <2>1, <2>2, <2>3 DEF Loadable
  <1> QED
    BY <1>1, <1>2, <1>3 DEF r

\* New entries get UIDs from uidnext on and modseqs above highest_modseq, all
\* different; the others keep theirs.
LEMMA EnterFacts ==
  ASSUME NEW l \in Lists, Loadable(l), l.next >= 1,
         NEW news \in SUBSET {b \in Bases : l.uid[b] = 0}, NEW f \in Numberings(news)
  PROVE  LET e == Enter(l, news, f) IN
         /\ e \in Lists /\ Loadable(e)
         /\ e.valid = l.valid /\ e.next >= l.next /\ e.top >= l.top
         /\ \A b \in news : e.uid[b] >= l.next
         /\ \A b \in Bases \ news : e.uid[b] = l.uid[b] /\ e.mod[b] = l.mod[b]
  <1>1. Cardinality(news) \in Nat
    BY CountTyped
  <1>2. \A b \in news : f[b] \in 1 .. Cardinality(news)
    BY DEF Numberings
  <1>3. \A b, d \in news : f[b] = f[d] => b = d
    BY DEF Numberings
  <1> DEFINE e == Enter(l, news, f)
  <1>4. /\ e.valid = l.valid /\ e.next = l.next + Cardinality(news) /\ e.top = l.top + Cardinality(news)
        /\ \A b \in news : e.uid[b] = l.next + f[b] - 1 /\ e.mod[b] = l.top + f[b]
        /\ \A b \in Bases \ news : e.uid[b] = l.uid[b] /\ e.mod[b] = l.mod[b]
    BY NextUidIsNext DEF Enter, Lists
  <1>5. e \in Lists
    BY <1>1, <1>2, NextUidIsNext DEF Enter, Lists
  <1> HIDE DEF e
  <1>6. Loadable(e)
    <2>1. \A b \in Bases : e.uid[b] < e.next /\ e.mod[b] <= e.top
      BY <1>1, <1>2, <1>4, <1>5 DEF Loadable, Lists
    <2>2. \A b \in Bases : (e.uid[b] = 0) = (e.mod[b] = 0)
      BY <1>1, <1>2, <1>4, <1>5 DEF Loadable, Lists
    <2>3. \A b, d \in Bases : e.uid[b] = e.uid[d] /\ e.uid[b] # 0 => b = d
      BY <1>1, <1>2, <1>3, <1>4, <1>5 DEF Loadable, Lists
    <2> QED
      BY <2>1, <2>2, <2>3 DEF Loadable
  <1>7. /\ e.next >= l.next /\ e.top >= l.top /\ \A b \in news : e.uid[b] >= l.next
    BY <1>1, <1>2, <1>4 DEF Lists
  <1> QED
    BY <1>4, <1>5, <1>6, <1>7 DEF e

-----------------------------------------------------------------------------
(* What a step does to the list *)

LEMMA LoadedFacts ==
  ASSUME TypeOK, Ledger
  PROVE  /\ Loaded \in Lists /\ Loadable(Loaded) /\ Loaded.valid >= 1 /\ Loaded.next >= 1
         /\ list.valid # 0 => Loaded = list
         /\ list.valid = 0 => /\ Loaded.valid = fresh + 1
                              /\ \A b \in Bases : Loaded.uid[b] = 0
  <1>1. CASE list.valid # 0
    BY <1>1 DEF TypeOK, Ledger, Loaded, Lists
  <1>2. CASE list.valid = 0
    <2>1. /\ Loaded \in Lists /\ Loaded.valid = fresh + 1 /\ Loaded.next = 1
          /\ \A b \in Bases : Loaded.uid[b] = 0 /\ Loaded.mod[b] = 0
      <3>1. Loaded = [valid |-> fresh + 1, next |-> 1, top |-> 0,
                      uid |-> [b \in Bases |-> 0], mod |-> [b \in Bases |-> 0]]
        BY <1>2 DEF Loaded, NoList
      <3> QED
        BY <3>1 DEF TypeOK, Lists
    <2>2. Loadable(Loaded)
      BY <2>1 DEF Loadable, Lists
    <2> QED
      BY <1>2, <2>1, <2>2 DEF TypeOK
  <1> QED
    BY <1>1, <1>2

\* Both writers of the list, AssignUid and SyncUidlist, keep its UIDVALIDITY
\* and its entries, except those they drop, and number new ones from uidnext;
\* or they begin a list under the next UIDVALIDITY.
Rewritten(drop) ==
    /\ list' \in Lists /\ Loadable(list') /\ list'.next >= 1
    /\ named' = named \cup {<<list'.valid, list'.uid[b], b>> : b \in {d \in Bases : list'.uid[d] # 0}}
    /\ \/ /\ list.valid # 0 /\ list'.valid = list.valid /\ fresh' = fresh /\ log' = log
          /\ list'.next >= list.next /\ list'.top >= list.top
          /\ \A b \in Bases :
                \/ list.uid[b] # 0 /\ list'.uid[b] = list.uid[b] /\ list'.mod[b] = list.mod[b]
                \/ list.uid[b] # 0 /\ list'.uid[b] = 0 /\ b \in drop
                \/ list.uid[b] = 0 /\ (list'.uid[b] = 0 \/ list'.uid[b] >= list.next)
       \/ list.valid = 0 /\ list'.valid = fresh + 1 /\ fresh' = fresh + 1 /\ log' = {}

LEMMA Writing ==
  ASSUME TypeOK, Ledger, NEW kept \in SUBSET Bases,
         NEW news \in SUBSET {b \in Bases : Retain(Loaded, kept).uid[b] = 0},
         NEW f \in Numberings(news), WriteList(Enter(Retain(Loaded, kept), news, f)),
         news \subseteq kept
  PROVE  /\ Rewritten(Bases \ kept)
         /\ \A b \in news : list'.uid[b] # 0
         /\ \A b \in kept \ news : list'.uid[b] = Loaded.uid[b]
  <1> DEFINE r == Retain(Loaded, kept)
             e == Enter(r, news, f)
  <1>1. /\ r \in Lists /\ Loadable(r) /\ r.valid = Loaded.valid /\ r.next = Loaded.next /\ r.top = Loaded.top
        /\ \A b \in kept : r.uid[b] = Loaded.uid[b] /\ r.mod[b] = Loaded.mod[b]
        /\ \A b \in Bases \ kept : r.uid[b] = 0 /\ r.mod[b] = 0
    BY LoadedFacts, RetainFacts
  <1>2. /\ e \in Lists /\ Loadable(e) /\ e.valid = r.valid /\ e.next >= r.next /\ e.top >= r.top
        /\ \A b \in news : e.uid[b] >= r.next
        /\ \A b \in Bases \ news : e.uid[b] = r.uid[b] /\ e.mod[b] = r.mod[b]
    BY <1>1, LoadedFacts, EnterFacts
  <1>3. /\ list' = e /\ fresh' = (IF e.valid > fresh THEN e.valid ELSE fresh)
        /\ log' = (IF list.valid = 0 THEN {} ELSE log)
        /\ named' = named \cup {<<e.valid, e.uid[b], b>> : b \in {d \in Bases : e.uid[d] # 0}}
    BY DEF WriteList
  <1> HIDE DEF e, r
  <1>n. named' = named \cup {<<list'.valid, list'.uid[b], b>> : b \in {d \in Bases : list'.uid[d] # 0}}
    <2>1. e = list'
      BY <1>3
    <2> QED
      BY <1>3, <2>1, Zenon
  <1>4. list' \in Lists /\ Loadable(list') /\ list'.next >= 1
    BY <1>1, <1>2, <1>3, LoadedFacts DEF Lists
  <1>5. ASSUME list.valid # 0 PROVE Rewritten(Bases \ kept)
    <2>1. /\ list'.valid = list.valid /\ fresh' = fresh /\ log' = log
          /\ list'.next >= list.next /\ list'.top >= list.top
      BY <1>1, <1>2, <1>3, <1>5, LoadedFacts DEF Lists, TypeOK, Ledger
    <2>2. \A b \in Bases :
                \/ list.uid[b] # 0 /\ list'.uid[b] = list.uid[b] /\ list'.mod[b] = list.mod[b]
                \/ list.uid[b] # 0 /\ list'.uid[b] = 0 /\ b \in Bases \ kept
                \/ list.uid[b] = 0 /\ (list'.uid[b] = 0 \/ list'.uid[b] >= list.next)
      BY <1>1, <1>2, <1>3, <1>5, LoadedFacts DEF r
    <2> QED
      BY <1>n, <1>4, <1>5, <2>1, <2>2, Zenon DEF Rewritten
  <1>6. ASSUME list.valid = 0 PROVE Rewritten(Bases \ kept)
    <2>1. list'.valid = fresh + 1 /\ fresh' = fresh + 1 /\ log' = {}
      BY <1>1, <1>2, <1>3, <1>6, LoadedFacts DEF TypeOK
    <2> QED
      BY <1>n, <1>4, <1>6, <2>1, Zenon DEF Rewritten
  <1>7. \A b \in news : list'.uid[b] # 0
    <2> SUFFICES ASSUME NEW b \in news PROVE list'.uid[b] # 0
      OBVIOUS
    <2>1. list'.uid[b] >= Loaded.next
      BY <1>1, <1>2, <1>3
    <2>2. Loaded.next \in Nat /\ Loaded.next >= 1 /\ list'.uid[b] \in Nat
      BY <1>2, <1>3, LoadedFacts DEF Lists
    <2> QED
      BY <2>1, <2>2
  <1>8. \A b \in kept \ news : list'.uid[b] = Loaded.uid[b]
    <2> SUFFICES ASSUME NEW b \in kept, b \notin news PROVE list'.uid[b] = Loaded.uid[b]
      OBVIOUS
    <2> QED
      BY <1>1, <1>2, <1>3
  <1> QED
    BY <1>5, <1>6, <1>7, <1>8

LEMMA RetainAll == ASSUME NEW l \in Lists PROVE Retain(l, Bases) = l
  <1>1. Retain(l, Bases) \in Lists
    BY DEF Retain, Lists
  <1>2. /\ Retain(l, Bases).valid = l.valid /\ Retain(l, Bases).next = l.next
        /\ Retain(l, Bases).top = l.top
        /\ Retain(l, Bases).uid = l.uid /\ Retain(l, Bases).mod = l.mod
    BY DEF Retain, Lists
  <1> QED
    BY <1>1, <1>2 DEF Lists

LEMMA AssignWrites ==
  ASSUME TypeOK, Ledger, Assigning, NEW s \in Sessions, AssignUid(s)
  PROVE  Rewritten({})
  <1> DEFINE news == Unlisted(Loaded, {base[s]})
  <1>1. PICK f \in Numberings(news) : WriteList(Enter(Loaded, news, f))
    BY DEF AssignUid
  <1>2. Retain(Loaded, Bases) = Loaded
    BY LoadedFacts, RetainAll
  <1>3. news \in SUBSET {b \in Bases : Loaded.uid[b] = 0}
    BY DEF Unlisted, Assigning, AssignUid
  <1>4. Rewritten(Bases \ Bases)
    <2> HIDE DEF news
    <2>1. news \in SUBSET {b \in Bases : Retain(Loaded, Bases).uid[b] = 0} /\ news \subseteq Bases
      BY <1>2, <1>3
    <2>2. WriteList(Enter(Retain(Loaded, Bases), news, f))
      BY <1>1, <1>2
    <2> QED
      BY <2>1, <2>2, Writing
  <1>5. Bases \ Bases = {}
    OBVIOUS
  <1> QED
    BY <1>4, <1>5

LEMMA SyncWrites ==
  ASSUME TypeOK, Ledger, NEW s \in Sessions, SyncUidlist(s)
  PROVE  /\ Rewritten(Bases \ Scanned(s))
         /\ mapping' = [mapping EXCEPT ![s] = list']
         /\ \A b \in Scanned(s) : list'.uid[b] # 0
  <1> DEFINE kept == Retain(Loaded, Scanned(s))
             news == Unlisted(kept, Scanned(s))
  <1>1. PICK f \in Numberings(news) : /\ WriteList(Enter(kept, news, f))
                                      /\ mapping' = [mapping EXCEPT ![s] = Enter(kept, news, f)]
    BY DEF SyncUidlist
  <1>2. Scanned(s) \in SUBSET Bases
    BY DEF Scanned
  <1>3. news \in SUBSET {b \in Bases : kept.uid[b] = 0} /\ news \subseteq Scanned(s)
    BY <1>2 DEF Unlisted
  <1>4. /\ Rewritten(Bases \ Scanned(s))
        /\ \A b \in news : list'.uid[b] # 0
        /\ \A b \in Scanned(s) \ news : list'.uid[b] = Loaded.uid[b]
    <2> HIDE DEF news
    <2> QED
      BY <1>1, <1>2, <1>3, Writing
  <1>5. \A b \in Scanned(s) \ news : Loaded.uid[b] # 0
    BY <1>2, LoadedFacts, RetainFacts DEF Unlisted
  <1>6. mapping' = [mapping EXCEPT ![s] = list']
    BY <1>1 DEF WriteList
  <1> QED
    BY <1>4, <1>5, <1>6

-----------------------------------------------------------------------------
(* Types *)

LEMMA NothingTyped ==
  /\ Nowhere \in Names /\ [b \in Bases |-> Nowhere] \in [Bases -> Names]
  /\ NoView \in Views /\ NoList \in Lists
  BY NoListTyped DEF Nowhere, Names, NoView, Views

LEMMA InitTypes == Init => TypeOK
  BY NothingTyped, NoListTyped, BoundsTyped DEF Init, TypeOK

\* The lists STORE and EXPUNGE leave.
LEMMA StoreModseqFacts ==
  ASSUME TypeOK, NEW d \in Bases, list.uid[d] # 0
  PROVE  LET l == StoreModseq(d) IN
         /\ l \in Lists /\ Loadable(l)
         /\ l.valid = list.valid /\ l.next = list.next /\ l.uid = list.uid /\ l.top = list.top + 1
         /\ l.mod = [list.mod EXCEPT ![d] = list.top + 1]
  <1> DEFINE l == StoreModseq(d)
  <1>1. /\ l \in Lists
        /\ l.valid = list.valid /\ l.next = list.next /\ l.uid = list.uid /\ l.top = list.top + 1
        /\ l.mod = [list.mod EXCEPT ![d] = list.top + 1]
    <2>1. list \in Lists
      BY DEF TypeOK
    <2> DEFINE n == list.top + 1
               m == [list.mod EXCEPT ![d] = n]
    <2>2. n \in Nat /\ m \in [Bases -> Nat]
      BY <2>1 DEF Lists
    <2>3. l = [list EXCEPT !.top = n, !.mod = m]
      BY DEF StoreModseq
    <2> HIDE DEF n, m, l
    <2>4. /\ l \in Lists
          /\ l.valid = list.valid /\ l.next = list.next /\ l.uid = list.uid /\ l.top = n /\ l.mod = m
      BY <2>1, <2>2, <2>3 DEF Lists
    <2> QED
      BY <2>4 DEF n, m
  <1> HIDE DEF l
  <1>2. Loadable(l)
    <2>1. \A b \in Bases : l.uid[b] < l.next /\ l.mod[b] <= l.top
      BY <1>1 DEF TypeOK, Loadable, Lists
    <2>2. \A b \in Bases : (l.uid[b] = 0) = (l.mod[b] = 0)
      BY <1>1 DEF TypeOK, Loadable, Lists
    <2>3. \A b, e \in Bases : l.uid[b] = l.uid[e] /\ l.uid[b] # 0 => b = e
      BY <1>1 DEF TypeOK, Loadable, Lists
    <2> QED
      BY <2>1, <2>2, <2>3 DEF Loadable
  <1> QED
    BY <1>1, <1>2 DEF l

LEMMA ExpungedFacts ==
  ASSUME TypeOK, NEW gone \in SUBSET Bases
  PROVE  LET l == [Retain(list, Bases \ gone) EXCEPT !.top = @ + Cardinality(gone)] IN
         /\ l \in Lists /\ Loadable(l)
         /\ l.valid = list.valid /\ l.next = list.next /\ l.top = list.top + Cardinality(gone)
         /\ l.top >= list.top
         /\ \A b \in Bases \ gone : l.uid[b] = list.uid[b] /\ l.mod[b] = list.mod[b]
         /\ \A b \in gone : l.uid[b] = 0 /\ l.mod[b] = 0
  <1> DEFINE r == Retain(list, Bases \ gone)
             l == [r EXCEPT !.top = @ + Cardinality(gone)]
  <1>1. Cardinality(gone) \in Nat
    BY CountTyped
  <1>2. /\ r \in Lists /\ Loadable(r)
        /\ r.valid = list.valid /\ r.next = list.next /\ r.top = list.top
        /\ \A b \in Bases \ gone : r.uid[b] = list.uid[b] /\ r.mod[b] = list.mod[b]
        /\ \A b \in gone : r.uid[b] = 0 /\ r.mod[b] = 0
    <2>1. /\ list \in Lists /\ Loadable(list) /\ Bases \ gone \in SUBSET Bases
          /\ gone = Bases \ (Bases \ gone)
      BY DEF TypeOK
    <2> QED
      BY <2>1, RetainFacts
  <1> HIDE DEF r
  <1>3. /\ l \in Lists /\ l.valid = r.valid /\ l.next = r.next /\ l.uid = r.uid /\ l.mod = r.mod
        /\ l.top = r.top + Cardinality(gone)
    BY <1>1, <1>2 DEF Lists
  <1> HIDE DEF l
  <1>4. Loadable(l) /\ l.top >= list.top
    BY <1>1, <1>2, <1>3 DEF Loadable, Lists, TypeOK
  <1> QED
    BY <1>2, <1>3, <1>4 DEF l, r

LEMMA EventsTyped ==
  ASSUME TypeOK, NEW gone \in SUBSET Bases, NEW f \in Numberings(gone)
  PROVE  Events(gone, f) \subseteq Nat \X Nat
  BY CountTyped DEF TypeOK, Lists, Events, Numberings

\* What STORE does, to the message d that has the UID now.
StoreOf(s, b, new, d) ==
    /\ d \in Bases /\ d \in Present /\ list.uid[d] = view[s].uid[b] /\ list.uid[d] # 0 /\ list.valid # 0
    /\ file' = [file EXCEPT ![d] = [dir |-> "cur", flags |-> new]]
    /\ list' \in Lists /\ Loadable(list')
    /\ list'.valid = list.valid /\ list'.next = list.next /\ list'.uid = list.uid
    /\ list'.top = list.top + 1 /\ list'.mod = [list.mod EXCEPT ![d] = list.top + 1]
    /\ wronged' = wronged \cup Mistaken(s, {d})
    /\ Touch({d}, Sessions)
    /\ view' \in [Sessions -> Views]
    /\ \A t \in Sessions : /\ view'[t].valid = view[t].valid /\ view'[t].since = view[t].since
                            /\ view'[t].uid = view[t].uid
    /\ \A t \in Sessions \ {s} : view'[t].flags = view[t].flags
    /\ view'[s].flags = [view[s].flags EXCEPT ![b] = new]

LEMMA StoreDoes ==
  ASSUME TypeOK, NEW s \in Sessions, NEW b \in Bases, NEW new \in SUBSET Flags, Store(s, b, new)
  PROVE  \E d \in Bases : StoreOf(s, b, new, d)
  <1>1. PICK d \in Named({view[s].uid[b]}) \cap Present :
           /\ file' = [file EXCEPT ![d] = [dir |-> "cur", flags |-> new]]
           /\ list' = StoreModseq(d) /\ wronged' = wronged \cup Mistaken(s, {d})
           /\ Touch({d}, Sessions)
    BY DEF Store
  <1>2. d \in Bases /\ d \in Present /\ list.uid[d] = view[s].uid[b] /\ list.uid[d] # 0
    BY <1>1 DEF Named, Store
  <1>3. /\ list' \in Lists /\ Loadable(list')
        /\ list'.valid = list.valid /\ list'.next = list.next /\ list'.uid = list.uid
        /\ list'.top = list.top + 1 /\ list'.mod = [list.mod EXCEPT ![d] = list.top + 1]
    BY <1>1, <1>2, StoreModseqFacts
  <1>4. list.valid # 0
    BY DEF Store
  <1>5. view' = [view EXCEPT ![s] = Stored(view[s], b, new, list'.top)]
    BY DEF Store
  <1>6. /\ Stored(view[s], b, new, list'.top) \in Views
        /\ Stored(view[s], b, new, list'.top).valid = view[s].valid
        /\ Stored(view[s], b, new, list'.top).since = view[s].since
        /\ Stored(view[s], b, new, list'.top).uid = view[s].uid
        /\ Stored(view[s], b, new, list'.top).flags = [view[s].flags EXCEPT ![b] = new]
    <2> DEFINE v == view[s]
               n == list'.top
    <2>1. v \in Views /\ n \in Nat
      BY <1>3 DEF TypeOK, Lists
    <2> HIDE DEF v, n
    <2>2. /\ Stored(v, b, new, n) \in Views
          /\ Stored(v, b, new, n).valid = v.valid /\ Stored(v, b, new, n).since = v.since
          /\ Stored(v, b, new, n).uid = v.uid /\ Stored(v, b, new, n).flags = [v.flags EXCEPT ![b] = new]
      BY <2>1 DEF Stored, Views
    <2> QED
      BY <2>2 DEF v, n
  <1>7. /\ view' \in [Sessions -> Views]
        /\ \A t \in Sessions : /\ view'[t].valid = view[t].valid /\ view'[t].since = view[t].since
                                /\ view'[t].uid = view[t].uid
        /\ \A t \in Sessions \ {s} : view'[t].flags = view[t].flags
        /\ view'[s].flags = [view[s].flags EXCEPT ![b] = new]
    BY <1>5, <1>6 DEF TypeOK
  <1> QED
    BY <1>1, <1>2, <1>3, <1>4, <1>7 DEF StoreOf

\* What EXPUNGE does, to the messages that have the UIDs now.
ExpungeOf(s, bases, gone, f) ==
    /\ gone \in SUBSET Bases /\ gone = Named({view[s].uid[b] : b \in bases}) \cap Present
    /\ f \in Numberings(gone)
    /\ file' = Removed(gone) /\ log' = log \cup Events(gone, f)
    /\ list' \in Lists /\ Loadable(list')
    /\ list'.valid = list.valid /\ list'.next = list.next /\ list'.top >= list.top
    /\ \A b \in Bases \ gone : list'.uid[b] = list.uid[b] /\ list'.mod[b] = list.mod[b]
    /\ \A b \in gone : list'.uid[b] = 0 /\ list'.mod[b] = 0
    /\ wronged' = wronged \cup Mistaken(s, gone)
    /\ view' \in [Sessions -> Views]
    /\ \A t \in Sessions : view'[t].valid = view[t].valid /\ view'[t].since = view[t].since
    /\ \A t \in Sessions \ {s} : view'[t] = view[t]
    /\ \A b \in Bases : IF b \in bases THEN view'[s].uid[b] = 0
                         ELSE view'[s].uid[b] = view[s].uid[b] /\ view'[s].flags[b] = view[s].flags[b]

LEMMA ExpungeDoes ==
  ASSUME TypeOK, NEW s \in Sessions, NEW bases \in SUBSET Bases, Expunge(s, bases)
  PROVE  \E gone \in SUBSET Bases : \E f \in Numberings(gone) : ExpungeOf(s, bases, gone, f)
  <1> DEFINE gone == Named({view[s].uid[b] : b \in bases}) \cap Present
  <1>1. gone \in SUBSET Bases
    BY DEF Named
  <1>2. PICK f \in Numberings(gone) :
           /\ file' = Removed(gone) /\ log' = log \cup Events(gone, f)
           /\ list' = [Retain(list, Bases \ gone) EXCEPT !.top = @ + Cardinality(gone)]
           /\ wronged' = wronged \cup Mistaken(s, gone)
    BY DEF Expunge
  <1>g. gone = Named({view[s].uid[b] : b \in bases}) \cap Present
    OBVIOUS
  <1> HIDE DEF gone
  <1>3. /\ list' \in Lists /\ Loadable(list')
        /\ list'.valid = list.valid /\ list'.next = list.next /\ list'.top >= list.top
        /\ \A b \in Bases \ gone : list'.uid[b] = list.uid[b] /\ list'.mod[b] = list.mod[b]
        /\ \A b \in gone : list'.uid[b] = 0 /\ list'.mod[b] = 0
    BY <1>1, <1>2, ExpungedFacts
  <1>4. view' = [view EXCEPT ![s] = Forgotten(view[s], bases)]
    BY DEF Expunge
  <1>5. /\ Forgotten(view[s], bases) \in Views
        /\ Forgotten(view[s], bases).valid = view[s].valid /\ Forgotten(view[s], bases).since = view[s].since
        /\ Forgotten(view[s], bases).uid = [b \in Bases |-> IF b \in bases THEN 0 ELSE view[s].uid[b]]
        /\ Forgotten(view[s], bases).flags = [b \in Bases |-> IF b \in bases THEN {} ELSE view[s].flags[b]]
    <2> DEFINE v == view[s]
    <2>1. v \in Views
      BY DEF TypeOK
    <2> HIDE DEF v
    <2>2. /\ Forgotten(v, bases) \in Views
          /\ Forgotten(v, bases).valid = v.valid /\ Forgotten(v, bases).since = v.since
          /\ Forgotten(v, bases).uid = [b \in Bases |-> IF b \in bases THEN 0 ELSE v.uid[b]]
          /\ Forgotten(v, bases).flags = [b \in Bases |-> IF b \in bases THEN {} ELSE v.flags[b]]
      BY <2>1 DEF Forgotten, Views
    <2> QED
      BY <2>2 DEF v
  <1>6. /\ view' \in [Sessions -> Views]
        /\ \A t \in Sessions : view'[t].valid = view[t].valid /\ view'[t].since = view[t].since
        /\ \A t \in Sessions \ {s} : view'[t] = view[t]
        /\ \A b \in Bases : IF b \in bases THEN view'[s].uid[b] = 0
                             ELSE view'[s].uid[b] = view[s].uid[b] /\ view'[s].flags[b] = view[s].flags[b]
    BY <1>4, <1>5 DEF TypeOK
  <1>7. ExpungeOf(s, bases, gone, f)
    BY <1>1, <1>2, <1>3, <1>6, <1>g DEF ExpungeOf
  <1> QED
    BY <1>1, <1>2, <1>7

LEMMA TypeStep ==
  ASSUME TypeOK, Ledger, Assigning, [Next]_vars PROVE TypeOK'
  <1> USE DEF disk, opening, bounds, history
  <1>1. ASSUME NEW s \in Sessions, NEW b \in Bases, Place(s, b) PROVE TypeOK'
    BY <1>1 DEF Place, TypeOK, Names, Touch
  <1>2. ASSUME NEW s \in Sessions, AssignUid(s) PROVE TypeOK'
    <2>1. Rewritten({})
      BY <1>2, AssignWrites
    <2>2. list' \in Lists /\ Loadable(list') /\ named' \subseteq Nat \X Nat \X Bases
      BY <2>1 DEF Rewritten, TypeOK, Lists
    <2>3. fresh' \in Nat /\ log' \subseteq Nat \X Nat
      BY <2>1 DEF Rewritten, TypeOK
    <2> QED
      BY <1>2, <2>2, <2>3 DEF AssignUid, TypeOK
  <1>3. ASSUME NEW s \in Sessions, AssignFails(s) PROVE TypeOK'
    BY <1>3, NothingTyped DEF AssignFails, TypeOK, Assigning
  <1>4. ASSUME NEW s \in Sessions, NEW p \in BOOLEAN, OpenFolder(s, p) PROVE TypeOK'
    BY <1>4, NothingTyped DEF OpenFolder, TypeOK, ScanOf
  <1>5. ASSUME NEW s \in Sessions, ScanCur(s) PROVE TypeOK'
    BY <1>5 DEF ScanCur, TypeOK, ScanOf
  <1>6. ASSUME NEW s \in Sessions, SyncUidlist(s) PROVE TypeOK'
    <2>1. Rewritten(Bases \ Scanned(s)) /\ mapping' = [mapping EXCEPT ![s] = list']
      BY <1>6, SyncWrites
    <2>2. list' \in Lists /\ Loadable(list') /\ named' \subseteq Nat \X Nat \X Bases
      BY <2>1 DEF Rewritten, TypeOK, Lists
    <2>3. fresh' \in Nat /\ log' \subseteq Nat \X Nat
      BY <2>1 DEF Rewritten, TypeOK
    <2> QED
      BY <1>6, <2>1, <2>2, <2>3 DEF SyncUidlist, TypeOK
  <1>7. ASSUME NEW s \in Sessions, Promote(s) PROVE TypeOK'
    BY <1>7 DEF Promote, TypeOK, Names, PromotedName, Recent, Touch
  <1>8. ASSUME NEW s \in Sessions, Stat(s) PROVE TypeOK'
    BY <1>8, NothingTyped DEF Stat, TypeOK, Views, Lists, Found, Scanned, Names
  <1>9. ASSUME NEW s \in Sessions, NEW b \in Bases, NEW new \in SUBSET Flags, Store(s, b, new)
        PROVE TypeOK'
    <2>1. PICK d \in Bases : StoreOf(s, b, new, d)
      BY <1>9, StoreDoes
    <2>2. /\ file' \in [Bases -> Names] /\ list' \in Lists /\ Loadable(list') /\ wronged' \subseteq Bases
          /\ view' \in [Sessions -> Views] /\ touched' \in [Sessions -> SUBSET Bases]
      BY <2>1 DEF StoreOf, TypeOK, Names, Touch, Mistaken
    <2> QED
      BY <1>9, <2>2 DEF Store, TypeOK
  <1>10. ASSUME NEW s \in Sessions, NEW b \in Bases, NEW new \in SUBSET Flags, StoreTorn(s, b, new)
         PROVE TypeOK'
    BY <1>10 DEF StoreTorn, TypeOK, Names, Touch, Mistaken, Named
  <1>11. ASSUME NEW s \in Sessions, NEW bases \in SUBSET Bases, Expunge(s, bases) PROVE TypeOK'
    <2>1. PICK gone \in SUBSET Bases : \E f \in Numberings(gone) : ExpungeOf(s, bases, gone, f)
      BY <1>11, ExpungeDoes
    <2>2. PICK f \in Numberings(gone) : ExpungeOf(s, bases, gone, f)
      BY <2>1
    <2>3. /\ file' \in [Bases -> Names] /\ list' \in Lists /\ Loadable(list') /\ wronged' \subseteq Bases
          /\ view' \in [Sessions -> Views]
      BY <2>2, NothingTyped DEF ExpungeOf, Removed, TypeOK, Mistaken
    <2>4. log' \subseteq Nat \X Nat
      BY <2>2, EventsTyped DEF ExpungeOf, TypeOK
    <2> QED
      BY <1>11, <2>3, <2>4 DEF Expunge, TypeOK
  <1>12. ASSUME NEW s \in Sessions, NEW bases \in SUBSET Bases, ExpungeTorn(s, bases) PROVE TypeOK'
    <2> DEFINE gone == Named({view[s].uid[b] : b \in bases}) \cap Present
    <2>1. gone \in SUBSET Bases
      BY DEF Named
    <2>2. PICK f \in Numberings(gone) : log' \in {log, log \cup Events(gone, f)}
      BY <1>12 DEF ExpungeTorn
    <2>3. file' = Removed(gone) /\ torn' = torn \cup gone /\ wronged' = wronged \cup Mistaken(s, gone)
      BY <1>12 DEF ExpungeTorn
    <2> HIDE DEF gone
    <2>4. /\ file' \in [Bases -> Names] /\ wronged' \subseteq Bases /\ torn' \subseteq Bases
      BY <2>1, <2>3, NothingTyped DEF Removed, TypeOK, Mistaken
    <2>5. log' \subseteq Nat \X Nat
      BY <2>1, <2>2, EventsTyped DEF TypeOK
    <2>6. /\ UNCHANGED <<list, opening, pc, base, view, fresh, bound, opens, rebuilds, named, raced, touched>>
          /\ faults' = faults + 1
      BY <1>12 DEF ExpungeTorn
    <2> QED
      BY <2>4, <2>5, <2>6 DEF TypeOK, Loadable
  <1>13. ASSUME NEW s \in Sessions, RenameFiles(s) PROVE TypeOK'
    BY <1>13, NothingTyped DEF RenameFiles, TypeOK, Removed, Present
  <1>14. ASSUME NEW s \in Sessions, RenameLists(s) PROVE TypeOK'
    BY <1>14, NoListTyped DEF RenameLists, TypeOK
  <1>15. ASSUME NEW s \in Sessions, End(s) PROVE TypeOK'
    BY <1>15, NothingTyped DEF End, TypeOK
  <1>16. ASSUME LoseList PROVE TypeOK'
    BY <1>16, NoListTyped DEF LoseList, TypeOK
  <1>17. ASSUME UNCHANGED vars PROVE TypeOK'
    BY <1>17 DEF vars, TypeOK, Loadable
  <1> QED
    BY <1>1, <1>2, <1>3, <1>4, <1>5, <1>6, <1>7, <1>8, <1>9, <1>10, <1>11, <1>12, <1>13, <1>14,
       <1>15, <1>16, <1>17 DEF Next

-----------------------------------------------------------------------------
(* What a step does to the list and to the messages that are there *)

ListWritten ==
    \E drop \in SUBSET Bases :
        /\ Rewritten(drop) /\ drop \cap Present \subseteq raced
        /\ UNCHANGED <<file, view, raced, torn, wronged, rebuilds>>

ListShrunk ==
    /\ list' \in Lists /\ list'.valid = list.valid /\ list'.next = list.next /\ list'.top >= list.top
    /\ UNCHANGED <<fresh, named>>
    /\ \A b \in Bases : list'.uid[b] = list.uid[b] \/ (list'.uid[b] = 0 /\ b \notin Present')

ListLost == list' = NoList /\ UNCHANGED <<file, view, raced, torn, wronged, fresh, named>>

ListSame == UNCHANGED <<list, fresh, named>>

\* A message that was not there is one the list never named.
Arrivals == /\ raced \subseteq raced' /\ named \subseteq named'
            /\ \A b \in Present' : b \in Present \/ \A t \in named' : t[3] # b

LEMMA WritersWrite ==
  ASSUME TypeOK, Ledger, Assigning, ScanFinds, NEW s \in Sessions, AssignUid(s) \/ SyncUidlist(s)
  PROVE  ListWritten
  <1> USE DEF opening, bounds
  <1>1. CASE AssignUid(s)
    <2>1. Rewritten({})
      BY <1>1, AssignWrites
    <2> QED
      BY <1>1, <2>1 DEF AssignUid, ListWritten
  <1>2. CASE SyncUidlist(s)
    <2>1. Rewritten(Bases \ Scanned(s))
      BY <1>2, SyncWrites
    <2>2. (Bases \ Scanned(s)) \cap Present \subseteq raced
      BY <1>2 DEF SyncUidlist, ScanFinds
    <2> QED
      BY <1>2, <2>1, <2>2 DEF SyncUidlist, ListWritten
  <1> QED
    BY <1>1, <1>2

LEMMA ListStep ==
  ASSUME TypeOK, Ledger, Assigning, ScanFinds, [Next]_vars
  PROVE  ListWritten \/ ListShrunk \/ ListLost \/ ListSame
  <1> USE DEF disk, opening, bounds, history
  <1>1. ASSUME NEW s \in Sessions, AssignUid(s) PROVE ListWritten
    BY <1>1, WritersWrite
  <1>2. ASSUME NEW s \in Sessions, SyncUidlist(s) PROVE ListWritten
    BY <1>2, WritersWrite
  <1>3. ASSUME NEW s \in Sessions, NEW b \in Bases, NEW new \in SUBSET Flags, Store(s, b, new)
        PROVE  ListShrunk
    <2>1. PICK d \in Bases : StoreOf(s, b, new, d)
      BY <1>3, StoreDoes
    <2>2. fresh' = fresh /\ named' = named
      BY <1>3 DEF Store
    <2> QED
      BY <2>1, <2>2 DEF StoreOf, ListShrunk, TypeOK, Lists
  <1>4. ASSUME NEW s \in Sessions, NEW bases \in SUBSET Bases, Expunge(s, bases)
        PROVE  ListShrunk
    <2>1. PICK gone \in SUBSET Bases : \E f \in Numberings(gone) : ExpungeOf(s, bases, gone, f)
      BY <1>4, ExpungeDoes
    <2>2. PICK f \in Numberings(gone) : ExpungeOf(s, bases, gone, f)
      BY <2>1
    <2>3. fresh' = fresh /\ named' = named
      BY <1>4 DEF Expunge
    <2>4. \A b \in gone : b \notin Present'
      BY <2>2 DEF ExpungeOf, Removed, Present, Nowhere
    <2> QED
      BY <2>2, <2>3, <2>4 DEF ExpungeOf, ListShrunk
  <1>5. ASSUME NEW s \in Sessions, RenameLists(s) PROVE ListLost
    BY <1>5 DEF RenameLists, ListLost
  <1>6. ASSUME LoseList PROVE ListLost
    BY <1>6 DEF LoseList, ListLost
  <1>7. ASSUME NEW s \in Sessions,
               \/ \E b \in Bases : Place(s, b)
               \/ AssignFails(s)
               \/ \E promote \in BOOLEAN : OpenFolder(s, promote)
               \/ ScanCur(s) \/ Promote(s) \/ Stat(s)
               \/ \E b \in Bases, new \in SUBSET Flags : StoreTorn(s, b, new)
               \/ \E bases \in SUBSET Bases : ExpungeTorn(s, bases)
               \/ RenameFiles(s) \/ End(s)
        PROVE  ListSame
    BY <1>7 DEF Place, AssignFails, OpenFolder, ScanCur, Promote, Stat, StoreTorn, ExpungeTorn,
                RenameFiles, End, ListSame
  <1>8. ASSUME UNCHANGED vars PROVE ListSame
    BY <1>8 DEF vars, ListSame
  <1> QED
    BY <1>1, <1>2, <1>3, <1>4, <1>5, <1>6, <1>7, <1>8 DEF Next

LEMMA ArrivalStep ==
  ASSUME TypeOK, Ledger, Assigning, [Next]_vars PROVE Arrivals
  <1> USE DEF disk, opening, bounds, history, Arrivals, Present
  <1>1. ASSUME NEW s \in Sessions, NEW b \in Bases, Place(s, b) PROVE Arrivals
    BY <1>1 DEF Place, TypeOK
  <1>2. ASSUME NEW s \in Sessions, AssignUid(s) PROVE Arrivals
    BY <1>2, AssignWrites DEF AssignUid, Rewritten
  <1>3. ASSUME NEW s \in Sessions, SyncUidlist(s) PROVE Arrivals
    BY <1>3, SyncWrites DEF SyncUidlist, Rewritten
  <1>4. ASSUME NEW s \in Sessions, NEW b \in Bases, NEW new \in SUBSET Flags, Store(s, b, new)
        PROVE  Arrivals
    BY <1>4, StoreDoes DEF Store, StoreOf, TypeOK
  <1>5. ASSUME NEW s \in Sessions, NEW bases \in SUBSET Bases, Expunge(s, bases) PROVE Arrivals
    BY <1>5 DEF Expunge, Removed, Nowhere
  <1>6. ASSUME NEW s \in Sessions, NEW bases \in SUBSET Bases, ExpungeTorn(s, bases) PROVE Arrivals
    BY <1>6 DEF ExpungeTorn, Removed, Nowhere
  <1>7. ASSUME NEW s \in Sessions, NEW b \in Bases, NEW new \in SUBSET Flags, StoreTorn(s, b, new)
        PROVE  Arrivals
    BY <1>7 DEF StoreTorn, TypeOK
  <1>8. ASSUME NEW s \in Sessions, Promote(s) PROVE Arrivals
    BY <1>8 DEF Promote, TypeOK
  <1>9. ASSUME NEW s \in Sessions, AssignFails(s) PROVE Arrivals
    BY <1>9 DEF AssignFails, TypeOK, Assigning, Nowhere
  <1>10. ASSUME NEW s \in Sessions, RenameFiles(s) PROVE Arrivals
    BY <1>10 DEF RenameFiles, Removed, Nowhere
  <1>11. ASSUME NEW s \in Sessions,
                \/ \E promote \in BOOLEAN : OpenFolder(s, promote)
                \/ ScanCur(s) \/ Stat(s) \/ RenameLists(s) \/ End(s)
         PROVE  Arrivals
    BY <1>11 DEF OpenFolder, ScanCur, Stat, RenameLists, End
  <1>12. ASSUME LoseList \/ UNCHANGED vars PROVE Arrivals
    BY <1>12 DEF LoseList, vars
  <1> QED
    BY <1>1, <1>2, <1>3, <1>4, <1>5, <1>6, <1>7, <1>8, <1>9, <1>10, <1>11, <1>12 DEF Next

-----------------------------------------------------------------------------
(* UIDs *)

LEMMA LedgerStep ==
  ASSUME TypeOK, Ledger, ListWritten \/ ListShrunk \/ ListLost \/ ListSame PROVE Ledger'
  <1>1. CASE ListWritten
    <2>1. PICK drop \in SUBSET Bases : Rewritten(drop)
      BY <1>1 DEF ListWritten
    <2>2. list'.valid <= fresh' /\ list'.next >= 1 /\ list'.valid >= 1
      BY <2>1 DEF Rewritten, Ledger, TypeOK, Lists
    <2>3. \A b \in Bases : list'.uid[b] # 0 => <<list'.valid, list'.uid[b], b>> \in named'
      BY <2>1 DEF Rewritten
    <2>4. \A t \in named' : t \in named \/ (\E b \in Bases : t = <<list'.valid, list'.uid[b], b>> /\ list'.uid[b] # 0)
      BY <2>1 DEF Rewritten
    <2>5. \A t \in named' : t[1] \in 1 .. fresh' /\ t[2] # 0
      <3> SUFFICES ASSUME NEW t \in named' PROVE t[1] \in 1 .. fresh' /\ t[2] # 0
        OBVIOUS
      <3>1. fresh' >= fresh /\ fresh' \in Nat /\ list'.valid \in Nat
        BY <2>1 DEF Rewritten, TypeOK, Lists
      <3>2. CASE t \in named
        BY <3>1, <3>2 DEF Ledger, TypeOK
      <3>3. CASE t \notin named
        BY <2>2, <2>4, <3>1, <3>3
      <3> QED
        BY <3>2, <3>3
    <2>6. \A t \in named' : t[1] = list'.valid => t[2] < list'.next
      <3> SUFFICES ASSUME NEW t \in named', t[1] = list'.valid PROVE t[2] < list'.next
        OBVIOUS
      <3>1. CASE t \notin named
        BY <2>1, <2>4, <3>1 DEF Rewritten, Loadable
      <3>2. CASE t \in named
        <4>1. t[1] <= fresh /\ t[1] \in Nat /\ t[2] \in Nat
          BY <3>2 DEF Ledger, TypeOK
        <4>2. list'.valid = list.valid /\ list'.next >= list.next
          BY <2>1, <4>1 DEF Rewritten, TypeOK
        <4> QED
          BY <2>1, <3>2, <4>1, <4>2 DEF Ledger, TypeOK, Lists, Rewritten
      <3> QED
        BY <3>1, <3>2
    <2> QED
      BY <2>2, <2>3, <2>5, <2>6 DEF Ledger
  <1>2. CASE ListShrunk
    BY <1>2 DEF ListShrunk, Ledger, TypeOK, Lists
  <1>3. CASE ListLost
    BY <1>3 DEF ListLost, Ledger, TypeOK, NoList
  <1>4. CASE ListSame
    BY <1>4 DEF ListSame, Ledger
  <1> QED
    BY <1>1, <1>2, <1>3, <1>4

\* A copy of the list stays one, whatever happens to the list.
LEMMA CopyKept ==
  ASSUME TypeOK, Ledger, ListWritten \/ ListShrunk \/ ListLost \/ ListSame,
         NEW valid \in Nat, NEW top \in Nat, NEW uid \in [Bases -> Nat], CopyOf(valid, top, uid)
  PROVE  /\ valid <= fresh'
         /\ valid = 0 => top = 0
         /\ valid = list'.valid => top <= list'.top
         /\ \A b \in Bases : uid[b] # 0 => <<valid, uid[b], b>> \in named'
  <1>1. CASE ListWritten
    <2>1. PICK drop \in SUBSET Bases : Rewritten(drop)
      BY <1>1 DEF ListWritten
    <2>2. named \subseteq named' /\ fresh' >= fresh /\ fresh' \in Nat
      BY <2>1 DEF Rewritten, TypeOK
    <2>3. valid = list'.valid => top <= list'.top
      BY <2>1 DEF Rewritten, CopyOf, TypeOK, Lists
    <2> QED
      BY <2>2, <2>3 DEF CopyOf, TypeOK
  <1>2. CASE ListShrunk
    BY <1>2 DEF ListShrunk, CopyOf, TypeOK, Lists
  <1>3. CASE ListLost
    BY <1>3 DEF ListLost, CopyOf, TypeOK, NoList
  <1>4. CASE ListSame
    BY <1>4 DEF ListSame, CopyOf
  <1> QED
    BY <1>1, <1>2, <1>3, <1>4

\* A view changes by showing what was mapped, or by showing less.
ViewStep(s) ==
    \/ /\ view'[s].valid = view[s].valid /\ view'[s].since = view[s].since
       /\ \A b \in Bases : view'[s].uid[b] \in {0, view[s].uid[b]}
    \/ /\ view'[s].valid = mapping[s].valid /\ view'[s].since = mapping[s].top
       /\ \A b \in Bases : view'[s].uid[b] \in {0, mapping[s].uid[b]}
    \/ view'[s] = NoView

MappingStep(s) == \/ mapping'[s] \in {mapping[s], NoList}
                  \/ mapping'[s] = list' /\ list'.valid >= 1

LEMMA CopyStep ==
  ASSUME TypeOK, Ledger, Assigning, [Next]_vars, NEW t \in Sessions
  PROVE  ViewStep(t) /\ MappingStep(t)
  <1> USE DEF disk, opening, bounds, history
  <1>0. /\ UNCHANGED view => ViewStep(t)
        /\ UNCHANGED mapping => MappingStep(t)
    BY DEF ViewStep, MappingStep
  <1>1. ASSUME NEW s \in Sessions, SyncUidlist(s) PROVE MappingStep(t) /\ UNCHANGED view
    <2>1. mapping' = [mapping EXCEPT ![s] = list'] /\ Rewritten(Bases \ Scanned(s))
      BY <1>1, SyncWrites
    <2>2. list'.valid >= 1
      BY <2>1 DEF Rewritten, TypeOK, Lists
    <2> QED
      BY <1>1, <2>1, <2>2 DEF SyncUidlist, MappingStep, TypeOK
  <1>2. ASSUME NEW s \in Sessions, Stat(s) PROVE ViewStep(t) /\ MappingStep(t)
    BY <1>2 DEF Stat, ViewStep, MappingStep, TypeOK, Views, Lists
  <1>3. ASSUME NEW s \in Sessions, NEW b \in Bases, NEW new \in SUBSET Flags, Store(s, b, new)
        PROVE  ViewStep(t) /\ UNCHANGED mapping
    BY <1>3, StoreDoes DEF Store, StoreOf, ViewStep
  <1>4. ASSUME NEW s \in Sessions, NEW bases \in SUBSET Bases, Expunge(s, bases)
        PROVE  ViewStep(t) /\ UNCHANGED mapping
    <2>1. PICK gone \in SUBSET Bases : \E f \in Numberings(gone) : ExpungeOf(s, bases, gone, f)
      BY <1>4, ExpungeDoes
    <2>2. ViewStep(t)
      BY <2>1 DEF ExpungeOf, ViewStep
    <2> QED
      BY <1>4, <2>2 DEF Expunge
  <1>5. ASSUME NEW s \in Sessions, End(s) PROVE ViewStep(t) /\ MappingStep(t)
    BY <1>5 DEF End, ViewStep, MappingStep, TypeOK
  <1>6. ASSUME NEW s \in Sessions,
               \/ \E b \in Bases : Place(s, b)
               \/ AssignUid(s) \/ AssignFails(s)
               \/ \E promote \in BOOLEAN : OpenFolder(s, promote)
               \/ ScanCur(s) \/ Promote(s)
               \/ \E b \in Bases, new \in SUBSET Flags : StoreTorn(s, b, new)
               \/ \E bases \in SUBSET Bases : ExpungeTorn(s, bases)
               \/ RenameFiles(s) \/ RenameLists(s)
        PROVE  UNCHANGED <<view, mapping>>
    BY <1>6 DEF Place, AssignUid, AssignFails, OpenFolder, ScanCur, Promote, StoreTorn, ExpungeTorn,
                RenameFiles, RenameLists
  <1>7. ASSUME LoseList \/ UNCHANGED vars PROVE UNCHANGED <<view, mapping>>
    BY <1>7 DEF LoseList, vars
  <1> QED
    BY <1>0, <1>1, <1>2, <1>3, <1>4, <1>5, <1>6, <1>7 DEF Next

LEMMA CopiesStep ==
  ASSUME TypeOK, TypeOK', Ledger, Ledger', Copies, Assigning, [Next]_vars,
         ListWritten \/ ListShrunk \/ ListLost \/ ListSame
  PROVE  Copies'
  <1> SUFFICES ASSUME NEW s \in Sessions
               PROVE  /\ CopyOf(view[s].valid, view[s].since, view[s].uid)'
                      /\ CopyOf(mapping[s].valid, mapping[s].top, mapping[s].uid)'
    BY DEF Copies
  <1>t. view[s] \in Views /\ mapping[s] \in Lists /\ view'[s] \in Views /\ mapping'[s] \in Lists
    BY DEF TypeOK
  <1>1. /\ view[s].valid <= fresh'
        /\ view[s].valid = 0 => view[s].since = 0
        /\ view[s].valid = list'.valid => view[s].since <= list'.top
        /\ \A b \in Bases : view[s].uid[b] # 0 => <<view[s].valid, view[s].uid[b], b>> \in named'
    <2>1. /\ view[s].valid \in Nat /\ view[s].since \in Nat /\ view[s].uid \in [Bases -> Nat]
          /\ CopyOf(view[s].valid, view[s].since, view[s].uid)
      BY <1>t DEF Views, Copies
    <2> QED
      BY <2>1, CopyKept
  <1>2. /\ mapping[s].valid <= fresh'
        /\ mapping[s].valid = 0 => mapping[s].top = 0
        /\ mapping[s].valid = list'.valid => mapping[s].top <= list'.top
        /\ \A b \in Bases : mapping[s].uid[b] # 0 => <<mapping[s].valid, mapping[s].uid[b], b>> \in named'
    <2>1. /\ mapping[s].valid \in Nat /\ mapping[s].top \in Nat /\ mapping[s].uid \in [Bases -> Nat]
          /\ CopyOf(mapping[s].valid, mapping[s].top, mapping[s].uid)
      BY <1>t DEF Lists, Copies
    <2> QED
      BY <2>1, CopyKept
  <1>3. ViewStep(s) /\ MappingStep(s)
    BY CopyStep
  <1>4. fresh' \in Nat /\ list' \in Lists
    BY DEF TypeOK
  <1>5. CopyOf(view[s].valid, view[s].since, view[s].uid)'
    <2>1. view'[s].valid <= fresh' /\ (view'[s].valid = 0 => view'[s].since = 0)
      BY <1>1, <1>2, <1>3, <1>4 DEF ViewStep, NoView
    <2>2. view'[s].valid = list'.valid => view'[s].since <= list'.top
      BY <1>1, <1>2, <1>3, <1>4 DEF ViewStep, NoView, Lists
    <2>3. \A b \in Bases : view'[s].uid[b] # 0 => <<view'[s].valid, view'[s].uid[b], b>> \in named'
      <3>1. CASE view'[s] = NoView
        BY <3>1 DEF NoView
      <3>2. CASE view'[s] # NoView
        BY <1>1, <1>2, <1>3, <3>2 DEF ViewStep
      <3> QED
        BY <3>1, <3>2
    <2> QED
      BY <2>1, <2>2, <2>3 DEF CopyOf
  <1>6. CopyOf(mapping[s].valid, mapping[s].top, mapping[s].uid)'
    <2>1. CASE mapping'[s] = mapping[s]
      BY <1>2, <2>1 DEF CopyOf
    <2>2. CASE mapping'[s] = NoList
      BY <1>4, <2>2 DEF CopyOf, NoList, Lists
    <2>3. CASE mapping'[s] = list' /\ list'.valid >= 1
      BY <1>4, <2>3 DEF CopyOf, Ledger, Lists
    <2> QED
      BY <1>3, <2>1, <2>2, <2>3 DEF MappingStep
  <1> QED
    BY <1>5, <1>6

LEMMA AssigningStep == ASSUME TypeOK, Assigning, [Next]_vars PROVE Assigning'
  <1> USE DEF disk, opening, bounds, history, Assigning, TypeOK
  <1>1. ASSUME NEW s \in Sessions, \E b \in Bases : Place(s, b) PROVE Assigning'
    BY <1>1 DEF Place
  <1>2. ASSUME NEW s \in Sessions,
               \/ AssignUid(s) \/ AssignFails(s) \/ \E promote \in BOOLEAN : OpenFolder(s, promote)
               \/ ScanCur(s) \/ SyncUidlist(s) \/ Promote(s) \/ Stat(s)
               \/ RenameFiles(s) \/ RenameLists(s) \/ End(s)
        PROVE  Assigning'
    BY <1>2 DEF AssignUid, AssignFails, OpenFolder, ScanCur, SyncUidlist, Promote, Stat,
                RenameFiles, RenameLists, End
  <1>3. ASSUME NEW s \in Sessions,
               \/ \E b \in Bases, new \in SUBSET Flags : Store(s, b, new) \/ StoreTorn(s, b, new)
               \/ \E bases \in SUBSET Bases : Expunge(s, bases) \/ ExpungeTorn(s, bases)
        PROVE  UNCHANGED <<pc, base>>
    BY <1>3 DEF Store, StoreTorn, Expunge, ExpungeTorn
  <1>4. ASSUME LoseList \/ UNCHANGED vars PROVE UNCHANGED <<pc, base>>
    BY <1>4 DEF LoseList, vars
  <1>5. UNCHANGED <<pc, base>> => Assigning'
    OBVIOUS
  <1> QED
    BY <1>1, <1>2, <1>3, <1>4, <1>5 DEF Next

\* Files arrive, leave or move to cur/.
Moves == \A b \in Present' \ raced' :
             \/ b \in Present /\ (file'[b].dir = "cur" \/ file'[b].dir = file[b].dir)
             \/ ~Scanning

LEMMA ScanFindsStep ==
  ASSUME TypeOK, Assigning, ScanFinds, [Next]_vars PROVE ScanFinds'
  <1> USE DEF disk, opening, bounds, history
  <1>0. ASSUME Moves, UNCHANGED <<pc, scan>>, raced \subseteq raced' PROVE ScanFinds'
    BY <1>0 DEF Moves, ScanFinds, Scanned, Scanning
  <1>1. ASSUME NEW s \in Sessions, Moves, raced \subseteq raced', pc'[s] \notin {"cur", "sync"},
               \A t \in Sessions \ {s} : pc'[t] = pc[t] /\ scan'[t] = scan[t]
        PROVE  ScanFinds'
    BY <1>1 DEF Moves, ScanFinds, Scanned, Scanning
  <1>2. ASSUME NEW s \in Sessions, NEW b \in Bases, Place(s, b) PROVE ScanFinds'
    <2>1. Moves /\ raced \subseteq raced'
      BY <1>2 DEF Place, Moves, Present, TypeOK
    <2>2. /\ pc'[s] \notin {"cur", "sync"}
          /\ \A t \in Sessions \ {s} : pc'[t] = pc[t] /\ scan'[t] = scan[t]
      BY <1>2 DEF Place, TypeOK
    <2> QED
      BY <1>1, <2>1, <2>2
  <1>3. ASSUME UNCHANGED <<file, raced>> PROVE Moves /\ raced \subseteq raced'
    BY <1>3 DEF Moves, Present
  <1>4. ASSUME NEW s \in Sessions, AssignUid(s) \/ SyncUidlist(s) \/ Stat(s) \/ RenameLists(s) \/ End(s)
        PROVE ScanFinds'
    <2>1. /\ UNCHANGED <<file, raced>> /\ pc'[s] \notin {"cur", "sync"}
          /\ \A t \in Sessions \ {s} : pc'[t] = pc[t] /\ scan'[t] = scan[t]
      BY <1>4 DEF AssignUid, SyncUidlist, Stat, RenameLists, End, TypeOK
    <2> QED
      BY <1>1, <1>3, <2>1
  <1>5. ASSUME NEW s \in Sessions, AssignFails(s) PROVE ScanFinds'
    <2>1. Moves /\ raced \subseteq raced'
      BY <1>5 DEF AssignFails, Moves, Present, TypeOK, Nowhere
    <2>2. /\ pc'[s] \notin {"cur", "sync"}
          /\ \A t \in Sessions \ {s} : pc'[t] = pc[t] /\ scan'[t] = scan[t]
      BY <1>5 DEF AssignFails, TypeOK
    <2> QED
      BY <1>1, <2>1, <2>2
  <1>6. ASSUME NEW s \in Sessions, NEW p \in BOOLEAN, OpenFolder(s, p) PROVE ScanFinds'
    <2>1. \A b \in Present : file[b].dir \in {"new", "cur"}
      BY DEF Present, TypeOK, Names
    <2>2. \A b \in Present : pc'[s] = "cur" /\ (b \in Scanned(s)' \/ file'[b].dir = "cur")
      BY <1>6, <2>1 DEF OpenFolder, Scanned, ScanOf, ScanOrder, In, TypeOK, Present
    <2>3. /\ UNCHANGED <<file, raced>>
          /\ \A t \in Sessions \ {s} : pc'[t] = pc[t] /\ scan'[t] = scan[t]
      BY <1>6 DEF OpenFolder, TypeOK
    <2> QED
      BY <2>2, <2>3 DEF ScanFinds, Scanned, Present
  <1>7. ASSUME NEW s \in Sessions, ScanCur(s) PROVE ScanFinds'
    <2>1. \A b \in Present \ raced : pc'[s] = "sync" /\ b \in Scanned(s)'
      BY <1>7 DEF ScanCur, Scanned, ScanOf, ScanOrder, In, TypeOK, Present, ScanFinds
    <2>2. /\ UNCHANGED <<file, raced>>
          /\ \A t \in Sessions \ {s} : pc'[t] = pc[t] /\ scan'[t] = scan[t]
      BY <1>7 DEF ScanCur, TypeOK
    <2> QED
      BY <2>1, <2>2 DEF ScanFinds, Scanned, Present
  <1>8. ASSUME NEW s \in Sessions, Promote(s) PROVE ScanFinds'
    <2>1. Moves /\ raced \subseteq raced'
      BY <1>8 DEF Promote, Moves, Present
    <2>2. /\ pc'[s] \notin {"cur", "sync"}
          /\ \A t \in Sessions \ {s} : pc'[t] = pc[t] /\ scan'[t] = scan[t]
      BY <1>8 DEF Promote, TypeOK
    <2> QED
      BY <1>1, <2>1, <2>2
  <1>9. ASSUME NEW s \in Sessions, NEW b \in Bases, NEW new \in SUBSET Flags,
               Store(s, b, new) \/ StoreTorn(s, b, new)
        PROVE  ScanFinds'
    <2>1. Moves /\ raced \subseteq raced'
      <3>1. PICK d \in Bases : /\ d \in Present /\ raced' = raced
                               /\ file' = [file EXCEPT ![d] = [dir |-> "cur", flags |-> new]]
        BY <1>9 DEF Store, StoreTorn, Named
      <3>2. \A e \in Bases : file'[e] = IF e = d THEN [dir |-> "cur", flags |-> new] ELSE file[e]
        BY <3>1 DEF TypeOK
      <3> QED
        BY <3>1, <3>2 DEF Moves, Present
    <2> QED
      BY <1>0, <1>9, <2>1 DEF Store, StoreTorn
  <1>10. ASSUME NEW s \in Sessions, NEW bases \in SUBSET Bases, Expunge(s, bases) \/ ExpungeTorn(s, bases)
         PROVE  ScanFinds'
    <2>1. Moves /\ raced \subseteq raced'
      <3>1. PICK gone \in SUBSET Bases : file' = Removed(gone) /\ raced' = raced
        BY <1>10 DEF Expunge, ExpungeTorn, Named
      <3> QED
        BY <3>1 DEF Moves, Present, Removed, Nowhere
    <2> QED
      BY <1>0, <1>10, <2>1 DEF Expunge, ExpungeTorn
  <1>11. ASSUME NEW s \in Sessions, RenameFiles(s) PROVE ScanFinds'
    BY <1>11 DEF RenameFiles, ScanFinds, Present, Removed, Nowhere
  <1>12. ASSUME LoseList \/ UNCHANGED vars PROVE ScanFinds'
    BY <1>0, <1>3, <1>12 DEF LoseList, vars
  <1> QED
    BY <1>2, <1>4, <1>5, <1>6, <1>7, <1>8, <1>9, <1>10, <1>11, <1>12 DEF Next

LEMMA ListKeepsStep ==
  ASSUME TypeOK, Ledger, ListKeeps, Arrivals, ListWritten \/ ListShrunk \/ ListLost \/ ListSame
  PROVE  ListKeeps'
  <1> SUFFICES ASSUME NEW t \in named', t[1] = list'.valid, t[3] \in Present', t[3] \notin raced'
               PROVE  list'.uid[t[3]] = t[2]
    BY DEF ListKeeps
  <1>1. t[3] \in Present /\ t[3] \notin raced /\ t[3] \in Bases
    BY DEF Arrivals, Present
  <1>2. CASE ListWritten
    <2>1. PICK drop \in SUBSET Bases : Rewritten(drop) /\ drop \cap Present \subseteq raced
      BY <1>2 DEF ListWritten
    <2>2. CASE t \notin named
      BY <2>1, <2>2 DEF Rewritten
    <2>3. CASE t \in named
      <3>1. t[1] \in Nat /\ t[1] <= fresh /\ t[2] # 0
        BY <2>3 DEF Ledger, TypeOK
      <3>2. list'.valid = list.valid
        BY <2>1, <3>1 DEF Rewritten, TypeOK
      <3>3. list.uid[t[3]] = t[2]
        BY <1>1, <2>3, <3>2 DEF ListKeeps
      <3>4. t[3] \notin drop
        BY <1>1, <2>1
      <3> QED
        BY <1>1, <2>1, <3>1, <3>2, <3>3, <3>4 DEF Rewritten, TypeOK
    <2> QED
      BY <2>2, <2>3
  <1>3. CASE ListShrunk
    BY <1>1, <1>3 DEF ListShrunk, ListKeeps
  <1>4. CASE ListLost
    BY <1>4 DEF ListLost, NoList, Ledger
  <1>5. CASE ListSame
    BY <1>1, <1>5 DEF ListSame, ListKeeps
  <1> QED
    BY <1>2, <1>3, <1>4, <1>5

\* What a write adds to the names of the list.
LEMMA NewNames ==
  ASSUME TypeOK, Ledger, NEW drop \in SUBSET Bases, Rewritten(drop), NEW n \in named', n \notin named
  PROVE  /\ n[1] = list'.valid /\ n[3] \in Bases /\ n[2] = list'.uid[n[3]] /\ n[2] # 0
         /\ \A k \in named : k[1] = n[1] => list.valid = n[1] /\ list.uid[n[3]] = 0 /\ n[2] > k[2]
  <1>1. PICK b \in Bases : n = <<list'.valid, list'.uid[b], b>> /\ list'.uid[b] # 0
    BY DEF Rewritten
  <1>2. ASSUME NEW k \in named, k[1] = n[1]
        PROVE  list.valid = n[1] /\ list.uid[b] = 0 /\ n[2] > k[2]
    <2>1. k[1] \in Nat /\ k[1] <= fresh /\ k[2] \in Nat
      BY DEF Ledger, TypeOK
    <2>2. list.valid # 0 /\ list'.valid = list.valid
      BY <1>1, <1>2, <2>1 DEF Rewritten, TypeOK
    <2>3. k[2] < list.next
      BY <1>1, <1>2, <2>2 DEF Ledger
    <2>4. list.uid[b] # 0 => <<list.valid, list.uid[b], b>> \in named
      BY DEF Ledger
    <2>5. list.uid[b] = 0 /\ list'.uid[b] >= list.next
      BY <1>1, <2>2, <2>4 DEF Rewritten, TypeOK
    <2>6. list'.uid[b] \in Nat /\ list.next \in Nat
      BY DEF Rewritten, TypeOK, Lists
    <2> QED
      BY <1>1, <2>1, <2>2, <2>3, <2>5, <2>6
  <1> QED
    BY <1>1, <1>2

LEMMA UidsStep ==
  ASSUME TypeOK, Ledger, ListKeeps, UidsStand, Arrivals,
         ListWritten \/ ListShrunk \/ ListLost \/ ListSame
  PROVE  UidsStand'
  <1>1. CASE ListWritten
    <2>1. PICK drop \in SUBSET Bases : Rewritten(drop) /\ drop \cap Present \subseteq raced
      BY <1>1 DEF ListWritten
    <2>2. Present' = Present /\ raced' = raced
      BY <1>1 DEF ListWritten, Present
    <2>3. ASSUME NEW n \in named', NEW k \in named', n[1] = k[1], n[2] = k[2] PROVE n[3] = k[3]
      <3>1. CASE n \in named /\ k \in named
        BY <2>3, <3>1 DEF UidsStand, UidsNeverReused
      <3>2. CASE n \notin named /\ k \notin named
        BY <2>1, <2>3, <3>2, NewNames DEF Rewritten, Loadable
      <3>3. ASSUME NEW x \in named', NEW y \in named, x \notin named, x[1] = y[1], x[2] = y[2] PROVE FALSE
        <4>1. x[2] > y[2] /\ y[2] \in Nat
          BY <2>1, <3>3, NewNames DEF TypeOK
        <4> QED
          BY <3>3, <4>1
      <3> QED
        BY <2>3, <3>1, <3>2, <3>3
    <2>4. ASSUME NEW n \in named', NEW k \in named', n[1] = k[1], n[3] = k[3], n[2] # k[2]
          PROVE n[3] \in raced' \/ n[3] \notin Present'
      <3>1. CASE n \in named /\ k \in named
        BY <2>2, <2>4, <3>1 DEF UidsStand, UidKept
      <3>2. CASE n \notin named /\ k \notin named
        BY <2>1, <2>4, <3>2, NewNames
      <3>3. ASSUME NEW x \in named', NEW y \in named, x \notin named, x[1] = y[1], x[3] = y[3],
                   x[3] \in Present, x[3] \notin raced
            PROVE FALSE
        <4>1. list.valid = x[1] /\ list.uid[x[3]] = 0
          BY <2>1, <3>3, NewNames
        <4>2. list.uid[y[3]] = y[2] /\ y[2] # 0
          BY <3>3, <4>1 DEF ListKeeps, Ledger
        <4> QED
          BY <3>3, <4>1, <4>2
      <3> QED
        BY <2>2, <2>4, <3>1, <3>2, <3>3
    <2> QED
      BY <2>3, <2>4 DEF UidsStand, UidsNeverReused, UidKept
  <1>2. CASE ~ListWritten
    <2>1. named' = named
      BY <1>2 DEF ListShrunk, ListLost, ListSame
    <2> QED
      BY <2>1 DEF UidsStand, UidsNeverReused, UidKept, Arrivals
  <1> QED
    BY <1>1, <1>2

LEMMA UidInit == Init => UidInv
  <1> SUFFICES ASSUME Init PROVE UidInv
    OBVIOUS
  <1>1. TypeOK
    BY InitTypes
  <1>2. Ledger /\ Copies
    BY <1>1 DEF Init, Ledger, Copies, CopyOf, NoList, NoView, TypeOK
  <1>3. Assigning /\ ScanFinds /\ ListKeeps /\ UidsStand
    BY DEF Init, Assigning, ScanFinds, ListKeeps, UidsStand, UidsNeverReused, UidKept, Present, Nowhere
  <1> QED
    BY <1>1, <1>2, <1>3 DEF UidInv

LEMMA UidStep == UidInv /\ [Next]_vars => UidInv'
  <1> SUFFICES ASSUME UidInv, [Next]_vars PROVE UidInv'
    OBVIOUS
  <1> USE DEF UidInv
  <1>1. ListWritten \/ ListShrunk \/ ListLost \/ ListSame
    BY ListStep
  <1>2. Arrivals
    BY ArrivalStep
  <1>3. TypeOK'
    BY TypeStep
  <1>4. Ledger'
    BY <1>1, LedgerStep
  <1>5. Copies'
    BY <1>1, <1>3, <1>4, CopiesStep
  <1>6. Assigning' /\ ScanFinds'
    BY AssigningStep, ScanFindsStep
  <1>7. ListKeeps' /\ UidsStand'
    BY <1>1, <1>2, ListKeepsStep, UidsStep
  <1> QED
    BY <1>3, <1>4, <1>5, <1>6, <1>7

\* Every state of the folder has its types, and every list on disk is one that
\* load_uidlist accepts.
THEOREM FolderTypeCorrect == Spec => []TypeOK
  <1>1. UidInv => TypeOK
    BY DEF UidInv
  <1> QED
    BY <1>1, UidInit, UidStep, PTL DEF Spec

\* Within one UIDVALIDITY a UID stands for one message and a message keeps its
\* UID, however many sessions deliver, scan, store and expunge at once.
THEOREM UidsStandAlways == Spec => []UidsStand
  <1>1. UidInv => UidsStand
    BY DEF UidInv
  <1> QED
    BY <1>1, UidInit, UidStep, PTL DEF Spec

-----------------------------------------------------------------------------
(* What a client that comes back is told *)

\* A write of the list leaves a name of its UIDVALIDITY as it was, or drops it.
LEMMA NameKept ==
  ASSUME TypeOK, Ledger, NEW drop \in SUBSET Bases, Rewritten(drop),
         NEW valid \in Nat, valid <= fresh, valid = list'.valid,
         NEW b \in Bases, NEW uid \in Nat, <<valid, uid, b>> \in named
  PROVE  /\ list.valid = valid /\ list.valid # 0 /\ log' = log
         /\ list'.uid[b] = uid => list.uid[b] = uid /\ list'.mod[b] = list.mod[b]
         /\ list.uid[b] = uid => list'.uid[b] = uid \/ b \in drop
  <1>1. list.valid = valid /\ list.valid # 0 /\ log' = log
    BY DEF Rewritten, TypeOK
  <1>2. uid < list.next /\ uid # 0 /\ list.next \in Nat
    <2> DEFINE t == <<valid, uid, b>>
    <2>1. t \in named /\ t[1] = list.valid /\ t[2] = uid
      BY <1>1
    <2> QED
      BY <2>1 DEF Ledger, TypeOK, Lists
  <1>3. list'.uid[b] \in Nat
    BY DEF Rewritten, Lists
  <1> QED
    BY <1>1, <1>2, <1>3 DEF Rewritten, TypeOK

LEMMA ShownListed ==
  ASSUME TypeOK, Copies, NEW s \in Sessions, NEW b \in Viewed(s)
  PROVE  /\ view[s].valid \in Nat /\ view[s].valid <= fresh /\ view[s].uid[b] \in Nat /\ b \in Bases
         /\ <<view[s].valid, view[s].uid[b], b>> \in named
         /\ view[s].since \in Nat /\ (view[s].valid = list.valid => view[s].since <= list.top)
  BY DEF TypeOK, Views, Copies, CopyOf, Viewed

\* The parts of FolderInv that are about resynchronisation, for one session.
Told(s) ==
    /\ \A b \in Viewed(s) \ (raced \cup torn) :
          view[s].valid = list.valid /\ list.uid[b] = view[s].uid[b] => b \in Present
    /\ \A b \in Vanished(s) \ (raced \cup torn) : view[s].uid[b] \in ExpungedSince(view[s].since)
    /\ \A b \in (Viewed(s) \cap Present) \ torn :
          view[s].valid = list.valid /\ list.uid[b] = view[s].uid[b]
              /\ view[s].flags[b] # file[b].flags
          => list.mod[b] > view[s].since

LEMMA ToldIs == (\A s \in Sessions : Told(s)) <=> ShownIsThere /\ ResyncComplete
  BY DEF Told, ShownIsThere, ResyncComplete, VanishedComplete, ChangesTold

\* The view and the list as they were, fewer files, or others with the same flags.
LEMMA ToldWhenFewer ==
  ASSUME TypeOK, NEW s \in Sessions, Told(s), UNCHANGED list, view'[s] = view[s],
         log \subseteq log', raced \subseteq raced', torn \subseteq torn',
         \A b \in Present \ Present' : b \in torn',
         \A b \in (Present' \cap Viewed(s)) \ torn' : b \in Present /\ file'[b].flags = file[b].flags
  PROVE  Told(s)'
  <1>1. Viewed(s)' = Viewed(s) /\ Vanished(s)' = Vanished(s)
    BY DEF Viewed, Vanished
  <1>2. ExpungedSince(view[s].since) \subseteq ExpungedSince(view[s].since)'
    BY DEF ExpungedSince
  <1>3. \A b \in Viewed(s)' \ (raced' \cup torn') :
          view'[s].valid = list'.valid /\ list'.uid[b] = view'[s].uid[b] => b \in Present'
    BY <1>1 DEF Told
  <1>4. \A b \in Vanished(s)' \ (raced' \cup torn') : view'[s].uid[b] \in ExpungedSince(view[s].since)'
    BY <1>1, <1>2 DEF Told
  <1>5. \A b \in (Viewed(s)' \cap Present') \ torn' :
          view'[s].valid = list'.valid /\ list'.uid[b] = view'[s].uid[b]
              /\ view'[s].flags[b] # file'[b].flags
          => list'.mod[b] > view'[s].since
    BY <1>1 DEF Told
  <1> QED
    BY <1>3, <1>4, <1>5 DEF Told

LEMMA ToldWhenWritten ==
  ASSUME TypeOK, TypeOK', Ledger, Copies, NEW s \in Sessions, Told(s), ListWritten
  PROVE  Told(s)'
  <1>1. PICK drop \in SUBSET Bases : Rewritten(drop) /\ drop \cap Present \subseteq raced
    BY DEF ListWritten
  <1>2. Viewed(s)' = Viewed(s) /\ Present' = Present /\ UNCHANGED <<file, view, raced, torn>>
    BY DEF ListWritten, Viewed, Present
  <1>3. ASSUME NEW b \in Viewed(s), view[s].valid = list'.valid
        PROVE  /\ list.valid = view[s].valid /\ log' = log
               /\ list'.uid[b] = view[s].uid[b]
                  => list.uid[b] = view[s].uid[b] /\ list'.mod[b] = list.mod[b]
               /\ list.uid[b] = view[s].uid[b] => list'.uid[b] = view[s].uid[b] \/ b \in drop
    <2>1. /\ view[s].valid \in Nat /\ view[s].valid <= fresh /\ view[s].uid[b] \in Nat /\ b \in Bases
          /\ <<view[s].valid, view[s].uid[b], b>> \in named
      BY ShownListed
    <2> DEFINE v == view[s].valid
               u == view[s].uid[b]
    <2> HIDE DEF v, u
    <2>2. v \in Nat /\ v <= fresh /\ v = list'.valid /\ u \in Nat /\ b \in Bases /\ <<v, u, b>> \in named
      BY <1>3, <2>1 DEF v, u
    <2>3. /\ list.valid = v /\ list.valid # 0 /\ log' = log
          /\ list'.uid[b] = u => list.uid[b] = u /\ list'.mod[b] = list.mod[b]
          /\ list.uid[b] = u => list'.uid[b] = u \/ b \in drop
      BY <1>1, <2>2, NameKept
    <2> QED
      BY <2>3 DEF v, u
  <1>4. ASSUME NEW b \in Viewed(s), b \notin raced \cup torn, view[s].valid = list'.valid,
               list'.uid[b] = view[s].uid[b]
        PROVE  b \in Present
    BY <1>3, <1>4 DEF Told
  <1>5. ASSUME NEW b \in Viewed(s), b \notin raced \cup torn, view[s].valid = list'.valid,
               list'.uid[b] # view[s].uid[b]
        PROVE  view[s].uid[b] \in ExpungedSince(view[s].since)'
    <2>1. list.valid = view[s].valid /\ log' = log
      BY <1>3, <1>5
    <2>2. list.uid[b] # view[s].uid[b]
      <3>1. ASSUME list.uid[b] = view[s].uid[b] PROVE FALSE
        <4>1. b \in drop
          BY <1>3, <1>5, <3>1
        <4>2. b \in Present
          BY <1>5, <2>1, <3>1 DEF Told
        <4> QED
          BY <1>1, <1>5, <4>1, <4>2
      <3> QED
        BY <3>1
    <2>3. view[s].uid[b] \in ExpungedSince(view[s].since)
      BY <1>5, <2>1, <2>2 DEF Told, Vanished
    <2> QED
      BY <1>2, <2>1, <2>3 DEF ExpungedSince
  <1>6. ASSUME NEW b \in Viewed(s), b \in Present, b \notin torn, view[s].valid = list'.valid,
               list'.uid[b] = view[s].uid[b], view[s].flags[b] # file[b].flags
        PROVE  list'.mod[b] > view[s].since
    BY <1>3, <1>6 DEF Told
  <1>7. \A b \in Viewed(s)' \ (raced' \cup torn') :
          view'[s].valid = list'.valid /\ list'.uid[b] = view'[s].uid[b] => b \in Present'
    <2> SUFFICES ASSUME NEW b \in Viewed(s), b \notin raced \cup torn,
                        view[s].valid = list'.valid, list'.uid[b] = view[s].uid[b]
                 PROVE  b \in Present
      BY <1>2
    <2> QED
      BY <1>4
  <1>8. \A b \in Vanished(s)' \ (raced' \cup torn') : view'[s].uid[b] \in ExpungedSince(view[s].since)'
    BY <1>2, <1>5 DEF Vanished
  <1>9. \A b \in (Viewed(s)' \cap Present') \ torn' :
          view'[s].valid = list'.valid /\ list'.uid[b] = view'[s].uid[b]
              /\ view'[s].flags[b] # file'[b].flags
          => list'.mod[b] > view'[s].since
    BY <1>2, <1>6
  <1> QED
    BY <1>7, <1>8, <1>9 DEF Told

LEMMA ToldWhenStored ==
  ASSUME TypeOK, TypeOK', Copies, NEW t \in Sessions, Told(t),
         NEW s \in Sessions, NEW b \in Bases, NEW new \in SUBSET Flags, Store(s, b, new)
  PROVE  Told(t)'
  <1>1. PICK d \in Bases : StoreOf(s, b, new, d)
    BY StoreDoes
  <1>2. UNCHANGED <<log, raced, torn>>
    BY DEF Store
  <1>3. /\ list'.valid = list.valid /\ list'.uid = list.uid
        /\ view'[t].valid = view[t].valid /\ view'[t].since = view[t].since /\ view'[t].uid = view[t].uid
    BY <1>1 DEF StoreOf
  <1>4. Viewed(t)' = Viewed(t) /\ Vanished(t)' = Vanished(t)
    BY <1>3 DEF Viewed, Vanished
  <1>5. \A e \in Bases : file'[e] = IF e = d THEN [dir |-> "cur", flags |-> new] ELSE file[e]
    BY <1>1 DEF StoreOf, TypeOK
  <1>6. Present' = Present
    BY <1>1, <1>5 DEF Present, StoreOf
  <1>7. ExpungedSince(view[t].since)' = ExpungedSince(view[t].since)
    BY <1>2, <1>3 DEF ExpungedSince
  <1>8. ASSUME NEW e \in Viewed(t), e \in Present, e \notin torn, view[t].valid = list.valid,
               list.uid[e] = view[t].uid[e], view'[t].flags[e] # file'[e].flags
        PROVE  list'.mod[e] > view[t].since
    <2>1. e \in Bases
      BY DEF Viewed
    <2>2. CASE e = d
      <3>1. list'.mod[e] = list.top + 1
        BY <1>1, <2>2 DEF StoreOf, TypeOK, Lists
      <3>2. view[t].since <= list.top /\ view[t].since \in Nat /\ list.top \in Nat
        BY <1>8, ShownListed DEF TypeOK, Lists
      <3> QED
        BY <3>1, <3>2
    <2>3. CASE e # d
      <3>1. list'.mod[e] = list.mod[e] /\ file'[e] = file[e]
        BY <1>1, <1>5, <2>1, <2>3 DEF StoreOf, TypeOK, Lists
      <3>2. t = s => e # b
        <4> SUFFICES ASSUME t = s, e = b PROVE FALSE
          OBVIOUS
        <4>1. list.uid[e] = list.uid[d] /\ list.uid[d] # 0
          BY <1>1, <1>8 DEF StoreOf
        <4> QED
          BY <2>1, <2>3, <4>1 DEF TypeOK, Loadable
      <3>3. view'[t].flags[e] = view[t].flags[e]
        BY <1>1, <2>1, <3>2 DEF StoreOf, TypeOK, Views
      <3> QED
        BY <1>8, <3>1, <3>3 DEF Told
    <2> QED
      BY <2>2, <2>3
  <1>9. \A e \in Viewed(t)' \ (raced' \cup torn') :
          view'[t].valid = list'.valid /\ list'.uid[e] = view'[t].uid[e] => e \in Present'
    BY <1>2, <1>3, <1>4, <1>6 DEF Told
  <1>10. \A e \in Vanished(t)' \ (raced' \cup torn') : view'[t].uid[e] \in ExpungedSince(view[t].since)'
    BY <1>2, <1>3, <1>4, <1>7 DEF Told
  <1>11. \A e \in (Viewed(t)' \cap Present') \ torn' :
          view'[t].valid = list'.valid /\ list'.uid[e] = view'[t].uid[e]
              /\ view'[t].flags[e] # file'[e].flags
          => list'.mod[e] > view'[t].since
    BY <1>2, <1>3, <1>4, <1>6, <1>8
  <1> QED
    BY <1>9, <1>10, <1>11 DEF Told

LEMMA ToldWhenExpunged ==
  ASSUME TypeOK, TypeOK', Copies, NEW t \in Sessions, Told(t),
         NEW s \in Sessions, NEW bases \in SUBSET Bases, Expunge(s, bases)
  PROVE  Told(t)'
  <1>1. PICK gone \in SUBSET Bases : \E f \in Numberings(gone) : ExpungeOf(s, bases, gone, f)
    BY ExpungeDoes
  <1>2. PICK f \in Numberings(gone) : ExpungeOf(s, bases, gone, f)
    BY <1>1
  <1>3. UNCHANGED <<raced, torn>>
    BY DEF Expunge
  <1>4. /\ list'.valid = list.valid /\ view'[t].valid = view[t].valid /\ view'[t].since = view[t].since
    BY <1>2 DEF ExpungeOf
  <1>5. \A b \in Viewed(t)' : b \in Viewed(t) /\ view'[t].uid[b] = view[t].uid[b]
                              /\ view'[t].flags[b] = view[t].flags[b]
    <2>1. CASE t = s
      BY <1>2, <2>1 DEF Viewed, ExpungeOf
    <2>2. CASE t # s
      BY <1>2, <2>2 DEF Viewed, ExpungeOf
    <2> QED
      BY <2>1, <2>2
  <1>6. /\ \A b \in Bases \ gone : file'[b] = file[b] /\ list'.uid[b] = list.uid[b] /\ list'.mod[b] = list.mod[b]
        /\ \A b \in gone : b \notin Present' /\ list'.uid[b] = 0
    BY <1>2 DEF ExpungeOf, Removed, Present, Nowhere
  <1>7. \A b \in Bases \ gone : b \in Present' <=> b \in Present
    BY <1>6 DEF Present
  <1>8. ASSUME NEW b \in Viewed(t), view[t].valid = list.valid, b \in gone, list.uid[b] = view[t].uid[b]
        PROVE  view[t].uid[b] \in ExpungedSince(view[t].since)'
    <2> DEFINE x == <<list.uid[b], list.top + f[b]>>
    <2>1. x \in log'
      BY <1>2, <1>8 DEF ExpungeOf, Events
    <2>2. f[b] \in Nat /\ f[b] >= 1
      BY <1>8, CountTyped DEF Numberings
    <2>3. view[t].since <= list.top /\ view[t].since \in Nat /\ list.top \in Nat
      BY <1>8, ShownListed DEF TypeOK, Lists
    <2>4. x[2] > view'[t].since /\ x[1] = view[t].uid[b]
      BY <1>4, <1>8, <2>2, <2>3
    <2> QED
      BY <2>1, <2>4 DEF ExpungedSince
  <1>9. ASSUME NEW b \in Viewed(t), b \notin raced \cup torn, view[t].valid = list.valid, list'.uid[b] # view[t].uid[b]
        PROVE  view[t].uid[b] \in ExpungedSince(view[t].since)'
    <2>1. CASE list.uid[b] = view[t].uid[b]
      BY <1>6, <1>8, <1>9, <2>1 DEF Viewed
    <2>2. CASE list.uid[b] # view[t].uid[b]
      <3>1. view[t].uid[b] \in ExpungedSince(view[t].since)
        BY <1>9, <2>2 DEF Told, Vanished
      <3>2. log \subseteq log'
        BY <1>2 DEF ExpungeOf
      <3> QED
        BY <1>4, <3>1, <3>2 DEF ExpungedSince
    <2> QED
      BY <2>1, <2>2
  <1>10. \A b \in Viewed(t)' \ (raced' \cup torn') :
          view'[t].valid = list'.valid /\ list'.uid[b] = view'[t].uid[b] => b \in Present'
    BY <1>3, <1>4, <1>5, <1>6, <1>7 DEF Told, Viewed
  <1>11. \A b \in Vanished(t)' \ (raced' \cup torn') : view'[t].uid[b] \in ExpungedSince(view[t].since)'
    BY <1>3, <1>4, <1>5, <1>9 DEF Vanished
  <1>12. \A b \in (Viewed(t)' \cap Present') \ torn' :
          view'[t].valid = list'.valid /\ list'.uid[b] = view'[t].uid[b]
              /\ view'[t].flags[b] # file'[b].flags
          => list'.mod[b] > view'[t].since
    BY <1>3, <1>4, <1>5, <1>6, <1>7 DEF Told, Viewed
  <1> QED
    BY <1>10, <1>11, <1>12 DEF Told

LEMMA ToldWhenOpened ==
  ASSUME TypeOK, TypeOK', Copies, Copies', ListKeeps, NEW t \in Sessions, Told(t), NEW s \in Sessions, Stat(s)
  PROVE  Told(t)'
  <1>1. UNCHANGED <<file, list, log, raced, torn>> /\ Present' = Present
    BY DEF Stat, disk, Present
  <1>2. CASE t # s
    <2>1. view'[t] = view[t]
      BY <1>2 DEF Stat, TypeOK
    <2> QED
      BY <1>1, <2>1, ToldWhenFewer
  <1>3. CASE t = s
    <2>1. /\ view'[t].valid = mapping[t].valid
          /\ \A b \in Viewed(t)' : /\ b \in Found(t) /\ view'[t].uid[b] = mapping[t].uid[b]
                                   /\ view'[t].flags[b] = scan[t][b].flags
      BY <1>3 DEF Stat, TypeOK, Viewed
    <2>2. \A b \in Viewed(t)' : /\ b \in Present /\ mapping[t].uid[b] # 0
                                /\ view'[t].flags[b] = file[b].flags
      BY <2>1 DEF Found, Scanned, Present
    <2>3. \A b \in Viewed(t)' \ raced : mapping[t].valid = list.valid => list.uid[b] = mapping[t].uid[b]
      <3> SUFFICES ASSUME NEW b \in Viewed(t)', b \notin raced, mapping[t].valid = list.valid
                   PROVE  list.uid[b] = mapping[t].uid[b]
        OBVIOUS
      <3> DEFINE k == <<list.valid, mapping[t].uid[b], b>>
      <3>1. k \in named /\ k[1] = list.valid /\ k[2] = mapping[t].uid[b] /\ k[3] = b
        BY <2>2 DEF Copies, CopyOf, Present
      <3> QED
        BY <2>2, <3>1 DEF ListKeeps
    <2>4. Vanished(t)' \ (raced' \cup torn') = {}
      BY <1>1, <2>1, <2>3 DEF Vanished
    <2> QED
      BY <1>1, <2>2, <2>4 DEF Told
  <1> QED
    BY <1>2, <1>3

LEMMA ToldWhenLost ==
  ASSUME TypeOK, Ledger, Copies, NEW s \in Sessions, ListLost PROVE Told(s)'
  <1>1. list'.valid = 0 /\ view'[s] = view[s]
    BY DEF ListLost, NoList
  <1>2. view[s].valid = 0 => Viewed(s) = {}
    <2> SUFFICES ASSUME view[s].valid = 0, NEW b \in Viewed(s) PROVE FALSE
      OBVIOUS
    <2> DEFINE k == <<view[s].valid, view[s].uid[b], b>>
    <2>1. k \in named /\ k[1] = 0
      BY ShownListed
    <2> QED
      BY <2>1 DEF Ledger
  <1>3. Viewed(s)' = Viewed(s)
    BY <1>1 DEF Viewed
  <1> QED
    BY <1>1, <1>2, <1>3 DEF Told, Vanished

LEMMA ToldStep ==
  ASSUME UidInv, UidInv', NEW t \in Sessions, Told(t), [Next]_vars PROVE Told(t)'
  <1> USE DEF disk, opening, bounds, history
  <1>a. TypeOK /\ TypeOK' /\ Ledger /\ Copies /\ Copies' /\ Assigning /\ ScanFinds /\ ListKeeps
    BY DEF UidInv
  <1>b. ASSUME UNCHANGED <<list, view, file, log, raced, torn>> PROVE Told(t)'
    <2>1. Present' = Present
      BY <1>b DEF Present
    <2> QED
      BY <1>a, <1>b, <2>1, ToldWhenFewer
  <1>1. ASSUME NEW s \in Sessions, NEW b \in Bases, Place(s, b) PROVE Told(t)'
    <2>1. b \notin Viewed(t)
      <3> SUFFICES ASSUME b \in Viewed(t) PROVE FALSE
        OBVIOUS
      <3> DEFINE k == <<view[t].valid, view[t].uid[b], b>>
      <3>1. k \in named /\ k[3] = b
        BY <1>a, ShownListed
      <3> QED
        BY <1>1, <3>1 DEF Place
    <2>2. \A e \in Bases \ {b} : file'[e] = file[e]
      BY <1>a, <1>1 DEF Place, TypeOK
    <2>3. \A e \in Present' \cap Viewed(t) : e \in Present /\ file'[e].flags = file[e].flags
      BY <2>1, <2>2 DEF Present
    <2>4. \A e \in Present \ Present' : e \in torn'
      BY <1>1, <2>2 DEF Present, Place
    <2>5. UNCHANGED <<list, view, log, torn>> /\ raced \subseteq raced'
      BY <1>1 DEF Place
    <2> QED
      BY <1>a, <2>3, <2>4, <2>5, ToldWhenFewer
  <1>2. ASSUME NEW s \in Sessions, AssignUid(s) \/ SyncUidlist(s) PROVE Told(t)'
    BY <1>a, <1>2, WritersWrite, ToldWhenWritten
  <1>3. ASSUME NEW s \in Sessions, AssignFails(s) PROVE Told(t)'
    <2>1. base[s] \in Bases
      BY <1>a, <1>3 DEF AssignFails, Assigning
    <2>2. \A e \in Bases \ {base[s]} : file'[e] = file[e]
      BY <1>a, <1>3 DEF AssignFails, TypeOK
    <2>3. UNCHANGED <<list, view, log, raced>> /\ torn' = torn \cup {base[s]}
      BY <1>3 DEF AssignFails
    <2> QED
      BY <1>a, <2>2, <2>3, ToldWhenFewer DEF Present
  <1>4. ASSUME NEW s \in Sessions, (\E p \in BOOLEAN : OpenFolder(s, p)) \/ ScanCur(s) PROVE Told(t)'
    BY <1>b, <1>4 DEF OpenFolder, ScanCur
  <1>5. ASSUME NEW s \in Sessions, Promote(s) PROVE Told(t)'
    <2>1. \A e \in Bases : /\ file'[e].flags = file[e].flags
                           /\ file'[e].dir = "gone" <=> file[e].dir = "gone"
      BY <1>5 DEF Promote
    <2>2. UNCHANGED <<list, view, log, raced, torn>> /\ Present' = Present
      BY <1>5, <2>1 DEF Promote, Present
    <2> QED
      BY <1>a, <2>1, <2>2, ToldWhenFewer DEF Present
  <1>6. ASSUME NEW s \in Sessions, Stat(s) PROVE Told(t)'
    BY <1>a, <1>6, ToldWhenOpened
  <1>7. ASSUME NEW s \in Sessions, NEW b \in Bases, NEW new \in SUBSET Flags, Store(s, b, new)
        PROVE  Told(t)'
    BY <1>a, <1>7, ToldWhenStored
  <1>8. ASSUME NEW s \in Sessions, NEW b \in Bases, NEW new \in SUBSET Flags, StoreTorn(s, b, new)
        PROVE  Told(t)'
    <2>1. PICK d \in Present : /\ file' = [file EXCEPT ![d] = [dir |-> "cur", flags |-> new]]
                               /\ torn' = torn \cup {d}
      BY <1>8 DEF StoreTorn
    <2>2. \A e \in Bases \ {d} : file'[e] = file[e]
      BY <1>a, <2>1 DEF TypeOK
    <2>3. UNCHANGED <<list, view, log, raced>>
      BY <1>8 DEF StoreTorn
    <2> QED
      BY <1>a, <2>1, <2>2, <2>3, ToldWhenFewer DEF Present
  <1>9. ASSUME NEW s \in Sessions, NEW bases \in SUBSET Bases, Expunge(s, bases) PROVE Told(t)'
    BY <1>a, <1>9, ToldWhenExpunged
  <1>10. ASSUME NEW s \in Sessions, NEW bases \in SUBSET Bases, ExpungeTorn(s, bases) PROVE Told(t)'
    <2>1. PICK gone \in SUBSET Bases : file' = Removed(gone) /\ torn' = torn \cup gone
      BY <1>10 DEF ExpungeTorn, Named
    <2>2. \A e \in Bases \ gone : file'[e] = file[e]
      BY <2>1 DEF Removed
    <2>3. UNCHANGED <<list, view, raced>> /\ log \subseteq log'
      BY <1>10 DEF ExpungeTorn
    <2> QED
      BY <1>a, <2>1, <2>2, <2>3, ToldWhenFewer DEF Present
  <1>11. ASSUME NEW s \in Sessions, RenameFiles(s) PROVE Told(t)'
    <2>1. Present' = {} /\ torn' = torn \cup Present /\ UNCHANGED <<list, view, log, raced>>
      BY <1>11 DEF RenameFiles, Present, Removed, Nowhere
    <2> QED
      BY <1>a, <2>1, ToldWhenFewer
  <1>12. ASSUME NEW s \in Sessions, RenameLists(s) PROVE Told(t)'
    <2>1. ListLost
      BY <1>12 DEF RenameLists, ListLost
    <2> QED
      BY <1>a, <2>1, ToldWhenLost
  <1>13. ASSUME LoseList PROVE Told(t)'
    <2>1. ListLost
      BY <1>13 DEF LoseList, ListLost
    <2> QED
      BY <1>a, <2>1, ToldWhenLost
  <1>14. ASSUME NEW s \in Sessions, End(s) PROVE Told(t)'
    <2>1. CASE t = s
      <3>1. Viewed(t)' = {}
        BY <1>a, <1>14, <2>1 DEF End, Viewed, NoView, TypeOK
      <3> QED
        BY <3>1 DEF Told, Vanished
    <2>2. CASE t # s
      <3>1. view'[t] = view[t] /\ UNCHANGED <<list, file, log, raced, torn>> /\ Present' = Present
        BY <1>a, <1>14, <2>2 DEF End, TypeOK, Present
      <3> QED
        BY <1>a, <3>1, ToldWhenFewer
    <2> QED
      BY <2>1, <2>2
  <1>15. ASSUME UNCHANGED vars PROVE Told(t)'
    BY <1>b, <1>15 DEF vars
  <1> QED
    BY <1>1, <1>2, <1>3, <1>4, <1>5, <1>6, <1>7, <1>8, <1>9, <1>10, <1>11, <1>12, <1>13, <1>14,
       <1>15 DEF Next

-----------------------------------------------------------------------------
(* STORE and EXPUNGE mean the message they hit *)

\* While there is one UIDVALIDITY, the message that has a UID of the view is
\* the one the view shows under it.
LEMMA SameMessage ==
  ASSUME UidInv, OneValidity, rebuilds = 0, NEW s \in Sessions, NEW b \in Viewed(s),
         NEW d \in Bases, list.uid[d] = view[s].uid[b]
  PROVE  d = b
  <1> DEFINE n == <<view[s].valid, view[s].uid[b], b>>
             k == <<list.valid, list.uid[d], d>>
  <1>1. n \in named
    BY ShownListed DEF UidInv
  <1>2. k \in named
    BY DEF UidInv, Ledger, Viewed
  <1>3. n[1] = list.valid
    BY <1>1 DEF OneValidity
  <1> QED
    BY <1>1, <1>2, <1>3 DEF UidInv, UidsStand, UidsNeverReused

LEMMA OneValidityStep ==
  ASSUME UidInv, OneValidity, [Next]_vars PROVE OneValidity'
  <1> USE DEF disk, opening, bounds, history
  <1>a. TypeOK /\ Ledger /\ Assigning /\ ScanFinds
    BY DEF UidInv
  <1>1. ASSUME NEW s \in Sessions, AssignUid(s) \/ SyncUidlist(s) PROVE OneValidity'
    <2> SUFFICES ASSUME rebuilds' = 0
                 PROVE  /\ \A n \in named' : n[1] = list'.valid
                        /\ \A t \in Sessions : pc'[t] # "rename"
      BY DEF OneValidity
    <2>1. ListWritten
      BY <1>a, <1>1, WritersWrite
    <2>2. PICK drop \in SUBSET Bases : Rewritten(drop)
      BY <2>1 DEF ListWritten
    <2>3. rebuilds = 0 /\ \A n \in named : n[1] = list.valid /\ n[1] # 0
      BY <1>a, <2>1 DEF ListWritten, OneValidity, Ledger
    <2>4. \A n \in named' : n[1] = list'.valid
      BY <2>2, <2>3 DEF Rewritten
    <2>5. \A t \in Sessions : pc'[t] # "rename"
      BY <1>a, <1>1, <2>3 DEF AssignUid, SyncUidlist, TypeOK, OneValidity
    <2> QED
      BY <2>4, <2>5
  <1>2. ASSUME NEW s \in Sessions,
               \/ \E b \in Bases : Place(s, b)
               \/ AssignFails(s)
               \/ \E promote \in BOOLEAN : OpenFolder(s, promote)
               \/ ScanCur(s) \/ Promote(s) \/ Stat(s) \/ End(s)
        PROVE  OneValidity'
    <2>1. UNCHANGED <<list, named, rebuilds>>
      BY <1>2 DEF Place, AssignFails, OpenFolder, ScanCur, Promote, Stat, End
    <2>2. \A t \in Sessions : pc'[t] # pc[t] => pc'[t] # "rename"
      BY <1>a, <1>2 DEF Place, AssignFails, OpenFolder, ScanCur, Promote, Stat, End, TypeOK
    <2> QED
      BY <2>1, <2>2 DEF OneValidity
  <1>3. ASSUME NEW s \in Sessions, NEW b \in Bases, NEW new \in SUBSET Flags,
               Store(s, b, new) \/ StoreTorn(s, b, new)
        PROVE  OneValidity'
    <2>1. list'.valid = list.valid
      BY <1>a, <1>3, StoreDoes DEF StoreOf, StoreTorn
    <2> QED
      BY <1>3, <2>1 DEF Store, StoreTorn, OneValidity
  <1>4. ASSUME NEW s \in Sessions, NEW bases \in SUBSET Bases, Expunge(s, bases) \/ ExpungeTorn(s, bases)
        PROVE  OneValidity'
    <2>1. list'.valid = list.valid
      <3>1. CASE Expunge(s, bases)
        BY <1>a, <3>1, ExpungeDoes DEF ExpungeOf
      <3>2. CASE ExpungeTorn(s, bases)
        BY <3>2 DEF ExpungeTorn
      <3> QED
        BY <1>4, <3>1, <3>2
    <2>2. UNCHANGED <<named, pc, rebuilds>>
      BY <1>4 DEF Expunge, ExpungeTorn
    <2> QED
      BY <2>1, <2>2 DEF OneValidity
  <1>5. ASSUME NEW s \in Sessions, RenameFiles(s) PROVE OneValidity'
    BY <1>a, <1>5 DEF RenameFiles, OneValidity, TypeOK
  <1>6. ASSUME NEW s \in Sessions, RenameLists(s) PROVE OneValidity'
    BY <1>6 DEF RenameLists, OneValidity
  <1>7. ASSUME LoseList PROVE OneValidity'
    BY <1>a, <1>7 DEF LoseList, OneValidity, TypeOK
  <1>8. ASSUME UNCHANGED vars PROVE OneValidity'
    BY <1>8 DEF vars, OneValidity
  <1> QED
    BY <1>1, <1>2, <1>3, <1>4, <1>5, <1>6, <1>7, <1>8 DEF Next

LEMMA OnlyNamedStep ==
  ASSUME UidInv, OneValidity, OnlyNamedChanged, [Next]_vars PROVE OnlyNamedChanged'
  <1> USE DEF disk, opening, bounds, history
  <1>a. TypeOK
    BY DEF UidInv
  <1>b. ASSUME rebuilds' = rebuilds \/ rebuilds' = rebuilds + 1, rebuilds = 0 => wronged' = wronged
        PROVE  OnlyNamedChanged'
    BY <1>a, <1>b DEF OnlyNamedChanged, TypeOK
  <1>1. ASSUME NEW s \in Sessions, NEW b \in Bases, NEW new \in SUBSET Flags,
               Store(s, b, new) \/ StoreTorn(s, b, new)
        PROVE  OnlyNamedChanged'
    <2>1. PICK d \in Bases : list.uid[d] = view[s].uid[b] /\ wronged' = wronged \cup Mistaken(s, {d})
      BY <1>1 DEF Store, StoreTorn, Named
    <2>2. b \in Viewed(s) /\ rebuilds' = rebuilds
      BY <1>1 DEF Store, StoreTorn, Viewed
    <2>3. rebuilds = 0 => Mistaken(s, {d}) = {}
      BY <2>1, <2>2, SameMessage DEF Mistaken
    <2> QED
      BY <1>b, <2>1, <2>2, <2>3
  <1>2. ASSUME NEW s \in Sessions, NEW bases \in SUBSET Bases, Expunge(s, bases) \/ ExpungeTorn(s, bases)
        PROVE  OnlyNamedChanged'
    <2> DEFINE gone == Named({view[s].uid[b] : b \in bases}) \cap Present
    <2>1. wronged' = wronged \cup Mistaken(s, gone)
      BY <1>2 DEF Expunge, ExpungeTorn
    <2>2. bases \subseteq Viewed(s) /\ rebuilds' = rebuilds
      BY <1>2 DEF Expunge, ExpungeTorn
    <2>3. \A d \in gone : d \in Bases /\ \E b \in bases : list.uid[d] = view[s].uid[b]
      BY DEF Named
    <2> HIDE DEF gone
    <2>4. rebuilds = 0 => Mistaken(s, gone) = {}
      BY <2>2, <2>3, SameMessage DEF Mistaken
    <2> QED
      BY <1>b, <2>1, <2>2, <2>4
  <1>3. ASSUME NEW s \in Sessions,
               \/ \E b \in Bases : Place(s, b)
               \/ AssignUid(s) \/ AssignFails(s)
               \/ \E promote \in BOOLEAN : OpenFolder(s, promote)
               \/ ScanCur(s) \/ SyncUidlist(s) \/ Promote(s) \/ Stat(s)
               \/ RenameFiles(s) \/ RenameLists(s) \/ End(s)
        PROVE  OnlyNamedChanged'
    <2>1. wronged' = wronged /\ (rebuilds' = rebuilds \/ rebuilds' = rebuilds + 1)
      BY <1>3 DEF Place, AssignUid, AssignFails, OpenFolder, ScanCur, SyncUidlist, Promote, Stat,
                  RenameFiles, RenameLists, End
    <2> QED
      BY <1>b, <2>1
  <1>4. ASSUME LoseList \/ UNCHANGED vars PROVE OnlyNamedChanged'
    BY <1>b, <1>4 DEF LoseList, vars
  <1> QED
    BY <1>1, <1>2, <1>3, <1>4 DEF Next

-----------------------------------------------------------------------------
(* What an open shows *)

\* OpenKnows for one session.
Knows(s) ==
    /\ pc[s] = "promote" => select[s]
    /\ pc[s] = "stat" /\ select[s] => \A b \in Bases : scan[s][b].dir # "new"
    /\ pc[s] \in {"promote", "stat"} => \A b \in Scanned(s) : mapping[s].uid[b] # 0
    /\ \A b \in Present \ touched[s] :
          /\ pc[s] = "cur" => file[b].dir = "cur" \/ scan[s][b] = file[b]
          /\ pc[s] \in {"sync", "promote"} => scan[s][b] = file[b] \/ Promoted(s, b)
          /\ pc[s] = "stat" => scan[s][b] = file[b]

LEMMA KnowsIs == (\A s \in Sessions : Knows(s)) <=> OpenKnows
  BY DEF Knows, OpenKnows

\* Another session's step, when the files the open has not lost sight of stay.
LEMMA KnowsWhenCalm ==
  ASSUME NEW t \in Sessions, Knows(t), pc'[t] = pc[t], scan'[t] = scan[t],
         mapping'[t] = mapping[t], select'[t] = select[t], touched[t] \subseteq touched'[t],
         pc[t] \in Opening => \A b \in Present' \ touched'[t] : b \in Present /\ file'[b] = file[b]
  PROVE  Knows(t)'
  <1>1. Scanned(t)' = Scanned(t)
    BY DEF Scanned
  <1>2. ASSUME NEW b \in Present' \ touched'[t], pc[t] \in Opening
        PROVE  b \in Present \ touched[t] /\ file'[b] = file[b]
    BY <1>2
  <1>3. \A b \in Present' \ touched'[t] :
          /\ pc'[t] = "cur" => file'[b].dir = "cur" \/ scan'[t][b] = file'[b]
          /\ pc'[t] \in {"sync", "promote"} => scan'[t][b] = file'[b] \/ Promoted(t, b)'
          /\ pc'[t] = "stat" => scan'[t][b] = file'[b]
    BY <1>2 DEF Opening, Knows, Promoted
  <1> QED
    BY <1>1, <1>3 DEF Knows

\* Steps that touch what they change: the open takes note.
LEMMA KnowsWhenTouched ==
  ASSUME TypeOK, NEW t \in Sessions, Knows(t), pc'[t] = pc[t] \/ pc'[t] \notin Opening,
         UNCHANGED <<scan, mapping, select>>, NEW b \in Bases, Touch({b}, Sessions),
         \A e \in Bases \ {b} : file'[e] = file[e]
  PROVE  Knows(t)'
  <1>1. CASE pc'[t] \notin Opening
    BY <1>1 DEF Knows, Opening
  <1>2. CASE pc'[t] = pc[t]
    <2>1. touched[t] \subseteq touched'[t] /\ (pc[t] \in Opening => b \in touched'[t])
      BY DEF Touch
    <2>2. pc[t] \in Opening => \A e \in Present' \ touched'[t] : e \in Present /\ file'[e] = file[e]
      BY <2>1 DEF Present
    <2> QED
      BY <1>2, <2>1, <2>2, KnowsWhenCalm
  <1> QED
    BY <1>1, <1>2

LEMMA KnowsWhenPromoted ==
  ASSUME TypeOK, NEW t \in Sessions, Knows(t), NEW s \in Sessions, Promote(s) PROVE Knows(t)'
  <1>1. \A b \in Bases : file'[b] = IF b \in Recent(s) /\ file[b].dir = "new"
                                    THEN [dir |-> "cur", flags |-> file[b].flags] ELSE file[b]
    BY DEF Promote
  <1>c. ASSUME NEW b \in Bases, b \in Recent(s), file[b].dir = "new" PROVE file'[b].dir = "cur"
    <2>1. file'[b] = [dir |-> "cur", flags |-> file[b].flags]
      BY <1>1, <1>c
    <2> QED
      BY <2>1
  <1>k. \A b \in Bases : ~(b \in Recent(s) /\ file[b].dir = "new") => file'[b] = file[b]
    BY <1>1
  <1>2. Present' = Present
    BY <1>c, <1>k DEF Present
  <1>3. UNCHANGED <<mapping, select>>
    BY DEF Promote
  <1>n. \A b \in Bases : file[b] \in Names /\ scan[t][b] \in Names
    BY DEF TypeOK
  <1>4. CASE t = s
    <2>1. pc[t] = "promote" /\ pc'[t] = "stat" /\ select[t]
      BY <1>4 DEF Promote, TypeOK, Knows
    <2>2. touched'[t] = touched[t]
      BY <2>1 DEF Promote, Touch
    <2>3. \A b \in Bases : scan'[t][b] = IF scan[t][b].dir = "new"
                                         THEN [dir |-> "cur", flags |-> scan[t][b].flags] ELSE scan[t][b]
      BY <1>4 DEF Promote, TypeOK, Recent, PromotedName
    <2>r. /\ \A b \in Bases : scan[t][b].dir = "new" => scan'[t][b].dir = "cur"
          /\ \A b \in Bases : scan[t][b].dir # "new" => scan'[t][b] = scan[t][b]
      <3>1. ASSUME NEW b \in Bases, scan[t][b].dir = "new" PROVE scan'[t][b].dir = "cur"
        <4>1. scan'[t][b] = [dir |-> "cur", flags |-> scan[t][b].flags]
          BY <2>3, <3>1
        <4> QED
          BY <4>1
      <3>2. ASSUME NEW b \in Bases, scan[t][b].dir # "new" PROVE scan'[t][b] = scan[t][b]
        BY <2>3, <3>2
      <3> QED
        BY <3>1, <3>2
    <2>4. \A b \in Bases : scan'[t][b].dir # "new"
      BY <2>r
    <2>5. Scanned(t)' = Scanned(t)
      BY <2>r DEF Scanned
    <2>6. ASSUME NEW b \in Present \ touched[t] PROVE scan'[t][b] = file'[b]
      <3>1. b \in Bases /\ (scan[t][b] = file[b] \/ Promoted(t, b))
        BY <2>1 DEF Present, Knows
      <3>2. CASE scan[t][b] = file[b]
        BY <1>1, <1>4, <2>3, <3>1, <3>2 DEF Recent
      <3>3. CASE Promoted(t, b)
        BY <1>1, <2>3, <3>1, <3>3 DEF Promoted
      <3> QED
        BY <3>1, <3>2, <3>3
    <2> QED
      BY <1>2, <1>3, <2>1, <2>2, <2>4, <2>5, <2>6 DEF Knows
  <1>5. CASE t # s
    <2>1. pc'[t] = pc[t] /\ scan'[t] = scan[t]
      BY <1>5 DEF Promote, TypeOK
    <2>2. CASE ~select[t] \/ pc[t] \notin Opening
      <3>1. touched[t] \subseteq touched'[t] /\ (pc[t] \in Opening => Recent(s) \subseteq touched'[t])
        BY <2>2 DEF Promote, Touch
      <3>2. pc[t] \in Opening => \A b \in Present' \ touched'[t] : b \in Present /\ file'[b] = file[b]
        BY <1>1, <1>2, <3>1 DEF Present
      <3> QED
        BY <1>3, <2>1, <3>1, <3>2, KnowsWhenCalm
    <2>3. CASE select[t] /\ pc[t] \in Opening
      <3>1. touched'[t] = touched[t]
        BY <2>3 DEF Promote, Touch
      <3>2. ASSUME NEW b \in Present \ touched[t]
            PROVE  /\ pc[t] = "cur" => file'[b].dir = "cur" \/ scan[t][b] = file'[b]
                   /\ pc[t] \in {"sync", "promote"} => scan[t][b] = file'[b] \/ Promoted(t, b)'
                   /\ pc[t] = "stat" => scan[t][b] = file'[b]
        <4>1. b \in Bases
          BY DEF Present
        <4>2. CASE file'[b] = file[b]
          BY <1>3, <2>1, <3>2, <4>2 DEF Knows, Promoted
        <4>3. CASE file'[b] # file[b]
          <5>1. file[b].dir = "new" /\ file'[b] = [dir |-> "cur", flags |-> file[b].flags]
            BY <1>1, <4>1, <4>3
          <5>2. pc[t] = "stat" => scan[t][b] = file[b] /\ scan[t][b].dir # "new"
            BY <2>3, <3>2, <4>1 DEF Knows
          <5>3. pc[t] \in {"sync", "promote"} => scan[t][b] = file[b]
            <6>1. pc[t] \in {"sync", "promote"} => scan[t][b] = file[b] \/ Promoted(t, b)
              BY <3>2 DEF Knows
            <6>2. Promoted(t, b) => file[b].dir = "cur"
              BY DEF Promoted
            <6> QED
              BY <5>1, <6>1, <6>2
          <5>4. ASSUME pc[t] \in {"sync", "promote"} PROVE Promoted(t, b)'
            <6>1. scan'[t][b] = file[b] /\ scan'[t][b].dir = "new" /\ select'[t]
              BY <1>3, <2>1, <2>3, <5>1, <5>3, <5>4
            <6>2. file'[b] = [dir |-> "cur", flags |-> scan'[t][b].flags]
              BY <5>1, <6>1
            <6> QED
              BY <6>1, <6>2 DEF Promoted
          <5>5. file'[b].dir = "cur"
            BY <5>1
          <5> QED
            BY <5>1, <5>2, <5>4, <5>5
        <4> QED
          BY <4>2, <4>3
      <3>3. Scanned(t)' = Scanned(t)
        BY <2>1 DEF Scanned
      <3> QED
        BY <1>2, <1>3, <2>1, <3>1, <3>2, <3>3 DEF Knows
    <2> QED
      BY <2>2, <2>3
  <1> QED
    BY <1>4, <1>5

LEMMA KnowsWhenScanned ==
  ASSUME TypeOK, Ledger, NEW s \in Sessions, Knows(s),
         (\E p \in BOOLEAN : OpenFolder(s, p)) \/ ScanCur(s) \/ SyncUidlist(s)
  PROVE  Knows(s)'
  <1> USE DEF disk, bounds, history
  <1>d. \A b \in Present : file[b].dir \in {"new", "cur"} /\ b \in Bases
    BY DEF Present, TypeOK, Names
  <1>1. CASE \E p \in BOOLEAN : OpenFolder(s, p)
    <2>1. pc'[s] = "cur" /\ UNCHANGED <<file, touched>> /\ Present' = Present
      BY <1>1 DEF OpenFolder, TypeOK, Present
    <2>2. \A b \in Present : file[b].dir = "cur" \/ scan'[s][b] = file[b]
      BY <1>1, <1>d DEF OpenFolder, TypeOK, ScanOf, ScanOrder, In
    <2> QED
      BY <2>1, <2>2 DEF Knows
  <1>2. CASE ScanCur(s)
    <2>1. pc[s] = "cur" /\ pc'[s] = "sync" /\ UNCHANGED <<file, touched>> /\ Present' = Present
      BY <1>2 DEF ScanCur, TypeOK, Present
    <2>2. \A b \in Bases : scan'[s][b] = IF file[b].dir = "cur" THEN file[b] ELSE scan[s][b]
      BY <1>2 DEF ScanCur, TypeOK, ScanOf, ScanOrder, In
    <2>3. \A b \in Present \ touched[s] : scan'[s][b] = file[b]
      BY <1>d, <2>1, <2>2 DEF Knows
    <2> QED
      BY <2>1, <2>3 DEF Knows
  <1>3. CASE SyncUidlist(s)
    <2>1. /\ pc[s] = "sync" /\ pc'[s] = (IF select[s] THEN "promote" ELSE "stat")
          /\ UNCHANGED <<file, scan, select, touched>> /\ Present' = Present /\ Scanned(s)' = Scanned(s)
      BY <1>3 DEF SyncUidlist, TypeOK, Present, Scanned
    <2>2. \A b \in Scanned(s) : mapping'[s].uid[b] # 0
      BY <1>3, SyncWrites DEF TypeOK
    <2>3. \A b \in Present \ touched[s] : scan[s][b] = file[b] \/ Promoted(s, b)
      BY <2>1 DEF Knows
    <2>4. \A b \in Present' \ touched'[s] :
            /\ pc'[s] = "promote" => scan'[s][b] = file'[b] \/ Promoted(s, b)'
            /\ pc'[s] = "stat" => scan'[s][b] = file'[b]
      BY <2>1, <2>3 DEF Promoted
    <2> QED
      BY <2>1, <2>2, <2>4 DEF Knows
  <1> QED
    BY <1>1, <1>2, <1>3

LEMMA KnowsStep ==
  ASSUME TypeOK, Ledger, Assigning, NEW t \in Sessions, Knows(t), [Next]_vars PROVE Knows(t)'
  <1> USE DEF disk, opening, bounds, history
  <1>a. ASSUME pc'[t] \notin Opening PROVE Knows(t)'
    BY <1>a DEF Knows, Opening
  <1>b. ASSUME UNCHANGED file, pc'[t] = pc[t], scan'[t] = scan[t], mapping'[t] = mapping[t],
               select'[t] = select[t], touched'[t] = touched[t]
        PROVE  Knows(t)'
    BY <1>b, KnowsWhenCalm DEF Present
  <1>c. ASSUME UNCHANGED <<scan, mapping, select, touched>>, pc'[t] = pc[t] \/ pc'[t] \notin Opening,
               \A b \in Present' : b \in Present /\ file'[b] = file[b]
        PROVE  Knows(t)'
    BY <1>a, <1>c, KnowsWhenCalm
  <1>1. ASSUME NEW s \in Sessions, NEW b \in Bases, Place(s, b) PROVE Knows(t)'
    <2>1. /\ pc'[t] = pc[t] \/ pc'[t] \notin Opening
          /\ UNCHANGED <<scan, mapping, select>> /\ Touch({b}, Sessions)
          /\ \A e \in Bases \ {b} : file'[e] = file[e]
      BY <1>1 DEF Place, TypeOK, Opening
    <2> QED
      BY <2>1, KnowsWhenTouched
  <1>2. ASSUME NEW s \in Sessions, AssignUid(s) \/ RenameLists(s) PROVE Knows(t)'
    <2>1. /\ UNCHANGED <<file, scan, mapping, select, touched>>
          /\ pc'[t] = pc[t] \/ pc'[t] \notin Opening
      BY <1>2 DEF AssignUid, RenameLists, TypeOK, Opening
    <2> QED
      BY <1>a, <1>b, <2>1
  <1>3. ASSUME NEW s \in Sessions, AssignFails(s) PROVE Knows(t)'
    <2>1. /\ UNCHANGED <<scan, mapping, select, touched>>
          /\ pc'[t] = pc[t] \/ pc'[t] \notin Opening
      BY <1>3 DEF AssignFails, TypeOK, Opening
    <2>2. \A b \in Present' : b \in Present /\ file'[b] = file[b]
      <3>1. base[s] \in Bases /\ file' \in {file, [file EXCEPT ![base[s]] = Nowhere]}
        BY <1>3 DEF AssignFails, Assigning
      <3>2. \A b \in Bases : file'[b] \in {file[b], Nowhere}
        BY <3>1 DEF TypeOK
      <3> QED
        BY <3>2 DEF Present, Nowhere
    <2> QED
      BY <1>c, <2>1, <2>2
  <1>4. ASSUME NEW s \in Sessions,
               \/ \E p \in BOOLEAN : OpenFolder(s, p)
               \/ ScanCur(s) \/ SyncUidlist(s) \/ Stat(s) \/ End(s)
        PROVE  Knows(t)'
    <2>1. CASE t = s
      <3>1. CASE Stat(s) \/ End(s)
        BY <1>a, <2>1, <3>1 DEF Stat, End, TypeOK, Opening
      <3> QED
        BY <1>4, <2>1, <3>1, KnowsWhenScanned
    <2>2. CASE t # s
      <3>1. /\ UNCHANGED file /\ pc'[t] = pc[t] /\ scan'[t] = scan[t]
            /\ select'[t] = select[t] /\ touched'[t] = touched[t]
        BY <1>4, <2>2 DEF OpenFolder, ScanCur, SyncUidlist, Stat, End, TypeOK
      <3>2. CASE SyncUidlist(s)
        <4>1. mapping'[t] = mapping[t]
          BY <2>2, <3>2, SyncWrites DEF TypeOK
        <4> QED
          BY <1>b, <3>1, <4>1
      <3>3. CASE ~SyncUidlist(s)
        <4>1. mapping'[t] = mapping[t]
          BY <1>4, <2>2, <3>3 DEF OpenFolder, ScanCur, Stat, End, TypeOK
        <4> QED
          BY <1>b, <3>1, <4>1
      <3> QED
        BY <3>2, <3>3
    <2> QED
      BY <2>1, <2>2
  <1>5. ASSUME NEW s \in Sessions, Promote(s) PROVE Knows(t)'
    BY <1>5, KnowsWhenPromoted
  <1>6. ASSUME NEW s \in Sessions, NEW b \in Bases, NEW new \in SUBSET Flags,
               Store(s, b, new) \/ StoreTorn(s, b, new)
        PROVE  Knows(t)'
    <2>1. PICK d \in Bases : /\ file' = [file EXCEPT ![d] = [dir |-> "cur", flags |-> new]]
                             /\ Touch({d}, Sessions)
      BY <1>6 DEF Store, StoreTorn, Named
    <2>2. UNCHANGED <<pc, scan, mapping, select>>
      BY <1>6 DEF Store, StoreTorn
    <2>3. \A e \in Bases \ {d} : file'[e] = file[e]
      BY <2>1 DEF TypeOK
    <2> QED
      BY <2>1, <2>2, <2>3, KnowsWhenTouched
  <1>7. ASSUME NEW s \in Sessions, NEW bases \in SUBSET Bases, Expunge(s, bases) \/ ExpungeTorn(s, bases)
        PROVE  Knows(t)'
    <2>1. UNCHANGED <<pc, scan, mapping, select, touched>>
      BY <1>7 DEF Expunge, ExpungeTorn
    <2>2. PICK gone \in SUBSET Bases : file' = Removed(gone)
      BY <1>7 DEF Expunge, ExpungeTorn, Named
    <2>3. \A b \in Present' : b \in Present /\ file'[b] = file[b]
      BY <2>2 DEF Present, Removed, Nowhere
    <2> QED
      BY <1>c, <2>1, <2>3
  <1>8. ASSUME NEW s \in Sessions, RenameFiles(s) PROVE Knows(t)'
    <2>1. /\ UNCHANGED <<scan, mapping, select, touched>> /\ Present' = {}
          /\ pc'[t] = pc[t] \/ pc'[t] \notin Opening
      BY <1>8 DEF RenameFiles, TypeOK, Opening, Present, Removed, Nowhere
    <2> QED
      BY <1>c, <2>1
  <1>9. ASSUME LoseList \/ UNCHANGED vars PROVE Knows(t)'
    BY <1>b, <1>9 DEF LoseList, vars
  <1> QED
    BY <1>1, <1>2, <1>3, <1>4, <1>5, <1>6, <1>7, <1>8, <1>9 DEF Next

-----------------------------------------------------------------------------
(* The theorems that need all of it *)

LEMMA FolderInit == Init => FolderInv
  <1> SUFFICES ASSUME Init PROVE FolderInv
    OBVIOUS
  <1>1. UidInv
    BY UidInit
  <1>2. \A s \in Sessions : Viewed(s) = {} /\ pc[s] = "idle"
    BY DEF Init, Viewed, NoView
  <1>3. \A s \in Sessions : Told(s) /\ Knows(s)
    BY <1>2 DEF Told, Knows, Vanished
  <1>4. OneValidity /\ OnlyNamedChanged
    BY <1>2 DEF Init, OneValidity, OnlyNamedChanged
  <1> QED
    BY <1>1, <1>3, <1>4, ToldIs, KnowsIs DEF FolderInv

LEMMA FolderStep == FolderInv /\ [Next]_vars => FolderInv'
  <1> SUFFICES ASSUME FolderInv, [Next]_vars PROVE FolderInv'
    OBVIOUS
  <1>1. UidInv /\ OneValidity /\ OnlyNamedChanged /\ TypeOK /\ Ledger /\ Assigning
    BY DEF FolderInv, UidInv
  <1>2. UidInv'
    BY <1>1, UidStep
  <1>3. \A s \in Sessions : Told(s) /\ Knows(s)
    BY ToldIs, KnowsIs DEF FolderInv
  <1>4. \A s \in Sessions : Told(s)' /\ Knows(s)'
    BY <1>1, <1>2, <1>3, ToldStep, KnowsStep
  <1>5. (ShownIsThere /\ ResyncComplete)' /\ OpenKnows'
    BY <1>4 DEF Told, Knows, ShownIsThere, ResyncComplete, VanishedComplete, ChangesTold, OpenKnows
  <1>6. OneValidity' /\ OnlyNamedChanged'
    BY <1>1, OneValidityStep, OnlyNamedStep
  <1> QED
    BY <1>2, <1>5, <1>6 DEF FolderInv

\* A client that comes back with the HIGHESTMODSEQ of its view is told of every
\* removal and of every flag change it has not seen.
THEOREM ResyncAlwaysComplete == Spec => []ResyncComplete
  <1>1. FolderInv => ResyncComplete
    BY DEF FolderInv
  <1> QED
    BY <1>1, FolderInit, FolderStep, PTL DEF Spec

\* STORE, EXPUNGE and QUIT change only messages the session was shown under
\* that UID, as long as the list is not rebuilt and INBOX not renamed.
THEOREM OnlyNamedAlwaysChanged == Spec => []OnlyNamedChanged
  <1>1. FolderInv => OnlyNamedChanged
    BY DEF FolderInv
  <1> QED
    BY <1>1, FolderInit, FolderStep, PTL DEF Spec

\* An open of the folder shows every message that nobody delivered or flagged
\* meanwhile, whatever other sessions promote or expunge.
THEOREM OpensShowAll == Spec => ViewComplete
  <1>1. FolderInv => OpenShowsAll
    <2> SUFFICES ASSUME FolderInv, NEW s \in Sessions, Stat(s), NEW b \in Present \ touched[s]
                 PROVE  view'[s].uid[b] # 0
      BY DEF OpenShowsAll
    <2>1. pc[s] = "stat" /\ b \in Bases /\ file[b].dir # "gone"
      BY DEF Stat, Present
    <2>2. scan[s][b] = file[b]
      BY <2>1 DEF FolderInv, OpenKnows
    <2>3. b \in Scanned(s)
      BY <2>1, <2>2 DEF Scanned
    <2>4. mapping[s].uid[b] # 0
      BY <2>1, <2>3 DEF FolderInv, OpenKnows
    <2>5. b \in Found(s)
      BY <2>2, <2>3, <2>4 DEF Found
    <2> QED
      BY <2>1, <2>4, <2>5 DEF Stat, FolderInv, UidInv, TypeOK
  <1>2. FolderInv => [OpenShowsAll]_vars
    BY <1>1
  <1> QED
    BY <1>2, FolderInit, FolderStep, PTL DEF Spec, ViewComplete
=============================================================================
