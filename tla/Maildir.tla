------------------------------ MODULE Maildir ------------------------------
(***************************************************************************)
(* One folder of a mailbox: the message files in new/ and cur/, the UID    *)
(* list, the log of expunged UIDs and the sessions that work on it at the  *)
(* same time (crates/imappop3/src/maildir.rs; the views are those of       *)
(* imap/session.rs and pop3/session.rs; a delivery is an LMTP session).    *)
(*                                                                         *)
(* What a caller does under the lock of the UID list is one step.  The     *)
(* scan of the folder takes no lock, so opening a folder is a sequence of  *)
(* steps that others interleave with.  A file is known by its base name    *)
(* and carries its flags in its file name.                                 *)
(***************************************************************************)
EXTENDS Naturals, FiniteSets

CONSTANTS
    Sessions,    \* IMAP, POP3 and LMTP sessions
    Bases,       \* base names of messages, unique_base
    Flags,       \* flags of a message
    Bounds       \* bounds of a behaviour: folder opens, the highest_modseq below
                 \* which STORE happens, torn operations, losses of the UID list

ASSUME BasesFinite == IsFiniteSet(Bases)
ASSUME BoundsTyped == Bounds \subseteq [opens : Nat, modseq : Nat, faults : Nat, rebuilds : Nat]

VARIABLES
    file,     \* per base: the directory and the flags in the file name
    list,     \* the UID list, .mailstack-uidlist
    log,      \* .mailstack-expunged: pairs <<uid, modseq>>
    pc,       \* what a session is doing
    scan,     \* open_folder's scanned
    mapping,  \* open_folder's mapping
    select,   \* open_folder's promote_recent
    base,     \* the message of an append in progress
    view,     \* the session's last FolderState
    fresh,    \* the last UIDVALIDITY handed out by fresh_uidvalidity
    bound,    \* the bounds of this behaviour
    opens, faults, rebuilds,
    named,    \* history: every <<uidvalidity, uid, base>> of the list
    raced,    \* history: bases that arrived while some session was scanning
    torn,     \* history: bases an operation failed on half-way, or RENAME took
    wronged,  \* history: bases changed by a session that meant another
    touched   \* history: per session, bases placed or renamed during its open

disk    == <<file, list, log>>
opening == <<scan, mapping, select>>
bounds  == <<bound, opens, faults, rebuilds>>
history == <<named, raced, torn, wronged, touched>>
vars    == <<disk, opening, bounds, history, pc, base, view, fresh>>

NoBase  == "none"
Nowhere == [dir |-> "gone", flags |-> {}]
Names   == [dir : {"gone", "new", "cur"}, flags : SUBSET Flags]

\* load_uidlist answers None for a missing or damaged list.
NoList  == [valid |-> 0, next |-> 1, top |-> 0,
            uid |-> [b \in Bases |-> 0], mod |-> [b \in Bases |-> 0]]
Lists   == [valid : Nat, next : Nat, top : Nat, uid : [Bases -> Nat], mod : [Bases -> Nat]]

\* since is the HIGHESTMODSEQ of the FolderState; a STORE advances top.
NoView  == [valid |-> 0, since |-> 0, top |-> 0, uid |-> [b \in Bases |-> 0],
            flags |-> [b \in Bases |-> {}]]
Views   == [valid : Nat, since : Nat, top : Nat, uid : [Bases -> Nat],
            flags : [Bases -> SUBSET Flags]]

Present == {b \in Bases : file[b].dir # "gone"}
In(dir) == {b \in Bases : file[b].dir = dir}
Viewed(s) == {b \in Bases : view[s].uid[b] # 0}

Init ==
    /\ file = [b \in Bases |-> Nowhere]
    /\ list = NoList
    /\ log = {}
    /\ pc = [s \in Sessions |-> "idle"]
    /\ scan = [s \in Sessions |-> [b \in Bases |-> Nowhere]]
    /\ mapping = [s \in Sessions |-> NoList]
    /\ select = [s \in Sessions |-> FALSE]
    /\ base = [s \in Sessions |-> NoBase]
    /\ view = [s \in Sessions |-> NoView]
    /\ bound \in Bounds
    /\ fresh = 0 /\ opens = 0 /\ faults = 0 /\ rebuilds = 0
    /\ named = {} /\ raced = {} /\ torn = {} /\ wronged = {}
    /\ touched = [s \in Sessions |-> {}]

-----------------------------------------------------------------------------
(* The UID list *)

Highest(l) == CHOOSE n \in {0} \cup {l.uid[b] : b \in Bases} :
                  \A b \in Bases : l.uid[b] <= n

AfterHighest(l) == Highest(l) + 1

NextUid(l) == IF \A b \in Bases : l.uid[b] < l.next THEN l.next ELSE Highest(l) + 1

LoadedUnderOldValidity == IF list.valid = 0 THEN [NoList EXCEPT !.valid = 1] ELSE list

Loaded == IF list.valid = 0 THEN [NoList EXCEPT !.valid = fresh + 1] ELSE list

\* The list with uids and modseqs for the bases of news, in some order.
Numberings(news) ==
    {f \in [news -> 1..Cardinality(news)] : \A b, d \in news : f[b] = f[d] => b = d}

Enter(l, news, f) ==
    [valid |-> l.valid,
     next  |-> NextUid(l) + Cardinality(news),
     top   |-> l.top + Cardinality(news),
     uid   |-> [b \in Bases |-> IF b \in news THEN NextUid(l) + f[b] - 1 ELSE l.uid[b]],
     mod   |-> [b \in Bases |-> IF b \in news THEN l.top + f[b] ELSE l.mod[b]]]

Retain(l, bases) ==
    [l EXCEPT !.uid = [b \in Bases |-> IF b \in bases THEN l.uid[b] ELSE 0],
              !.mod = [b \in Bases |-> IF b \in bases THEN l.mod[b] ELSE 0]]

Unlisted(l, bases) == {b \in bases : l.uid[b] = 0}

\* write_uidlist; a rebuilt list starts a new expunge log.
WriteList(l) ==
    /\ list' = l
    /\ fresh' = IF l.valid > fresh THEN l.valid ELSE fresh
    /\ log' = IF list.valid = 0 THEN {} ELSE log
    /\ named' = named \cup {<<l.valid, l.uid[b], b>> : b \in {d \in Bases : l.uid[d] # 0}}

-----------------------------------------------------------------------------
(* append_many_folders and append: the file first, then its UID *)

Opening == {"cur", "sync", "promote", "stat"}

Scanning == \E s \in Sessions : pc[s] \in {"cur", "sync"}

Touch(bases, who) ==
    touched' = [s \in Sessions |-> IF s \in who /\ pc[s] \in Opening THEN touched[s] \cup bases
                                   ELSE touched[s]]

Place(s, b) ==
    /\ pc[s] = "idle"
    /\ b \notin Present \cup torn
    /\ \A t \in named : t[3] # b
    /\ \E name \in {[dir |-> "new", flags |-> {}]} \cup [dir : {"cur"}, flags : SUBSET Flags] :
          file' = [file EXCEPT ![b] = name]
    /\ base' = [base EXCEPT ![s] = b]
    /\ pc' = [pc EXCEPT ![s] = "assign"]
    /\ raced' = IF Scanning THEN raced \cup {b} ELSE raced
    /\ Touch({b}, Sessions)
    /\ UNCHANGED <<list, log, opening, view, fresh, bounds, named, torn, wronged>>

AssignUid(s) ==
    /\ pc[s] = "assign"
    /\ LET news == Unlisted(Loaded, {base[s]}) IN
       \E f \in Numberings(news) : WriteList(Enter(Loaded, news, f))
    /\ pc' = [pc EXCEPT ![s] = "idle"]
    /\ base' = [base EXCEPT ![s] = NoBase]
    /\ UNCHANGED <<file, opening, view, bounds, raced, torn, wronged, touched>>

\* The list cannot be read or written: the file is taken back from where it
\* was placed, unless another session has renamed it since.
AssignFails(s) ==
    /\ pc[s] = "assign"
    /\ faults < bound.faults
    /\ faults' = faults + 1
    /\ file' \in {file, [file EXCEPT ![base[s]] = Nowhere]}
    /\ torn' = torn \cup {base[s]}
    /\ pc' = [pc EXCEPT ![s] = "idle"]
    /\ base' = [base EXCEPT ![s] = NoBase]
    /\ UNCHANGED <<list, log, opening, view, fresh, bound, opens, rebuilds, named, raced, wronged, touched>>

-----------------------------------------------------------------------------
(* open_folder: SELECT, EXAMINE and the POP3 login promote recent          *)
(* messages to cur/; NOOP, IDLE, STATUS and COPY do not.                   *)

CurFirst == <<"cur", "new">>

ScanOrder == <<"new", "cur">>

ScanOf(old, dir) == [b \in Bases |-> IF b \in In(dir) THEN file[b] ELSE old[b]]

OpenFolder(s, promote) ==
    /\ pc[s] = "idle"
    /\ opens < bound.opens
    /\ opens' = opens + 1
    /\ scan' = [scan EXCEPT ![s] = ScanOf([b \in Bases |-> Nowhere], ScanOrder[1])]
    /\ select' = [select EXCEPT ![s] = promote]
    /\ pc' = [pc EXCEPT ![s] = "cur"]
    /\ UNCHANGED <<disk, mapping, base, view, fresh, bound, faults, rebuilds, history>>

ScanCur(s) ==
    /\ pc[s] = "cur"
    /\ scan' = [scan EXCEPT ![s] = ScanOf(scan[s], ScanOrder[2])]
    /\ pc' = [pc EXCEPT ![s] = "sync"]
    /\ UNCHANGED <<disk, mapping, select, base, view, fresh, bounds, history>>

Scanned(s) == {b \in Bases : scan[s][b].dir # "gone"}

SyncUidlist(s) ==
    /\ pc[s] = "sync"
    /\ LET kept == Retain(Loaded, Scanned(s))
           news == Unlisted(kept, Scanned(s)) IN
       \E f \in Numberings(news) :
          /\ WriteList(Enter(kept, news, f))
          /\ mapping' = [mapping EXCEPT ![s] = Enter(kept, news, f)]
    /\ pc' = [pc EXCEPT ![s] = IF select[s] THEN "promote" ELSE "stat"]
    /\ UNCHANGED <<file, scan, select, base, view, bounds, raced, torn, wronged, touched>>

\* A file that is no longer in new/ is taken to have been promoted by
\* another session.
StaleName(b, name) == IF file[b].dir = "new" THEN [dir |-> "cur", flags |-> name.flags] ELSE name

PromotedName(b, name) == [dir |-> "cur", flags |-> name.flags]

Recent(s) == {b \in Bases : scan[s][b].dir = "new"}

Promote(s) ==
    /\ pc[s] = "promote"
    /\ file' = [b \in Bases |-> IF b \in Recent(s) /\ file[b].dir = "new"
                                THEN [dir |-> "cur", flags |-> file[b].flags] ELSE file[b]]
    /\ scan' = [scan EXCEPT ![s] = [b \in Bases |->
                   IF b \in Recent(s) THEN PromotedName(b, scan[s][b]) ELSE scan[s][b]]]
    /\ Touch(Recent(s), {t \in Sessions : ~select[t]})
    /\ pc' = [pc EXCEPT ![s] = "stat"]
    /\ UNCHANGED <<list, log, mapping, select, base, view, fresh, bounds, named, raced, torn,
                   wronged>>

\* The messages whose file is still there under the scanned name.
Found(s) == {b \in Scanned(s) : mapping[s].uid[b] # 0 /\ file[b] = scan[s][b]}

Stat(s) ==
    /\ pc[s] = "stat"
    /\ view' = [view EXCEPT ![s] =
                  [valid |-> mapping[s].valid,
                   since |-> mapping[s].top,
                   top   |-> mapping[s].top,
                   uid   |-> [b \in Bases |-> IF b \in Found(s) THEN mapping[s].uid[b] ELSE 0],
                   flags |-> [b \in Bases |-> IF b \in Found(s) THEN scan[s][b].flags ELSE {}]]]
    /\ scan' = [scan EXCEPT ![s] = [b \in Bases |-> Nowhere]]
    /\ mapping' = [mapping EXCEPT ![s] = NoList]
    /\ select' = [select EXCEPT ![s] = FALSE]
    /\ pc' = [pc EXCEPT ![s] = "idle"]
    /\ touched' = [touched EXCEPT ![s] = {}]
    /\ UNCHANGED <<disk, base, fresh, bounds, named, raced, torn, wronged>>

-----------------------------------------------------------------------------
(* set_flags and expunge: by uid, under the lock of the list.  Neither     *)
(* knows the UIDVALIDITY the session read the uid under.                   *)

Named(uids) == {b \in Bases : list.uid[b] \in uids}

Mistaken(s, bases) == {b \in bases : view[s].uid[b] # list.uid[b]}

KeepModseq(d) == list

ForgetTop(d) == [list EXCEPT !.mod = [list.mod EXCEPT ![d] = list.top + 1]]

StoreModseq(d) == [list EXCEPT !.top = list.top + 1,
                               !.mod = [list.mod EXCEPT ![d] = list.top + 1]]

\* The view of the session that stored.
Stored(v, b, new, top) ==
    [v EXCEPT !.flags = [v.flags EXCEPT ![b] = new],
              !.top = IF top > v.top THEN top ELSE v.top]

\* STORE of one message of the view; -FLAGS and +FLAGS compute new from the
\* flags of the view.
Store(s, b, new) ==
    /\ pc[s] = "idle"
    /\ view[s].uid[b] # 0
    /\ list.valid # 0 /\ list.top < bound.modseq
    /\ \E d \in Named({view[s].uid[b]}) \cap Present :
          /\ file' = [file EXCEPT ![d] = [dir |-> "cur", flags |-> new]]
          /\ list' = StoreModseq(d)
          /\ wronged' = wronged \cup Mistaken(s, {d})
          /\ Touch({d}, Sessions)
    /\ view' = [view EXCEPT ![s] = Stored(view[s], b, new, list'.top)]
    /\ UNCHANGED <<log, opening, pc, base, fresh, bounds, named, raced, torn>>

\* The file has its new name, the list could not be written.
StoreTorn(s, b, new) ==
    /\ pc[s] = "idle"
    /\ view[s].uid[b] # 0
    /\ faults < bound.faults
    /\ faults' = faults + 1
    /\ \E d \in Named({view[s].uid[b]}) \cap Present :
          /\ file' = [file EXCEPT ![d] = [dir |-> "cur", flags |-> new]]
          /\ torn' = torn \cup {d}
          /\ wronged' = wronged \cup Mistaken(s, {d})
          /\ Touch({d}, Sessions)
    /\ UNCHANGED <<list, log, opening, pc, base, view, fresh, bound, opens, rebuilds, named, raced>>

Removed(bases) ==
    [b \in Bases |-> IF b \in bases THEN Nowhere ELSE file[b]]

EventsAtTop(bases, f) == {<<list.uid[b], list.top>> : b \in bases}

\* The expunged UIDs with ascending modseqs.
Events(bases, f) == {<<list.uid[b], list.top + f[b]>> : b \in bases}

Forgotten(v, bases) ==
    [v EXCEPT !.uid   = [b \in Bases |-> IF b \in bases THEN 0 ELSE v.uid[b]],
              !.flags = [b \in Bases |-> IF b \in bases THEN {} ELSE v.flags[b]]]

\* EXPUNGE, CLOSE, MOVE, the POP3 QUIT: any messages of the view.
Expunge(s, bases) ==
    /\ pc[s] = "idle"
    /\ bases # {} /\ bases \subseteq Viewed(s)
    /\ LET gone == Named({view[s].uid[b] : b \in bases}) \cap Present IN
       \E f \in Numberings(gone) :
          /\ file' = Removed(gone)
          /\ log' = log \cup Events(gone, f)
          /\ list' = [Retain(list, Bases \ gone) EXCEPT !.top = @ + Cardinality(gone)]
          /\ wronged' = wronged \cup Mistaken(s, gone)
    /\ view' = [view EXCEPT ![s] = Forgotten(view[s], bases)]
    /\ UNCHANGED <<opening, pc, base, fresh, bounds, named, raced, torn, touched>>

\* Some files are removed and the rest fails, or the log is written and the
\* list is not.
ExpungeTorn(s, bases) ==
    /\ pc[s] = "idle"
    /\ bases # {} /\ bases \subseteq Viewed(s)
    /\ faults < bound.faults
    /\ faults' = faults + 1
    /\ LET gone == Named({view[s].uid[b] : b \in bases}) \cap Present IN
       /\ gone # {}
       /\ file' = Removed(gone)
       /\ \E f \in Numberings(gone) : log' \in {log, log \cup Events(gone, f)}
       /\ torn' = torn \cup gone
       /\ wronged' = wronged \cup Mistaken(s, gone)
    /\ UNCHANGED <<list, opening, pc, base, view, fresh, bound, opens, rebuilds, named, raced, touched>>

-----------------------------------------------------------------------------
(* The list is lost or damaged, INBOX is renamed away, a session ends *)

LoseList ==
    /\ list.valid # 0
    /\ rebuilds < bound.rebuilds
    /\ rebuilds' = rebuilds + 1
    /\ list' = NoList
    /\ UNCHANGED <<file, log, opening, pc, base, view, fresh, bound, opens, faults, history>>

\* RENAME INBOX moves the files and then the list and the log, without the lock.
RenameFiles(s) ==
    /\ pc[s] = "idle"
    /\ rebuilds < bound.rebuilds
    /\ rebuilds' = rebuilds + 1
    /\ file' = Removed(Bases)
    /\ torn' = torn \cup Present
    /\ pc' = [pc EXCEPT ![s] = "rename"]
    /\ UNCHANGED <<list, log, opening, base, view, fresh, bound, opens, faults, named, raced, wronged, touched>>

RenameLists(s) ==
    /\ pc[s] = "rename"
    /\ list' = NoList
    /\ log' = {}
    /\ pc' = [pc EXCEPT ![s] = "idle"]
    /\ UNCHANGED <<file, opening, base, view, fresh, bounds, history>>

\* The client leaves or the process dies, between any two steps.
End(s) ==
    /\ pc[s] # "idle" \/ view[s] # NoView
    /\ pc' = [pc EXCEPT ![s] = "idle"]
    /\ base' = [base EXCEPT ![s] = NoBase]
    /\ view' = [view EXCEPT ![s] = NoView]
    /\ scan' = [scan EXCEPT ![s] = [b \in Bases |-> Nowhere]]
    /\ mapping' = [mapping EXCEPT ![s] = NoList]
    /\ select' = [select EXCEPT ![s] = FALSE]
    /\ touched' = [touched EXCEPT ![s] = {}]
    /\ UNCHANGED <<disk, fresh, bounds, named, raced, torn, wronged>>

-----------------------------------------------------------------------------
Next ==
    \/ \E s \in Sessions :
          \/ \E b \in Bases : Place(s, b)
          \/ AssignUid(s)
          \/ AssignFails(s)
          \/ \E promote \in BOOLEAN : OpenFolder(s, promote)
          \/ ScanCur(s)
          \/ SyncUidlist(s)
          \/ Promote(s)
          \/ Stat(s)
          \/ \E b \in Bases, new \in SUBSET Flags : Store(s, b, new)
          \/ \E b \in Bases, new \in SUBSET Flags : StoreTorn(s, b, new)
          \/ \E bases \in SUBSET Bases : Expunge(s, bases)
          \/ \E bases \in SUBSET Bases : ExpungeTorn(s, bases)
          \/ RenameFiles(s)
          \/ RenameLists(s)
          \/ End(s)
    \/ LoseList

Spec == Init /\ [][Next]_vars

-----------------------------------------------------------------------------
\* What load_uidlist insists on; any other list is thrown away and rebuilt.
Loadable(l) ==
    /\ \A b \in Bases : l.uid[b] < l.next /\ l.mod[b] <= l.top
    /\ \A b \in Bases : (l.uid[b] = 0) = (l.mod[b] = 0)
    /\ \A b, d \in Bases : l.uid[b] = l.uid[d] /\ l.uid[b] # 0 => b = d

\* Types, and that every list on disk is one the next load_uidlist accepts:
\* otherwise the folder is renumbered under every client's feet.
TypeOK ==
    /\ file \in [Bases -> Names]
    /\ list \in Lists /\ Loadable(list)
    /\ log \subseteq Nat \X Nat
    /\ pc \in [Sessions -> {"idle", "assign", "cur", "sync", "promote", "stat", "rename"}]
    /\ scan \in [Sessions -> [Bases -> Names]]
    /\ mapping \in [Sessions -> Lists]
    /\ select \in [Sessions -> BOOLEAN]
    /\ base \in [Sessions -> Bases \cup {NoBase}]
    /\ view \in [Sessions -> Views]
    /\ fresh \in Nat /\ {opens, faults, rebuilds} \subseteq Nat /\ bound \in Bounds
    /\ named \subseteq Nat \X Nat \X Bases
    /\ raced \subseteq Bases /\ torn \subseteq Bases /\ wronged \subseteq Bases
    /\ touched \in [Sessions -> SUBSET Bases]

\* Within one UIDVALIDITY a UID never comes to mean a second message, however
\* deliveries, expunges, stale scans and rebuilds of the list interleave
\* (uidnext only grows).
UidsNeverReused ==
    \A n, k \in named : n[1] = k[1] /\ n[2] = k[2] => n[3] = k[3]

\* A message keeps its UID for as long as its UIDVALIDITY lasts, unless it was
\* delivered while some session was scanning the folder: promotions from new/
\* to cur/ and flag renames during a scan never hide it from sync_uidlist.
UidKept ==
    \A n, k \in named : n[1] = k[1] /\ n[3] = k[3] /\ n[2] # k[2]
        => n[3] \in raced \/ n[3] \notin Present

\* UidKept without the exception, as a test of the repository states it.
UidStable ==
    \A n, k \in named : n[1] = k[1] /\ n[3] = k[3] /\ n[2] # k[2] => n[3] \notin Present

ExpungedSince(m) == {e[1] : e \in {x \in log : x[2] > m}}

Vanished(s) ==
    {b \in Viewed(s) : view[s].valid = list.valid /\ list.uid[b] # view[s].uid[b]}

\* Every message a session has seen and that is gone from the list since is
\* in the answer of expunged_since for the HIGHESTMODSEQ of its view: a
\* client that resynchronises learns of every removal.
VanishedComplete ==
    \A s \in Sessions : \A b \in Vanished(s) \ (raced \cup torn) :
        view[s].uid[b] \in ExpungedSince(view[s].since)

\* Every flag change a session has not seen carries a modseq above the one
\* of its view, so that CHANGEDSINCE finds it.
ChangesTold ==
    \A s \in Sessions : \A b \in (Viewed(s) \cap Present) \ torn :
        view[s].valid = list.valid /\ list.uid[b] = view[s].uid[b]
            /\ view[s].flags[b] # file[b].flags
        => list.mod[b] > view[s].since

\* Whatever other sessions do in between, STORE, EXPUNGE and QUIT change only
\* messages the session was shown under that UID, unless the list was rebuilt
\* or INBOX renamed: set_flags and expunge do not look at the UIDVALIDITY.
OnlyNamedChanged == rebuilds = 0 => wronged = {}

\* An open of the folder shows every message that nobody delivered or flagged
\* meanwhile; a SELECT also the ones that another session promotes from new/
\* under its hands.
OpenShowsAll ==
    \A s \in Sessions : Stat(s) => \A b \in Present \ touched[s] : view'[s].uid[b] # 0
ViewComplete == [][OpenShowsAll]_vars

\* Within one UIDVALIDITY a UID stands for one message and a message keeps
\* its UID, as far as the two statements above promise it.
UidsStand == UidsNeverReused /\ UidKept

\* A client that comes back with the HIGHESTMODSEQ of its view is told of
\* every removal and of every flag change it has not seen.
ResyncComplete == VanishedComplete /\ ChangesTold
=============================================================================
