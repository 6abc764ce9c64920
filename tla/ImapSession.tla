---------------------------- MODULE ImapSession ----------------------------
(***************************************************************************)
(* One IMAP session (crates/imappop3/src/imap/session.rs) of a user whose  *)
(* resolver knows the mailbox of this user and that of a second one, the   *)
(* peer, who may have granted rights on folders.  Deliveries, other        *)
(* sessions and the peer change the folders between any two commands.      *)
(*                                                                         *)
(* A place is a folder of a store; "spare" is the placeholder store the    *)
(* daemon starts a session with.  UIDs ascend over all places, so that a   *)
(* UID names one message.  client is what the client deduces from the      *)
(* untagged responses: which UID each sequence number stands for.          *)
(***************************************************************************)
EXTENDS Naturals, Sequences, FiniteSets, SequencesExt

CONSTANTS
    Folders,       \* folder names, "INBOX" among them
    Uids,          \* 1..n, the messages there can be
    Grants,        \* the sets of rights the peer grants
    MaxFailures,   \* max_auth_failures
    RequireTls,    \* require_tls
    MaxChanges,    \* bound: changes of the mailboxes
    MaxFaults      \* bound: failing expunges, logs and listings

VARIABLES
    imap,     \* the session
    client,   \* the client's numbering
    box,      \* per place, the UIDs in it
    mark,     \* per UID, its flags
    places,   \* the places that exist
    valid,    \* per place, its UIDVALIDITY
    acl,      \* per folder of the peer, the rights of this user
    next,     \* the next UID
    changes, faults,
    missed,   \* history: a refresh left out a message that was there
    opened,   \* history: the place of the last successful SELECT
    torn,     \* history: a SELECT stopped half-way
    granted,  \* history: a shared SELECT was granted
    slips     \* history: changes of the peer's store nobody granted

mail == <<box, mark, places, valid, next>>
history == <<missed, opened, torn, granted, slips>>
vars == <<imap, client, mail, acl, changes, faults, history>>

Stores == {"own", "peer", "spare"}
AllPlaces == Stores \X Folders
NoOne == "none"
Unmarked == [u \in Uids |-> {}]

\* ImapSession and its View: the UIDs, and the flags as last read.
NewSession(tls) ==
    [phase |-> "out", tls |-> tls, fails |-> 0, store |-> "spare", own |-> "spare",
     owner |-> NoOne, folder |-> "INBOX", write |-> FALSE, view |-> {}, valid |-> 0,
     flags |-> Unmarked, qresync |-> FALSE, idle |-> FALSE]

Closed == [NewSession(FALSE) EXCEPT !.phase = "closed"]

Init ==
    /\ imap \in {NewSession(t) : t \in BOOLEAN}
    /\ client = <<>>
    /\ box = [p \in AllPlaces |-> CASE p = <<"own", "INBOX">> -> {1, 2}
                                    [] p = <<"peer", "INBOX">> -> {3} [] OTHER -> {}]
    /\ mark = [u \in Uids |-> IF u < 3 THEN {"Deleted"} ELSE {}]
    /\ places = {p \in AllPlaces : p[1] # "own" \/ p[2] = "INBOX"}
    /\ valid = [p \in AllPlaces |-> 1]
    /\ acl \in [Folders -> Grants]
    /\ next = 4 /\ changes = 0 /\ faults = 0
    /\ missed = FALSE /\ opened = <<"spare", "INBOX">> /\ torn = FALSE
    /\ granted = FALSE /\ slips = {}

-----------------------------------------------------------------------------
(* Names, rights, and the way back to the personal store *)

\* A name without the shared prefix is a folder of the store in use.
Resolve(shared, f) == IF shared THEN [place |-> <<"peer", f>>, owner |-> "peer"]
                                ELSE [place |-> <<imap.store, f>>, owner |-> NoOne]

HasRights(owner, f, rights) == owner = NoOne \/ rights \subseteq acl[f]

MaySelectUnasked(r) == TRUE

MaySelect(r) == HasRights(r.owner, r.place[2], {"l", "r"})

SelectedRights(right) == HasRights(imap.owner, imap.folder, {right})

Ready == ~imap.idle
Selected == imap.phase = "selected" /\ Ready
LoggedIn == imap.phase \in {"in", "selected"} /\ Ready
Place == <<imap.store, imap.folder>>

DeselectedKeepingStore(s) ==
    [s EXCEPT !.phase = IF @ = "selected" THEN "in" ELSE @, !.owner = NoOne,
              !.view = {}, !.valid = 0, !.flags = Unmarked]

Deselected(s) ==
    [s EXCEPT !.phase = IF @ = "selected" THEN "in" ELSE @, !.store = s.own, !.owner = NoOne,
              !.view = {}, !.valid = 0, !.flags = Unmarked]

\* A step that may change a place: counted, and recorded when it reaches the
\* peer's store though nothing was ever granted.
Change(what, place, asked) ==
    /\ changes < MaxChanges
    /\ changes' = changes + 1
    /\ slips' = IF place[1] = "peer" /\ ~asked /\ ~granted THEN slips \cup {<<what, place>>} ELSE slips

Fault == faults < MaxFaults /\ faults' = faults + 1

Quiet == UNCHANGED <<client, mail, acl, changes, faults, history>>

-----------------------------------------------------------------------------
(* Login *)

CanAuthenticate == imap.phase = "out" /\ (imap.tls \/ ~RequireTls)

\* The connection is upgraded and served by a new session.
StartTls == imap.phase = "out" /\ ~imap.tls /\ imap' = NewSession(TRUE) /\ Quiet

AuthFailure ==
    /\ CanAuthenticate
    /\ imap' = IF imap.fails + 1 >= MaxFailures THEN Closed ELSE [imap EXCEPT !.fails = @ + 1]
    /\ Quiet

\* A mailbox that is not provisioned leaves the session where it was.
FinishAuthentication(provisioned) ==
    /\ CanAuthenticate
    /\ imap' = IF provisioned
               THEN [imap EXCEPT !.fails = 0, !.phase = "in", !.store = "own", !.own = "own"]
               ELSE [imap EXCEPT !.fails = 0]
    /\ Quiet

\* SCRAM asks no resolver: the session stays on the placeholder store.
Scram == CanAuthenticate /\ imap' = [imap EXCEPT !.fails = 0, !.phase = "in"] /\ Quiet

EnableQresync == LoggedIn /\ imap' = [imap EXCEPT !.qresync = TRUE] /\ Quiet

-----------------------------------------------------------------------------
(* What the client is told *)

Numbering(uids) == SetToSortSeq(uids, <)

\* Sequence numbers are positions in the session's view.
Positions(uids) == {i \in 1..Cardinality(imap.view) : Numbering(imap.view)[i] \in uids}

ReportUpwards(positions) == SetToSortSeq(positions, <)

\* EXPUNGE responses are sent from the highest sequence number down.
ReportOrder(positions) == SetToSortSeq(positions, >)

Drop(list, n) == IF n \in DOMAIN list THEN RemoveAt(list, n) ELSE list

\* VANISHED names UIDs, EXPUNGE sequence numbers.
Told(gone) ==
    IF imap.qresync THEN SelectSeq(client, LAMBDA u : u \notin gone)
                    ELSE FoldLeft(Drop, client, ReportOrder(Positions(gone)))

\* EXISTS: the client numbers what is new after what it has.
Extended(list, uids) == list \o SubSeq(Numbering(uids), Len(list) + 1, Cardinality(uids))

\* The session reads folder f of its store again, where it finds the given
\* UIDs, flags and UIDVALIDITY.
Reread(f, uids, flags, v) ==
    /\ client' = IF v # imap.valid THEN Numbering(uids) ELSE Extended(Told(imap.view \ uids), uids)
    /\ imap' = [imap EXCEPT !.folder = f, !.view = uids, !.valid = v,
                            !.flags = [u \in Uids |-> IF u \in uids THEN flags[u] ELSE {}]]

\* NOOP and the polls of IDLE.  A message another session renames while the
\* folder is read is left out.
Refresh(left) ==
    /\ imap.phase = "selected" /\ Place \in places
    /\ left \subseteq imap.view \cap box[Place]
    /\ IF left = {} THEN UNCHANGED faults ELSE Fault
    /\ Reread(imap.folder, box[Place] \ left, mark, valid[Place])
    /\ missed' = (missed \/ left # {})
    /\ UNCHANGED <<mail, acl, changes, opened, torn, granted, slips>>

-----------------------------------------------------------------------------
(* Selecting *)

Select(shared, f, write) ==
    LET r == Resolve(shared, f) IN
    /\ LoggedIn
    /\ IF MaySelect(r) /\ r.place \in places
       THEN /\ imap' = [imap EXCEPT !.phase = "selected", !.store = r.place[1], !.owner = r.owner,
                          !.folder = f, !.write = write, !.view = box[r.place],
                          !.valid = valid[r.place],
                          !.flags = [u \in Uids |-> IF u \in box[r.place] THEN mark[u] ELSE {}]]
            /\ client' = Numbering(box[r.place])
            /\ opened' = r.place
            /\ granted' = (granted \/ (shared /\ {"l", "r"} \subseteq acl[f]))
       ELSE imap' = Deselected(imap) /\ client' = <<>> /\ UNCHANGED <<opened, granted>>
    /\ missed' = FALSE
    /\ UNCHANGED <<mail, acl, changes, faults, torn, slips>>

\* SELECT with QRESYNC: the expunge log cannot be read after the store was
\* switched; the view of before stays.
SelectTorn(shared, f) ==
    LET r == Resolve(shared, f) IN
    /\ LoggedIn /\ imap.qresync
    /\ MaySelect(r) /\ r.place \in places
    /\ Fault
    /\ imap' = [imap EXCEPT !.store = r.place[1], !.owner = r.owner]
    /\ torn' = TRUE
    /\ granted' = (granted \/ (shared /\ {"l", "r"} \subseteq acl[f]))
    /\ UNCHANGED <<client, mail, acl, changes, missed, opened, slips>>

Unselect ==
    /\ Selected
    /\ imap' = Deselected(imap)
    /\ client' = <<>>
    /\ UNCHANGED <<mail, acl, changes, faults, history>>

-----------------------------------------------------------------------------
(* Folders: names with the shared prefix are refused, others are folders   *)
(* of the store in use.                                                    *)

Create(f) ==
    LET p == <<imap.store, f>> IN
    /\ LoggedIn /\ p \notin places
    /\ Change("create", p, FALSE)
    /\ places' = places \cup {p}
    /\ UNCHANGED <<imap, client, box, mark, valid, next, acl, faults, missed, opened, torn, granted>>

Delete(f) ==
    LET p == <<imap.store, f>> IN
    /\ LoggedIn /\ p \in places /\ f # "INBOX"
    /\ imap.phase = "selected" => imap.folder # f
    /\ Change("delete", p, FALSE)
    /\ places' = places \ {p}
    /\ box' = [box EXCEPT ![p] = {}]
    /\ UNCHANGED <<imap, client, mark, valid, next, acl, faults, missed, opened, torn, granted>>

\* RENAME of INBOX moves its messages and leaves an empty INBOX.
Rename(f, g) ==
    LET from == <<imap.store, f>>
        to   == <<imap.store, g>>
        kept == IF f = "INBOX" THEN f ELSE g IN
    /\ LoggedIn /\ from \in places /\ to \notin places
    /\ Change("rename", from, FALSE)
    /\ places' = (IF f = "INBOX" THEN places ELSE places \ {from}) \cup {to}
    /\ box' = [box EXCEPT ![to] = box[from], ![from] = {}]
    /\ valid' = IF f = "INBOX" THEN [valid EXCEPT ![from] = @ + 1, ![to] = @ + 1]
                               ELSE [valid EXCEPT ![to] = valid[from]]
    /\ IF imap.phase = "selected" /\ imap.folder = f
       THEN /\ Reread(kept, box'[<<imap.store, kept>>], mark, valid'[<<imap.store, kept>>])
            /\ opened' = IF opened = from THEN <<imap.store, kept>> ELSE opened
       ELSE UNCHANGED <<imap, client, opened>>
    /\ UNCHANGED <<mark, next, acl, faults, missed, torn, granted>>

-----------------------------------------------------------------------------
(* Messages *)

News(n) == next..(next + n - 1)

\* The messages enter a place in the order of their UIDs, with their flags.
CopyInto(place, uids, left) ==
    LET n == Cardinality(uids) IN
    /\ News(n) \subseteq Uids
    /\ next' = next + n
    /\ box' = [box EXCEPT ![place] = @ \cup News(n), ![Place] = left]
    /\ mark' = [u \in Uids |-> IF u \in News(n) THEN mark[Numbering(uids)[u - next + 1]] ELSE mark[u]]

\* The selected folder is refreshed when it has the name of the target.
RefreshIfNamed(f, uids) ==
    IF imap.phase = "selected" /\ imap.folder = f /\ Place \in places
    THEN Reread(f, uids, mark', valid[Place])
    ELSE UNCHANGED <<imap, client>>

AppendMessage(shared, f) ==
    LET r == Resolve(shared, f) IN
    /\ LoggedIn
    /\ ~(imap.phase = "selected" /\ ~shared /\ imap.folder = f /\ ~imap.write)
    /\ HasRights(r.owner, f, {"i"}) /\ r.place \in places
    /\ Change("append", r.place, shared)
    /\ next \in Uids /\ next' = next + 1
    /\ box' = [box EXCEPT ![r.place] = @ \cup {next}]
    /\ mark' = mark
    /\ RefreshIfNamed(f, box'[Place])
    /\ UNCHANGED <<places, valid, acl, faults, missed, opened, torn, granted>>

\* set_flags on one message of the view; each message of a set is a step.
SetFlags(u, flags) ==
    /\ u \in imap.view \cap box[Place] /\ Place \in places
    /\ mark' = [mark EXCEPT ![u] = flags]
    /\ imap' = [imap EXCEPT !.flags[u] = flags]
    /\ UNCHANGED <<client, box, places, valid, next, acl, faults, missed, opened, torn, granted>>

\* FETCH of a body, also in a read-only mailbox.
FetchBody(u) ==
    /\ Selected /\ "Seen" \notin imap.flags[u]
    /\ Change("seen", Place, FALSE)
    /\ SetFlags(u, imap.flags[u] \cup {"Seen"})

Store(u, mode) ==
    /\ Selected /\ imap.write /\ SelectedRights("w")
    /\ Change("store", Place, FALSE)
    /\ SetFlags(u, CASE mode = "add" -> imap.flags[u] \cup {"Deleted"}
                     [] mode = "remove" -> imap.flags[u] \ {"Deleted"}
                     [] mode = "replace" -> {"Deleted"})

MarkedInView == {u \in imap.view : "Deleted" \in imap.flags[u]}

WithoutUids(s, uids) ==
    [s EXCEPT !.view = @ \ uids, !.flags = [u \in Uids |-> IF u \in uids THEN {} ELSE s.flags[u]]]

\* EXPUNGE, and UID EXPUNGE with a set.
Expunge(uids) ==
    /\ Selected /\ imap.write /\ SelectedRights("t")
    /\ uids # {} /\ uids \subseteq MarkedInView /\ Place \in places
    /\ Change("expunge", Place, FALSE)
    /\ box' = [box EXCEPT ![Place] = @ \ uids]
    /\ client' = Told(uids)
    /\ imap' = WithoutUids(imap, uids)
    /\ UNCHANGED <<mark, places, valid, next, acl, faults, missed, opened, torn, granted>>

Close ==
    /\ Selected
    /\ imap.write => SelectedRights("t")
    /\ IF imap.write /\ MarkedInView # {}
       THEN /\ Place \in places /\ Change("expunge", Place, FALSE)
            /\ box' = [box EXCEPT ![Place] = @ \ MarkedInView]
       ELSE UNCHANGED <<box, changes, slips>>
    /\ imap' = Deselected(imap)
    /\ client' = <<>>
    /\ UNCHANGED <<mark, places, valid, next, acl, faults, missed, opened, torn, granted>>

\* COPY and MOVE stay within one store.
Destination(uids, shared, f) ==
    LET r == Resolve(shared, f) IN
    /\ uids # {} /\ uids \subseteq imap.view \cap box[Place]
    /\ HasRights(r.owner, f, {"i"})
    /\ r.place[1] = imap.store /\ r.place \in places

Copy(uids, shared, f) ==
    /\ Selected /\ Destination(uids, shared, f)
    /\ Change("copy", <<imap.store, f>>, shared)
    /\ CopyInto(<<imap.store, f>>, uids, box[Place] \cup (IF f = imap.folder THEN News(Cardinality(uids)) ELSE {}))
    /\ RefreshIfNamed(f, box'[Place])
    /\ UNCHANGED <<places, valid, acl, faults, missed, opened, torn, granted>>

Move(uids, shared, f) ==
    /\ Selected /\ imap.write /\ Destination(uids, shared, f) /\ f # imap.folder
    /\ Change("move", Place, FALSE)
    /\ CopyInto(<<imap.store, f>>, uids, box[Place] \ uids)
    /\ client' = Told(uids)
    /\ imap' = WithoutUids(imap, uids)
    /\ UNCHANGED <<places, valid, acl, faults, missed, opened, torn, granted>>

\* The expunge of a MOVE fails after it removed some files; the copies are
\* taken back all the same.
MoveTorn(uids, shared, f, gone) ==
    /\ Selected /\ imap.write /\ Destination(uids, shared, f) /\ f # imap.folder
    /\ gone \subseteq uids
    /\ Fault /\ Change("move", Place, FALSE)
    /\ News(Cardinality(uids)) \subseteq Uids /\ next' = next + Cardinality(uids)
    /\ box' = [box EXCEPT ![Place] = @ \ gone]
    /\ UNCHANGED <<imap, client, mark, places, valid, acl, missed, opened, torn, granted>>

\* SETACL and DELETEACL; the rights of an owner cannot be changed.
SetAcl(shared, f, rights) ==
    LET r == Resolve(shared, f) IN
    /\ LoggedIn /\ HasRights(r.owner, f, {"a"}) /\ r.place \in places
    /\ r.place[1] = "peer"
    /\ Change("setacl", r.place, shared)
    /\ acl' = [acl EXCEPT ![f] = rights]
    /\ UNCHANGED <<imap, client, mail, faults, missed, opened, torn, granted>>

Idle == Selected /\ imap' = [imap EXCEPT !.idle = TRUE] /\ Quiet

IdleEnds(timeout) ==
    /\ imap.idle /\ imap.phase = "selected"
    /\ imap' = IF timeout THEN Closed ELSE [imap EXCEPT !.idle = FALSE]
    /\ Quiet

\* LOGOUT, a read timeout, a parse error, or the client leaves.
Leave == imap.phase # "closed" /\ imap' = Closed /\ Quiet

-----------------------------------------------------------------------------
(* Everybody else *)

Others == imap.phase # "closed" /\ changes < MaxChanges /\ changes' = changes + 1
          /\ UNCHANGED <<imap, client, places, valid, faults, history>>

Deliver(p) ==
    /\ Others
    /\ p \in {<<"own", "INBOX">>, <<"peer", "INBOX">>} /\ next \in Uids
    /\ box' = [box EXCEPT ![p] = @ \cup {next}]
    /\ next' = next + 1
    /\ UNCHANGED <<mark, acl>>

OthersExpunge(p, u) ==
    /\ Others
    /\ u \in box[p]
    /\ box' = [box EXCEPT ![p] = @ \ {u}]
    /\ UNCHANGED <<mark, next, acl>>

OthersStore(p, u) ==
    /\ Others
    /\ u \in box[p] /\ mark' = [mark EXCEPT ![u] = @ \cup {"Deleted"}]
    /\ UNCHANGED <<box, next, acl>>

PeerGrants(f, rights) ==
    /\ Others
    /\ acl' = [acl EXCEPT ![f] = rights]
    /\ UNCHANGED <<box, mark, next>>

-----------------------------------------------------------------------------
Next ==
    \/ StartTls \/ AuthFailure \/ Scram \/ EnableQresync \/ Unselect \/ Close \/ Idle \/ Leave
    \/ \E b \in BOOLEAN : FinishAuthentication(b) \/ IdleEnds(b)
    \/ \E left \in SUBSET imap.view : Refresh(left)
    \/ \E shared \in BOOLEAN, f \in Folders :
          \/ \E write \in BOOLEAN : Select(shared, f, write)
          \/ SelectTorn(shared, f)
          \/ AppendMessage(shared, f)
          \/ \E rights \in Grants : SetAcl(shared, f, rights)
          \/ \E uids \in SUBSET imap.view :
                \/ Copy(uids, shared, f)
                \/ Move(uids, shared, f)
                \/ \E gone \in SUBSET uids : MoveTorn(uids, shared, f, gone)
    \/ \E f \in Folders : Create(f) \/ Delete(f) \/ \E g \in Folders : Rename(f, g)
    \/ \E u \in imap.view : FetchBody(u) \/ \E mode \in {"add", "remove", "replace"} : Store(u, mode)
    \/ \E uids \in SUBSET imap.view : Expunge(uids)
    \/ \E p \in AllPlaces : Deliver(p) \/ \E u \in box[p] : OthersExpunge(p, u) \/ OthersStore(p, u)
    \/ \E f \in Folders, rights \in Grants : PeerGrants(f, rights)

Spec == Init /\ [][Next]_vars

-----------------------------------------------------------------------------
\* The client's numbering is the session's: replaying the EXPUNGE, VANISHED
\* and EXISTS responses of refresh_selected, EXPUNGE and MOVE gives the view,
\* whatever others did in between, so that a command with sequence numbers
\* means the messages the client means.  The exception is a message that
\* open_folder left out and that comes back in the middle of the view.
SequenceNumbersAgree ==
    imap.phase = "selected" /\ ~missed /\ ~torn => client = Numbering(imap.view)

\* The session works on the folder the client opened: in the selected state
\* on its store and name, otherwise on the personal store and with nobody
\* else's rights.  Only a SELECT that stops half-way breaks this.
WorksWhereItSays ==
    ~torn /\ imap.phase \in {"in", "selected"} =>
        IF imap.phase = "selected" THEN Place = opened ELSE imap.store = imap.own /\ imap.owner = NoOne

\* Nobody changes anything in another user's store unless that user granted
\* the right of the command, or lookup and read for a SELECT before: what a
\* session may do with a plain name then is not looked at again.
OutsidersKeptOut == slips = {}

\* Structural operations never reach a mailbox of another user.
StructureProtected ==
    [][\A p \in AllPlaces : p[1] = "peer" => (p \in places <=> p \in places')]_vars

=============================================================================
