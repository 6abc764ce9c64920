------------------------------- MODULE Webmail -------------------------------
(***************************************************************************)
(* The webmail service: what the requests of a user's browser tabs do to   *)
(* the user's folders and to the outbound queue (crates/webmail:           *)
(* maildir_service.rs, send.rs, http/handlers.rs).                         *)
(*                                                                         *)
(* One call into the mail store is one step (module Maildir has its inside)*)
(* and a request is several calls: the folder is opened, each message is   *)
(* copied or flagged, then the originals are expunged.  Deliveries and the *)
(* other tab's requests come between them, and any call may fail.  The     *)
(* content of a message is a letter; a copy is the same letter.            *)
(***************************************************************************)
EXTENDS Integers, FiniteSets, Functions

CONSTANTS
    Tabs,
    Names,              \* folder names; "INBOX", "Drafts" and "Sent" among them
    MaxLetters, MaxRequests, MaxFaults      \* bounds

VARIABLES
    folders,            \* name -> its uidvalidity, next uid and messages
    queue,              \* letters in the outbound queue
    request,            \* each tab's request under way
    shown,              \* what each tab's last listing showed
    draft,              \* the draft each tab is editing, as it was told
    letters, validity, requests, faults,    \* counters
    stored,             \* letters that have been put into a folder
    asked,              \* letters somebody asked to delete or replace
    mistaken,           \* letters removed by a uid of an earlier folder of that name
    swept               \* letters that were in a folder when it was deleted

webmailVars == <<folders, queue, request, shown, draft, letters, validity, requests, faults, stored, asked, mistaken, swept>>
counters == <<letters, validity, requests, faults>>
history == <<stored, asked, mistaken, swept>>

NoRequest == [op |-> "none"]
NoDraft == [folder |-> "Drafts", validity |-> 0, uid |-> 0, letter |-> 0]
NoMail == [u \in {} |-> 0]
NewFolder(v) == [validity |-> v, next |-> 1, mail |-> NoMail]

WebmailInit ==
    /\ folders = [f \in {"INBOX", "Work"} |-> NewFolder(1)]
    /\ queue = {}
    /\ request = [t \in Tabs |-> NoRequest]
    /\ shown = [t \in Tabs |-> {}] /\ draft = [t \in Tabs |-> NoDraft]
    /\ letters = 0 /\ validity = 1 /\ requests = 0 /\ faults = 0
    /\ stored = {} /\ asked = {} /\ mistaken = {} /\ swept = {}

Exists(f) == f \in DOMAIN folders
Uids(f) == IF Exists(f) THEN DOMAIN folders[f].mail ELSE {}

\* MailStore::append, ::expunge and ::create as seen from here.
With(fs, f, letter, flags) ==
    [fs EXCEPT ![f].mail = [u \in DOMAIN @ \cup {fs[f].next} |->
                               IF u = fs[f].next THEN [letter |-> letter, flags |-> flags] ELSE @[u]],
               ![f].next = @ + 1]
Without(fs, f, uids) == [fs EXCEPT ![f].mail = Restrict(@, DOMAIN @ \ uids)]
Created(fs, f, v) == [g \in DOMAIN fs \cup {f} |-> IF g = f THEN NewFolder(v) ELSE fs[g]]

Begin(t, r) ==
    /\ request[t] = NoRequest /\ requests < MaxRequests
    /\ request' = [request EXCEPT ![t] = r]
    /\ requests' = requests + 1
    /\ UNCHANGED <<folders, queue, shown, draft, letters, validity, faults, history>>

Goes(t, r) == request' = [request EXCEPT ![t] = r]
End(t) == Goes(t, NoRequest)

\* A call of the store fails; the request is answered with the error, or, when the
\* message is already queued, with a warning.
Fails(t) ==
    /\ request[t].op # "none" /\ faults < MaxFaults
    /\ faults' = faults + 1
    /\ End(t)
    /\ UNCHANGED <<folders, queue, shown, draft, letters, validity, requests, history>>

-----------------------------------------------------------------------------
(* Reading, and mail that arrives.                                         *)

Deliver ==
    /\ letters < MaxLetters
    /\ letters' = letters + 1
    /\ folders' = With(folders, "INBOX", letters + 1, {})
    /\ stored' = stored \cup {letters + 1}
    /\ UNCHANGED <<queue, request, shown, draft, validity, requests, faults, asked, mistaken, swept>>

\* list_messages: the uids the page will act on.
ListMessages(t, f) ==
    /\ Exists(f) /\ request[t] = NoRequest
    /\ shown' = [shown EXCEPT ![t] = {[folder |-> f, validity |-> folders[f].validity, uid |-> u,
                                       letter |-> folders[f].mail[u].letter] : u \in Uids(f)}]
    /\ UNCHANGED <<folders, queue, request, draft, counters, history>>

-----------------------------------------------------------------------------
(* Requests about messages.  move_message, delete_message and patch_flags  *)
(* name one message, batch names several of one folder.                    *)

\* What the user is asking to delete is the letters the page showed.
AskMessages(t, op, marks, target) ==
    /\ marks # {} /\ marks \subseteq shown[t]
    /\ \E f \in Names : \A k \in marks : k.folder = f
    /\ LET f == (CHOOSE k \in marks : TRUE).folder
       IN Begin(t, [op |-> "open", do |-> op, folder |-> f, uids |-> {k.uid : k \in marks},
                    target |-> target, marks |-> marks, left |-> {}, seen |-> NoMail])

\* open_folder: the uids that are not there are left out; a missing target ends it.
OpenFolder(t) ==
    LET r == request[t]
        uids == r.uids \cap Uids(r.folder)
    IN /\ r.op = "open"
       /\ IF uids = {} \/ (r.do \in {"move", "copy"} /\ ~Exists(r.target)) THEN End(t)
          ELSE Goes(t, [r EXCEPT !.op = "each", !.uids = uids, !.left = uids,
                                 !.seen = Restrict(folders[r.folder].mail, uids)])
       /\ asked' = IF r.do = "delete" /\ uids # {} THEN asked \cup {k.letter : k \in r.marks} ELSE asked
       /\ UNCHANGED <<folders, queue, shown, draft, counters, stored, mistaken, swept>>

\* A loop that goes on to the expunge.
ExpungeRegardless(t, r) == Goes(t, [r EXCEPT !.op = "expunge"])

\* Where the loop goes when a message is missing or a call fails: the originals stay.
AfterMissing(t, r) == End(t)

\* copy_many reads and appends message by message.  A mark is struck off when its
\* copy is made from a later folder of that name.
CopyOne(t, u) ==
    LET r == request[t]
    IN /\ r.op = "each" /\ r.do \in {"move", "copy"} /\ u \in r.left
       /\ IF u \in Uids(r.folder) /\ Exists(r.target)
          THEN /\ folders' = With(folders, r.target, folders[r.folder].mail[u].letter, folders[r.folder].mail[u].flags)
               /\ Goes(t, [r EXCEPT !.left = @ \ {u},
                                    !.marks = {k \in @ : k.uid = u => k.validity = folders[r.folder].validity}])
          ELSE UNCHANGED folders /\ AfterMissing(t, r)
       /\ UNCHANGED <<queue, shown, draft, counters, history>>

\* The target refuses the copy: over quota, out of space.
CopyRefused(t) ==
    /\ request[t].op = "each" /\ request[t].do \in {"move", "copy"} /\ request[t].left # {}
    /\ faults < MaxFaults /\ faults' = faults + 1
    /\ AfterMissing(t, request[t])
    /\ UNCHANGED <<folders, queue, shown, draft, letters, validity, requests, history>>

\* set_flags writes the flags read when the folder was opened, changed by one.
Patched(do, flags) == CASE do = "delete" -> flags \cup {"deleted"}
                        [] do = "seen" -> flags \cup {"seen"}
                        [] OTHER -> flags \ {"seen"}

FlagOne(t, u) ==
    LET r == request[t]
    IN /\ r.op = "each" /\ r.do \in {"delete", "seen", "unseen"} /\ u \in r.left
       /\ IF u \in Uids(r.folder)
          THEN /\ folders' = [folders EXCEPT ![r.folder].mail[u].flags = Patched(r.do, r.seen[u].flags)]
               /\ Goes(t, [r EXCEPT !.left = @ \ {u}])
          ELSE UNCHANGED folders /\ End(t)
       /\ UNCHANGED <<queue, shown, draft, counters, history>>

\* After the last message, a move and a delete take the originals away.
LoopEnds(t) ==
    LET r == request[t]
    IN /\ r.op = "each" /\ r.left = {}
       /\ IF r.do \in {"move", "delete"} THEN Goes(t, [r EXCEPT !.op = "expunge"]) ELSE End(t)
       /\ UNCHANGED <<folders, queue, shown, draft, counters, history>>

\* A uid taken from an earlier folder of the same name may name another letter.
Mistaken(f, uids, known) ==
    {folders[f].mail[u].letter : u \in {v \in uids \cap Uids(f) :
        ~ \E k \in known : k.uid = v /\ k.validity = folders[f].validity}}

Expunge(t) ==
    LET r == request[t]
    IN /\ r.op = "expunge"
       /\ folders' = IF Exists(r.folder) THEN Without(folders, r.folder, r.uids) ELSE folders
       /\ mistaken' = mistaken \cup Mistaken(r.folder, r.uids, r.marks)
       /\ End(t)
       /\ UNCHANGED <<queue, shown, draft, counters, stored, asked, swept>>

-----------------------------------------------------------------------------
(* Folders.                                                                *)

CreateFolder(t, f) ==
    /\ request[t] = NoRequest /\ requests < MaxRequests /\ f # "INBOX" /\ ~Exists(f)
    /\ folders' = Created(folders, f, validity + 1)
    /\ validity' = validity + 1 /\ requests' = requests + 1
    /\ UNCHANGED <<queue, request, shown, draft, letters, faults, history>>

RenameFolder(t, f, g) ==
    /\ request[t] = NoRequest /\ requests < MaxRequests
    /\ f # "INBOX" /\ Exists(f) /\ ~Exists(g)
    /\ folders' = [x \in (DOMAIN folders \ {f}) \cup {g} |-> IF x = g THEN folders[f] ELSE folders[x]]
    /\ requests' = requests + 1
    /\ UNCHANGED <<queue, request, shown, draft, letters, validity, faults, history>>

\* delete_folder opens the folder to see that it is empty, and then deletes it.
DeleteCheck(t, f) ==
    /\ f # "INBOX" /\ Exists(f) /\ Uids(f) = {}
    /\ Begin(t, [op |-> "rmdir", folder |-> f])

DeleteFolder(t) ==
    /\ request[t].op = "rmdir"
    /\ LET f == request[t].folder
       IN /\ folders' = Restrict(folders, DOMAIN folders \ {f})
          /\ swept' = swept \cup {folders[f].mail[u].letter : u \in Uids(f)}
    /\ End(t)
    /\ UNCHANGED <<queue, shown, draft, counters, stored, asked, mistaken>>

-----------------------------------------------------------------------------
(* Sending and drafts.                                                     *)

\* send: the message is queued first; without that nothing is kept.
Send(t) ==
    /\ letters < MaxLetters
    /\ request[t] = NoRequest /\ requests < MaxRequests
    /\ requests' = requests + 1 /\ letters' = letters + 1
    /\ queue' = queue \cup {letters + 1}
    /\ Goes(t, [op |-> "ensure", folder |-> "Sent", letter |-> letters + 1, flags |-> {"seen"}, old |-> NoDraft])
    /\ UNCHANGED <<folders, shown, draft, validity, faults, history>>

\* save_draft, from a fresh page or one that edits a draft.
SaveDraft(t) ==
    /\ letters < MaxLetters
    /\ request[t] = NoRequest /\ requests < MaxRequests
    /\ requests' = requests + 1 /\ letters' = letters + 1
    /\ Goes(t, [op |-> "ensure", folder |-> "Drafts", letter |-> letters + 1, flags |-> {"draft"}, old |-> draft[t]])
    /\ UNCHANGED <<folders, queue, shown, draft, validity, faults, history>>

\* ensure_folder: a failure to create shows when the append fails.
EnsureFolder(t) ==
    LET r == request[t]
    IN /\ r.op = "ensure"
       /\ Goes(t, [r EXCEPT !.op = "append"])
       /\ \/ Exists(r.folder) /\ UNCHANGED <<folders, validity, faults>>
          \/ /\ ~Exists(r.folder)
             /\ folders' = Created(folders, r.folder, validity + 1) /\ validity' = validity + 1
             /\ UNCHANGED faults
          \/ ~Exists(r.folder) /\ faults < MaxFaults /\ faults' = faults + 1 /\ UNCHANGED <<folders, validity>>
       /\ UNCHANGED <<queue, shown, draft, letters, requests, history>>

\* The append; the draft's page learns the uid, and the old draft goes next.
AppendLetter(t) ==
    LET r == request[t]
        new == [folder |-> r.folder, validity |-> folders[r.folder].validity, uid |-> folders[r.folder].next, letter |-> r.letter]
    IN /\ r.op = "append"
       /\ IF ~Exists(r.folder) THEN End(t) /\ UNCHANGED <<folders, draft, stored, asked>>
          ELSE /\ folders' = With(folders, r.folder, r.letter, r.flags)
               /\ stored' = stored \cup {r.letter}
               /\ IF r.folder = "Drafts"
                  THEN /\ draft' = [draft EXCEPT ![t] = new]
                       /\ IF r.old.uid \notin {0, new.uid}
                          THEN /\ Goes(t, [op |-> "expunge", folder |-> "Drafts", uids |-> {r.old.uid}, marks |-> {r.old}])
                               /\ asked' = asked \cup {r.old.letter}
                          ELSE End(t) /\ UNCHANGED asked
                  ELSE End(t) /\ UNCHANGED <<draft, asked>>
       /\ UNCHANGED <<queue, shown, counters, mistaken, swept>>

-----------------------------------------------------------------------------
TabStep(t) ==
    \/ \E f \in Names : ListMessages(t, f) \/ CreateFolder(t, f) \/ DeleteCheck(t, f)
                        \/ (\E g \in Names : RenameFolder(t, f, g))
    \/ /\ request[t] = NoRequest /\ requests < MaxRequests     \* as Begin says
       /\ \E marks \in SUBSET shown[t] :
          \/ \E g \in Names : AskMessages(t, "move", marks, g) \/ AskMessages(t, "copy", marks, g)
          \/ \E op \in {"delete", "seen", "unseen"} : AskMessages(t, op, marks, "INBOX")
    \/ OpenFolder(t) \/ LoopEnds(t) \/ Expunge(t) \/ CopyRefused(t) \/ Fails(t)
    \/ \E u \in 1 .. MaxLetters + MaxRequests : CopyOne(t, u) \/ FlagOne(t, u)
    \/ DeleteFolder(t) \/ Send(t) \/ SaveDraft(t) \/ EnsureFolder(t) \/ AppendLetter(t)

WebmailNext == Deliver \/ (\E t \in Tabs : TabStep(t))

Spec == WebmailInit /\ [][WebmailNext]_webmailVars

-----------------------------------------------------------------------------
Held == UNION {{folders[f].mail[u].letter : u \in Uids(f)} : f \in DOMAIN folders}

\* What has been in the mailbox stays in it until somebody asks for its deletion:
\* whatever fails half-way and whatever the other tab does, a move or a new version
\* of a draft stores the copy before it takes the original away.  (The two ways out
\* the code leaves are kept apart: a folder deleted after it was seen empty, and a
\* uid of an earlier folder of the same name.)
LettersKept == stored \subseteq Held \cup asked \cup mistaken \cup swept

\* docs/WEBMAIL.md:103: only an empty folder is deleted.
OnlyEmptyDeleted == swept = {}
=============================================================================
