---------------------------- MODULE FolderAccess ----------------------------
(***************************************************************************)
(* What IMAP sessions say and change about folders rather than messages:   *)
(* LIST and LSUB, rights (ACL), annotations (METADATA) and quota limits    *)
(* (imap/session.rs over maildir.rs).  The sessions share the stores; a     *)
(* command that reads, decides and writes back does so without a lock       *)
(* around the whole, so each read and each write is a step.                 *)
(***************************************************************************)
EXTENDS Integers, Sequences, FiniteSets

CONSTANTS
    FolderSessions,
    UserOf,         \* [FolderSessions -> users]: who is logged in
    FolderNames,    \* sequences of segments, <<"INBOX">> among them
    FirstFolders,   \* [users -> SUBSET FolderNames]: the folders at the start
    Attributes,     \* special-use attributes
    DefaultUse,     \* [FolderNames -> SUBSET Attributes]: default_special_use
    Identifiers,    \* names rights are given to, in lower case
    RightSets,      \* the rights SETACL may give, {} among them
    Texts,          \* values of the one annotation
    Quotas,         \* SETQUOTA's resource lists: sequences of <<resource, number>>
    AllowSetQuota,
    BusyStores,     \* bound: the stores whose settings change
    Askers,         \* bound: the sessions that list and ask
    MaxFolderChanges,
    MaxLists        \* bounds: changes, and LIST commands under way at once

VARIABLES
    dirs,     \* per store, its folders
    subs,     \* per store, the subscribed names
    uses,     \* per store and folder, the special-use file, or NoFile
    acl,      \* per store and folder, the rights of each identifier
    meta,     \* per store and folder (or Server), the annotation
    limit,    \* per store, [MESSAGE, STORAGE], 0 for none
    sess,     \* per session, where it is
    answer,   \* what the last step answered
    changed,  \* changes asked for so far
    told      \* history: what the last OK says, per setting, or Unsure

stored == <<dirs, subs, uses, acl, meta, limit>>
folderVars == <<stored, sess, answer, changed, told>>

Stores == {UserOf[s] : s \in FolderSessions}
InboxName == <<"INBOX">>
Server == <<>>
NoFile == {"no file"}
Unsure == {"unsure"}
NoText == "none"
AllRights == {"l", "r", "a"}
NoRights == [i \in Identifiers |-> {}]

Idle == [at |-> "idle", peer |-> "", f |-> InboxName, id |-> "", val |-> {}, map |-> NoRights, text |-> NoText,
         clash |-> FALSE, opt |-> "", folds |-> {}, names |-> {}, again |-> {}, through |-> {}, ever |-> {}]
NoAnswer == [kind |-> "none", names |-> {}, parents |-> {}, used |-> {}, through |-> {}, ever |-> {}]
Fresh(s) == [store |-> UserOf[s], sel |-> Server, op |-> Idle]

-----------------------------------------------------------------------------
(* Names and rights                                                        *)

(* resolve_mailbox: a name without the shared prefix is a folder of the    *)
(* store in use and has no owner to ask                                    *)
StoreFor(s, shared, peer) == IF shared THEN peer ELSE sess[s].store
(* The first entry of the user, of "authenticated", of "anyone" *)
GrantedBy(rights, me) ==
    CASE rights[me] # {} -> rights[me]
      [] rights[me] = {} /\ rights["authenticated"] # {} -> rights["authenticated"]
      [] OTHER -> rights["anyone"]
(* check_shared_rights *)
MayIn(d, a, s, shared, peer, f, right) ==
    ~shared \/ UserOf[s] = peer \/ (f \in d[peer] /\ right \in GrantedBy(a[peer][f], UserOf[s]))
May(s, shared, peer, f, right) == MayIn(dirs, acl, s, shared, peer, f, right)
(* my_rights *)
MyRightsAdded(rights, s, shared, peer) ==
    IF ~shared \/ UserOf[s] = peer THEN AllRights
    ELSE rights[UserOf[s]] \cup rights["authenticated"] \cup rights["anyone"]
MyRights(rights, s, shared, peer) ==
    IF ~shared \/ UserOf[s] = peer THEN AllRights ELSE GrantedBy(rights, UserOf[s])

ChildrenOf(set, f) == {d \in set : Len(d) > Len(f) /\ SubSeq(d, 1, Len(f)) = f}

-----------------------------------------------------------------------------
(* Steps and what they do to commands under way                            *)

(* What a LIST under way could see in a state *)
Visible(d, a, s, op) ==
    CASE op.opt = "shared" -> {f \in d[op.peer] : MayIn(d, a, s, TRUE, op.peer, f, "l")}
      [] op.opt = "peers" -> {<<p>> : p \in {q \in Stores : MayIn(d, a, s, TRUE, q, InboxName, "l")}}
      [] OTHER -> d[sess[s].store]
Watch(op, seen) == [op EXCEPT !.through = @ \cap seen, !.ever = @ \cup seen]
(* One session moves on; the others' LISTs note what there was to see, and  *)
(* a write to a folder clashes with the writes to it that others prepared   *)
Moves(s, op, reply, d, a, peer, touched) ==
    /\ answer' = reply
    /\ sess' = [t \in FolderSessions |->
        IF t = s THEN [sess[s] EXCEPT !.op = op]
        ELSE [sess[t] EXCEPT !.op =
                  CASE @.at \in {"list", "list2", "list3"} -> Watch(@, Visible(d, a, t, @))
                    [] @.at \in {"acl", "meta"} /\ @.peer = peer /\ @.f \in touched -> [@ EXCEPT !.clash = TRUE]
                    [] OTHER -> @]]
Stays(s, op, reply) == Moves(s, op, reply, dirs, acl, "", {})
Change(p) == p \in BusyStores /\ changed < MaxFolderChanges /\ changed' = changed + 1
Ready(s) == sess[s].op.at = "idle"

(* SELECT and UNSELECT, as far as the store in use goes *)
OpenShared(s, peer, f) ==
    /\ Ready(s) /\ f \in dirs[peer]
    /\ May(s, TRUE, peer, f, "l") /\ May(s, TRUE, peer, f, "r")
    /\ sess' = [sess EXCEPT ![s].store = peer, ![s].sel = f] /\ answer' = NoAnswer
    /\ UNCHANGED <<stored, changed, told>>
BackHome(s) ==
    /\ Ready(s) /\ sess[s].sel # Server
    /\ sess' = [sess EXCEPT ![s].store = UserOf[s], ![s].sel = Server] /\ answer' = NoAnswer
    /\ UNCHANGED <<stored, changed, told>>

-----------------------------------------------------------------------------
(* Folders; a name with the shared prefix is refused (deny_shared)         *)

CreateWithUse(s, f, use) ==
    LET p == sess[s].store
        d == [dirs EXCEPT ![p] = @ \cup {f}]
    IN
    /\ Ready(s) /\ Change(p) /\ f \notin dirs[p]
    /\ dirs' = d
    /\ uses' = [uses EXCEPT ![p][f] = IF use = {} THEN NoFile ELSE use]
    /\ acl' = [acl EXCEPT ![p][f] = NoRights]
    /\ meta' = [meta EXCEPT ![p][f] = NoText]
    /\ told' = [told EXCEPT ![p][f] = [rights |-> NoRights, text |-> NoText]]
    /\ Moves(s, Idle, NoAnswer, d, acl', p, {f})
    /\ UNCHANGED <<subs, limit>>

DeleteFolder(s, f) ==
    LET p == sess[s].store
        d == [dirs EXCEPT ![p] = @ \ {f}]
    IN
    /\ Ready(s) /\ Change(p) /\ f \in dirs[p] \ {InboxName} /\ ChildrenOf(dirs[p], f) = {}
    /\ dirs' = d
    /\ subs' = [subs EXCEPT ![p] = @ \ {f}]
    /\ Moves(s, Idle, NoAnswer, d, acl, p, {f})
    /\ UNCHANGED <<uses, acl, meta, limit, told>>

(* The directories move with everything in them *)
NewName(f, g, d) == g \o SubSeq(d, Len(f) + 1, Len(d))
LeftBehind(per, moving, f, g, none) == per
MovedWith(per, moving, f, g, none) ==
    [d \in DOMAIN per |-> IF \E e \in moving : NewName(f, g, e) = d
                          THEN per[CHOOSE e \in moving : NewName(f, g, e) = d]
                          ELSE IF d \in moving THEN none ELSE per[d]]
RenameFolder(s, f, g) ==
    LET p == sess[s].store
        moving == {f} \cup ChildrenOf(dirs[p], f)
        d == [dirs EXCEPT ![p] = (@ \ moving) \cup {NewName(f, g, e) : e \in moving}]
        fresh == [rights |-> NoRights, text |-> NoText]
    IN
    /\ Ready(s) /\ Change(p)
    /\ f \in dirs[p] \ {InboxName} /\ \A e \in moving : NewName(f, g, e) \in FolderNames \ dirs[p]
    /\ dirs' = d
    /\ subs' = [subs EXCEPT ![p] = (@ \ moving) \cup {NewName(f, g, e) : e \in moving \cap @}]
    /\ uses' = [uses EXCEPT ![p] = MovedWith(@, moving, f, g, NoFile)]
    /\ acl' = [acl EXCEPT ![p] = MovedWith(@, moving, f, g, NoRights)]
    /\ meta' = [meta EXCEPT ![p] = MovedWith(@, moving, f, g, NoText)]
    /\ told' = [told EXCEPT ![p] = [x \in FolderNames \cup {Server} |->
                    IF \E e \in moving : NewName(f, g, e) = x THEN @[CHOOSE e \in moving : NewName(f, g, e) = x]
                    ELSE IF x \in moving THEN fresh ELSE @[x]]]
    /\ Moves(s, Idle, NoAnswer, d, acl', p, moving \cup {NewName(f, g, e) : e \in moving})
    /\ UNCHANGED limit

SubscribeTo(s, f, on) ==
    LET p == sess[s].store IN
    /\ Ready(s) /\ Change(p) /\ (f \in subs[p]) # on
    /\ subs' = [subs EXCEPT ![p] = IF on THEN @ \cup {f} ELSE @ \ {f}]
    /\ Stays(s, Idle, NoAnswer)
    /\ UNCHANGED <<dirs, uses, acl, meta, limit, told>>

-----------------------------------------------------------------------------
(* handle_list                                                             *)

StartList(s, opt, peer) ==
    LET op == [Idle EXCEPT !.at = "list", !.opt = opt, !.peer = peer]
        seen == Visible(dirs, acl, s, op)
    IN
    /\ Ready(s) /\ Cardinality({t \in FolderSessions : sess[t].op.opt # ""}) < MaxLists
    /\ (opt = "shared" \/ peer = UserOf[s])
    /\ Stays(s, [op EXCEPT !.through = seen, !.ever = seen], NoAnswer)
    /\ UNCHANGED <<stored, changed, told>>

(* store.folders() *)
ListFolders(s) ==
    LET op == sess[s].op IN
    /\ op.at = "list" /\ op.opt # "peers"
    /\ Stays(s, [op EXCEPT !.at = "list2", !.folds = IF op.opt = "shared" THEN dirs[op.peer] ELSE dirs[sess[s].store]], NoAnswer)
    /\ UNCHANGED <<stored, changed, told>>

(* The names to show, and the folders special_use_map walks *)
ListNames(s) ==
    LET op == sess[s].op
        p == sess[s].store
    IN
    /\ op.at = "list2" /\ op.opt # "shared"
    /\ Stays(s, [op EXCEPT !.at = "list3", !.names = IF op.opt = "subscribed" THEN subs[p] ELSE op.folds, !.again = dirs[p]], NoAnswer)
    /\ UNCHANGED <<stored, changed, told>>

UseOf(p, f) == IF uses[p][f] = NoFile THEN DefaultUse[f] ELSE uses[p][f]
NotParents(set) == {}
Ancestors(set) == {f \in FolderNames : ChildrenOf(set, f) # {}}
(* special_use of each; one that is gone by now fails the whole command *)
ListAnswer(s) ==
    LET op == sess[s].op
        p == sess[s].store
        used == {f \in op.again : UseOf(p, f) # {}}
        shown == IF op.opt = "special" THEN op.names \cap used ELSE op.names
    IN
    /\ op.at = "list3"
    /\ Stays(s, Idle,
          IF op.again \subseteq dirs[p]
          THEN [kind |-> op.opt, names |-> shown \cap op.folds, parents |-> shown \cap op.folds \cap Ancestors(op.folds),
                used |-> shown \cap used, through |-> op.through, ever |-> op.ever]
          ELSE NoAnswer)
    /\ UNCHANGED <<stored, changed, told>>

(* shared_mailbox_listing: of one peer, folders whose rights cannot be read *)
(* are passed over; of all peers, the ones whose INBOX may be looked up     *)
SharedListing(s) ==
    LET op == sess[s].op IN
    /\ (op.at = "list2" /\ op.opt = "shared") \/ (op.at = "list" /\ op.opt = "peers")
    /\ Stays(s, Idle,
          [kind |-> op.opt, parents |-> {}, used |-> {}, through |-> op.through, ever |-> op.ever,
           names |-> IF op.opt = "peers" THEN Visible(dirs, acl, s, op)
                     ELSE {f \in op.folds : May(s, TRUE, op.peer, f, "l")}])
    /\ UNCHANGED <<stored, changed, told>>

-----------------------------------------------------------------------------
(* Rights                                                                  *)

(* handle_setacl and handle_deleteacl (no rights): the check, ... *)
StartSetAcl(s, shared, peer, f, id, rights) ==
    LET p == StoreFor(s, shared, peer) IN
    /\ Ready(s) /\ Change(p) /\ May(s, shared, peer, f, "a") /\ f \in dirs[p]
    /\ id # (IF shared THEN peer ELSE UserOf[s])
    /\ Stays(s, [Idle EXCEPT !.at = "may", !.peer = p, !.f = f, !.id = id, !.val = rights], NoAnswer)
    /\ UNCHANGED <<stored, told>>
(* ... read_acl, ... *)
ReadAcl(s) ==
    LET op == sess[s].op IN
    /\ op.at = "may"
    /\ Stays(s, IF op.f \in dirs[op.peer] THEN [op EXCEPT !.at = "acl", !.map = acl[op.peer][op.f]] ELSE Idle, NoAnswer)
    /\ UNCHANGED <<stored, changed, told>>
(* ... and write_acl, of the map as it was read *)
WriteAcl(s) ==
    LET op == sess[s].op
        a == [acl EXCEPT ![op.peer][op.f] = [op.map EXCEPT ![op.id] = op.val]]
    IN
    /\ op.at = "acl"
    /\ IF op.f \in dirs[op.peer]
       THEN /\ acl' = a
            /\ told' = IF op.clash THEN [told EXCEPT ![op.peer][op.f].rights = [i \in Identifiers |-> Unsure]]
                       ELSE [told EXCEPT ![op.peer][op.f].rights[op.id] = op.val]
            /\ Moves(s, Idle, NoAnswer, dirs, a, op.peer, {op.f})
       ELSE Stays(s, Idle, NoAnswer) /\ UNCHANGED <<acl, told>>
    /\ UNCHANGED <<dirs, subs, uses, meta, limit, changed>>

(* GETACL: the owner with every right, then the others *)
GetAcl(s, shared, peer, f) ==
    LET p == StoreFor(s, shared, peer)
        owner == IF shared THEN peer ELSE UserOf[s]
    IN
    /\ Ready(s) /\ May(s, shared, peer, f, "l") /\ f \in dirs[p]
    /\ Stays(s, Idle, [NoAnswer EXCEPT !.kind = "getacl",
          !.names = {<<owner, AllRights>>} \cup {<<i, acl[p][f][i]>> : i \in {j \in Identifiers \ {owner} : acl[p][f][j] # {}}}])
    /\ UNCHANGED <<stored, changed, told>>

(* LISTRIGHTS: the owner keeps all rights, anyone else may have any *)
ListRights(s, shared, peer, f, id) ==
    LET p == StoreFor(s, shared, peer)
        owner == IF shared THEN peer ELSE UserOf[s]
    IN
    /\ Ready(s) /\ May(s, shared, peer, f, "l") /\ f \in dirs[p]
    /\ Stays(s, Idle, [NoAnswer EXCEPT !.kind = "listrights",
          !.names = IF id = owner THEN {<<"required", AllRights>>} ELSE {<<"optional", AllRights>>}])
    /\ UNCHANGED <<stored, changed, told>>

AskMyRights(s, shared, peer, f) ==
    LET p == StoreFor(s, shared, peer) IN
    /\ Ready(s) /\ May(s, shared, peer, f, "l") /\ f \in dirs[p]
    /\ Stays(s, Idle, [NoAnswer EXCEPT !.kind = "myrights", !.names = {<<UserOf[s], MyRights(acl[p][f], s, shared, peer)>>},
          !.ever = {right \in AllRights : May(s, shared, peer, f, right)}])
    /\ UNCHANGED <<stored, changed, told>>

-----------------------------------------------------------------------------
(* METADATA: of a named folder, of the server, or, without a name, of the   *)
(* selected folder                                                         *)

Scope(s, f, named) == IF named THEN f ELSE sess[s].sel
StartSetMetadata(s, f, named, text) ==
    LET p == sess[s].store
        scope == Scope(s, f, named)
    IN
    /\ Ready(s) /\ Change(p) /\ (named \/ sess[s].sel # Server)
    /\ scope \in dirs[p] \cup {Server}
    \* read_metadata; the other entries of the map are left out
    /\ Stays(s, [Idle EXCEPT !.at = "meta", !.peer = p, !.f = scope, !.text = text], NoAnswer)
    /\ UNCHANGED <<stored, told>>
WriteMetadata(s) ==
    LET op == sess[s].op IN
    /\ op.at = "meta"
    /\ IF op.f \in dirs[op.peer] \cup {Server}
       THEN /\ meta' = [meta EXCEPT ![op.peer][op.f] = op.text]
            /\ told' = [told EXCEPT ![op.peer][op.f].text = op.text]
            /\ Moves(s, Idle, NoAnswer, dirs, acl, op.peer, {op.f})
       ELSE Stays(s, Idle, NoAnswer) /\ UNCHANGED <<meta, told>>
    /\ UNCHANGED <<dirs, subs, uses, acl, limit, changed>>
GetMetadata(s, f, named) ==
    LET scope == Scope(s, f, named) IN
    /\ Ready(s) /\ (named \/ sess[s].sel # Server)
    /\ scope \in dirs[sess[s].store] \cup {Server}
    /\ Stays(s, Idle, [NoAnswer EXCEPT !.kind = "metadata", !.names = {<<scope, meta[sess[s].store][scope]>>}])
    /\ UNCHANGED <<stored, changed, told>>

-----------------------------------------------------------------------------
(* Quota: storage is kept in bytes (Unit of them to one of SETQUOTA's), the *)
(* last pair of a resource counts and a resource not named has no limit     *)

Unit == 4
Chosen(pairs, resource) ==
    LET of == {i \in DOMAIN pairs : pairs[i][1] = resource}
    IN  IF of = {} THEN 0 ELSE pairs[CHOOSE i \in of : \A j \in of : j <= i][2]
SetLimits(s, pairs) ==
    /\ Ready(s) /\ Change(sess[s].store) /\ AllowSetQuota
    /\ limit' = [limit EXCEPT ![sess[s].store] = [MESSAGE |-> Chosen(pairs, "MESSAGE"), STORAGE |-> Chosen(pairs, "STORAGE") * Unit]]
    /\ Stays(s, Idle, NoAnswer)
    /\ UNCHANGED <<dirs, subs, uses, acl, meta, told>>
(* quota_resource_list: rounded up to SETQUOTA's unit *)
CeilUnit(n) == (n + Unit - 1) \div Unit
GetLimits(s, f) ==
    LET l == limit[sess[s].store] IN
    /\ Ready(s) /\ f \in dirs[sess[s].store]
    /\ Stays(s, Idle, [NoAnswer EXCEPT !.kind = "quota",
          !.names = {<<"MESSAGE", n>> : n \in {l.MESSAGE} \ {0}} \cup {<<"STORAGE", CeilUnit(n)>> : n \in {l.STORAGE} \ {0}}])
    /\ UNCHANGED <<stored, changed, told>>

-----------------------------------------------------------------------------
FoldersInit ==
    /\ dirs = [p \in Stores |-> FirstFolders[p]]
    /\ subs = dirs
    /\ uses = [p \in Stores |-> [f \in FolderNames |-> NoFile]]
    /\ acl = [p \in Stores |-> [f \in FolderNames |-> NoRights]]
    /\ meta = [p \in Stores |-> [f \in FolderNames \cup {Server} |-> NoText]]
    /\ limit = [p \in Stores |-> [MESSAGE |-> 0, STORAGE |-> 0]]
    /\ sess = [s \in FolderSessions |-> Fresh(s)]
    /\ answer = NoAnswer
    /\ changed = 0
    /\ told = [p \in Stores |-> [f \in FolderNames \cup {Server} |-> [rights |-> NoRights, text |-> NoText]]]

(* The client reads the answer *)
Heard ==
    /\ answer # NoAnswer
    /\ answer' = NoAnswer
    /\ UNCHANGED <<stored, sess, changed, told>>

FolderStep(s) ==
    /\ answer = NoAnswer
    /\
        \/ \E peer \in Stores, f \in FolderNames : OpenShared(s, peer, f)
        \/ BackHome(s)
        \/ \E f \in FolderNames, use \in {{}} \cup {{a} : a \in Attributes} : CreateWithUse(s, f, use)
        \/ \E f \in FolderNames : DeleteFolder(s, f)
        \/ \E f, g \in FolderNames : RenameFolder(s, f, g)
        \/ \E f \in FolderNames, on \in BOOLEAN : SubscribeTo(s, f, on)
        \/ s \in Askers /\ \E opt \in {"all", "subscribed", "special", "shared", "peers"}, peer \in Stores :
              StartList(s, opt, peer)
        \/ ListFolders(s) \/ ListNames(s) \/ ListAnswer(s) \/ SharedListing(s)
        \/ Ready(s) /\ \E shared \in BOOLEAN, f \in FolderNames : \E peer \in IF shared THEN Stores ELSE {UserOf[s]} :
              \/ \E id \in Identifiers, rights \in RightSets : StartSetAcl(s, shared, peer, f, id, rights)
              \/ s \in Askers /\ (GetAcl(s, shared, peer, f) \/ AskMyRights(s, shared, peer, f))
              \/ s \in Askers /\ \E id \in Identifiers : ListRights(s, shared, peer, f, id)
        \/ ReadAcl(s) \/ WriteAcl(s)
        \/ \E f \in FolderNames \cup {Server}, named \in BOOLEAN :
              \/ s \in Askers /\ GetMetadata(s, f, named)
              \/ \E text \in Texts \cup {NoText} : StartSetMetadata(s, f, named, text)
        \/ WriteMetadata(s)
        \/ \E pairs \in Quotas : SetLimits(s, pairs)
        \/ s \in Askers /\ \E f \in FolderNames : GetLimits(s, f)
FoldersNext == Heard \/ \E s \in FolderSessions : FolderStep(s)

-----------------------------------------------------------------------------
(* A LIST that is answered shows every folder that was there to see from    *)
(* its start to its end and none that never was; one shown with children   *)
(* had some and one shown without had not always one, however others       *)
(* create, delete, rename and grant meanwhile                              *)
ListTrue ==
    LET a == answer IN
    /\ a.kind \in {"all", "shared", "peers"} => a.through \subseteq a.names
    /\ a.kind \in {"all", "subscribed", "special", "shared", "peers"} => a.names \subseteq a.ever
    /\ a.kind \in {"all", "subscribed", "special"} =>
          \A f \in a.names : IF f \in a.parents THEN ChildrenOf(a.ever, f) # {} ELSE ChildrenOf(a.through, f) = {}
(* MYRIGHTS names exactly the rights the server grants when it is asked to  *)
(* act on them                                                             *)
MyRightsTrue == answer.kind = "myrights" => \A x \in answer.names : x[2] = answer.ever
(* A right that was given or taken with OK, and an annotation, stay so until *)
(* they are changed again, through renames of the folder, and a folder      *)
(* created anew starts without any; only SETACLs that overlap may undo each *)
(* other                                                                   *)
SettingsStand ==
    \A p \in Stores : \A f \in dirs[p] :
        /\ \A i \in Identifiers : told[p][f].rights[i] \in {Unsure, acl[p][f][i]}
        /\ told[p][f].text = meta[p][f]
FoldersTrue == ListTrue /\ MyRightsTrue /\ SettingsStand
=============================================================================
