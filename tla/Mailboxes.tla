----------------------------- MODULE Mailboxes -----------------------------
(***************************************************************************)
(* The folders of one mail store, its subscriptions and its quota          *)
(* (crates/imappop3/src/maildir.rs).  Messages are counted, a message is   *)
(* one unit of quota.  The usage is cached in a file that deliveries,      *)
(* expunges and folder deletions adjust before or after they touch the     *)
(* messages; what runs under the quota lock is one step.                   *)
(***************************************************************************)
EXTENDS Integers, Sequences, FiniteSets, FiniteSetsExt

CONSTANTS
    Workers,    \* sessions and deliveries working on the store
    Names,      \* folder names as sequences of segments, <<"INBOX">> among them
    Limits,     \* quota limits SETQUOTA may set, 0 for none
    MaxOps      \* bound: operations

VARIABLES
    files,      \* per folder, its messages
    dirs,       \* the folders that exist
    subs,       \* .mailstack-subscriptions
    quota,      \* the limit, 0 for none
    usage,      \* the cached usage, or NoUsage
    work,       \* per worker, what is left to do
    mbOps,
    drift       \* history: the messages were counted at a wrong moment

vars == <<files, dirs, subs, quota, usage, work, mbOps, drift>>

Inbox == <<"INBOX">>
NoUsage == -1
Done == [at |-> "idle", folder |-> Inbox, n |-> 0, held |-> 0, limit |-> 0, stale |-> FALSE]

Total == MapThenSumSet(LAMBDA f : files[f], Names)

\* Somebody is between a reservation and its message, or between a removal
\* and its release.
InFlight == \E w \in Workers : work[w].at \in {"place", "release"}

\* cached_or_recompute_usage
Used == IF usage = NoUsage THEN Total ELSE usage

Init ==
    /\ files = [f \in Names |-> IF f = Inbox THEN 1 ELSE 0]
    /\ dirs \in {{Inbox} \cup d : d \in SUBSET {<<"A">>, <<"A", "x">>, <<"B", "x">>}}
    /\ dirs \subseteq Names
    /\ subs = dirs
    /\ quota \in Limits
    /\ usage = NoUsage
    /\ work = [w \in Workers |-> Done]
    /\ mbOps = 0 /\ drift = FALSE

Begin == mbOps < MaxOps /\ mbOps' = mbOps + 1

\* Whatever changes the messages or the cache outdates a scan in progress.
Goes(w, todo) ==
    work' = [v \in Workers |-> IF v = w THEN todo
                               ELSE IF work[v].at = "status" THEN [work[v] EXCEPT !.stale = TRUE]
                               ELSE work[v]]

Children(f) == {d \in dirs : Len(d) > Len(f) /\ SubSeq(d, 1, Len(f)) = f}

-----------------------------------------------------------------------------
(* append: reserve, place, and release on failure *)

\* quota_limits is read before the lock is taken.
StartAppend(w, f, n) ==
    /\ work[w].at = "idle" /\ Begin
    /\ f \in dirs
    /\ Goes(w, [Done EXCEPT !.at = IF quota = 0 THEN "place" ELSE "reserve", !.folder = f, !.n = n,
                            !.limit = quota])
    /\ UNCHANGED <<files, dirs, subs, quota, usage, drift>>

ReserveQuota(w) ==
    /\ work[w].at = "reserve"
    /\ IF Used + work[w].n > work[w].limit
       THEN usage' = Used /\ Goes(w, Done)
       ELSE /\ usage' = Used + work[w].n
            /\ Goes(w, [work[w] EXCEPT !.at = "place", !.held = work[w].n])
    /\ drift' = (drift \/ (usage = NoUsage /\ InFlight))
    /\ UNCHANGED <<files, dirs, subs, quota, mbOps>>

Placed(w) ==
    /\ work[w].at = "place" /\ work[w].folder \in dirs
    /\ files' = [files EXCEPT ![work[w].folder] = @ + work[w].n]
    /\ Goes(w, Done)
    /\ UNCHANGED <<dirs, subs, quota, usage, mbOps, drift>>

ForgetReservation(w) == Done

\* The reservation a failed append gives back.
GiveBack(w) ==
    IF work[w].held = 0 THEN Done ELSE [Done EXCEPT !.at = "release", !.n = work[w].held]

\* Staging, the rename or the UID list fails; the files are taken back.
PlaceFails(w) ==
    /\ work[w].at = "place"
    /\ Goes(w, GiveBack(w))
    /\ UNCHANGED <<files, dirs, subs, quota, usage, mbOps, drift>>

\* release_quota: without a cache the messages are counted, and what was
\* removed before is subtracted again.
ReleaseQuota(w) ==
    /\ work[w].at = "release"
    /\ IF quota = 0 THEN UNCHANGED <<usage, drift>>
       ELSE /\ usage' = IF Used > work[w].n THEN Used - work[w].n ELSE 0
            /\ drift' = (drift \/ usage = NoUsage)
    /\ Goes(w, Done)
    /\ UNCHANGED <<files, dirs, subs, quota, mbOps>>

Expunge(w, f, n) ==
    /\ work[w].at = "idle" /\ Begin
    /\ f \in dirs /\ n \in 1..files[f]
    /\ files' = [files EXCEPT ![f] = @ - n]
    /\ Goes(w, [Done EXCEPT !.at = "release", !.n = n])
    /\ UNCHANGED <<dirs, subs, quota, usage, drift>>

-----------------------------------------------------------------------------
(* Folders *)

Create(w, f) ==
    /\ work[w].at = "idle" /\ Begin
    /\ f \notin dirs
    /\ dirs' = dirs \cup {f}
    /\ UNCHANGED <<files, subs, quota, usage, work, drift>>

Delete(w, f) ==
    /\ work[w].at = "idle" /\ Begin
    /\ f \in dirs \ {Inbox} /\ Children(f) = {}
    /\ dirs' = dirs \ {f}
    /\ subs' = subs \ {f}
    /\ files' = [files EXCEPT ![f] = 0]
    /\ Goes(w, [Done EXCEPT !.at = "release", !.n = files[f]])
    /\ UNCHANGED <<quota, usage, drift>>

\* INBOX gives its messages to a new folder.
RenameInbox(w, g) ==
    /\ work[w].at = "idle" /\ Begin
    /\ g \notin dirs
    /\ dirs' = dirs \cup {g}
    /\ files' = [files EXCEPT ![g] = files[Inbox], ![Inbox] = 0]
    /\ subs' = subs \cup {g}
    /\ Goes(w, Done)
    /\ UNCHANGED <<quota, usage, drift>>

Under(f, g, d) == g \o SubSeq(d, Len(f) + 1, Len(d))

Moving(f) == {f} \cup Children(f)

\* A child whose new name is taken undoes the renames; the subscriptions of
\* the children before it, in order of name, stay rewritten.
Rename(w, f, g, rewritten) ==
    /\ work[w].at = "idle" /\ Begin
    /\ f \in dirs \ {Inbox} /\ g \notin dirs /\ f # g
    /\ \A d \in Moving(f) : Under(f, g, d) \in Names
    /\ IF \E d \in Children(f) : Under(f, g, d) \in dirs
       THEN /\ rewritten \subseteq {d \in Children(f) : Under(f, g, d) \notin dirs}
            /\ UNCHANGED <<dirs, files>>
       ELSE /\ rewritten = Moving(f)
            /\ dirs' = (dirs \ Moving(f)) \cup {Under(f, g, d) : d \in Moving(f)}
            /\ files' = [d \in Names |->
                  IF d \in Moving(f) THEN 0
                  ELSE IF \E e \in Moving(f) : Under(f, g, e) = d
                  THEN files[CHOOSE e \in Moving(f) : Under(f, g, e) = d] ELSE files[d]]
    /\ subs' = (subs \ rewritten) \cup {Under(f, g, d) : d \in subs \cap rewritten}
    /\ Goes(w, Done)
    /\ UNCHANGED <<quota, usage, drift>>

Subscribe(w, f, on) ==
    /\ work[w].at = "idle" /\ Begin
    /\ subs' = IF on THEN subs \cup {f} ELSE subs \ {f}
    /\ UNCHANGED <<files, dirs, quota, usage, work, drift>>

-----------------------------------------------------------------------------
(* SETQUOTA and GETQUOTA *)

SetQuota(w, limit) ==
    /\ work[w].at = "idle" /\ Begin
    /\ quota' = limit
    /\ usage' = NoUsage
    /\ drift' = FALSE
    /\ Goes(w, Done)
    /\ UNCHANGED <<files, dirs, subs>>

\* quota_status counts and writes without the lock.
StatusScan(w) ==
    /\ work[w].at = "idle" /\ Begin
    /\ usage = NoUsage
    /\ work' = [work EXCEPT ![w] = [Done EXCEPT !.at = "status", !.n = Total, !.stale = InFlight]]
    /\ UNCHANGED <<files, dirs, subs, quota, usage, drift>>

StatusWrite(w) ==
    /\ work[w].at = "status"
    /\ usage' = work[w].n
    /\ drift' = (drift \/ work[w].stale)
    /\ Goes(w, Done)
    /\ UNCHANGED <<files, dirs, subs, quota, mbOps>>

\* The process dies with a reservation or a removal that is not accounted.
Crash(w) ==
    /\ work[w].at # "idle"
    /\ drift' = (drift \/ work[w].at = "release" \/ work[w].held # 0)
    /\ work' = [work EXCEPT ![w] = Done]
    /\ UNCHANGED <<files, dirs, subs, quota, usage, mbOps>>

-----------------------------------------------------------------------------
Next ==
    \E w \in Workers :
        \/ \E f \in Names, n \in 1..2 : StartAppend(w, f, n) \/ Expunge(w, f, n)
        \/ ReserveQuota(w) \/ Placed(w) \/ PlaceFails(w) \/ ReleaseQuota(w)
        \/ \E f \in Names : Create(w, f) \/ Delete(w, f) \/ RenameInbox(w, f)
        \/ \E f, g \in Names : \E r \in SUBSET Moving(f) : Rename(w, f, g, r)
        \/ \E f \in Names, on \in BOOLEAN : Subscribe(w, f, on)
        \/ \E limit \in Limits : SetQuota(w, limit)
        \/ StatusScan(w) \/ StatusWrite(w) \/ Crash(w)

Spec == Init /\ [][Next]_vars

-----------------------------------------------------------------------------
Pending == MapThenSumSet(LAMBDA w : CASE work[w].at = "place" -> work[w].held
                                      [] work[w].at = "release" -> work[w].n
                                      [] OTHER -> 0, Workers)

\* The cached usage is the messages there are, the ones about to be placed
\* and the ones removed but not yet released, however appends, failures,
\* expunges, renames and deletions of several sessions interleave.  It drifts
\* only when the messages are counted anew while an operation is in flight (a
\* release after SETQUOTA does so itself), when GETQUOTA counts and others
\* work, and when a process dies in between; SETQUOTA starts afresh.
UsageExact == ~drift /\ quota # 0 /\ usage # NoUsage => usage = Total + Pending
=============================================================================
