------------------------------ MODULE DkimKeys ------------------------------
(***************************************************************************)
(* The DKIM keys of the installation and the signing of outbound mail.     *)
(* The console rotates a key (keys::rotate) on its own or as part of the   *)
(* set-up (setup_identity_apply): under a file lock it stages a new pair,   *)
(* renames the public record into place, then the private key, and takes    *)
(* the record back when the second rename fails.  Meanwhile the queue signs *)
(* (queue::signing): it reads the policy, compares the key file's time and  *)
(* length with those of the key it cached, and loads the file when they     *)
(* differ.  Nothing but the file system orders the two programs.            *)
(***************************************************************************)
EXTENDS Integers, FiniteSets

CONSTANTS
    Rotators,   \* console calls that may run at the same time
    Signers,    \* delivery tasks of the queue
    Selectors,
    MaxKeys,    \* bound on the keys generated
    MaxBroken   \* bound on renames, rollbacks and loads that fail, and on crashes

VARIABLES
    key,      \* key[s]: the private key in selector s's file, 0 = no file
    readable, \* readable[s]: its group was set, so that the queue may read it
    record,   \* record[s]: the key the .txt file describes, 0 = no file
    locks,    \* locks[s]: the rotation that holds the file lock, "none"
    setup,    \* the selector setup.json names, "none" before the set-up
    rotation, \* rotation[r]: a console call
    made,     \* keys generated so far
    cached,   \* KEY_CACHE: [of, stamp, key]
    holder,   \* the signer that holds the cache's mutex
    signing,  \* signing[d]: a delivery's message
    torn,     \* selectors whose pair a crash or a failed rollback left unequal
    broken

dkimVars == <<key, readable, record, locks, setup, rotation, made, cached, holder, signing, torn, broken>>

NoKey == 0
Idle == [at |-> "idle"]
Fault == broken < MaxBroken /\ broken' = broken + 1
NoFault == broken' = broken

-----------------------------------------------------------------------------
(* keys::rotate *)

(* locked_with waits for the file lock of the private key; the record is   *)
(* kept to be put back.                                                    *)
Lock(r) ==
    /\ rotation[r] = Idle
    /\ made < MaxKeys
    /\ \E s \in Selectors, apply \in BOOLEAN :
         /\ locks[s] = "none"
         /\ locks' = [locks EXCEPT ![s] = r]
         /\ rotation' = [rotation EXCEPT ![r] = [at |-> "stage", s |-> s, apply |-> apply, old |-> record[s], new |-> NoKey, readable |-> TRUE]]
    /\ UNCHANGED <<key, readable, record, setup, made, cached, holder, signing, torn, broken>>

(* A new pair in a directory of its own; setting the group is best effort *)
Stage(r) ==
    /\ rotation[r].at = "stage"
    /\ made < MaxKeys
    /\ made' = made + 1
    /\ \E ok \in BOOLEAN :
         /\ IF ok THEN NoFault ELSE Fault
         /\ rotation' = [rotation EXCEPT ![r].at = "record", ![r].new = made + 1, ![r].readable = ok]
    /\ UNCHANGED <<key, readable, record, locks, setup, cached, holder, signing, torn>>

Release(r) == locks' = [locks EXCEPT ![rotation[r].s] = "none"]
End(r, answer) == Release(r) /\ rotation' = [rotation EXCEPT ![r].at = answer]

(* The public record first: if that fails nothing was changed *)
PublishRecord(r) ==
    LET s == rotation[r].s IN
    /\ rotation[r].at = "record"
    /\ \/ /\ record' = [record EXCEPT ![s] = rotation[r].new]
          /\ rotation' = [rotation EXCEPT ![r].at = "key"]
          /\ NoFault /\ UNCHANGED locks
       \/ Fault /\ End(r, "failed") /\ UNCHANGED record
    /\ UNCHANGED <<key, readable, setup, made, cached, holder, signing, torn>>

(* Every signer at work sees the new key from here on *)
Noticed(s, new) == [d \in Signers |-> IF signing[d] # Idle /\ signing[d].s = s
                                      THEN [signing[d] EXCEPT !.seen = @ \cup {new}]
                                      ELSE signing[d]]
PublishKey(r) ==
    LET s == rotation[r].s IN
    /\ rotation[r].at = "key"
    /\ \/ /\ key' = [key EXCEPT ![s] = rotation[r].new]
          /\ readable' = [readable EXCEPT ![s] = rotation[r].readable]
          /\ rotation' = [rotation EXCEPT ![r].at = IF rotation[r].apply THEN "setup" ELSE "ok"]
          /\ signing' = Noticed(s, rotation[r].new)
          /\ Release(r)
          /\ torn' = torn \ {s}
          /\ NoFault
       \/ /\ Fault
          /\ rotation' = [rotation EXCEPT ![r].at = "rollback"]
          /\ UNCHANGED <<key, readable, signing, locks, torn>>
    /\ UNCHANGED <<record, setup, made, cached, holder>>

(* rollback_txt: file_restore of the record read under the lock *)
NotRestored(s, t) == record
Restored(s, t) == [record EXCEPT ![s] = t.old]
RollbackRecord(r) ==
    LET s == rotation[r].s IN
    /\ rotation[r].at = "rollback"
    /\ \/ record' = Restored(s, rotation[r]) /\ NoFault /\ UNCHANGED torn
       \/ Fault /\ torn' = torn \cup {s} /\ UNCHANGED record
    /\ End(r, "failed")
    /\ UNCHANGED <<key, readable, setup, made, cached, holder, signing>>

(* setup_identity_apply goes on to write setup.json *)
WriteSetup(r) ==
    /\ rotation[r].at = "setup"
    /\ \/ /\ setup' = rotation[r].s
          /\ rotation' = [rotation EXCEPT ![r].at = "ok"]
          /\ NoFault
          /\ signing' = [d \in Signers |-> IF signing[d] # Idle /\ signing[d].at = "policy" THEN [signing[d] EXCEPT !.configured = @ \cup {setup'}] ELSE signing[d]]
       \/ Fault /\ rotation' = [rotation EXCEPT ![r].at = "failed"] /\ UNCHANGED <<setup, signing>>
    /\ UNCHANGED <<key, readable, record, locks, made, cached, holder, torn>>

(* The console's helper dies: its lock goes, and so may the pair's match *)
Crash(r) ==
    /\ rotation[r].at \in {"stage", "record", "key", "rollback", "setup"}
    /\ Fault
    /\ rotation' = [rotation EXCEPT ![r] = Idle]
    /\ IF rotation[r].at = "setup" THEN UNCHANGED <<locks, torn>>
       ELSE /\ Release(r)
            /\ torn' = IF rotation[r].at \in {"key", "rollback"} THEN torn \cup {rotation[r].s} ELSE torn
    /\ UNCHANGED <<key, readable, record, setup, made, cached, holder, signing>>

-----------------------------------------------------------------------------
(* queue::signing *)

(* A delivery starts: its message is from the installation's domain or not *)
Begin(d) ==
    /\ signing[d] = Idle
    /\ \E ours \in BOOLEAN :
         signing' = [signing EXCEPT ![d] = [at |-> "policy", ours |-> ours, s |-> "none", configured |-> {setup}, stamp |-> NoKey,
                                            loaded |-> NoKey, seen |-> {}, with |-> NoKey]]
    /\ UNCHANGED <<key, readable, record, locks, setup, rotation, made, cached, holder, torn, broken>>

(* signing_policy: setup.json, then whether the key file exists; and the   *)
(* From domain, which the policy's domain must cover                       *)
Unsigned(d) == signing' = [signing EXCEPT ![d].at = "unsigned"]
Policy(d) ==
    /\ signing[d].at = "policy"
    /\ \/ setup = "none" /\ Unsigned(d)
       \/ setup # "none" /\ key[setup] = NoKey /\ Unsigned(d)
       \/ setup # "none" /\ key[setup] # NoKey /\ ~signing[d].ours /\ Unsigned(d)
       \/ /\ setup # "none" /\ key[setup] # NoKey /\ signing[d].ours
          /\ signing' = [signing EXCEPT ![d].at = "stat", ![d].s = setup, ![d].seen = {key[setup]}]
    /\ UNCHANGED <<key, readable, record, locks, setup, rotation, made, cached, holder, torn, broken>>

(* cached_private_key: the file's time and length, before the mutex *)
Stat(d) ==
    /\ signing[d].at = "stat"
    /\ signing' = [signing EXCEPT ![d].at = "cache", ![d].stamp = key[signing[d].s]]
    /\ UNCHANGED <<key, readable, record, locks, setup, rotation, made, cached, holder, torn, broken>>

AlwaysFresh(t) == cached.of = t.s
Fresh(t) == cached.of = t.s /\ cached.stamp = t.stamp
Failed(d) == signing' = [signing EXCEPT ![d].at = "deferred"]
(* Under the mutex: the cached key, or the file as it is now *)
Load(d) ==
    LET t == signing[d] IN
    /\ t.at = "cache"
    /\ holder = "none"
    /\ \/ /\ Fresh(t)
          /\ signing' = [signing EXCEPT ![d].at = "signed", ![d].with = cached.key]
          /\ NoFault /\ UNCHANGED holder
       \/ /\ ~Fresh(t) /\ readable[t.s]
          /\ signing' = [signing EXCEPT ![d].at = "keep", ![d].loaded = key[t.s]]
          /\ holder' = d
          /\ NoFault
       \/ ~Fresh(t) /\ (IF readable[t.s] THEN Fault ELSE NoFault) /\ Failed(d) /\ UNCHANGED holder
    /\ UNCHANGED <<key, readable, record, locks, setup, rotation, made, cached, torn>>

(* The cache remembers the file as it was before it was read *)
StampNow(t) == key[t.s]
StampOf(t) == t.stamp
Keep(d) ==
    LET t == signing[d] IN
    /\ t.at = "keep"
    /\ cached' = [of |-> t.s, stamp |-> StampOf(t), key |-> t.loaded]
    /\ holder' = "none"
    /\ signing' = [signing EXCEPT ![d].at = "signed", ![d].with = t.loaded]
    /\ UNCHANGED <<key, readable, record, locks, setup, rotation, made, torn, broken>>

(* SigningTransport hands the message on, or defers it as a local fault *)
Handed(d) ==
    /\ signing[d].at \in {"signed", "unsigned", "deferred"}
    /\ signing' = [signing EXCEPT ![d] = Idle]
    /\ UNCHANGED <<key, readable, record, locks, setup, rotation, made, cached, holder, torn, broken>>

DkimInit ==
    /\ key = [s \in Selectors |-> NoKey] /\ record = key
    /\ readable = [s \in Selectors |-> TRUE]
    /\ locks = [s \in Selectors |-> "none"]
    /\ setup = "none" /\ made = 0 /\ holder = "none" /\ torn = {} /\ broken = 0
    /\ cached = [of |-> "none", stamp |-> NoKey, key |-> NoKey]
    /\ rotation = [r \in Rotators |-> Idle]
    /\ signing = [d \in Signers |-> Idle]

DkimNext ==
    \/ \E r \in Rotators : Lock(r) \/ Stage(r) \/ PublishRecord(r) \/ PublishKey(r) \/ RollbackRecord(r) \/ WriteSetup(r) \/ Crash(r)
    \/ \E d \in Signers : Begin(d) \/ Policy(d) \/ Stat(d) \/ Load(d) \/ Keep(d) \/ Handed(d)

Spec == DkimInit /\ [][DkimNext]_dkimVars

\* Assumed of the constants: "none" is no selector and no caller.
DkimConstants == "none" \notin Selectors /\ "none" \notin Rotators

-----------------------------------------------------------------------------
(* A signature is made with a key that was in the file at some moment of   *)
(* that delivery's own signing, however rotations and other deliveries     *)
(* fall between its looking at the file, taking the mutex and reading the  *)
(* file (cached_private_key); and mail of the installation's own domain    *)
(* goes out unsigned only if the set-up was not done when its delivery     *)
(* began: the set-up names a selector after its key is in place.           *)
SignedWithCurrentKey ==
    \A d \in Signers :
        /\ signing[d].at = "signed" => signing[d].with \in signing[d].seen
        /\ signing[d].at = "unsigned" /\ signing[d].ours => "none" \in signing[d].configured

(* Whenever no rotation holds a selector's lock, the record the console    *)
(* shows for it describes the key the queue signs with, unless a crash or  *)
(* a rollback that failed too came between (rotate_locked).                *)
RecordMatchesKey ==
    \A s \in Selectors : locks[s] = "none" /\ s \notin torn => record[s] = key[s]
=============================================================================
