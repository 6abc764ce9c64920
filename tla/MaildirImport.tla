--------------------------- MODULE MaildirImport ---------------------------
(***************************************************************************)
(* Taking over a folder from Dovecot (migration.rs, import_keywords and    *)
(* import_uidlist of maildir.rs), and the keyword letters in file names    *)
(* that live on: a keyword is a letter of the name, and a table in the      *)
(* folder says which.  The migration runs offline, may die at any point and *)
(* may be run again; sessions work on the folder once it has finished.      *)
(***************************************************************************)
EXTENDS Integers, Sequences, FiniteSets, FiniteSetsExt

CONSTANTS
    Importers,      \* sessions and deliveries of the daemon
    Letters,        \* 1..n: the letters, in order
    KeyWords,       \* keywords, in lower case
    OldBases,       \* messages Dovecot left
    NewBases,       \* messages that arrive later
    DoveWords,      \* the .dovecot-keywords files: [Letters -> KeyWords \cup {""}]
    DoveLists,      \* the dovecot-uidlist files: [version, valid, next, recs]
    MaxCrashes, MaxFlagging

VARIABLES
    dove,     \* [words, list]: what Dovecot left; no words or no list possible
    names,    \* per message on disk, the letters of its name
    table,    \* .mailstack-keywords, or NoTable
    uidlist,  \* .mailstack-uidlist, or NoList
    stage,    \* of the migration: "idle", "uids", "done"
    crashes,
    jobs,     \* per importer, the flags it is writing or the view it reads
    flaggings,
    meant,    \* history: the keywords each message was last given
    stale     \* history: a view showed a keyword its message did not have

importVars == <<dove, names, table, uidlist, stage, crashes, jobs, flaggings, meant, stale>>

NoTable == [l \in Letters |-> "no table"]
EmptyTable == [l \in Letters |-> ""]
NoList == [valid |-> 0, next |-> 0, uids |-> <<>>]
NoJob == [at |-> "idle", base |-> "", words |-> {}, letters |-> {}, table |-> NoTable]
OnDisk == DOMAIN names

-----------------------------------------------------------------------------
(* The migration                                                           *)

(* read_keywords: no table reads as an empty one *)
Read(t) == IF t = NoTable THEN EmptyTable ELSE t
(* import_keywords: never over a table of our own *)
Overwritten == dove.words
ImportedTable == IF table # NoTable \/ dove.words = EmptyTable THEN table ELSE dove.words
ImportKeywords ==
    /\ stage = "idle"
    /\ table' = ImportedTable
    /\ stage' = "uids"
    /\ UNCHANGED <<dove, names, uidlist, crashes, jobs, flaggings, meant, stale>>

(* parse_dovecot_uidlist: versions 1 to 3, a validity and a next UID *)
Parsed == dove.list.version \in 1..3 /\ dove.list.valid # 0
(* import_uidlist: the records of messages on disk, the first of each UID  *)
(* and of each message                                                     *)
Kept(recs) ==
    LET usable == {i \in DOMAIN recs : recs[i][1] # 0 /\ recs[i][2] \in OnDisk}
        first[i \in DOMAIN recs] ==
            i \in usable /\ \A j \in 1..(i - 1) : first[j] => recs[j][1] # recs[i][1] /\ recs[j][2] # recs[i][2]
    IN  {recs[i] : i \in {j \in DOMAIN recs : first[j]}}
NextHint(recs) == dove.list.next
NextUid(recs) == Max({dove.list.next, 1} \cup {r[1] + 1 : r \in Kept(recs)})
ImportUidlist ==
    LET kept == Kept(dove.list.recs) IN
    /\ stage = "uids"
    /\ uidlist' = IF ~Parsed \/ uidlist # NoList \/ kept = {} THEN uidlist
                  ELSE [valid |-> dove.list.valid, next |-> NextUid(dove.list.recs),
                        uids |-> [b \in {r[2] : r \in kept} |-> (CHOOSE r \in kept : r[2] = b)[1]]]
    /\ stage' = "done"
    /\ UNCHANGED <<dove, names, table, crashes, jobs, flaggings, meant, stale>>

(* It dies half-way and is run again, or is run a second time; the daemon   *)
(* is not running                                                          *)
MigrateAgain ==
    /\ stage # "idle" /\ crashes < MaxCrashes /\ \A w \in Importers : jobs[w] = NoJob
    /\ crashes' = crashes + 1
    /\ stage' = "idle"
    /\ UNCHANGED <<dove, names, table, uidlist, jobs, flaggings, meant, stale>>

-----------------------------------------------------------------------------
(* The daemon: keywords                                                    *)

Free(t) == {l \in Letters : t[l] = ""}
Known(t) == {t[l] : l \in Letters} \ {""}
(* suffix_with_keyword_allocation, under the lock of the table: each new    *)
(* keyword takes the first free letter                                     *)
Allocated(t, words) ==
    LET new == words \ Known(t)
        order == CHOOSE f \in [1..Cardinality(new) -> new] : \A i, j \in DOMAIN f : i # j => f[i] # f[j]
        slots == Free(t)
        nth[i \in 1..Cardinality(new)] == Min(slots \ {nth[j] : j \in 1..(i - 1)})
    IN  [l \in Letters |-> IF \E i \in 1..Cardinality(new) : nth[i] = l
                           THEN order[CHOOSE i \in 1..Cardinality(new) : nth[i] = l] ELSE t[l]]
Fits(t, words) == Cardinality(words \ Known(t)) <= Cardinality(Free(t))
(* flags_suffix: of a keyword with two letters, the first *)
Suffix(t, words) == {Min({l \in Letters : t[l] = w}) : w \in words \cap Known(t)}
(* parse_flags_from_name *)
Decoded(t, letters) == {t[l] : l \in letters} \ {""}

StoreFlags(w, b, words) ==
    LET t == Read(table) IN
    /\ stage = "done" /\ jobs[w] = NoJob /\ flaggings < MaxFlagging
    /\ b \in OnDisk \/ b \in NewBases
    /\ \A v \in Importers : jobs[v].base # b
    /\ Fits(t, words)
    /\ table' = IF words \subseteq Known(t) THEN table ELSE Allocated(t, words)
    /\ jobs' = [jobs EXCEPT ![w] = [NoJob EXCEPT !.at = "named", !.base = b, !.words = words,
                                                 !.letters = Suffix(Allocated(t, words), words)]]
    /\ flaggings' = flaggings + 1
    /\ UNCHANGED <<dove, names, uidlist, stage, crashes, meant, stale>>

(* The rename that gives the file its name, or the append's *)
RenameFile(w) ==
    LET b == jobs[w].base IN
    /\ jobs[w].at = "named"
    /\ names' = [c \in OnDisk \cup {b} |-> IF c = b THEN jobs[w].letters ELSE names[c]]
    /\ meant' = [meant EXCEPT ![b] = jobs[w].words]
    /\ jobs' = [jobs EXCEPT ![w] = NoJob]
    /\ UNCHANGED <<dove, table, uidlist, stage, crashes, flaggings, stale>>

(* open_folder: the table, then the names, then the UIDs *)
OpenReads(w) ==
    /\ stage = "done" /\ jobs[w] = NoJob
    /\ jobs' = [jobs EXCEPT ![w] = [NoJob EXCEPT !.at = "read", !.table = Read(table)]]
    /\ UNCHANGED <<dove, names, table, uidlist, stage, crashes, flaggings, meant, stale>>
FreshValidity == 99
(* sync_uidlist: without a list of our own a new validity; the messages not *)
(* listed take the next UIDs                                               *)
Synced ==
    LET old == IF uidlist = NoList THEN [valid |-> FreshValidity, next |-> 1, uids |-> <<>>] ELSE uidlist
        fresh == OnDisk \ DOMAIN old.uids
        order == CHOOSE f \in [1..Cardinality(fresh) -> fresh] : \A i, j \in DOMAIN f : i # j => f[i] # f[j]
    IN  [valid |-> old.valid, next |-> old.next + Cardinality(fresh),
         uids |-> [b \in OnDisk |-> IF b \in fresh THEN old.next + (CHOOSE i \in DOMAIN order : order[i] = b) - 1 ELSE old.uids[b]]]
OpenScans(w) ==
    /\ jobs[w].at = "read"
    /\ uidlist' = Synced
    /\ jobs' = [jobs EXCEPT ![w] = NoJob]
    /\ stale' = (stale \/ \E b \in OnDisk : ~(Decoded(jobs[w].table, names[b]) \subseteq meant[b]))
    /\ UNCHANGED <<dove, names, table, stage, crashes, flaggings, meant>>
-----------------------------------------------------------------------------
ImportInit ==
    /\ dove \in [words : DoveWords, list : DoveLists]
    /\ names \in [OldBases -> SUBSET {l \in Letters : dove.words[l] # ""}]
    /\ table = NoTable
    /\ uidlist = NoList
    /\ stage = "idle"
    /\ crashes = 0
    /\ jobs = [w \in Importers |-> NoJob]
    /\ flaggings = 0
    /\ stale = FALSE
    /\ meant = [b \in OldBases \cup NewBases |-> IF b \in OldBases THEN Decoded(dove.words, names[b]) ELSE {}]

ImportNext ==
    \/ ImportKeywords \/ ImportUidlist \/ MigrateAgain
    \/ \E w \in Importers :
          \/ \E b \in OldBases \cup NewBases, words \in SUBSET KeyWords : StoreFlags(w, b, words)
          \/ RenameFile(w) \/ OpenReads(w) \/ OpenScans(w)

-----------------------------------------------------------------------------
(* Once the migration is through, every name on disk means the keywords    *)
(* the message was last given, by Dovecot or since, whatever letters were   *)
(* allocated meanwhile and however often the migration is run; and a view   *)
(* never showed a keyword its message did not have                         *)
KeywordsMean ==
    /\ stage = "done" => \A b \in OnDisk : Decoded(Read(table), names[b]) = meant[b]
    /\ ~stale
(* A message Dovecot listed keeps its UID, under Dovecot's validity, and no *)
(* other message is ever given a UID Dovecot had given                     *)
UidsTakenOver ==
    uidlist # NoList /\ uidlist.valid = dove.list.valid =>
        /\ \A r \in Kept(dove.list.recs) : r[2] \in OldBases => uidlist.uids[r[2]] = r[1]
        /\ \A b \in DOMAIN uidlist.uids :
              \A i \in DOMAIN dove.list.recs : uidlist.uids[b] = dove.list.recs[i][1] =>
                  \E j \in DOMAIN dove.list.recs : dove.list.recs[j] = <<uidlist.uids[b], b>>
TakenOver == KeywordsMean /\ UidsTakenOver
=============================================================================
