------------------------------- MODULE Backup -------------------------------
(***************************************************************************)
(* Backups of the configuration and the mail (crates/core/src/backup.rs)   *)
(* as the privileged actions backup.create, backup.restore and             *)
(* backup.delete use them (crates/priv/src/readers.rs).  Each file         *)
(* operation may fail, an archive may rot or be put there by hand, and the *)
(* process may be killed between two of them.  A checksum stands for the   *)
(* bytes it was taken of.                                                  *)
(***************************************************************************)
EXTENDS Naturals, FiniteSets, Functions

CONSTANTS
    Files,       \* the files a backup may hold
    Secrets,     \* those left out unless includeSecrets is given
    Values,      \* contents of a file
    Foreign,     \* a path outside the restore allowlist
    Names,       \* names of archives; snapshots have their own
    MaxChanges,  \* bound: edits of files and damages of archives
    MaxFailures  \* bound: failing operations and kills

VARIABLES
    public,     \* public mode
    disk,       \* the files
    archives,   \* name -> [members, form]: form is "plain", "gpg" or "rotten"
    notes,      \* name -> the metadata file
    op,         \* the operation under way
    report,     \* what the last operation answered
    before,     \* history: the files when the last restore began
    warned,     \* history: a rollback could not put a file back
    changes, failures

backupVars == <<public, disk, archives, notes, op, report, before, warned, changes, failures>>

Absent == "absent"
Snapshot == "pre-restore"
Idle == [do |-> "idle"]
Nothing == [is |-> "nothing"]
Put(f, k, v) == [x \in DOMAIN f \cup {k} |-> IF x = k THEN v ELSE f[x]]
Without(f, k) == Restrict(f, DOMAIN f \ {k})
Present == {f \in Files : disk[f] # Absent}

BackupInit ==
    /\ public \in BOOLEAN
    /\ disk \in [Files -> {CHOOSE v \in Values : TRUE, Absent}]
    /\ archives = [n \in {} |-> Nothing] /\ notes = [n \in {} |-> Nothing]
    /\ op = Idle /\ report = Nothing
    /\ before = disk /\ warned = FALSE
    /\ changes = 0 /\ failures = 0

Fails == failures < MaxFailures /\ failures' = failures + 1
Answer(a) == op' = Idle /\ report' = a
Refuse == Answer([is |-> "error"]) /\ UNCHANGED <<disk, archives, notes, before, warned>>

-----------------------------------------------------------------------------
(* backup.create *)

\* default_sources and add_tree: everything there is, without the secrets
\* unless asked for; what cannot be read is left out of a partial backup.
Collected(secrets, unreadable) == Present \ (unreadable \cup (IF secrets THEN {} ELSE Secrets))

\* create_archive: staged and renamed, so that it is there whole or not at all.
BackupCreate(n, secrets, allowPartial, passphrase, unreadable) ==
    LET files == Collected(secrets, unreadable) IN
    /\ op = Idle /\ n \notin DOMAIN archives
    /\ IF unreadable = {} THEN UNCHANGED failures ELSE Fails
    /\ IF (public /\ ~passphrase) \/ Present = {} \/ (unreadable # {} /\ ~allowPartial)
       THEN Refuse
       ELSE /\ archives' = Put(archives, n, [members |-> Restrict(disk, files), form |-> "plain"])
            /\ op' = [do |-> IF passphrase THEN "encrypt" ELSE "note", name |-> n,
                      partial |-> unreadable # {}, encrypted |-> passphrase, for |-> "create"]
            /\ report' = Nothing
            /\ UNCHANGED <<disk, notes, before, warned>>
    /\ UNCHANGED <<public, changes>>

\* What comes after the archive: the metadata of a backup or a snapshot.
Then(next) == op' = [op EXCEPT !.do = next] /\ UNCHANGED report

Restored(snapshot) == [is |-> "restored", name |-> op.from, snapshot |-> snapshot]

\* A snapshot that fails does not undo the restore: its answer carries a warning.
GiveUp == Answer(IF op.for = "create" THEN [is |-> "error"] ELSE Restored(FALSE))

\* encrypt_in_place: gpg, then the encrypted copy takes the place of the
\* archive.  When gpg fails the plain archive is removed.
Encrypt ==
    /\ op.do = "encrypt"
    /\ \/ archives' = [archives EXCEPT ![op.name].form = "gpg"] /\ Then("note") /\ UNCHANGED failures
       \/ archives' = Without(archives, op.name) /\ GiveUp /\ Fails
    /\ UNCHANGED <<public, disk, notes, before, warned, changes>>

\* The file for the encrypted copy cannot be made: an early return, which
\* leaves the plain archive of a create where it is.
EncryptNotStarted ==
    /\ op.do = "encrypt" /\ Fails
    /\ archives' = IF op.for = "create" THEN archives ELSE Without(archives, op.name)
    /\ GiveUp
    /\ UNCHANGED <<public, disk, notes, before, warned, changes>>

\* write_metadata, with the checksum of the archive as it is now.
WriteMetadata ==
    /\ op.do = "note"
    /\ \/ /\ notes' = Put(notes, op.name, [sha256 |-> archives[op.name], partial |-> op.partial,
                                            encrypted |-> op.encrypted])
          /\ Answer(IF op.for = "create" THEN [is |-> "created", name |-> op.name] ELSE Restored(TRUE))
          /\ UNCHANGED failures
       \/ /\ Fails /\ UNCHANGED notes
          /\ Answer(IF op.for = "create" THEN [is |-> "error"] ELSE Restored(TRUE))
    /\ UNCHANGED <<public, disk, archives, before, warned, changes>>

BackupDelete(n) ==
    /\ op = Idle /\ n \in DOMAIN archives
    /\ archives' = Without(archives, n)
    /\ \/ notes' = Without(notes, n) /\ Answer([is |-> "deleted"]) /\ UNCHANGED failures
       \/ n \in DOMAIN notes /\ UNCHANGED notes /\ Answer([is |-> "error"]) /\ Fails
    /\ UNCHANGED <<public, disk, before, warned, changes>>

-----------------------------------------------------------------------------
(* backup.restore *)

Unverified(n, passphrase, allowPartial) == n \in DOMAIN notes

\* restore_archive: metadata with a checksum, the bytes it was taken of,
\* and gpg or gzip as the metadata says.
Verified(n, passphrase, allowPartial) ==
    /\ n \in DOMAIN notes
    /\ notes[n].partial => allowPartial
    /\ notes[n].sha256 = archives[n]
    /\ IF notes[n].encrypted THEN passphrase ELSE archives[n].form = "plain"

\* normalize_member and validate_archive, for every member before anything lands.
ValidateArchive(n) == DOMAIN archives[n].members \subseteq Files

BackupRestore(n, passphrase, allowPartial, dryRun) ==
    /\ op = Idle /\ n \in DOMAIN archives
    /\ before' = disk /\ warned' = FALSE
    /\ IF /\ dryRun \/ ~public \/ passphrase
          /\ Verified(n, passphrase, allowPartial) /\ ValidateArchive(n)
       THEN IF dryRun THEN Answer([is |-> "preview"])
            ELSE /\ op' = [do |-> "land", from |-> n, todo |-> DOMAIN archives[n].members,
                           saved |-> [f \in {} |-> Absent], created |-> {}, encrypted |-> passphrase]
                 /\ report' = Nothing
       ELSE Answer([is |-> "failed"])
    /\ UNCHANGED <<public, disk, archives, notes, changes, failures>>

\* extract_archive after staging: the original is saved, then overwritten.
LandOne(f) ==
    /\ op.do = "land" /\ f \in op.todo
    /\ disk' = [disk EXCEPT ![f] = archives[op.from].members[f]]
    /\ op' = [op EXCEPT !.todo = @ \ {f},
                 !.saved = IF disk[f] = Absent THEN @ ELSE Put(@, f, disk[f]),
                 !.created = IF disk[f] = Absent THEN @ \cup {f} ELSE @]
    /\ UNCHANGED <<public, archives, notes, report, before, warned, changes, failures>>

RolledBackWithoutNew(o) == [o EXCEPT !.do = "rollback", !.created = {}]

\* rollback_landing goes over what was overwritten and what was created.
RolledBack(o) == [o EXCEPT !.do = "rollback"]

\* Saving the original fails, or writing the target does, which is then cut.
LandingFails(f) ==
    /\ op.do = "land" /\ f \in op.todo /\ Fails
    /\ \/ disk[f] # Absent /\ op' = RolledBack(op) /\ UNCHANGED disk
       \/ /\ disk' = [disk EXCEPT ![f] = "cut"]
          /\ op' = RolledBack([op EXCEPT !.saved = IF disk[f] = Absent THEN @ ELSE Put(@, f, disk[f]),
                                         !.created = IF disk[f] = Absent THEN @ \cup {f} ELSE @])
    /\ UNCHANGED <<public, archives, notes, report, before, warned, changes>>

\* A file that cannot be put back is only warned about.
RollbackOne(f) ==
    /\ op.do = "rollback" /\ f \in DOMAIN op.saved \cup op.created
    /\ op' = [op EXCEPT !.saved = Without(@, f), !.created = @ \ {f}]
    /\ \/ /\ disk' = [disk EXCEPT ![f] = IF f \in DOMAIN op.saved THEN op.saved[f] ELSE Absent]
          /\ UNCHANGED <<warned, failures>>
       \/ Fails /\ warned' = TRUE /\ UNCHANGED disk
    /\ UNCHANGED <<public, archives, notes, report, before, changes>>

RestoreFailed ==
    /\ op.do = "rollback" /\ DOMAIN op.saved = {} /\ op.created = {}
    /\ Answer([is |-> "failed"])
    /\ UNCHANGED <<public, disk, archives, notes, before, warned, changes, failures>>

\* pre_restore_snapshot, called when the files have landed.
PreRestoreSnapshot ==
    /\ op.do = "land" /\ op.todo = {}
    /\ \/ /\ Present # {}
          /\ archives' = Put(archives, Snapshot, [members |-> Restrict(disk, Present), form |-> "plain"])
          /\ op' = [do |-> IF op.encrypted THEN "encrypt" ELSE "note", name |-> Snapshot, from |-> op.from,
                    partial |-> FALSE, encrypted |-> op.encrypted, for |-> "restore"]
          /\ UNCHANGED <<report, failures>>
       \/ /\ IF Present = {} THEN UNCHANGED <<archives, failures>>
             ELSE Fails /\ archives' = Without(archives, Snapshot)
          /\ Answer(Restored(FALSE))
    /\ UNCHANGED <<public, disk, notes, before, warned, changes>>

-----------------------------------------------------------------------------
(* Around it *)

Killed ==
    /\ op # Idle /\ Fails
    /\ Answer(Nothing)
    /\ UNCHANGED <<public, disk, archives, notes, before, warned, changes>>

Change == changes < MaxChanges /\ changes' = changes + 1 /\ op = Idle /\ report' = Nothing

Edit(f, v) ==
    /\ Change /\ disk[f] # v
    /\ disk' = [disk EXCEPT ![f] = v]
    /\ UNCHANGED <<public, archives, notes, op, before, warned, failures>>

\* An archive is damaged, or replaced by one of another origin.
Tamper(n, members, form) ==
    /\ Change /\ n \in DOMAIN archives
    /\ archives' = [archives EXCEPT ![n] = [members |-> members, form |-> form]]
    /\ UNCHANGED <<public, disk, notes, op, before, warned, failures>>

\* An operator copies archive and metadata from elsewhere.
Import(n) ==
    /\ Change /\ n \notin DOMAIN archives
    /\ LET a == [members |-> [f \in {Foreign} |-> CHOOSE v \in Values : TRUE], form |-> "plain"]
       IN archives' = Put(archives, n, a)
          /\ notes' = Put(notes, n, [sha256 |-> a, partial |-> FALSE, encrypted |-> FALSE])
    /\ UNCHANGED <<public, disk, op, before, warned, failures>>

BackupNext ==
    \/ \E n \in Names, secrets, partial, passphrase \in BOOLEAN, unreadable \in SUBSET Present :
          BackupCreate(n, secrets, partial, passphrase, unreadable)
    \/ Encrypt \/ EncryptNotStarted \/ WriteMetadata
    \/ \E n \in Names \cup {Snapshot} :
          \/ BackupDelete(n)
          \/ \E passphrase, partial, dryRun \in BOOLEAN : BackupRestore(n, passphrase, partial, dryRun)
          \/ n \in DOMAIN archives /\ Tamper(n, [f \in DOMAIN archives[n].members |-> "cut"], archives[n].form)
          \/ Tamper(n, [f \in {} |-> Absent], "rotten")
    \/ \E n \in Names : Import(n)
    \/ \E f \in Files : LandOne(f) \/ LandingFails(f) \/ RollbackOne(f)
    \/ \E f \in Files, v \in Values \cup {Absent} : Edit(f, v)
    \/ RestoreFailed \/ PreRestoreSnapshot \/ Killed

Spec == BackupInit /\ [][BackupNext]_backupVars

-----------------------------------------------------------------------------
\* A restore lands everything its archive held when its checksum was taken
\* and nothing else, or, whatever failed and wherever, leaves every file as
\* it was; only a file the rollback could not write, which is warned about,
\* is excepted.
RestoreExact ==
    /\ report.is = "restored" /\ report.name # Snapshot =>
          LET members == notes[report.name].sha256.members
          IN disk = [f \in Files |-> IF f \in DOMAIN members THEN members[f] ELSE before[f]]
    /\ report.is = "failed" /\ ~warned => disk = before

\* The rollback point a restore reports holds the files as they were before
\* the restore.
SnapshotIsBefore ==
    report.is = "restored" /\ report.snapshot =>
        archives[Snapshot].members = Restrict(before, {f \in Files : before[f] # Absent})
=============================================================================
