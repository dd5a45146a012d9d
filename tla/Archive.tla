------------------------------- MODULE Archive -------------------------------
(***************************************************************************)
(* The database file as a whole (services.py, backup.py): snapshots with   *)
(* their manifests, the restore that puts one back while requests are      *)
(* served, and the buffer that writes the last use of credentials behind   *)
(* the requests' backs.  The back end is SQLite.                           *)
(*                                                                         *)
(* events.id is an AUTOINCREMENT column, and its sequence is part of the   *)
(* file: a restore takes the numbers back as well, so the id of the newest *)
(* event is the length of the log.                                         *)
(***************************************************************************)
EXTENDS Naturals, Sequences, FiniteSets, FiniteSetsExt, Absence

CONSTANTS Backups,      \* names of managed snapshots
          Creds,
          MaxKept,      \* auto_backup_max_kept
          MaxWork,      \* bound on the writes of the Rooms
          MaxLog,       \* bound on the events of one database
          MaxUses,      \* bound on the uses of a credential
          MaxFailures,  \* bound on the flushes that the database refuses
          MaxCrashes    \* bound on the ends of the process

ASSUME ArchiveAssumption ==
    /\ None \notin Backups
    /\ {MaxKept, MaxWork, MaxLog, MaxUses, MaxFailures, MaxCrashes} \subseteq Nat

VARIABLES log,       \* the events: the number of a Room's write, 0 for an audit event
          recorded,  \* agent_credentials.last_used_at
          work,      \* history: the writes so far
          backup,    \* the files of backups/
          op,        \* who holds _backup_restore_lock, and how far it got
          pending,   \* TokenTouchBuffer._pending
          inflight,  \* what flush has taken out of it
          failures,
          crashes

vars == <<log, recorded, work, backup, op, pending, inflight, failures, crashes>>
database == <<log, recorded>>
touches == <<pending, inflight, failures>>

Nothing == [c \in Creds |-> 0]

\* born orders the snapshots by the created_at of their manifests.  History: the
\* writes there had been when the cursor of the manifest was read, whether a
\* restore came after that, and the events there were when the backup was done.
NoBackup == [file |-> FALSE, manifest |-> FALSE, log |-> <<>>, recorded |-> Nothing,
             covers |-> 0, born |-> 0, until |-> 0, rewound |-> FALSE, doneAt |-> 0]
Free == [step |-> "free", backup |-> None, consent |-> FALSE]

Log == Seq(0..MaxWork)
Uses == [Creds -> 0..MaxUses]

TypeOK ==
    /\ log \in Log /\ recorded \in Uses /\ work \in 0..MaxWork
    /\ backup \in [Backups ->
          [file : BOOLEAN, manifest : BOOLEAN, log : Log, recorded : Uses, covers : Nat,
           born : Nat, until : Nat, rewound : BOOLEAN, doneAt : Nat]]
    /\ op \in [step : {"free", "copied", "listed", "covered", "told",
                       "checked", "replaced", "started"},
               backup : Backups \cup {None}, consent : BOOLEAN]
    /\ {pending, inflight} \subseteq Uses
    /\ failures \in 0..MaxFailures /\ crashes \in 0..MaxCrashes

Init ==
    /\ log = <<>> /\ work = 0 /\ failures = 0 /\ crashes = 0
    /\ recorded = Nothing /\ pending = Nothing /\ inflight = Nothing
    /\ backup = [b \in Backups |-> NoBackup]
    /\ op = Free

-----------------------------------------------------------------------------
(* Writing to the live file. *)

\* Fault: the check of a restore holds no lock.
NeverExclusive == FALSE

\* From its check to its copy a restore holds the file in exclusive mode.
Exclusive == op.step = "checked"

Writable == ~Exclusive /\ Len(log) < MaxLog

Latest == Len(log)

Emit == Writable /\ log' = Append(log, 0)

Work ==
    /\ Writable
    /\ work < MaxWork
    /\ work' = work + 1
    /\ log' = Append(log, work')
    /\ UNCHANGED <<recorded, backup, op, touches, crashes>>

-----------------------------------------------------------------------------
(* create_backup, which the worker for automatic backups calls as well. *)

Step(step) == op' = [op EXCEPT !.step = step]

Snapshot(b) ==
    /\ op = Free
    /\ backup[b] = NoBackup
    /\ op' = [Free EXCEPT !.step = "copied", !.backup = b]
    /\ backup' = [backup EXCEPT ![b].log = log, ![b].recorded = recorded]
    /\ UNCHANGED <<database, work, touches, crashes>>

Newest == Max({backup[b].born : b \in Backups})

\* backup_sqlite moves the copy into place and writes a manifest without cursor.
Publish ==
    /\ op.step = "copied"
    /\ Step("listed")
    /\ backup' = [backup EXCEPT ![op.backup].file = TRUE, ![op.backup].manifest = TRUE,
                                ![op.backup].born = 1 + Newest]
    /\ UNCHANGED <<database, work, touches, crashes>>

Cover(b) ==
    [backup EXCEPT ![b].manifest = TRUE, ![b].covers = Latest, ![b].until = work,
                   ![b].rewound = FALSE]

\* The cursor is read after the copy was made.
WriteCursor ==
    /\ op.step = "listed"
    /\ Step("covered")
    /\ backup' = Cover(op.backup)
    /\ UNCHANGED <<database, work, touches, crashes>>

\* backup.created
TellCreated ==
    /\ op.step = "covered"
    /\ Emit
    /\ Step("told")
    /\ UNCHANGED <<recorded, work, backup, touches, crashes>>

\* _prune_backups lists the manifests, newest first.
Kept(files, b) ==
    files[b].manifest =>
        Cardinality({c \in Backups : files[c].manifest /\ files[c].born > files[b].born}) < MaxKept

Prune(files) == [b \in Backups |-> IF Kept(files, b) THEN files[b] ELSE NoBackup]

\* Fault: the manifest keeps its first cursor.
FirstCursor(b) == backup

\* The cursor is read again: the event of the backup is covered by it.
SecondCursor(b) == Cover(b)

FinishBackup ==
    /\ op.step = "told"
    /\ op' = Free
    /\ backup' = Prune([SecondCursor(op.backup) EXCEPT ![op.backup].doneAt = Latest])
    /\ UNCHANGED <<database, work, touches, crashes>>

\* delete_backup takes no lock.
DeleteBackup(b) ==
    /\ backup[b].file
    /\ Emit
    /\ backup' = [backup EXCEPT ![b] =
          IF op.backup = b THEN [@ EXCEPT !.file = FALSE, !.manifest = FALSE] ELSE NoBackup]
    /\ UNCHANGED <<recorded, work, op, touches, crashes>>

-----------------------------------------------------------------------------
(* restore_backup. *)

Stale(b) == backup[b].covers < Latest

Complete(b) == backup[b].file /\ backup[b].manifest

RestoreCheck(b, consent) ==
    /\ op = Free
    /\ Complete(b)
    /\ ~Stale(b) \/ consent
    /\ op' = [step |-> "checked", backup |-> b, consent |-> consent]
    /\ UNCHANGED <<database, work, backup, touches, crashes>>

\* backup.restore_rejected, which makes the newest backup stale
RestoreRejected(b) ==
    /\ op = Free
    /\ Complete(b) => Stale(b)
    /\ Emit
    /\ UNCHANGED <<recorded, work, backup, op, touches, crashes>>

RestoreCopy ==
    /\ op.step = "checked"
    /\ backup[op.backup].file
    /\ log' = backup[op.backup].log
    /\ recorded' = backup[op.backup].recorded
    /\ backup' = [b \in Backups |-> [backup[b] EXCEPT !.rewound = backup[b].manifest]]
    /\ Step("replaced")
    /\ UNCHANGED <<work, touches, crashes>>

\* The file has been deleted or the database is busy.
RestoreFails ==
    /\ op.step = "checked"
    /\ op' = Free
    /\ UNCHANGED <<database, work, backup, touches, crashes>>

\* backup.restore_started, written after the copy to survive it
TellStarted ==
    /\ op.step = "replaced"
    /\ Emit
    /\ Step("started")
    /\ UNCHANGED <<recorded, work, backup, touches, crashes>>

\* backup.restore_completed
TellCompleted ==
    /\ op.step = "started"
    /\ Emit
    /\ op' = Free
    /\ UNCHANGED <<recorded, work, backup, touches, crashes>>

-----------------------------------------------------------------------------
(* TokenTouchBuffer. *)

\* The times of use that are known, numbered.
LastUse(c) == Max({pending[c], inflight[c], recorded[c]})

Note(c) ==
    /\ LastUse(c) < MaxUses
    /\ pending' = [pending EXCEPT ![c] = LastUse(c) + 1]
    /\ UNCHANGED <<database, work, backup, op, inflight, failures, crashes>>

\* flush takes everything out under its lock, and writes it without.
FlushTakes ==
    /\ inflight = Nothing
    /\ pending # Nothing
    /\ inflight' = pending
    /\ pending' = Nothing
    /\ UNCHANGED <<database, work, backup, op, failures, crashes>>

FlushWrites ==
    /\ inflight # Nothing
    /\ ~Exclusive
    /\ recorded' = [c \in Creds |-> IF inflight[c] = 0 THEN recorded[c] ELSE inflight[c]]
    /\ inflight' = Nothing
    /\ UNCHANGED <<log, work, backup, op, pending, failures, crashes>>

\* Fault: what could not be written replaces what was noted since.
PutBackOver(c) == IF inflight[c] = 0 THEN pending[c] ELSE inflight[c]

\* setdefault: a use that was noted since stays.
PutBack(c) == IF pending[c] = 0 THEN inflight[c] ELSE pending[c]

FlushFails ==
    /\ inflight # Nothing
    /\ failures < MaxFailures
    /\ failures' = failures + 1
    /\ pending' = [c \in Creds |-> PutBack(c)]
    /\ inflight' = Nothing
    /\ UNCHANGED <<database, work, backup, op, crashes>>

\* The process ends anywhere; what only it knew is forgotten.
Crash ==
    /\ crashes < MaxCrashes
    /\ crashes' = crashes + 1
    /\ op' = Free
    /\ pending' = Nothing /\ inflight' = Nothing
    /\ backup' = [b \in Backups |-> IF backup[b].file \/ backup[b].manifest THEN backup[b] ELSE NoBackup]
    /\ UNCHANGED <<database, work, failures>>

-----------------------------------------------------------------------------
CreateStep == Publish \/ WriteCursor \/ TellCreated \/ FinishBackup
RestoreStep == RestoreCopy \/ RestoreFails \/ TellStarted \/ TellCompleted

Next ==
    \/ Work
    \/ CreateStep
    \/ RestoreStep
    \/ \E b \in Backups : \/ Snapshot(b) \/ DeleteBackup(b) \/ RestoreRejected(b)
                          \/ \E consent \in BOOLEAN : RestoreCheck(b, consent)
    \/ \E c \in Creds : Note(c)
    \/ FlushTakes \/ FlushWrites \/ FlushFails
    \/ Crash

Spec == Init /\ [][Next]_vars

\* The buffer's thread goes on by itself: it wakes up after every interval, and
\* SQLite makes its write wait for the lock and not merely fail.  The thread of
\* a request finishes the copy it began.
FairSpec ==
    /\ Spec
    /\ WF_vars(FlushTakes) /\ SF_vars(FlushWrites)
    /\ WF_vars(RestoreCopy \/ RestoreFails)

-----------------------------------------------------------------------------
(* Properties. *)

Kinds(l) == {l[i] : i \in DOMAIN l} \ {0}

\* A copy that replaces the live file although nobody agreed to lose data.
SilentCopy == op.step = "checked" /\ op'.step = "replaced" /\ ~op.consent

\* create_backup: "a fresh backup is never stale".  While nothing is written
\* after a backup is finished, it can be restored without consent.
FreshBackupRestores ==
    \A b \in Backups :
        backup[b].doneAt # 0 /\ Latest = backup[b].doneAt => ~Stale(b)

\* As long as no restore has taken event numbers back, the writes that a
\* restore without consent drops were made before the backup was finished: none
\* comes in between the check and the copy.
OnlyEarlierWritesDropped ==
    [][SilentCopy /\ ~backup[op.backup].rewound =>
          \A n \in Kinds(log) \ Kinds(log') : n <= backup[op.backup].until]_vars

\* The last use of a credential reaches the database although flushes fail and
\* the buffer fills again meanwhile, unless the process ends before.
UsesAreRecorded ==
    \A c \in Creds, n \in 1..MaxUses :
        (pending[c] = n /\ crashes = 0) ~> (recorded[c] >= n \/ crashes > 0)

\* restore_backup: a restore without allow_data_loss loses no event that a Room
\* wrote ("so concurrent writers cannot land in the window that
\* allow_data_loss=False claims is empty").
NoSilentLoss == [][SilentCopy => Kinds(log) \subseteq Kinds(log')]_vars
=============================================================================
