---------------------------- MODULE ArchiveProofs ----------------------------
(***************************************************************************)
(* Backups and restores of Archive, for any snapshots, credentials and     *)
(* bounds.                                                                 *)
(*                                                                         *)
(* A cursor speaks for a prefix of the log: while no restore has taken     *)
(* numbers back, the first covers events of the log are those that were    *)
(* there when the cursor was read, none younger than until.  The check of  *)
(* a restore finds that nothing follows the prefix, and the exclusive lock *)
(* keeps it so until the copy.                                             *)
(***************************************************************************)
EXTENDS Archive, SequenceTheorems, WellFoundedInduction, TLAPS

BackupRows ==
    [file : BOOLEAN, manifest : BOOLEAN, log : Log, recorded : Uses, covers : Nat,
     born : Nat, until : Nat, rewound : BOOLEAN, doneAt : Nat]

\* A log holds no write beyond the first w.
Known(l, w) == \A i \in 1..Len(l) : l[i] <= w

\* The cursor of a manifest speaks for a prefix of the log.
Speaks(q, l) ==
    q.manifest /\ ~q.rewound =>
        /\ q.covers <= Len(l)
        /\ \A i \in 1..q.covers : l[i] <= q.until

SnapshotInv(q, l, w) ==
    /\ q \in BackupRows
    /\ Known(q.log, w)
    /\ q.doneAt <= q.covers
    /\ Speaks(q, l)

BornBounded == \E n \in Nat : \A b \in Backups : backup[b].born <= n

\* What the holder of the lock relies on: a backup under way is not done, and
\* nothing follows what a restore without consent has been checked to cover.
Creating == {"copied", "listed", "covered", "told"}

HolderInv ==
    op.step # "free" =>
        /\ op.backup \in Backups
        /\ op.step = "copied" => backup[op.backup].covers = 0
        /\ op.step \in Creating => backup[op.backup].doneAt = 0
        /\ op.step = "checked" =>
              /\ backup[op.backup].manifest
              /\ op.consent \/ Len(log) <= backup[op.backup].covers

ArchiveInv ==
    /\ TypeOK
    /\ Known(log, work)
    /\ \A b \in Backups : SnapshotInv(backup[b], log, work)
    /\ BornBounded
    /\ HolderInv

-------------------------------------------------------------------------------
(* Values. *)

\* A bounded set of numbers that is not empty has a maximum.
LEMMA MaxOfNumbers ==
    ASSUME NEW T, T \subseteq Nat, T # {}, NEW b \in Nat, \A t \in T : t <= b
    PROVE  Max(T) \in T /\ \A t \in T : t <= Max(T)
<1> DEFINE U == {b - t : t \in T}
<1>1. U \subseteq Nat /\ U # {}
  <2>1. \A t \in T : t \in Nat /\ b - t \in Nat
    OBVIOUS
  <2>2. PICK t \in T : TRUE
    OBVIOUS
  <2>3. b - t \in U
    OBVIOUS
  <2> QED
    BY <2>1, <2>3
<1>2. PICK m \in U : \A u \in U : ~(<<u, m>> \in OpToRel(<, Nat))
  <2> HIDE DEF U
  <2> QED
    BY <1>1, NatLessThanWellFounded, WFMin
<1>3. PICK x \in T : m = b - x
  OBVIOUS
<1>4. \A t \in T : ~(b - t < m)
  BY <1>1, <1>2 DEF OpToRel
<1>5. \A t \in T : t <= x
  BY <1>3, <1>4
<1> QED
  BY <1>3, <1>5 DEF Max

LEMMA BoundsTyped ==
    /\ MaxWork \in Nat /\ MaxLog \in Nat /\ MaxUses \in Nat
    /\ MaxKept \in Nat /\ MaxFailures \in Nat /\ MaxCrashes \in Nat
    /\ Nothing \in Uses /\ NoBackup \in BackupRows
<1>1. /\ MaxWork \in Nat /\ MaxLog \in Nat /\ MaxUses \in Nat
      /\ MaxKept \in Nat /\ MaxFailures \in Nat /\ MaxCrashes \in Nat
  BY ArchiveAssumption
<1>2. Nothing \in Uses
  BY <1>1 DEF Nothing, Uses
<1>3. <<>> \in Log
  BY DEF Log
<1> QED
  BY <1>1, <1>2, <1>3 DEF NoBackup, BackupRows

\* A log that one event was appended to.
LEMMA AppendLog ==
    ASSUME NEW l \in Log, NEW n \in 0..MaxWork
    PROVE  /\ Append(l, n) \in Log
           /\ Len(l) \in Nat /\ Len(Append(l, n)) = Len(l) + 1
           /\ \A i \in 1..Len(l) : Append(l, n)[i] = l[i]
           /\ Append(l, n)[Len(l) + 1] = n
           /\ \A i \in 1..Len(l) : l[i] \in 0..MaxWork
<1> DEFINE T == 0..MaxWork
<1>1. l \in Seq(T) /\ n \in T
  BY DEF Log
<1> HIDE DEF T
<1>2. /\ Append(l, n) \in Seq(T)
      /\ Len(Append(l, n)) = Len(l) + 1
      /\ \A i \in 1..Len(l) : Append(l, n)[i] = l[i]
      /\ Append(l, n)[Len(l) + 1] = n
  BY <1>1, AppendProperties
<1>3. Len(l) \in Nat /\ \A i \in 1..Len(l) : l[i] \in T
  BY <1>1, LenProperties, ElementOfSeq
<1> QED
  BY <1>2, <1>3 DEF T, Log

\* Newest is a number, and at least that of every snapshot.
LEMMA NewestIs ==
    ASSUME ArchiveInv, NEW b \in Backups
    PROVE  Newest \in Nat /\ \A c \in Backups : backup[c].born <= Newest
<1> DEFINE T == {backup[c].born : c \in Backups}
<1>1. T \subseteq Nat /\ T # {}
  BY DEF ArchiveInv, TypeOK
<1>2. PICK n \in Nat : \A c \in Backups : backup[c].born <= n
  BY DEF ArchiveInv, BornBounded
<1>3. \A t \in T : t <= n
  BY <1>2
<1>4. Max(T) \in T /\ \A t \in T : t <= Max(T)
  <2> HIDE DEF T
  <2> QED
    BY <1>1, <1>3, MaxOfNumbers
<1> QED
  BY <1>1, <1>4 DEF Newest

\* So is the last use of a credential.
LEMMA LastUseTyped ==
    ASSUME TypeOK, NEW c \in Creds
    PROVE  LastUse(c) \in 0..MaxUses
<1> DEFINE T == {pending[c], inflight[c], recorded[c]}
<1>1. T \subseteq 0..MaxUses /\ MaxUses \in Nat
  BY BoundsTyped DEF TypeOK, Uses
<1>2. T \subseteq Nat /\ T # {} /\ \A t \in T : t <= MaxUses
  BY <1>1
<1>3. Max(T) \in T
  <2> HIDE DEF T
  <2> QED
    BY <1>1, <1>2, MaxOfNumbers
<1> QED
  BY <1>1, <1>3 DEF LastUse

\* A log that grows, by writes that are counted, keeps what is known of it.
LEMMA GrownLog ==
    ASSUME NEW l \in Log, NEW n \in 0..MaxWork, NEW w \in 0..MaxWork, NEW v \in 0..MaxWork,
           w <= v, n <= v, Known(l, w)
    PROVE  Known(Append(l, n), v)
<1> DEFINE m == Append(l, n)
<1>1. /\ Len(l) \in Nat /\ Len(m) = Len(l) + 1
      /\ \A i \in 1..Len(l) : m[i] = l[i] /\ l[i] \in 0..MaxWork
      /\ m[Len(l) + 1] = n
  BY AppendLog
<1> HIDE DEF m
<1>2. ASSUME NEW i \in 1..Len(m) PROVE m[i] <= v
  <2>1. CASE i \in 1..Len(l)
    BY <1>1, <2>1, BoundsTyped DEF Known
  <2>2. CASE i = Len(l) + 1
    BY <1>1, <2>2
  <2> QED
    BY <1>1, <2>1, <2>2
<1> QED
  BY <1>2 DEF Known, m

LEMMA GrownSnapshot ==
    ASSUME NEW l \in Log, NEW n \in 0..MaxWork, NEW w \in 0..MaxWork, NEW v \in 0..MaxWork,
           w <= v, NEW q, SnapshotInv(q, l, w)
    PROVE  SnapshotInv(q, Append(l, n), v)
<1> DEFINE m == Append(l, n)
<1>1. /\ Len(l) \in Nat /\ Len(m) = Len(l) + 1
      /\ \A i \in 1..Len(l) : m[i] = l[i]
  BY AppendLog
<1> HIDE DEF m
<1>2. q \in BackupRows /\ q.covers \in Nat /\ q.log \in Log
  BY DEF SnapshotInv, BackupRows
<1>3. Known(q.log, v)
  <2>1. \A i \in 1..Len(q.log) : q.log[i] \in 0..MaxWork
    BY <1>2, BoundsTyped, AppendLog
  <2> QED
    BY <2>1, BoundsTyped DEF SnapshotInv, Known
<1>4. Speaks(q, m)
  BY <1>1, <1>2 DEF SnapshotInv, Speaks
<1> QED
  BY <1>2, <1>3, <1>4 DEF SnapshotInv, m

LEMMA NothingSnapshot ==
    ASSUME NEW l \in Log, NEW w \in 0..MaxWork
    PROVE  SnapshotInv(NoBackup, l, w)
BY BoundsTyped DEF SnapshotInv, NoBackup, Known, Speaks

-------------------------------------------------------------------------------
(* The actions. *)

OpTypes ==
    [step : {"free", "copied", "listed", "covered", "told", "checked", "replaced", "started"},
     backup : Backups \cup {None}, consent : BOOLEAN]

LEMMA Typed ==
    TypeOK <=>
        /\ log \in Log /\ recorded \in Uses /\ work \in 0..MaxWork
        /\ backup \in [Backups -> BackupRows]
        /\ op \in OpTypes
        /\ pending \in Uses /\ inflight \in Uses
        /\ failures \in 0..MaxFailures /\ crashes \in 0..MaxCrashes
BY DEF TypeOK, BackupRows, OpTypes

\* What every action has to show, when it leaves the touches alone.
LEMMA Assembled ==
    ASSUME ArchiveInv, log' \in Log, recorded' \in Uses, work' \in 0..MaxWork, op' \in OpTypes,
           DOMAIN backup' = Backups, backup' = [b \in Backups |-> backup'[b]],
           UNCHANGED <<pending, inflight, failures>>, crashes' = crashes,
           Known(log', work'),
           \A b \in Backups : SnapshotInv(backup'[b], log', work'),
           BornBounded', HolderInv'
    PROVE  ArchiveInv'
<1>1. \A b \in Backups : backup'[b] \in BackupRows
  BY DEF SnapshotInv
<1>2. backup' \in [Backups -> BackupRows]
  BY <1>1
<1>3. TypeOK'
  BY <1>2, Typed DEF ArchiveInv, TypeOK, BackupRows, OpTypes
<1> QED
  BY <1>3 DEF ArchiveInv

\* An event is appended: number n is a write that has been counted, or 0.
LEMMA Appended ==
    ASSUME ArchiveInv, Writable, NEW n \in 0..MaxWork, log' = Append(log, n),
           work' \in 0..MaxWork, work <= work', n <= work'
    PROVE  /\ log' \in Log /\ Len(log') = Len(log) + 1 /\ Len(log) \in Nat
           /\ Known(log', work')
           /\ \A b \in Backups : SnapshotInv(backup[b], log', work')
           /\ op.step # "checked"
<1>1. log \in Log /\ work \in 0..MaxWork
  BY DEF ArchiveInv, TypeOK
<1> QED
  BY <1>1, AppendLog, GrownLog, GrownSnapshot DEF ArchiveInv, Writable, Exclusive

LEMMA WorkStep == ASSUME ArchiveInv, Work PROVE ArchiveInv'
<1> USE DEF Work, database, touches
<1>1. work' \in 0..MaxWork /\ work <= work' /\ work \in 0..MaxWork
  BY BoundsTyped DEF ArchiveInv, TypeOK
<1>2. /\ log' \in Log /\ Known(log', work')
      /\ \A b \in Backups : SnapshotInv(backup[b], log', work')
      /\ op.step # "checked"
  BY <1>1, Appended
<1>3. BornBounded' /\ HolderInv'
  BY <1>2 DEF ArchiveInv, BornBounded, HolderInv
<1> QED
  BY <1>1, <1>2, <1>3, Assembled, Typed DEF ArchiveInv

\* The audit events, which change nothing but the log and who holds the lock.
LEMMA EmitStep ==
    ASSUME ArchiveInv, Emit, UNCHANGED <<recorded, work, backup, touches, crashes>>,
           op' \in OpTypes,
           op'.step \notin {"copied", "checked"},
           op'.step # "free" => op.step # "free" /\ op'.backup = op.backup,
           op'.step \in Creating => op.step \in Creating
    PROVE  ArchiveInv'
<1> USE DEF touches
<1>1. work \in 0..MaxWork /\ 0 \in 0..MaxWork /\ 0 <= work
  BY BoundsTyped DEF ArchiveInv, TypeOK
<1>2. /\ log' \in Log /\ Known(log', work')
      /\ \A b \in Backups : SnapshotInv(backup[b], log', work')
  BY <1>1, Appended DEF Emit
<1>3. BornBounded' /\ HolderInv'
  BY <1>2 DEF ArchiveInv, BornBounded, HolderInv, Creating
<1> QED
  BY <1>1, <1>2, <1>3, Assembled, Typed DEF ArchiveInv

LEMMA TellCreatedStep == ASSUME ArchiveInv, TellCreated PROVE ArchiveInv'
<1>1. op \in OpTypes /\ op' = [op EXCEPT !.step = "told"] /\ op.step = "covered"
  BY Typed DEF TellCreated, Step, ArchiveInv
<1>2. op' \in OpTypes /\ op'.step = "told" /\ op'.backup = op.backup
  BY <1>1 DEF OpTypes
<1> QED
  BY <1>1, <1>2, EmitStep DEF TellCreated, Creating

LEMMA RejectedStep == ASSUME ArchiveInv, NEW b \in Backups, RestoreRejected(b) PROVE ArchiveInv'
<1>1. op' = op /\ op \in OpTypes /\ op.step = "free"
  BY Typed DEF RestoreRejected, Free, ArchiveInv
<1> QED
  BY <1>1, EmitStep DEF RestoreRejected, Creating

LEMMA TellStartedStep == ASSUME ArchiveInv, TellStarted PROVE ArchiveInv'
<1>1. op \in OpTypes /\ op' = [op EXCEPT !.step = "started"] /\ op.step = "replaced"
  BY Typed DEF TellStarted, Step, ArchiveInv
<1>2. op' \in OpTypes /\ op'.step = "started" /\ op'.backup = op.backup
  BY <1>1 DEF OpTypes
<1> QED
  BY <1>1, <1>2, EmitStep DEF TellStarted, Creating

LEMMA FreeTyped == Free \in OpTypes /\ Free.step = "free"
BY DEF Free, OpTypes

LEMMA TellCompletedStep == ASSUME ArchiveInv, TellCompleted PROVE ArchiveInv'
BY FreeTyped, EmitStep DEF TellCompleted, Creating

\* An action that leaves the database alone.
LEMMA FilesStep ==
    ASSUME ArchiveInv, UNCHANGED <<database, work, touches, crashes>>, op' \in OpTypes,
           DOMAIN backup' = Backups, backup' = [b \in Backups |-> backup'[b]],
           \A b \in Backups : SnapshotInv(backup'[b], log, work),
           BornBounded', HolderInv'
    PROVE  ArchiveInv'
BY Assembled, Typed DEF ArchiveInv, database, touches

LEMMA SnapshotStep == ASSUME ArchiveInv, NEW b \in Backups, Snapshot(b) PROVE ArchiveInv'
<1> DEFINE row == [backup[b] EXCEPT !.log = log, !.recorded = recorded]
<1>1. /\ backup \in [Backups -> BackupRows] /\ log \in Log /\ recorded \in Uses
      /\ work \in 0..MaxWork
  BY Typed DEF ArchiveInv
<1>2. backup' = [backup EXCEPT ![b] = row]
  BY <1>1 DEF Snapshot
<1>3. row \in BackupRows
  BY <1>1 DEF BackupRows
<1>4. /\ row.log = log /\ row.manifest = FALSE /\ row.covers = 0 /\ row.doneAt = 0
      /\ row.born = 0
  BY <1>1, BoundsTyped DEF Snapshot, NoBackup, BackupRows
<1> HIDE DEF row
<1>5. op' = [Free EXCEPT !.step = "copied", !.backup = b]
  BY DEF Snapshot
<1>6. op' \in OpTypes /\ op'.step = "copied" /\ op'.backup = b
  BY <1>5 DEF OpTypes, Free
<1>7. SnapshotInv(row, log, work)
  BY <1>3, <1>4 DEF SnapshotInv, ArchiveInv, Speaks
<1>8. \A c \in Backups : SnapshotInv(backup'[c], log, work)
  BY <1>1, <1>2, <1>7 DEF ArchiveInv
<1>9. BornBounded'
  <2>1. PICK n \in Nat : \A c \in Backups : backup[c].born <= n
    BY DEF ArchiveInv, BornBounded
  <2>2. \A c \in Backups : backup'[c].born <= n
    BY <1>1, <1>2, <1>4, <2>1
  <2> QED
    BY <2>2 DEF BornBounded
<1>10. HolderInv'
  BY <1>1, <1>2, <1>4, <1>6 DEF HolderInv
<1> QED
  BY <1>1, <1>2, <1>6, <1>8, <1>9, <1>10, FilesStep DEF Snapshot

\* The holder of the lock has a snapshot; a step of a backup goes on with it.
LEMMA HeldBy ==
    ASSUME ArchiveInv, op.step # "free", NEW step \in {"listed", "covered", "told", "replaced"}
    PROVE  /\ op.backup \in Backups
           /\ [op EXCEPT !.step = step] \in OpTypes
           /\ [op EXCEPT !.step = step].step = step
           /\ [op EXCEPT !.step = step].backup = op.backup
BY Typed DEF ArchiveInv, HolderInv, OpTypes

LEMMA PublishStep == ASSUME ArchiveInv, Publish PROVE ArchiveInv'
<1> DEFINE b == op.backup
<1>1. /\ backup \in [Backups -> BackupRows] /\ log \in Log /\ b \in Backups
      /\ backup[b].covers = 0 /\ backup[b].doneAt = 0
  BY Typed DEF ArchiveInv, HolderInv, Publish, Creating
<1>2. PICK n \in Nat : n = 1 + Newest /\ \A c \in Backups : backup[c].born <= n
  <2>1. \A c \in Backups : backup[c].born \in Nat
    BY <1>1 DEF BackupRows
  <2> QED
    BY <1>1, <2>1, NewestIs
<1> DEFINE row == [backup[b] EXCEPT !.file = TRUE, !.manifest = TRUE, !.born = n]
<1>3. backup' = [backup EXCEPT ![b] = row]
  BY <1>1, <1>2 DEF Publish
<1>4. row \in BackupRows
  BY <1>1, <1>2 DEF BackupRows
<1>5. /\ row.log = backup[b].log /\ row.covers = 0 /\ row.doneAt = 0
      /\ row.born = n
  BY <1>1, <1>2 DEF BackupRows
<1> HIDE DEF row
<1>6. op' \in OpTypes /\ op'.step = "listed" /\ op'.backup = b
  BY HeldBy DEF Publish, Step
<1>7. SnapshotInv(row, log, work)
  <2>1. Len(log) \in Nat
    BY <1>1, BoundsTyped, AppendLog
  <2>2. Speaks(row, log)
    BY <1>5, <2>1 DEF Speaks
  <2> QED
    BY <1>1, <1>4, <1>5, <2>2 DEF SnapshotInv, ArchiveInv
<1>8. \A c \in Backups : SnapshotInv(backup'[c], log, work)
  BY <1>1, <1>3, <1>7 DEF ArchiveInv
<1>9. BornBounded'
  <2>1. \A c \in Backups : backup'[c].born <= n
    BY <1>1, <1>2, <1>3, <1>5
  <2> QED
    BY <1>2, <2>1 DEF BornBounded
<1>10. HolderInv'
  BY <1>1, <1>3, <1>5, <1>6 DEF HolderInv
<1> QED
  BY <1>1, <1>3, <1>6, <1>8, <1>9, <1>10, FilesStep DEF Publish

\* A manifest whose cursor is read speaks for the log as it is.
LEMMA CoveredRow ==
    ASSUME ArchiveInv, NEW b \in Backups
    PROVE  /\ Cover(b) \in [Backups -> BackupRows]
           /\ \A c \in Backups : c # b => Cover(b)[c] = backup[c]
           /\ Cover(b)[b].covers = Len(log)
           /\ Cover(b)[b].manifest
           /\ Cover(b)[b].doneAt = backup[b].doneAt
           /\ Cover(b)[b].born = backup[b].born
           /\ backup[b].doneAt <= Len(log) => SnapshotInv(Cover(b)[b], log, work)
<1> DEFINE row == [backup[b] EXCEPT !.manifest = TRUE, !.covers = Latest, !.until = work,
                                    !.rewound = FALSE]
<1>1. /\ backup \in [Backups -> BackupRows] /\ log \in Log /\ work \in Nat
      /\ Len(log) \in Nat
  BY Typed, BoundsTyped, AppendLog DEF ArchiveInv
<1>2. Cover(b) = [backup EXCEPT ![b] = row]
  BY <1>1 DEF Cover
<1>3. row \in BackupRows
  BY <1>1 DEF BackupRows, Latest
<1>4. /\ row.log = backup[b].log /\ row.covers = Len(log) /\ row.until = work
      /\ row.manifest /\ row.doneAt = backup[b].doneAt /\ row.born = backup[b].born
  BY <1>1 DEF BackupRows, Latest
<1> HIDE DEF row
<1>5. Speaks(row, log)
  BY <1>1, <1>4 DEF Speaks, Known, ArchiveInv
<1>6. row.doneAt <= Len(log) => SnapshotInv(row, log, work)
  BY <1>3, <1>4, <1>5 DEF SnapshotInv, ArchiveInv
<1> QED
  BY <1>1, <1>2, <1>3, <1>4, <1>6

LEMMA WriteCursorStep == ASSUME ArchiveInv, WriteCursor PROVE ArchiveInv'
<1> DEFINE b == op.backup
<1>1. /\ backup \in [Backups -> BackupRows] /\ b \in Backups /\ backup[b].doneAt = 0
      /\ backup' = Cover(b) /\ Len(log) \in Nat
  BY Typed, BoundsTyped, AppendLog DEF ArchiveInv, HolderInv, WriteCursor, Creating
<1>2. op' \in OpTypes /\ op'.step = "covered" /\ op'.backup = b
  BY HeldBy DEF WriteCursor, Step
<1>3. \A c \in Backups : SnapshotInv(backup'[c], log, work) /\ backup'[c].born = backup[c].born
  <2> TAKE c \in Backups
  <2> QED
    BY <1>1, CoveredRow DEF ArchiveInv
<1>4. BornBounded'
  BY <1>3 DEF BornBounded, ArchiveInv
<1>5. HolderInv'
  BY <1>1, <1>2, CoveredRow DEF HolderInv
<1>6. backup' \in [Backups -> BackupRows]
  BY <1>1, CoveredRow
<1> QED
  BY <1>2, <1>3, <1>4, <1>5, <1>6, FilesStep DEF WriteCursor

LEMMA DoneRow ==
    ASSUME NEW q \in BackupRows, NEW n \in Nat
    PROVE  LET row == [q EXCEPT !.doneAt = n] IN
           /\ row \in BackupRows /\ row.log = q.log /\ row.covers = q.covers
           /\ row.manifest = q.manifest /\ row.rewound = q.rewound
           /\ row.until = q.until /\ row.doneAt = n /\ row.born = q.born
BY DEF BackupRows

\* The second reading of the cursor comes with the time of the backup, and the
\* oldest snapshots go.
LEMMA FinishStep == ASSUME ArchiveInv, FinishBackup PROVE ArchiveInv'
<1> DEFINE b == op.backup
           files == [SecondCursor(b) EXCEPT ![b].doneAt = Latest]
<1>1. /\ backup \in [Backups -> BackupRows] /\ b \in Backups /\ backup[b].doneAt = 0
      /\ Len(log) \in Nat /\ log \in Log /\ work \in 0..MaxWork
  BY Typed, BoundsTyped, AppendLog DEF ArchiveInv, HolderInv, FinishBackup, Creating
<1>2. Cover(b) \in [Backups -> BackupRows] /\ SnapshotInv(Cover(b)[b], log, work)
  BY <1>1, CoveredRow
<1> DEFINE row == [Cover(b)[b] EXCEPT !.doneAt = Len(log)]
<1>3. files = [Cover(b) EXCEPT ![b] = row]
  BY <1>2 DEF SecondCursor, Latest
<1>4. /\ row \in BackupRows /\ row.log = Cover(b)[b].log /\ row.covers = Cover(b)[b].covers
      /\ row.manifest = Cover(b)[b].manifest /\ row.rewound = Cover(b)[b].rewound
      /\ row.until = Cover(b)[b].until /\ row.doneAt = Len(log)
      /\ row.born = Cover(b)[b].born
  <2>1. Cover(b)[b] \in BackupRows
    BY <1>1, <1>2
  <2> QED
    BY <1>1, <2>1, DoneRow
<1>5. Cover(b)[b].covers = Len(log) /\ Cover(b)[b].born = backup[b].born
  BY <1>1, CoveredRow
<1> HIDE DEF row
<1>6. SnapshotInv(row, log, work)
  BY <1>1, <1>2, <1>4, <1>5 DEF SnapshotInv, Speaks
<1>7. \A c \in Backups : SnapshotInv(files[c], log, work) /\ files[c].born = backup[c].born
  <2> TAKE c \in Backups
  <2>1. CASE c = b
    <3>1. files[c] = row
      BY <1>1, <1>2, <1>3, <2>1
    <3> QED
      BY <1>4, <1>5, <1>6, <2>1, <3>1
  <2>2. CASE c # b
    <3>1. files[c] = backup[c]
      BY <1>1, <1>2, <1>3, <2>2, CoveredRow
    <3> QED
      BY <3>1 DEF ArchiveInv
  <2> QED
    BY <2>1, <2>2
<1>8. backup' = Prune(files)
  BY DEF FinishBackup
<1> HIDE DEF files
<1>9. /\ backup' = [c \in Backups |-> backup'[c]] /\ DOMAIN backup' = Backups
      /\ \A c \in Backups : backup'[c] = files[c] \/ backup'[c] = NoBackup
  BY <1>8 DEF Prune
<1>10. \A c \in Backups : SnapshotInv(backup'[c], log, work)
  BY <1>1, <1>7, <1>9, NothingSnapshot
<1>11. BornBounded'
  <2>1. PICK n \in Nat : \A c \in Backups : backup[c].born <= n
    BY DEF ArchiveInv, BornBounded
  <2>2. \A c \in Backups : backup'[c].born <= n
    BY <1>7, <1>9, <2>1 DEF NoBackup
  <2> QED
    BY <2>2 DEF BornBounded
<1>12. op' \in OpTypes /\ HolderInv'
  BY FreeTyped DEF FinishBackup, HolderInv
<1> QED
  BY <1>9, <1>10, <1>11, <1>12, FilesStep DEF FinishBackup

\* Nobody deletes a snapshot while a restore holds the file; the manifest of a
\* backup under way goes, and comes back with its cursor.
LEMMA DeleteStep == ASSUME ArchiveInv, NEW b \in Backups, DeleteBackup(b) PROVE ArchiveInv'
<1> DEFINE gone == [backup[b] EXCEPT !.file = FALSE, !.manifest = FALSE]
           row == IF op.backup = b THEN gone ELSE NoBackup
<1>1. /\ backup \in [Backups -> BackupRows] /\ log \in Log /\ work \in 0..MaxWork
      /\ 0 \in 0..MaxWork /\ 0 <= work
  BY Typed, BoundsTyped DEF ArchiveInv
<1>2. /\ log' \in Log /\ Known(log', work')
      /\ \A c \in Backups : SnapshotInv(backup[c], log', work')
      /\ op.step # "checked" /\ work' = work
  BY <1>1, Appended DEF DeleteBackup, Emit
<1>3. backup' = [backup EXCEPT ![b] = row]
  BY <1>1 DEF DeleteBackup
<1>4. /\ gone \in BackupRows /\ gone.manifest = FALSE /\ gone.log = backup[b].log
      /\ gone.covers = backup[b].covers /\ gone.doneAt = backup[b].doneAt
      /\ gone.born = backup[b].born
  BY <1>1 DEF BackupRows
<1> HIDE DEF gone
<1>5. SnapshotInv(gone, log', work')
  BY <1>2, <1>4 DEF SnapshotInv, Speaks
<1>6. SnapshotInv(row, log', work')
  BY <1>1, <1>2, <1>5, NothingSnapshot
<1>7. \A c \in Backups : SnapshotInv(backup'[c], log', work')
  BY <1>1, <1>2, <1>3, <1>6
<1>8. BornBounded'
  <2>1. PICK n \in Nat : \A c \in Backups : backup[c].born <= n
    BY DEF ArchiveInv, BornBounded
  <2>2. \A c \in Backups : backup'[c].born <= n
    BY <1>1, <1>3, <1>4, <2>1 DEF NoBackup
  <2> QED
    BY <2>2 DEF BornBounded
<1>9. HolderInv'
  <2>1. op' = op
    BY DEF DeleteBackup
  <2>2. op.backup = b => backup'[op.backup] = gone
    BY <1>1, <1>3
  <2>3. op.backup # b => backup'[op.backup] = backup[op.backup]
    BY <1>1, <1>3
  <2> QED
    BY <1>2, <1>4, <2>1, <2>2, <2>3 DEF ArchiveInv, HolderInv
<1> QED
  BY <1>1, <1>2, <1>3, <1>7, <1>8, <1>9, Assembled, Typed
     DEF DeleteBackup, touches, ArchiveInv

LEMMA CheckStep ==
    ASSUME ArchiveInv, NEW b \in Backups, NEW consent \in BOOLEAN, RestoreCheck(b, consent)
    PROVE  ArchiveInv'
<1>1. /\ backup \in [Backups -> BackupRows] /\ Len(log) \in Nat
      /\ op' = [step |-> "checked", backup |-> b, consent |-> consent]
  BY Typed, BoundsTyped, AppendLog DEF ArchiveInv, RestoreCheck
<1>2. op' \in OpTypes
  BY <1>1 DEF OpTypes
<1>3. backup[b].manifest /\ (consent \/ Len(log) <= backup[b].covers)
  <2>1. backup[b].covers \in Nat
    BY <1>1 DEF BackupRows
  <2> QED
    BY <1>1, <2>1 DEF RestoreCheck, Complete, Stale, Latest
<1>4. HolderInv'
  BY <1>1, <1>3 DEF HolderInv, Creating, RestoreCheck, database
<1>5. BornBounded'
  BY DEF RestoreCheck, ArchiveInv, BornBounded
<1>6. \A c \in Backups : SnapshotInv(backup'[c], log, work)
  BY DEF RestoreCheck, ArchiveInv
<1> QED
  BY <1>1, <1>2, <1>4, <1>5, <1>6, FilesStep DEF RestoreCheck

\* The copy takes the numbers back: no cursor speaks for the log any more.
LEMMA CopyStep == ASSUME ArchiveInv, RestoreCopy PROVE ArchiveInv'
<1> DEFINE b == op.backup
<1>1. /\ backup \in [Backups -> BackupRows] /\ b \in Backups /\ work \in 0..MaxWork
      /\ log' = backup[b].log /\ recorded' = backup[b].recorded
  BY Typed DEF ArchiveInv, HolderInv, RestoreCopy
<1>2. log' \in Log /\ recorded' \in Uses /\ Known(log', work')
  BY <1>1 DEF ArchiveInv, SnapshotInv, BackupRows, RestoreCopy
<1>3. op' \in OpTypes /\ op'.step = "replaced" /\ op'.backup = b
  BY HeldBy DEF RestoreCopy, Step
<1>4. ASSUME NEW c \in Backups
      PROVE  SnapshotInv(backup'[c], log', work') /\ backup'[c].born = backup[c].born
  <2> DEFINE row == [backup[c] EXCEPT !.rewound = backup[c].manifest]
  <2>1. backup'[c] = row
    BY <1>1 DEF RestoreCopy
  <2>2. /\ row \in BackupRows /\ row.rewound = row.manifest /\ row.log = backup[c].log
        /\ row.covers = backup[c].covers /\ row.doneAt = backup[c].doneAt
        /\ row.born = backup[c].born
    BY <1>1 DEF BackupRows
  <2> HIDE DEF row
  <2>3. SnapshotInv(row, log', work')
    BY <2>2 DEF ArchiveInv, SnapshotInv, Speaks, RestoreCopy
  <2> QED
    BY <2>1, <2>2, <2>3
<1>5. backup' = [c \in Backups |-> backup'[c]] /\ DOMAIN backup' = Backups
  BY DEF RestoreCopy
<1>6. BornBounded'
  BY <1>4 DEF BornBounded, ArchiveInv
<1>7. HolderInv'
  BY <1>1, <1>3 DEF HolderInv, Creating
<1>8. work' \in 0..MaxWork
  BY <1>1 DEF RestoreCopy
<1> QED
  BY <1>2, <1>3, <1>4, <1>5, <1>6, <1>7, <1>8, Assembled DEF RestoreCopy, touches

LEMMA RestoreFailsStep == ASSUME ArchiveInv, RestoreFails PROVE ArchiveInv'
<1>1. backup' = backup /\ backup \in [Backups -> BackupRows]
  BY Typed DEF ArchiveInv, RestoreFails
<1>2. op' \in OpTypes /\ HolderInv'
  BY FreeTyped DEF RestoreFails, HolderInv
<1>3. BornBounded' /\ \A c \in Backups : SnapshotInv(backup'[c], log, work)
  BY <1>1 DEF BornBounded, ArchiveInv
<1> QED
  BY <1>1, <1>2, <1>3, FilesStep DEF RestoreFails

\* The buffer touches neither the log nor a snapshot nor their lock.
LEMMA ApartStep ==
    ASSUME ArchiveInv, UNCHANGED <<log, work, backup, op>>,
           recorded' \in Uses, pending' \in Uses, inflight' \in Uses,
           failures' \in 0..MaxFailures, crashes' \in 0..MaxCrashes
    PROVE  ArchiveInv'
<1>1. TypeOK'
  BY Typed DEF ArchiveInv, TypeOK
<1> QED
  BY <1>1 DEF ArchiveInv, BornBounded, HolderInv

LEMMA BufferStep ==
    ASSUME ArchiveInv, (\E c \in Creds : Note(c)) \/ FlushTakes \/ FlushWrites \/ FlushFails
    PROVE  ArchiveInv'
<1>1. /\ recorded \in Uses /\ pending \in Uses /\ inflight \in Uses /\ Nothing \in Uses
      /\ failures \in 0..MaxFailures /\ crashes \in 0..MaxCrashes
      /\ MaxFailures \in Nat /\ MaxUses \in Nat
  BY Typed, BoundsTyped DEF ArchiveInv
<1>2. ASSUME NEW c \in Creds, Note(c) PROVE ArchiveInv'
  <2>1. LastUse(c) + 1 \in 0..MaxUses
    BY <1>1, <1>2, LastUseTyped DEF Note, ArchiveInv
  <2>2. pending' \in Uses
    BY <1>1, <1>2, <2>1 DEF Note, Uses
  <2> QED
    BY <1>1, <1>2, <2>2, ApartStep DEF Note, database
<1>3. CASE FlushTakes
  BY <1>1, <1>3, ApartStep DEF FlushTakes, database
<1>4. CASE FlushWrites
  <2>1. recorded' \in Uses
    BY <1>1, <1>4 DEF FlushWrites, Uses
  <2> QED
    BY <1>1, <1>4, <2>1, ApartStep DEF FlushWrites
<1>5. CASE FlushFails
  <2>1. pending' \in Uses
    BY <1>1, <1>5 DEF FlushFails, PutBack, Uses
  <2> QED
    BY <1>1, <1>5, <2>1, ApartStep DEF FlushFails, database
<1> QED
  BY <1>2, <1>3, <1>4, <1>5

LEMMA CrashStep == ASSUME ArchiveInv, Crash PROVE ArchiveInv'
<1>1. /\ backup \in [Backups -> BackupRows] /\ log \in Log /\ work \in 0..MaxWork
      /\ crashes' \in 0..MaxCrashes
  BY Typed, BoundsTyped DEF ArchiveInv, Crash
<1>2. \A b \in Backups : backup'[b] = backup[b] \/ backup'[b] = NoBackup
  BY DEF Crash
<1>3. \A b \in Backups : SnapshotInv(backup'[b], log', work')
  BY <1>1, <1>2, NothingSnapshot DEF ArchiveInv, Crash, database
<1>4. backup' \in [Backups -> BackupRows]
  BY <1>1, BoundsTyped DEF Crash
<1>5. BornBounded'
  <2>1. PICK n \in Nat : \A c \in Backups : backup[c].born <= n
    BY DEF ArchiveInv, BornBounded
  <2>2. \A c \in Backups : backup'[c].born <= n
    BY <1>2, <2>1 DEF NoBackup
  <2> QED
    BY <2>2 DEF BornBounded
<1>6. TypeOK'
  BY <1>1, <1>4, FreeTyped, BoundsTyped, Typed
     DEF Crash, database, ArchiveInv, TypeOK, BackupRows, OpTypes
<1>7. HolderInv'
  BY FreeTyped DEF Crash, HolderInv
<1>8. Known(log', work')
  BY DEF ArchiveInv, Crash, database
<1> QED
  BY <1>3, <1>5, <1>6, <1>7, <1>8 DEF ArchiveInv

-------------------------------------------------------------------------------
(* The theorems. *)

LEMMA InitArchive == Init => ArchiveInv
<1> SUFFICES ASSUME Init PROVE ArchiveInv
  OBVIOUS
<1>1. log = <<>> /\ log \in Log /\ work = 0 /\ 0 \in 0..MaxWork
  BY BoundsTyped DEF Init, Log
<1>2. TypeOK
  BY <1>1, BoundsTyped, FreeTyped, Typed DEF Init
<1>3. \A b \in Backups : SnapshotInv(backup[b], log, work)
  BY <1>1, NothingSnapshot DEF Init
<1>4. BornBounded
  BY DEF Init, BornBounded, NoBackup
<1>5. HolderInv
  BY FreeTyped DEF Init, HolderInv
<1>6. Known(log, work)
  BY <1>1 DEF Known
<1> QED
  BY <1>2, <1>3, <1>4, <1>5, <1>6 DEF ArchiveInv

LEMMA NextArchive == ArchiveInv /\ [Next]_vars => ArchiveInv'
<1> SUFFICES ASSUME ArchiveInv, [Next]_vars PROVE ArchiveInv'
  OBVIOUS
<1>1. CASE CreateStep
  BY <1>1, PublishStep, WriteCursorStep, TellCreatedStep, FinishStep DEF CreateStep
<1>2. CASE RestoreStep
  BY <1>2, CopyStep, RestoreFailsStep, TellStartedStep, TellCompletedStep DEF RestoreStep
<1>3. ASSUME NEW b \in Backups,
             \/ Snapshot(b) \/ DeleteBackup(b) \/ RestoreRejected(b)
             \/ \E consent \in BOOLEAN : RestoreCheck(b, consent)
      PROVE  ArchiveInv'
  BY <1>3, SnapshotStep, DeleteStep, RejectedStep, CheckStep
<1>4. CASE (\E c \in Creds : Note(c)) \/ FlushTakes \/ FlushWrites \/ FlushFails
  BY <1>4, BufferStep
<1>5. CASE UNCHANGED vars
  BY <1>5, ApartStep, Typed DEF vars, ArchiveInv
<1> QED
  BY <1>1, <1>2, <1>3, <1>4, <1>5, WorkStep, CrashStep DEF Next

\* What the theorems below rest on holds in every reachable state.
THEOREM ArchiveInvariant == Spec => []ArchiveInv
BY InitArchive, NextArchive, PTL DEF Spec

\* Logs, snapshots, the lock and the buffer keep their types, across failed
\* flushes, restores and ends of the process.
THEOREM ArchiveTypeCorrect == Spec => []TypeOK
<1>1. ArchiveInv => TypeOK
  BY DEF ArchiveInv
<1> QED
  BY <1>1, ArchiveInvariant, PTL

\* create_backup reads the cursor again after its own event: a backup that
\* nothing was written after is restored without consent.
THEOREM FreshBackupAlwaysRestores == Spec => []FreshBackupRestores
<1>1. ArchiveInv => FreshBackupRestores
  <2> SUFFICES ASSUME ArchiveInv, NEW b \in Backups, Latest = backup[b].doneAt
               PROVE  ~Stale(b)
    BY DEF FreshBackupRestores
  <2>1. /\ backup[b].doneAt <= backup[b].covers
        /\ backup[b].doneAt \in Nat /\ backup[b].covers \in Nat
    BY DEF ArchiveInv, SnapshotInv, BackupRows
  <2> QED
    BY <2>1 DEF Stale
<1> QED
  BY <1>1, ArchiveInvariant, PTL

\* A copy without consent drops no write that came after the backup was
\* finished, until some restore has taken event numbers back.
LEMMA SilentCopyDrops ==
    ArchiveInv /\ [Next]_vars =>
        [SilentCopy /\ ~backup[op.backup].rewound =>
             \A n \in Kinds(log) \ Kinds(log') : n <= backup[op.backup].until]_vars
<1> SUFFICES ASSUME ArchiveInv, SilentCopy, ~backup[op.backup].rewound,
                    NEW n \in Kinds(log)
             PROVE  n <= backup[op.backup].until
  OBVIOUS
<1> DEFINE q == backup[op.backup]
<1>1. /\ op.step = "checked" /\ ~op.consent /\ op.backup \in Backups
      /\ q.manifest /\ Len(log) <= q.covers
  BY DEF SilentCopy, ArchiveInv, HolderInv
<1>2. q.covers <= Len(log) /\ \A i \in 1..q.covers : log[i] <= q.until
  BY <1>1 DEF ArchiveInv, SnapshotInv, Speaks
<1>3. q.covers \in Nat /\ log \in Log
  BY <1>1, Typed DEF ArchiveInv, SnapshotInv, BackupRows
<1>4. Len(log) \in Nat /\ DOMAIN log = 1..Len(log)
  <2>1. log \in Seq(0..MaxWork)
    BY <1>3 DEF Log
  <2> HIDE DEF q
  <2> QED
    BY <2>1, LenProperties
<1>5. PICK i \in 1..Len(log) : n = log[i]
  BY <1>4 DEF Kinds
<1> QED
  BY <1>1, <1>2, <1>3, <1>4, <1>5

\* restore_backup: between its check and its copy nothing is written that the
\* snapshot does not know of.
THEOREM OnlyEarlierWritesEverDropped == Spec => OnlyEarlierWritesDropped
BY ArchiveInvariant, SilentCopyDrops, PTL DEF Spec, OnlyEarlierWritesDropped
=============================================================================
