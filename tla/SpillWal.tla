------------------------------ MODULE SpillWal ------------------------------
(***************************************************************************)
(* The write-ahead spill file of SpillWalSink (crates/sinks/src/spill.rs): *)
(* memory first, then an append-only file with recovery at open and a      *)
(* checkpoint that replaces the file, under process crashes, power losses  *)
(* and I/O errors.                                                         *)
(*                                                                         *)
(* The file is a sequence of cells: two of magic bytes, then for every     *)
(* record a head (tag and length) and a body of one or more cells, each a  *)
(* run of bytes.  Offsets and limits count cells.  Batches and system      *)
(* events are treated alike and share one memory queue here.               *)
(***************************************************************************)
EXTENDS Integers, Sequences, SequencesExt

CONSTANTS
    MaxRecords,      \* bound: events spilled
    BodyLen,         \* the length of each one's body
    MaxRecordBytes,  \* MAX_RECORD_BYTES
    MemCapacity,     \* batch_capacity
    WalLimit,        \* wal_limit_bytes
    IoErrors,        \* whether writes may fail
    DirSyncErrors    \* whether sync_parent_directory may fail

ASSUME WalAssumption ==
    /\ {MaxRecords, MaxRecordBytes} \subseteq Nat /\ MemCapacity \in Nat \ {0}
    /\ WalLimit \in Nat /\ WalLimit > 2
    /\ BodyLen \in [1 .. MaxRecords -> Nat \ {0}]
    /\ {IoErrors, DirSyncErrors} \subseteq BOOLEAN

VARIABLES
    running,     \* the sink is open
    memory,      \* length of the in-memory queue
    file,        \* what a reader of the path sees
    synced,      \* how many cells of file survive a power loss
    old,         \* the replaced files a power loss may bring back
    buf,         \* bytes the BufWriter still holds
    walBytes,    \* wal_bytes
    remaining, next, prefix,   \* recovered_remaining, recovery_next_offset, recovery_prefix_bytes
    checkpoint,  \* how far checkpoint_recovery is
    pushed,      \* events spilled so far, successfully or not
    acked,       \* history: records whose spill was acknowledged and may be relied on
    durable,     \* history: records acknowledged before a checkpoint that returned Ok
    popped,      \* history: records handed out by pop_recovered
    retired,     \* history: records popped before a checkpoint that returned Ok
    failed       \* history: a write or a checkpoint has returned an I/O error

diskVars == <<file, synced, old, buf>>
recVars  == <<remaining, next, prefix>>
histVars == <<pushed, acked, durable, popped, retired, failed>>
vars == <<running, memory, diskVars, walBytes, recVars, checkpoint, histVars>>

Record == 1 .. MaxRecords
Cell   == [rec: Record, part: {"head", "body"}] \union [rec: {0}, part: {"magic"}]

Magic    == <<[rec |-> 0, part |-> "magic"], [rec |-> 0, part |-> "magic"]>>
Cells(n) == <<[rec |-> n, part |-> "head"]>> \o [i \in 1 .. BodyLen[n] |-> [rec |-> n, part |-> "body"]]
RecordLen(n) == 1 + BodyLen[n]

TypeOK ==
    /\ running \in BOOLEAN /\ memory \in 0 .. MemCapacity
    /\ {file, buf} \union old \subseteq Seq(Cell)
    /\ synced \in 0 .. Len(file)
    /\ {walBytes, remaining, next, prefix} \subseteq Nat
    /\ checkpoint \in {"Idle", "Flushed", "Persisted"}
    /\ pushed \in 0 .. MaxRecords
    /\ failed \in BOOLEAN
    /\ retired \subseteq popped /\ popped \union acked \union durable \subseteq Record

Init ==
    /\ running = FALSE /\ memory = 0
    /\ file = <<>> /\ synced = 0 /\ old = {} /\ buf = <<>>
    /\ walBytes = 0 /\ remaining = 0 /\ next = 0 /\ prefix = 0
    /\ checkpoint = "Idle"
    /\ pushed = 0 /\ acked = {} /\ durable = {} /\ popped = {} /\ retired = {} /\ failed = FALSE

-----------------------------------------------------------------------------
(* open.  scan_spill_file reads record after record: a head whose length   *)
(* reaches past the end is a torn tail; a length no record may have, a     *)
(* body that is not this record's, or text where a head should be (its     *)
(* bytes are no valid length) refuse the file.                             *)

MaxBody == IF WalLimit - 3 < MaxRecordBytes THEN WalLimit - 3 ELSE MaxRecordBytes

(* validate_record_len. *)
ValidLen(n) == BodyLen[n] <= MaxBody

IsHead(f, i) == f[i].part = "head" /\ ValidLen(f[i].rec)
Torn(f, i)   == i + BodyLen[f[i].rec] > Len(f)
Whole(f, i)  == SubSeq(f, i, i + BodyLen[f[i].rec]) = Cells(f[i].rec)

Stops(f, i) == i > Len(f) \/ ~IsHead(f, i) \/ Torn(f, i) \/ ~Whole(f, i)

Scan(f) ==
    LET from[i \in 1 .. Len(f) + 1] ==
          IF Stops(f, i)
          THEN [ok |-> i > Len(f) \/ (IsHead(f, i) /\ Torn(f, i)), end |-> i - 1, count |-> 0]
          ELSE [from[i + RecordLen(f[i].rec)] EXCEPT !.count = @ + 1]
    IN  IF Len(f) < Len(Magic) THEN [ok |-> FALSE, end |-> 0, count |-> 0] ELSE from[Len(Magic) + 1]

Records(f) == {f[i].rec : i \in Len(Magic) + 1 .. Scan(f).end}

(* open succeeds on f. *)
Opens(f) == Len(f) <= WalLimit /\ (f # <<>> => Scan(f).ok)

(* A new file gets its magic bytes, synced; its directory entry is not.  A *)
(* torn tail is truncated, and that synced.                                *)
Open ==
    /\ ~running /\ Opens(file)
    /\ running' = TRUE /\ memory' = 0
    /\ IF file = <<>>
       THEN /\ file' = Magic /\ synced' = Len(Magic)
            /\ old' = old \union {<<>>}
            /\ remaining' = 0
       ELSE LET scan == Scan(file)
            IN  /\ file' = SubSeq(file, 1, scan.end)
                /\ synced' = IF scan.end < Len(file) THEN scan.end ELSE synced
                /\ remaining' = scan.count
                /\ UNCHANGED old
    /\ walBytes' = Len(file') /\ prefix' = Len(file') /\ next' = Len(Magic)
    /\ UNCHANGED <<buf, checkpoint, histVars>>

(* The process dies in the first open, before or after all of the magic    *)
(* bytes are written, and before they are synced.                          *)
CrashInOpen ==
    /\ ~running /\ file = <<>>
    /\ file' \in {SubSeq(Magic, 1, 1), Magic} /\ old' = old \union {<<>>}
    /\ UNCHANGED <<running, memory, synced, buf, walBytes, recVars, checkpoint, histVars>>

(* Mutant of PushMemory: the capacity is not looked at. *)
PushMemoryUnbounded ==
    /\ running /\ checkpoint = "Idle" /\ memory < MemCapacity + 1
    /\ memory' = memory + 1
    /\ UNCHANGED <<running, diskVars, walBytes, recVars, checkpoint, histVars>>

(* push_batch / push_system while the queue has room. *)
PushMemory ==
    /\ running /\ checkpoint = "Idle" /\ memory < MemCapacity
    /\ memory' = memory + 1
    /\ UNCHANGED <<running, diskVars, walBytes, recVars, checkpoint, histVars>>

PopMemory ==
    /\ running /\ checkpoint = "Idle" /\ memory > 0
    /\ memory' = memory - 1
    /\ UNCHANGED <<running, diskVars, walBytes, recVars, checkpoint, histVars>>

(* Mutant of FitsWal: what is already written is not counted. *)
FitsWalAlone(n) == Len(Magic) + RecordLen(n) <= WalLimit

(* The record fits under wal_limit_bytes. *)
FitsWal(n) == walBytes + RecordLen(n) <= WalLimit

Spilling ==
    /\ running /\ checkpoint = "Idle" /\ pushed < MaxRecords
    /\ memory >= MemCapacity
    /\ pushed' = pushed + 1

(* spill_record: written and flushed; at the limit nothing is written. *)
Spill ==
    /\ Spilling
    /\ \/ /\ FitsWal(pushed')
          /\ file' = file \o buf \o Cells(pushed') /\ buf' = <<>>
          /\ walBytes' = walBytes + RecordLen(pushed')
          /\ acked' = acked \union {pushed'}
       \/ /\ ~FitsWal(pushed')
          /\ UNCHANGED <<file, buf, walBytes, acked>>
    /\ UNCHANGED <<running, memory, synced, old, recVars, checkpoint, durable, popped, retired,
                   failed>>

(* An I/O error part of the way: the BufWriter keeps what it had buffered, *)
(* but the rest of a body too large for its buffer is gone.                *)
SpillFails ==
    /\ IoErrors /\ Spilling /\ FitsWal(pushed')
    /\ LET all == buf \o Cells(pushed')
       IN  \E j \in 0 .. Len(all) - 1 :
             /\ file' = file \o SubSeq(all, 1, j)
             /\ \/ buf' = SubSeq(all, j + 1, Len(all))
                \/ j > Len(buf) /\ buf' = <<>>
    /\ failed' = TRUE
    /\ UNCHANGED <<running, memory, synced, old, walBytes, recVars, checkpoint, acked, durable,
                   popped, retired>>

(* The process dies between two writes of a record. *)
CrashInSpill ==
    /\ Spilling /\ FitsWal(pushed')
    /\ \E j \in 1 .. BodyLen[pushed'] : file' = file \o buf \o SubSeq(Cells(pushed'), 1, j)
    /\ buf' = <<>>
    /\ running' = FALSE
    /\ UNCHANGED <<memory, synced, old, walBytes, recVars, checkpoint, acked, durable, popped,
                   retired, failed>>

-----------------------------------------------------------------------------
(* Recovery. *)

PopRecovered ==
    /\ running /\ checkpoint = "Idle" /\ remaining > 0
    /\ popped' = popped \union {file[next + 1].rec}
    /\ next' = next + RecordLen(file[next + 1].rec) /\ remaining' = remaining - 1
    /\ UNCHANGED <<running, memory, diskVars, walBytes, prefix, checkpoint, pushed, acked, durable,
                   retired, failed>>

(* checkpoint_recovery: flush and sync the writer, then read the length,   *)
(* which may be less than the prefix only after an earlier error.          *)
CheckpointFlush ==
    /\ running /\ checkpoint = "Idle" /\ remaining = 0 /\ prefix > Len(Magic)
    /\ file' = file \o buf /\ buf' = <<>> /\ synced' = Len(file')
    /\ checkpoint' = IF Len(file') < prefix THEN "Idle" ELSE "Flushed"
    /\ failed' = (failed \/ Len(file') < prefix)
    /\ UNCHANGED <<running, memory, old, walBytes, recVars, pushed, acked, durable, popped, retired>>

(* Any step before the rename fails; the flush may have got part of the    *)
(* way.  (Failing to reopen the file after it leaves no writer, and the    *)
(* next use of the sink panics: Crash.)                                    *)
CheckpointFails ==
    /\ IoErrors /\ running /\ remaining = 0 /\ prefix > Len(Magic)
    /\ checkpoint \in {"Idle", "Flushed"}
    /\ \E j \in 0 .. Len(buf) :
         file' = file \o SubSeq(buf, 1, j) /\ buf' = SubSeq(buf, j + 1, Len(buf))
    /\ checkpoint' = "Idle" /\ failed' = TRUE
    /\ UNCHANGED <<running, memory, synced, old, walBytes, recVars, pushed, acked, durable, popped,
                   retired>>

(* Mutant of CheckpointPersist: the temporary file is not synced. *)
CheckpointPersistUnsynced ==
    /\ checkpoint = "Flushed"
    /\ old' = old \union {file}
    /\ file' = Magic \o SubSeq(file, prefix + 1, Len(file)) /\ synced' = 0
    /\ checkpoint' = "Persisted"
    /\ UNCHANGED <<running, memory, buf, walBytes, recVars, histVars>>

(* A synced temporary file with the records after the prefix is renamed    *)
(* over the path.                                                          *)
CheckpointPersist ==
    /\ checkpoint = "Flushed"
    /\ old' = old \union {file}
    /\ file' = Magic \o SubSeq(file, prefix + 1, Len(file)) /\ synced' = Len(file')
    /\ checkpoint' = "Persisted"
    /\ UNCHANGED <<running, memory, buf, walBytes, recVars, histVars>>

(* Mutant of CheckpointDone: the directory is not synced. *)
CheckpointDoneUnsynced ==
    /\ checkpoint = "Persisted"
    /\ walBytes' = Len(file) /\ prefix' = Len(Magic) /\ next' = Len(Magic)
    /\ checkpoint' = "Idle"
    /\ retired' = popped /\ durable' = acked
    /\ UNCHANGED <<running, memory, diskVars, remaining, pushed, acked, popped, failed>>

(* The directory is synced (sync_parent_directory on unix), and with it    *)
(* the rename.                                                             *)
CheckpointDone ==
    /\ checkpoint = "Persisted"
    /\ old' = {}
    /\ walBytes' = Len(file) /\ prefix' = Len(Magic) /\ next' = Len(Magic)
    /\ checkpoint' = "Idle"
    /\ retired' = popped /\ durable' = acked
    /\ UNCHANGED <<running, memory, file, synced, buf, remaining, pushed, acked, popped, failed>>

(* The directory sync fails after the rename: the writer is reopened on    *)
(* the new file and the error returned, the offsets are left alone.        *)
CheckpointSyncFails ==
    /\ DirSyncErrors /\ checkpoint = "Persisted"
    /\ checkpoint' = "Idle" /\ failed' = TRUE
    /\ UNCHANGED <<running, memory, diskVars, walBytes, recVars, pushed, acked, durable, popped,
                   retired>>

-----------------------------------------------------------------------------
(* The process dies, losing its buffers, or drops the sink, which writes   *)
(* what the BufWriter still holds; or the machine dies, losing also        *)
(* what was not synced, and perhaps the rename or the new file.  Only what *)
(* a checkpoint made durable, or was handed out, may be relied on after it.*)
Crash ==
    /\ running
    /\ file' \in {file, file \o buf}
    /\ running' = FALSE /\ buf' = <<>> /\ checkpoint' = "Idle"
    /\ UNCHANGED <<memory, synced, old, walBytes, recVars, histVars>>

PowerLoss ==
    /\ running' = FALSE /\ buf' = <<>> /\ checkpoint' = "Idle"
    /\ \/ \E k \in synced .. Len(file) : file' = SubSeq(file, 1, k)
       \/ file' \in old
    /\ synced' = Len(file') /\ old' = {}
    /\ acked' = acked \intersect (durable \union popped)
    /\ UNCHANGED <<memory, walBytes, recVars, pushed, durable, popped, retired, failed>>

Next ==
    \/ Open \/ CrashInOpen \/ PushMemory \/ PopMemory \/ Spill \/ SpillFails \/ CrashInSpill
    \/ PopRecovered \/ CheckpointFlush \/ CheckpointFails \/ CheckpointPersist
    \/ CheckpointDone \/ CheckpointSyncFails \/ Crash \/ PowerLoss

Spec == Init /\ [][Next]_vars

-----------------------------------------------------------------------------
(* An acknowledged record stays readable in the file until it has been     *)
(* handed out, across any sequence of crashes, torn appends, recoveries    *)
(* and checkpoints; across a power loss, if it was acknowledged before a   *)
(* checkpoint that returned Ok.  Claimed until the sink has returned an    *)
(* I/O error.                                                              *)
AckedSurvive == ~failed => acked \subseteq popped \union Records(file)

(* "Existing records are loaded on reopen" (spill.rs:17): until then, too, *)
(* a WAL the sink wrote can be opened again, whatever it died in; only a   *)
(* file of which not even the header was written may be refused.           *)
Reopenable == ~failed /\ (file = <<>> \/ Len(file) >= Len(Magic)) => Opens(file)

(* Once a checkpoint has returned Ok no record it acknowledged is ever     *)
(* replayed, even when power is lost right after it (where directories can *)
(* be synced: elsewhere sync_parent_directory does nothing), and whatever  *)
(* failed before it.                                                       *)
NoReplayAfterCheckpoint == Records(file) \intersect retired = {}

(* "A checkpoint preserves records appended meanwhile" (spill.rs:20): also *)
(* one that is retried after an error.                                     *)
CheckpointPreserves == acked \subseteq popped \union Records(file)
=============================================================================
