-------------------------- MODULE BookSynchronizer --------------------------
(***************************************************************************)
(* The synchronizer of crates/book/src/sync.rs: one instrument's book and  *)
(* the state of its synchronization with the venue, as operators on the    *)
(* record the sessions own.  Every operation runs under &mut self, so it   *)
(* is one atomic function of the record.  The one operation with a loop    *)
(* whose iterations matter, apply_snapshot_and_drain, is split into        *)
(* StartDrain, DrainOne and FinishDrain: the session module that drives it *)
(* admits no other handler between them.                                   *)
(***************************************************************************)
EXTENDS OrderBook

CONSTANTS
    MaxBufferedMessages, MaxBufferedBytes, MaxBufferedSpan   \* SyncLimits

ASSUME LimitsAssumption ==
    /\ MaxBufferedMessages \in Nat
    /\ MaxBufferedBytes \in Nat
    /\ MaxBufferedSpan \in Nat

SyncState == {"Idle", "BufferingDeltas", "SnapshotRequested", "SnapshotReceived",
              "ApplyingBufferedDeltas", "Live", "GapDetected", "Invalid",
              "Resynchronizing"}

Delta == [seq: Nat, bytes: Nat, mono: Nat, change: Change]

Synchronizer == [state: SyncState, book: Book, buffer: Seq(Delta), bytes: Nat,
                 monoMin: Nat \cup {None}, monoMax: Nat \cup {None},
                 expected: Nat \cup {None}]

NewSynchronizer ==
    [state |-> "Idle", book |-> NewBook, buffer |-> <<>>, bytes |-> 0,
     monoMin |-> None, monoMax |-> None, expected |-> None]

(* Mutant of DropBuffer: the byte counter survives the buffer. *)
DropBufferKeepsBytes(s) ==
    [s EXCEPT !.buffer = <<>>, !.monoMin = None, !.monoMax = None]

DropBuffer(s) ==
    [s EXCEPT !.buffer = <<>>, !.bytes = 0, !.monoMin = None, !.monoMax = None]

BeginResync(s) ==
    [DropBuffer(s) EXCEPT !.state = "Resynchronizing", !.expected = None,
                          !.book = ClearBook(SetValidity(@, "Synchronizing"))]

Invalidate(s) ==
    [DropBuffer(s) EXCEPT !.state = "Invalid", !.book = SetValidity(@, "Invalid")]

RequestSnapshot(s) ==
    [s EXCEPT !.state = "SnapshotRequested", !.book = SetValidity(@, "Synchronizing")]

NoteGap(s) ==
    [DropBuffer(s) EXCEPT !.state = "GapDetected", !.book = SetValidity(@, "Invalid")]

-----------------------------------------------------------------------------
(* buffer_delta: the span and the byte count are tested with the new delta  *)
(* included, the message count without it.                                  *)

SpanMin(s, d) == IF s.monoMin = None \/ d.mono < s.monoMin THEN d.mono ELSE s.monoMin
SpanMax(s, d) == IF s.monoMax = None \/ d.mono > s.monoMax THEN d.mono ELSE s.monoMax

Overflows(s, d) ==
    \/ Len(s.buffer) >= MaxBufferedMessages
    \/ s.bytes + d.bytes > MaxBufferedBytes
    \/ SpanMax(s, d) - SpanMin(s, d) > MaxBufferedSpan

BufferDelta(s, d) ==
    IF Overflows(s, d) THEN [ok |-> FALSE, sync |-> Invalidate(s)]
    ELSE [ok   |-> TRUE,
          sync |-> [s EXCEPT !.buffer = Append(@, d), !.bytes = @ + d.bytes,
                             !.monoMin = SpanMin(s, d), !.monoMax = SpanMax(s, d),
                             !.state = IF @ \in {"Idle", "SnapshotRequested"}
                                       THEN "BufferingDeltas" ELSE @]]

-----------------------------------------------------------------------------
(* Mutant of StartDrain: a live book is replaced without leaving Live. *)
StartDrainStaysLive(s, snap, seq) ==
    LET r == ApplySnapshot(s.book, snap, seq)
    IN  IF ~r.ok THEN [ok |-> FALSE, sync |-> [s EXCEPT !.state = "SnapshotReceived"],
                       pending |-> <<>>]
        ELSE [ok      |-> TRUE,
              sync    |-> [DropBuffer(s) EXCEPT !.expected = seq + 1, !.book = r.book],
              pending |-> s.buffer]

(* apply_snapshot_and_drain up to its loop.  A refused snapshot returns     *)
(* early: the state is left at SnapshotReceived, the old book and the       *)
(* buffer as they were.  The filter on the drained buffer keeps what is     *)
(* newer than the snapshot; the loop's own test for covered deltas starts   *)
(* at the snapshot's sequence and so drops the same ones.                   *)

StartDrain(s, snap, seq) ==
    LET r == ApplySnapshot(s.book, snap, seq)
    IN  IF ~r.ok THEN [ok |-> FALSE, sync |-> [s EXCEPT !.state = "SnapshotReceived"],
                       pending |-> <<>>]
        ELSE [ok      |-> TRUE,
              sync    |-> [DropBuffer(s) EXCEPT !.state = "ApplyingBufferedDeltas",
                                                !.book = r.book],
              pending |-> s.buffer]

(* Mutant of DrainOne: the drain does not look for a gap. *)
DrainOneIgnoresGap(s, d, last) ==
    LET r == ApplyChange(s.book, d.change)
    IN  IF d.seq <= last THEN [ok |-> TRUE, sync |-> s, last |-> last]
        ELSE [ok |-> r.ok, sync |-> [s EXCEPT !.book = r.book], last |-> d.seq]

(* One iteration of the loop for delta d, after `last` was applied. *)
DrainOne(s, d, last) ==
    LET r == ApplyChange(s.book, d.change)
    IN  CASE d.seq <= last -> [ok |-> TRUE, sync |-> s, last |-> last]
          [] d.seq > last + 1 -> [ok |-> FALSE, sync |-> NoteGap(s), last |-> last]
          [] d.seq = last + 1 -> [ok |-> r.ok, sync |-> [s EXCEPT !.book = r.book],
                                  last |-> d.seq]

(* Mutant of FinishDrain: the last drained change is expected once more. *)
FinishDrainExpectsLast(s, last) ==
    [s EXCEPT !.expected = last, !.state = "Live",
              !.book = SetValidity(SetSequence(@, last), "Valid")]

FinishDrain(s, last) ==
    [s EXCEPT !.expected = last + 1, !.state = "Live",
              !.book = SetValidity(SetSequence(@, last), "Valid")]

-----------------------------------------------------------------------------
(* on_live_delta.  applied distinguishes the two Ok results: a delta older  *)
(* than expected is accepted without touching the book.                     *)

OnLiveDelta(s, d) ==
    LET expected == IF s.expected = None THEN d.seq ELSE s.expected
        r        == ApplyChange(s.book, d.change)
    IN  CASE s.state # "Live" -> [ok |-> FALSE, applied |-> FALSE, sync |-> s]
          [] s.state = "Live" /\ d.seq < expected ->
                [ok |-> TRUE, applied |-> FALSE, sync |-> s]
          [] s.state = "Live" /\ d.seq > expected ->
                [ok |-> FALSE, applied |-> FALSE, sync |-> NoteGap(s)]
          [] s.state = "Live" /\ d.seq = expected ->
                [ok |-> r.ok, applied |-> r.ok,
                 sync |-> IF r.ok
                          THEN [s EXCEPT !.book = SetSequence(r.book, d.seq),
                                         !.expected = d.seq + 1]
                          ELSE [s EXCEPT !.book = r.book]]
=============================================================================
