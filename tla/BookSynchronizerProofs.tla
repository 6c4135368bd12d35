----------------------- MODULE BookSynchronizerProofs -----------------------
(***************************************************************************)
(* What the operations of the synchronizer return, for every book, depth   *)
(* and buffer limit.  Each lemma is about one function of sync.rs; the     *)
(* loop of apply_snapshot_and_drain is three of them.                      *)
(***************************************************************************)
EXTENDS BookSynchronizer, OrderBookProofs

(* invalidate, note_gap, and begin_resync followed by request_snapshot: the *)
(* book can no longer be queried, the state is not Live, nothing is held.   *)
LEMMA Quieting ==
    ASSUME NEW s \in Synchronizer,
           NEW t \in {Invalidate(s), NoteGap(s), RequestSnapshot(BeginResync(s))}
    PROVE  /\ t \in Synchronizer /\ t.state # "Live"
           /\ t.book.validity # "Valid" /\ t.buffer = <<>>
  <1>0. <<>> \in Seq(Delta)
    OBVIOUS
  <1>1. DropBuffer(s) \in Synchronizer /\ DropBuffer(s).buffer = <<>>
    BY <1>0 DEF DropBuffer, Synchronizer
  <1>2. /\ SetValidity(s.book, "Invalid") \in Book
        /\ SetValidity(s.book, "Invalid").validity = "Invalid"
    BY DEF SetValidity, Synchronizer, Book, Validity
  <1>3. CASE t = Invalidate(s)
    BY <1>1, <1>2, <1>3 DEF Invalidate, DropBuffer, Synchronizer, SyncState
  <1>4. CASE t = NoteGap(s)
    BY <1>1, <1>2, <1>4 DEF NoteGap, DropBuffer, Synchronizer, SyncState
  <1>5. CASE t = RequestSnapshot(BeginResync(s))
    <2>. DEFINE u == BeginResync(s)
    <2>1. NoLevels \in Levels
      BY DEF NoLevels, Levels, Level
    <2>2. ClearBook(SetValidity(s.book, "Synchronizing")) \in Book
      BY <2>1 DEF ClearBook, SetValidity, Synchronizer, Book, Validity
    <2>3. u \in Synchronizer /\ u.buffer = <<>>
      BY <1>1, <2>2 DEF BeginResync, DropBuffer, Synchronizer, SyncState
    <2>. HIDE DEF u
    <2>4. /\ SetValidity(u.book, "Synchronizing") \in Book
          /\ SetValidity(u.book, "Synchronizing").validity = "Synchronizing"
      BY <2>3 DEF SetValidity, Synchronizer, Book, Validity
    <2>5. t = RequestSnapshot(u)
      BY <1>5 DEF u
    <2>. QED  BY <2>3, <2>4, <2>5 DEF RequestSnapshot, Synchronizer, SyncState
  <1>. QED  BY <1>3, <1>4, <1>5

(* buffer_delta: the delta is appended and the book left alone, or the      *)
(* synchronizer is invalidated.                                             *)
LEMMA BufferDeltaResult ==
    ASSUME NEW s \in Synchronizer, NEW d \in Delta
    PROVE  LET r == BufferDelta(s, d) IN
           /\ r.sync \in Synchronizer
           /\ ~r.ok => r.sync = Invalidate(s)
           /\ r.ok => /\ r.sync.buffer = Append(s.buffer, d) /\ r.sync.book = s.book
                      /\ r.sync.state \in {s.state, "BufferingDeltas"}
  <1>1. CASE Overflows(s, d)
    <2>1. BufferDelta(s, d) = [ok |-> FALSE, sync |-> Invalidate(s)]
      BY <1>1 DEF BufferDelta
    <2>. QED  BY <2>1, Quieting
  <1>2. CASE ~Overflows(s, d)
    <2>. DEFINE state == IF s.state \in {"Idle", "SnapshotRequested"}
                         THEN "BufferingDeltas" ELSE s.state
                t == [s EXCEPT !.buffer = Append(@, d), !.bytes = @ + d.bytes,
                               !.monoMin = SpanMin(s, d), !.monoMax = SpanMax(s, d),
                               !.state = state]
    <2>1. BufferDelta(s, d) = [ok |-> TRUE, sync |-> t]
      BY <1>2 DEF BufferDelta, Synchronizer
    <2>2. SpanMin(s, d) \in Nat /\ SpanMax(s, d) \in Nat
      BY DEF SpanMin, SpanMax, Delta, Synchronizer, None
    <2>3. Append(s.buffer, d) \in Seq(Delta) /\ s.bytes + d.bytes \in Nat
      BY DEF Synchronizer, Delta
    <2>4. state \in SyncState /\ state \in {s.state, "BufferingDeltas"}
      BY DEF Synchronizer, SyncState
    <2>. HIDE DEF state
    <2>5. /\ t \in Synchronizer /\ t.buffer = Append(s.buffer, d) /\ t.book = s.book
          /\ t.state = state
      BY <2>2, <2>3, <2>4 DEF Synchronizer
    <2>. HIDE DEF t
    <2>. QED  BY <2>1, <2>4, <2>5
  <1>. QED  BY <1>1, <1>2

(* apply_snapshot_and_drain up to its loop: the snapshot became the book and *)
(* the buffer is being drained, or book and buffer are as before.            *)
LEMMA StartDrainResult ==
    ASSUME NEW s \in Synchronizer, NEW snap \in Snapshot, NEW n \in Nat
    PROVE  LET r == StartDrain(s, snap, n) IN
           /\ r.sync \in Synchronizer
           /\ r.ok => /\ r.pending = s.buffer /\ r.sync.buffer = <<>>
                      /\ r.sync.state = "ApplyingBufferedDeltas"
                      /\ r.sync.book.validity = "Valid"
                      /\ r.sync.book.levels = TrimDepth(snap.levels)
                      /\ ~Crossed(r.sync.book.levels)
           /\ ~r.ok => /\ r.sync.book = s.book /\ r.sync.buffer = s.buffer
                       /\ r.sync.state = "SnapshotReceived"
  <1>. DEFINE a == ApplySnapshot(s.book, snap, n)
  <1>1. s.book \in Book
    BY DEF Synchronizer
  <1>2. /\ a.ok \in BOOLEAN /\ a.book \in Book
        /\ a.ok => /\ a.book.validity = "Valid"
                   /\ a.book.levels = TrimDepth(snap.levels) /\ ~Crossed(a.book.levels)
    BY <1>1, ApplySnapshotResult
  <1>3. CASE ~a.ok
    <2>. DEFINE t == [s EXCEPT !.state = "SnapshotReceived"]
    <2>1. StartDrain(s, snap, n) = [ok |-> FALSE, sync |-> t, pending |-> <<>>]
      BY <1>3 DEF StartDrain
    <2>2. t \in Synchronizer /\ t.book = s.book /\ t.buffer = s.buffer
          /\ t.state = "SnapshotReceived"
      BY DEF Synchronizer, SyncState
    <2>. HIDE DEF t
    <2>. QED  BY <2>1, <2>2
  <1>4. CASE a.ok
    <2>. DEFINE t == [DropBuffer(s) EXCEPT !.state = "ApplyingBufferedDeltas", !.book = a.book]
    <2>1. StartDrain(s, snap, n) = [ok |-> TRUE, sync |-> t, pending |-> s.buffer]
      BY <1>4 DEF StartDrain
    <2>. HIDE DEF a
    <2>2. <<>> \in Seq(Delta)
      OBVIOUS
    <2>3. t \in Synchronizer /\ t.book = a.book /\ t.buffer = <<>>
          /\ t.state = "ApplyingBufferedDeltas"
      BY <1>2, <2>2 DEF DropBuffer, Synchronizer, SyncState
    <2>. HIDE DEF t
    <2>. QED  BY <1>2, <1>4, <2>1, <2>3
  <1>. QED  BY <1>2, <1>3, <1>4

(* One iteration of the drain: the delta is covered, is a gap, or is the    *)
(* next change and goes to apply_change.                                    *)
LEMMA DrainOneResult ==
    ASSUME NEW s \in Synchronizer, NEW d \in Delta, NEW n \in Nat
    PROVE  LET r == DrainOne(s, d, n)
               a == ApplyChange(s.book, d.change) IN
           /\ r.ok \in BOOLEAN /\ r.sync \in Synchronizer /\ r.last \in Nat
           /\ \/ r.ok /\ r.sync = s /\ r.last = n
              \/ ~r.ok /\ r.sync = NoteGap(s)
              \/ /\ d.seq = n + 1 /\ r.last = d.seq /\ r.ok = a.ok
                 /\ r.sync.book = a.book /\ r.sync.state = s.state
                 /\ r.sync.buffer = s.buffer
  <1>. DEFINE r == DrainOne(s, d, n)
              a == ApplyChange(s.book, d.change)
  <1>1. d.seq \in Nat /\ s.book \in Book /\ d.change \in Change
    BY DEF Delta, Synchronizer
  <1>2. a.ok \in BOOLEAN /\ a.book \in Book
    BY <1>1, ApplyChangeResult
  <1>3. CASE d.seq <= n
    <2>1. r = [ok |-> TRUE, sync |-> s, last |-> n]
      BY <1>1, <1>3 DEF DrainOne
    <2>. QED  BY <2>1
  <1>4. CASE d.seq > n + 1
    <2>1. r = [ok |-> FALSE, sync |-> NoteGap(s), last |-> n]
      BY <1>1, <1>4 DEF DrainOne
    <2>. QED  BY <2>1, Quieting
  <1>5. CASE d.seq = n + 1
    <2>. DEFINE t == [s EXCEPT !.book = a.book]
    <2>1. r = [ok |-> a.ok, sync |-> t, last |-> d.seq]
      BY <1>1, <1>5 DEF DrainOne
    <2>. HIDE DEF a
    <2>2. t \in Synchronizer /\ t.book = a.book /\ t.state = s.state /\ t.buffer = s.buffer
      BY <1>2 DEF Synchronizer
    <2>. HIDE DEF t, r
    <2>3. r.ok = a.ok /\ r.sync = t /\ r.last = d.seq
      BY <2>1
    <2>. QED  BY <1>1, <1>2, <1>5, <2>2, <2>3 DEF r, a
  <1>6. d.seq <= n \/ d.seq > n + 1 \/ d.seq = n + 1
    BY <1>1
  <1>. QED  BY <1>3, <1>4, <1>5, <1>6

(* The end of apply_snapshot_and_drain. *)
LEMMA FinishDrainResult ==
    ASSUME NEW s \in Synchronizer, NEW n \in Nat
    PROVE  LET t == FinishDrain(s, n) IN
           /\ t \in Synchronizer /\ t.state = "Live" /\ t.buffer = s.buffer
           /\ t.expected = n + 1
           /\ t.book.validity = "Valid" /\ t.book.sequence = n
           /\ t.book.levels = s.book.levels
  <1>. DEFINE b == SetValidity(SetSequence(s.book, n), "Valid")
              t == [s EXCEPT !.expected = n + 1, !.state = "Live", !.book = b]
  <1>1. b \in Book /\ b.validity = "Valid" /\ b.sequence = n /\ b.levels = s.book.levels
    BY DEF SetValidity, SetSequence, Synchronizer, Book, Validity
  <1>2. FinishDrain(s, n) = t
    BY DEF FinishDrain
  <1>. HIDE DEF b
  <1>3. n + 1 \in Nat \cup {None}
    OBVIOUS
  <1>4. /\ t \in Synchronizer /\ t.state = "Live" /\ t.buffer = s.buffer
        /\ t.expected = n + 1 /\ t.book = b
    BY <1>1, <1>3 DEF Synchronizer, SyncState
  <1>. HIDE DEF t
  <1>. QED  BY <1>1, <1>2, <1>4

(* on_live_delta: a covered delta changes nothing, the expected one goes to *)
(* apply_change and moves the sequence, any other is an error.              *)
LEMMA OnLiveDeltaResult ==
    ASSUME NEW s \in Synchronizer, s.state = "Live", s.expected \in Nat, NEW d \in Delta
    PROVE  LET r == OnLiveDelta(s, d)
               a == ApplyChange(s.book, d.change) IN
           /\ r.ok \in BOOLEAN /\ r.sync \in Synchronizer
           /\ r.ok => \/ r.sync = s
                      \/ /\ d.seq = s.expected /\ a.ok /\ r.sync.state = "Live"
                         /\ r.sync.buffer = s.buffer /\ r.sync.expected = d.seq + 1
                         /\ r.sync.book.levels = a.book.levels
                         /\ r.sync.book.validity = a.book.validity
                         /\ r.sync.book.sequence = d.seq
  <1>. DEFINE r == OnLiveDelta(s, d)
              a == ApplyChange(s.book, d.change)
  <1>1. d.seq \in Nat /\ s.book \in Book /\ d.change \in Change /\ s.expected # None
    BY DEF Delta, Synchronizer, None
  <1>2. a.ok \in BOOLEAN /\ a.book \in Book
    BY <1>1, ApplyChangeResult
  <1>3. CASE d.seq < s.expected
    <2>1. r = [ok |-> TRUE, applied |-> FALSE, sync |-> s]
      BY <1>1, <1>3 DEF OnLiveDelta
    <2>. QED  BY <2>1
  <1>4. CASE d.seq > s.expected
    <2>1. r = [ok |-> FALSE, applied |-> FALSE, sync |-> NoteGap(s)]
      BY <1>1, <1>4 DEF OnLiveDelta
    <2>. QED  BY <2>1, Quieting
  <1>5. CASE d.seq = s.expected /\ a.ok
    <2>. DEFINE b == SetSequence(a.book, d.seq)
                t == [s EXCEPT !.book = b, !.expected = d.seq + 1]
    <2>1. r = [ok |-> a.ok, applied |-> a.ok, sync |-> t]
      BY <1>1, <1>5 DEF OnLiveDelta
    <2>. HIDE DEF a
    <2>2. /\ b \in Book /\ b.levels = a.book.levels /\ b.validity = a.book.validity
          /\ b.sequence = d.seq
      BY <1>1, <1>2 DEF SetSequence, Book
    <2>e. d.seq + 1 \in Nat \cup {None}
      BY <1>1
    <2>. HIDE DEF b
    <2>t. t \in Synchronizer
      BY <2>2, <2>e DEF Synchronizer
    <2>3. /\ t \in Synchronizer /\ t.book = b /\ t.state = "Live" /\ t.buffer = s.buffer
          /\ t.expected = d.seq + 1
      BY <2>t DEF Synchronizer
    <2>. HIDE DEF t, r
    <2>4. r.ok = a.ok /\ r.sync = t
      BY <2>1
    <2>. QED  BY <1>2, <1>5, <2>2, <2>3, <2>4 DEF r, a
  <1>6. CASE d.seq = s.expected /\ ~a.ok
    <2>. DEFINE t == [s EXCEPT !.book = a.book]
    <2>1. r = [ok |-> a.ok, applied |-> a.ok, sync |-> t]
      BY <1>1, <1>6 DEF OnLiveDelta
    <2>. HIDE DEF a
    <2>2. t \in Synchronizer
      BY <1>2 DEF Synchronizer
    <2>. HIDE DEF t, r
    <2>3. r.ok = a.ok /\ r.sync = t
      BY <2>1
    <2>. QED  BY <1>2, <1>6, <2>2, <2>3 DEF r, a
  <1>. QED  BY <1>1, <1>3, <1>4, <1>5, <1>6
=============================================================================
