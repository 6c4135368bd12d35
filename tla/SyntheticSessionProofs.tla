----------------------- MODULE SyntheticSessionProofs -----------------------
(***************************************************************************)
(* For every price, quantity, depth, buffer limit and venue history: a     *)
(* Live book is exactly the venue's, what can be queried is the venue's at *)
(* one moment and uncrossed, and the live flag tells the truth.  The       *)
(* argument is the invariant IndInv of SyntheticSession: the venue's       *)
(* history, the authenticity of what is buffered, and the exactness of the *)
(* book between two iterations of the drain.                               *)
(***************************************************************************)
EXTENDS SyntheticSession, BookSynchronizerProofs

-----------------------------------------------------------------------------
(* Changes and faithfulness *)

(* Damaging the quantity of a change leaves a change. *)
LEMMA DamageType ==
    ASSUME NEW c \in Change
    PROVE  /\ Damage(c) \in Change
           /\ Damage(c).side = c.side /\ Damage(c).price = c.price
           /\ Damage(c).operation = c.operation /\ Damage(c).quantity = None
  BY DEF Damage, Change

(* A damaged change that is still accepted is a delete, and does what the   *)
(* undamaged one does.                                                      *)
LEMMA DamageHarmless ==
    ASSUME NEW levels, NEW c \in Change, ~Rejected(Damage(c))
    PROVE  Touch(levels, Damage(c)) = Touch(levels, c)
  <1>1. c.operation = "Delete"
    BY DamageType DEF Rejected, IsDelete, None
  <1>2. IsDelete(c) /\ IsDelete(Damage(c))
    BY <1>1, DamageType DEF IsDelete
  <1>. QED  BY <1>2, DamageType DEF Touch

(* The venue's changes are changes, and never rejected. *)
LEMMA VenueChangeType ==
    ASSUME NEW c \in VenueChange
    PROVE  c \in Change /\ ~Rejected(c)
  BY VenueChangeAssumption

(* The same change keeps one set of levels within another. *)
LEMMA TouchMonotone ==
    ASSUME NEW few \in Levels, NEW all \in Levels, NEW c \in Change, ~Rejected(c),
           \A s \in Side, p \in Price : few[s][p] \in {Absent, all[s][p]}
    PROVE  \A s \in Side, p \in Price : Touch(few, c)[s][p] \in {Absent, Touch(all, c)[s][p]}
  <1>1. CASE IsDelete(c)
    <2>1. CASE c.price = BadPrice
      BY <1>1, <2>1 DEF Touch, DeleteLevel
    <2>2. CASE c.price # BadPrice
      <3>1. c.side \in Side /\ c.price \in Price /\ Absent \in Level
        BY <2>2 DEF Change, Level
      <3>2. /\ Touch(few, c) = SetLevel(few, c.side, c.price, Absent)
            /\ Touch(all, c) = SetLevel(all, c.side, c.price, Absent)
        BY <1>1, <2>2 DEF Touch, DeleteLevel
      <3>3. \A s \in Side, p \in Price :
              /\ Touch(few, c)[s][p] =
                   IF s = c.side /\ p = c.price THEN Absent ELSE few[s][p]
              /\ Touch(all, c)[s][p] =
                   IF s = c.side /\ p = c.price THEN Absent ELSE all[s][p]
        BY <3>1, <3>2, SetLevelElsewhere
      <3>. QED  BY <3>3
    <2>. QED  BY <2>1, <2>2
  <1>2. CASE ~IsDelete(c)
    <2>1. c.side \in Side /\ c.price \in Price /\ c.quantity \in Level
      BY <1>2 DEF Change, Rejected, IsDelete, Level
    <2>2. /\ Touch(few, c) = SetLevel(few, c.side, c.price, c.quantity)
          /\ Touch(all, c) = SetLevel(all, c.side, c.price, c.quantity)
      BY <1>2 DEF Touch
    <2>. QED  BY <2>1, <2>2, SetLevelElsewhere
  <1>. QED  BY <1>1, <1>2

(* A book faithful to the venue after change n that takes change n + 1, as  *)
(* sent or damaged, is faithful to the venue after change n + 1.            *)
LEMMA FaithfulStep ==
    ASSUME TypeOK, VenueHistory, NEW n \in 0 .. head, n + 1 \in 1 .. head,
           NEW levels \in Levels, Faithful(levels, n),
           NEW c \in {log[n + 1], Damage(log[n + 1])}, ~Rejected(c),
           NEW next \in {Touch(levels, c), TrimDepth(Touch(levels, c))}
    PROVE  Faithful(next, n + 1)
  <1>. DEFINE l == log[n + 1]
  <1>1. /\ truth[n] \in Levels /\ l \in Change /\ ~Rejected(l)
        /\ truth[n + 1] = Touch(truth[n], l)
    BY VenueChangeType, SessionBoundsAssumption DEF TypeOK, VenueHistory
  <1>2. Touch(levels, c) = Touch(levels, l)
    BY <1>1, DamageHarmless
  <1>. HIDE DEF l
  <1>3. \A s \in Side, p \in Price : Touch(levels, l)[s][p] \in {Absent, truth[n + 1][s][p]}
    BY <1>1, TouchMonotone DEF Faithful
  <1>4. Depth = None => Touch(levels, l) = truth[n + 1]
    BY <1>1 DEF Faithful
  <1>5. Touch(levels, l) \in Levels
    BY <1>1, TouchType
  <1>6. /\ \A s \in Side, p \in Price : next[s][p] \in {Absent, Touch(levels, l)[s][p]}
        /\ Depth = None => next = Touch(levels, l)
    BY <1>2, <1>5, TrimDepthRemoves
  <1>. QED  BY <1>3, <1>4, <1>6 DEF Faithful

(* A snapshot the venue took after change n, trimmed, is faithful to it. *)
LEMMA SnapshotFaithful ==
    ASSUME TypeOK, NEW n \in 0 .. head
    PROVE  Faithful(TrimDepth(truth[n]), n)
  <1>1. truth[n] \in Levels
    BY SessionBoundsAssumption DEF TypeOK
  <1>. QED  BY <1>1, TrimDepthRemoves DEF Faithful

-----------------------------------------------------------------------------
(* The invariant *)

(* The session starts with an unsynchronized, empty book. *)
LEMMA InitIndInv == Init => IndInv
  <1>. SUFFICES ASSUME Init PROVE IndInv
    OBVIOUS
  <1>1. NoLevels \in Levels
    BY DEF NoLevels, Levels, Level
  <1>2. NewBook \in Book /\ NewBook.validity = "Synchronizing"
    BY <1>1 DEF NewBook, Book, Validity
  <1>3. <<>> \in Seq(Delta) /\ Len(<<>>) = 0
    OBVIOUS
  <1>4. NewSynchronizer \in Synchronizer /\ NewSynchronizer.buffer = <<>>
        /\ NewSynchronizer.book = NewBook
    BY <1>2, <1>3 DEF NewSynchronizer, Synchronizer, SyncState
  <1>5. /\ SetValidity(NewBook, "Synchronizing") \in Book
        /\ SetValidity(NewBook, "Synchronizing").validity = "Synchronizing"
    BY <1>2 DEF SetValidity, Book, Validity
  <1>6. /\ sync \in Synchronizer /\ sync.state = "SnapshotRequested" /\ sync.buffer = <<>>
        /\ sync.book.validity = "Synchronizing"
    BY <1>4, <1>5 DEF Init, RequestSnapshot, Synchronizer, SyncState
  <1>7. TypeOK
    <2>1. log \in [1 .. MaxSeq -> VenueChange \cup {NoChange}]
      BY DEF Init
    <2>2. truth \in [0 .. MaxSeq -> Levels]
      BY <1>1 DEF Init
    <2>3. head \in 0 .. MaxSeq /\ mono \in Nat /\ last \in Nat /\ snapSeq \in Nat
      BY SessionBoundsAssumption DEF Init
    <2>4. pending \in Seq(Delta)
      BY <1>3 DEF Init
    <2>5. /\ connected \in BOOLEAN /\ subscribed \in BOOLEAN /\ live \in BOOLEAN
          /\ draining \in BOOLEAN
      BY DEF Init
    <2>. QED  BY <1>6, <2>1, <2>2, <2>3, <2>4, <2>5 DEF TypeOK
  <1>8. VenueHistory /\ HeldIsAuthentic /\ DrainIsExact
    BY <1>3, <1>6 DEF Init, VenueHistory, HeldIsAuthentic, DrainIsExact
  <1>9. ValidIsUncrossed /\ LiveIsExact /\ QueryableIsConsistent /\ LiveFlagAgrees
    BY <1>6 DEF Init, ValidIsUncrossed, LiveIsExact, QueryableIsConsistent, LiveFlagAgrees
  <1>. QED  BY <1>7, <1>8, <1>9 DEF IndInv

(* A handler that quiets the synchronizer and reports the session not live  *)
(* preserves the invariant, whatever it does to the view.                   *)
LEMMA QuietStep ==
    ASSUME IndInv, ~draining, UNCHANGED <<venueVars, drainVars>>, TypeOK', ~live',
           NEW s \in Synchronizer,
           sync' \in {Invalidate(s), RequestSnapshot(BeginResync(s))}
    PROVE  IndInv'
  <1>2. /\ sync'.state # "Live" /\ sync'.book.validity # "Valid" /\ sync'.buffer = <<>>
    BY Quieting
  <1>3. Len(<<>>) = 0
    OBVIOUS
  <1>4. VenueHistory' /\ HeldIsAuthentic' /\ DrainIsExact'
    BY <1>2, <1>3 DEF IndInv, VenueHistory, HeldIsAuthentic, Authentic, DrainIsExact,
                      venueVars, drainVars
  <1>5. ValidIsUncrossed' /\ LiveIsExact' /\ QueryableIsConsistent' /\ LiveFlagAgrees'
    BY <1>2 DEF ValidIsUncrossed, LiveIsExact, QueryableIsConsistent, LiveFlagAgrees
  <1>. QED  BY <1>4, <1>5 DEF IndInv

(* The venue publishing one more change disturbs nothing the session holds. *)
LEMMA PublishStep ==
    ASSUME IndInv, Publish
    PROVE  IndInv'
  <1>. USE SessionBoundsAssumption
  <1>1. PICK c \in VenueChange :
          /\ log' = [log EXCEPT ![head + 1] = c]
          /\ truth' = [truth EXCEPT ![head + 1] = Touch(truth[head], c)]
    BY DEF Publish
  <1>2. /\ ~draining /\ head \in 0 .. MaxSeq /\ head' = head + 1 /\ head' \in 1 .. MaxSeq
        /\ log \in [1 .. MaxSeq -> VenueChange \cup {NoChange}]
        /\ truth \in [0 .. MaxSeq -> Levels]
    BY DEF Publish, IndInv, TypeOK
  <1>3. UNCHANGED <<connected, subscribed, live, sync, mono, draining, pending, last, snapSeq>>
    BY DEF Publish, sessionVars, drainVars
  <1>4. Touch(truth[head], c) \in Levels
    BY <1>2, VenueChangeType, TouchType
  <1>5. /\ \A n \in 0 .. head : truth'[n] = truth[n]
        /\ \A n \in 1 .. head : log'[n] = log[n]
        /\ log'[head + 1] = c /\ truth'[head + 1] = Touch(truth[head], c)
    BY <1>1, <1>2
  <1>6. TypeOK'
    <2>1. log' \in [1 .. MaxSeq -> VenueChange \cup {NoChange}]
      BY <1>1, <1>2
    <2>2. truth' \in [0 .. MaxSeq -> Levels]
      BY <1>1, <1>2, <1>4
    <2>. QED  BY <1>2, <1>3, <2>1, <2>2 DEF IndInv, TypeOK
  <1>7. VenueHistory'
    <2>. SUFFICES ASSUME NEW n \in 1 .. head + 1
                  PROVE  log'[n] \in VenueChange /\ truth'[n] = Touch(truth'[n - 1], log'[n])
      BY <1>2 DEF VenueHistory
    <2>1. CASE n = head + 1
      BY <1>2, <1>5, <2>1
    <2>2. CASE n \in 1 .. head
      <3>1. n - 1 \in 0 .. head
        BY <1>2, <2>2
      <3>2. truth'[n - 1] = truth[n - 1] /\ truth'[n] = truth[n] /\ log'[n] = log[n]
        BY <1>2, <1>5, <2>2, <3>1
      <3>. QED  BY <2>2, <3>2 DEF IndInv, VenueHistory
    <2>. QED  BY <1>2, <2>1, <2>2
  <1>8. HeldIsAuthentic'
    <2>1. \A d : Authentic(d) => Authentic(d)'
      BY <1>2, <1>5 DEF Authentic
    <2>. QED  BY <1>3, <2>1 DEF IndInv, HeldIsAuthentic, Authentic
  <1>9. \A n \in 0 .. head : Faithful(sync.book.levels, n) => Faithful(sync.book.levels, n)'
    BY <1>3, <1>5 DEF Faithful
  <1>10. DrainIsExact' /\ ValidIsUncrossed' /\ LiveFlagAgrees'
    BY <1>2, <1>3 DEF IndInv, DrainIsExact, ValidIsUncrossed, LiveFlagAgrees
  <1>11. LiveIsExact'
    <2>1. sync.book.sequence \in 0 .. head => sync.book.sequence \in 0 .. head + 1
      BY <1>2
    <2>. QED  BY <1>2, <1>3, <1>9, <2>1 DEF IndInv, LiveIsExact
  <1>12. QueryableIsConsistent'
    <2>1. \A n \in 0 .. head : n \in 0 .. head + 1
      BY <1>2
    <2>. QED  BY <1>2, <1>3, <1>9, <2>1 DEF IndInv, QueryableIsConsistent
  <1>. QED  BY <1>6, <1>7, <1>8, <1>10, <1>11, <1>12 DEF IndInv

(* Facts every later step uses: the venue does not move while the session   *)
(* handles an input.                                                        *)
LEMMA VenueStill ==
    ASSUME IndInv, UNCHANGED venueVars
    PROVE  /\ VenueHistory'
           /\ head \in Nat /\ head' = head
           /\ \A d : Authentic(d)' = Authentic(d)
           /\ \A levels, n : Faithful(levels, n)' = Faithful(levels, n)
  BY SessionBoundsAssumption DEF IndInv, TypeOK, VenueHistory, Authentic, Faithful, venueVars

(* SUB and UNSUB frames leave the book alone. *)
LEMMA SubscribedStep ==
    ASSUME IndInv, NEW value \in BOOLEAN, SetSubscribed(value)
    PROVE  IndInv'
  <1>1. /\ UNCHANGED <<head, log, truth, connected, live, sync, mono, draining, pending, last, snapSeq>>
        /\ subscribed' = value
    BY DEF SetSubscribed, venueVars, drainVars
  <1>2. TypeOK'
    BY <1>1 DEF IndInv, TypeOK
  <1>3. VenueHistory' /\ HeldIsAuthentic' /\ DrainIsExact'
    BY <1>1 DEF IndInv, VenueHistory, HeldIsAuthentic, Authentic, DrainIsExact, Faithful
  <1>4. ValidIsUncrossed' /\ LiveIsExact' /\ QueryableIsConsistent' /\ LiveFlagAgrees'
    BY <1>1 DEF IndInv, ValidIsUncrossed, LiveIsExact, QueryableIsConsistent, LiveFlagAgrees,
                Faithful
  <1>. QED  BY <1>2, <1>3, <1>4 DEF IndInv

(* on_book_snap: an accepted snapshot starts an exact drain; a refused one  *)
(* leaves whatever book there was.                                          *)
LEMMA SnapStep ==
    ASSUME IndInv, NEW n \in 0 .. head, NEW malformed \in BOOLEAN, OnBookSnap(n, malformed)
    PROVE  IndInv'
  <1>. DEFINE snap == VenueSnapshot(n, malformed)
              r == StartDrain(sync, snap, n)
  <1>1. /\ ~draining /\ sync' = r.sync /\ UNCHANGED venueVars
        /\ UNCHANGED <<connected, subscribed, mono>>
    BY DEF OnBookSnap
  <1>2. TypeOK /\ sync \in Synchronizer /\ n \in Nat /\ n \in 0 .. head
    BY SessionBoundsAssumption DEF IndInv, TypeOK
  <1>3. snap \in Snapshot /\ snap.levels = truth[n]
    BY <1>2, SessionBoundsAssumption DEF TypeOK, VenueSnapshot, Snapshot
  <1>. HIDE DEF snap
  <1>4. /\ r.sync \in Synchronizer
        /\ r.ok => /\ r.pending = sync.buffer /\ r.sync.buffer = <<>>
                   /\ r.sync.state = "ApplyingBufferedDeltas"
                   /\ r.sync.book.validity = "Valid"
                   /\ r.sync.book.levels = TrimDepth(snap.levels)
                   /\ ~Crossed(r.sync.book.levels)
        /\ ~r.ok => /\ r.sync.book = sync.book /\ r.sync.buffer = sync.buffer
                    /\ r.sync.state = "SnapshotReceived"
    BY <1>2, <1>3, StartDrainResult
  <1>5. /\ VenueHistory' /\ head \in Nat /\ head' = head
        /\ \A d : Authentic(d)' = Authentic(d)
        /\ \A levels, m : Faithful(levels, m)' = Faithful(levels, m)
    BY <1>1, VenueStill
  <1>6. CASE r.ok
    <2>1. /\ draining' = TRUE /\ pending' = r.pending /\ last' = n /\ snapSeq' = n
          /\ UNCHANGED live
      BY <1>6 DEF OnBookSnap, snap
    <2>. HIDE DEF r
    <2>2. Faithful(sync'.book.levels, n)
      BY <1>1, <1>2, <1>3, <1>4, <1>6, SnapshotFaithful
    <2>3. TypeOK'
      BY <1>1, <1>2, <1>4, <1>6, <2>1 DEF TypeOK, venueVars, Synchronizer
    <2>4. Len(<<>>) = 0
      OBVIOUS
    <2>5. HeldIsAuthentic'
      BY <1>1, <1>4, <1>5, <1>6, <2>1, <2>4 DEF IndInv, HeldIsAuthentic
    <2>6. DrainIsExact'
      BY <1>1, <1>2, <1>4, <1>5, <1>6, <2>1, <2>2 DEF DrainIsExact
    <2>7. ValidIsUncrossed' /\ LiveIsExact' /\ QueryableIsConsistent' /\ LiveFlagAgrees'
      BY <1>1, <1>4, <1>6, <2>1
         DEF ValidIsUncrossed, LiveIsExact, QueryableIsConsistent, LiveFlagAgrees
    <2>. QED  BY <1>5, <2>3, <2>5, <2>6, <2>7 DEF IndInv
  <1>7. CASE ~r.ok
    <2>1. UNCHANGED <<draining, pending, last, snapSeq>> /\ live' = FALSE
      BY <1>7 DEF OnBookSnap, SnapshotFailed, drainVars, snap
    <2>. HIDE DEF r
    <2>2. TypeOK'
      BY <1>1, <1>2, <1>4, <2>1 DEF TypeOK, venueVars
    <2>3. HeldIsAuthentic'
      BY <1>1, <1>4, <1>5, <1>7, <2>1 DEF IndInv, HeldIsAuthentic
    <2>4. DrainIsExact' /\ LiveIsExact' /\ LiveFlagAgrees'
      BY <1>1, <1>4, <1>7, <2>1 DEF DrainIsExact, LiveIsExact, LiveFlagAgrees
    <2>5. ValidIsUncrossed'
      BY <1>1, <1>4, <1>7 DEF IndInv, ValidIsUncrossed
    <2>6. QueryableIsConsistent'
      BY <1>1, <1>4, <1>5, <1>7, <2>1 DEF IndInv, QueryableIsConsistent
    <2>. QED  BY <1>5, <2>2, <2>3, <2>4, <2>5, <2>6 DEF IndInv
  <1>. QED  BY <1>6, <1>7

(* One iteration of the drain keeps the book exact, or ends the drain with  *)
(* a book that is consistent or can no longer be queried.                   *)
LEMMA DrainDeltaStep ==
    ASSUME IndInv, DrainDelta
    PROVE  IndInv'
  <1>. DEFINE d == Head(pending)
              r == DrainOne(sync, d, last)
              a == ApplyChange(sync.book, d.change)
  <1>1. /\ draining /\ pending # <<>> /\ sync' = r.sync /\ UNCHANGED venueVars
        /\ UNCHANGED <<connected, subscribed, mono>>
    BY DEF DrainDelta
  <1>2. TypeOK /\ sync \in Synchronizer /\ last \in Nat /\ pending \in Seq(Delta)
    BY DEF IndInv, TypeOK
  <1>3. /\ d \in Delta /\ Authentic(d) /\ Tail(pending) \in Seq(Delta)
        /\ \A i \in 1 .. Len(Tail(pending)) : Authentic(Tail(pending)[i])
    <2>1. d = pending[1] /\ 1 \in 1 .. Len(pending)
      BY <1>1, <1>2
    <2>2. d \in Delta /\ Authentic(d)
      BY <1>2, <2>1 DEF IndInv, HeldIsAuthentic
    <2>3. /\ Tail(pending) \in Seq(Delta)
          /\ \A i \in 1 .. Len(Tail(pending)) :
               i + 1 \in 1 .. Len(pending) /\ Tail(pending)[i] = pending[i + 1]
      BY <1>1, <1>2
    <2>. QED  BY <2>2, <2>3 DEF IndInv, HeldIsAuthentic
  <1>4. /\ sync.state = "ApplyingBufferedDeltas" /\ sync.book.validity = "Valid"
        /\ last \in 0 .. head /\ Faithful(sync.book.levels, last)
        /\ ~Crossed(sync.book.levels)
    BY <1>1 DEF IndInv, DrainIsExact, ValidIsUncrossed
  <1>5. /\ sync.book \in Book /\ sync.book.levels \in Levels /\ d.change \in Change
    BY <1>2, <1>3 DEF Synchronizer, Delta, Book
  <1>6. /\ a.ok \in BOOLEAN /\ a.book \in Book
        /\ a.ok => /\ a.book.validity = "Valid" /\ ~Rejected(d.change)
                   /\ a.book.levels \in {Touch(sync.book.levels, d.change),
                                         TrimDepth(Touch(sync.book.levels, d.change))}
                   /\ ~Crossed(a.book.levels)
        /\ ~a.ok => a.book = sync.book \/ a.book.validity = "Invalid"
    BY <1>4, <1>5, ApplyChangeResult
  <1>7. /\ r.ok \in BOOLEAN /\ r.sync \in Synchronizer /\ r.last \in Nat
        /\ \/ r.ok /\ r.sync = sync /\ r.last = last
           \/ ~r.ok /\ r.sync = NoteGap(sync)
           \/ /\ d.seq = last + 1 /\ r.last = d.seq /\ r.ok = a.ok
              /\ r.sync.book = a.book /\ r.sync.state = sync.state
              /\ r.sync.buffer = sync.buffer
    BY <1>2, <1>3, DrainOneResult
  <1>8. /\ VenueHistory' /\ head \in Nat /\ head' = head
        /\ \A x : Authentic(x)' = Authentic(x)
        /\ \A levels, m : Faithful(levels, m)' = Faithful(levels, m)
    BY <1>1, VenueStill
  <1>9. d.seq \in 1 .. head /\ d.change \in {log[d.seq], Damage(log[d.seq])}
    BY <1>3 DEF Authentic
  <1>10. d.seq = last + 1 /\ a.ok => Faithful(a.book.levels, d.seq)
    BY <1>2, <1>4, <1>5, <1>6, <1>9, FaithfulStep DEF IndInv
  <1>11. Len(<<>>) = 0 /\ <<>> \in Seq(Delta)
    OBVIOUS
  <1>12. /\ r.ok => /\ pending' = Tail(pending) /\ last' = r.last
                    /\ UNCHANGED <<draining, snapSeq, live>>
         /\ ~r.ok => /\ draining' = FALSE /\ pending' = <<>> /\ last' = 0 /\ snapSeq' = 0
                     /\ live' = FALSE
    BY DEF DrainDelta, EndDrain, SnapshotFailed
  <1>. HIDE DEF d, r, a
  <1>13. TypeOK'
    <2>1. CASE r.ok
      <3>1. pending' \in Seq(Delta)
        BY <1>3, <1>12, <2>1
      <3>2. last' \in Nat /\ UNCHANGED <<draining, snapSeq, live>>
        BY <1>7, <1>12, <2>1
      <3>. QED  BY <1>1, <1>2, <1>7, <3>1, <3>2 DEF TypeOK, venueVars
    <2>2. CASE ~r.ok
      <3>1. pending' \in Seq(Delta)
        BY <1>11, <1>12, <2>2
      <3>2. /\ last' = 0 /\ snapSeq' = 0 /\ draining' = FALSE /\ live' = FALSE
        BY <1>12, <2>2
      <3>. QED  BY <1>1, <1>2, <1>7, <3>1, <3>2 DEF TypeOK, venueVars
    <2>. QED  BY <2>1, <2>2
  <1>14. CASE r.ok /\ r.sync = sync /\ r.last = last
    <2>1. HeldIsAuthentic'
      BY <1>1, <1>3, <1>8, <1>12, <1>14 DEF IndInv, HeldIsAuthentic
    <2>2. DrainIsExact' /\ ValidIsUncrossed' /\ LiveIsExact'
      BY <1>1, <1>4, <1>8, <1>12, <1>14 DEF DrainIsExact, ValidIsUncrossed, LiveIsExact
    <2>3. QueryableIsConsistent' /\ LiveFlagAgrees'
      BY <1>1, <1>12, <1>14 DEF QueryableIsConsistent, LiveFlagAgrees
    <2>. QED  BY <1>8, <1>13, <2>1, <2>2, <2>3 DEF IndInv
  <1>15. CASE ~r.ok /\ r.sync = NoteGap(sync)
    <2>1. /\ sync'.state # "Live" /\ sync'.book.validity # "Valid" /\ sync'.buffer = <<>>
      BY <1>1, <1>2, <1>15, Quieting
    <2>2. HeldIsAuthentic' /\ DrainIsExact'
      BY <1>11, <1>12, <1>15, <2>1 DEF HeldIsAuthentic, DrainIsExact
    <2>3. ValidIsUncrossed' /\ LiveIsExact' /\ QueryableIsConsistent' /\ LiveFlagAgrees'
      BY <1>12, <1>15, <2>1
         DEF ValidIsUncrossed, LiveIsExact, QueryableIsConsistent, LiveFlagAgrees
    <2>. QED  BY <1>8, <1>13, <2>2, <2>3 DEF IndInv
  <1>16. CASE /\ d.seq = last + 1 /\ r.last = d.seq /\ r.ok = a.ok /\ r.sync.book = a.book
              /\ r.sync.state = sync.state /\ r.sync.buffer = sync.buffer
    <2>1. CASE a.ok
      <3>1. HeldIsAuthentic'
        BY <1>1, <1>3, <1>8, <1>12, <1>16, <2>1 DEF IndInv, HeldIsAuthentic
      <3>2. d.seq \in 0 .. head
        BY <1>8, <1>9
      <3>3. DrainIsExact'
        BY <1>1, <1>4, <1>6, <1>8, <1>10, <1>12, <1>16, <2>1, <3>2 DEF DrainIsExact
      <3>4. ValidIsUncrossed' /\ LiveIsExact'
        BY <1>1, <1>4, <1>6, <1>16, <2>1 DEF ValidIsUncrossed, LiveIsExact
      <3>5. QueryableIsConsistent' /\ LiveFlagAgrees'
        BY <1>1, <1>12, <1>16, <2>1 DEF QueryableIsConsistent, LiveFlagAgrees
      <3>. QED  BY <1>8, <1>13, <3>1, <3>3, <3>4, <3>5 DEF IndInv
    <2>2. CASE ~a.ok
      <3>1. HeldIsAuthentic' /\ DrainIsExact'
        BY <1>1, <1>8, <1>11, <1>12, <1>16, <2>2 DEF IndInv, HeldIsAuthentic, DrainIsExact
      <3>2. sync'.book = sync.book \/ sync'.book.validity = "Invalid"
        BY <1>1, <1>6, <1>16, <2>2
      <3>3. ValidIsUncrossed' /\ LiveIsExact'
        BY <1>1, <1>4, <1>16, <3>2 DEF ValidIsUncrossed, LiveIsExact
      <3>4. QueryableIsConsistent'
        BY <1>4, <1>8, <3>2 DEF QueryableIsConsistent
      <3>5. LiveFlagAgrees'
        BY <1>1, <1>4, <1>12, <1>16, <2>2 DEF LiveFlagAgrees
      <3>. QED  BY <1>8, <1>13, <3>1, <3>3, <3>4, <3>5 DEF IndInv
    <2>. QED  BY <1>6, <2>1, <2>2
  <1>. QED  BY <1>7, <1>14, <1>15, <1>16

(* The end of on_snapshot: the book becomes live where the drain stopped. *)
LEMMA DrainDoneStep ==
    ASSUME IndInv, DrainDone
    PROVE  IndInv'
  <1>1. /\ draining /\ sync' = FinishDrain(sync, last) /\ live' = TRUE
        /\ draining' = FALSE /\ pending' = <<>> /\ last' = 0 /\ snapSeq' = 0
        /\ UNCHANGED venueVars /\ UNCHANGED <<connected, subscribed, mono>>
    BY DEF DrainDone, EndDrain
  <1>2. TypeOK /\ sync \in Synchronizer /\ last \in Nat
    BY DEF IndInv, TypeOK
  <1>3. /\ sync.book.validity = "Valid" /\ last \in 0 .. head
        /\ Faithful(sync.book.levels, last) /\ ~Crossed(sync.book.levels)
    BY <1>1 DEF IndInv, DrainIsExact, ValidIsUncrossed
  <1>4. /\ sync' \in Synchronizer /\ sync'.state = "Live" /\ sync'.buffer = sync.buffer
        /\ sync'.expected = last + 1
        /\ sync'.book.validity = "Valid" /\ sync'.book.sequence = last
        /\ sync'.book.levels = sync.book.levels
    BY <1>1, <1>2, <1>3, FinishDrainResult
  <1>5. /\ VenueHistory' /\ head \in Nat /\ head' = head
        /\ \A x : Authentic(x)' = Authentic(x)
        /\ \A levels, m : Faithful(levels, m)' = Faithful(levels, m)
    BY <1>1, VenueStill
  <1>6. Len(<<>>) = 0 /\ <<>> \in Seq(Delta)
    OBVIOUS
  <1>7. TypeOK'
    BY <1>1, <1>2, <1>4, <1>6 DEF TypeOK, venueVars
  <1>8. HeldIsAuthentic'
    BY <1>1, <1>4, <1>5, <1>6 DEF IndInv, HeldIsAuthentic
  <1>9. DrainIsExact' /\ ValidIsUncrossed' /\ LiveFlagAgrees'
    BY <1>1, <1>3, <1>4 DEF DrainIsExact, ValidIsUncrossed, LiveFlagAgrees
  <1>10. LiveIsExact' /\ QueryableIsConsistent'
    BY <1>3, <1>4, <1>5 DEF LiveIsExact, QueryableIsConsistent
  <1>. QED  BY <1>5, <1>7, <1>8, <1>9, <1>10 DEF IndInv

(* on_book_delta: a delta is held back unchanged until a snapshot comes, or *)
(* moves a live book by one change, or quiets it.                           *)
LEMMA DeltaStep ==
    ASSUME IndInv, NEW n \in 1 .. head, NEW damaged \in BOOLEAN, NEW bytes \in FrameBytes,
           NEW t \in mono .. MaxMono, OnBookDelta(WireDelta(n, damaged, bytes, t))
    PROVE  IndInv'
  <1>. DEFINE d == WireDelta(n, damaged, bytes, t)
  <1>1. /\ ~draining /\ UNCHANGED drainVars /\ UNCHANGED venueVars
        /\ UNCHANGED <<connected, subscribed>> /\ mono' = d.mono
        /\ Buffering(d) \/ LiveDelta(d)
    BY DEF OnBookDelta
  <1>2. TypeOK /\ sync \in Synchronizer /\ head \in 0 .. MaxSeq /\ mono \in Nat
    BY DEF IndInv, TypeOK
  <1>3. t \in Nat /\ bytes \in Nat /\ n \in 1 .. MaxSeq /\ log[n] \in VenueChange
    BY <1>2, SessionBoundsAssumption DEF IndInv, VenueHistory
  <1>4. d \in Delta /\ Authentic(d)
    <2>1. log[n] \in Change /\ Damage(log[n]) \in Change
      BY <1>3, VenueChangeType, DamageType
    <2>. QED  BY <1>3, <2>1 DEF WireDelta, Delta, Authentic
  <1>. HIDE DEF d
  <1>5. mono' \in Nat
    BY <1>1, <1>4 DEF Delta
  <1>6. /\ VenueHistory' /\ head \in Nat /\ head' = head
        /\ \A x : Authentic(x)' = Authentic(x)
        /\ \A levels, m : Faithful(levels, m)' = Faithful(levels, m)
    BY <1>1, VenueStill
  <1>7. CASE Buffering(d)
    <2>. DEFINE r == BufferDelta(sync, d)
    <2>1. sync.state # "Live" /\ sync' = r.sync /\ UNCHANGED live
      BY <1>7 DEF Buffering
    <2>2. /\ r.sync \in Synchronizer
          /\ \/ /\ r.sync.buffer = Append(sync.buffer, d) /\ r.sync.book = sync.book
                /\ r.sync.state # "Live"
             \/ /\ r.sync.buffer = <<>> /\ r.sync.book.validity # "Valid"
                /\ r.sync.state # "Live"
      BY <1>2, <1>4, <2>1, BufferDeltaResult, Quieting
    <2>. HIDE DEF r
    <2>3. TypeOK'
      BY <1>1, <1>2, <1>5, <2>1, <2>2 DEF TypeOK, venueVars, drainVars
    <2>4. sync.buffer \in Seq(Delta) /\ Len(<<>>) = 0
      BY <1>2 DEF Synchronizer
    <2>5. \A i \in 1 .. Len(sync'.buffer) : Authentic(sync'.buffer[i])
      BY <1>4, <2>1, <2>2, <2>4 DEF IndInv, HeldIsAuthentic
    <2>6. HeldIsAuthentic' /\ DrainIsExact'
      BY <1>1, <1>6, <2>5 DEF IndInv, HeldIsAuthentic, DrainIsExact, drainVars
    <2>7. LiveIsExact' /\ LiveFlagAgrees' /\ ValidIsUncrossed'
      BY <1>1, <2>1, <2>2
         DEF IndInv, LiveIsExact, LiveFlagAgrees, ValidIsUncrossed, drainVars
    <2>8. QueryableIsConsistent'
      BY <1>1, <1>6, <2>1, <2>2 DEF IndInv, QueryableIsConsistent, drainVars
    <2>. QED  BY <1>6, <2>3, <2>6, <2>7, <2>8 DEF IndInv
  <1>8. CASE LiveDelta(d)
    <2>. DEFINE r == OnLiveDelta(sync, d)
                a == ApplyChange(sync.book, d.change)
    <2>1. /\ sync.state = "Live"
          /\ r.ok => sync' = r.sync /\ UNCHANGED live
          /\ ~r.ok => sync' = Invalidate(r.sync) /\ live' = FALSE
      BY <1>8 DEF LiveDelta
    <2>2. /\ sync.book.validity = "Valid" /\ sync.book.sequence \in 0 .. head
          /\ sync.expected = sync.book.sequence + 1
          /\ Faithful(sync.book.levels, sync.book.sequence)
          /\ ~Crossed(sync.book.levels)
      BY <2>1 DEF IndInv, LiveIsExact, ValidIsUncrossed
    <2>3. sync.book \in Book /\ sync.book.levels \in Levels /\ d.change \in Change
      BY <1>2, <1>4 DEF Synchronizer, Delta, Book
    <2>4. sync.expected \in Nat /\ head \in Nat
      BY <1>6, <2>2
    <2>5. /\ r.ok \in BOOLEAN /\ r.sync \in Synchronizer
          /\ r.ok => \/ r.sync = sync
                     \/ /\ d.seq = sync.expected /\ a.ok /\ r.sync.state = "Live"
                        /\ r.sync.buffer = sync.buffer /\ r.sync.expected = d.seq + 1
                        /\ r.sync.book.levels = a.book.levels
                        /\ r.sync.book.validity = a.book.validity
                        /\ r.sync.book.sequence = d.seq
      BY <1>2, <1>4, <2>1, <2>4, OnLiveDeltaResult
    <2>6. a.ok => /\ a.book.validity = "Valid" /\ ~Rejected(d.change)
                  /\ a.book.levels \in {Touch(sync.book.levels, d.change),
                                        TrimDepth(Touch(sync.book.levels, d.change))}
                  /\ ~Crossed(a.book.levels)
      BY <2>2, <2>3, ApplyChangeResult
    <2>7. d.seq \in 1 .. head /\ d.change \in {log[d.seq], Damage(log[d.seq])}
      BY <1>4 DEF Authentic
    <2>8. d.seq = sync.expected /\ a.ok => Faithful(a.book.levels, d.seq)
      BY <1>2, <2>2, <2>3, <2>6, <2>7, FaithfulStep DEF IndInv
    <2>. HIDE DEF r, a
    <2>9. CASE ~r.ok
      <3>1. sync' \in Synchronizer
        BY <2>1, <2>5, <2>9, Quieting
      <3>2. TypeOK'
        BY <1>1, <1>2, <1>5, <2>1, <2>9, <3>1 DEF TypeOK, venueVars, drainVars
      <3>. QED  BY <1>1, <2>1, <2>5, <2>9, <3>2, QuietStep
    <2>10. CASE r.ok /\ r.sync = sync
      <3>1. UNCHANGED <<live, sync>>
        BY <2>1, <2>10
      <3>2. TypeOK'
        BY <1>1, <1>2, <1>5, <3>1 DEF TypeOK, venueVars, drainVars
      <3>3. HeldIsAuthentic'
        BY <1>1, <1>6, <3>1 DEF IndInv, HeldIsAuthentic, drainVars
      <3>4. DrainIsExact' /\ ValidIsUncrossed' /\ LiveFlagAgrees'
        BY <1>1, <3>1 DEF IndInv, DrainIsExact, ValidIsUncrossed, LiveFlagAgrees, drainVars
      <3>5. LiveIsExact' /\ QueryableIsConsistent'
        BY <1>6, <2>2, <3>1 DEF LiveIsExact, QueryableIsConsistent
      <3>. QED  BY <1>6, <3>2, <3>3, <3>4, <3>5 DEF IndInv
    <2>11. CASE r.ok /\ r.sync # sync
      <3>1. /\ UNCHANGED live /\ sync' \in Synchronizer /\ sync'.state = "Live"
            /\ sync'.buffer = sync.buffer /\ sync'.expected = d.seq + 1
            /\ sync'.book.validity = "Valid" /\ sync'.book.sequence = d.seq
            /\ Faithful(sync'.book.levels, d.seq) /\ ~Crossed(sync'.book.levels)
        BY <2>1, <2>5, <2>6, <2>8, <2>11
      <3>2. TypeOK'
        BY <1>1, <1>2, <1>5, <3>1 DEF TypeOK, venueVars, drainVars
      <3>3. HeldIsAuthentic'
        BY <1>1, <1>6, <3>1 DEF IndInv, HeldIsAuthentic, drainVars
      <3>4. DrainIsExact' /\ ValidIsUncrossed'
        BY <1>1, <3>1 DEF DrainIsExact, ValidIsUncrossed, drainVars
      <3>5. LiveFlagAgrees'
        BY <1>1, <2>1, <3>1 DEF IndInv, LiveFlagAgrees, drainVars
      <3>6. d.seq \in 0 .. head
        BY <2>4, <2>7
      <3>7. LiveIsExact' /\ QueryableIsConsistent'
        BY <1>6, <3>1, <3>6 DEF LiveIsExact, QueryableIsConsistent
      <3>. QED  BY <1>6, <3>2, <3>3, <3>4, <3>5, <3>7 DEF IndInv
    <2>. QED  BY <2>5, <2>9, <2>10, <2>11
  <1>. QED  BY <1>1, <1>7, <1>8

(* Every handler of the session, and the venue, preserve the invariant. *)
LEMMA NextIndInv == IndInv /\ [Next]_vars => IndInv'
  <1>. SUFFICES ASSUME IndInv, [Next]_vars PROVE IndInv'
    OBVIOUS
  <1>1. TypeOK /\ sync \in Synchronizer
    BY DEF IndInv, TypeOK
  <1>2. CASE Publish
    BY <1>2, PublishStep
  <1>3. CASE OnConnected
    <2>1. TypeOK'
      BY <1>1, <1>3, Quieting DEF OnConnected, TypeOK, venueVars, drainVars
    <2>. QED  BY <1>1, <1>3, <2>1, QuietStep DEF OnConnected
  <1>4. CASE OnDisconnected
    <2>1. TypeOK'
      BY <1>1, <1>4, Quieting DEF OnDisconnected, TypeOK, venueVars, drainVars
    <2>. QED  BY <1>1, <1>4, <2>1, QuietStep DEF OnDisconnected
  <1>5. CASE ControlResync
    <2>1. TypeOK'
      BY <1>1, <1>5, Quieting DEF ControlResync, TypeOK, venueVars, drainVars
    <2>. QED  BY <1>1, <1>5, <2>1, QuietStep DEF ControlResync
  <1>6. ASSUME NEW value \in BOOLEAN, SetSubscribed(value) PROVE IndInv'
    BY <1>6, SubscribedStep
  <1>7. ASSUME NEW n \in 0 .. head, NEW malformed \in BOOLEAN, OnBookSnap(n, malformed)
        PROVE  IndInv'
    BY <1>7, SnapStep
  <1>8. CASE DrainDelta
    BY <1>8, DrainDeltaStep
  <1>9. CASE DrainDone
    BY <1>9, DrainDoneStep
  <1>10. ASSUME NEW n \in 1 .. head, NEW damaged \in BOOLEAN, NEW bytes \in FrameBytes,
                NEW t \in mono .. MaxMono, OnBookDelta(WireDelta(n, damaged, bytes, t))
         PROVE  IndInv'
    BY <1>10, DeltaStep
  <1>11. CASE UNCHANGED vars
    <2>1. UNCHANGED <<head, log, truth, connected, subscribed, live, sync, mono, draining,
                      pending, last, snapSeq>>
      BY <1>11 DEF vars, venueVars, sessionVars, drainVars
    <2>. QED
      BY <2>1 DEF IndInv, TypeOK, VenueHistory, HeldIsAuthentic, Authentic, DrainIsExact,
                  ValidIsUncrossed, LiveIsExact, QueryableIsConsistent, LiveFlagAgrees, Faithful
  <1>. QED
    BY <1>2, <1>3, <1>4, <1>5, <1>6, <1>7, <1>8, <1>9, <1>10, <1>11 DEF Next

-----------------------------------------------------------------------------
(* Theorems *)

(* The state the session and its synchronizer keep is always well formed,   *)
(* for every set of prices and quantities, depth, history and buffer limit. *)
THEOREM TypeCorrect == Spec => []TypeOK
  <1>1. IndInv => TypeOK
    BY DEF IndInv
  <1>. QED  BY <1>1, InitIndInv, NextIndInv, PTL DEF Spec

(* A live book is the venue's book after the change it claims, whatever     *)
(* deltas were lost, repeated, reordered or damaged.                        *)
THEOREM LiveBookIsExact == Spec => []LiveIsExact
  <1>1. IndInv => LiveIsExact
    BY DEF IndInv
  <1>. QED  BY <1>1, InitIndInv, NextIndInv, PTL DEF Spec

(* No book the session would serve mixes two moments of the venue's book.   *)
THEOREM QueryableBookIsConsistent == Spec => []QueryableIsConsistent
  <1>1. IndInv => QueryableIsConsistent
    BY DEF IndInv
  <1>. QED  BY <1>1, InitIndInv, NextIndInv, PTL DEF Spec

(* No book the session would serve is crossed or locked.                    *)
THEOREM ValidBookIsUncrossed == Spec => []ValidIsUncrossed
  <1>1. IndInv => ValidIsUncrossed
    BY DEF IndInv
  <1>. QED  BY <1>1, InitIndInv, NextIndInv, PTL DEF Spec

(* The flag behind is_live always agrees with the synchronizer.             *)
THEOREM LiveFlagIsTruthful == Spec => []LiveFlagAgrees
  <1>1. IndInv => LiveFlagAgrees
    BY DEF IndInv
  <1>. QED  BY <1>1, InitIndInv, NextIndInv, PTL DEF Spec
=============================================================================
