-------------------------- MODULE SyntheticSession --------------------------
(***************************************************************************)
(* The session machine of crates/adapters/synthetic/src/session.rs, the    *)
(* one that drives every operation of BookSynchronizer, against a venue    *)
(* whose frames are lost, delayed, repeated, reordered and damaged, and    *)
(* with the projection the daemon's view plane builds from its events      *)
(* (crates/daemon/src/view/plane.rs, LiveBook).                            *)
(*                                                                         *)
(* The venue is external.  It publishes change number n (log[n]) on its    *)
(* book (truth[n]); a frame for any published n may arrive at any time and *)
(* any number of times, which covers loss, delay, duplication and          *)
(* reordering.                                                             *)
(***************************************************************************)
EXTENDS BookSynchronizer

CONSTANTS
    MaxSeq,        \* bound: changes the venue publishes
    MaxMono,       \* bound: values of the monotonic clock
    VenueChange,   \* the changes the venue publishes
    FrameBytes     \* the sizes a delta frame can have

ASSUME SessionBoundsAssumption ==
    MaxSeq \in Nat /\ MaxMono \in Nat /\ FrameBytes \subseteq Nat
ASSUME VenueChangeAssumption ==
    VenueChange \subseteq {c \in Change : ~Rejected(c)}

VARIABLES
    head, log, truth,        \* the venue: changes published, each one, the book after each
    connected,               \* a transport connection is up
    subscribed, live, sync,  \* SyntheticSession
    mono,                    \* the monotonic clock at the last frame
    draining, pending, last, snapSeq,  \* the locals of apply_snapshot_and_drain
    view                     \* the view plane's LiveBook; NewBook when it has none

venueVars   == <<head, log, truth>>
drainVars   == <<draining, pending, last, snapSeq>>
sessionVars == <<subscribed, live, sync>>
vars == <<venueVars, connected, sessionVars, mono, drainVars, view>>

NoView == NewBook

NoChange == [side |-> "Bid", operation |-> "Delete", price |-> BadPrice, quantity |-> None]

Init ==
    /\ head = 0
    /\ log = [n \in 1 .. MaxSeq |-> NoChange]
    /\ truth = [n \in 0 .. MaxSeq |-> NoLevels]
    /\ connected = FALSE
    /\ subscribed = FALSE /\ live = FALSE
    /\ sync = RequestSnapshot(NewSynchronizer)
    /\ mono = 0
    /\ draining = FALSE /\ pending = <<>> /\ last = 0 /\ snapSeq = 0
    /\ view = NoView

(* The venue changes its book. *)
Publish ==
    /\ ~draining /\ head < MaxSeq
    /\ \E c \in VenueChange :
         /\ log' = [log EXCEPT ![head + 1] = c]
         /\ truth' = [truth EXCEPT ![head + 1] = Touch(truth[head], c)]
    /\ head' = head + 1
    /\ UNCHANGED <<connected, sessionVars, mono, drainVars, view>>

-----------------------------------------------------------------------------
(* The view plane's ingest of the events a handler emitted. *)

ViewSnapshot(snap) ==
    LET r == ApplySnapshot(NewBook, snap, None) IN IF r.ok THEN r.book ELSE view
ViewDelta(c)       == ApplyChangesAtomic(view, <<c>>).book
ViewInvalidated    == NoView

-----------------------------------------------------------------------------
(* Connection inputs and control commands. *)

OnConnected ==
    /\ ~draining /\ ~connected
    /\ connected' = TRUE
    /\ subscribed' = FALSE /\ live' = FALSE
    /\ sync' = RequestSnapshot(BeginResync(sync))
    /\ UNCHANGED <<venueVars, mono, drainVars, view>>

OnDisconnected ==
    /\ ~draining /\ connected
    /\ connected' = FALSE
    /\ subscribed' = FALSE /\ live' = FALSE
    /\ sync' = Invalidate(sync)
    /\ view' = ViewInvalidated
    /\ UNCHANGED <<venueVars, mono, drainVars>>

(* SUB and UNSUB frames, and the committed Subscribe, Unsubscribe and       *)
(* Replace commands: each leaves subscribed at TRUE or FALSE.               *)
SetSubscribed(value) ==
    /\ ~draining /\ connected
    /\ subscribed' = value
    /\ UNCHANGED <<venueVars, connected, live, sync, mono, drainVars, view>>

(* Mutant of ControlResync: the live flag is not reset. *)
ControlResyncStaysLive ==
    /\ ~draining
    /\ sync' = RequestSnapshot(BeginResync(sync))
    /\ view' = ViewInvalidated
    /\ UNCHANGED <<venueVars, connected, subscribed, live, mono, drainVars>>

ControlResync ==
    /\ ~draining
    /\ sync' = RequestSnapshot(BeginResync(sync))
    /\ live' = FALSE
    /\ view' = ViewInvalidated
    /\ UNCHANGED <<venueVars, connected, subscribed, mono, drainVars>>

-----------------------------------------------------------------------------
(* on_book_snap: a snapshot the venue took after change n. *)

VenueSnapshot(n, malformed) == [levels |-> truth[n], malformed |-> malformed]

SnapshotFailed ==
    /\ live' = FALSE
    /\ view' = ViewInvalidated

OnBookSnap(n, malformed) ==
    LET r == StartDrain(sync, VenueSnapshot(n, malformed), n)
    IN  /\ ~draining /\ connected /\ subscribed
        /\ sync' = r.sync
        /\ IF r.ok
           THEN /\ draining' = TRUE /\ pending' = r.pending
                /\ last' = n /\ snapSeq' = n
                /\ UNCHANGED <<live, view>>
           ELSE SnapshotFailed /\ UNCHANGED drainVars
        /\ UNCHANGED <<venueVars, connected, subscribed, mono>>

EndDrain == draining' = FALSE /\ pending' = <<>> /\ last' = 0 /\ snapSeq' = 0

DrainDelta ==
    /\ draining /\ pending # <<>>
    /\ LET r == DrainOne(sync, Head(pending), last)
       IN  /\ sync' = r.sync
           /\ IF r.ok
              THEN /\ pending' = Tail(pending) /\ last' = r.last
                   /\ UNCHANGED <<draining, snapSeq, live, view>>
              ELSE EndDrain /\ SnapshotFailed
    /\ UNCHANGED <<venueVars, connected, subscribed, mono>>

DrainDone ==
    /\ draining /\ pending = <<>>
    /\ sync' = FinishDrain(sync, last)
    /\ live' = TRUE
    /\ view' = ViewSnapshot(VenueSnapshot(snapSeq, FALSE))
    /\ EndDrain
    /\ UNCHANGED <<venueVars, connected, subscribed, mono>>

-----------------------------------------------------------------------------
(* on_book_delta.  A quantity that does not parse is reported and then      *)
(* handled as if it were missing.                                           *)

Damage(c) == [c EXCEPT !.quantity = None]

WireDelta(n, damaged, bytes, t) ==
    [seq |-> n, bytes |-> bytes, mono |-> t,
     change |-> IF damaged THEN Damage(log[n]) ELSE log[n]]

Buffering(d) ==
    LET r == BufferDelta(sync, d)
    IN  /\ sync.state # "Live"
        /\ sync' = r.sync
        /\ view' = IF r.ok THEN view ELSE ViewInvalidated
        /\ UNCHANGED live

LiveDelta(d) ==
    LET r == OnLiveDelta(sync, d)
    IN  /\ sync.state = "Live"
        /\ IF r.ok
           THEN /\ sync' = r.sync
                /\ view' = ViewDelta(d.change)
                /\ UNCHANGED live
           ELSE /\ sync' = Invalidate(r.sync)
                /\ live' = FALSE
                /\ view' = ViewInvalidated

OnBookDelta(d) ==
    /\ ~draining /\ connected /\ subscribed
    /\ mono' = d.mono
    /\ Buffering(d) \/ LiveDelta(d)
    /\ UNCHANGED <<venueVars, connected, subscribed, drainVars>>

-----------------------------------------------------------------------------

Next ==
    \/ Publish
    \/ OnConnected \/ OnDisconnected \/ ControlResync
    \/ \E value \in BOOLEAN : SetSubscribed(value)
    \/ \E n \in 0 .. head, malformed \in BOOLEAN : OnBookSnap(n, malformed)
    \/ DrainDelta \/ DrainDone
    \/ \E n \in 1 .. head, damaged \in BOOLEAN, bytes \in FrameBytes, t \in mono .. MaxMono :
         OnBookDelta(WireDelta(n, damaged, bytes, t))

Spec == Init /\ [][Next]_vars

-----------------------------------------------------------------------------
(* Properties *)

(* Type invariant of the venue, the session and its synchronizer. *)
TypeOK ==
    /\ head \in 0 .. MaxSeq
    /\ log \in [1 .. MaxSeq -> VenueChange \cup {NoChange}]
    /\ truth \in [0 .. MaxSeq -> Levels]
    /\ connected \in BOOLEAN /\ subscribed \in BOOLEAN /\ live \in BOOLEAN
    /\ sync \in Synchronizer
    /\ mono \in Nat
    /\ draining \in BOOLEAN /\ pending \in Seq(Delta) /\ last \in Nat /\ snapSeq \in Nat

(* Every level the book shows rests on the venue's book after change n; an  *)
(* unbounded book shows all of them.                                        *)
Faithful(levels, n) ==
    /\ \A s \in Side, p \in Price : levels[s][p] \in {Absent, truth[n][s][p]}
    /\ Depth = None => levels = truth[n]

(* A book that is Live shows the venue's book after exactly the change it   *)
(* claims as its sequence, and the next change it will take is the one      *)
(* after: neither a lost, a repeated nor a reordered delta, before or after *)
(* the snapshot, was skipped or applied twice.                              *)
LiveIsExact ==
    sync.state = "Live" =>
        /\ sync.book.validity = "Valid"
        /\ sync.book.sequence \in 0 .. head
        /\ sync.expected = sync.book.sequence + 1
        /\ Faithful(sync.book.levels, sync.book.sequence)

(* Whatever book_snapshot serves is the venue's book at one moment, never a *)
(* mixture of two, also after a refused snapshot or an interrupted drain.   *)
QueryableIsConsistent ==
    ~draining /\ sync.book.validity = "Valid" =>
        \E n \in 0 .. head : Faithful(sync.book.levels, n)

(* A book that can be queried is never crossed, even when the venue's is.   *)
ValidIsUncrossed ==
    sync.book.validity = "Valid" => ~Crossed(sync.book.levels)

(* The buffer of deltas stays within each of the three SyncLimits, and the  *)
(* incremental counters the limits are tested on describe what it holds.    *)
BufferAccounting ==
    /\ Len(sync.buffer) <= MaxBufferedMessages
    /\ sync.bytes <= MaxBufferedBytes
    /\ sync.bytes = FoldLeft(LAMBDA sum, d : sum + d.bytes, 0, sync.buffer)
    /\ (sync.buffer = <<>>) <=> (sync.monoMin = None)
    /\ sync.buffer # <<>> =>
         /\ sync.monoMax - sync.monoMin <= MaxBufferedSpan
         /\ \A i \in DOMAIN sync.buffer : sync.buffer[i].mono \in sync.monoMin .. sync.monoMax

(* The session reports itself live exactly when its synchronizer is. *)
LiveFlagAgrees == ~draining => (live <=> sync.state = "Live")

(* A delta moves a live book by one change; only a snapshot moves it        *)
(* otherwise, and the book stops being live on the way.                     *)
LiveSequenceStep ==
    [][sync.state = "Live" /\ sync'.state = "Live"
         => sync'.book.sequence \in {sync.book.sequence, sync.book.sequence + 1}]_vars

(* The parts of the inductive invariant behind LiveIsExact.  The venue's    *)
(* history is one book after the other; what the session buffered or is     *)
(* draining was published by the venue, damaged at most in its quantity;    *)
(* and between two iterations of the drain the book is the venue's after    *)
(* the last delta applied.                                                  *)
VenueHistory ==
    \A n \in 1 .. head : log[n] \in VenueChange /\ truth[n] = Touch(truth[n - 1], log[n])

Authentic(d) == d.seq \in 1 .. head /\ d.change \in {log[d.seq], Damage(log[d.seq])}

HeldIsAuthentic ==
    /\ \A i \in 1 .. Len(sync.buffer) : Authentic(sync.buffer[i])
    /\ \A i \in 1 .. Len(pending) : Authentic(pending[i])

DrainIsExact ==
    draining => /\ sync.state = "ApplyingBufferedDeltas"
                /\ sync.book.validity = "Valid"
                /\ last \in 0 .. head
                /\ Faithful(sync.book.levels, last)

IndInv ==
    /\ TypeOK /\ VenueHistory /\ HeldIsAuthentic /\ DrainIsExact
    /\ ValidIsUncrossed /\ LiveIsExact /\ QueryableIsConsistent /\ LiveFlagAgrees

(* Fail-closed: a session whose book was invalidated serves no book.        *)
FailClosed == ~draining /\ ~live => sync.book.validity # "Valid"

(* The view plane's book is the one the session serves. *)
ViewMirrorsBook ==
    ~draining /\ live => SnapshotLevels(view) = SnapshotLevels(sync.book)
=============================================================================
