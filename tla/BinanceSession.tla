--------------------------- MODULE BinanceSession ---------------------------
(***************************************************************************)
(* One symbol of the Binance spot session machine                          *)
(* (crates/adapters/binance/src/session.rs): depth events buffered while a *)
(* REST snapshot is outstanding, the rules that bridge the two, and the    *)
(* live book, with the events it queues for the view plane.                *)
(*                                                                         *)
(* A depth event is known by its range of update ids; what it carries is   *)
(* RangePatch of that range.  Events are lost, repeated and reordered; a   *)
(* response may come after any number of them, fail, or answer a request   *)
(* that was replaced.  Once the session asked for a reconnect the engine   *)
(* reads no frame and fires no timer before it reports the disconnection,  *)
(* but hands over responses still queued.                                  *)
(***************************************************************************)
EXTENDS VenueFeed, EventLanes

CONSTANTS
    MaxDepthEvents, MaxDepthBytes, MaxDepthSpan,  \* max_buffered_depth_*
    MaxRequests,     \* bound: snapshot requests outstanding at once
    MaxMono          \* bound: time between two events of a buffer

ASSUME DepthLimitsAssumption ==
    /\ MaxDepthEvents \in Nat /\ MaxDepthBytes \in Nat /\ MaxDepthSpan \in Nat
    /\ MaxRequests \in Nat /\ MaxMono \in Nat

VARIABLES
    connected,       \* between Connected and Disconnected
    reconnect,       \* the session asked for a reconnect on this connection
    heartbeat,       \* the heartbeat timer is scheduled
    outstanding,     \* requests the engine has not answered
    book,            \* SymbolBook
    live,            \* MarkLive was emitted on this connection
    draining, pending    \* the drain loop of apply_snapshot

linkVars  == <<connected, reconnect, heartbeat>>
drainVars == <<draining, pending>>
vars == <<feedVars, linkVars, outstanding, book, live, drainVars, turn, laneVars>>

DepthEvent == [first: Nat, final: Nat, malformed: BOOLEAN, bytes: Nat, mono: Nat]

SymbolBook == [sync: Synchronizer, snapReq: Nat \cup {None}, buffering: BOOLEAN,
               buffer: Seq(DepthEvent), bytes: Nat,
               monoMin: Nat \cup {None}, monoMax: Nat \cup {None}]

-----------------------------------------------------------------------------
(* SymbolBook's own operations. *)

MonoMin(b, e) == IF b.monoMin = None \/ e.mono < b.monoMin THEN e.mono ELSE b.monoMin
MonoMax(b, e) == IF b.monoMax = None \/ e.mono > b.monoMax THEN e.mono ELSE b.monoMax

DepthOverflows(b, e) ==
    \/ Len(b.buffer) >= MaxDepthEvents
    \/ b.bytes + e.bytes > MaxDepthBytes
    \/ MonoMax(b, e) - MonoMin(b, e) > MaxDepthSpan

PushDepth(b, e) ==
    [b EXCEPT !.buffer = Append(@, e), !.bytes = @ + e.bytes,
              !.monoMin = MonoMin(b, e), !.monoMax = MonoMax(b, e)]

ClearDepthBuffer(b) ==
    [b EXCEPT !.buffer = <<>>, !.bytes = 0, !.monoMin = None, !.monoMax = None]

(* Mutant of RetainAfter: the counters still describe the whole buffer. *)
RetainAfterKeepsCounters(b, n) ==
    [b EXCEPT !.buffer = SelectSeq(@, LAMBDA e : e.final > n)]

(* retain, then recompute_depth_buffer_limits. *)
RetainAfter(b, n) ==
    LET kept == SelectSeq(b.buffer, LAMBDA e : e.final > n)
        at   == {kept[i].mono : i \in DOMAIN kept}
    IN  [b EXCEPT !.buffer = kept,
                  !.bytes = FoldLeft(LAMBDA sum, e : sum + e.bytes, 0, kept),
                  !.monoMin = IF at = {} THEN None ELSE Min(at),
                  !.monoMax = IF at = {} THEN None ELSE Max(at)]

-----------------------------------------------------------------------------

Init ==
    /\ FeedInit
    /\ connected = FALSE /\ reconnect = FALSE /\ heartbeat = FALSE
    /\ outstanding = {}
    /\ book = [sync |-> RequestSnapshot(NewSynchronizer), snapReq |-> None,
               buffering |-> TRUE, buffer |-> <<>>, bytes |-> 0,
               monoMin |-> None, monoMax |-> None]
    /\ live = FALSE
    /\ draining = FALSE /\ pending = <<>>
    /\ LanesInit

Publish ==
    /\ ~draining /\ VenueStep
    /\ UNCHANGED <<linkVars, outstanding, book, live, drainVars, turn, laneVars>>

(* Mutant of RequestDepthSnapshot: ids start at zero. *)
RequestDepthSnapshotFromZero(b, open) ==
    LET id == Min((0 .. MaxRequests) \ open)
    IN  /\ Cardinality(open) <= MaxRequests
        /\ outstanding' = open \cup {id}
        /\ book' = [b EXCEPT !.snapReq = id, !.buffering = TRUE,
                             !.sync = RequestSnapshot(BeginResync(b.sync))]

(* request_depth_snapshot, applied to book b while the requests in open are *)
(* unanswered: an id none of them has, which is all the counter             *)
(* next_http_id is for.  The buffer is kept.                                *)
RequestDepthSnapshot(b, open) ==
    LET id == Min((1 .. MaxRequests) \ open)
    IN  /\ Cardinality(open) < MaxRequests
        /\ outstanding' = open \cup {id}
        /\ book' = [b EXCEPT !.snapReq = id, !.buffering = TRUE,
                             !.sync = RequestSnapshot(BeginResync(b.sync))]

OnConnected ==
    /\ ~draining /\ ~connected
    /\ connected' = TRUE /\ reconnect' = FALSE /\ heartbeat' = TRUE /\ live' = FALSE
    /\ RequestDepthSnapshot(ClearDepthBuffer(book), outstanding)
    /\ UNCHANGED <<feedVars, drainVars, turn, laneVars>>

(* The engine has by then answered or abandoned every request.  Nothing is  *)
(* emitted for the book, and nothing forwarded.                             *)
OnDisconnected ==
    /\ ~draining /\ connected /\ turn = "Read"
    /\ connected' = FALSE /\ reconnect' = FALSE /\ heartbeat' = FALSE /\ live' = FALSE
    /\ book' = [ClearDepthBuffer(book) EXCEPT !.sync = Invalidate(@), !.buffering = TRUE]
    /\ outstanding' = {}
    /\ UNCHANGED <<feedVars, drainVars, turn, laneVars>>

(* Control Resync.  The session stays marked live. *)
ControlResync ==
    /\ ~draining /\ connected
    /\ RequestDepthSnapshot(ClearDepthBuffer(book), outstanding)
    /\ UNCHANGED <<feedVars, linkVars, live, drainVars, turn, laneVars>>

(* Mutant of HeartbeatMissed: the one-shot timer fires and nothing follows. *)
HeartbeatMissedSilently ==
    /\ ~draining /\ connected /\ ~reconnect /\ heartbeat /\ PollTimers
    /\ heartbeat' = FALSE
    /\ UNCHANGED <<feedVars, connected, reconnect, outstanding, book, live, drainVars>>

HeartbeatMissed ==
    /\ ~draining /\ connected /\ ~reconnect /\ heartbeat /\ PollTimers
    /\ heartbeat' = FALSE /\ reconnect' = TRUE
    /\ UNCHANGED <<feedVars, connected, outstanding, book, live, drainVars>>

(* The rest of the live loop: an idle tick, or a binary, ping or pong       *)
(* frame, none of which reaches the books or the heartbeat; and the consume *)
(* that ends it and the handling of a text frame.                           *)
IdleTick ==
    /\ ~draining /\ connected /\ ~reconnect /\ Handle
    /\ UNCHANGED <<feedVars, linkVars, outstanding, book, live, drainVars, laneVars>>

Consume ==
    /\ ~draining /\ Forward
    /\ UNCHANGED <<feedVars, linkVars, outstanding, book, live, drainVars>>

-----------------------------------------------------------------------------
(* apply_live_depth. *)

LastU == IF book.sync.book.sequence = None THEN 0 ELSE book.sync.book.sequence

Stale(e) == e.final <= LastU

(* Mutant of Skips: one missing update id is let through. *)
SkipsOffByOne(e) == e.first > LastU + 2

Skips(e) == e.first > LastU + 1

StaleDepth(e) ==
    /\ Stale(e)
    /\ UNCHANGED <<book, reconnect, laneVars>>

DepthGap(e) ==
    /\ ~Stale(e) /\ Skips(e)
    /\ book' = [ClearDepthBuffer(book) EXCEPT !.sync = NoteGap(@), !.buffering = TRUE]
    /\ reconnect' = TRUE
    /\ EmitInvalidated

(* Mutant of DepthApplied: events drained after a snapshot are not emitted. *)
DepthAppliedSilently(e) ==
    LET patch == RangePatch(e.first, e.final)
        r     == ApplyPatchAtomic(book.sync.book, patch, e.malformed)
    IN  /\ ~Stale(e) /\ ~Skips(e)
        /\ IF r.ok
           THEN /\ book' = [book EXCEPT !.sync.book = SetSequence(r.book, e.final),
                                        !.sync.expected = e.final + 1]
                /\ IF draining THEN UNCHANGED laneVars ELSE EmitDelta(patch)
                /\ UNCHANGED reconnect
           ELSE /\ book' = [book EXCEPT !.sync = Invalidate(@), !.buffering = TRUE]
                /\ reconnect' = TRUE
                /\ EmitInvalidated

DepthApplied(e) ==
    LET patch == RangePatch(e.first, e.final)
        r     == ApplyPatchAtomic(book.sync.book, patch, e.malformed)
    IN  /\ ~Stale(e) /\ ~Skips(e)
        /\ IF r.ok
           THEN /\ book' = [book EXCEPT !.sync.book = SetSequence(r.book, e.final),
                                        !.sync.expected = e.final + 1]
                /\ EmitDelta(patch)
                /\ UNCHANGED reconnect
           ELSE /\ book' = [book EXCEPT !.sync = Invalidate(@), !.buffering = TRUE]
                /\ reconnect' = TRUE
                /\ EmitInvalidated

ApplyLiveDepth(e) == StaleDepth(e) \/ DepthGap(e) \/ DepthApplied(e)

-----------------------------------------------------------------------------
(* Text frames: each one schedules the heartbeat again, before it is        *)
(* decoded.  Trades, quotes, statistics, candles, acknowledgements and what *)
(* does not decode leave the books alone.                                   *)

ReadFrame ==
    /\ ~draining /\ connected /\ ~reconnect /\ Handle
    /\ heartbeat' = TRUE

OtherFrame ==
    /\ ReadFrame
    /\ UNCHANGED <<feedVars, connected, reconnect, outstanding, book, live, drainVars, laneVars>>

(* on_depth_update. *)

Touched(patch) == {x \in Side \X Price : patch[x[1]][x[2]] # Untouched}

WireEvent(a, b, malformed, t) ==
    [first |-> a, final |-> b, malformed |-> malformed,
     bytes |-> 64 + 24 * Cardinality(Touched(RangePatch(a, b))), mono |-> t]

(* Mutant of BufferDepth: an overflow empties the buffer and goes on waiting. *)
BufferDepthWaits(e) ==
    /\ book.buffering \/ book.sync.state # "Live"
    /\ book' = IF DepthOverflows(book, e) THEN ClearDepthBuffer(book) ELSE PushDepth(book, e)
    /\ UNCHANGED <<reconnect, laneVars>>

BufferDepth(e) ==
    /\ book.buffering \/ book.sync.state # "Live"
    /\ IF DepthOverflows(book, e)
       THEN /\ book' = [ClearDepthBuffer(book) EXCEPT !.sync = Invalidate(@)]
            /\ reconnect' = TRUE
            /\ EmitInvalidated
       ELSE /\ book' = PushDepth(book, e)
            /\ UNCHANGED <<reconnect, laneVars>>

OnDepthUpdate(e) ==
    /\ ReadFrame
    /\ \/ BufferDepth(e)
       \/ ~book.buffering /\ book.sync.state = "Live" /\ ApplyLiveDepth(e)
    /\ UNCHANGED <<feedVars, connected, outstanding, live, drainVars>>

-----------------------------------------------------------------------------
(* apply_snapshot, for a snapshot the venue took after step n: the answer   *)
(* to request id, or a frame of the stream (NoRequest).                     *)

NoRequest == 0

Retained(n) == RetainAfter(book, n).buffer

Bridges(n) == Retained(n) # <<>> => Head(Retained(n)).first <= n

TooOld(n) == book.buffer # <<>> /\ n < Head(book.buffer).first

SnapshotTooOld(n, id) ==
    /\ TooOld(n)
    /\ RequestDepthSnapshot(book, outstanding \ {id})
    /\ UNCHANGED <<reconnect, drainVars, laneVars>>

SnapshotUnbridged(n, id) ==
    /\ ~TooOld(n) /\ ~Bridges(n)
    /\ book' = [ClearDepthBuffer(book) EXCEPT !.sync = Invalidate(@), !.buffering = TRUE]
    /\ reconnect' = TRUE
    /\ EmitInvalidated
    /\ outstanding' = outstanding \ {id}
    /\ UNCHANGED drainVars

(* Mutant of Settle: the request stays open. *)
SettleKeepsRequest(b, s) == [ClearDepthBuffer(b) EXCEPT !.sync = s, !.buffering = FALSE]

Settle(b, s) ==
    [ClearDepthBuffer(b) EXCEPT !.sync = s, !.buffering = FALSE, !.snapReq = None]

(* Accepted: the drain loop runs next.  Refused (crossed or malformed): the *)
(* book is invalid and nothing is requested, not even a reconnect.          *)
SnapshotTaken(n, malformed, id) ==
    LET s == RequestSnapshot(BeginResync(book.sync))
        r == ApplySnapshot(s.book, VenueSnapshot(n, malformed), n)
    IN  /\ ~TooOld(n) /\ Bridges(n)
        /\ IF r.ok
           THEN /\ book' = Settle(book, [s EXCEPT !.state = "Live", !.expected = n + 1,
                                                  !.book = r.book])
                /\ draining' = TRUE /\ pending' = Retained(n)
                /\ EmitSnapshot(VenueSnapshot(n, malformed))
           ELSE /\ book' = [RetainAfter(book, n) EXCEPT !.sync = Invalidate(s)]
                /\ EmitInvalidated
                /\ UNCHANGED drainVars
        /\ outstanding' = outstanding \ {id}
        /\ UNCHANGED reconnect

OnSnapshot(n, malformed, id) ==
    SnapshotTooOld(n, id) \/ SnapshotUnbridged(n, id) \/ SnapshotTaken(n, malformed, id)

(* A text frame that decodes as a snapshot: applied to the first symbol     *)
(* whatever its book is doing, and without a request to match it with.      *)
SnapshotFrame(n, malformed) ==
    /\ ReadFrame
    /\ OnSnapshot(n, malformed, NoRequest)
    /\ UNCHANGED <<feedVars, connected, live>>

DrainDepth ==
    /\ draining /\ pending # <<>>
    /\ ApplyLiveDepth(Head(pending))
    /\ IF book'.sync.state = "Live"
       THEN pending' = Tail(pending) /\ UNCHANGED draining
       ELSE draining' = FALSE /\ pending' = <<>>
    /\ UNCHANGED <<feedVars, connected, heartbeat, outstanding, live, turn>>

DrainDone ==
    /\ draining /\ pending = <<>>
    /\ draining' = FALSE
    /\ live' = TRUE
    /\ UNCHANGED <<feedVars, linkVars, outstanding, book, pending, turn, laneVars>>

-----------------------------------------------------------------------------
(* HttpResponse.  Only the answer to the latest request counts. *)

ResponseIgnored(id) ==
    /\ book.snapReq # id
    /\ outstanding' = outstanding \ {id}
    /\ UNCHANGED <<book, reconnect, drainVars, laneVars>>

(* A status other than 200 asks for a reconnect; a body that does not       *)
(* decode changes nothing.                                                  *)
ResponseFailed(id, badStatus) ==
    /\ book.snapReq = id
    /\ outstanding' = outstanding \ {id}
    /\ reconnect' = (reconnect \/ badStatus)
    /\ UNCHANGED <<book, drainVars, laneVars>>

(* Mutant of ResponseSnapshot: the answer to any request is applied. *)
ResponseSnapshotUnmatched(id, n, malformed) == OnSnapshot(n, malformed, id)

ResponseSnapshot(id, n, malformed) ==
    /\ book.snapReq = id
    /\ OnSnapshot(n, malformed, id)

OnHttpResponse(id) ==
    /\ ~draining /\ id \in outstanding
    /\ \/ ResponseIgnored(id)
       \/ \E badStatus \in BOOLEAN : ResponseFailed(id, badStatus)
       \/ \E n \in 0 .. head, malformed \in BOOLEAN : ResponseSnapshot(id, n, malformed)
    /\ UNCHANGED <<feedVars, connected, heartbeat, live, turn>>

-----------------------------------------------------------------------------

(* The monotonic clock counts from the buffer's first event: only times of  *)
(* one buffer are compared.                                                 *)
Clock == IF book.monoMax = None THEN {0} ELSE book.monoMax .. MaxMono

DepthFrame ==
    \E a \in 1 .. head : \E b \in a .. head :
      \E malformed \in BOOLEAN, t \in Clock :
        OnDepthUpdate(WireEvent(a, b, malformed, t))

AnySnapshotFrame == \E n \in 0 .. head, malformed \in BOOLEAN : SnapshotFrame(n, malformed)

Next ==
    \/ Publish \/ OnConnected \/ OnDisconnected \/ ControlResync \/ HeartbeatMissed
    \/ IdleTick \/ Consume \/ OtherFrame
    \/ AnySnapshotFrame \/ DepthFrame \/ DrainDepth \/ DrainDone
    \/ \E id \in outstanding : OnHttpResponse(id)

Spec == Init /\ [][Next]_vars

(* The venue keeps sending depth events on a connection, and the drain loop *)
(* and the live loop run on: a read is reached again and again, so the      *)
(* events are strongly fair.  Nothing is assumed of the REST endpoint.      *)
Fairness ==
    /\ WF_vars(Publish) /\ SF_vars(DepthFrame)
    /\ WF_vars(DrainDepth) /\ WF_vars(DrainDone) /\ WF_vars(Consume)

FairSpec == Spec /\ Fairness

-----------------------------------------------------------------------------
(* Properties *)

(* Type invariant of the venue, the session and the lanes. *)
TypeOK ==
    /\ FeedTypeOK /\ LanesTypeOK
    /\ connected \in BOOLEAN /\ reconnect \in BOOLEAN /\ heartbeat \in BOOLEAN /\ live \in BOOLEAN
    /\ outstanding \subseteq 1 .. MaxRequests
    /\ book \in SymbolBook
    /\ draining \in BOOLEAN /\ pending \in Seq(DepthEvent)

(* A live book, also between two events of the drain, is the venue's after  *)
(* the last update id it applied, however ranges overlap, repeat, arrive    *)
(* out of order or straddle the snapshot.                                   *)
LiveIsExact ==
    book.sync.state = "Live" =>
        /\ book.sync.book.validity = "Valid"
        /\ book.sync.book.sequence \in 0 .. head
        /\ book.sync.expected = book.sync.book.sequence + 1
        /\ Faithful(book.sync.book.levels, book.sync.book.sequence)

(* While a book is live no snapshot request is open for it and nothing is   *)
(* buffered, so no late response can put it back.                           *)
LiveIsSettled ==
    book.sync.state = "Live" =>
        ~book.buffering /\ book.snapReq = None /\ book.buffer = <<>>

(* A connection that falls silent is noticed: whenever frames are read from *)
(* it, the timer that will ask for a reconnect is running.                  *)
SilenceIsNoticed == connected /\ ~reconnect => heartbeat

(* The depth buffer's counters describe what it holds, and each limit is    *)
(* respected, through retention, retries and overflow.                      *)
DepthAccounting ==
    /\ Len(book.buffer) <= MaxDepthEvents
    /\ book.bytes <= MaxDepthBytes
    /\ book.bytes = FoldLeft(LAMBDA sum, e : sum + e.bytes, 0, book.buffer)
    /\ (book.buffer = <<>>) <=> (book.monoMin = None)
    /\ book.buffer # <<>> =>
         /\ book.monoMin = Min({book.buffer[i].mono : i \in DOMAIN book.buffer})
         /\ book.monoMax = Max({book.buffer[i].mono : i \in DOMAIN book.buffer})
         /\ book.monoMax - book.monoMin <= MaxDepthSpan

(* Once the events of a live book are forwarded, the view plane shows the   *)
(* same levels or no book at all: the drained events are emitted in the     *)
(* order they are applied, and nothing that an earlier connection queued is *)
(* mixed into the book.                                                     *)
ViewNeverDiffers ==
    book.sync.state = "Live" /\ ~Queued /\ view # NoView => view.levels = book.sync.book.levels

(* The view plane "mirrors EngineControl::book_snapshot" (docs/ops/ui.md):  *)
(* once the events of a live book are forwarded it shows that book.         *)
ViewMirrorsBook ==
    book.sync.state = "Live" /\ ~Queued => SnapshotLevels(view) = book.sync.book.levels

(* A live book goes back to an earlier update id only by a snapshot frame   *)
(* of the stream, which no request is matched with.  No depth event takes   *)
(* it back, and no REST answer, however late or to whichever request.       *)
RegressesOnlyByFrame ==
    [][book.sync.state = "Live" /\ book'.sync.state = "Live"
         /\ book'.sync.book.sequence < book.sync.book.sequence => AnySnapshotFrame]_vars

(* Unless it is told to resynchronize, or sent snapshots as frames, for     *)
(* ever, a connected session whose book is not live gets it live, or asks   *)
(* for a reconnect: also when the snapshot was refused, did not decode or   *)
(* never came, since the events it buffers meanwhile overflow the buffer.   *)
NeverStuck ==
    <>[][~ControlResync /\ ~AnySnapshotFrame]_vars =>
        (connected /\ book.sync.state # "Live"
            ~> (book.sync.state = "Live" \/ reconnect \/ ~connected))
=============================================================================
