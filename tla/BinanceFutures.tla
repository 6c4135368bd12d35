--------------------------- MODULE BinanceFutures ---------------------------
(***************************************************************************)
(* One symbol of the Binance COIN-M session machine                        *)
(* (crates/adapters/binance/src/coinm_session.rs).  Depth events carry     *)
(* their range of update ids and the last id of the event before (pu); the *)
(* first event after a snapshot bridges it, each later one continues the   *)
(* pu chain.  Responses are matched by a table of pending requests that    *)
(* also holds the open-interest polls.                                     *)
(*                                                                         *)
(* An event covers the venue's steps prev + 1 to final; update ids may     *)
(* skip, so its first id lies anywhere among them.                         *)
(***************************************************************************)
EXTENDS VenueFeed, EventLanes

CONSTANTS
    MaxDepthEvents,  \* max_buffered_events; the other limits are as in BinanceSession
    MaxRequests,     \* bound: requests pending at once
    Malformed        \* bound: whether a depth event may be malformed

ASSUME FuturesAssumption ==
    MaxDepthEvents \in Nat /\ MaxRequests \in Nat /\ Malformed \subseteq BOOLEAN

VARIABLES
    connected, reconnect,
    oiTimer,         \* the open-interest timer is scheduled
    pendingHttp,     \* pending_http: kind by request id
    book,            \* SymbolBook
    live,            \* MarkLive was emitted on this connection
    draining, pending, first    \* the drain loop of apply_snapshot; first: index = 0

linkVars  == <<connected, reconnect, oiTimer>>
drainVars == <<draining, pending, first>>
vars == <<feedVars, linkVars, pendingHttp, book, live, drainVars, turn, laneVars>>

RequestId   == 1 .. MaxRequests
PendingHttp == {"DepthSnapshot", "OpenInterest"}

DepthEvent == [prev: Nat, first: Nat, final: Nat, malformed: BOOLEAN]

SymbolBook == [sync: Synchronizer, buffering: BOOLEAN, awaitingBridge: BOOLEAN,
               buffer: Seq(DepthEvent)]

Init ==
    /\ FeedInit
    /\ connected = FALSE /\ reconnect = FALSE /\ oiTimer = FALSE
    /\ pendingHttp = <<>>
    /\ book = [sync |-> RequestSnapshot(NewSynchronizer), buffering |-> TRUE,
               awaitingBridge |-> TRUE, buffer |-> <<>>]
    /\ live = FALSE
    /\ draining = FALSE /\ pending = <<>> /\ first = FALSE
    /\ LanesInit

Publish ==
    /\ ~draining /\ VenueStep
    /\ UNCHANGED <<linkVars, pendingHttp, book, live, drainVars, turn, laneVars>>

-----------------------------------------------------------------------------
(* Requests. *)

(* A new request: an id none of the open ones has, which is all the counter *)
(* next_http_id is for.                                                     *)
HasRoom(open) == RequestId \ DOMAIN open # {}
Requested(open, kind) == open @@ Min(RequestId \ DOMAIN open) :> kind

Without(open, id) == [i \in DOMAIN open \ {id} |-> open[i]]

RequestedBook(b) ==
    [b EXCEPT !.buffering = TRUE, !.awaitingBridge = TRUE,
              !.sync = RequestSnapshot(BeginResync(b.sync))]

(* poll_open_interest_all for one symbol, then the snapshot request. *)
OnConnected ==
    /\ ~draining /\ ~connected
    /\ connected' = TRUE /\ reconnect' = FALSE /\ oiTimer' = TRUE /\ live' = FALSE
    /\ HasRoom(pendingHttp) /\ HasRoom(Requested(pendingHttp, "OpenInterest"))
    /\ pendingHttp' = Requested(Requested(pendingHttp, "OpenInterest"), "DepthSnapshot")
    /\ book' = RequestedBook([book EXCEPT !.buffer = <<>>])
    /\ UNCHANGED <<feedVars, drainVars, turn, laneVars>>

OnDisconnected ==
    /\ ~draining /\ connected /\ turn = "Read"
    /\ connected' = FALSE /\ reconnect' = FALSE /\ oiTimer' = FALSE /\ live' = FALSE
    /\ book' = [book EXCEPT !.sync = Invalidate(@), !.buffering = TRUE, !.buffer = <<>>]
    /\ pendingHttp' = <<>>
    /\ UNCHANGED <<feedVars, drainVars, turn, laneVars>>

(* Control Resync: a snapshot request, also while another one is pending. *)
ControlResync ==
    /\ ~draining /\ connected
    /\ HasRoom(pendingHttp)
    /\ pendingHttp' = Requested(pendingHttp, "DepthSnapshot")
    /\ book' = RequestedBook([book EXCEPT !.buffer = <<>>])
    /\ UNCHANGED <<feedVars, linkVars, live, drainVars, turn, laneVars>>

(* Mutant of PollOpenInterest: request ids start at zero. *)
PollOpenInterestFromZero ==
    /\ ~draining /\ connected /\ ~reconnect /\ oiTimer /\ PollTimers
    /\ pendingHttp' = pendingHttp @@ 0 :> "OpenInterest"
    /\ UNCHANGED <<feedVars, linkVars, book, live, drainVars>>

(* The timer is one-shot: the poll schedules the next one. *)
PollOpenInterest ==
    /\ ~draining /\ connected /\ ~reconnect /\ oiTimer /\ PollTimers
    /\ HasRoom(pendingHttp)
    /\ pendingHttp' = Requested(pendingHttp, "OpenInterest")
    /\ UNCHANGED <<feedVars, linkVars, book, live, drainVars>>

(* The rest of the live loop, as in BinanceSession. *)
IdleTick ==
    /\ ~draining /\ connected /\ ~reconnect /\ Handle
    /\ UNCHANGED <<feedVars, linkVars, pendingHttp, book, live, drainVars, laneVars>>

Consume ==
    /\ ~draining /\ Forward
    /\ UNCHANGED <<feedVars, linkVars, pendingHttp, book, live, drainVars>>

-----------------------------------------------------------------------------
(* apply_live_depth, from book b. *)

LastU(b) == IF b.sync.book.sequence = None THEN 0 ELSE b.sync.book.sequence

(* BookInvalidated and Reconnect. *)
Invalidated == EmitInvalidated /\ reconnect' = TRUE

Gap(b) == [b EXCEPT !.sync = NoteGap(@), !.buffering = TRUE, !.buffer = <<>>]

(* Mutant of Continues: the event's first id is compared, as on spot, and   *)
(* one missing id is let through.                                           *)
ContinuesFromFirst(b, e) == e.first <= LastU(b) + 2

Continues(b, e) == e.prev = LastU(b)

(* Mutant of DepthApplied: events drained after a snapshot are not emitted. *)
DepthAppliedSilently(b, e) ==
    LET patch == RangePatch(e.prev + 1, e.final)
        r     == ApplyPatchAtomic(b.sync.book, patch, e.malformed)
    IN  IF r.ok
        THEN /\ book' = [b EXCEPT !.sync.book = SetSequence(r.book, e.final),
                                  !.sync.expected = e.final]
             /\ IF draining THEN UNCHANGED laneVars ELSE EmitDelta(patch)
             /\ UNCHANGED reconnect
        ELSE /\ book' = [b EXCEPT !.sync = Invalidate(@), !.buffering = TRUE]
             /\ Invalidated

DepthApplied(b, e) ==
    LET patch == RangePatch(e.prev + 1, e.final)
        r     == ApplyPatchAtomic(b.sync.book, patch, e.malformed)
    IN  IF r.ok
        THEN /\ book' = [b EXCEPT !.sync.book = SetSequence(r.book, e.final),
                                  !.sync.expected = e.final]
             /\ EmitDelta(patch)
             /\ UNCHANGED reconnect
        ELSE /\ book' = [b EXCEPT !.sync = Invalidate(@), !.buffering = TRUE]
             /\ Invalidated

Stale(b, e) == e.final <= LastU(b)

(* Mutant of ApplyLiveDepth: neither the age nor the pu chain is checked. *)
ApplyLiveDepthUnchecked(b, e, enforcePrev) == DepthApplied(b, e)

ApplyLiveDepth(b, e, enforcePrev) ==
    \/ /\ Stale(b, e)
       /\ book' = b
       /\ UNCHANGED <<reconnect, laneVars>>
    \/ /\ ~Stale(b, e) /\ enforcePrev /\ ~Continues(b, e)
       /\ book' = Gap(b)
       /\ Invalidated
    \/ /\ ~Stale(b, e) /\ (enforcePrev => Continues(b, e))
       /\ DepthApplied(b, e)

-----------------------------------------------------------------------------
(* on_depth_update.  The limits on bytes and on the time span are choices   *)
(* here: the buffer may overflow at any length up to MaxDepthEvents.        *)

(* Mutant of BufferDepth: an overflow does not ask for a reconnect. *)
BufferDepthWaits(e) ==
    /\ book.buffering \/ book.sync.state # "Live"
    /\ book' = [book EXCEPT !.buffer = IF Len(@) < MaxDepthEvents THEN Append(@, e) ELSE <<>>]
    /\ UNCHANGED <<reconnect, laneVars>>

BufferDepth(e) ==
    /\ book.buffering \/ book.sync.state # "Live"
    /\ \/ /\ book' = [book EXCEPT !.sync = Invalidate(@), !.buffer = <<>>]
          /\ Invalidated
       \/ /\ Len(book.buffer) < MaxDepthEvents
          /\ book' = [book EXCEPT !.buffer = Append(@, e)]
          /\ UNCHANGED <<reconnect, laneVars>>

Bridged(e) == e.first <= LastU(book)

BridgeDepth(e) ==
    /\ ~book.buffering /\ book.sync.state = "Live" /\ book.awaitingBridge
    /\ \/ /\ e.final < LastU(book)
          /\ UNCHANGED <<book, reconnect, laneVars>>
       \/ /\ e.final >= LastU(book) /\ ~Bridged(e)
          /\ book' = [Gap(book) EXCEPT !.awaitingBridge = TRUE]
          /\ Invalidated
       \/ /\ e.final >= LastU(book) /\ Bridged(e)
          /\ ApplyLiveDepth([book EXCEPT !.awaitingBridge = FALSE], e, FALSE)

ChainDepth(e) ==
    /\ ~book.buffering /\ book.sync.state = "Live" /\ ~book.awaitingBridge
    /\ ApplyLiveDepth(book, e, TRUE)

(* Text frames.  Those of the other channels leave the books alone. *)
ReadFrame == ~draining /\ connected /\ ~reconnect /\ Handle

OtherFrame ==
    /\ ReadFrame
    /\ UNCHANGED <<feedVars, linkVars, pendingHttp, book, live, drainVars, laneVars>>

OnDepthUpdate(e) ==
    /\ ReadFrame
    /\ BufferDepth(e) \/ BridgeDepth(e) \/ ChainDepth(e)
    /\ UNCHANGED <<feedVars, connected, oiTimer, pendingHttp, live, drainVars>>

-----------------------------------------------------------------------------
(* apply_snapshot, for a snapshot the venue took after step n; rest are the *)
(* requests still pending.                                                  *)

Retained(n) == SelectSeq(book.buffer, LAMBDA e : e.final >= n)

TooOld(n)  == book.buffer # <<>> /\ n < Head(book.buffer).first
Bridges(n) == Retained(n) # <<>> => Head(Retained(n)).first <= n

SnapshotTooOld(n, rest) ==
    /\ TooOld(n)
    /\ HasRoom(rest)
    /\ pendingHttp' = Requested(rest, "DepthSnapshot")
    /\ book' = RequestedBook(book)
    /\ UNCHANGED <<reconnect, drainVars, laneVars>>

SnapshotUnbridged(n, rest) ==
    /\ ~TooOld(n) /\ ~Bridges(n)
    /\ pendingHttp' = rest
    /\ book' = [book EXCEPT !.sync = Invalidate(@), !.buffering = TRUE, !.buffer = <<>>]
    /\ Invalidated
    /\ UNCHANGED drainVars

SnapshotTaken(n, malformed, rest) ==
    LET s == RequestSnapshot(BeginResync(book.sync))
        r == ApplySnapshot(s.book, VenueSnapshot(n, malformed), n)
    IN  /\ ~TooOld(n) /\ Bridges(n)
        /\ pendingHttp' = rest
        /\ IF r.ok
           THEN /\ book' = [sync |-> [s EXCEPT !.state = "Live", !.expected = n, !.book = r.book],
                            buffering |-> FALSE, awaitingBridge |-> Retained(n) = <<>>,
                            buffer |-> <<>>]
                /\ draining' = TRUE /\ pending' = Retained(n) /\ first' = TRUE
                /\ EmitSnapshot(VenueSnapshot(n, malformed))
           ELSE /\ book' = [book EXCEPT !.sync = Invalidate(s), !.buffer = Retained(n)]
                /\ EmitInvalidated
                /\ UNCHANGED drainVars
        /\ UNCHANGED reconnect

OnSnapshot(n, malformed, rest) ==
    SnapshotTooOld(n, rest) \/ SnapshotUnbridged(n, rest) \/ SnapshotTaken(n, malformed, rest)

(* A text frame that decodes as a snapshot: applied whatever the book is    *)
(* doing; no pending request is answered by it.                             *)
SnapshotFrame(n, malformed) ==
    /\ ReadFrame
    /\ OnSnapshot(n, malformed, pendingHttp)
    /\ UNCHANGED <<feedVars, connected, oiTimer, live>>

EndDrain == draining' = FALSE /\ pending' = <<>> /\ first' = FALSE

DrainDepth ==
    /\ draining /\ pending # <<>>
    /\ ApplyLiveDepth(book, Head(pending), ~first)
    /\ IF book'.sync.state = "Live"
       THEN pending' = Tail(pending) /\ first' = FALSE /\ UNCHANGED draining
       ELSE EndDrain
    /\ UNCHANGED <<feedVars, connected, oiTimer, pendingHttp, live, turn>>

DrainDone ==
    /\ draining /\ pending = <<>>
    /\ EndDrain
    /\ live' = TRUE
    /\ UNCHANGED <<feedVars, linkVars, pendingHttp, book, turn, laneVars>>

-----------------------------------------------------------------------------
(* HttpResponse: the request leaves the table before its status is looked   *)
(* at.  Every pending snapshot request is honoured, not only the latest.    *)

ResponseFailed(id, badStatus) ==
    /\ pendingHttp' = Without(pendingHttp, id)
    /\ reconnect' = (reconnect \/ (badStatus /\ pendingHttp[id] = "DepthSnapshot"))
    /\ UNCHANGED <<book, drainVars, laneVars>>

ResponseSnapshot(id, n, malformed) ==
    /\ pendingHttp[id] = "DepthSnapshot"
    /\ OnSnapshot(n, malformed, Without(pendingHttp, id))

ResponseOpenInterest(id) ==
    /\ pendingHttp[id] = "OpenInterest"
    /\ pendingHttp' = Without(pendingHttp, id)
    /\ UNCHANGED <<reconnect, book, drainVars, laneVars>>

OnHttpResponse(id) ==
    /\ ~draining /\ connected
    /\ \/ \E badStatus \in BOOLEAN : ResponseFailed(id, badStatus)
       \/ ResponseOpenInterest(id)
       \/ \E n \in 0 .. head, malformed \in BOOLEAN : ResponseSnapshot(id, n, malformed)
    /\ UNCHANGED <<feedVars, connected, oiTimer, live, turn>>

-----------------------------------------------------------------------------

DepthFrame ==
    \E final \in 1 .. head : \E prev \in 0 .. final - 1 :
      \E from \in prev + 1 .. final, malformed \in Malformed :
        OnDepthUpdate([prev |-> prev, first |-> from, final |-> final, malformed |-> malformed])

AnySnapshotFrame == \E n \in 0 .. head, malformed \in BOOLEAN : SnapshotFrame(n, malformed)

Next ==
    \/ Publish \/ OnConnected \/ OnDisconnected \/ ControlResync \/ PollOpenInterest
    \/ IdleTick \/ Consume \/ OtherFrame
    \/ AnySnapshotFrame \/ DepthFrame \/ DrainDepth \/ DrainDone
    \/ \E id \in DOMAIN pendingHttp : OnHttpResponse(id)

Spec == Init /\ [][Next]_vars

(* As in BinanceSession. *)
Fairness ==
    /\ WF_vars(Publish) /\ SF_vars(DepthFrame)
    /\ WF_vars(DrainDepth) /\ WF_vars(DrainDone) /\ WF_vars(Consume)

FairSpec == Spec /\ Fairness

-----------------------------------------------------------------------------
(* Properties *)

(* Type invariant of the venue, the session and the lanes. *)
TypeOK ==
    /\ FeedTypeOK /\ LanesTypeOK
    /\ connected \in BOOLEAN /\ reconnect \in BOOLEAN /\ oiTimer \in BOOLEAN
    /\ live \in BOOLEAN /\ draining \in BOOLEAN /\ first \in BOOLEAN
    /\ DOMAIN pendingHttp \subseteq RequestId
    /\ \A id \in DOMAIN pendingHttp : pendingHttp[id] \in PendingHttp
    /\ book \in SymbolBook /\ pending \in Seq(DepthEvent)

(* A live book is the venue's after the last update id it applied: the      *)
(* bridge and the pu chain together leave nothing out, also when a second   *)
(* pending snapshot is applied over a live book.                            *)
LiveIsExact ==
    book.sync.state = "Live" =>
        /\ book.sync.book.validity = "Valid"
        /\ book.sync.book.sequence \in 0 .. head
        /\ book.sync.expected = book.sync.book.sequence
        /\ Faithful(book.sync.book.levels, book.sync.book.sequence)

(* Once the events of a live book are forwarded, the view plane shows the   *)
(* same levels or no book at all, also after a snapshot that replaced a     *)
(* live book.                                                               *)
ViewNeverDiffers ==
    book.sync.state = "Live" /\ ~Queued /\ view # NoView => view.levels = book.sync.book.levels

(* A live book goes back to an earlier update id only by a snapshot: the    *)
(* answer to a snapshot request still pending, which may be older than what *)
(* made the book live, or a snapshot frame.  No depth event takes it back,  *)
(* be it read live, drained or bridging.                                    *)
RegressesOnlyBySnapshot ==
    [][book.sync.state = "Live" /\ book'.sync.state = "Live"
         /\ book'.sync.book.sequence < book.sync.book.sequence
           => \/ AnySnapshotFrame
              \/ \E id \in DOMAIN pendingHttp :
                   pendingHttp[id] = "DepthSnapshot" /\ OnHttpResponse(id)]_vars

(* Unless it is told to resynchronize, or sent snapshots as frames, for     *)
(* ever, a connected session whose book is not live gets it live or asks    *)
(* for a reconnect.                                                         *)
NeverStuck ==
    <>[][~ControlResync /\ ~AnySnapshotFrame]_vars =>
        (connected /\ book.sync.state # "Live"
            ~> (book.sync.state = "Live" \/ reconnect \/ ~connected))
=============================================================================
