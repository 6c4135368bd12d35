----------------------------- MODULE EventLanes -----------------------------
(***************************************************************************)
(* The way of a session's book events to the view plane: the dispatcher's  *)
(* two lanes, batches (BookSnapshot, BookDelta) and system events          *)
(* (BookInvalidated), and forward_dispatcher (crates/sinks/src/sink.rs),   *)
(* which empties the first before the second.  The live loop               *)
(* (crates/engine/src/live.rs) calls it after a frame and after an idle    *)
(* tick, and nowhere else while a session runs: what a connection queued   *)
(* after its last frame waits for a frame of the next one.                 *)
(*                                                                         *)
(* A lane is kept as what it will do to the view plane's book.             *)
(***************************************************************************)
EXTENDS BookSynchronizer

VARIABLES
    turn,         \* the live loop is before a read, or handles a frame or an idle tick
    view,         \* the view plane's LiveBook; NoView when it has none
    ahead,        \* the same once the queued batches are delivered
    invalidated   \* a BookInvalidated is queued

laneVars == <<view, ahead, invalidated>>

NoView == NewBook

LanesInit == turn = "Read" /\ view = NoView /\ ahead = NoView /\ invalidated = FALSE

LanesTypeOK ==
    turn \in {"Read", "Handle"} /\ {view, ahead} \subseteq Book /\ invalidated \in BOOLEAN

Queued == invalidated \/ ahead # view

EmitSnapshot(snap) ==
    LET r == ApplySnapshot(NewBook, snap, None)
    IN  /\ ahead' = IF r.ok THEN r.book ELSE ahead
        /\ UNCHANGED <<view, invalidated>>

(* A delta for a book the view plane does not have is ignored: NoView is    *)
(* not Valid.                                                               *)
EmitDelta(patch) ==
    /\ ahead' = ApplyPatchAtomic(ahead, patch, FALSE).book
    /\ UNCHANGED <<view, invalidated>>

EmitInvalidated == invalidated' = TRUE /\ UNCHANGED <<view, ahead>>

(* consume: every batch, then every system event. *)
Forward ==
    /\ turn = "Handle" /\ turn' = "Read"
    /\ view' = IF invalidated THEN NoView ELSE ahead
    /\ ahead' = view' /\ invalidated' = FALSE

(* A frame was read, or the read timed out: responses are handled, then     *)
(* comes the consume.                                                       *)
Handle == turn = "Read" /\ turn' = "Handle"

(* Timers are polled before a read and first thing in an idle tick. *)
PollTimers == turn = "Read" /\ turn' \in {"Read", "Handle"} /\ UNCHANGED laneVars
=============================================================================
