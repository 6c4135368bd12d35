------------------------- MODULE MCBinanceSession -------------------------
(* Bounded instances of BinanceSession. *)
EXTENDS BinanceSession

NoPatch == [s \in Side |-> [p \in Price |-> Untouched]]
Set(s, p, q) == [NoPatch EXCEPT ![s] = [@ EXCEPT ![p] = q]]

Bid   == Set("Bid", 1, 1)
NoBid == Set("Bid", 1, Absent)
Ask   == Set("Ask", 1, 1)

(* A bid comes, an ask locks it (the venue's snapshot is then refused), and *)
(* the bid goes.                                                            *)
MCPatch == [n \in 1 .. MaxSeq |-> CASE n = 1 -> {Bid} [] n = 2 -> {Ask} [] OTHER -> {NoBid}]

(* The steps the live loop makes this session take: requests are answered   *)
(* before the next read, nobody asks for a resync, and the venue sends no   *)
(* snapshot as a frame.                                                     *)
LiveLoopStep ==
    /\ ~ControlResync /\ ~AnySnapshotFrame
    /\ turn = "Read" /\ turn' # "Read" => outstanding = {}

MCNone == None
=============================================================================
