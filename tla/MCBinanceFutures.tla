------------------------- MODULE MCBinanceFutures -------------------------
(* Bounded instances of BinanceFutures. *)
EXTENDS BinanceFutures

NoPatch == [s \in Side |-> [p \in Price |-> Untouched]]
Set(s, p, q) == [NoPatch EXCEPT ![s] = [@ EXCEPT ![p] = q]]

Bid   == Set("Bid", 1, 1)
NoBid == Set("Bid", 1, Absent)
Ask   == Set("Ask", 1, 1)

(* A bid comes, an ask locks it (the venue's snapshot is then refused), and *)
(* the bid goes.                                                            *)
MCPatch == [n \in 1 .. MaxSeq |-> CASE n = 1 -> {Bid} [] n = 2 -> {Ask} [] OTHER -> {NoBid}]

MCNone == None
=============================================================================
