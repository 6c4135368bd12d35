----------------------------- MODULE VenueFeed -----------------------------
(***************************************************************************)
(* A venue as its adapters see it: a book that changes one numbered step   *)
(* at a time, of which a session gets snapshots and updates.  External:    *)
(* what is assumed of the venue is exactly what the adapters rely on, that *)
(* an update numbered a to b carries, for every price whose quantity       *)
(* changed over those steps, the quantity after step b.                    *)
(***************************************************************************)
EXTENDS BookSynchronizer

CONSTANTS
    MaxSeq,       \* bound: steps the venue takes
    VenuePatch    \* by step: the changes it may make

ASSUME FeedAssumption == MaxSeq \in Nat /\ VenuePatch \in [1 .. MaxSeq -> SUBSET Patch]

VARIABLES
    head,         \* steps taken
    truth         \* the book after each step

feedVars == <<head, truth>>

FeedInit == head = 0 /\ truth = [n \in 0 .. MaxSeq |-> NoLevels]

VenueStep ==
    /\ head < MaxSeq
    /\ head' = head + 1
    /\ \E patch \in VenuePatch[head + 1] :
         truth' = [truth EXCEPT ![head + 1] = Overlay(truth[head], patch)]

FeedTypeOK == head \in 0 .. MaxSeq /\ truth \in [0 .. MaxSeq -> Levels]

(* The update that covers steps a to b. *)
RangePatch(a, b) == [s \in Side |-> [p \in Price |->
    IF \E k \in (a - 1) .. b : truth[k][s][p] # truth[b][s][p]
    THEN truth[b][s][p] ELSE Untouched]]

VenueSnapshot(n, malformed) == [levels |-> truth[n], malformed |-> malformed]

(* Every level of a book is the venue's after step n; an unbounded book has *)
(* all of them.  Of a depth-limited book this bounds what is shown: it may  *)
(* hold fewer levels than its depth, since trimmed ones do not come back.   *)
Faithful(levels, n) ==
    /\ \A s \in Side, p \in Price : levels[s][p] \in {Absent, truth[n][s][p]}
    /\ Depth = None => levels = truth[n]
=============================================================================
