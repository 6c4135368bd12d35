----------------------------- MODULE OrderBook -----------------------------
(***************************************************************************)
(* The L2 book of crates/book/src/l2.rs as operators on a book record.     *)
(*                                                                         *)
(* A side of the book is a function from every price to the resting        *)
(* quantity, Absent where the BTreeMap has no entry.  Decimal rescaling is *)
(* abstracted to its outcome: a price the catalog scale cannot represent   *)
(* exactly is BadPrice, a quantity that is negative or cannot be rescaled  *)
(* is BadQuantity, and a missing Option is None.                           *)
(***************************************************************************)
EXTENDS Integers, FiniteSets, SequencesExt

CONSTANTS
    Price,      \* price coefficients at the catalog scale
    Quantity,   \* positive quantity coefficients
    Depth       \* maintained levels per side, or None for an unbounded book

None        == -1
Absent      == 0
BadPrice    == -2
BadQuantity == -2

ASSUME PriceAssumption    == Price \subseteq Nat \ {0}
ASSUME QuantityAssumption == Quantity \subseteq Nat \ {0}
ASSUME DepthAssumption    == Depth \in Nat \cup {None}

Side     == {"Bid", "Ask"}
Validity == {"Valid", "Synchronizing", "Invalid"}

Level  == Quantity \cup {Absent}
Levels == [Side -> [Price -> Level]]
Book   == [levels: Levels, validity: Validity, sequence: Nat \cup {None}]

Change == [side: Side, operation: {"Upsert", "Delete"},
           price: Price \cup {BadPrice},
           quantity: Quantity \cup {0, None, BadQuantity}]

(* A decoded snapshot frame.  malformed: some level was rejected by upsert  *)
(* (non-positive quantity or inexact scale).                                *)
Snapshot == [levels: Levels, malformed: BOOLEAN]

NoLevels == [s \in Side |-> [p \in Price |-> Absent]]

Present(levels, s) == {p \in Price : levels[s][p] # Absent}

-----------------------------------------------------------------------------

NewBook == [levels |-> NoLevels, validity |-> "Synchronizing", sequence |-> None]

SetValidity(b, v)   == [b EXCEPT !.validity = v]
SetSequence(b, seq) == [b EXCEPT !.sequence = seq]
ClearBook(b)        == [b EXCEPT !.levels = NoLevels, !.sequence = None]

(* Best bid >= best ask, when both sides have a level. *)
Crossed(levels) ==
    \E b \in Present(levels, "Bid"), a \in Present(levels, "Ask") : b >= a

(* A level survives trimming when fewer than Depth levels are better. *)
Better(s, p, q) == IF s = "Bid" THEN p > q ELSE p < q

TrimDepth(levels) ==
    IF Depth = None THEN levels
    ELSE [s \in Side |-> [p \in Price |->
            IF Cardinality({q \in Present(levels, s) : Better(s, q, p)}) < Depth
            THEN levels[s][p] ELSE Absent]]

SetLevel(levels, s, p, qty) == [levels EXCEPT ![s] = [@ EXCEPT ![p] = qty]]

(* delete: a price that cannot be rescaled is a miss, never an error. *)
DeleteLevel(levels, s, p) ==
    IF p = BadPrice THEN levels ELSE SetLevel(levels, s, p, Absent)

(* Mutant of Rejected: an upsert without a quantity is let through. *)
RejectedMissingQuantityAllowed(c) ==
    ~(c.operation = "Delete" \/ c.quantity = 0)
    /\ (c.quantity = BadQuantity \/ c.price = BadPrice)

IsDelete(c)  == c.operation = "Delete" \/ c.quantity = 0
Rejected(c)  == ~IsDelete(c) /\ (c.quantity \in {None, BadQuantity} \/ c.price = BadPrice)
IsUpsert(c)  == ~IsDelete(c) /\ ~Rejected(c)

(* What one accepted change does to the levels. *)
Touch(levels, c) ==
    IF IsDelete(c) THEN DeleteLevel(levels, c.side, c.price)
                   ELSE SetLevel(levels, c.side, c.price, c.quantity)

-----------------------------------------------------------------------------
(* The fallible operations return [ok, book]. *)

ApplySnapshot(b, snap, seq) ==
    LET next == TrimDepth(snap.levels)
    IN  IF snap.malformed \/ Crossed(next)
        THEN [ok |-> FALSE, book |-> b]
        ELSE [ok |-> TRUE,
              book |-> [levels |-> next, validity |-> "Valid", sequence |-> seq]]

(* Mutant of ApplyChange: a crossing upsert is reported but the book stays Valid. *)
ApplyChangeCrossedStaysValid(b, c) ==
    LET next == TrimDepth(Touch(b.levels, c))
    IN  IF b.validity # "Valid" \/ Rejected(c) THEN [ok |-> FALSE, book |-> b]
        ELSE [ok |-> IsDelete(c) \/ ~Crossed(next), book |-> [b EXCEPT !.levels = next]]

(* One change.  A crossing upsert stays in the book and invalidates it; a   *)
(* rejected change leaves the book as it was, still Valid.                  *)
ApplyChange(b, c) ==
    LET next == IF IsUpsert(c) THEN TrimDepth(Touch(b.levels, c)) ELSE Touch(b.levels, c)
    IN  CASE b.validity # "Valid" \/ Rejected(c) -> [ok |-> FALSE, book |-> b]
          [] b.validity = "Valid" /\ IsDelete(c) ->
                [ok |-> TRUE, book |-> [b EXCEPT !.levels = next]]
          [] b.validity = "Valid" /\ IsUpsert(c) ->
                [ok   |-> ~Crossed(next),
                 book |-> [b EXCEPT !.levels = next,
                                    !.validity = IF Crossed(next) THEN "Invalid" ELSE "Valid"]]

(* One wire message.  Every change is validated first; the mutations are    *)
(* then applied in order with an undo log that keeps, for each touched      *)
(* level, the quantity it had before the message.                           *)
ApplyChangesAtomic(b, changes) ==
    LET prepared == SelectSeq(changes, LAMBDA c : ~(IsDelete(c) /\ c.price = BadPrice))
        Mutate(acc, c) ==
            [levels |-> Touch(acc.levels, c),
             undo   |-> acc.undo @@ (<<c.side, c.price>> :> acc.levels[c.side][c.price])]
        applied == FoldLeft(Mutate, [levels |-> b.levels, undo |-> <<>>], prepared)
        undone  == [s \in Side |-> [p \in Price |->
                      IF <<s, p>> \in DOMAIN applied.undo
                      THEN applied.undo[<<s, p>>] ELSE applied.levels[s][p]]]
        refused == b.validity # "Valid" \/ \E i \in DOMAIN changes : Rejected(changes[i])
    IN  CASE refused -> [ok |-> FALSE, book |-> b]
          [] ~refused /\ Crossed(applied.levels) ->
                [ok |-> FALSE, book |-> [b EXCEPT !.levels = undone]]
          [] ~refused /\ ~Crossed(applied.levels) ->
                [ok |-> TRUE, book |-> [b EXCEPT !.levels = TrimDepth(applied.levels)]]

(* The net effect of a wire message: the quantity it leaves at each price   *)
(* it touches.  malformed: some change of it is Rejected.                   *)
Untouched == None
Patch     == [Side -> [Price -> Level \cup {Untouched}]]

Overlay(levels, patch) == [s \in Side |-> [p \in Price |->
    IF patch[s][p] = Untouched THEN levels[s][p] ELSE patch[s][p]]]

(* ApplyChangesAtomic as a function of that net effect. *)
ApplyPatchAtomic(b, patch, malformed) ==
    LET next == Overlay(b.levels, patch)
    IN  IF b.validity # "Valid" \/ malformed \/ Crossed(next)
        THEN [ok |-> FALSE, book |-> b]
        ELSE [ok |-> TRUE, book |-> [b EXCEPT !.levels = TrimDepth(next)]]

(* What book_snapshot serves: the levels, only of a Valid book. *)
SnapshotLevels(b) == IF b.validity = "Valid" THEN b.levels ELSE NoLevels
=============================================================================
