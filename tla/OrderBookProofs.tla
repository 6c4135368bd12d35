-------------------------- MODULE OrderBookProofs --------------------------
(* Facts about the operators of OrderBook, cited by the session proofs. *)
EXTENDS OrderBook, TLAPS

(* Setting a level to a quantity, or removing it, keeps the levels well typed. *)
LEMMA SetLevelType ==
    ASSUME NEW levels \in Levels, NEW s \in Side, NEW p \in Price, NEW q \in Level
    PROVE  SetLevel(levels, s, p, q) \in Levels
  BY DEF SetLevel, Levels

(* Only the level named is touched by SetLevel. *)
LEMMA SetLevelElsewhere ==
    ASSUME NEW levels \in Levels, NEW s \in Side, NEW p \in Price, NEW q \in Level,
           NEW t \in Side, NEW r \in Price
    PROVE  SetLevel(levels, s, p, q)[t][r] = IF t = s /\ r = p THEN q ELSE levels[t][r]
  BY DEF SetLevel, Levels

(* An accepted change (upsert or delete) maps well-typed levels to well-typed levels. *)
LEMMA TouchType ==
    ASSUME NEW levels \in Levels, NEW c \in Change, ~Rejected(c)
    PROVE  Touch(levels, c) \in Levels
  <1>1. CASE IsDelete(c)
    <2>1. CASE c.price = BadPrice
      BY <1>1, <2>1 DEF Touch, DeleteLevel
    <2>2. CASE c.price # BadPrice
      <3>1. c.side \in Side /\ c.price \in Price
        BY <2>2 DEF Change
      <3>2. SetLevel(levels, c.side, c.price, Absent) \in Levels
        BY <3>1, SetLevelType DEF Level
      <3>. QED  BY <1>1, <2>2, <3>2 DEF Touch, DeleteLevel
    <2>. QED  BY <2>1, <2>2
  <1>2. CASE ~IsDelete(c)
    <2>1. c.side \in Side /\ c.price \in Price /\ c.quantity \in Level
      BY <1>2 DEF Change, Rejected, IsDelete, Level
    <2>2. SetLevel(levels, c.side, c.price, c.quantity) \in Levels
      BY <2>1, SetLevelType
    <2>. QED  BY <1>2, <2>2 DEF Touch
  <1>. QED  BY <1>1, <1>2

(* trim_depth only removes levels, and removes none from an unbounded book. *)
LEMMA TrimDepthRemoves ==
    ASSUME NEW levels \in Levels
    PROVE  /\ TrimDepth(levels) \in Levels
           /\ \A s \in Side, p \in Price : TrimDepth(levels)[s][p] \in {Absent, levels[s][p]}
           /\ Depth = None => TrimDepth(levels) = levels
  <1>1. CASE Depth = None
    BY <1>1 DEF TrimDepth
  <1>2. CASE Depth # None
    <2>. DEFINE Keep(s, p) ==
           Cardinality({q \in Present(levels, s) : Better(s, q, p)}) < Depth
    <2>1. TrimDepth(levels) = [s \in Side |-> [p \in Price |->
                                 IF Keep(s, p) THEN levels[s][p] ELSE Absent]]
      BY <1>2 DEF TrimDepth
    <2>2. \A s \in Side, p \in Price : levels[s][p] \in Level
      BY DEF Levels
    <2>. HIDE DEF Keep
    <2>. QED  BY <1>2, <2>1, <2>2 DEF Levels, Level
  <1>. QED  BY <1>1, <1>2

(* Removing levels never makes an uncrossed book crossed. *)
LEMMA FewerLevelsUncrossed ==
    ASSUME NEW more \in Levels, NEW fewer \in Levels, ~Crossed(more),
           \A s \in Side, p \in Price : fewer[s][p] \in {Absent, more[s][p]}
    PROVE  ~Crossed(fewer)
  BY DEF Crossed, Present, Side

(* A delete removes at most one level. *)
LEMMA DeleteRemoves ==
    ASSUME NEW levels \in Levels, NEW c \in Change, IsDelete(c)
    PROVE  \A s \in Side, p \in Price : Touch(levels, c)[s][p] \in {Absent, levels[s][p]}
  <1>1. CASE c.price = BadPrice
    BY <1>1 DEF Touch, DeleteLevel
  <1>2. CASE c.price # BadPrice
    BY <1>2, SetLevelElsewhere DEF Touch, DeleteLevel, Change, Level
  <1>. QED  BY <1>1, <1>2

(* apply_change: an accepted change leaves a Valid book whose levels are the *)
(* touched ones, perhaps trimmed; a refused one either leaves the book as it *)
(* was or invalidates it.                                                    *)
LEMMA ApplyChangeResult ==
    ASSUME NEW b \in Book, NEW c \in Change
    PROVE  LET r == ApplyChange(b, c) IN
           /\ r.ok \in BOOLEAN /\ r.book \in Book /\ r.book.sequence = b.sequence
           /\ r.ok => /\ b.validity = "Valid" /\ r.book.validity = "Valid" /\ ~Rejected(c)
                      /\ r.book.levels \in {Touch(b.levels, c), TrimDepth(Touch(b.levels, c))}
                      /\ ~Crossed(b.levels) => ~Crossed(r.book.levels)
           /\ ~r.ok => r.book = b \/ r.book.validity = "Invalid"
  <1>. DEFINE r == ApplyChange(b, c)
  <1>0. b.levels \in Levels
    BY DEF Book
  <1>1. CASE b.validity # "Valid" \/ Rejected(c)
    <2>1. r = [ok |-> FALSE, book |-> b]
      BY <1>1 DEF ApplyChange, IsUpsert, Rejected
    <2>. QED  BY <2>1
  <1>2. CASE b.validity = "Valid" /\ ~Rejected(c) /\ IsDelete(c)
    <2>1. r = [ok |-> TRUE, book |-> [b EXCEPT !.levels = Touch(b.levels, c)]]
      BY <1>2 DEF ApplyChange, IsUpsert
    <2>2. Touch(b.levels, c) \in Levels
      BY <1>0, <1>2, TouchType
    <2>3. ~Crossed(b.levels) => ~Crossed(Touch(b.levels, c))
      BY <1>0, <1>2, <2>2, DeleteRemoves, FewerLevelsUncrossed
    <2>. QED  BY <1>2, <2>1, <2>2, <2>3 DEF Book
  <1>3. CASE b.validity = "Valid" /\ ~Rejected(c) /\ ~IsDelete(c)
    <2>. DEFINE next == TrimDepth(Touch(b.levels, c))
    <2>1. r = [ok   |-> ~Crossed(next),
               book |-> [b EXCEPT !.levels = next,
                                  !.validity = IF Crossed(next) THEN "Invalid" ELSE "Valid"]]
      BY <1>3 DEF ApplyChange, IsUpsert
    <2>2. next \in Levels
      BY <1>0, <1>3, TouchType, TrimDepthRemoves
    <2>3. Crossed(next) \in BOOLEAN
      BY DEF Crossed
    <2>. HIDE DEF next, r
    <2>4. r.book \in Book /\ r.book.sequence = b.sequence
      BY <1>3, <2>1, <2>2 DEF Book, Validity
    <2>5. r.book.levels = next
      BY <2>1 DEF Book
    <2>6. r.ok = ~Crossed(next)
      BY <2>1
    <2>7. CASE Crossed(next)
      <3>1. r.book.validity = "Invalid"
        BY <2>1, <2>7 DEF Book
      <3>. QED  BY <2>3, <2>4, <2>6, <2>7, <3>1 DEF r
    <2>8. CASE ~Crossed(next)
      <3>1. r.book.validity = "Valid"
        BY <1>3, <2>1, <2>8 DEF Book
      <3>. QED  BY <1>3, <2>3, <2>4, <2>5, <2>6, <2>8, <3>1 DEF next, r
    <2>. QED  BY <2>7, <2>8
  <1>. QED  BY <1>1, <1>2, <1>3

(* apply_snapshot: the book is replaced by an uncrossed Valid one that shows *)
(* only levels of the snapshot, or it is left as it was.                     *)
LEMMA ApplySnapshotResult ==
    ASSUME NEW b \in Book, NEW snap \in Snapshot, NEW seq \in Nat
    PROVE  LET r == ApplySnapshot(b, snap, seq) IN
           /\ r.ok \in BOOLEAN /\ r.book \in Book
           /\ r.ok => /\ r.book.validity = "Valid" /\ r.book.sequence = seq
                      /\ r.book.levels = TrimDepth(snap.levels)
                      /\ ~Crossed(r.book.levels)
           /\ ~r.ok => r.book = b
  <1>. DEFINE r == ApplySnapshot(b, snap, seq)
              next == TrimDepth(snap.levels)
  <1>1. next \in Levels
    BY TrimDepthRemoves DEF Snapshot
  <1>. HIDE DEF next
  <1>2. CASE snap.malformed \/ Crossed(next)
    BY <1>2 DEF ApplySnapshot, next
  <1>3. CASE ~(snap.malformed \/ Crossed(next))
    <2>1. r = [ok |-> TRUE, book |-> [levels |-> next, validity |-> "Valid", sequence |-> seq]]
      BY <1>3 DEF ApplySnapshot, next
    <2>. QED  BY <1>1, <1>3, <2>1 DEF Book, Validity, next
  <1>. QED  BY <1>2, <1>3
=============================================================================
