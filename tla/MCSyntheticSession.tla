------------------------ MODULE MCSyntheticSession ------------------------
(* Bounded instances of SyntheticSession. *)
EXTENDS SyntheticSession

Upsert(s, p, q) == [side |-> s, operation |-> "Upsert", price |-> p, quantity |-> q]
Delete(s, p)    == [side |-> s, operation |-> "Delete", price |-> p, quantity |-> None]

(* A bid and an ask that lock each other, both forms of delete, and a       *)
(* delete at a price the book cannot represent.                             *)
LockingChanges ==
    {Upsert("Bid", 2, 1), Upsert("Ask", 2, 1),
     Delete("Bid", 2), Upsert("Ask", 2, 0), Delete("Ask", BadPrice)}

(* The two that lock. *)
FewChanges == {Upsert("Bid", 2, 1), Upsert("Ask", 2, 1)}

MCNone == None
=============================================================================
