--------------------------- MODULE MCSinkWorkers ---------------------------
(* A required sink that fails the engine when it is full, and an optional one *)
(* that drops its oldest or its newest event.                                 *)
EXTENDS SinkWorkers

TwoSinks    == <<"file", "udp">>
OneRequired == {"file"}
TwoPolicies == {[s \in Sink |-> IF s = "file" THEN "FailEngine" ELSE drop]
                  : drop \in {"DropOldest", "DropNewest"}}
=============================================================================
