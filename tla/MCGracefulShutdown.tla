------------------------- MODULE MCGracefulShutdown -------------------------
(* Small instances of GracefulShutdown. *)
EXTENDS GracefulShutdown

CONSTANTS r1, r2

TwoRequests == {r1, r2}

OwnIds == [r \in Entries |-> r]
OneId == [r \in Entries |-> r1]

OneFails == {r1}

OneProbe == {r2}
NoProbes == {}
=============================================================================
