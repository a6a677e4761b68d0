----------------------------- MODULE MCGidPush -----------------------------
(* A small generator for TLC. *)
EXTENDS GidPush

(* With 11 values and 3 characters, 9 and 10 are drawn again.  The two     *)
(* seconds begin with different ids and meet later.                        *)
TwoSeconds ==
  [t \in 0 .. 1 |-> IF t = 0 THEN <<0, 4, 10, 8, 3, 9, 1, 1, 6>>
                    ELSE <<9, 8, 2, 5, 10, 10, 0, 4, 7, 7>>]
============================================================================
