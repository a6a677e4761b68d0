--------------------------- MODULE MCPersistence ---------------------------
(* A small instance of Persistence for TLC. *)
EXTENDS Persistence

CONSTANTS i1, i2

PlainIds == [id \in Id |-> id]

(* -1 is in a queue whose key does not fit a signed int, and has expired   *)
(* when it is pushed.                                                      *)
TwoTtls == {-1, 1}

Interchangeable == Permutations(Addr) \cup Permutations(Element)
============================================================================
