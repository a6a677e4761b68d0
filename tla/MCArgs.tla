------------------------------- MODULE MCArgs ------------------------------
(* Values of INFO for TLC. *)
EXTENDS Args

Number(n) == [leads |-> n, whole |-> TRUE]
Begins(n) == [leads |-> n, whole |-> FALSE]

(* Zero and less than zero, both limits and what is beyond them, a text,   *)
(* and a text behind a number.                                             *)
InfoValues ==
  {Number(n) : n \in {LongMin - 1, LongMin, -1, 0, 1, LongMax, LongMax + 1}}
    \cup {Begins(0), Begins(1)}
============================================================================
