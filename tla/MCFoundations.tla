---------------------------- MODULE MCFoundations --------------------------
(* Small lists, tables, generators, strings, vectors and commands for TLC. *)
EXTENDS Foundations, MCGidPush, MCArgs

(* Timeouts hash to themselves. *)
IdentityHash == [key \in Key |-> key]

(* Elements that compare equal in pairs. *)
HalfOf(e) == e \div 2
============================================================================
