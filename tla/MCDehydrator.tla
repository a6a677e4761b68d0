---------------------------- MODULE MCDehydrator ---------------------------
(***************************************************************************)
(* Small instances of Dehydrator for TLC.  The cfg files choose among the  *)
(* definitions below.                                                      *)
(***************************************************************************)
EXTENDS Dehydrator

CONSTANTS i1, i2, i3, i1_nul

(* i1_nul is i1 followed by a NUL byte and more: strcmp takes it for i1. *)
CutAtNul == [id \in Id |-> IF id = i1_nul THEN i1 ELSE id]

(* Ids without NUL bytes. *)
PlainIds == [id \in Id |-> id]

(* With IntMod = 8: -1 has expired when it is pushed, 1 and 9 share a queue. *)
AliasingTtls == {-1, 1, 9}

(* Below IntMod / 2, so that TTN can represent them. *)
NarrowTtls == {1, 3}

(* 5 does not fit a signed int when IntMod = 8. *)
WideTtl == {5}

OneStepBack == {2}

NoStepBack == {}

Interchangeable == Permutations(Addr) \cup Permutations(Element)

(* The same, where the generator may draw i2 as well as i3. *)
InterchangeableIds == Interchangeable \cup Permutations({i2, i3})
============================================================================
