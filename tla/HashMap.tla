------------------------------ MODULE HashMap ------------------------------
(***************************************************************************)
(* What a khash map promises: a function from keys to values, which an     *)
(* insertion extends and a deletion restricts.                             *)
(***************************************************************************)
EXTENDS Functions

CONSTANTS Key, Value

VARIABLE map

Insert(key, value) ==
  /\ key \notin DOMAIN map
  /\ map' = [k \in DOMAIN map \cup {key} |-> IF k = key THEN value ELSE map[k]]

(* Some of the keys, as a loop over the buckets finds and deletes them. *)
Delete(keys) == map' = Restrict(map, DOMAIN map \ keys)

Init == map = <<>>

Next ==
  \/ \E key \in Key, value \in Value : Insert(key, value)
  \/ \E keys \in SUBSET DOMAIN map : Delete(keys)

Spec == Init /\ [][Next]_map
============================================================================
