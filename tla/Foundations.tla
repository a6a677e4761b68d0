---------------------------- MODULE Foundations ----------------------------
(***************************************************************************)
(* The code below the commands.  What Dehydrator takes for granted: lists  *)
(* that are sequences, tables that are functions, ids that are free; and   *)
(* the utilities of src/rmutil.  They are called one at a time and share   *)
(* no state, so a behaviour exercises one of them, chosen at the start.    *)
(***************************************************************************)
EXTENDS ElementList, KHash, GidPush, Sds, SdsText, Containers, Args

VARIABLE part

foundations == <<listvars, h, ids, sds, txt, con, arg, part>>

FoundationsInit ==
  /\ ListInit /\ MapInit /\ IdInit
  /\ SdsInit /\ TxtInit /\ ConInit /\ ArgInit
  /\ part \in {"lists", "map", "ids", "sds", "text", "containers", "arguments"}
  /\ part # "containers" => v.cap = 0 /\ ~queue

FoundationsNext ==
  /\ \/ part = "lists" /\ ListNext /\ UNCHANGED <<h, ids, sds, txt, con, arg>>
     \/ part = "map" /\ MapNext /\ UNCHANGED <<listvars, ids, sds, txt, con, arg>>
     \/ part = "ids" /\ IdNext /\ UNCHANGED <<listvars, h, sds, txt, con, arg>>
     \/ part = "sds" /\ SdsNext /\ UNCHANGED <<listvars, h, ids, txt, con, arg>>
     \/ part = "text" /\ TxtNext /\ UNCHANGED <<listvars, h, ids, sds, con, arg>>
     \/ part = "containers" /\ ConNext /\ UNCHANGED <<listvars, h, ids, sds, txt, arg>>
     \/ part = "arguments" /\ ArgNext /\ UNCHANGED <<listvars, h, ids, sds, txt, con>>
  /\ UNCHANGED part

FoundationsSpec ==
  FoundationsInit /\ [][FoundationsNext]_foundations /\ (part = "ids" => IdFairness)
============================================================================
