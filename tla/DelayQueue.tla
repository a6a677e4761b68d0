----------------------------- MODULE DelayQueue ----------------------------
(***************************************************************************)
(* A dehydrator as its clients see it: a set of elements, each known by    *)
(* its id and due at a deadline of its own.  Nothing is said of queues,    *)
(* maps, nodes or integer widths.  Each command does what README.md:78-86  *)
(* says and answers what its handler in module.c answers.  Where           *)
(* docs/Commands.md says otherwise, of two commands, this module follows   *)
(* the code:                                                               *)
(*   XACK    answers a Null for every id it does not release, as           *)
(*           module.c:1053 says; Commands.md:193 has an empty list when no *)
(*           element is expired, which the code answers only for a key     *)
(*           without a dehydrator (refuted as XAckOfNoneExpiredIsEmpty);   *)
(*   UPDATE  leaves the deadline alone, as README.md:86 says ("will        *)
(*           inherit the current expiration"); Commands.md:296 says that   *)
(*           it will not be the same.                                      *)
(* Dehydrator implements it where the constants rule out misuse: ttls that *)
(* alias or do not parse, other types on the key, a clock that is set back.*)
(***************************************************************************)
EXTENDS Integers, FiniteSets, SequencesExt, Replies

CONSTANTS Id, Gid, Element, Ttl, MaxClock, MaxAcks

VARIABLES
  open,      \* the key holds a dehydrator
  pending,   \* the elements it holds, by id
  clock,
  replies

vars == <<open, pending, clock, replies>>

Due == {id \in DOMAIN pending : pending[id].expiration <= clock}

Answer(reply) == replies' = <<reply>>

Keep == UNCHANGED <<open, pending, clock>>

(* Forget the elements with these ids. *)
Release(ids) ==
  /\ pending' = Restrict(pending, DOMAIN pending \ ids)
  /\ UNCHANGED <<open, clock>>

(* Hold an element for ttl milliseconds. *)
Hold(ttl, element, id) ==
  /\ open' = TRUE
  /\ id \notin DOMAIN pending
  /\ pending' = [i \in DOMAIN pending \cup {id} |->
                   IF i = id THEN [element |-> element, expiration |-> clock + ttl]
                   ELSE pending[i]]
  /\ UNCHANGED clock

Push(ttl, element, id) ==
  \/ Hold(ttl, element, id) /\ Answer(StatusReply("OK"))
  \/ id \in DOMAIN pending /\ Answer(Duplicate) /\ Keep

GidPush(ttl, element) ==
  \E id \in Gid : Hold(ttl, element, id) /\ Answer(BulkReply(id))

Pull(id) ==
  \/ id \in DOMAIN pending /\ Release({id}) /\ Answer(BulkReply(pending[id].element))
  \/ id \notin DOMAIN pending /\ Keep /\ Answer(NullReply)

(* All the elements that are due, once each, and no other. *)
Poll ==
  \E order \in SetToSeqs(Due) :
    /\ Release(Due)
    /\ Answer(ArrayReply([i \in DOMAIN order |-> BulkReply(pending[order[i]].element)]))

XPoll ==
  \E order \in SetToSeqs(Due) :
    /\ Keep
    /\ Answer(ArrayReply([i \in DOMAIN order |-> BulkReply(order[i])]))

(* The due elements among the given ids, a Null for every other id       *)
(* (module.c:1053, not Commands.md:193); a repeated id counts once.      *)
XAck(ids) ==
  LET first == {i \in DOMAIN ids : /\ ids[i] \in Due
                                   /\ \A j \in 1 .. i - 1 : ids[j] # ids[i]}
  IN  \/ /\ Release({ids[i] : i \in first})
         /\ Answer(ArrayReply([i \in DOMAIN ids |->
                     IF i \in first THEN BulkReply(pending[ids[i]].element)
                     ELSE NullReply]))
      \/ ~ open /\ Keep /\ Answer(ArrayReply(<<>>))

Look(id) ==
  /\ Keep
  /\ Answer(IF id \in DOMAIN pending THEN BulkReply(pending[id].element) ELSE NullReply)

(* A new payload under the old deadline (README.md:86, not Commands.md:296). *)
Update(id, element) ==
  \/ /\ id \in DOMAIN pending
     /\ pending' = [pending EXCEPT ![id].element = element]
     /\ Answer(BulkReply(pending[id].element))
     /\ UNCHANGED <<open, clock>>
  \/ id \notin DOMAIN pending /\ Keep /\ Answer(IF open THEN NoElement ELSE NoDehydrator)

Ttn ==
  LET left == {pending[id].expiration - clock : id \in DOMAIN pending}
  IN  /\ Keep
      /\ Answer(IF ~ open THEN NullReply
                ELSE IF left = {} THEN IntegerReply(-1)
                ELSE IntegerReply(Max({0, Min(left)})))

Dump == Keep /\ Answer(IF open THEN StatusReply("dump") ELSE NullReply)

Refuse == Keep /\ Answer(WrongArity)

Drop == open' = FALSE /\ pending' = <<>> /\ UNCHANGED <<clock, replies>>

Tick == clock < MaxClock /\ clock' = clock + 1 /\ UNCHANGED <<open, pending, replies>>

Init == open = FALSE /\ pending = <<>> /\ clock = 0 /\ replies = <<>>

Next ==
  \/ \E ttl \in Ttl, e \in Element : GidPush(ttl, e) \/ \E id \in Id : Push(ttl, e, id)
  \/ \E id \in Id : Pull(id) \/ Look(id) \/ \E e \in Element : Update(id, e)
  \/ \E n \in 1 .. MaxAcks : \E ids \in [1 .. n -> Id] : XAck(ids)
  \/ Poll \/ XPoll \/ Ttn \/ Dump \/ Refuse \/ Drop \/ Tick

Spec == Init /\ [][Next]_vars
============================================================================
