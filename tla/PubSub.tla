------------------------------- MODULE PubSub ------------------------------
(***************************************************************************)
(* The poll-and-publish script (src/src/pubsub.py): consumers that POLL a  *)
(* dehydrator and PUBLISH what they get, one element after the other.  The *)
(* dehydrator is a DelayQueue, which Dehydrator implements.                *)
(*                                                                         *)
(* POLL takes the elements out of the dehydrator before anyone has         *)
(* published them, so what becomes of a batch when a call fails is what    *)
(* this module is about.  A world is the set of things that may go wrong   *)
(* in a behaviour:                                                         *)
(*   "refused"  a POLL that does not reach the server                      *)
(*   "lost"     a POLL that the server runs and whose answer is lost       *)
(*   "dies"     a PUBLISH that raises: nothing catches it                  *)
(*   "resent"   a PUBLISH sent twice by the client library                 *)
(*   "killed"   the process is stopped at any point                        *)
(***************************************************************************)
EXTENDS Integers, FiniteSets, SequencesExt

CONSTANTS
  Consumer,   \* processes running the script on the same dehydrator
  Message,    \* the elements, each pushed once, under an id of its own
  Ttl,
  Worlds,     \* the worlds considered
  MaxClock    \* bounds the clock

ASSUME WorldsAssumption ==
  \A world \in Worlds : world \subseteq {"refused", "lost", "dies", "resent", "killed"}

VARIABLES
  failures,                        \* the world of this behaviour
  open, pending, clock, replies,   \* the dehydrator
  pc,          \* a consumer is polling, publishing or dead
  batch,       \* the elements its `for` has still to publish
  pushed,      \* the messages pushed so far
  published    \* the messages on the channel, and who published them

dehydrator == <<open, pending, clock, replies>>
vars == <<failures, open, pending, clock, replies, pc, batch, pushed, published>>

D == INSTANCE DelayQueue WITH
       Id <- Message, Gid <- Message, Element <- Message, MaxAcks <- 1

----------------------------------------------------------------------------
(* The producers and the clock. *)

Produce(message, ttl) ==
  /\ message \notin pushed
  /\ clock + ttl <= MaxClock
  /\ D!Push(ttl, message, message)
  /\ pushed' = pushed \cup {message}
  /\ UNCHANGED <<failures, pc, batch, published>>

Tick == D!Tick /\ UNCHANGED <<failures, pc, batch, pushed, published>>

(* The consumers. *)

Become(c, state) == pc' = [pc EXCEPT ![c] = state]

Hold(c, elements) == batch' = [batch EXCEPT ![c] = elements]

(* Mutant: XPOLL, which leaves the elements where they are. *)
TakeDue_XPoll == D!XPoll

(* The command the loop runs, as the server executes it. *)
TakeDue == D!Poll

Polled(c) ==
  /\ pc[c] = "polling"
  /\ TakeDue
  /\ Become(c, "publishing")
  /\ Hold(c, [i \in DOMAIN replies'[1].array |-> replies'[1].array[i].bulk])
  /\ UNCHANGED <<failures, pushed, published>>

(* Mutant: no `try`, so a POLL that fails ends the process. *)
PollFailed_Uncaught(c) ==
  /\ pc[c] = "polling"
  /\ \/ "refused" \in failures /\ UNCHANGED dehydrator
     \/ "lost" \in failures /\ TakeDue
  /\ Become(c, "dead")
  /\ Hold(c, <<>>)
  /\ UNCHANGED <<failures, pushed, published>>

(* `except:` swallows every error and the loop sleeps. *)
PollFailed(c) ==
  /\ pc[c] = "polling"
  /\ \/ "refused" \in failures /\ UNCHANGED dehydrator
     \/ "lost" \in failures /\ TakeDue
  /\ Become(c, "publishing")
  /\ Hold(c, <<>>)
  /\ UNCHANGED <<failures, pushed, published>>

(* Mutant: the `for` runs over the variable that PUBLISH's answer is       *)
(* assigned to.                                                            *)
Rest_Rebound(elements) == <<>>

(* What is left of the batch: `poll_result` is assigned to in the loop,    *)
(* but the iterator keeps the list it was made from.                       *)
Rest(elements) == Tail(elements)

Publish(c) ==
  /\ pc[c] = "publishing" /\ batch[c] # <<>>
  /\ \E copies \in {1} \cup IF "resent" \in failures THEN {2} ELSE {} :
       published' = published \o
         [i \in 1 .. copies |-> [by |-> c, message |-> Head(batch[c])]]
  /\ Hold(c, Rest(batch[c]))
  /\ UNCHANGED <<failures, dehydrator, pc, pushed>>

(* The error ends the process; the message may have been published. *)
PublishFailed(c) ==
  /\ "dies" \in failures
  /\ pc[c] = "publishing" /\ batch[c] # <<>>
  /\ published' \in
       {published, Append(published, [by |-> c, message |-> Head(batch[c])])}
  /\ Become(c, "dead")
  /\ Hold(c, <<>>)
  /\ UNCHANGED <<failures, dehydrator, pushed>>

(* time.sleep, whether there was something to publish or not. *)
Sleep(c) ==
  /\ pc[c] = "publishing" /\ batch[c] = <<>>
  /\ Become(c, "polling")
  /\ UNCHANGED <<failures, dehydrator, batch, pushed, published>>

Killed(c) ==
  /\ "killed" \in failures
  /\ pc[c] # "dead"
  /\ Become(c, "dead")
  /\ Hold(c, <<>>)
  /\ UNCHANGED <<failures, dehydrator, pushed, published>>

Restart(c) ==
  /\ pc[c] = "dead"
  /\ Become(c, "polling")
  /\ UNCHANGED <<failures, dehydrator, batch, pushed, published>>

Init ==
  /\ failures \in Worlds
  /\ D!Init
  /\ pc = [c \in Consumer |-> "polling"]
  /\ batch = [c \in Consumer |-> <<>>]
  /\ pushed = {}
  /\ published = <<>>

Consume(c) ==
  \/ Polled(c) \/ PollFailed(c) \/ Publish(c) \/ PublishFailed(c)
  \/ Sleep(c) \/ Killed(c) \/ Restart(c)

Next ==
  \/ \E message \in Message, ttl \in Ttl : Produce(message, ttl)
  \/ Tick
  \/ \E c \in Consumer : Consume(c)

Spec == Init /\ [][Next]_vars

(* The clock goes on.  A running script takes its next step; its POLLs are *)
(* not refused for ever.  Nobody promises to restart it.                   *)
Fairness ==
  /\ WF_vars(Tick)
  /\ \A c \in Consumer :
       /\ WF_vars(Publish(c))
       /\ WF_vars(Sleep(c))
       /\ SF_vars(Polled(c))

FairSpec == Spec /\ Fairness

----------------------------------------------------------------------------
(* Properties. *)

Published == {published[i].message : i \in DOMAIN published}

Waiting(c) == Range(batch[c])

(* A dehydrator, a state and a batch for each consumer, a log of messages; *)
(* only a consumer that is publishing has a batch.                         *)
TypeOK ==
  /\ DOMAIN pending \subseteq Message /\ pushed \subseteq Message
  /\ pc \in [Consumer -> {"polling", "publishing", "dead"}]
  /\ \A c \in Consumer :
       /\ Waiting(c) \subseteq pushed
       /\ pc[c] # "publishing" => batch[c] = <<>>
  /\ \A i \in DOMAIN published : published[i] \in [by : Consumer, message : pushed]

(* POLL hands an element to one caller: whatever fails, dies or is sent    *)
(* again, two consumers of a dehydrator never publish the same message,    *)
(* now or from what they have yet to publish.                              *)
OnePublisher ==
  /\ \A i, j \in DOMAIN published :
       published[i].message = published[j].message => published[i].by = published[j].by
  /\ \A c, d \in Consumer :
       c # d => /\ Waiting(c) \cap Waiting(d) = {}
                /\ \A i \in DOMAIN published :
                     published[i].message \in Waiting(c) => published[i].by # d

(* No answer is lost on the way and no consumer dies. *)
Reliable == failures \subseteq {"refused"}

(* Between push and channel a message is in exactly one place: waiting in  *)
(* the dehydrator, in one batch, or published once.  Only if no answer is  *)
(* lost and no consumer dies.                                              *)
NothingLost ==
  /\ TypeOK
  /\ Reliable =>
       \A m \in pushed :
         Cardinality({c \in Consumer : m \in Waiting(c)})
           + Cardinality({i \in DOMAIN published : published[i].message = m})
           + Cardinality({m} \cap DOMAIN pending) = 1

(* Every message pushed reaches the channel, if POLL succeeds again and    *)
(* again while some attempts are refused.                                  *)
EventuallyPublished ==
  \A m \in Message : Reliable /\ m \in pushed ~> m \in Published
============================================================================
