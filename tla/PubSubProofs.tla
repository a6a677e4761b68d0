---------------------------- MODULE PubSubProofs ---------------------------
(***************************************************************************)
(* Where the messages of PubSub are, for any number of consumers and       *)
(* messages and in every world: in the dehydrator, in the batch of one     *)
(* consumer, or on the channel.                                            *)
(***************************************************************************)
EXTENDS PubSub, BasicLemmas

(* The shape of the state.  A batch has no message twice, because POLL     *)
(* answers each due element once; and a message is pushed under an id of   *)
(* its own, so that the ids POLL takes are the elements it answers.        *)
Kinds ==
  /\ pushed \subseteq Message /\ IsFiniteSet(pushed)
  /\ DOMAIN pending \subseteq pushed
  /\ \A m \in DOMAIN pending : pending[m].element = m
  /\ pc \in [Consumer -> {"polling", "publishing", "dead"}]
  /\ batch \in [Consumer -> Seq(Message)]
  /\ \A c \in Consumer : /\ IsInjective(batch[c])
                         /\ Waiting(c) \subseteq pushed
                         /\ pc[c] # "publishing" => batch[c] = <<>>
  /\ published \in Seq([by : Consumer, message : Message])
  /\ Published \subseteq pushed

(* OnePublisher is not inductive alone: a POLL must not find a message     *)
(* that is in a batch or on the channel.                                   *)
Apart ==
  /\ OnePublisher
  /\ Published \cap DOMAIN pending = {}
  /\ \A c \in Consumer : Waiting(c) \cap DOMAIN pending = {}

(* What NothingLost adds: a message pushed is somewhere, and is not on the *)
(* channel twice nor still to be published when it is there.               *)
Located ==
  /\ \A m \in pushed : \/ m \in DOMAIN pending \/ m \in Published
                       \/ \E c \in Consumer : m \in Waiting(c)
  /\ \A c \in Consumer : Waiting(c) \cap Published = {}
  /\ \A i, j \in DOMAIN published : published[i].message = published[j].message => i = j

Placed == Kinds /\ Apart /\ (Reliable => Located)

----------------------------------------------------------------------------
(* At first no message is anywhere.                                        *)
LEMMA InitPlaced == Init => Placed
<1>1. ASSUME Init
      PROVE  Placed
  <2>1. /\ pushed = {} /\ published = <<>> /\ pending = <<>>
        /\ pc = [c \in Consumer |-> "polling"]
        /\ batch = [c \in Consumer |-> <<>>]
    BY <1>1 DEF Init, D!Init
  <2>2. Published = {} /\ \A c \in Consumer : batch[c] = <<>> /\ Waiting(c) = {}
    BY <2>1 DEF Published, Waiting, Range
  <2>3. Kinds
    BY <2>1, <2>2, FS_EmptySet DEF Kinds, IsInjective
  <2>4. Apart
    BY <2>1, <2>2 DEF Apart, OnePublisher
  <2>5. Located
    BY <2>1, <2>2 DEF Located
  <2>6. QED
    BY <2>3, <2>4, <2>5 DEF Placed
<1>2. QED
  BY <1>1

(* A new message is in the dehydrator and nowhere else. *)
LEMMA ProduceKeepsPlaced ==
  ASSUME Placed, NEW message \in Message, NEW ttl \in Ttl, Produce(message, ttl)
  PROVE  Placed'
<1>1. /\ message \notin pushed
      /\ pushed' = pushed \cup {message}
      /\ UNCHANGED <<failures, pc, batch, published>>
  BY DEF Produce
<1>2. message \notin DOMAIN pending
  BY <1>1 DEF Placed, Kinds
<1>3. D!Hold(ttl, message, message)
  BY <1>2 DEF Produce, D!Push
<1>4. /\ DOMAIN pending' = DOMAIN pending \cup {message}
      /\ pending'[message].element = message
      /\ \A m \in DOMAIN pending : pending'[m] = pending[m]
  <2>1. pending' = [m \in DOMAIN pending \cup {message} |->
                      IF m = message THEN [element |-> message, expiration |-> clock + ttl]
                      ELSE pending[m]]
    BY <1>3 DEF D!Hold
  <2>2. DOMAIN pending' = DOMAIN pending \cup {message}
    BY <2>1
  <2>3. pending'[message] = [element |-> message, expiration |-> clock + ttl]
    BY <2>1
  <2>4. pending'[message].element = message
    BY <2>3
  <2>5. \A m \in DOMAIN pending : pending'[m] = pending[m]
    BY <1>2, <2>1
  <2>6. QED
    BY <2>2, <2>4, <2>5
<1>5. Published' = Published /\ \A c \in Consumer : Waiting(c)' = Waiting(c)
  BY <1>1 DEF Published, Waiting
<1>6. Published \subseteq pushed /\ \A c \in Consumer : Waiting(c) \subseteq pushed
  BY DEF Placed, Kinds
<1>7. IsFiniteSet(pushed')
  BY <1>1, FS_AddElement DEF Placed, Kinds
<1>8. Kinds'
  <2>1. /\ pushed' \subseteq Message
        /\ DOMAIN pending' \subseteq pushed'
        /\ \A m \in DOMAIN pending' : pending'[m].element = m
    BY <1>1, <1>4 DEF Placed, Kinds
  <2>2. QED
    BY <1>1, <1>5, <1>6, <1>7, <2>1 DEF Placed, Kinds
<1>9. Apart'
  BY <1>1, <1>4, <1>5, <1>6 DEF Placed, Apart, OnePublisher
<1>10. Reliable' => Located'
  BY <1>1, <1>4, <1>5, <1>6 DEF Placed, Reliable, Located
<1>11. QED
  BY <1>8, <1>9, <1>10 DEF Placed

(* What POLL takes out of the dehydrator and answers: the due elements,    *)
(* each once.                                                              *)
LEMMA PollTakes ==
  ASSUME Kinds, TakeDue
  PROVE  /\ DOMAIN pending' \subseteq DOMAIN pending
         /\ \A m \in DOMAIN pending' : pending'[m] = pending[m]
         /\ LET elements == [i \in DOMAIN replies'[1].array |-> replies'[1].array[i].bulk]
            IN  /\ elements \in Seq(Message)
                /\ IsInjective(elements)
                /\ \A m : m \in Range(elements)
                            <=> m \in DOMAIN pending \ DOMAIN pending'
<1>1. PICK order \in D!SetToSeqs(D!Due) :
        /\ D!Release(D!Due)
        /\ replies' = <<D!ArrayReply([i \in DOMAIN order |->
                                        D!BulkReply(pending[order[i]].element)])>>
  BY DEF TakeDue, D!Poll, D!Answer
<1>2. D!Due \subseteq DOMAIN pending
  BY DEF D!Due
<1>3. IsFiniteSet(D!Due)
  <2>1. D!Due \subseteq pushed
    BY <1>2 DEF Kinds
  <2>2. QED
    BY <2>1, FS_Subset DEF Kinds
<1>4. order \in SetToSeqs(D!Due)
  BY DEF D!SetToSeqs, SetToSeqs, D!Cardinality, Cardinality
<1>5. order \in Seq(D!Due) /\ IsInjective(order) /\ Range(order) = D!Due
  BY <1>3, <1>4, ArrangementIsFull
<1>6. /\ DOMAIN pending' = DOMAIN pending \ D!Due
      /\ \A m \in DOMAIN pending' : pending'[m] = pending[m]
  BY <1>1 DEF D!Release, D!Restrict
<1> DEFINE array == [i \in DOMAIN order |-> D!BulkReply(pending[order[i]].element)]
           elements == [i \in DOMAIN array |-> array[i].bulk]
<1>7. replies'[1].array = array
  BY <1>1 DEF D!ArrayReply
<1>8. ASSUME NEW i \in DOMAIN order
      PROVE  array[i].bulk = order[i]
  <2>1. order[i] \in DOMAIN pending
    BY <1>2, <1>5
  <2>2. pending[order[i]].element = order[i]
    BY <2>1 DEF Kinds
  <2>3. QED
    BY <2>2 DEF D!BulkReply
<1>9. DOMAIN elements = DOMAIN order
  OBVIOUS
<1>10. elements = order
  <2>1. order = [i \in DOMAIN order |-> order[i]]
    BY <1>5
  <2> HIDE DEF array
  <2>2. \A i \in DOMAIN order : elements[i] = order[i]
    BY <1>8, <1>9
  <2>3. QED
    BY <1>9, <2>1, <2>2
<1>11. D!Due \subseteq Message
  BY <1>2 DEF Kinds
<1> HIDE DEF array, elements
<1>12. elements \in Seq(Message)
  BY <1>5, <1>10, <1>11
<1>13. QED
  BY <1>2, <1>5, <1>6, <1>7, <1>10, <1>12 DEF elements

(* A POLL moves the due messages to one batch.                             *)
LEMMA PolledKeepsPlaced ==
  ASSUME Placed, NEW c \in Consumer, Polled(c)
  PROVE  Placed'
<1> DEFINE elements == [i \in DOMAIN replies'[1].array |-> replies'[1].array[i].bulk]
<1>1. /\ pc[c] = "polling"
      /\ TakeDue
      /\ pc' = [pc EXCEPT ![c] = "publishing"]
      /\ batch' = [batch EXCEPT ![c] = elements]
      /\ UNCHANGED <<failures, pushed, published>>
  BY DEF Polled, Become, Hold
<1>2. /\ DOMAIN pending' \subseteq DOMAIN pending
      /\ \A m \in DOMAIN pending' : pending'[m] = pending[m]
      /\ elements \in Seq(Message)
      /\ IsInjective(elements)
      /\ \A m : m \in Range(elements) <=> m \in DOMAIN pending \ DOMAIN pending'
  BY <1>1, PollTakes DEF Placed
<1> HIDE DEF elements
<1>3. /\ DOMAIN batch' = Consumer /\ batch' = [d \in Consumer |-> batch'[d]]
      /\ batch'[c] = elements
      /\ \A d \in Consumer \ {c} : batch'[d] = batch[d]
  BY <1>1 DEF Placed, Kinds
<1>4. batch[c] = <<>>
  BY <1>1 DEF Placed, Kinds
<1>5. /\ Waiting(c) = {}
      /\ \A m : m \in Waiting(c)' <=> m \in DOMAIN pending \ DOMAIN pending'
      /\ \A d \in Consumer \ {c} : Waiting(d)' = Waiting(d)
  BY <1>2, <1>3, <1>4 DEF Waiting, Range
<1>6. Published' = Published
  BY <1>1 DEF Published
<1>7. /\ pc' \in [Consumer -> {"polling", "publishing", "dead"}]
      /\ pc'[c] = "publishing"
      /\ \A d \in Consumer \ {c} : pc'[d] = pc[d]
  BY <1>1 DEF Placed, Kinds
<1>8. Kinds'
  <2>1. ASSUME NEW d \in Consumer
        PROVE  /\ batch'[d] \in Seq(Message)
               /\ IsInjective(batch'[d])
               /\ Waiting(d)' \subseteq pushed'
               /\ pc'[d] # "publishing" => batch'[d] = <<>>
    <3>1. CASE d = c
      <4>1. DOMAIN pending \subseteq pushed
        BY DEF Placed, Kinds
      <4>2. QED
        BY <1>1, <1>2, <1>3, <1>5, <1>7, <3>1, <4>1
    <3>2. CASE d # c
      BY <1>1, <1>3, <1>5, <1>7, <3>2 DEF Placed, Kinds
    <3>3. QED
      BY <3>1, <3>2
  <2>2. /\ DOMAIN pending' \subseteq pushed'
        /\ \A m \in DOMAIN pending' : pending'[m].element = m
    BY <1>1, <1>2 DEF Placed, Kinds
  <2>3. QED
    BY <1>1, <1>3, <1>6, <1>7, <2>1, <2>2 DEF Placed, Kinds
<1>9. /\ \A d \in Consumer : Waiting(d) \cap DOMAIN pending = {}
      /\ Published \cap DOMAIN pending = {}
      /\ OnePublisher
  BY DEF Placed, Apart
<1>10. OnePublisher'
  <2>1. \A d, e \in Consumer : d # e => Waiting(d)' \cap Waiting(e)' = {}
    BY <1>5, <1>9 DEF OnePublisher
  <2>2. ASSUME NEW d \in Consumer, NEW e \in Consumer, d # e,
               NEW i \in DOMAIN published', published'[i].message \in Waiting(d)'
        PROVE  published'[i].by # e
    <3>1. i \in DOMAIN published /\ published'[i] = published[i]
      BY <1>1, <2>2
    <3>2. published[i].message \in Published
      BY <3>1 DEF Published
    <3>3. d # c
      BY <1>5, <1>9, <2>2, <3>1, <3>2
    <3>4. QED
      BY <1>5, <1>9, <2>2, <3>1, <3>3 DEF OnePublisher
  <2>3. QED
    BY <1>1, <1>9, <2>1, <2>2 DEF OnePublisher
<1>11. Apart'
  BY <1>2, <1>5, <1>6, <1>9, <1>10 DEF Apart
<1>12. Reliable' => Located'
  <2>1. SUFFICES ASSUME Reliable
                 PROVE  Located'
    BY <1>1 DEF Reliable
  <2>2. Located
    BY <2>1 DEF Placed
  <2>3. \A m \in pushed' : \/ m \in DOMAIN pending' \/ m \in Published'
                           \/ \E d \in Consumer : m \in Waiting(d)'
    <3>1. ASSUME NEW m \in pushed
          PROVE  \/ m \in DOMAIN pending' \/ m \in Published
                 \/ \E d \in Consumer : m \in Waiting(d)'
      <4>1. CASE m \in DOMAIN pending
        BY <1>5, <4>1
      <4>2. CASE m \in Published
        BY <4>2
      <4>3. ASSUME NEW d \in Consumer, m \in Waiting(d)
            PROVE  m \in Waiting(d)'
        BY <1>5, <4>3
      <4>4. QED
        BY <2>2, <4>1, <4>2, <4>3 DEF Located
    <3>2. QED
      BY <1>1, <1>6, <3>1
  <2>4. \A d \in Consumer : Waiting(d)' \cap Published' = {}
    BY <1>5, <1>6, <1>9, <2>2 DEF Located
  <2>5. QED
    BY <1>1, <2>2, <2>3, <2>4 DEF Located
<1>13. QED
  BY <1>8, <1>11, <1>12 DEF Placed

(* A consumer whose batch is empty, or given up, in a world in which that  *)
(* happens; elements that leave the dehydrator unanswered are lost.        *)
Empties(c) ==
  /\ \E state \in {"polling", "publishing", "dead"} : pc' = [pc EXCEPT ![c] = state]
  /\ batch' = [batch EXCEPT ![c] = <<>>]
  /\ DOMAIN pending' \subseteq DOMAIN pending
  /\ \A m \in DOMAIN pending' : pending'[m] = pending[m]
  /\ UNCHANGED <<failures, pushed, published>>
  /\ Reliable => batch[c] = <<>> /\ DOMAIN pending' = DOMAIN pending

(* A consumer that polls in vain, finishes or dies drops its batch.        *)
LEMMA EmptiesKeepsPlaced ==
  ASSUME Placed, NEW c \in Consumer, Empties(c)
  PROVE  Placed'
<1>1. /\ DOMAIN pending' \subseteq DOMAIN pending
      /\ \A m \in DOMAIN pending' : pending'[m] = pending[m]
      /\ UNCHANGED <<failures, pushed, published>>
  BY DEF Empties
<1>2. /\ DOMAIN batch' = Consumer /\ batch' = [d \in Consumer |-> batch'[d]]
      /\ batch'[c] = <<>>
      /\ \A d \in Consumer \ {c} : batch'[d] = batch[d]
      /\ pc' \in [Consumer -> {"polling", "publishing", "dead"}]
      /\ \A d \in Consumer \ {c} : pc'[d] = pc[d]
  BY DEF Empties, Placed, Kinds
<1>3. /\ Waiting(c)' = {}
      /\ \A d \in Consumer \ {c} : Waiting(d)' = Waiting(d)
      /\ Published' = Published
  BY <1>1, <1>2 DEF Waiting, Range, Published
<1>4. <<>> \in Seq(Message) /\ IsInjective(<<>>)
  BY DEF IsInjective
<1>5. Kinds'
  <2>1. ASSUME NEW d \in Consumer
        PROVE  /\ batch'[d] \in Seq(Message)
               /\ IsInjective(batch'[d])
               /\ Waiting(d)' \subseteq pushed'
               /\ pc'[d] # "publishing" => batch'[d] = <<>>
    BY <1>1, <1>2, <1>3, <1>4 DEF Placed, Kinds
  <2>2. QED
    BY <1>1, <1>2, <1>3, <2>1 DEF Placed, Kinds
<1>6. Apart'
  <2>1. OnePublisher'
    BY <1>1, <1>3 DEF Placed, Apart, OnePublisher
  <2>2. QED
    BY <1>1, <1>3, <2>1 DEF Placed, Apart
<1>7. Reliable' => Located'
  <2>1. SUFFICES ASSUME Reliable
                 PROVE  Located'
    BY <1>1 DEF Reliable
  <2>2. Waiting(c) = {} /\ DOMAIN pending' = DOMAIN pending
    BY <2>1 DEF Empties, Waiting, Range
  <2>3. \A d \in Consumer : Waiting(d)' = Waiting(d)
    BY <1>3, <2>2
  <2>4. QED
    BY <1>1, <1>3, <2>1, <2>2, <2>3 DEF Placed, Located
<1>8. QED
  BY <1>5, <1>6, <1>7 DEF Placed

(* The head of a batch goes to the channel, k times, and the rest of the   *)
(* batch is kept, or given up in a world in which that happens.            *)
Logs(c, k, rest) ==
  /\ pc[c] = "publishing" /\ batch[c] # <<>>
  /\ published' = published \o [i \in 1 .. k |-> [by |-> c, message |-> Head(batch[c])]]
  /\ batch' = [batch EXCEPT ![c] = rest]
  /\ \/ rest = Tail(batch[c]) /\ pc' = pc
     \/ rest = <<>> /\ pc' = [pc EXCEPT ![c] = "dead"] /\ ~ Reliable
  /\ Reliable => k = 1
  /\ UNCHANGED <<failures, pushed>> /\ UNCHANGED pending

(* Publishing moves the head of the batch to the log.                      *)
LEMMA LogsKeepsPlaced ==
  ASSUME Placed, NEW c \in Consumer, NEW k \in Nat, NEW rest, Logs(c, k, rest)
  PROVE  Placed'
<1> DEFINE head == Head(batch[c])
           entry == [by |-> c, message |-> head]
<1>1. /\ pc[c] = "publishing"
      /\ batch[c] # <<>>
      /\ published' = published \o [i \in 1 .. k |-> entry]
      /\ UNCHANGED <<failures, pushed>> /\ pending' = pending
      /\ Reliable => k = 1 /\ rest = Tail(batch[c])
  BY DEF Logs
<1>2. /\ batch[c] \in Seq(Message) /\ IsInjective(batch[c])
      /\ Waiting(c) \subseteq pushed
  BY DEF Placed, Kinds
<1>3. /\ head \in Waiting(c)
      /\ Tail(batch[c]) \in Seq(Message)
      /\ IsInjective(Tail(batch[c]))
      /\ Range(Tail(batch[c])) = Waiting(c) \ {head}
  BY <1>1, <1>2, TailInjective DEF Waiting
<1>4. /\ rest \in Seq(Message) /\ IsInjective(rest)
      /\ Range(rest) \subseteq Waiting(c) \ {head}
      /\ Reliable => Range(rest) = Waiting(c) \ {head}
      /\ pc'[c] # "publishing" => rest = <<>>
  <2>1. <<>> \in Seq(Message) /\ IsInjective(<<>>) /\ Range(<<>>) = {}
    BY DEF IsInjective, Range
  <2>2. QED
    BY <1>1, <1>3, <2>1 DEF Logs
<1>5. head \in pushed /\ head \in Message
  BY <1>2, <1>3 DEF Placed, Kinds
<1>6. entry \in [by : Consumer, message : Message] /\ entry.by = c /\ entry.message = head
  BY <1>5
<1> HIDE DEF head, entry
<1>7. /\ published' \in Seq([by : Consumer, message : Message])
      /\ Len(published) \in Nat
      /\ DOMAIN published = 1 .. Len(published)
      /\ DOMAIN published' = 1 .. Len(published) + k
      /\ \A i \in DOMAIN published : published'[i] = published[i]
      /\ \A i \in DOMAIN published : published[i].by \in Consumer
      /\ \A i \in DOMAIN published' \ DOMAIN published : published'[i] = entry
  <2> DEFINE Entry == [by : Consumer, message : Message]
  <2>1. published \in Seq(Entry) /\ entry \in Entry
    BY <1>6 DEF Placed, Kinds
  <2> HIDE DEF Entry
  <2>2. \A i \in 1 .. Len(published) : published[i] \in Entry
    BY <2>1
  <2>3. \A x \in Entry : x.by \in Consumer
    BY DEF Entry
  <2>4. /\ published' \in Seq(Entry)
        /\ Len(published) \in Nat
        /\ DOMAIN published = 1 .. Len(published)
        /\ DOMAIN published' = 1 .. Len(published) + k
        /\ \A i \in DOMAIN published : published'[i] = published[i]
        /\ \A i \in DOMAIN published' \ DOMAIN published : published'[i] = entry
    <3> DEFINE copies == [i \in 1 .. k |-> entry]
    <3>1. copies \in Seq(Entry) /\ Len(copies) = k /\ \A i \in 1 .. k : copies[i] = entry
      BY <2>1
    <3>2. published' = published \o copies
      BY <1>1
    <3> HIDE DEF copies
    <3>3. copies \in Seq(Entry) /\ \A i \in 1 .. Len(copies) : copies[i] = entry
      BY <3>1
    <3>4. /\ published' \in Seq(Entry)
          /\ Len(published) \in Nat
          /\ DOMAIN published = 1 .. Len(published)
          /\ DOMAIN published' = 1 .. Len(published) + Len(copies)
          /\ \A i \in DOMAIN published : published'[i] = published[i]
          /\ \A i \in DOMAIN published' \ DOMAIN published : published'[i] = entry
      BY <2>1, <3>2, <3>3, RepeatAppends
    <3>5. QED
      BY <3>1, <3>4
  <2>5. QED
    BY <2>2, <2>3, <2>4 DEF Entry
<1>8. /\ DOMAIN batch' = Consumer /\ batch' = [d \in Consumer |-> batch'[d]]
      /\ batch'[c] = rest
      /\ \A d \in Consumer \ {c} : batch'[d] = batch[d]
      /\ pc' \in [Consumer -> {"polling", "publishing", "dead"}]
      /\ \A d \in Consumer \ {c} : pc'[d] = pc[d]
  BY DEF Logs, Placed, Kinds
<1>9. /\ Waiting(c)' \subseteq Waiting(c) \ {head}
      /\ Reliable => Waiting(c)' = Waiting(c) \ {head}
      /\ \A d \in Consumer \ {c} : Waiting(d)' = Waiting(d)
  BY <1>4, <1>8 DEF Waiting
<1>10. \A m \in Published' : m \in Published \/ m = head
  BY <1>6, <1>7 DEF Published
<1>11. /\ \A d, e \in Consumer : d # e => Waiting(d) \cap Waiting(e) = {}
       /\ \A d \in Consumer : Waiting(d) \cap DOMAIN pending = {}
       /\ Published \cap DOMAIN pending = {}
       /\ OnePublisher
  BY DEF Placed, Apart, OnePublisher
<1>12. Kinds'
  <2>1. ASSUME NEW d \in Consumer
        PROVE  /\ batch'[d] \in Seq(Message)
               /\ IsInjective(batch'[d])
               /\ Waiting(d)' \subseteq pushed'
               /\ pc'[d] # "publishing" => batch'[d] = <<>>
    <3>1. CASE d = c
      BY <1>1, <1>2, <1>4, <1>8, <1>9, <3>1
    <3>2. CASE d # c
      BY <1>1, <1>8, <1>9, <3>2 DEF Placed, Kinds
    <3>3. QED
      BY <3>1, <3>2
  <2>2. Published' \subseteq pushed'
    BY <1>1, <1>5, <1>10 DEF Placed, Kinds
  <2>3. QED
    BY <1>1, <1>7, <1>8, <2>1, <2>2 DEF Placed, Kinds
<1>13. OnePublisher'
  <2>1. ASSUME NEW i \in DOMAIN published
        PROVE  published[i].message = head => published[i].by = c
    BY <1>3, <1>7, <1>11 DEF OnePublisher
  <2>2. ASSUME NEW i \in DOMAIN published', NEW j \in DOMAIN published',
               published'[i].message = published'[j].message
        PROVE  published'[i].by = published'[j].by
    <3>1. CASE i \in DOMAIN published /\ j \in DOMAIN published
      BY <1>7, <1>11, <2>2, <3>1 DEF OnePublisher
    <3>2. CASE i \notin DOMAIN published /\ j \in DOMAIN published
      BY <1>6, <1>7, <2>1, <2>2, <3>2
    <3>3. CASE i \in DOMAIN published /\ j \notin DOMAIN published
      BY <1>6, <1>7, <2>1, <2>2, <3>3
    <3>4. CASE i \notin DOMAIN published /\ j \notin DOMAIN published
      BY <1>7, <2>2, <3>4
    <3>5. QED
      BY <3>1, <3>2, <3>3, <3>4
  <2>3. \A d, e \in Consumer : d # e => Waiting(d)' \cap Waiting(e)' = {}
    BY <1>9, <1>11
  <2>4. ASSUME NEW d \in Consumer, NEW e \in Consumer, d # e,
               NEW i \in DOMAIN published', published'[i].message \in Waiting(d)'
        PROVE  published'[i].by # e
    <3>1. Waiting(d)' \subseteq Waiting(d)
      BY <1>9
    <3>2. CASE i \in DOMAIN published
      BY <1>7, <1>11, <2>4, <3>1, <3>2 DEF OnePublisher
    <3>3. CASE i \notin DOMAIN published
      <4>1. published'[i].message = head /\ published'[i].by = c
        BY <1>6, <1>7, <3>3
      <4>2. d = c => head \notin Waiting(d)'
        BY <1>9
      <4>3. d = c
        BY <1>3, <1>11, <2>4, <3>1, <4>1
      <4>4. QED
        BY <2>4, <4>1, <4>2, <4>3
    <3>4. QED
      BY <3>2, <3>3
  <2>5. QED
    BY <2>2, <2>3, <2>4 DEF OnePublisher
<1>14. Apart'
  <2>1. head \notin DOMAIN pending
    BY <1>3, <1>11
  <2>2. \A d \in Consumer : Waiting(d)' \subseteq Waiting(d)
    BY <1>9
  <2>3. QED
    BY <1>1, <1>10, <1>11, <1>13, <2>1, <2>2 DEF Apart
<1>15. Reliable' => Located'
  <2>1. SUFFICES ASSUME Reliable
                 PROVE  Located'
    BY <1>1 DEF Reliable
  <2>2. Located /\ k = 1
    BY <1>1, <2>1 DEF Placed
  <2>3. DOMAIN published' = DOMAIN published \cup {Len(published) + 1}
        /\ Len(published) + 1 \notin DOMAIN published
    BY <1>7, <2>2
  <2>4. \A m : m \in Published' <=> m \in Published \/ m = head
    <3>1. \A m \in Published : m \in Published'
      BY <1>7, <2>3 DEF Published
    <3>2. head \in Published'
      BY <1>6, <1>7, <2>3 DEF Published
    <3>3. QED
      BY <1>10, <3>1, <3>2
  <2>5. head \notin Published
    BY <1>3, <2>2 DEF Located
  <2>6. \A m \in pushed' : \/ m \in DOMAIN pending' \/ m \in Published'
                           \/ \E d \in Consumer : m \in Waiting(d)'
    <3>1. ASSUME NEW m \in pushed
          PROVE  \/ m \in DOMAIN pending \/ m \in Published'
                 \/ \E d \in Consumer : m \in Waiting(d)'
      <4>1. CASE m = head
        BY <2>4, <4>1
      <4>2. ASSUME NEW d \in Consumer, m \in Waiting(d), m # head
            PROVE  m \in Waiting(d)'
        BY <1>9, <2>1, <4>2
      <4>3. QED
        BY <2>2, <2>4, <4>1, <4>2 DEF Located
    <3>2. QED
      BY <1>1, <3>1
  <2>7. ASSUME NEW d \in Consumer
        PROVE  Waiting(d)' \cap Published' = {}
    <3>1. Waiting(d)' \subseteq Waiting(d) /\ Waiting(d) \cap Published = {}
      BY <1>9, <2>2 DEF Located
    <3>2. head \notin Waiting(d)'
      BY <1>3, <1>9, <1>11
    <3>3. QED
      BY <2>4, <3>1, <3>2
  <2>8. ASSUME NEW i \in DOMAIN published', NEW j \in DOMAIN published',
               published'[i].message = published'[j].message
        PROVE  i = j
    <3>1. \A n \in DOMAIN published : published[n].message \in Published
      BY DEF Published
    <3>2. \A n \in DOMAIN published : published[n].message # head
      BY <2>5, <3>1
    <3>3. CASE i \in DOMAIN published /\ j \in DOMAIN published
      BY <1>7, <2>2, <2>8, <3>3 DEF Located
    <3>4. CASE i \notin DOMAIN published \/ j \notin DOMAIN published
      BY <1>6, <1>7, <2>3, <2>8, <3>2, <3>4
    <3>5. QED
      BY <3>3, <3>4
  <2>9. QED
    BY <2>6, <2>7, <2>8 DEF Located
<1>16. QED
  BY <1>12, <1>14, <1>15 DEF Placed

(* So every step of a consumer keeps each message in one place.            *)
LEMMA ConsumeKeepsPlaced ==
  ASSUME Placed, NEW c \in Consumer, Consume(c)
  PROVE  Placed'
<1>1. batch = [d \in Consumer |-> batch[d]] /\ pc \in [Consumer -> {"polling", "publishing", "dead"}]
  BY DEF Placed, Kinds
<1>2. CASE Polled(c)
  BY <1>2, PolledKeepsPlaced
<1>3. CASE PollFailed(c)
  <2>1. /\ DOMAIN pending' \subseteq DOMAIN pending
        /\ \A m \in DOMAIN pending' : pending'[m] = pending[m]
    BY <1>3, PollTakes DEF PollFailed, Placed, dehydrator
  <2>2. Reliable => batch[c] = <<>> /\ DOMAIN pending' = DOMAIN pending
    BY <1>3 DEF PollFailed, Placed, Kinds, Reliable, dehydrator
  <2>3. Empties(c)
    BY <1>3, <2>1, <2>2 DEF PollFailed, Become, Hold, Empties
  <2>4. QED
    BY <2>3, EmptiesKeepsPlaced
<1>4. CASE Publish(c)
  <2>1. PICK copies \in {1} \cup IF "resent" \in failures THEN {2} ELSE {} :
          published' = published \o
            [i \in 1 .. copies |-> [by |-> c, message |-> Head(batch[c])]]
    BY <1>4 DEF Publish
  <2>2. copies \in Nat /\ (Reliable => copies = 1)
    BY DEF Reliable
  <2>3. Logs(c, copies, Tail(batch[c]))
    BY <1>4, <2>1, <2>2 DEF Publish, Hold, Rest, Logs, dehydrator
  <2>4. QED
    BY <2>2, <2>3, LogsKeepsPlaced
<1>5. CASE PublishFailed(c)
  <2> DEFINE entry == [by |-> c, message |-> Head(batch[c])]
  <2>1. ~ Reliable
    BY <1>5 DEF PublishFailed, Reliable
  <2>2. published \in Seq([by : Consumer, message : Message])
    BY DEF Placed, Kinds
  <2>3. \E k \in Nat : published' = published \o [i \in 1 .. k |-> entry]
    <3>1. CASE published' = published
      <4>1. [i \in 1 .. 0 |-> entry] = <<>>
        OBVIOUS
      <4>2. published \o <<>> = published
        BY <2>2
      <4>3. QED
        BY <3>1, <4>1, <4>2
    <3>2. CASE published' = Append(published, entry)
      <4>1. [i \in 1 .. 1 |-> entry] = <<entry>>
        OBVIOUS
      <4>2. published \o <<entry>> = Append(published, entry)
        BY <2>2
      <4>3. QED
        BY <3>2, <4>1, <4>2
    <3>3. QED
      BY <1>5, <3>1, <3>2 DEF PublishFailed
  <2>4. PICK k \in Nat : published' = published \o [i \in 1 .. k |-> entry]
    BY <2>3
  <2>5. Logs(c, k, <<>>)
    BY <1>5, <2>1, <2>4 DEF PublishFailed, Become, Hold, Logs, dehydrator
  <2>6. QED
    BY <2>5, LogsKeepsPlaced
<1>6. CASE Sleep(c) \/ Restart(c)
  <2>1. batch[c] = <<>> /\ batch' = batch
    BY <1>6 DEF Sleep, Restart, Placed, Kinds
  <2>2. batch' = [batch EXCEPT ![c] = <<>>]
    BY <1>1, <2>1
  <2>3. Empties(c)
    BY <1>6, <2>1, <2>2 DEF Sleep, Restart, Become, Empties, dehydrator
  <2>4. QED
    BY <2>3, EmptiesKeepsPlaced
<1>7. CASE Killed(c)
  <2>1. ~ Reliable
    BY <1>7 DEF Killed, Reliable
  <2>2. Empties(c)
    BY <1>7, <2>1 DEF Killed, Become, Hold, Empties, dehydrator
  <2>3. QED
    BY <2>2, EmptiesKeepsPlaced
<1>8. QED
  BY <1>2, <1>3, <1>4, <1>5, <1>6, <1>7 DEF Consume

(* A message is in one place, in every state.                              *)
LEMMA PlacedInvariant == Spec => []Placed
<1>1. ASSUME Placed, [Next]_vars
      PROVE  Placed'
  <2>1. CASE UNCHANGED vars \/ Tick
    <3>1. UNCHANGED <<failures, pending, pc, batch, pushed, published>>
      BY <2>1 DEF vars, Tick, D!Tick
    <3>2. Published' = Published /\ \A c \in Consumer : Waiting(c)' = Waiting(c)
      BY <3>1 DEF Published, Waiting
    <3>3. Kinds'
      BY <1>1, <3>1, <3>2 DEF Placed, Kinds
    <3>4. Apart'
      BY <1>1, <3>1, <3>2 DEF Placed, Apart, OnePublisher
    <3>5. Reliable' => Located'
      BY <1>1, <3>1, <3>2 DEF Placed, Reliable, Located
    <3>6. QED
      BY <3>3, <3>4, <3>5 DEF Placed
  <2>2. QED
    BY <1>1, <2>1, ProduceKeepsPlaced, ConsumeKeepsPlaced DEF Next
<1>2. QED
  BY <1>1, InitPlaced, PTL DEF Spec

(* POLL hands an element to one caller: however many consumers poll one    *)
(* dehydrator, and whatever fails or is sent again, a message is published *)
(* by one of them only (pubsub.py, the loop around poll and publish).      *)
THEOREM OnePublisherOnly == Spec => []OnePublisher
<1>1. Placed => OnePublisher
  BY DEF Placed, Apart
<1>2. QED
  BY <1>1, PlacedInvariant, PTL

(* A set of one.                                                           *)
LEMMA CountOfOne ==
  ASSUME NEW S, NEW x, \A y : y \in S <=> y = x
  PROVE  Cardinality(S) = 1
<1>1. S = {x}
  OBVIOUS
<1>2. QED
  BY <1>1, FS_Singleton

(* The empty set.                                                          *)
LEMMA CountOfNone ==
  ASSUME NEW S, \A y : y \notin S
  PROVE  Cardinality(S) = 0
<1>1. S = {}
  OBVIOUS
<1>2. QED
  BY <1>1, FS_EmptySet

(* While no answer is lost and no consumer dies, a message pushed is in    *)
(* one place: due later, in the batch of one consumer, or published once.  *)
THEOREM NoMessageLost == Spec => []NothingLost
<1>1. ASSUME Placed
      PROVE  NothingLost
  <2>1. TypeOK
    <3>1. ASSUME NEW i \in DOMAIN published
          PROVE  published[i] \in [by : Consumer, message : pushed]
      <4>1. published[i] \in [by : Consumer, message : Message]
        <5> DEFINE Entry == [by : Consumer, message : Message]
        <5>1. published \in Seq(Entry)
          BY <1>1 DEF Placed, Kinds
        <5> HIDE DEF Entry
        <5>2. published[i] \in Entry
          BY <5>1
        <5>3. QED
          BY <5>2 DEF Entry
      <4>2. published[i].message \in pushed
        BY <1>1 DEF Placed, Kinds, Published
      <4>3. QED
        BY <4>1, <4>2
    <3>2. QED
      BY <1>1, <3>1 DEF Placed, Kinds, TypeOK
  <2>2. ASSUME Reliable, NEW m \in pushed
        PROVE  Cardinality({c \in Consumer : m \in Waiting(c)})
                 + Cardinality({i \in DOMAIN published : published[i].message = m})
                 + Cardinality({m} \cap DOMAIN pending) = 1
    <3> DEFINE holders == {c \in Consumer : m \in Waiting(c)}
               entries == {i \in DOMAIN published : published[i].message = m}
               held == {m} \cap DOMAIN pending
    <3>1. Located /\ Apart
      BY <1>1, <2>2 DEF Placed
    <3>2. \A c : c \in holders <=> c \in Consumer /\ m \in Waiting(c)
      OBVIOUS
    <3>3. \A i : i \in entries <=> i \in DOMAIN published /\ published[i].message = m
      OBVIOUS
    <3>4. \A x : x \in held <=> x = m /\ m \in DOMAIN pending
      OBVIOUS
    <3>5. m \in Published <=> \E i \in DOMAIN published : published[i].message = m
      BY DEF Published
    <3> SUFFICES Cardinality(holders) + Cardinality(entries) + Cardinality(held) = 1
      OBVIOUS
    <3> HIDE DEF holders, entries, held
    <3>6. CASE m \in DOMAIN pending
      <4>1. Cardinality(held) = 1
        BY <3>4, <3>6, CountOfOne
      <4>2. Cardinality(holders) = 0
        BY <3>1, <3>2, <3>6, CountOfNone DEF Apart
      <4>3. Cardinality(entries) = 0
        BY <3>1, <3>3, <3>5, <3>6, CountOfNone DEF Apart
      <4>4. QED
        BY <4>1, <4>2, <4>3
    <3>7. CASE m \in Published
      <4>1. PICK i \in DOMAIN published : published[i].message = m
        BY <3>5, <3>7
      <4>2. \A j : j \in entries <=> j = i
        BY <3>1, <3>3, <4>1 DEF Located
      <4>3. Cardinality(entries) = 1
        BY <4>2, CountOfOne
      <4>4. Cardinality(holders) = 0
        BY <3>1, <3>2, <3>7, CountOfNone DEF Located
      <4>5. Cardinality(held) = 0
        BY <3>1, <3>4, <3>7, CountOfNone DEF Apart
      <4>6. QED
        BY <4>3, <4>4, <4>5
    <3>8. ASSUME NEW c \in Consumer, m \in Waiting(c)
          PROVE  Cardinality(holders) + Cardinality(entries) + Cardinality(held) = 1
      <4>1. \A d : d \in holders <=> d = c
        BY <3>1, <3>2, <3>8 DEF Apart, OnePublisher
      <4>2. Cardinality(holders) = 1
        BY <4>1, CountOfOne
      <4>3. Cardinality(entries) = 0
        BY <3>1, <3>3, <3>5, <3>8, CountOfNone DEF Located
      <4>4. Cardinality(held) = 0
        BY <3>1, <3>4, <3>8, CountOfNone DEF Apart
      <4>5. QED
        BY <4>2, <4>3, <4>4
    <3>9. QED
      BY <3>1, <3>6, <3>7, <3>8 DEF Located
  <2>3. QED
    BY <2>1, <2>2 DEF NothingLost
<1>2. Placed => NothingLost
  BY <1>1
<1>3. QED
  BY <1>2, PlacedInvariant, PTL
============================================================================
