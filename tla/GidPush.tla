------------------------------ MODULE GidPush ------------------------------
(***************************************************************************)
(* The ids GIDPUSH generates (src/src/module.c 55-87 and 800-847): every   *)
(* call seeds the C library's generator with the time in seconds and draws *)
(* ids until one is not in use in its dehydrator.  Dehydrator lets the     *)
(* command give any free id; here is how it comes by one.                  *)
(*                                                                         *)
(* An id is a sequence of places in ALLOWED_ID_CHARS.  random() is known   *)
(* by what its manual says: a seed determines the values that follow.      *)
(***************************************************************************)
EXTENDS Integers, FiniteSets, Sequences

CONSTANTS
  Dehydrators,   \* keys
  RAND_MAX,
  IdLength,      \* ID_LENGTH, 31 in the code
  IdChars,       \* how many ALLOWED_ID_CHARS there are, 36 in the code
  Values,        \* Values[t]: what random() gives, over and over, after srandom(t)
  MaxHeld,       \* bounds the elements of a dehydrator
  MaxSecond      \* bounds the time

VARIABLES
  second,   \* time(NULL)
  rng,      \* the generator: its seed and how often it was called since
  held,     \* the generated ids in element_nodes of each dehydrator
  call,     \* the GIDPUSH being executed: its dehydrator and element_id
  given     \* the ids answered so far; not in the code

ids == <<second, rng, held, call, given>>

NoCall == <<>>
NoId == <<>>
AllIds == [1 .. IdLength -> 0 .. IdChars - 1]

----------------------------------------------------------------------------
(* The generator. *)

random(g) == Values[g.seed][(g.drawn % Len(Values[g.seed])) + 1]

Later(g, n) == [g EXCEPT !.drawn = @ + n]

BinSize(max) == (RAND_MAX + 1) \div (max + 1)

(* Mutant: the values beyond the last full bin are not drawn again. *)
Accepts_All(max, x) == x <= RAND_MAX

(* num_rand - defect <= x means to draw again. *)
Accepts(max, x) == x < RAND_MAX + 1 - ((RAND_MAX + 1) % (max + 1))

(* The values drawn in vain before one is accepted. *)
DrawnInVain(max, g) ==
  CHOOSE n \in 0 .. Len(Values[g.seed]) - 1 :
    /\ Accepts(max, random(Later(g, n)))
    /\ \A m \in 0 .. n - 1 : ~Accepts(max, random(Later(g, m)))

(* The number random_at_most returns, and the generator after it. *)
random_at_most(max, g) ==
  LET last == Later(g, DrawnInVain(max, g))
  IN  [number |-> random(last) \div BinSize(max), rng |-> Later(last, 1)]

(* The id, character by character, and the generator after it. *)
generate_id(g) ==
  LET made[i \in 0 .. IdLength] ==
        IF i = 0 THEN [id |-> <<>>, rng |-> g]
        ELSE LET before == made[i - 1]
                 r == random_at_most(IdChars - 1, before.rng)
             IN  [id |-> Append(before.id, r.number), rng |-> r.rng]
  IN  made[IdLength]

(* random() gives a value now and then that is not drawn again; a seed for *)
(* which it never did would keep the command for ever.                     *)
ASSUME GeneratorAssumption ==
  /\ IdLength \in Nat \ {0}
  /\ RAND_MAX \in Nat /\ IdChars \in 1 .. RAND_MAX + 1
  /\ MaxSecond \in Nat
  /\ \A t \in 0 .. MaxSecond :
       /\ Values[t] \in Seq(0 .. RAND_MAX)
       /\ \E i \in DOMAIN Values[t] : Accepts(IdChars - 1, Values[t][i])

----------------------------------------------------------------------------
(* The command, step by step; the server runs nothing else meanwhile.      *)

IdInit ==
  /\ second = 0
  /\ rng = [seed |-> 0, drawn |-> 0]
  /\ held = [d \in Dehydrators |-> {}]
  /\ call = NoCall
  /\ given = {}

(* Up to the loop: the generator is seeded. *)
GIDPushCommand(d) ==
  /\ call = NoCall
  /\ Cardinality(held[d]) < MaxHeld
  /\ rng' = [seed |-> second, drawn |-> 0]
  /\ call' = [dehydrator |-> d, id |-> NoId]
  /\ UNCHANGED <<second, held, given>>

InUse(id, d) == id = NoId \/ id \in held[d]

(* Mutant: the generator is seeded where the id is generated. *)
Draw_Seeding ==
  /\ call # NoCall
  /\ InUse(call.id, call.dehydrator)
  /\ LET new == generate_id([seed |-> second, drawn |-> 0])
     IN  call' = [call EXCEPT !.id = new.id] /\ rng' = new.rng
  /\ UNCHANGED <<second, held, given>>

(* A turn of the loop. *)
Draw ==
  /\ call # NoCall
  /\ InUse(call.id, call.dehydrator)
  /\ LET new == generate_id(rng)
     IN  call' = [call EXCEPT !.id = new.id] /\ rng' = new.rng
  /\ UNCHANGED <<second, held, given>>

(* Behind the loop: push_impl and the answer. *)
AnswerId ==
  /\ call # NoCall
  /\ ~InUse(call.id, call.dehydrator)
  /\ held' = [held EXCEPT ![call.dehydrator] = @ \cup {call.id}]
  /\ given' = given \cup {call.id}
  /\ call' = NoCall
  /\ UNCHANGED <<second, rng>>

(* PULL, POLL or XACK. *)
TakeOut(d, id) ==
  /\ call = NoCall
  /\ id \in held[d]
  /\ held' = [held EXCEPT ![d] = @ \ {id}]
  /\ UNCHANGED <<second, rng, call, given>>

NextSecond ==
  /\ second < MaxSecond
  /\ second' = second + 1
  /\ UNCHANGED <<rng, held, call, given>>

IdNext ==
  \/ \E d \in Dehydrators : GIDPushCommand(d) \/ \E id \in held[d] : TakeOut(d, id)
  \/ Draw \/ AnswerId \/ NextSecond

(* The command is sequential code. *)
IdFairness == WF_ids(Draw) /\ WF_ids(AnswerId)

IdSpec == IdInit /\ [][IdNext]_ids /\ IdFairness

----------------------------------------------------------------------------
(* Properties. *)

(* A GIDPUSH comes to an end, however many of the ids its second begins    *)
(* with are in use already: the loop (module.c:822) gets past them, as long *)
(* as the generator draws more ids than a dehydrator holds.                *)
GivesAnId == call # NoCall ~> call = NoCall

(* How many of random()'s values are taken for the number n. *)
TakenFor(max, n) ==
  Cardinality({x \in 0 .. RAND_MAX : Accepts(max, x) /\ x \div BinSize(max) = n})

EveryNumberAlike ==
  \A max, n \in 0 .. RAND_MAX :
    TakenFor(max, n) = IF n <= max THEN BinSize(max) ELSE 0

(* random_at_most is "in the closed interval [0, max]" (module.c:54) and   *)
(* takes as many of random()'s values for each number of it, whatever max  *)
(* is; so the ids are of ID_LENGTH allowed characters, none more likely.   *)
IdsOfTheAlphabet ==
  /\ call # NoCall => call.id \in AllIds \cup {NoId}
  /\ EveryNumberAlike

(* No two answers of GIDPUSH are the same id: "The generated GUID on       *)
(* success" (Commands.md:69).  The calls of one second draw the same ids,  *)
(* and only those held in the same dehydrator are passed over.             *)
GuidsAreUnique == [][AnswerId => call.id \notin given]_ids
=============================================================================
