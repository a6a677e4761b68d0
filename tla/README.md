# A verification project for ReDe

ReDe is a Redis module. It adds a data type, the *dehydrator*: a set of elements,
each pushed with an id and a timeout, and handed back by `REDE.POLL` once the
timeout has passed. These files model the module in TLA+, check the models on
small instances with TLC, and prove the properties that matter most for all values of
the constants with TLAPS.

Paths are relative to the root of the repository as it is laid out under `src/`:
`module.c` is `src/src/module.c`, `khash.h` is `src/src/khash.h`, `pubsub.py` is
`src/src/pubsub.py`, `redis-benchmark.c` is `src/src/redis-benchmark.c`, `util.c`, `sds.c`, `vector.c`,
`heap.c` and their headers are in `src/rmutil/`, and the documents are `src/README.md` and
`src/docs/*.md`.

## 1. Inventory

| part | state | operations | hard behaviour | correct when |
|---|---|---|---|---|
| REDE commands (`module.c` 616-1106) | per key: `timeout_queues` (timeout -> list), `element_nodes` (id -> node), a name | PUSH, GIDPUSH, PULL, POLL, XPOLL, XACK, LOOK, UPDATE, TTN, PRINT | any sequence of commands on the two maps; wall clock; three integer widths; ids as C strings; keys of another type | the maps describe the same elements; an element leaves once, in its answer, not early; POLL misses none; one answer per command |
| Element list (`module.c` 96-316) | `head`, `tail`, `len`; `next`, `prev` in each node | push, pop, pull, walk, delete | removal at head, middle and tail and of the last node | well linked, nothing leaked, behaves as a sequence |
| Hash maps (`khash.h`) | buckets with flags, four counters | init, get, put, del, resize, loops over the buckets | tombstones, collisions, rehashing in place, deletion inside a loop | a lookup finds exactly what was put; searches end; behaves as a function |
| Persistence (`module.c` 519-602) | an RDB stream | save, load, AOF rewrite (empty) | a crash between a fork, its completion and later commands | what is loaded is what was saved, linked and mapped |
| Generated ids (`module.c` 50-90, 800-847) | the C library's generator, reseeded by every GIDPUSH | draw until free | two calls in the same second draw the same sequence | an id in use is never given again |
| Poll-and-publish script (`pubsub.py`) | the batch of the current POLL | POLL, PUBLISH, sleep | several instances; lost answers; exceptions; death between two PUBLISHes | one publisher for each element; nothing lost without a failure; everything published in the end |
| Debug dump (`module.c` 323-357, 404-452) | none | PRINT | buffer sizes of the text | (formatting) |
| Benchmark (`redis-benchmark.c`, two copies) | options; per benchmark the clients with their output buffers and pointers into them; `liveclients`, `requests_issued`, `requests_finished`, `latency` | option parsing, the suite, creating, cloning, resetting and freeing clients, `writeHandler`, `readHandler`, `showThroughput` | callbacks in any order; pipelines; a prefix answered and dropped once; buffers cloned with pointers into them; clients replaced, refused, failing; a stop flag read only between turns of the loop | every request goes out whole; as many answers are awaited as commands were sent; the report is made of the latencies of its own round; every benchmark ends |
| Dynamic strings (`sds.c`, `sds.h`) | a buffer behind a header of one of five widths | append, format, grow, shrink, cut, trim, map, remove; split, join, quote, parse, numbers | header changes when a string grows; room that must be there; negative ranges; escapes | holds the text its calls mean, in a header that fits; quoting and parsing, splitting and joining undo each other |
| Containers (`vector.c`, `heap.c`, `priority_queue.c`) | `data`, `cap`, `top` | push, pop, put, resize; make, push, pop; the queue | growth; gaps; ranges that begin inside the vector; ties | the vector is a sequence; the heap is in order and loses nothing; the queue gives the greatest |
| Argument helpers (`util.c`) | the caller's variables, the INFO table, `errno` | ArgExists, ParseArgs(After), GetRedisInfo, GetInt, ...ByPath | skipped arguments, failed conversions, a table that grows, an `errno` nobody cleared | each variable gets the argument of its letter; every entry is kept; no number is invented |
| Redis itself | keys, replies, fork, clock | module API | one command at a time; other commands may delete or replace a key | (external) |

The parts meet as follows. Redis runs one command at a time: a command is one step,
and what interleaves are whole commands of several clients, the clock, other Redis
commands on the same key, saving, and crashes. A command opens the key
(`validateDehydratorKey`), finds a node through `element_nodes` or the lists through
`timeout_queues`, edits both, and answers. The script is a client: it sees answers only. So
is the benchmark, whose answers it only counts. rmutil is a library without state of its own: the module
links it, and its functions meet only inside one another (the queue is a vector ordered by the heap,
joining and formatting append to strings).

## 2. Modules

| module | models | state and actions |
|---|---|---|
| `Replies` | what a command can send | constructors for the reply types of the module API |
| `DelayQueue` | a dehydrator as its clients see it: one set of elements with deadlines | `open`, `pending` (id -> element, expiration), `clock`, `replies`; one action per command |
| `Dehydrator` | one key and all the commands, `module.c` 616-1106 and the helpers they call | `keyType`, `nodes` (the heap of `ElementListNode`s by address), `timeout_queues`, `element_nodes`, `clock`, `replies`; an action named after each `...Command`, `DelKey`, `OverwriteKey`, `Tick`, `StepBack` |
| `TimeoutQueues` | lists as sequences | `queues`; `Enqueue`, `Dequeue`, `Withdraw`, `Clear` |
| `ElementList` | the list functions with their pointers | `nodes` (ttl, next, prev), `lists` (head, tail, len); what PUSH, POLL, PULL/XACK and the destruction do to the lists |
| `HashMap` | a map as a function | `map`; `Insert`, `Delete` |
| `KHash` | open addressing as in `khash.h` | `h` (the `kh_..._t`); insertion of an absent key, deletion of a found one, a loop that deletes |
| `GidPush` | how GIDPUSH comes by an id, `module.c` 55-87 and 800-847 | `second`, `rng` (seed and position of the C library's generator), `held`, `call`; seeding, a turn of the loop, the answer |
| `Persistence` | `DehydratorTypeRdbSave` and `DehydratorTypeRdbLoad` around crashes | extends `Dehydrator` with `image` (a save in progress) and `disk`; `Fork`, `Saved`, `CrashRestart` |
| `PubSub` | instances of `pubsub.py` on one dehydrator | `DelayQueue` plus `pc`, `batch`, `pushed`, `published` |
| `Benchmark` | `redis-benchmark.c` from `main` to the last report | `config`, `plan`, `client` (the `config.clients` list with each client's `obuf`, `randptr`, `written`, `pending`...), `liveclients`, `issued`, `finished`, `latency`; `ReadCommandLine`, `StartBenchmark`, an action for each callback, `aeMainReturns`, `Report` |
| `Sds` | a string through the calls that change it | `s` (type, len, alloc, buf), and `text`, what it should hold; an action for each call |
| `SdsText` | the algorithms of `sds.c` on whole texts | `line` and `number` only enumerate inputs; the algorithms are operators |
| `Containers`, `PriorityBag` | vector, heap and priority queue; a bag from which the greatest is taken | `v` (data, cap, top), `heap` (the range in heap order), and `list`, what the vector stands for; an action for each call |
| `Args` | `util.c` | `argv`, the caller's variables `out`, `info`, `errno`, `path`; an action for each helper |
| `Foundations` | `ElementList`, `KHash`, `GidPush`, and the four modules before it, one at a time | `part` chooses which |
| `BasicLemmas` | (proofs) induction in the form the provers can use, counting along sequences, flattening | |
| `DehydratorProofs` | proofs about `Dehydrator` by itself, and as an implementation of `DelayQueue` | |
| `PersistenceProofs` | proofs about `Persistence`, on top of `DehydratorProofs` | |
| `FoundationsProofs` | proofs about `ElementList`, `KHash` and `GidPush` | |
| `PubSubProofs`, `BenchmarkProofs` | proofs about `PubSub` and `Benchmark` | |
| `SdsProofs` | proofs about `Sds` and `SdsText` | |
| `UtilProofs` | proofs about `Containers` and `Args` | |
| `MC...` | small instances | constants only |

How they are put together:

    PubSub  --uses-->  DelayQueue  <--implemented by--  Dehydrator  <--extended by--  Persistence
                                                            |
                              functions and sequences of it | are implemented by
                                          HashMap <-- KHash | TimeoutQueues <-- ElementList

`Dehydrator` uses sequences and functions; that the C structures provide them is what
`ElementList` and `KHash` show, each by a refinement mapping of its own. It gives GIDPUSH any id that is free;
that the command gets to one, and to which, is what `GidPush` is about. `Benchmark` and the modules of rmutil stand
alone (`Containers --implements--> PriorityBag`): the benchmark looks at no answer's content, and the
module calls rmutil from PRINT and `REDE.TEST` only.

### What is kept and what is abstracted

* Payloads, ids and node addresses are model values. An id is looked up through `CStr`,
  the C string it is compared as, because `element_nodes` compares with `strcmp`.
* Three conversions are kept with their widths as constants (`IntMod` for 2^32,
  `LongMod` for 2^64): `ToUint` (the `khint32_t` key of `timeout_queues`), `ToLong` (the sum
  of clock and timeout) and `ToInt` (`int tmp` in TTN). On the platforms the module is
  built for, signed overflow in the sum wraps; the proofs that need it absent say so.
* POLL and XPOLL visit the buckets of `timeout_queues` in an order that depends on the
  table. `Dehydrator` lets it be any order: no client may rely on one.
* `replies` is the sequence of replies of the last command. It is a sequence because some
  paths of the code answer twice and some not at all.
* A validation error, an early return and an error answer are disjuncts of the action of
  the command they occur in. The `argc` test is the same for all commands and one
  action.
* In `Benchmark` a buffer is a sequence of tokens rather than bytes, `"rand"` the placeholder
  `__rand_int__` and `"key"` the digits that replace it; pointers and `written` count tokens. The
  turn of the event loop is kept as `due`, the events that are still to be handled when
  the stop flag is already up.
* `Sds` keeps the widths of the headers as constants; `Garbage` is memory nobody has written, and no
  property allows it in a text. In `SdsText` a text is the sequence of its codes.
* `Args` tells words apart by what they convert to; a line of INFO is a key and a value, or no entry. A value is the
  number it begins with, of any size and sign, and whether it is no more than that: `role:master` begins with none, so with 0.
* The text PRINT builds is one status reply. `REDE.TEST` is a test and is left out.

## 3. Runs

Twelve runs; "states" are distinct states.

| run | instance | shows |
|---|---|---|
| `structure` | 3 nodes, 2 payloads, 4 ids of which two differ after a NUL byte, timeouts -1, 1 and 9 with 3-bit keys, a timeout that does not parse, other types on the key, clock set back; 372,000 states | `TypeOK`, `MapsAgree`, `NoEmptyQueue` under every misuse at once, and `HandedOver`: an element leaves only in the answer that hands it over, once, and early only by PULL |
| `timing` | 3 nodes, 2 payloads, timeouts 1 and 3, a clock that only advances, XACK of two ids; 71,000 states | `QueuesSorted`, `AllExpiredAreDue`, `TtnExact`, and `ImplementsDelayQueue`: every command answers and changes what `DelayQueue` says |
| `foundations` | lists of 5 nodes and 2 timeouts; a table of 5 keys whose hashes meet in tables of 4 and 8, 2 values; ids of 2 characters of 3, drawn from 11 values; strings across four header widths, every text of up to 4 of 9 characters, every integer of 8 bits, vectors of up to 5 elements and queues of up to 6 with ties, up to 3 arguments, an INFO of up to 2 lines with values on both sides of every limit and texts; 90,000 states | `WellLinked`, `NoLeak`, `ImplementsQueues`; `CountersExact`, `LookupsFind`, `ImplementsMap`; `IdsOfTheAlphabet`, `GivesAnId`; `HoldsText`; `SplitJoins`, `ReprReadsBack`, `NumbersReadBack`, `PrintsAll`; `HoldsList`, `HeapInOrder`, `HeapKeepsElements`, `QueueIsBag`; `ParsesFormat`, `InfoIsRead`, `PathsCompose` |
| `persistence` | 2 nodes, a save that a crash may overtake; 245,000 states | `RestoredAsSaved`, and `MapsAgree` and `QueuesSorted` across restarts |
| `pubsub` | 2 consumers, 3 messages; a world where POLL may be refused and one where everything fails; 131,000 states | `OnePublisher` in both, `NothingLost` and `EventuallyPublished` in the first |
| `benchmark` | some 100 command lines: 1 to 3 clients, 0 to 4 requests, pipelines of 1 to 3, connections kept or made anew, AUTH and SELECT prefixes, random keys, the suite, the loop, the idle mode and wrong usage; one failing write; 253,000 states | `RequestsIntact`, `AnswersMatchCommands`, `LiveClientsCounted`, `ReportComplete`, `NoPrematureAbort`, `BenchmarkEnds` |
| `aliased_ttls` | two timeouts equal modulo the key width | refutes `AllExpiredAreDue` |
| `clock_set_back` | one step back of the clock | refutes `QueuesSorted` |
| `wide_ttl` | a timeout beyond a signed int | refutes `TtnExact` |
| `one_reply` | a timeout that does not parse, and another type on the key | refutes `OneReplyPerCommand` |
| `xack_none_expired` | an XACK before any element has expired | refutes `XAckOfNoneExpiredIsEmpty` |
| `same_second` | two dehydrators, two seconds | refutes `GuidsAreUnique` |

Every property of a passing run has a mutant: a definition of the model changed the way
a plausible bug would change the code, defined right before the original, under
which TLC finds the property violated.

### Bounds, and why they are enough

* Three nodes are the fewest with a head, a middle and a tail; with two queues there is
  also a queue that empties while another stays. `ElementList` has five, so a
  list of three and one of two exist together.
* `MaxClock` 2 or 3 lets elements of one queue expire at different moments and be polled
  before, between and after; the shortest and longest timeouts of an instance differ so
  that queues expire out of the order of pushing.
* `MaxAcks` 2, in `timing`, is the shortest XACK with a repeated id and with two ids of one queue; in
  `structure` XACK has one id, since more of them only compose the same removals.
* `IntMod` 8 and `LongMod` 64 are the smallest widths with a negative, an aliasing (1 and 9)
  and an ordinary timeout. The structural theorems hold for all widths.
* The keys of `foundations` are chosen so that the table grows twice, is cleared of tombstones, and
  entries are kicked out while it is rehashed: with keys that did not meet in that way,
  a rehashing that mixes up values went unnoticed. The sizes of tables are the powers of two from 4 to 2^30;
  the instance comes to 16.
* The generator of `foundations` has 11 values for 3 characters, so that two values must be drawn again; its ids are few enough to
  meet, and a dehydrator that holds three makes the loop pass over several. `GuidsAreUnique` needs two dehydrators, or a PULL, and one second.
* In `persistence`, timeout -1 gives a queue key that is negative as the `int` the save loop keeps
  it in, so the conversions of the stream are exercised.
* Three messages make a batch of two or more with something still waiting; two consumers make a race.
* In `benchmark`, three clients and four requests in batches of up to three give every relation between the
  requests issued (which count batches) and finished (which count answers): exact, too many batches, a
  last batch cut short. A third client is what can be idle while one finishes and one is
  replaced. `InitialPointers` 2 makes the pointer array grow as `RANDPTR_INITIAL_SIZE` 8 does for MSET.
  One failing write is enough to break the count of batches for good. `-l` is left after two passes.
* In the utilities of `foundations`, headers of 3, 6 and 9 values are reached by strings of 0 to 5 characters and
  their reserves, so that growth crosses each boundary by one and by more; `MaxPrealloc` 4 lets both
  ways of reserving happen. The alphabet has a NUL, blanks of two kinds, both
  quotes, the backslash, a hex digit, the `x` of an escape and a byte above 126. `Slots` 2 and `StaticBuffer` 2 make the
  token array and the buffer grow more than once. Separators are all parts of a line of one or two characters, those that overlap
  themselves included. Vectors of 5 give heaps of three levels, whole and in a range
  that begins inside the vector; elements 0 and 1 compare equal. The values of INFO are the least and the greatest `long long`, the
  numbers one beyond them, -1, 0, 1, a text, and a text behind a number, each with `errno` clear or left set by an earlier call (`Elsewhere`).

Symmetry (node addresses, payloads, ids the generator may draw) is used only in runs that check safety, the
action properties and refinements without fairness included.

### Fairness

`Dehydrator` has none: nothing in the module happens unless a client asks for it, so it
promises nothing that must eventually happen. `PubSub` assumes the clock advances
(`WF(Tick)`), a running script takes its next step (`WF` of `Publish` and `Sleep`: sequential Python code),
and POLLs are not refused for ever (`SF(Polled)`: a loop that retries each second, with the
network as the environment; weak fairness would not do, since each refusal
disables the call). Nothing is assumed about restarting a dead script, and
`EventuallyPublished` is claimed for behaviours without deaths only. `Benchmark` assumes that the program
goes on between events, that the 250 ms timer fires, and that every client's write and read events
are handled in the end: aeMain looks at all ready events in each turn, a socket becomes writable, and the server
answers what it was sent. A server that stops answering hangs the benchmark, which has no
timeout of its own; `ConnectionLost` is possible and never required. `GidPush` assumes only that the command, sequential code, goes on; that random() gives enough different
ids is a condition on the constant `Values`. The utilities of rmutil promise
nothing that must eventually happen.

## 4. Divergences between the code and what is written about it

Each has a run that refutes the documented statement (see `findings` in `PROJECT.json`):

1. `aliased_ttls`: push_impl looks its queue up by the low 32 bits of the timeout (762), so timeouts
   equal modulo 2^32 share a queue that is not sorted, and POLL leaves expired elements
   behind ("all the expired elements", Commands.md:119).
2. `clock_set_back`: the clock is `CLOCK_REALTIME` (44); after it is set back a queue need not be
   "self-sorted by expiration" (Algorithm.md:36).
3. `wide_ttl`: TTN keeps the time left in an int (683).
4. `one_reply`: PUSH and GIDPUSH answer nothing when the timeout does not parse (758),
   and have already created the dehydrator; and on a key of another type, `validateDehydratorKey`
   answers WRONGTYPE (379) and the command answers again, so a client pairs later answers with the wrong
   requests. The run's counterexample is the first of the two; the second is the disjunct `Absent` of the commands.
5. `xack_none_expired`: XACK answers one Null for each id it does not release (1100), also when no element has expired, as its comment (1053)
   says; Commands.md:193 has an empty list then. `DelayQueue` follows the code.
6. `same_second`: GIDPUSH seeds the generator with the time in seconds at every call (820), so the calls of
   one second draw the same ids, and only those still in the same dehydrator are passed over: "the generated GUID"
   (Commands.md:69) is given again by another dehydrator, or after a PULL. It also makes the n-th GIDPUSH of a second
   draw n ids, where Commands.md:60 says O(1).

Smaller ones, visible in the definitions and without a run.

In the module: a timeout near 2^63 overflows the deadline
(`ToLong` in `NewNode`); ids that differ after a NUL byte are one id (`CStr` in `HasNode`);
the documents disagree about UPDATE, which keeps the deadline as README.md:86 says ("will inherit the current
expiration"), where Commands.md:296 says that it "will not be the same"; `DelayQueue` has the former.

In the benchmark: the timer may fire in the turn of the loop that frees the last client, and
`showThroughput` (617) then aborts a benchmark that is complete (the exception in `NoPrematureAbort`). `-r 0` and negative
`-r` lead to `random() % 0` (162). The usage says that the names for `-t` are the ones printed (590), but
PULL is printed as REDE.PUSH (832) and `ping_mbulk` as PING_BULK; it gives 2 bytes as the default size where 3 are set,
and `-dbnum` for what is read as `--dbnum`.

In rmutil: `sdssplitlen` answers an empty string with no tokens, not with the NULL of its
comment. `sdstrim` trims NUL bytes whatever the set is (689). `sdscatfmt` reads past a format that ends in
`%`. `sdsIncrLen(s, 0)` fails its assertion on the smallest header. `RMUtil_ArgExists` answers 0 for
"nothing" and for a match at offset 0, and a match there hides later ones.
`RMUtilInfo_GetInt` is to answer 1 when "the value was found and is an integer, 0 otherwise" (util.h:82-83). `InfoIsRead` says for which values it does
and names the others: a text is answered with 1 and the number it begins with, or 0 (`PassedOff`), and a zero or a limit with 0 when `errno` was set by an earlier call (`Mistrusted`).
A run that refuted the sentence of util.h alone would show no more than this property states. `Vector_Resize` below `top` leaves elements outside the array; the model
leaves that to the caller. `Vector_Put` beyond `top` makes what earlier pops left there visible again (`Stale`).

## 5. Proofs

| theorem | states | under |
|---|---|---|
| `DehydratorProofs!StructureInvariant` and its parts `TypeCorrect`, `MapsAlwaysAgree`, `NeverAnEmptyQueue` | `[]Structure`: `TypeOK`, `MapsAgree`, `NoEmptyQueue` | nothing |
| `DehydratorProofs!ElementsAreHandedOver` | `HandedOver`, an action property | nothing |
| `DehydratorProofs!QueuesStaySorted`, `PollMissesNothing` | `[]QueuesSorted`, `[]AllExpiredAreDue` | `DistinctQueues`, `DeadlinesFit`, `SteadyClock` |
| `DehydratorProofs!TtnIsExact` | `[]TtnExact` | the same and `TimesLeftFit` |
| `DehydratorProofs!DehydratorImplementsDelayQueue` | `ImplementsDelayQueue` | `ProperUse` |
| `FoundationsProofs!ListsStayLinked`, `NothingLeaks`, `ListsAreQueues` | `[]WellLinked`, `[]NoLeak`, `ImplementsQueues` | finitely many addresses |
| `FoundationsProofs!CountersStayExact`, `LookupsAlwaysFind`, `TablesAreMaps`, and the invariant behind them, `TablesAreSound` | `[]CountersExact`, `[]LookupsFind`, `ImplementsMap`, `[]Sound(h)` | at most 2^29 keys (`KeysFit`) |
| `FoundationsProofs!IdsAreOfTheAlphabet` | `[]IdsOfTheAlphabet` | every seed gives an acceptable value (`GeneratorAssumption`) |
| `PersistenceProofs!SnapshotsAreFaithful`, `RestartsKeepMapsAgreed` | `RestoredAsSaved`, an action property, and `[]MapsAgree` with crashes and restarts | nothing |
| `PersistenceProofs!RestartsKeepQueuesSorted` | `[]QueuesSorted` with crashes and restarts | `DistinctQueues`, `DeadlinesFit`, `SteadyClock` |
| `PubSubProofs!OnePublisherOnly`, `NoMessageLost` | `[]OnePublisher`, `[]NothingLost` | nothing |
| `BenchmarkProofs!ClientsAreCounted`, `AnswersAreTheirOwn`, `RequestsStayIntact`, `ReportsAreComplete`, `AbortsAreJustified` | `[]LiveClientsCounted`, `[]AnswersMatchCommands`, `[]RequestsIntact`, `[]ReportComplete`, `[]NoPrematureAbort` | memory for the clients (`CommandLineAssumption`) |
| `SdsProofs!StringsHoldTheirText` | `[]HoldsText` | nothing |
| `SdsProofs!PrintsItAll`, `SplitsJoinAgain`, `NumbersAreWrittenInDecimal`, `ReprsAreReadBack` | `[]PrintsAll`, `[]SplitJoins`, `[]NumbersReadBack`, `[]ReprReadsBack` | nothing |
| `UtilProofs!VectorHoldsItsList`, `HeapStaysInOrder` | `[]HoldsList`, `[]HeapInOrder` | nothing |
| `UtilProofs!HeapsKeepTheirElements` | `HeapKeepsElements`, an action property | nothing |
| `UtilProofs!QueueIsABag` | `QueueIsBag`, the refinement of `PriorityBag` | nothing |
| `UtilProofs!ParsesFollowTheFormat`, `InfoIsReadRight`, `PathsLeadOn` | `[]ParsesFormat`, `[]InfoIsRead`, `[]PathsCompose` | nothing |

"Nothing" means no more than the assumptions the model's modules state about their constants, such as those of
`Dehydrator`: generated ids are ids; timeouts are integers, apart from those that do not parse; widths and
clock are natural, and the width of the RDB's integers is a multiple of the width of a queue key (`WidthsNest`: 2^64 and 2^32); other types have other names. In `Sds`, characters are natural numbers and the headers are each wider than the one before; in
`SdsText`, characters are bytes, the least integer is -`Half` for a positive `Half`, the token array has a slot and the static buffer two
bytes; in `Containers`, the value of a cleared cell is an element and keys are integers; in `Args`, what bounds the inputs is natural, the table
has a capacity from the start, and the limit of a long long is positive. They hold of the code, and TLC evaluates them on every run.

`FoundationsProofs` and the proofs about the utilities are about the components' own specifications (`ListSpec`, `MapSpec`, `IdSpec`, `SdsSpec`,
`TxtSpec`, `ConSpec`, `ArgSpec`); the run checks the properties under `FoundationsSpec`, which begins and steps as one of these does.

### The structure of a dehydrator

`Structure` is the conjunction of `TypeOK`, `MapsAgree` and `NoEmptyQueue`, and is inductive.
`MapsAgree` is the heart. It is not implied by any of its parts alone: that a
removed node leaves both maps needs that the mapping leads from its id to this very
node (`NodesMapped`), that no other node has the id (`MappingLive`), that it is in the queue of
its own ttl and only there (`QueuesHoldNodes`, `LinkedOnce`), and that nothing else is in a
queue (`NodesQueued`). The commands reduce to five kinds of steps on the store: one adds a
node, one removes a set of nodes, one changes a payload, one keeps the store, one deletes
everything (`Adds`, `Removes`, `Updates`, `Keeps`, `Deletes`). `StoreSteps` proves
that every step is one of them, and one lemma per kind proves that it preserves
`Structure`. The lemmas about `Without` say what unlinking does to a
queue: which nodes stay, that their order stays, and that a queue of nodes each occurring once still has each
once. `LeastNatural` and `SetInduction` replace the induction theorems of the
library, which take an operator as a parameter.

### Delivery

`HandedOver` needs no hypothesis at all: aliased timeouts and a clock set back delay elements, and lose none. Only PULL,
POLL and XACK lower the number of nodes of a dehydrator that stays one, and for each a lemma compares the
nodes that are gone with the answer. PULL answers its one node. What POLL answers is the concatenation, in any order
of the buckets, of the due part of each queue: that every due node is in it exactly once (`ScanIsDue`) follows from
`LinkedOnce`, from queues sharing no node, and from `FlattenInjective`. XACK answers position by position: the first
position of an id answers its element, a repeated one answers null. `ArrayCounts` turns this correspondence of nodes and
positions into the count the property compares, because two nodes may hold the same payload.

### Times

The hypotheses are

* `DistinctQueues`: no two timeouts in use share a queue key,
* `DeadlinesFit`: no sum of clock and timeout overflows,
* `SteadyClock`: the clock does not go back,
* `TimesLeftFit`: the time to a deadline fits the int of TTN.

The code does not enforce any of them. The first, third and fourth cannot be dropped: `aliased_ttls`, `clock_set_back` and `wide_ttl`
are the counterexamples. The second fails beyond 2^63 ms only.

Sortedness is not inductive: a new node goes
to the tail, and that its deadline is the latest of the queue follows only from
`DeadlineBound`, that no node of a queue is due later than one pushed now with the same timeout
would be. `TtnExact` needs further that every deadline is a timeout after a moment that has been (`Dated`), so that
`TimesLeftFit` speaks of it. The three together, `Timed`, are inductive relative to `Structure`. TTN looks at the
heads of the queues only; the lemma `TimedTtnIsExact` shows that their minimum is that of all nodes.

### What clients see

`ProperUse` adds to the four hypotheses that no two ids are equal up to a NUL byte, that timeouts parse and that other types
stay off the key: what `DelayQueue` leaves out. The instance of `timing`
satisfies all of it. The refinement mapping takes the nodes to `pending` (id -> element, deadline).
`PendingAreNodes` says that under `MapsAgree` it is well defined both ways; `AdditionHolds`, `RemovalReleases` and `UpdateReplaces`
say what the steps on the store do to it; then there is one lemma for each command, which compares the answers too, and
`NextRefines` combines them. POLL is the hardest: `DelayQueue` returns the expired ids in any order,
the code in that of the buckets, and that these are the same ids needs `AllExpiredAreDue`, hence `Timed`.

### Linked lists

This part of `FoundationsProofs` shows that what `Dehydrator` takes for granted of its queues holds of the pointers. `ListHolds(list, mem, t, c)`
says that a list and a memory hold the sequence `c`. `WalkReads`: following `next` from the head then reads `c`.
`PushHolds`: listPush appends. `UnlinkHolds`: when a node has been unlinked and freed, the list holds the sequence without it;
`PopUnlinks` and `PullUnlinks` show that listPop does this to the first node and _listPull to any, in its four cases (only
node, head, tail, middle). `PollHolds` follows the loop of POLL round by round. The invariant `Chained`
says that every list holds its chain, that none is empty and that every node is on one. That a step
on one list leaves the others alone (`OthersHold`) rests on a node having the ttl of its list: the lists share no node (`ListsApart`). Each
action is then the abstract one (`PushStep`, `PollStep`, `PullStep`, `DeleteStep`). The hypothesis that there are finitely many
addresses is the machine's; `Walk` counts its steps by them.

### Hash maps

Nothing is assumed about the hashes; all keys may collide. The inductive invariant `Sound` says that the counters are the numbers of live and used
buckets and `n_occupied` is within the bound (`Counted`), that no key is in two buckets (`Distinct`), and that no empty bucket lies between where the
search for an entry begins and where the entry is (`Findable`). The steps of the argument:

* *Searches end.* The steps of a search grow by one each, so after s of them it is s(s+1)/2 buckets on. `Probing`: in a
  table of 2^k buckets the first 2^k such positions are all different (`ProbesDiffer`: the difference of two is
  (s-r)(s+r+1)/2, and one of the two factors is odd), so every bucket is among them. Since `n_occupied` is below
  the bound, 77 percent, a bucket is empty (`EmptyBucket`), and the search comes to it (`SearchEnds`).
* *Deletions and insertions.* A tombstone is not empty, so it cuts no search off (`DeletionSound`). kh_put takes the first tombstone on
  its way, or else the empty bucket at its end, and in both cases nothing empty lies before it (`FreeBucket`, `FillingSound`).
* *Rehashing in place.* `Moving` is the invariant of the two loops of kh_resize: the old live buckets not visited yet, the new ones filled so far,
  and the entry in hand together hold the entries of the table, each once, though they share one array; and what is in the new table can be found in it.
  `PlacedBucket` shows that one turn of the inner loop preserves it, whether or not it kicks out an entry. A chain of kicks ends because each takes one more entry from the old table
  (`PlaceMoves`, `MoveMoves`). kh_put asks for a new table in two cases, and in both it holds what there is (`RoomMade`), as long as there are sizes left: this is
  where `KeysFit` is used. The code counts buckets in 32 bits, and has no answer to the table that needs more.
* *Deletion inside a loop* is one deletion after another (`SweepSound`).

The refinement compares the entries with the function they stand for (`Keyed`); each step of the table is an insertion or a
deletion of some keys. That these are the keys the call was given, which a refinement of `HashMap` alone would not say, is the other half of
`ImplementsMap` (`KeepToTheirKeys` in the proofs): it says of every reachable table what each call would make of it (`InsertContents`, `DeleteContents`). The model's recursive functions are LET definitions inside its operators; the proofs name each of them again by its
step (`KickStep`, `PassStep`, `SweepStep`) and prove the equation from it.

### Generated ids

That random_at_most ends is an assumption on the generator, and the only one: after any seed some value is accepted. `DrawnInVain` is
then the number of values refused, and `IdIsGenerated` that a turn of the loop makes an id of `IdLength` places of the alphabet, by induction over
its characters (`MadeExists` gives the recursive function). `IdInv` adds to the property what the seed and the position of the generator may be.
That the numbers are drawn alike (`EveryNumberAlike`) is arithmetic: the values accepted for a number are an interval (`BinIsInterval`), as
long as a bin, whatever RAND_MAX and the alphabet are; without the rejection the last bin would be longer.

### Saving and loading

`RestoredAsSaved` compares what is loaded with what there was at the fork, possibly many commands before; its invariant,
`Persistent`, says that every save, on disk or on its way there, is a `Snapshot`: its stream is `Loadable` as the elements it stands for.

* *The stream.* The save writes queues of different lengths one behind the other, and the load finds its way by the lengths it has
  read. `Laid` says where each piece of a flattened sequence lies (`FlattenOffsets`; `EvenOffsets` for pieces of one length, the nodes).
  `StartsFound` shows that the loader's `QueueStart` comes to these places, and `StreamReads` that every key, length and node is read as it was
  written, whatever the order of the buckets.
* *The numbers.* Deadlines and keys may be negative when they are written as unsigned (`DeadlineSurvives`, `KeySurvives`).
  The first needs that a deadline is a long long, which is the invariant `LongDeadlines`; the second that 2^32 divides 2^64. `RemainderIs` does the arithmetic.
* *Loading.* `SavedLoadable` derives from `Structure` what the load relies on and never checks: no key and no id comes twice, no queue is empty.
  Then each of its kh_put calls enters something new (`PairsApply`), and what is built has `Structure` again (`BuiltStructure`) and holds these elements (`BuiltPending`).
* *Order.* `SavedTimely`, `StaysTimely` and `BuiltTimed` take `Timed` through the save, the time the server is down, and the load.
  Deadlines are absolute, so a snapshot that ages stays in order, and a push after the restart is due last in its queue.

### Consumers

`OnePublisher` is not inductive either: a POLL must not find a message that has been published or is in a batch.
`Placed` adds that (`Apart`), the types (`Kinds`: a batch has no message twice), and, as long as nothing has been lost, that
a message is in one place at a time (`Located`). Nothing is assumed about the numbers of consumers and messages, nor about which calls fail.

### The benchmark client

The five invariants hold for every command line, and so for every number of clients and requests, every pipeline, prefix and
choice of benchmarks. `CommandLineAssumption` says what a word of a command line is made of and that there is memory: addresses for the clients asked
for and one more, since `clientDone` makes the new client before it frees the old one. zmalloc ends the program when there is none.

None of the five is inductive. `IInv` consists of

* *what was read* (`Settled`): the options have their ranges, and the plan is made of commands that are not empty. This
  needs the parser (`ParsedType`), whose turns over the words are a recursive function;
* *each client by itself* (`EachClient`): `Intact` relates a buffer to the command its round sends: the prefix while it has one,
  then the words, with a pointer to every placeholder and to nothing else. The pointers are what makes `RequestsIntact` hard: they are made
  by the first client, shifted when a client is cloned from one that has dropped its prefix (`CloneIsNew`), and shifted when the prefix goes
  (`UnprefixedIsSound`). `Awaiting` relates what a client waits for to the handler it is in: to a client that writes, all its
  commands; to one that reads, one or more. There is a lemma for each thing the handlers do to a client;
* *the measurements* (`Measured`): the slots below `finished` are of this round, and the program stops when all are;
* *the replies on their way* (`Progress`): as long as no write has failed, the replies counted and those that are
  `Outstanding`, over all clients, are `pipeline` for each request issued. So when the requests are all issued and not all
  finished, some client waits; when they are not all issued, none has been refused. This is why the clients do not run out, and it is not a property
  of any one of them: `OutstandingSplit` and `OthersKept` count those of the client that steps apart from those of the others.

There is one lemma for each action; a step of a reader (`ReadKeeps`) has four outcomes: it goes on reading, is freed as the last,
is used again, or is replaced (`ReplacedClient`).

### Strings

`HoldsText` is not inductive: a call can only be right about the block if it finds the block right. `InBlock` says which
header goes with which block, how many characters the block has, and that the header can count them; `Sound(d, t)` that the
string is in such a block and `Holds` the text `t`, with the NUL behind it. `SdsInv` is `Sound(s, text)` and that no assertion has failed.

* *Room.* `RoomIsMade` (sdsMakeRoomFor): afterwards the string is in a block with the room that was asked for, under a header that counts it,
  whether the block grew in place, moved to a wider header, or had room (`Roomy`). `WriteStays` and `EndStays`
  say what writing within the block and setting the length with its terminator leave alone. The narrowest header counts no room of its own, so sdsavail is 0 there
  and every append to it goes through sdsMakeRoomFor.
* *Calls.* There is one lemma for each function (`CatSound`, `CpySound`, `GrowZeroSound`, `RangeSound`, `TrimSound`, `MapCharsSound`...): a sound
  string becomes a sound string with the text the call means. sdsrange is the one with the cases: indices from either end, out of bounds,
  and an end before the beginning. sdscatfmt leaves the string unterminated between its conversions, so its loop has an invariant of its own (`Carries`).
* *NUL bytes.* `StrlenStops` is about what a C function sees of a text (`UpToNul`); sdsupdatelen cuts the string there.

### Algorithms on texts

Here the specification only enumerates inputs, and the work is in the algorithms: for every text of bytes, of whatever length, and every number. Each is
a loop. Its model is a recursive function inside the operator, from the number of a turn to the state after it; `LoopExists` shows that
there is such a function for each of the loops (`Turned`), and an invariant by induction on the turns says what it has done.

* *printf.* The buffer doubles until its last character but one stays cleared. Since each turn doubles it, the output fits before there
  have been as many turns as it has characters (`DoubledFits`); and a buffer with that character cleared holds all there is up to a NUL (`FittedSays`).
* *Splitting and joining.* `Scanned`: what has been cut off, with a separator behind each piece, is the text up to where the current piece
  starts, and no separator begins within that piece (`Free`). `JoinedBehind` is what joining makes of such pieces. That the array never
  overflows is part of it: there are always two slots more than tokens when a piece is stored.
* *Numbers.* Division by ten ends, in fewer turns than the number (`Divided`); the value of the digits, read from the front, is the
  number (`DecimalWorth`), and the first is zero only when it is alone. The magnitude of the least number is right because it is taken modulo twice `Half`.
* *Quoting.* `EscapeWrites` goes through what sdscatrepr writes of a byte, and shows that one turn of sdssplitargs reads that byte from it, wherever it stands.
  `Quotes` says where each byte of a text stands in what is written of it, `Quoting` what the loop has read of it
  after a number of turns; so `TokenQuotes`: a quoted text with a blank or the end behind it is read as that text. `Joined`,
  `Parsing` and `LineQuotes` do the same one level up, for a line of arguments. Both loops are given one turn more than the text has characters, and each
  turn moves on or ends, so they are done by then.
  That the arguments read from any line are texts of bytes, so that all this applies to them, is `ArgumentsAreBytes`.

### Containers

`ConInv` says that the vector is one (`Vector`: the end within the capacity, every cell an element), that it `Stands` for the list, that
the heap's range lies among the elements (`Within`) and is `Ordered`, and that a queue is a heap throughout. `HoldsList` and
`HeapInOrder` follow from it.

* *A hole that moves.* sift_up and sift_down both carry an element along a path of cells, moving the others one place each, and put it down at the end.
  `MovedKeeps` proves once, for any path along which a rank falls (the index for one, the distance from the end for the other), that the
  cells of the range hold the same elements as often as before (`Count`), and that nothing else changes. `RiseSound` and `SinkSound` add the order:
  the path is the only place where it may be broken, and where the hole stops it is not.
* *Make_Heap* sifts from the last parent to the first, and after each turn the part from there on is in order (`OrderedFrom`, `MakeSound`).
* *Heap_Pop* swaps the first element with the last and sifts. That the greatest is left behind is `RootIsGreatest` (by induction along the parents) of the heap
  before, carried through the sifting by `NoneExceeds` and the counts (`PopSound`).
* *The vector.* Cells beyond the end may show what an earlier pop left; `Stale` stands for that in the list, so `Stands` says
  exactly what the code promises (`WithinStands`, `BeyondStands`).
* *The bag.* The queue's counts over its cells (`Bagged`) are the abstract state. A push adds one to the count of its element and the sifting changes none (`QueuePushInserts`); a pop
  takes away an element counted at least once that no other exceeds (`QueuePopRemoves`). Every other step leaves the bag as it is.

### Argument helpers

`ArgInv` says of each helper's result that it is right for the arguments it was called with, which stay as they were until the next call;
`ArgStepInv` has a lemma for each call.

* *Parsing.* The loop over the format fills the caller's variables in order, passing over what `*` stands for, so the place of a letter's value is the number
  of letters other than `*` up to it. That this number, which the property takes from a set, is what the loop counts is `PlacesCount`; `TakenParses` is the invariant of the loop, and
  `TokenFound` says where RMUtil_ParseArgsAfter begins.
* *INFO.* `AllTabled`: after each line the table has an entry for each line so far and a cell to spare (`LineEntered`). Lookup by key finds the first entry
  (`StringFound`), and `NumberRead` goes through what strtoll and errno can say of its value; nothing is assumed of the values but that each begins with an integer,
  0 included, of any size.
* *Paths.* `PathLeads` and `PathsJoin` are by induction along the path, and say of any reply what the property says of two.

### Only model-checked

* The statements refuted by the six runs of section 4.
* Liveness (`EventuallyPublished`, `BenchmarkEnds`, `GivesAnId`), which is out of the prover's reach.

## 6. Not modelled

* AOF and replication: the rewrite callback is an empty stub marked TODO and no command
  replicates itself; there is no code to model. A server restarting from a rewritten AOF
  has no dehydrators.
* Key handles and the ownership of strings: which paths close a key twice or not at
  all, and which strings are never freed.
* Failing allocations, in particular kh_put's return code, which push_impl ignores.
* The text of PRINT, `REDE.TEST`, the Python tests and the argument handling of the script.
* In the benchmark: times and their percentiles, the payload, what is printed, and the fields of the
  event loop and of hiredis.
* In rmutil: `sdscmp`, `RMUtilInfo_GetDouble` (GetInt with another conversion), `strings.c` and the
  allocator wrappers, which are single expressions, and the tests.

## 7. Plan

Done, in this order: `Replies`, `DelayQueue`, `Dehydrator` with its runs and proofs;
`ElementList` with `TimeoutQueues`; `PubSub`; `Persistence`; `KHash` with `HashMap`; `Benchmark`;
`Sds`, `SdsText`, `Containers` with `PriorityBag` and `Args`; `GidPush`; `Foundations` over these and the lists and tables.

A possible next module is `Connection`: a client that pairs answers with requests in order, over
`Dehydrator`'s reply sequences, and what double and missing answers do to it.

Of the safety properties the passing runs check, each has a theorem; what remains without one is liveness.
