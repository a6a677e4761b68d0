----------------------------- MODULE Benchmark -----------------------------
(***************************************************************************)
(* The benchmark client (src/src/redis-benchmark.c): clients on one event  *)
(* loop send copies of a command until `requests` replies have come, for   *)
(* each benchmark of the suite in turn.                                    *)
(*                                                                         *)
(* A word of the command line carries what the program reads from it: its  *)
(* text, the number atoi finds, and the names between commas.  The output  *)
(* buffer is a sequence of tokens, "rand" the placeholder __rand_int__ and *)
(* "key" the 12 digits that replace it; lengths and pointers count tokens. *)
(* Times, titles, the payload and what is printed are left out.  The event *)
(* loop and the connection (ae, hiredis) are known by how they are used.   *)
(***************************************************************************)
EXTENDS Integers, FiniteSets, SequencesExt

CONSTANTS
  Handle,               \* addresses for clients
  CommandLines,         \* what the program may be started with
  InitialPointers,      \* RANDPTR_INITIAL_SIZE, 8 in the code
  MaxPasses,            \* bounds the passes of `-l`
  MaxFailures           \* bounds the writes that fail

ASSUME BoundsAssumption ==
  InitialPointers \in Nat \ {0} /\ MaxPasses \in Nat /\ MaxFailures \in Nat

VARIABLES
  config,     \* the options
  plan,       \* the benchmarks of one pass, as the commands they send
  round,      \* rounds begun so far; a pass is Len(plan) of them
  phase,      \* where the program is, or how it ended
  issued, finished,   \* requests_issued, requests_finished
  latency,    \* the round whose measurement each slot holds, 0 for none
  client,     \* config.clients: the live handles and their state
  liveclients,
  stop,       \* aeStop has been called
  due,        \* clients whose event the last turn of the loop has still to handle
  failures    \* writes that failed

vars == <<config, plan, round, phase, issued, finished, latency, client,
          liveclients, stop, due, failures>>

Least(a, b) == IF a <= b THEN a ELSE b

----------------------------------------------------------------------------
(* The command line. *)

Word(text) == [text |-> text, dash |-> FALSE, num |-> 0, names |-> {text}]
Option(text) == [Word(text) EXCEPT !.dash = TRUE]
Number(n) == [text |-> "number", dash |-> n < 0, num |-> n, names |-> {}]
Names(set) == [text |-> "names", dash |-> FALSE, num |-> 0, names |-> set]

Defaults ==
  [numclients |-> 50, requests |-> 100000, keepalive |-> TRUE, pipeline |-> 1,
   auth |-> FALSE, dbnum |-> 0, randomkeys |-> FALSE, keyspacelen |-> 0,
   loop |-> FALSE, idlemode |-> FALSE, alltests |-> TRUE, tests |-> {}]

Flags == {"-q", "--csv", "-l", "-I", "-e"}
Valued == {"-c", "-n", "-k", "-h", "-p", "-s", "-a", "-d", "-P", "-r", "-t", "--dbnum"}

AtLeast(low, n) == IF n < low THEN low ELSE n

SetFlag(cfg, option) ==
  CASE option = "-l" -> [cfg EXCEPT !.loop = TRUE]
    [] option = "-I" -> [cfg EXCEPT !.idlemode = TRUE]
    [] OTHER -> cfg

SetValue(cfg, option, word) ==
  CASE option = "-c" -> [cfg EXCEPT !.numclients = word.num]
    [] option = "-n" -> [cfg EXCEPT !.requests = word.num]
    [] option = "-k" -> [cfg EXCEPT !.keepalive = word.num # 0]
    [] option = "-a" -> [cfg EXCEPT !.auth = TRUE]
    [] option = "-P" -> [cfg EXCEPT !.pipeline = AtLeast(1, word.num)]
    [] option = "-r" -> [cfg EXCEPT !.randomkeys = TRUE,
                                    !.keyspacelen = AtLeast(0, word.num)]
    [] option = "-t" -> [cfg EXCEPT !.alltests = FALSE, !.tests = word.names]
    [] option = "--dbnum" -> [cfg EXCEPT !.dbnum = word.num]
    [] OTHER -> cfg

(* A turn of the loop over the words: what it makes of the option it is    *)
(* at; it stops at a command, and at what is no option.                    *)
ReadOption(argv, p) ==
  LET option == argv[p.at].text
  IN  CASE ~p.ok \/ p.at > Len(argv) -> p
        [] p.ok /\ p.at <= Len(argv) /\ option \in Valued ->
             IF p.at = Len(argv) THEN [p EXCEPT !.ok = FALSE]
             ELSE [p EXCEPT !.at = @ + 2,
                            !.config = SetValue(@, option, argv[p.at + 1])]
        [] p.ok /\ p.at <= Len(argv) /\ option \in Flags ->
             [p EXCEPT !.at = @ + 1, !.config = SetFlag(@, option)]
        [] OTHER -> [p EXCEPT !.ok = ~argv[p.at].dash]

(* The configuration the words leave, and the words that are left as a     *)
(* command; or the usage is printed.                                       *)
parseOptions(argv) ==
  LET turn[n \in 0 .. Len(argv)] ==
        IF n = 0 THEN [ok |-> TRUE, at |-> 1, config |-> Defaults]
        ELSE ReadOption(argv, turn[n - 1])
      last == turn[Len(argv)]
  IN  [ok |-> last.ok, config |-> last.config,
       command |-> IF last.ok THEN SubSeq(argv, last.at, Len(argv)) ELSE <<>>]

(* Words carry numbers, and there is memory for the clients asked for and  *)
(* for one more while a client is replaced.                                *)
ASSUME CommandLineAssumption ==
  /\ \A argv \in CommandLines :
       argv \in Seq([text : STRING, dash : BOOLEAN, num : Int, names : SUBSET STRING])
  /\ IsFiniteSet(Handle) /\ Handle # {}
  /\ \A argv \in CommandLines :
       LET parsed == parseOptions(argv)
       IN  parsed.ok /\ parsed.config.requests >= 0 =>
             parsed.config.numclients < Cardinality(Handle)

(* The command of the remaining words. *)
Command(words) ==
  [i \in DOMAIN words |-> IF words[i].text = "__rand_int__" THEN "rand" ELSE "word"]

----------------------------------------------------------------------------
(* The suite: the names that select a benchmark, its title, its command.   *)

Test(names, title, cmd) == [names |-> names, title |-> title, cmd |-> cmd]

Plain == <<"word">>
Keyed == <<"word", "rand">>
KeyedValue == <<"word", "rand", "word">>
ListNames == {"lrange", "lrange_100", "lrange_300", "lrange_500", "lrange_600"}
RedePoll == {"rede.poll", "rede"}

RedisTests ==
  << Test({"ping_inline", "ping"}, "PING_INLINE", Plain),
     Test({"ping_mbulk", "ping"}, "PING_BULK", Plain),
     Test({"set"}, "SET", KeyedValue),
     Test({"get"}, "GET", Keyed),
     Test({"incr"}, "INCR", Keyed),
     Test({"lpush"}, "LPUSH", Plain),
     Test({"rpush"}, "RPUSH", Plain),
     Test({"lpop"}, "LPOP", Plain),
     Test({"rpop"}, "RPOP", Plain),
     Test({"sadd"}, "SADD", Keyed),
     Test({"spop"}, "SPOP", Plain),
     Test(ListNames, "LPUSH (needed to benchmark LRANGE)", Plain),
     Test({"lrange", "lrange_100"}, "LRANGE_100 (first 100 elements)", Plain),
     Test({"lrange", "lrange_300"}, "LRANGE_300 (first 300 elements)", Plain),
     Test({"lrange", "lrange_500"}, "LRANGE_500 (first 450 elements)", Plain),
     Test({"lrange", "lrange_600"}, "LRANGE_600 (first 600 elements)", Plain) >>

(* Ten keys and values. *)
MSet == [i \in 1 .. 21 |-> IF i % 2 = 0 THEN "rand" ELSE "word"]

RedeTests ==
  << Test({"rede.push", "rede"}, "REDE.PUSH", Keyed),
     Test({"rede.pull", "rede"}, "REDE.PUSH", Keyed),
     Test({"mset"}, "MSET (10 keys)", MSet),
     Test(RedePoll, "REDE.PUSH - 10000 second elements (needed for POLL)", Keyed),
     Test(RedePoll, "REDE.PUSH - 15 second elements (needed for POLL)", Keyed),
     Test(RedePoll, "REDE.PUSH - 10 second elements (needed for POLL)", Keyed),
     Test(RedePoll, "REDE.PUSH - 5 second elements (needed for POLL)", Keyed),
     Test(RedePoll, "REDE.POLL", Plain) >>

test_is_selected(cfg, names) == cfg.alltests \/ names \cap cfg.tests # {}

Selected(cfg) ==
  LET tests == RedisTests \o RedeTests
  IN  FlattenSeq([i \in DOMAIN tests |->
                    IF test_is_selected(cfg, tests[i].names) THEN <<tests[i].cmd>> ELSE <<>>])

----------------------------------------------------------------------------
(* Clients. *)

Prefix(cfg) ==
  (IF cfg.auth THEN <<"auth">> ELSE <<>>) \o (IF cfg.dbnum # 0 THEN <<"select">> ELSE <<>>)

Copies(n, cmd) == [i \in 1 .. n * Len(cmd) |-> cmd[((i - 1) % Len(cmd)) + 1]]

(* Where the placeholders are, in order, and how large the array grows that *)
(* takes their addresses.                                                  *)
Placeholders(obuf) ==
  FlattenSeq([i \in DOMAIN obuf |-> IF obuf[i] = "rand" THEN <<i>> ELSE <<>>])

Room(n) ==
  LET room[used \in 0 .. n] ==
        CASE used = 0 -> InitialPointers
          [] used > 0 /\ room[used - 1] = used - 1 -> 2 * (used - 1)
          [] OTHER -> room[used - 1]
  IN  room[n]

(* Mutant: only the answers of the pipeline are waited for. *)
NewClient_NoPrefix(cfg, obuf, randptr, room) ==
  [obuf |-> obuf, randptr |-> randptr, room |-> room, written |-> 0,
   pending |-> cfg.pipeline, prefix_pending |-> Len(Prefix(cfg)),
   prefixlen |-> Len(Prefix(cfg)), latency |-> "none", owed |-> 0,
   handler |-> IF cfg.idlemode THEN "none" ELSE "write"]

(* owed: the commands the server has been sent and has not answered. *)
NewClient(cfg, obuf, randptr, room) ==
  [obuf |-> obuf, randptr |-> randptr, room |-> room, written |-> 0,
   pending |-> cfg.pipeline + Len(Prefix(cfg)), prefix_pending |-> Len(Prefix(cfg)),
   prefixlen |-> Len(Prefix(cfg)), latency |-> "none", owed |-> 0,
   handler |-> IF cfg.idlemode THEN "none" ELSE "write"]

(* createClient(cmd, len, NULL). *)
FirstClient(cfg, cmd) ==
  LET obuf == Prefix(cfg) \o Copies(cfg.pipeline, cmd)
      found == Placeholders(obuf)
  IN  IF cfg.randomkeys THEN NewClient(cfg, obuf, found, Room(Len(found)))
      ELSE NewClient(cfg, obuf, <<>>, 0)

(* Mutant: the pointers are copied without regard to the prefixes. *)
Clone_NoShift(cfg, from) ==
  LET obuf == Prefix(cfg) \o SubSeq(from.obuf, from.prefixlen + 1, Len(from.obuf))
  IN  NewClient(cfg, obuf, from.randptr, Len(from.randptr))

(* createClient(NULL, 0, from): `from` may have dropped its prefix. *)
Clone(cfg, from) ==
  LET obuf == Prefix(cfg) \o SubSeq(from.obuf, from.prefixlen + 1, Len(from.obuf))
      shift == Len(Prefix(cfg)) - from.prefixlen
  IN  NewClient(cfg, obuf, [j \in DOMAIN from.randptr |-> from.randptr[j] + shift],
                Len(from.randptr))

(* The n addresses the next clients get. *)
Fresh(n, used) ==
  CHOOSE new \in SUBSET (Handle \ used) : Cardinality(new) = n

(* createMissingClients: clones of `from` up to numclients. *)
Missing(live) == AtLeast(0, config.numclients - live)

WithMissing(clients, live, from) ==
  LET new == Fresh(Missing(live), DOMAIN clients)
  IN  [h \in DOMAIN clients \cup new |->
         IF h \in new THEN Clone(config, from) ELSE clients[h]]

Without(clients, h) == [g \in DOMAIN clients \ {h} |-> clients[g]]

----------------------------------------------------------------------------
(* The program. *)

Init ==
  /\ config = Defaults
  /\ plan = <<>>
  /\ round = 0
  /\ phase = "start"
  /\ issued = 0
  /\ finished = 0
  /\ latency = <<>>
  /\ client = <<>>
  /\ liveclients = 0
  /\ stop = FALSE
  /\ due = {}
  /\ failures = 0

(* createClient and createMissingClients for the command of a round; in    *)
(* idle mode the clients never get a handler.                              *)
CreateClients(cfg, cmd) ==
  LET first == CHOOSE h \in Handle : TRUE
      c == FirstClient(cfg, cmd)
      all == {first} \cup Fresh(AtLeast(0, cfg.numclients - 1), {first})
  IN  /\ client' = [h \in all |-> IF h = first THEN c ELSE Clone(cfg, c)]
      /\ liveclients' = Cardinality(all)

(* main up to the benchmarks. *)
ReadCommandLine ==
  /\ phase = "start"
  /\ \E argv \in CommandLines :
       LET parsed == parseOptions(argv)
       IN  /\ config' = parsed.config
           /\ latency' = [slot \in 0 .. config'.requests - 1 |-> 0]
           /\ plan' = IF parsed.command # <<>> THEN <<Command(parsed.command)>>
                      ELSE Selected(config')
           /\ phase' = CASE ~parsed.ok -> "usage"
                         [] parsed.ok /\ config'.requests < 0 -> "no memory"
                         [] OTHER -> IF config'.idlemode THEN "idle" ELSE "between"
           /\ IF phase' = "idle" THEN CreateClients(config', <<>>)
              ELSE UNCHANGED <<client, liveclients>>
  /\ UNCHANGED <<round, issued, finished, stop, due, failures>>

MoreRounds ==
  IF config.loop THEN round < MaxPasses * Len(plan) ELSE round < Len(plan)

(* Mutant: the requests finished are not counted anew. *)
StartBenchmark_KeepFinished ==
  /\ phase = "between"
  /\ MoreRounds
  /\ issued' = 0
  /\ round' = round + 1
  /\ CreateClients(config, plan[(round % Len(plan)) + 1])
  /\ phase' = "loop"
  /\ stop' = FALSE
  /\ due' = {}
  /\ UNCHANGED <<config, plan, finished, latency, failures>>

(* benchmark() up to aeMain. *)
StartBenchmark ==
  /\ phase = "between"
  /\ MoreRounds
  /\ issued' = 0
  /\ finished' = 0
  /\ round' = round + 1
  /\ CreateClients(config, plan[(round % Len(plan)) + 1])
  /\ phase' = "loop"
  /\ stop' = FALSE
  /\ due' = {}
  /\ UNCHANGED <<config, plan, latency, failures>>

(* benchmark() after aeMain: the report, and freeAllClients. *)
Report ==
  /\ phase = "report"
  /\ client' = <<>>
  /\ liveclients' = liveclients - Cardinality(DOMAIN client)
  /\ phase' = "between"
  /\ UNCHANGED <<config, plan, round, issued, finished, latency, stop, due, failures>>

MainReturns ==
  /\ phase = "between"
  /\ ~config.loop /\ round = Len(plan)
  /\ phase' = "done"
  /\ UNCHANGED <<config, plan, round, issued, finished, latency, client,
                 liveclients, stop, due, failures>>

----------------------------------------------------------------------------
(* The event loop.  A turn handles the events that are due, then the timer; *)
(* aeMain looks at the stop flag between turns.                            *)

MayHandle(h, handler) ==
  /\ phase = "loop"
  /\ h \in DOMAIN client
  /\ client[h].handler = handler
  /\ stop => h \in due

Handled(h) ==
  /\ due' = due \ {h}
  /\ UNCHANGED stop

aeStop(h) ==
  /\ stop' = TRUE
  /\ IF stop THEN due' = due \ {h} ELSE due' \in SUBSET (DOMAIN client \ {h})

freeClient(h) ==
  /\ client' = Without(client, h)
  /\ liveclients' = liveclients - 1

Die(how) ==
  /\ phase' = how
  /\ UNCHANGED <<config, plan, round, issued, finished, latency, client,
                 liveclients, stop, due, failures>>

aeMainReturns ==
  /\ phase = "loop" /\ stop
  /\ phase' = "report"
  /\ UNCHANGED <<config, plan, round, issued, finished, latency, client,
                 liveclients, stop, due, failures>>

(* showThroughput, every 250 ms. *)
showThroughput ==
  /\ phase = "loop"
  /\ liveclients = 0
  /\ Die("aborted")

(* A fresh request: its keys are drawn, its latency is measured. *)
Randomized(c) ==
  [c EXCEPT !.obuf = [i \in DOMAIN @ |-> IF \E j \in DOMAIN c.randptr : c.randptr[j] = i
                                         THEN "key" ELSE @[i]]]

(* random() % 0 *)
DividesByZero(c) ==
  config.randomkeys /\ config.keyspacelen = 0 /\ c.randptr # <<>>

Begun(c) == [Randomized(c) EXCEPT !.latency = "running"]

(* n tokens more are written; after the last the answers are waited for. *)
Written(c, n) ==
  IF c.written + n < Len(c.obuf) THEN [c EXCEPT !.written = @ + n]
  ELSE [c EXCEPT !.written = @ + n, !.handler = "read",
                 !.owed = config.pipeline + c.prefixlen]

(* Mutant: the bound on the requests is looked at after every part. *)
Exhausted_AnyWrite(c) == issued >= config.requests

(* No request is left for a client that is about to begin one. *)
Exhausted(c) == c.written = 0 /\ issued >= config.requests

writeHandler(h) ==
  /\ MayHandle(h, "write")
  /\ LET c == client[h]
         now == IF c.written = 0 THEN Begun(c) ELSE c
     IN  /\ issued' = issued + (IF c.written = 0 THEN 1 ELSE 0)
         /\ IF Exhausted(c) THEN freeClient(h) /\ UNCHANGED <<phase, failures>>
            ELSE IF c.written = 0 /\ DividesByZero(c)
            THEN /\ phase' = "killed by SIGFPE"
                 /\ UNCHANGED <<client, liveclients, failures>>
            ELSE \/ /\ failures < MaxFailures
                    /\ failures' = failures + 1
                    /\ freeClient(h)
                    /\ UNCHANGED phase
                 \/ /\ \E n \in 1 .. Len(now.obuf) - now.written :
                          client' = [client EXCEPT ![h] = Written(now, n)]
                    /\ UNCHANGED <<phase, liveclients, failures>>
  /\ Handled(h)
  /\ UNCHANGED <<config, plan, round, finished, latency>>

(* Mutant: the prefix goes from the buffer and the pointers stay. *)
Unprefixed_NoShift(c) ==
  [c EXCEPT !.obuf = SubSeq(@, c.prefixlen + 1, Len(@)), !.prefixlen = 0]

(* The first answer to a prefix command drops all of them from the buffer. *)
Unprefixed(c) ==
  [c EXCEPT !.obuf = SubSeq(@, c.prefixlen + 1, Len(@)),
            !.randptr = [j \in DOMAIN @ |-> @[j] - c.prefixlen],
            !.prefixlen = 0]

(* c after k answers, the first of them to its prefix commands. *)
PrefixAnswers(c, k) == Least(k, c.prefix_pending)

Answered(c, k) ==
  LET p == PrefixAnswers(c, k)
  IN  [(IF p > 0 THEN Unprefixed(c) ELSE c)
         EXCEPT !.pending = @ - k, !.prefix_pending = @ - p, !.owed = @ - k,
                !.latency = IF @ = "running" THEN "taken" ELSE @]

Count(n) == Least(finished + n, config.requests)

(* Mutant: the client waits for the answers to its prefix again. *)
resetClient_WithPrefix(c) ==
  [c EXCEPT !.handler = "write", !.written = 0,
            !.pending = config.pipeline + Len(Prefix(config))]

resetClient(c) ==
  [c EXCEPT !.handler = "write", !.written = 0, !.pending = config.pipeline]

(* Mutant: the new clients are counted and the old one not yet taken off. *)
clientDone_NoMakeup(h, c, count) ==
  IF count = config.requests THEN freeClient(h) /\ aeStop(h)
  ELSE /\ Handled(h)
       /\ IF config.keepalive
          THEN /\ client' = [client EXCEPT ![h] = resetClient(c)]
               /\ UNCHANGED liveclients
          ELSE /\ client' = Without(WithMissing(client, liveclients - 1, c), h)
               /\ liveclients' = liveclients - 1 + Missing(liveclients - 1) - 1

(* The batch of h is answered; count requests are finished. *)
clientDone(h, c, count) ==
  IF count = config.requests THEN freeClient(h) /\ aeStop(h)
  ELSE /\ Handled(h)
       /\ IF config.keepalive
          THEN /\ client' = [client EXCEPT ![h] = resetClient(c)]
               /\ UNCHANGED liveclients
          ELSE /\ client' = Without(WithMissing(client, liveclients - 1, c), h)
               /\ liveclients' = liveclients - 1 + Missing(liveclients - 1) + 1 - 1

(* k more answers have come. *)
readHandler(h, k) ==
  /\ MayHandle(h, "read")
  /\ k <= client[h].pending /\ k <= client[h].owed
  /\ LET c == Answered(client[h], k)
         n == k - PrefixAnswers(client[h], k)
     IN  /\ finished' = Count(n)
         /\ latency' = [slot \in DOMAIN latency |->
                          IF slot \notin finished .. finished' - 1 THEN latency[slot]
                          ELSE IF c.latency = "taken" THEN round ELSE 0]
         /\ IF n > 0 /\ c.pending = 0 THEN clientDone(h, c, finished')
            ELSE /\ client' = [client EXCEPT ![h] = c]
                 /\ Handled(h)
                 /\ UNCHANGED liveclients
  /\ UNCHANGED <<config, plan, round, phase, issued, failures>>

(* The connection breaks while answers are awaited, or cannot be made. *)
ConnectionLost ==
  /\ \/ phase = "loop" /\ \E h \in DOMAIN client : MayHandle(h, "read")
     \/ phase = "between" /\ MoreRounds
  /\ Die("error")

----------------------------------------------------------------------------
Batch == config.pipeline + Len(Prefix(config))

Read(h) == \E k \in 1 .. Batch : readHandler(h, k)

Next ==
  \/ ReadCommandLine
  \/ StartBenchmark
  \/ Report
  \/ MainReturns
  \/ aeMainReturns
  \/ showThroughput
  \/ ConnectionLost
  \/ \E h \in Handle : writeHandler(h) \/ Read(h) \/ readHandler(h, 0)

(* The sockets become writable, the server answers, the timer fires, and   *)
(* the loop gets to every event.                                           *)
Fairness ==
  /\ WF_vars(StartBenchmark \/ Report \/ MainReturns \/ aeMainReturns)
  /\ WF_vars(showThroughput)
  /\ \A h \in Handle : WF_vars(writeHandler(h)) /\ WF_vars(Read(h))

Spec == Init /\ [][Next]_vars /\ Fairness

----------------------------------------------------------------------------
(* Properties. *)

ClientType ==
  [obuf : Seq({"auth", "select", "word", "rand", "key"}), randptr : Seq(Nat),
   room : Nat, written : Nat, pending : Nat, prefix_pending : Nat,
   prefixlen : Nat, latency : {"none", "running", "taken"},
   handler : {"none", "write", "read"}, owed : Nat]

(* The values of the variables; the counts stay inside the latency array,  *)
(* the pointers inside their array and what is written inside the buffer.  *)
TypeOK ==
  /\ phase \in {"start", "between", "loop", "report", "idle", "usage", "no memory",
                "aborted", "error", "killed by SIGFPE", "done"}
  /\ issued \in Nat /\ liveclients \in Nat
  /\ finished \in 0 .. AtLeast(0, config.requests)
  /\ due \subseteq Handle
  /\ DOMAIN client \subseteq Handle
  /\ \A h \in DOMAIN client :
       LET c == client[h]
       IN  /\ c \in ClientType
           /\ Len(c.randptr) <= c.room
           /\ phase # "idle" /\ c.handler # "read" => c.written < Len(c.obuf)

(* The request buffer of a client (redis-benchmark.c:236-248, 341-402) is  *)
(* its prefix, until that is answered, and `pipeline` copies of the round's *)
(* command in which exactly the placeholders are replaced once a request   *)
(* has begun, however the buffer and its pointers were cloned, shifted and *)
(* reused.                                                                 *)
RequestsIntact ==
  phase = "loop" =>
    \A h \in DOMAIN client :
      LET c == client[h]
          sent == Copies(config.pipeline, plan[((round - 1) % Len(plan)) + 1])
          body == SubSeq(c.obuf, c.prefixlen + 1, Len(c.obuf))
          begun == config.randomkeys /\ c.written > 0
      IN  /\ SubSeq(c.obuf, 1, c.prefixlen) =
               (IF c.prefixlen = 0 THEN <<>> ELSE Prefix(config))
          /\ Len(body) = Len(sent)
          /\ \A i \in DOMAIN body :
               \/ body[i] = sent[i] /\ ~(begun /\ sent[i] = "rand")
               \/ config.randomkeys /\ sent[i] = "rand" /\ body[i] = "key"

(* A client that has yet to write waits for as many answers as its buffer  *)
(* holds commands: none too few, so no answer is taken for that of a later *)
(* request, and none too many, so it does not wait for ever.               *)
AnswersMatchCommands ==
  phase = "loop" =>
    \A h \in DOMAIN client :
      client[h].handler = "write" =>
        /\ client[h].pending = config.pipeline + client[h].prefixlen
        /\ client[h].prefix_pending = client[h].prefixlen

(* liveclients, which decides whether to give up and how many clients are  *)
(* missing, is the number of clients in the list, and never more than were *)
(* asked for.                                                              *)
LiveClientsCounted ==
  /\ liveclients = Cardinality(DOMAIN client)
  /\ liveclients <= AtLeast(1, config.numclients)

(* A report is made of `requests` latencies, each measured in its own      *)
(* round: no slot is skipped, left over from the round before or never set, *)
(* and no count or pointer leaves its array on the way.                    *)
ReportComplete ==
  /\ TypeOK
  /\ phase = "report" =>
       /\ finished = config.requests
       /\ \A slot \in DOMAIN latency : latency[slot] = round

(* Without a failing write the clients do not run out before the requests  *)
(* are finished: the bound on the requests issued counts batches, frees the *)
(* clients beyond it and leaves those that are still awaited (-c 0 -k 0 is *)
(* the exception).  A benchmark that has finished its requests gives up    *)
(* only if the timer fires in the turn of the loop that frees its last     *)
(* client, with -n 0 aside, where there is nothing to finish.              *)
NoPrematureAbort ==
  phase = "aborted" =>
    /\ failures = 0 =>
         \/ finished = config.requests
         \/ config.numclients < 1 /\ ~config.keepalive
    /\ finished = config.requests /\ config.requests > 0 => stop

Ended == {"done", "usage", "no memory", "aborted", "error", "killed by SIGFPE"}

(* Every benchmark that is begun comes to its report or ends the program:  *)
(* it does not hang, whatever fails and however the requests are divided.  *)
BenchmarkEnds == phase = "loop" ~> phase \in {"report"} \cup Ended
=============================================================================
