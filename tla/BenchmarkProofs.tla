---------------------------- MODULE BenchmarkProofs ------------------------
(***************************************************************************)
(* The benchmark client, for any command lines and any number of clients.  *)
(* First what the command line, the suite, the buffers and the allocation  *)
(* compute; then one client, whose buffer every handler leaves sound; then *)
(* the replies that are on their way, counted over all clients; then the   *)
(* inductive invariant IInv, one lemma per action, and what follows.       *)
(***************************************************************************)
EXTENDS Benchmark, BasicLemmas

----------------------------------------------------------------------------
(* The command line. *)

WordType == [text : STRING, dash : BOOLEAN, num : Int, names : SUBSET STRING]

ConfigType ==
  [numclients : Int, requests : Int, keepalive : BOOLEAN, pipeline : Nat \ {0},
   auth : BOOLEAN, dbnum : Int, randomkeys : BOOLEAN, keyspacelen : Nat,
   loop : BOOLEAN, idlemode : BOOLEAN, alltests : BOOLEAN, tests : SUBSET STRING]

CommandType == {cmd \in Seq({"word", "rand"}) : cmd # <<>>}

(* An option leaves a configuration.                                       *)
LEMMA SettersType ==
  ASSUME NEW cfg \in ConfigType, NEW option, NEW word \in WordType
  PROVE  SetFlag(cfg, option) \in ConfigType /\ SetValue(cfg, option, word) \in ConfigType
<1>1. /\ AtLeast(1, word.num) \in Nat \ {0} /\ AtLeast(0, word.num) \in Nat
      /\ word.num \in Int /\ word.names \in SUBSET STRING /\ (word.num # 0) \in BOOLEAN
  BY DEF AtLeast, WordType
<1>2. SetFlag(cfg, option) \in ConfigType
  BY DEF SetFlag, ConfigType
<1> DEFINE low == AtLeast(1, word.num)
           lowest == AtLeast(0, word.num)
           kept == word.num # 0
<1>3. low \in Nat \ {0} /\ lowest \in Nat /\ kept \in BOOLEAN
  BY <1>1
<1> HIDE DEF low, lowest, kept
<1>4. SetValue(cfg, option, word) =
        CASE option = "-c" -> [cfg EXCEPT !.numclients = word.num]
          [] option = "-n" -> [cfg EXCEPT !.requests = word.num]
          [] option = "-k" -> [cfg EXCEPT !.keepalive = kept]
          [] option = "-a" -> [cfg EXCEPT !.auth = TRUE]
          [] option = "-P" -> [cfg EXCEPT !.pipeline = low]
          [] option = "-r" -> [cfg EXCEPT !.randomkeys = TRUE, !.keyspacelen = lowest]
          [] option = "-t" -> [cfg EXCEPT !.alltests = FALSE, !.tests = word.names]
          [] option = "--dbnum" -> [cfg EXCEPT !.dbnum = word.num]
          [] OTHER -> cfg
  BY DEF SetValue, low, lowest, kept
<1>5. SetValue(cfg, option, word) \in ConfigType
  <2>1. /\ [cfg EXCEPT !.numclients = word.num] \in ConfigType
        /\ [cfg EXCEPT !.requests = word.num] \in ConfigType
        /\ [cfg EXCEPT !.keepalive = kept] \in ConfigType
        /\ [cfg EXCEPT !.auth = TRUE] \in ConfigType
    BY <1>1, <1>3 DEF ConfigType
  <2>2. /\ [cfg EXCEPT !.pipeline = low] \in ConfigType
        /\ [cfg EXCEPT !.randomkeys = TRUE, !.keyspacelen = lowest] \in ConfigType
        /\ [cfg EXCEPT !.alltests = FALSE, !.tests = word.names] \in ConfigType
        /\ [cfg EXCEPT !.dbnum = word.num] \in ConfigType
    BY <1>1, <1>3 DEF ConfigType
  <2>3. QED
    BY <1>4, <2>1, <2>2
<1>6. QED
  BY <1>2, <1>5

(* Where the parser is after a turn. *)
ParserAt(argv, p) ==
  /\ p \in [ok : BOOLEAN, at : Nat, config : ConfigType]
  /\ p.at \in 1 .. Len(argv) + 1

(* A turn of the parser leaves a configuration and a position.             *)
LEMMA ReadOptionType ==
  ASSUME NEW argv \in Seq(WordType), NEW p, ParserAt(argv, p)
  PROVE  ParserAt(argv, ReadOption(argv, p))
<1> DEFINE n == Len(argv)
           option == argv[p.at].text
           flagged == SetFlag(p.config, option)
           valued == SetValue(p.config, option, argv[p.at + 1])
<1>1. n \in Nat /\ p \in [ok : BOOLEAN, at : Nat, config : ConfigType] /\ p.at \in 1 .. n + 1
  BY DEF ParserAt
<1>2. CASE ~p.ok \/ p.at > n
  <2>1. ReadOption(argv, p) = p
    <3>1. (~p.ok \/ p.at > n) /\ ~(p.ok /\ p.at <= n)
      BY <1>1, <1>2
    <3>2. QED
      BY <3>1, Zenon DEF ReadOption
  <2>2. QED
    BY <2>1
<1>3. CASE p.ok /\ p.at <= n
  <2>1. p.at \in 1 .. n /\ argv[p.at] \in WordType
    BY <1>1, <1>3
  <2>2. flagged \in ConfigType
    BY <1>1, <2>1, SettersType
  <2>3. p.at # n => argv[p.at + 1] \in WordType
    BY <1>1, <2>1
  <2>4. p.at # n => valued \in ConfigType
    BY <1>1, <2>1, <2>3, SettersType
  <2> DEFINE plain == ~argv[p.at].dash
  <2>5. plain \in BOOLEAN
    OBVIOUS
  <2>6. \/ ReadOption(argv, p) = [p EXCEPT !.ok = FALSE]
        \/ p.at # n /\ ReadOption(argv, p) = [p EXCEPT !.at = p.at + 2, !.config = valued]
        \/ ReadOption(argv, p) = [p EXCEPT !.at = p.at + 1, !.config = flagged]
        \/ ReadOption(argv, p) = [p EXCEPT !.ok = plain]
    <3>1. ReadOption(argv, p) =
            CASE option \in Valued ->
                   IF p.at = n THEN [p EXCEPT !.ok = FALSE]
                   ELSE [p EXCEPT !.at = p.at + 2, !.config = valued]
              [] option \in Flags -> [p EXCEPT !.at = p.at + 1, !.config = flagged]
              [] OTHER -> [p EXCEPT !.ok = ~argv[p.at].dash]
      BY <1>1, <1>3 DEF ReadOption
    <3> HIDE DEF option, flagged, valued, n
    <3>2. QED
      BY <3>1 
  <2> DEFINE q == ReadOption(argv, p)
  <2> HIDE DEF flagged, valued, plain, q, n
  <2>7. q \in [ok : BOOLEAN, at : Nat, config : ConfigType] /\ q.at \in 1 .. n + 1
    <3>1. CASE q = [p EXCEPT !.ok = FALSE]
      BY <1>1, <3>1
    <3>2. CASE p.at # n /\ q = [p EXCEPT !.at = p.at + 2, !.config = valued]
      <4>1. p.at + 2 \in Nat /\ p.at + 2 \in 1 .. n + 1
        BY <1>1, <1>3, <3>2
      <4>2. q.at = p.at + 2 /\ q \in [ok : BOOLEAN, at : Nat, config : ConfigType]
        BY <1>1, <2>4, <3>2, <4>1
      <4>3. QED
        BY <4>1, <4>2
    <3>3. CASE q = [p EXCEPT !.at = p.at + 1, !.config = flagged]
      <4>1. p.at + 1 \in Nat /\ p.at + 1 \in 1 .. n + 1
        BY <1>1, <1>3
      <4>2. q.at = p.at + 1 /\ q \in [ok : BOOLEAN, at : Nat, config : ConfigType]
        BY <1>1, <2>2, <3>3, <4>1
      <4>3. QED
        BY <4>1, <4>2
    <3>4. CASE q = [p EXCEPT !.ok = plain]
      BY <1>1, <2>5, <3>4
    <3>5. QED
      BY <2>6, <3>1, <3>2, <3>3, <3>4 DEF q
  <2>8. QED
    BY <2>7 DEF ParserAt, q, n
<1>4. QED
  BY <1>1, <1>2, <1>3

ParserStart == [ok |-> TRUE, at |-> 1, config |-> Defaults]

Turns(argv, f) ==
  f = [n \in 0 .. Len(argv) |->
         IF n = 0 THEN [ok |-> TRUE, at |-> 1, config |-> Defaults]
         ELSE ReadOption(argv, f[n - 1])]

TurnsOf(argv) == CHOOSE f : Turns(argv, f)

(* The turns of the parser over the words,                                 *)
LEMMA TurnsExist ==
  ASSUME NEW argv \in Seq(WordType)
  PROVE  /\ Turns(argv, TurnsOf(argv))
         /\ \A n \in 0 .. Len(argv) : ParserAt(argv, TurnsOf(argv)[n])
<1> DEFINE N == Len(argv)
           D == {p \in [ok : BOOLEAN, at : Nat, config : ConfigType] : ParserAt(argv, p)}
           step == [k \in 1 .. N |-> [p \in D |-> ReadOption(argv, p)]]
<1>1. N \in Nat
  OBVIOUS
<1>2. ParserStart \in D
  <2>1. Defaults \in ConfigType
    BY DEF Defaults, ConfigType
  <2>2. /\ ParserStart \in [ok : BOOLEAN, at : Nat, config : ConfigType]
        /\ ParserStart.at = 1
    BY <2>1, Zenon DEF ParserStart
  <2>3. ParserAt(argv, ParserStart)
    BY <1>1, <2>2 DEF ParserAt
  <2>4. QED
    BY <2>2, <2>3, Zenon
<1>3. \A p \in D : ReadOption(argv, p) \in D
  <2>1. ASSUME NEW p \in D
        PROVE  ReadOption(argv, p) \in D
    <3>1. ParserAt(argv, ReadOption(argv, p))
      BY ReadOptionType
    <3>2. QED
      BY <3>1 DEF ParserAt
  <2>2. QED
    BY <2>1
<1>4. \A p \in D : ParserAt(argv, p)
  OBVIOUS
<1> HIDE DEF D, N
<1>5. step \in [1 .. N -> [D -> D]]
  BY <1>3
<1>6. \A k \in 1 .. N : \A p \in D : step[k][p] = ReadOption(argv, p)
  OBVIOUS
<1> HIDE DEF step
<1>7. PICK f : Follows(D, N, ParserStart, step, f)
  BY <1>1, <1>2, <1>5, RecursionExists
<1>8. \A k \in 1 .. N : f[k] = ReadOption(argv, f[k - 1])
  <2>1. \A k \in 1 .. N : k - 1 \in 0 .. N
    BY <1>1
  <2>2. QED
    BY <1>6, <1>7, <2>1 DEF Follows
<1>9. Turns(argv, f)
  <2> DEFINE g == [n \in 0 .. N |-> IF n = 0 THEN ParserStart ELSE ReadOption(argv, f[n - 1])]
  <2>1. \A n \in 0 .. N : f[n] = g[n]
    BY <1>1, <1>7, <1>8 DEF Follows
  <2>2. f = g
    BY <1>7, <2>1 DEF Follows
  <2>3. QED
    BY <2>2 DEF Turns, N, ParserStart
<1>10. Turns(argv, TurnsOf(argv))
  BY <1>9, Zenon DEF TurnsOf
<1> DEFINE t == TurnsOf(argv)
<1>11. t[0] = ParserStart /\ \A n \in 1 .. N : t[n] = ReadOption(argv, t[n - 1])
  <2>1. t = [n \in 0 .. N |-> IF n = 0 THEN ParserStart ELSE ReadOption(argv, t[n - 1])]
    BY <1>10, Zenon DEF Turns, N, ParserStart
  <2> HIDE DEF t
  <2> DEFINE g == [n \in 0 .. N |-> IF n = 0 THEN ParserStart ELSE ReadOption(argv, t[n - 1])]
  <2>2. \A n \in 0 .. N : g[n] = IF n = 0 THEN ParserStart ELSE ReadOption(argv, t[n - 1])
    OBVIOUS
  <2> HIDE DEF g
  <2>3. t = g
    BY <2>1 DEF g
  <2>4. QED
    BY <1>1, <2>2, <2>3
<1> HIDE DEF t
<1> DEFINE S == {n \in Nat : n <= N => t[n] \in D}
<1>12. 0 \in S
  BY <1>2, <1>11
<1>13. ASSUME NEW n \in Nat, n \in S
       PROVE  n + 1 \in S
  <2>1. SUFFICES ASSUME n + 1 <= N
                 PROVE  t[n + 1] \in D
    OBVIOUS
  <2>2. n + 1 \in 1 .. N /\ (n + 1) - 1 = n /\ t[n] \in D
    BY <1>1, <1>13, <2>1
  <2>3. QED
    BY <1>3, <1>11, <2>2
<1>14. Nat \subseteq S
  <2> HIDE DEF S
  <2>1. QED
    BY <1>12, <1>13, SetInduction
<1>15. \A n \in 0 .. N : ParserAt(argv, t[n])
  BY <1>1, <1>4, <1>14
<1>16. QED
  BY <1>10, <1>15 DEF t, N

(* leave a configuration and the command.                                  *)
LEMMA ParsedType ==
  ASSUME NEW argv \in Seq(WordType)
  PROVE  /\ parseOptions(argv).ok \in BOOLEAN
         /\ parseOptions(argv).config \in ConfigType
         /\ parseOptions(argv).command \in Seq(WordType)
<1> DEFINE t == TurnsOf(argv)
           n == Len(argv)
           last == t[n]
           command == IF last.ok THEN SubSeq(argv, last.at, n) ELSE <<>>
<1>1. n \in Nat /\ n \in 0 .. n
  OBVIOUS
<1>2. last \in [ok : BOOLEAN, at : Nat, config : ConfigType] /\ last.at \in 1 .. n + 1
  <2>1. ParserAt(argv, last)
    BY <1>1, TurnsExist
  <2>2. QED
    BY <2>1 DEF ParserAt
<1>3. parseOptions(argv) = [ok |-> last.ok, config |-> last.config, command |-> command]
  BY Zenon DEF parseOptions, TurnsOf, Turns
<1> HIDE DEF last
<1>4. SubSeq(argv, last.at, n) \in Seq(WordType)
  BY <1>2
<1>5. command \in Seq(WordType)
  BY <1>4
<1> HIDE DEF command
<1>6. QED
  BY <1>2, <1>3, <1>5

----------------------------------------------------------------------------
(* The commands and the buffers. *)

(* The words of a command line make a command.                             *)
LEMMA CommandOfWords ==
  ASSUME NEW words \in Seq(WordType), words # <<>>
  PROVE  Command(words) \in CommandType
<1>1. DOMAIN words = 1 .. Len(words) /\ Len(words) \in Nat /\ Len(words) # 0
  OBVIOUS
<1>2. Command(words) \in Seq({"word", "rand"}) /\ Len(Command(words)) = Len(words)
  BY <1>1 DEF Command
<1>3. QED
  BY <1>1, <1>2 DEF CommandType

(* and so does each benchmark of the suite.                                *)
LEMMA SuiteCommands ==
  /\ DOMAIN RedisTests = 1 .. 16 /\ \A i \in 1 .. 16 : RedisTests[i].cmd \in CommandType
  /\ DOMAIN RedeTests = 1 .. 8 /\ \A i \in 1 .. 8 : RedeTests[i].cmd \in CommandType
<1>1. Plain \in CommandType /\ Keyed \in CommandType /\ KeyedValue \in CommandType
  BY DEF Plain, Keyed, KeyedValue, CommandType
<1>2. MSet \in CommandType
  <2> DEFINE m == [i \in 1 .. 21 |-> IF i % 2 = 0 THEN "rand" ELSE "word"]
  <2>1. m \in Seq({"word", "rand"})
    OBVIOUS
  <2>2. m # <<>>
    OBVIOUS
  <2> HIDE DEF m
  <2>3. m \in CommandType
    BY <2>1, <2>2, Zenon DEF CommandType
  <2>4. QED
    BY <2>3 DEF MSet, m
<1>3. \A i \in 1 .. 16 : RedisTests[i].cmd \in {Plain, Keyed, KeyedValue}
  <2>1. /\ RedisTests[1].cmd = Plain /\ RedisTests[2].cmd = Plain
        /\ RedisTests[3].cmd = KeyedValue /\ RedisTests[4].cmd = Keyed
        /\ RedisTests[5].cmd = Keyed /\ RedisTests[6].cmd = Plain
        /\ RedisTests[7].cmd = Plain /\ RedisTests[8].cmd = Plain
        /\ RedisTests[9].cmd = Plain /\ RedisTests[10].cmd = Keyed
        /\ RedisTests[11].cmd = Plain /\ RedisTests[12].cmd = Plain
        /\ RedisTests[13].cmd = Plain /\ RedisTests[14].cmd = Plain
        /\ RedisTests[15].cmd = Plain /\ RedisTests[16].cmd = Plain
    BY DEF RedisTests, Test
  <2>2. \A i \in 1 .. 16 : \/ i = 1 \/ i = 2 \/ i = 3 \/ i = 4 \/ i = 5 \/ i = 6 \/ i = 7 \/ i = 8
                         \/ i = 9 \/ i = 10 \/ i = 11 \/ i = 12 \/ i = 13 \/ i = 14 \/ i = 15 \/ i = 16
    OBVIOUS
  <2>3. QED
    BY <2>1, <2>2
<1>4. \A i \in 1 .. 8 : RedeTests[i].cmd \in {Plain, Keyed, MSet}
  <2>1. /\ RedeTests[1].cmd = Keyed /\ RedeTests[2].cmd = Keyed
        /\ RedeTests[3].cmd = MSet /\ RedeTests[4].cmd = Keyed
        /\ RedeTests[5].cmd = Keyed /\ RedeTests[6].cmd = Keyed
        /\ RedeTests[7].cmd = Keyed /\ RedeTests[8].cmd = Plain
    BY DEF RedeTests, Test
  <2>2. \A i \in 1 .. 8 : \/ i = 1 \/ i = 2 \/ i = 3 \/ i = 4
                         \/ i = 5 \/ i = 6 \/ i = 7 \/ i = 8
    OBVIOUS
  <2>3. QED
    BY <2>1, <2>2
<1>5. DOMAIN RedisTests = 1 .. 16 /\ DOMAIN RedeTests = 1 .. 8
  BY DEF RedisTests, RedeTests
<1>6. QED
  BY <1>1, <1>2, <1>3, <1>4, <1>5

(* The commands of the suite that are selected.                            *)
LEMMA SelectedType ==
  ASSUME NEW cfg
  PROVE  Selected(cfg) \in Seq(CommandType)
<1> DEFINE X == {RedisTests[i] : i \in 1 .. 16} \cup {RedeTests[i] : i \in 1 .. 8}
           tests == RedisTests \o RedeTests
           seqs == [i \in DOMAIN tests |->
                      IF test_is_selected(cfg, tests[i].names) THEN <<tests[i].cmd>> ELSE <<>>]
<1>1. tests \in Seq(X)
  <2>1. RedisTests \in Seq(X)
    <3>1. RedisTests = [i \in 1 .. 16 |-> RedisTests[i]]
      BY DEF RedisTests
    <3>2. QED
      BY <3>1
  <2>2. RedeTests \in Seq(X)
    <3>1. RedeTests = [i \in 1 .. 8 |-> RedeTests[i]]
      BY DEF RedeTests
    <3>2. QED
      BY <3>1
  <2>3. QED
    BY <2>1, <2>2
<1>2. \A t \in X : t.cmd \in CommandType
  BY SuiteCommands
<1> HIDE DEF tests, X
<1>3. \A i \in DOMAIN tests : tests[i].cmd \in CommandType
  BY <1>1, <1>2
<1>4. seqs \in Seq(Seq(CommandType))
  <2>1. \A i \in DOMAIN tests : seqs[i] \in Seq(CommandType)
    BY <1>3
  <2>2. DOMAIN tests = 1 .. Len(tests) /\ Len(tests) \in Nat
    BY <1>1
  <2>3. seqs = [i \in DOMAIN tests |-> seqs[i]]
    OBVIOUS
  <2> HIDE DEF seqs
  <2>4. QED
    BY <2>1, <2>2, <2>3
<1>5. FlattenSeq(seqs) \in Seq(CommandType)
  <2> HIDE DEF seqs
  <2>1. QED
    BY <1>4, FlattenOffsets
<1>6. QED
  BY <1>5 DEF Selected, tests

(* The prefix is one token for AUTH and one for SELECT.                    *)
LEMMA PrefixType ==
  ASSUME NEW cfg \in ConfigType
  PROVE  Prefix(cfg) \in Seq({"auth", "select"}) /\ Len(Prefix(cfg)) \in Nat
<1> DEFINE T == {"auth", "select"}
           a == IF cfg.auth THEN <<"auth">> ELSE <<>>
           b == IF cfg.dbnum # 0 THEN <<"select">> ELSE <<>>
<1>1. a \in Seq(T) /\ b \in Seq(T)
  <2>1. <<>> \in Seq(T)
    OBVIOUS
  <2>2. <<"auth">> \in Seq(T)
    OBVIOUS
  <2>3. <<"select">> \in Seq(T)
    OBVIOUS
  <2>4. QED
    BY <2>1, <2>2, <2>3, Zenon
<1> HIDE DEF a, b
<1>2. a \o b \in Seq(T) /\ Len(a \o b) \in Nat
  BY <1>1
<1>3. QED
  BY <1>2 DEF Prefix, a, b

(* The copies of a command are made of its words.                          *)
LEMMA CopiesType ==
  ASSUME NEW n \in Nat \ {0}, NEW cmd \in Seq({"word", "rand"})
  PROVE  /\ Copies(n, cmd) \in Seq({"word", "rand"})
         /\ cmd # <<>> => Len(Copies(n, cmd)) > 0
         /\ cmd = <<>> => Copies(n, cmd) = <<>>
<1> DEFINE L == Len(cmd)
           N == n * L
<1>1. L \in Nat /\ N \in Nat /\ (L > 0 => N > 0) /\ (L = 0 => N = 0) /\ (cmd = <<>> <=> L = 0)
  OBVIOUS
<1>2. \A i \in 1 .. N : cmd[((i - 1) % L) + 1] \in {"word", "rand"}
  <2>1. SUFFICES ASSUME NEW i \in 1 .. N
                 PROVE  ((i - 1) % L) + 1 \in 1 .. L
    OBVIOUS
  <2>2. L > 0 /\ i - 1 \in Int
    BY <1>1
  <2> HIDE DEF L, N
  <2>3. (i - 1) % L \in 0 .. L - 1
    BY <1>1, <2>2
  <2>4. QED
    BY <1>1, <2>3
<1>3. Copies(n, cmd) = [i \in 1 .. N |-> cmd[((i - 1) % L) + 1]]
  BY DEF Copies
<1> HIDE DEF L, N
<1>4. Copies(n, cmd) \in Seq({"word", "rand"}) /\ Len(Copies(n, cmd)) = N
  BY <1>1, <1>2, <1>3
<1>5. QED
  BY <1>1, <1>4

Token == {"auth", "select", "word", "rand", "key"}

(* The placeholders are found, and nothing else.                           *)
LEMMA PlaceholdersFound ==
  ASSUME NEW obuf \in Seq(Token)
  PROVE  /\ Placeholders(obuf) \in Seq(DOMAIN obuf)
         /\ \A j \in DOMAIN Placeholders(obuf) : obuf[Placeholders(obuf)[j]] = "rand"
         /\ \A i \in DOMAIN obuf :
              obuf[i] = "rand" =>
                \E j \in DOMAIN Placeholders(obuf) : Placeholders(obuf)[j] = i
<1> DEFINE X == DOMAIN obuf
           seqs == [i \in X |-> IF obuf[i] = "rand" THEN <<i>> ELSE <<>>]
           found == FlattenSeq(seqs)
<1>1. X = 1 .. Len(obuf) /\ Len(obuf) \in Nat
  OBVIOUS
<1>2. /\ seqs \in Seq(Seq(X)) /\ DOMAIN seqs = X
      /\ \A i \in X : seqs[i] = IF obuf[i] = "rand" THEN <<i>> ELSE <<>>
  <2>1. ASSUME NEW i \in X
        PROVE  seqs[i] \in Seq(X)
    <3>1. <<i>> \in Seq(X) /\ <<>> \in Seq(X)
      OBVIOUS
    <3>2. seqs[i] = <<i>> \/ seqs[i] = <<>>
      OBVIOUS
    <3> HIDE DEF seqs
    <3>3. QED
      BY <3>1, <3>2
  <2>2. seqs = [i \in X |-> seqs[i]] /\ DOMAIN seqs = X
    OBVIOUS
  <2>3. \A i \in X : seqs[i] = IF obuf[i] = "rand" THEN <<i>> ELSE <<>>
    OBVIOUS
  <2> HIDE DEF seqs
  <2>4. QED
    BY <1>1, <2>1, <2>2, <2>3
<1>3. \A i \in X : IsInjective(seqs[i]) /\ \A x : x \in Range(seqs[i]) <=> x = i /\ obuf[i] = "rand"
  <2> HIDE DEF seqs
  <2>1. ASSUME NEW i \in X
        PROVE  IsInjective(seqs[i]) /\ \A x : x \in Range(seqs[i]) <=> x = i /\ obuf[i] = "rand"
    <3>1. CASE obuf[i] = "rand"
      <4>1. seqs[i] = <<i>>
        BY <1>2, <3>1
      <4>2. QED
        BY <3>1, <4>1 DEF IsInjective, Range
    <3>2. CASE obuf[i] # "rand"
      <4>1. seqs[i] = <<>>
        BY <1>2, <3>2
      <4>2. QED
        BY <3>2, <4>1 DEF IsInjective, Range
    <3>3. QED
      BY <3>1, <3>2
  <2>2. QED
    BY <2>1
<1> HIDE DEF seqs, X
<1>4. \A i, j \in X : i # j => Range(seqs[i]) \cap Range(seqs[j]) = {}
  BY <1>3
<1>5. found \in Seq(X) /\ Range(found) = UNION {Range(seqs[i]) : i \in X}
  BY <1>2, <1>3, <1>4, FlattenInjective
<1>6. Placeholders(obuf) = found
  BY DEF Placeholders, seqs, X
<1> HIDE DEF found
<1>7. \A x : x \in Range(found) <=> x \in X /\ obuf[x] = "rand"
  <2>1. ASSUME NEW x \in Range(found)
        PROVE  x \in X /\ obuf[x] = "rand"
    <3>1. PICK i \in X : x \in Range(seqs[i])
      BY <1>5
    <3>2. QED
      BY <1>3, <3>1
  <2>2. ASSUME NEW x \in X, obuf[x] = "rand"
        PROVE  x \in Range(found)
    <3>1. x \in Range(seqs[x])
      BY <1>3, <2>2
    <3>2. QED
      BY <1>5, <3>1
  <2>3. QED
    BY <2>1, <2>2
<1>8. \A x : x \in Range(found) <=> \E j \in DOMAIN found : found[j] = x
  BY DEF Range
<1>9. QED
  BY <1>5, <1>6, <1>7, <1>8 DEF X

----------------------------------------------------------------------------
(* Numbers and sets. *)

RoomStep(n, f) ==
  f = [used \in 0 .. n |->
         CASE used = 0 -> InitialPointers
           [] used > 0 /\ f[used - 1] = used - 1 -> 2 * (used - 1)
           [] OTHER -> f[used - 1]]

RoomAfter(n) == CHOOSE f : RoomStep(n, f)

(* The array of the pointers has room for them.                            *)
LEMMA RoomSuffices ==
  ASSUME NEW n \in Nat
  PROVE  Room(n) \in Nat /\ n <= Room(n)
<1> DEFINE step == [k \in 1 .. n |-> [x \in Nat |-> IF x = k - 1 THEN 2 * (k - 1) ELSE x]]
<1>1. InitialPointers \in Nat /\ InitialPointers > 0
  BY BoundsAssumption
<1>2. step \in [1 .. n -> [Nat -> Nat]]
  OBVIOUS
<1>3. \A k \in 1 .. n : \A x \in Nat : step[k][x] = IF x = k - 1 THEN 2 * (k - 1) ELSE x
  OBVIOUS
<1> HIDE DEF step
<1>4. PICK f : Follows(Nat, n, InitialPointers, step, f)
  BY <1>1, <1>2, RecursionExists
<1> DEFINE Val(g, used) == CASE used = 0 -> InitialPointers
                             [] used > 0 /\ g[used - 1] = used - 1 -> 2 * (used - 1)
                             [] OTHER -> g[used - 1]
<1>5. \A g : \A k \in 0 .. n :
        Val(g, k) = IF k = 0 THEN InitialPointers
                    ELSE IF g[k - 1] = k - 1 THEN 2 * (k - 1) ELSE g[k - 1]
  OBVIOUS
<1>6. \A k \in 0 .. n : f[k] = Val(f, k)
  <2>1. \A k \in 1 .. n : k - 1 \in 0 .. n
    OBVIOUS
  <2> HIDE DEF Val
  <2>2. ASSUME NEW k \in 1 .. n
        PROVE  f[k] = Val(f, k)
    <3>1. f[k - 1] \in Nat /\ f[k] = step[k][f[k - 1]]
      BY <1>4, <2>1 DEF Follows
    <3>2. f[k] = IF f[k - 1] = k - 1 THEN 2 * (k - 1) ELSE f[k - 1]
      BY <1>3, <3>1
    <3>3. k \in 0 .. n /\ k # 0
      OBVIOUS
    <3>4. QED
      BY <1>5, <3>2, <3>3
  <2>3. f[0] = Val(f, 0)
    <3>1. f[0] = InitialPointers
      BY <1>4 DEF Follows
    <3>2. QED
      BY <1>5, <3>1
  <2>4. QED
    BY <2>2, <2>3
<1>7. RoomStep(n, f)
  <2> DEFINE g == [k \in 0 .. n |-> Val(f, k)]
  <2> HIDE DEF Val
  <2>1. f = g
    BY <1>4, <1>6 DEF Follows
  <2>2. QED
    BY <2>1, Zenon DEF RoomStep, Val
<1>8. RoomStep(n, RoomAfter(n))
  BY <1>7, Zenon DEF RoomAfter
<1> DEFINE r == RoomAfter(n)
<1>9. \A k \in 0 .. n : r[k] = IF k = 0 THEN InitialPointers
                               ELSE IF r[k - 1] = k - 1 THEN 2 * (k - 1) ELSE r[k - 1]
  <2>1. r = [k \in 0 .. n |-> Val(r, k)]
    BY <1>8, Zenon DEF RoomStep
  <2> HIDE DEF Val, r
  <2>2. \A k \in 0 .. n : r[k] = Val(r, k)
    <3> DEFINE g == [k \in 0 .. n |-> Val(r, k)]
    <3>1. \A k \in 0 .. n : g[k] = Val(r, k)
      OBVIOUS
    <3> HIDE DEF g
    <3>2. r = g
      BY <2>1 DEF g
    <3>3. QED
      BY <3>1, <3>2
  <2>3. QED
    BY <1>5, <2>2
<1> HIDE DEF r
<1> DEFINE S == {k \in Nat : k <= n => r[k] \in Nat /\ r[k] > 0 /\ k <= r[k]}
<1>10. 0 \in S
  BY <1>1, <1>9
<1>11. ASSUME NEW k \in Nat, k \in S
       PROVE  k + 1 \in S
  <2>1. SUFFICES ASSUME k + 1 <= n
                 PROVE  r[k + 1] \in Nat /\ r[k + 1] > 0 /\ k + 1 <= r[k + 1]
    OBVIOUS
  <2>2. r[k] \in Nat /\ r[k] > 0 /\ k <= r[k]
    BY <1>11, <2>1
  <2>3. r[k + 1] = IF r[k] = k THEN 2 * k ELSE r[k]
    <3>1. k + 1 \in 0 .. n /\ k + 1 # 0 /\ (k + 1) - 1 = k
      BY <2>1
    <3>2. QED
      BY <1>9, <3>1
  <2>4. QED
    BY <2>2, <2>3
<1>12. Nat \subseteq S
  <2> HIDE DEF S
  <2>1. QED
    BY <1>10, <1>11, SetInduction
<1>13. Room(n) = r[n]
  BY Zenon DEF Room, r, RoomAfter, RoomStep
<1>14. QED
  BY <1>12, <1>13

(* A finite set has subsets of every size up to its own.                   *)
LEMMA SubsetOfSize ==
  ASSUME NEW S, IsFiniteSet(S), NEW n \in Nat, n <= Cardinality(S)
  PROVE  \E T \in SUBSET S : Cardinality(T) = n
<1> DEFINE N == {m \in Nat : m <= Cardinality(S) => \E T \in SUBSET S : Cardinality(T) = m}
<1>1. Cardinality(S) \in Nat
  BY FS_CardinalityType
<1>2. 0 \in N
  <2>1. {} \in SUBSET S /\ Cardinality({}) = 0
    BY FS_EmptySet
  <2>2. QED
    BY <2>1
<1>3. ASSUME NEW m \in Nat, m \in N
      PROVE  m + 1 \in N
  <2>1. SUFFICES ASSUME m + 1 <= Cardinality(S)
                 PROVE  \E T \in SUBSET S : Cardinality(T) = m + 1
    OBVIOUS
  <2>2. PICK T \in SUBSET S : Cardinality(T) = m
    BY <1>1, <1>3, <2>1
  <2>3. IsFiniteSet(T)
    BY FS_Subset
  <2>4. T # S
    BY <1>1, <2>1, <2>2
  <2>5. PICK x \in S : x \notin T
    BY <2>4
  <2>6. Cardinality(T \cup {x}) = m + 1
    BY <2>2, <2>3, <2>5, FS_AddElement
  <2>7. T \cup {x} \in SUBSET S
    OBVIOUS
  <2>8. QED
    BY <2>6, <2>7
<1>4. Nat \subseteq N
  <2> HIDE DEF N
  <2>1. QED
    BY <1>2, <1>3, SetInduction
<1>5. QED
  BY <1>4

(* The new addresses are as many as wanted and none is in use.             *)
LEMMA FreshIsNew ==
  ASSUME NEW used \in SUBSET Handle, NEW n \in Nat,
         n + Cardinality(used) <= Cardinality(Handle)
  PROVE  /\ Fresh(n, used) \in SUBSET Handle /\ Fresh(n, used) \cap used = {}
         /\ IsFiniteSet(Fresh(n, used)) /\ Cardinality(Fresh(n, used)) = n
         /\ IsFiniteSet(used \cup Fresh(n, used))
         /\ Cardinality(used \cup Fresh(n, used)) = Cardinality(used) + n
<1> DEFINE new == Fresh(n, used)
<1>1. IsFiniteSet(Handle) /\ IsFiniteSet(used) /\ Cardinality(Handle) \in Nat /\ Cardinality(used) \in Nat
  BY CommandLineAssumption, FS_Subset, FS_CardinalityType
<1>2. IsFiniteSet(Handle \ used) /\ Cardinality(Handle \ used) = Cardinality(Handle) - Cardinality(used)
  <2>1. Handle \cap used = used
    OBVIOUS
  <2>2. QED
    BY <1>1, <2>1, FS_Difference
<1>3. n <= Cardinality(Handle \ used)
  BY <1>1, <1>2
<1>4. \E T \in SUBSET (Handle \ used) : Cardinality(T) = n
  BY <1>2, <1>3, SubsetOfSize
<1>5. new \in SUBSET (Handle \ used) /\ Cardinality(new) = n
  BY <1>4, Zenon DEF Fresh
<1> HIDE DEF new
<1>6. IsFiniteSet(new)
  BY <1>2, <1>5, FS_Subset
<1>7. used \cap new = {}
  BY <1>5
<1>8. /\ IsFiniteSet(used \cup new)
      /\ Cardinality(used \cup new) = Cardinality(used) + Cardinality(new) - Cardinality(used \cap new)
  BY <1>1, <1>6, FS_Union
<1>9. Cardinality(used \cap new) = 0
  BY <1>7, FS_EmptySet
<1>10. QED
  BY <1>1, <1>5, <1>6, <1>8, <1>9 DEF new

----------------------------------------------------------------------------
(* One client. *)

Marks(sent) == {i \in DOMAIN sent : sent[i] = "rand"}

(* c's buffer is its prefix, if it still has it, and the commands of sent; *)
(* its pointers lead to the placeholders, which are keys once a request has *)
(* begun.                                                                  *)
Intact(cfg, sent, c) ==
  /\ c.prefixlen \in {0, Len(Prefix(cfg))}
  /\ Len(c.obuf) = c.prefixlen + Len(sent)
  /\ \A i \in 1 .. c.prefixlen : c.obuf[i] = Prefix(cfg)[i]
  /\ \A i \in DOMAIN sent :
       \/ c.obuf[c.prefixlen + i] = sent[i]
       \/ cfg.randomkeys /\ i \in Marks(sent) /\ c.obuf[c.prefixlen + i] = "key"
  /\ cfg.randomkeys /\ c.written > 0 =>
       \A i \in Marks(sent) : c.obuf[c.prefixlen + i] = "key"
  /\ \A j \in DOMAIN c.randptr : c.randptr[j] - c.prefixlen \in Marks(sent)
  /\ cfg.randomkeys =>
       \A i \in Marks(sent) : \E j \in DOMAIN c.randptr : c.randptr[j] = c.prefixlen + i
  /\ ~cfg.randomkeys => c.randptr = <<>>

(* What c waits for. *)
Awaiting(cfg, c) ==
  \/ /\ c.handler = "write"
     /\ c.pending = cfg.pipeline + c.prefixlen
     /\ c.prefix_pending = c.prefixlen
     /\ c.written > 0 => c.latency = "running"
     /\ c.written < Len(c.obuf)
  \/ /\ c.handler = "read"
     /\ c.written > 0
     /\ c.latency \in {"running", "taken"}
     /\ c.owed = c.pending
     /\ c.prefix_pending < c.pending /\ c.pending <= c.prefix_pending + cfg.pipeline
     /\ c.prefix_pending = 0 => c.prefixlen = 0

ClientFits(c) == c \in ClientType /\ Len(c.randptr) <= c.room

Sound(cfg, sent, c) == ClientFits(c) /\ Intact(cfg, sent, c)

(* A client that createClient has made. *)
New(cfg, sent, c) ==
  /\ Sound(cfg, sent, c)
  /\ c.written = 0 /\ c.prefixlen = Len(Prefix(cfg))
  /\ c.pending = cfg.pipeline + c.prefixlen /\ c.prefix_pending = c.prefixlen
  /\ c.handler = IF cfg.idlemode THEN "none" ELSE "write"

(* The part of a buffer behind its prefix. *)
Body(cfg, sent, body) ==
  /\ body \in Seq(Token) /\ Len(body) = Len(sent)
  /\ \A i \in DOMAIN sent :
       \/ body[i] = sent[i]
       \/ cfg.randomkeys /\ i \in Marks(sent) /\ body[i] = "key"

(* The pointers of a buffer with n tokens of prefix. *)
Pointers(cfg, sent, n, randptr) ==
  /\ randptr \in Seq(Nat)
  /\ \A j \in DOMAIN randptr : randptr[j] - n \in Marks(sent)
  /\ cfg.randomkeys =>
       \A i \in Marks(sent) : \E j \in DOMAIN randptr : randptr[j] = n + i
  /\ ~cfg.randomkeys => randptr = <<>>

(* A buffer of prefix and body, with pointers that fit it, make a client   *)
(* that has asked for nothing yet.                                         *)
LEMMA NewClientIsNew ==
  ASSUME NEW cfg \in ConfigType, NEW sent \in Seq({"word", "rand"}),
         NEW body, Body(cfg, sent, body), NEW obuf, obuf = Prefix(cfg) \o body,
         NEW randptr, Pointers(cfg, sent, Len(Prefix(cfg)), randptr),
         NEW room \in Nat, Len(randptr) <= room
  PROVE  New(cfg, sent, NewClient(cfg, obuf, randptr, room))
<1> DEFINE P == Prefix(cfg)
           n == Len(P)
           c == NewClient(cfg, obuf, randptr, room)
<1>1. P \in Seq(Token) /\ n \in Nat
  <2>1. P \in Seq({"auth", "select"}) /\ n \in Nat
    BY PrefixType
  <2>2. QED
    BY <2>1 DEF Token
<1>2. body \in Seq(Token) /\ Len(body) = Len(sent) /\ DOMAIN sent = 1 .. Len(sent) /\ Len(sent) \in Nat
  BY DEF Body
<1>3. /\ obuf \in Seq(Token) /\ Len(obuf) = n + Len(sent)
      /\ \A i \in 1 .. n : obuf[i] = P[i]
      /\ \A i \in 1 .. Len(sent) : obuf[n + i] = body[i]
  <2> HIDE DEF P
  <2>1. obuf = P \o body
    BY DEF P
  <2>2. /\ obuf \in Seq(Token) /\ Len(obuf) = Len(P) + Len(body)
        /\ \A i \in 1 .. Len(P) : obuf[i] = P[i]
        /\ \A i \in 1 .. Len(body) : obuf[Len(P) + i] = body[i]
    <3>1. P \in Seq(Token) /\ body \in Seq(Token)
      BY <1>1, <1>2
    <3> DEFINE u == obuf
               v == body
    <3>2. u = P \o v /\ P \in Seq(Token) /\ v \in Seq(Token)
      BY <2>1, <3>1
    <3> HIDE DEF u, v
    <3>3. /\ u \in Seq(Token) /\ Len(u) = Len(P) + Len(v)
          /\ \A i \in 1 .. Len(P) : u[i] = P[i]
          /\ \A i \in 1 .. Len(v) : u[Len(P) + i] = v[i]
      BY <3>2, ConcatPositions
    <3>4. QED
      BY <3>3 DEF u, v
  <2>3. QED
    BY <1>2, <2>2
<1>4. cfg.pipeline \in Nat
  BY DEF ConfigType
<1> DEFINE handler == IF cfg.idlemode THEN "none" ELSE "write"
           pending == cfg.pipeline + n
<1>5. handler \in {"none", "write", "read"} /\ pending \in Nat
  BY <1>1, <1>4
<1>6. c = [obuf |-> obuf, randptr |-> randptr, room |-> room, written |-> 0,
           pending |-> pending, prefix_pending |-> n,
           prefixlen |-> n, latency |-> "none", owed |-> 0, handler |-> handler]
  BY Zenon DEF NewClient
<1>7. randptr \in Seq(Nat)
  BY DEF Pointers
<1> HIDE DEF handler, pending, c, n
<1>8. ClientFits(c)
  BY <1>1, <1>3, <1>5, <1>6, <1>7 DEF ClientFits, ClientType, Token
<1>9. c.obuf = obuf /\ c.randptr = randptr /\ c.written = 0 /\ c.prefixlen = n
  BY <1>6
<1>10. Intact(cfg, sent, c)
  <2>1. \A i \in DOMAIN sent :
          \/ obuf[n + i] = sent[i]
          \/ cfg.randomkeys /\ i \in Marks(sent) /\ obuf[n + i] = "key"
    BY <1>2, <1>3 DEF Body
  <2>2. /\ \A j \in DOMAIN randptr : randptr[j] - n \in Marks(sent)
        /\ cfg.randomkeys =>
             \A i \in Marks(sent) : \E j \in DOMAIN randptr : randptr[j] = n + i
        /\ ~cfg.randomkeys => randptr = <<>>
    BY DEF Pointers, n, P
  <2>3. QED
    BY <1>3, <1>9, <2>1, <2>2 DEF Intact, n, P
<1>11. QED
  BY <1>6, <1>8, <1>10 DEF New, Sound, handler, pending, n, P, c

(* The first client is made from the command,                              *)
LEMMA FirstClientIsNew ==
  ASSUME NEW cfg \in ConfigType, NEW cmd \in Seq({"word", "rand"})
  PROVE  New(cfg, Copies(cfg.pipeline, cmd), FirstClient(cfg, cmd))
<1> DEFINE P == Prefix(cfg)
           n == Len(P)
           sent == Copies(cfg.pipeline, cmd)
           obuf == P \o sent
           found == Placeholders(obuf)
<1>1. sent \in Seq({"word", "rand"})
  <2>1. cfg.pipeline \in Nat \ {0}
    BY DEF ConfigType
  <2>2. QED
    BY <2>1, CopiesType
<1>2. P \in Seq({"auth", "select"}) /\ n \in Nat
  BY PrefixType
<1> HIDE DEF P, sent
<1>3. P \in Seq(Token) /\ sent \in Seq(Token)
  BY <1>1, <1>2 DEF Token
<1>4. Len(sent) \in Nat /\ DOMAIN sent = 1 .. Len(sent)
  BY <1>1
<1>5. /\ obuf \in Seq(Token) /\ Len(obuf) = n + Len(sent) /\ DOMAIN obuf = 1 .. n + Len(sent)
      /\ \A i \in 1 .. n : obuf[i] = P[i]
      /\ \A i \in 1 .. Len(sent) : obuf[n + i] = sent[i]
  <2> DEFINE u == obuf
  <2> HIDE DEF u
  <2>1. u = P \o sent
    BY DEF u
  <2>2. /\ u \in Seq(Token) /\ Len(u) = n + Len(sent)
        /\ \A i \in 1 .. n : u[i] = P[i]
        /\ \A i \in 1 .. Len(sent) : u[n + i] = sent[i]
    BY <1>3, <2>1, ConcatPositions
  <2>3. DOMAIN u = 1 .. n + Len(sent)
    BY <2>2
  <2>4. QED
    BY <2>2, <2>3 DEF u
<1> HIDE DEF obuf, n
<1>6. /\ found \in Seq(DOMAIN obuf)
      /\ \A j \in DOMAIN found : obuf[found[j]] = "rand"
      /\ \A i \in DOMAIN obuf :
           obuf[i] = "rand" => \E j \in DOMAIN found : found[j] = i
  BY <1>5, PlaceholdersFound
<1> HIDE DEF found
<1>7. \A i \in 1 .. n : obuf[i] # "rand"
  <2>1. \A i \in 1 .. n : P[i] \in {"auth", "select"}
    BY <1>2 DEF n
  <2>2. QED
    BY <1>5, <2>1
<1>8. \A i \in DOMAIN obuf : obuf[i] = "rand" => i - n \in Marks(sent)
  <2>1. ASSUME NEW i \in DOMAIN obuf, obuf[i] = "rand"
        PROVE  i - n \in Marks(sent)
    <3>1. i - n \in 1 .. Len(sent) /\ n + (i - n) = i
      BY <1>2, <1>4, <1>5, <1>7, <2>1
    <3>2. sent[i - n] = "rand"
      BY <1>5, <2>1, <3>1
    <3>3. QED
      BY <1>4, <3>1, <3>2 DEF Marks
  <2>2. QED
    BY <2>1
<1>9. \A i \in Marks(sent) : n + i \in DOMAIN obuf /\ obuf[n + i] = "rand"
  BY <1>2, <1>4, <1>5 DEF Marks
<1>10. Body(cfg, sent, sent)
  BY <1>3 DEF Body
<1>11. CASE cfg.randomkeys
  <2>1. Pointers(cfg, sent, n, found)
    <3>1. found \in Seq(Nat)
      BY <1>2, <1>4, <1>5, <1>6
    <3>2. \A j \in DOMAIN found : found[j] \in DOMAIN obuf
      BY <1>6
    <3>3. QED
      BY <1>6, <1>8, <1>9, <1>11, <3>1, <3>2 DEF Pointers
  <2>2. Len(found) \in Nat
    BY <1>6
  <2>3. Room(Len(found)) \in Nat /\ Len(found) <= Room(Len(found))
    BY <2>2, RoomSuffices
  <2>4. FirstClient(cfg, cmd) = NewClient(cfg, obuf, found, Room(Len(found)))
    BY <1>11 DEF FirstClient, found, obuf, sent, P
  <2>5. obuf = Prefix(cfg) \o sent
    BY DEF obuf, P
  <2>6. Pointers(cfg, sent, Len(Prefix(cfg)), found)
    BY <2>1 DEF n, P
  <2>7. New(cfg, sent, NewClient(cfg, obuf, found, Room(Len(found))))
    BY <1>1, <1>10, <2>3, <2>5, <2>6, NewClientIsNew
  <2>8. QED
    BY <2>4, <2>7 DEF sent
<1>12. CASE ~cfg.randomkeys
  <2>1. Pointers(cfg, sent, Len(Prefix(cfg)), <<>>)
    BY <1>12 DEF Pointers
  <2>2. FirstClient(cfg, cmd) = NewClient(cfg, obuf, <<>>, 0)
    BY <1>12 DEF FirstClient, obuf, sent, P
  <2>3. obuf = Prefix(cfg) \o sent
    BY DEF obuf, P
  <2>4. Len(<<>>) <= 0 /\ 0 \in Nat
    OBVIOUS
  <2>5. New(cfg, sent, NewClient(cfg, obuf, <<>>, 0))
    BY <1>1, <1>10, <2>1, <2>3, <2>4, NewClientIsNew
  <2>6. QED
    BY <2>2, <2>5 DEF sent
<1>13. QED
  BY <1>11, <1>12

(* the others from one that may have dropped its prefix.                   *)
LEMMA CloneIsNew ==
  ASSUME NEW cfg \in ConfigType, NEW sent \in Seq({"word", "rand"}),
         NEW from, Sound(cfg, sent, from)
  PROVE  New(cfg, sent, Clone(cfg, from))
<1> DEFINE P == Prefix(cfg)
           n == Len(P)
           m == from.prefixlen
           old == from.obuf
           ptr == from.randptr
           body == SubSeq(old, m + 1, Len(old))
           new == [j \in DOMAIN ptr |-> ptr[j] + (n - m)]
<1>1. /\ old \in Seq(Token) /\ ptr \in Seq(Nat) /\ m \in Nat
      /\ Len(ptr) \in Nat /\ DOMAIN ptr = 1 .. Len(ptr)
  BY DEF Sound, ClientFits, ClientType, Token
<1>2. n \in Nat /\ Len(sent) \in Nat /\ DOMAIN sent = 1 .. Len(sent)
  BY PrefixType
<1>3. /\ Len(old) = m + Len(sent)
      /\ \A i \in DOMAIN sent :
           \/ old[m + i] = sent[i]
           \/ cfg.randomkeys /\ i \in Marks(sent) /\ old[m + i] = "key"
      /\ \A j \in DOMAIN ptr : ptr[j] - m \in Marks(sent)
      /\ cfg.randomkeys =>
           \A i \in Marks(sent) : \E j \in DOMAIN ptr : ptr[j] = m + i
      /\ ~cfg.randomkeys => ptr = <<>>
  BY DEF Sound, Intact
<1> HIDE DEF n, m, old, ptr
<1>4. Body(cfg, sent, body)
  <2>1. /\ body \in Seq(Token) /\ Len(body) = Len(sent)
        /\ \A i \in 1 .. Len(sent) : body[i] = old[m + i]
    BY <1>1, <1>2, <1>3
  <2> HIDE DEF body
  <2>2. QED
    BY <1>2, <1>3, <2>1 DEF Body
<1>5. \A j \in DOMAIN ptr : ptr[j] \in Nat /\ ptr[j] - m \in Nat
  BY <1>1, <1>2, <1>3 DEF Marks
<1>6. new \in Seq(Nat) /\ Len(new) = Len(ptr) /\ DOMAIN new = DOMAIN ptr
  BY <1>1, <1>2, <1>5
<1>7. Pointers(cfg, sent, n, new)
  <2>1. \A j \in DOMAIN new : new[j] = ptr[j] + (n - m) /\ new[j] - n = ptr[j] - m
    BY <1>1, <1>2, <1>5
  <2> HIDE DEF new
  <2>2. \A j \in DOMAIN new : new[j] - n \in Marks(sent)
    BY <1>3, <1>6, <2>1
  <2>3. ASSUME cfg.randomkeys, NEW i \in Marks(sent)
        PROVE  \E j \in DOMAIN new : new[j] = n + i
    <3>1. PICK j \in DOMAIN ptr : ptr[j] = m + i
      BY <1>3, <2>3
    <3>2. i \in Nat
      BY <1>2 DEF Marks
    <3>3. new[j] = n + i
      BY <1>1, <1>2, <1>6, <2>1, <3>1, <3>2
    <3>4. QED
      BY <1>6, <3>1, <3>3
  <2>4. ~cfg.randomkeys => new = <<>>
    BY <1>3, <1>6
  <2>5. QED
    BY <1>6, <2>2, <2>3, <2>4 DEF Pointers
<1>8. Clone(cfg, from) = NewClient(cfg, Prefix(cfg) \o body, new, Len(ptr))
  BY DEF Clone, n, m, old, ptr
<1> HIDE DEF body, new
<1>9. Pointers(cfg, sent, Len(Prefix(cfg)), new)
  BY <1>7 DEF n
<1>10. Len(new) <= Len(ptr)
  BY <1>1, <1>6
<1>11. New(cfg, sent, NewClient(cfg, Prefix(cfg) \o body, new, Len(ptr)))
  BY <1>1, <1>4, <1>9, <1>10, NewClientIsNew
<1>12. QED
  BY <1>8, <1>11

----------------------------------------------------------------------------
(* What the handlers make of a client. *)

Good(cfg, sent, c) == Sound(cfg, sent, c) /\ Awaiting(cfg, c)

(* A sound client, field by field.                                         *)
LEMMA SoundFields ==
  ASSUME NEW cfg, NEW sent, NEW c, Sound(cfg, sent, c)
  PROVE  /\ c = [obuf |-> c.obuf, randptr |-> c.randptr, room |-> c.room,
                 written |-> c.written, pending |-> c.pending,
                 prefix_pending |-> c.prefix_pending, prefixlen |-> c.prefixlen,
                 latency |-> c.latency, handler |-> c.handler, owed |-> c.owed]
         /\ c.obuf \in Seq(Token) /\ c.randptr \in Seq(Nat)
         /\ c.room \in Nat /\ c.written \in Nat /\ c.pending \in Nat
         /\ c.prefix_pending \in Nat /\ c.prefixlen \in Nat /\ c.owed \in Nat
         /\ c.latency \in {"none", "running", "taken"}
         /\ c.handler \in {"none", "write", "read"}
         /\ Len(c.randptr) <= c.room
  BY DEF Sound, ClientFits, ClientType, Token

(* A client that differs in what is not the buffer.                        *)
LEMMA SameBuffer ==
  ASSUME NEW cfg, NEW sent, NEW c, NEW d, Sound(cfg, sent, c), d \in ClientType,
         d.obuf = c.obuf, d.randptr = c.randptr, d.room = c.room,
         d.prefixlen = c.prefixlen, d.written > 0 => c.written > 0
  PROVE  Sound(cfg, sent, d)
  BY DEF Sound, ClientFits, Intact

(* A request is begun: its placeholders become keys.                       *)
LEMMA BegunIsSound ==
  ASSUME NEW cfg \in ConfigType, NEW sent \in Seq({"word", "rand"}),
         NEW c, Sound(cfg, sent, c), NEW w \in Nat
  PROVE  /\ Sound(cfg, sent, [Begun(c) EXCEPT !.written = w])
         /\ Begun(c) = [c EXCEPT !.obuf = Begun(c).obuf, !.latency = "running"]
         /\ Len(Begun(c).obuf) = Len(c.obuf)
<1> DEFINE old == c.obuf
           obuf == [i \in DOMAIN old |-> IF \E j \in DOMAIN c.randptr : c.randptr[j] = i
                                         THEN "key" ELSE old[i]]
           d == [c EXCEPT !.obuf = obuf, !.latency = "running"]
           e == [c EXCEPT !.obuf = obuf, !.latency = "running", !.written = w]
<1>1. /\ old \in Seq(Token) /\ DOMAIN old = 1 .. Len(old) /\ Len(old) \in Nat
      /\ c \in ClientType /\ c.prefixlen \in Nat
  BY SoundFields DEF Sound, ClientFits
<1>2. /\ obuf \in Seq(Token) /\ Len(obuf) = Len(old)
      /\ \A i \in 1 .. Len(old) :
           obuf[i] = IF \E j \in DOMAIN c.randptr : c.randptr[j] = i THEN "key" ELSE old[i]
  <2>1. "key" \in Token
    BY DEF Token
  <2>2. \A i \in DOMAIN old :
          (IF \E j \in DOMAIN c.randptr : c.randptr[j] = i THEN "key" ELSE old[i]) \in Token
    BY <1>1, <2>1
  <2> HIDE DEF old
  <2>3. obuf \in Seq(Token) /\ Len(obuf) = Len(old)
    BY <1>1, <2>2
  <2>4. QED
    BY <1>1, <2>3
<1>3. Randomized(c) = [c EXCEPT !.obuf = obuf]
  BY DEF Randomized
<1> HIDE DEF obuf
<1>4. Begun(c) = d
  BY <1>1, <1>3 DEF Begun, ClientType
<1>5. e = [d EXCEPT !.written = w]
  BY <1>1 DEF ClientType
<1>6. e \in ClientType /\ d.obuf = obuf
  BY <1>1, <1>2 DEF ClientType, Token
<1>7. e.obuf = obuf /\ e.randptr = c.randptr /\ e.room = c.room /\ e.prefixlen = c.prefixlen
  BY <1>1 DEF ClientType
<1> HIDE DEF e, d, old
<1>8. DOMAIN sent = 1 .. Len(sent) /\ Len(sent) \in Nat
  OBVIOUS
<1>9. /\ c.prefixlen \in {0, Len(Prefix(cfg))}
      /\ Len(old) = c.prefixlen + Len(sent)
      /\ \A i \in 1 .. c.prefixlen : old[i] = Prefix(cfg)[i]
      /\ \A i \in DOMAIN sent :
           \/ old[c.prefixlen + i] = sent[i]
           \/ cfg.randomkeys /\ i \in Marks(sent) /\ old[c.prefixlen + i] = "key"
      /\ \A j \in DOMAIN c.randptr : c.randptr[j] - c.prefixlen \in Marks(sent)
      /\ cfg.randomkeys =>
           \A i \in Marks(sent) : \E j \in DOMAIN c.randptr : c.randptr[j] = c.prefixlen + i
      /\ ~cfg.randomkeys => c.randptr = <<>>
  BY DEF Sound, Intact, old
<1>10. \A i \in 1 .. c.prefixlen : obuf[i] = Prefix(cfg)[i]
  <2>1. ASSUME NEW i \in 1 .. c.prefixlen
        PROVE  obuf[i] = Prefix(cfg)[i]
    <3>1. \A j \in DOMAIN c.randptr : c.randptr[j] # i
      <4>1. \A j \in DOMAIN c.randptr : c.randptr[j] \in Nat
        BY SoundFields
      <4>2. \A x \in Marks(sent) : x >= 1 /\ x \in Nat
        BY <1>8 DEF Marks
      <4>3. QED
        BY <1>1, <1>9, <4>1, <4>2
    <3>2. i \in 1 .. Len(old)
      BY <1>1, <1>8, <1>9
    <3>3. QED
      BY <1>2, <1>9, <3>1, <3>2
  <2>2. QED
    BY <2>1
<1>11. ASSUME NEW i \in DOMAIN sent
       PROVE  /\ c.prefixlen + i \in 1 .. Len(old)
              /\ \/ obuf[c.prefixlen + i] = sent[i]
                 \/ cfg.randomkeys /\ i \in Marks(sent) /\ obuf[c.prefixlen + i] = "key"
  <2>1. c.prefixlen + i \in 1 .. Len(old)
    BY <1>1, <1>8, <1>9
  <2>2. CASE \E j \in DOMAIN c.randptr : c.randptr[j] = c.prefixlen + i
    <3>1. obuf[c.prefixlen + i] = "key"
      BY <1>2, <2>1, <2>2
    <3>2. i \in Marks(sent)
      <4>1. (c.prefixlen + i) - c.prefixlen = i
        BY <1>1, <1>8
      <4>2. QED
        BY <1>9, <2>2, <4>1
    <3>3. cfg.randomkeys
      <4>1. ~cfg.randomkeys => DOMAIN c.randptr = {}
        BY <1>9
      <4>2. QED
        BY <2>2, <4>1
    <3>4. QED
      BY <2>1, <3>1, <3>2, <3>3
  <2>3. CASE ~\E j \in DOMAIN c.randptr : c.randptr[j] = c.prefixlen + i
    <3>1. obuf[c.prefixlen + i] = old[c.prefixlen + i]
      BY <1>2, <2>1, <2>3
    <3>2. QED
      BY <1>9, <2>1, <3>1
  <2>4. QED
    BY <2>2, <2>3
<1>12. cfg.randomkeys => \A i \in Marks(sent) : obuf[c.prefixlen + i] = "key"
  <2>1. ASSUME cfg.randomkeys, NEW i \in Marks(sent)
        PROVE  obuf[c.prefixlen + i] = "key"
    <3>1. c.prefixlen + i \in 1 .. Len(old)
      BY <1>11 DEF Marks
    <3>2. \E j \in DOMAIN c.randptr : c.randptr[j] = c.prefixlen + i
      BY <1>9, <2>1
    <3>3. QED
      BY <1>2, <3>1, <3>2
  <2>2. QED
    BY <2>1
<1>13. Intact(cfg, sent, e)
  BY <1>2, <1>7, <1>9, <1>10, <1>11, <1>12 DEF Intact
<1>14. Len(c.randptr) <= c.room
  BY SoundFields
<1>15. Sound(cfg, sent, e)
  BY <1>6, <1>7, <1>13, <1>14 DEF Sound, ClientFits
<1>16. QED
  BY <1>2, <1>4, <1>5, <1>6, <1>15 DEF d, old

(* More of a buffer is written.                                            *)
LEMMA WrittenIsGood ==
  ASSUME config \in ConfigType, NEW sent \in Seq({"word", "rand"}),
         NEW c, Good(config, sent, c), c.handler = "write",
         NEW now, now = IF c.written = 0 THEN Begun(c) ELSE c,
         NEW n \in 1 .. Len(now.obuf) - now.written
  PROVE  /\ Good(config, sent, Written(now, n))
         /\ Written(now, n).written > 0
         /\ Written(now, n).pending = c.pending
         /\ Written(now, n).prefix_pending = c.prefix_pending
<1> DEFINE d == Written(now, n)
           w == c.written + n
<1>1. /\ c \in ClientType /\ Sound(config, sent, c)
      /\ c.written \in Nat /\ c.prefixlen \in Nat /\ c.pending \in Nat /\ c.prefix_pending \in Nat
      /\ Len(c.obuf) \in Nat
  BY SoundFields DEF Good, Sound, ClientFits
<1>2. /\ c.pending = config.pipeline + c.prefixlen
      /\ c.prefix_pending = c.prefixlen
      /\ c.written > 0 => c.latency = "running"
      /\ c.written < Len(c.obuf)
  BY DEF Good, Awaiting
<1>3. config.pipeline \in Nat \ {0}
  BY DEF ConfigType
<1>4. /\ now \in ClientType /\ now.written = c.written /\ now.pending = c.pending
      /\ now.prefix_pending = c.prefix_pending /\ now.prefixlen = c.prefixlen
      /\ now.handler = "write" /\ now.latency = "running"
      /\ Len(now.obuf) = Len(c.obuf)
      /\ \A x \in Nat : x > 0 => Sound(config, sent, [now EXCEPT !.written = x])
  <2>1. CASE c.written = 0
    <3>1. /\ now = [c EXCEPT !.obuf = now.obuf, !.latency = "running"]
          /\ Len(now.obuf) = Len(c.obuf)
          /\ \A x \in Nat : Sound(config, sent, [now EXCEPT !.written = x])
      <4>1. now = Begun(c)
        BY <2>1
      <4>2. QED
        BY <1>1, <4>1, BegunIsSound
    <3>2. /\ now.written = c.written /\ now.pending = c.pending
          /\ now.prefix_pending = c.prefix_pending /\ now.prefixlen = c.prefixlen
          /\ now.handler = "write" /\ now.latency = "running"
      BY <1>1, <3>1 DEF ClientType
    <3>3. now \in ClientType
      <4> DEFINE e == [now EXCEPT !.written = 0]
      <4>1. e \in ClientType
        BY <3>1 DEF Sound, ClientFits
      <4>2. now = e
        BY <1>1, <2>1, <3>1 DEF ClientType
      <4>3. QED
        BY <4>1, <4>2
    <3>4. QED
      BY <3>1, <3>2, <3>3
  <2>2. CASE c.written # 0
    <3>1. now = c /\ c.written > 0 /\ c.latency = "running"
      BY <1>1, <1>2, <2>2
    <3>2. ASSUME NEW x \in Nat, x > 0
          PROVE  Sound(config, sent, [c EXCEPT !.written = x])
      <4> DEFINE e == [c EXCEPT !.written = x]
      <4>1. e \in ClientType /\ e.obuf = c.obuf /\ e.randptr = c.randptr /\ e.room = c.room
            /\ e.prefixlen = c.prefixlen
        BY <1>1 DEF ClientType
      <4> HIDE DEF e
      <4>2. Sound(config, sent, e)
        BY <1>1, <3>1, <4>1, SameBuffer
      <4>3. QED
        BY <4>2 DEF e
    <3>3. QED
      BY <1>1, <3>1, <3>2
  <2>3. QED
    BY <1>1, <2>1, <2>2
<1>5. w \in Nat /\ w > 0 /\ w <= Len(c.obuf) /\ n \in Nat
  BY <1>1, <1>2, <1>4
<1> HIDE DEF w
<1> DEFINE e == [now EXCEPT !.written = w]
<1>6. Sound(config, sent, e)
  BY <1>4, <1>5
<1>7. /\ e.written = w /\ e.pending = c.pending /\ e.prefix_pending = c.prefix_pending
      /\ e.prefixlen = c.prefixlen /\ e.handler = "write" /\ e.latency = "running"
      /\ Len(e.obuf) = Len(c.obuf) /\ e \in ClientType
  BY <1>4, <1>5 DEF ClientType
<1>8. CASE w < Len(c.obuf)
  <2>1. d = e
    BY <1>4, <1>8 DEF Written, w
  <2> HIDE DEF d, e
  <2>2. Awaiting(config, e)
    BY <1>2, <1>7, <1>8 DEF Awaiting
  <2>3. QED
    BY <1>5, <1>6, <1>7, <2>1, <2>2 DEF Good, d
<1>9. CASE ~(w < Len(c.obuf))
  <2> DEFINE owed == config.pipeline + c.prefixlen
  <2>1. d = [e EXCEPT !.handler = "read", !.owed = owed]
    <3>1. d = [now EXCEPT !.written = w, !.handler = "read", !.owed = owed]
      BY <1>4, <1>9 DEF Written, w
    <3>2. QED
      BY <1>4, <3>1 DEF ClientType
  <2>2. owed \in Nat /\ owed = c.pending
    BY <1>1, <1>2, <1>3
  <2> HIDE DEF d, e, owed
  <2>3. /\ d \in ClientType /\ d.obuf = e.obuf /\ d.randptr = e.randptr /\ d.room = e.room
        /\ d.prefixlen = e.prefixlen /\ d.written = e.written /\ d.latency = e.latency
        /\ d.pending = e.pending /\ d.prefix_pending = e.prefix_pending
        /\ d.handler = "read" /\ d.owed = owed
    BY <1>7, <2>1, <2>2 DEF ClientType
  <2>4. Sound(config, sent, d)
    BY <1>6, <2>3, SameBuffer
  <2>5. Awaiting(config, d)
    BY <1>1, <1>2, <1>3, <1>5, <1>7, <2>2, <2>3 DEF Awaiting
  <2>6. QED
    BY <1>5, <1>7, <2>3, <2>4, <2>5 DEF Good, d
<1>10. QED
  BY <1>8, <1>9

(* The prefix goes from the buffer, and the pointers move with it.         *)
LEMMA UnprefixedIsSound ==
  ASSUME NEW cfg \in ConfigType, NEW sent \in Seq({"word", "rand"}),
         NEW c, Sound(cfg, sent, c)
  PROVE  /\ Sound(cfg, sent, Unprefixed(c))
         /\ Unprefixed(c) = [c EXCEPT !.obuf = Unprefixed(c).obuf,
                                      !.randptr = Unprefixed(c).randptr, !.prefixlen = 0]
         /\ Unprefixed(c).obuf # <<>> <=> sent # <<>>
<1> DEFINE old == c.obuf
           ptr == c.randptr
           m == c.prefixlen
           obuf == SubSeq(old, m + 1, Len(old))
           new == [j \in DOMAIN ptr |-> ptr[j] - m]
           d == [c EXCEPT !.obuf = obuf, !.randptr = new, !.prefixlen = 0]
<1>1. /\ old \in Seq(Token) /\ DOMAIN old = 1 .. Len(old) /\ Len(old) \in Nat
      /\ ptr \in Seq(Nat) /\ DOMAIN ptr = 1 .. Len(ptr) /\ Len(ptr) \in Nat
      /\ c \in ClientType /\ m \in Nat /\ Len(ptr) <= c.room
  BY SoundFields DEF Sound, ClientFits
<1>2. DOMAIN sent = 1 .. Len(sent) /\ Len(sent) \in Nat
  OBVIOUS
<1>3. /\ Len(old) = m + Len(sent)
      /\ \A i \in DOMAIN sent :
           \/ old[m + i] = sent[i]
           \/ cfg.randomkeys /\ i \in Marks(sent) /\ old[m + i] = "key"
      /\ cfg.randomkeys /\ c.written > 0 => \A i \in Marks(sent) : old[m + i] = "key"
      /\ \A j \in DOMAIN ptr : ptr[j] - m \in Marks(sent)
      /\ cfg.randomkeys =>
           \A i \in Marks(sent) : \E j \in DOMAIN ptr : ptr[j] = m + i
      /\ ~cfg.randomkeys => ptr = <<>>
  BY DEF Sound, Intact
<1>4. Unprefixed(c) = d
  BY DEF Unprefixed
<1> HIDE DEF m, old, ptr
<1>5. /\ obuf \in Seq(Token) /\ Len(obuf) = Len(sent)
      /\ \A i \in 1 .. Len(sent) : obuf[i] = old[m + i]
  BY <1>1, <1>2, <1>3
<1>6. \A x \in Marks(sent) : x \in Nat /\ x \in DOMAIN sent
  BY <1>2 DEF Marks
<1>7. /\ new \in Seq(Nat) /\ Len(new) = Len(ptr) /\ DOMAIN new = DOMAIN ptr
      /\ \A j \in DOMAIN ptr : new[j] = ptr[j] - m
  BY <1>1, <1>3, <1>6
<1> HIDE DEF obuf, new
<1>8. d \in ClientType
  BY <1>1, <1>5, <1>7 DEF ClientType, Token
<1>9. d.obuf = obuf /\ d.randptr = new /\ d.prefixlen = 0 /\ d.room = c.room /\ d.written = c.written
  BY <1>1 DEF ClientType
<1> HIDE DEF d
<1>10. /\ Len(obuf) = 0 + Len(sent)
       /\ \A i \in DOMAIN sent :
            \/ obuf[0 + i] = sent[i]
            \/ cfg.randomkeys /\ i \in Marks(sent) /\ obuf[0 + i] = "key"
       /\ cfg.randomkeys /\ c.written > 0 => \A i \in Marks(sent) : obuf[0 + i] = "key"
  <2>1. \A i \in DOMAIN sent : 0 + i = i /\ obuf[i] = old[m + i]
    BY <1>2, <1>5
  <2>2. QED
    BY <1>2, <1>3, <1>5, <1>6, <2>1
<1>11. /\ \A j \in DOMAIN new : new[j] - 0 \in Marks(sent)
       /\ cfg.randomkeys => \A i \in Marks(sent) : \E j \in DOMAIN new : new[j] = 0 + i
       /\ ~cfg.randomkeys => new = <<>>
  <2>1. \A j \in DOMAIN new : new[j] - 0 \in Marks(sent)
    <3>1. \A j \in DOMAIN new : new[j] - 0 = ptr[j] - m
      BY <1>1, <1>7
    <3>2. QED
      BY <1>3, <1>7, <3>1
  <2>2. ASSUME cfg.randomkeys, NEW i \in Marks(sent)
        PROVE  \E j \in DOMAIN new : new[j] = 0 + i
    <3>1. PICK j \in DOMAIN ptr : ptr[j] = m + i
      BY <1>3, <2>2
    <3>2. new[j] = 0 + i
      BY <1>1, <1>6, <1>7, <3>1
    <3>3. QED
      BY <1>7, <3>2
  <2>3. ~cfg.randomkeys => new = <<>>
    BY <1>3, <1>7
  <2>4. QED
    BY <2>1, <2>2, <2>3
<1>12. Intact(cfg, sent, d)
  BY <1>9, <1>10, <1>11 DEF Intact
<1>13. Sound(cfg, sent, d)
  BY <1>1, <1>7, <1>8, <1>9, <1>12 DEF Sound, ClientFits
<1>14. obuf # <<>> <=> sent # <<>>
  BY <1>2, <1>5
<1>15. QED
  BY <1>4, <1>9, <1>13, <1>14 DEF d

(* The commands of c that are not answered. *)
Unanswered(c) == c.pending - c.prefix_pending

(* Answers have come, n of them to what is measured.                       *)
LEMMA AnsweredIsGood ==
  ASSUME config \in ConfigType, NEW sent \in Seq({"word", "rand"}), sent # <<>>,
         NEW c, Good(config, sent, c), c.handler = "read",
         NEW k \in Nat, k <= c.pending,
         NEW d, d = Answered(c, k), NEW n, n = k - PrefixAnswers(c, k)
  PROVE  /\ n \in Nat /\ Sound(config, sent, d)
         /\ d.latency = "taken" /\ d.handler = "read" /\ d.written = c.written
         /\ Unanswered(d) = Unanswered(c) - n
         /\ ~(n > 0 /\ d.pending = 0) => Good(config, sent, d)
         /\ n > 0 /\ d.pending = 0 =>
              /\ n = Unanswered(c)
              /\ Good(config, sent, resetClient(d))
              /\ resetClient(d).written = 0
<1> DEFINE pp == c.prefix_pending
           p == PrefixAnswers(c, k)
           e == IF p > 0 THEN Unprefixed(c) ELSE c
<1>1. /\ Sound(config, sent, c) /\ c \in ClientType
      /\ pp \in Nat /\ c.pending \in Nat /\ c.owed \in Nat /\ c.written \in Nat /\ c.prefixlen \in Nat
  BY SoundFields DEF Good, Sound, ClientFits
<1>2. /\ c.written > 0
      /\ c.latency \in {"running", "taken"}
      /\ c.owed = c.pending
      /\ pp < c.pending /\ c.pending <= pp + config.pipeline
      /\ pp = 0 => c.prefixlen = 0
  BY DEF Good, Awaiting
<1>3. config.pipeline \in Nat \ {0}
  BY DEF ConfigType
<1>4. p = IF k <= pp THEN k ELSE pp
  BY DEF PrefixAnswers, Least
<1>5. p \in Nat /\ n \in Nat /\ n = k - p /\ p <= pp
  BY <1>1, <1>4
<1> HIDE DEF p, pp
<1>6. /\ Sound(config, sent, e) /\ e \in ClientType
      /\ e.written = c.written /\ e.pending = c.pending /\ e.prefix_pending = pp /\ e.owed = c.owed
      /\ e.latency = c.latency /\ e.handler = "read"
      /\ p > 0 => e.prefixlen = 0
      /\ p = 0 => e.prefixlen = c.prefixlen
  <2>1. CASE p > 0
    <3>1. /\ Sound(config, sent, e)
          /\ e = [c EXCEPT !.obuf = e.obuf, !.randptr = e.randptr, !.prefixlen = 0]
      <4>1. e = Unprefixed(c)
        BY <2>1
      <4>2. QED
        BY <1>1, <4>1, UnprefixedIsSound
    <3>2. e \in ClientType
      BY <3>1 DEF Sound, ClientFits
    <3> HIDE DEF e
    <3>3. /\ e.written = c.written /\ e.pending = c.pending
          /\ e.prefix_pending = c.prefix_pending /\ e.owed = c.owed
          /\ e.latency = c.latency /\ e.handler = c.handler /\ e.prefixlen = 0
      BY <1>1, <3>1 DEF ClientType
    <3>4. QED
      BY <1>5, <2>1, <3>1, <3>2, <3>3 DEF pp
  <2>2. CASE p = 0
    BY <1>1, <2>2 DEF pp
  <2>3. QED
    BY <1>5, <2>1, <2>2
<1> HIDE DEF e
<1> DEFINE pending == c.pending - k
           rest == pp - p
<1>7. d = [e EXCEPT !.pending = pending, !.prefix_pending = rest, !.owed = pending, !.latency = "taken"]
  <2>1. d = [e EXCEPT !.pending = @ - k, !.prefix_pending = @ - p, !.owed = @ - k,
                      !.latency = IF @ = "running" THEN "taken" ELSE @]
    BY DEF Answered, e, p
  <2>2. QED
    BY <1>2, <1>6, <2>1
<1>8. pending \in Nat /\ rest \in Nat /\ rest = pp - p /\ pending = c.pending - k
  BY <1>1, <1>5
<1> HIDE DEF pending, rest
<1>9. /\ d \in ClientType /\ d.obuf = e.obuf /\ d.randptr = e.randptr /\ d.room = e.room
      /\ d.prefixlen = e.prefixlen /\ d.written = e.written /\ d.latency = "taken"
      /\ d.pending = pending /\ d.prefix_pending = rest /\ d.owed = pending /\ d.handler = "read"
  <2>1. e \in ClientType
    BY <1>6
  <2>2. d \in ClientType
    BY <1>7, <1>8, <2>1 DEF ClientType
  <2>3. /\ d.obuf = e.obuf /\ d.randptr = e.randptr /\ d.room = e.room
        /\ d.prefixlen = e.prefixlen /\ d.written = e.written /\ d.handler = e.handler
    BY <1>7, <2>1 DEF ClientType
  <2>4. /\ d.latency = "taken" /\ d.pending = pending /\ d.prefix_pending = rest
        /\ d.owed = pending
    BY <1>7, <2>1 DEF ClientType
  <2>5. QED
    BY <1>6, <2>2, <2>3, <2>4
<1>10. Sound(config, sent, d)
  BY <1>6, <1>9, SameBuffer
<1>11. Unanswered(d) = Unanswered(c) - n
  <2>1. Unanswered(d) = pending - rest /\ Unanswered(c) = c.pending - pp
    BY <1>9 DEF Unanswered, pp
  <2>2. c.pending \in Int /\ k \in Int
    BY <1>1
  <2>3. p \in Int /\ n = k - p
    BY <1>5
  <2>4. pp \in Int
    BY <1>1, <1>2 DEF pp
  <2>5. rest = pp - p /\ pending = c.pending - k
    BY <1>8
  <2>6. QED
    BY <2>1, <2>2, <2>3, <2>4, <2>5
<1>12. n > 0 \/ k <= pp
  BY <1>1, <1>4, <1>5
<1>13. rest = 0 => e.prefixlen = 0
  BY <1>1, <1>2, <1>5, <1>6, <1>8
<1>14. ASSUME ~(n > 0 /\ d.pending = 0)
       PROVE  Good(config, sent, d)
  <2>1. rest < pending /\ pending <= rest + config.pipeline
    BY <1>1, <1>2, <1>3, <1>4, <1>5, <1>8, <1>9, <1>14
  <2>2. Awaiting(config, d)
    BY <1>2, <1>6, <1>9, <1>13, <2>1 DEF Awaiting
  <2>3. QED
    BY <1>10, <2>2 DEF Good
<1>15. ASSUME n > 0, d.pending = 0
       PROVE  /\ n = Unanswered(c)
              /\ Good(config, sent, resetClient(d))
              /\ resetClient(d).written = 0
  <2> DEFINE r == resetClient(d)
             full == config.pipeline
  <2>1. n = Unanswered(c) /\ rest = 0
    BY <1>1, <1>4, <1>5, <1>8, <1>9, <1>15 DEF Unanswered, pp
  <2>2. r = [d EXCEPT !.handler = "write", !.written = 0, !.pending = full]
    BY DEF resetClient
  <2>3. full \in Nat
    BY <1>3
  <2> HIDE DEF r, full
  <2>4. /\ r \in ClientType /\ r.obuf = d.obuf /\ r.randptr = d.randptr /\ r.room = d.room
        /\ r.prefixlen = d.prefixlen /\ r.written = 0 /\ r.pending = full
        /\ r.prefix_pending = d.prefix_pending /\ r.handler = "write"
    BY <1>9, <2>2, <2>3 DEF ClientType
  <2>5. Sound(config, sent, r)
    BY <1>10, <2>4, SameBuffer
  <2>6. Len(r.obuf) > 0
    <3>1. Len(d.obuf) = d.prefixlen + Len(sent) /\ Len(sent) > 0 /\ d.prefixlen \in Nat
      BY <1>10, SoundFields DEF Sound, Intact
    <3>2. QED
      BY <2>4, <3>1
  <2>7. Awaiting(config, r)
    BY <1>3, <1>9, <1>13, <2>1, <2>4, <2>6 DEF Awaiting, full
  <2>8. QED
    BY <2>1, <2>4, <2>5, <2>7 DEF Good, r
<1>16. QED
  BY <1>5, <1>6, <1>9, <1>10, <1>11, <1>14, <1>15

----------------------------------------------------------------------------
(* The requests that are on their way. *)

(* The commands of a request of c that are not answered. *)
Awaited(c) == IF c.written > 0 THEN Unanswered(c) ELSE 0

Outstanding(clients, pipeline) ==
  {o \in (DOMAIN clients) \X (1 .. pipeline) : o[2] <= Awaited(clients[o[1]])}

(* Those of the clients other than h. *)
OfOthers(clients, pipeline, h) == {o \in Outstanding(clients, pipeline) : o[1] # h}

(* Those of h are counted apart.                                           *)
LEMMA OutstandingSplit ==
  ASSUME NEW clients, IsFiniteSet(DOMAIN clients), NEW pipeline \in Nat,
         NEW h \in DOMAIN clients, Awaited(clients[h]) \in 0 .. pipeline
  PROVE  /\ IsFiniteSet(OfOthers(clients, pipeline, h))
         /\ Cardinality(OfOthers(clients, pipeline, h)) \in Nat
         /\ Cardinality(Outstanding(clients, pipeline)) =
              Cardinality(OfOthers(clients, pipeline, h)) + Awaited(clients[h])
<1> DEFINE all == Outstanding(clients, pipeline)
           rest == OfOthers(clients, pipeline, h)
           n == Awaited(clients[h])
           own == {h} \X (1 .. n)
<1>1. IsFiniteSet(1 .. pipeline) /\ IsFiniteSet(1 .. n) /\ Cardinality(1 .. n) = n
  <2>1. 1 \in Int /\ pipeline \in Int /\ n \in Int /\ n \in Nat
    OBVIOUS
  <2> HIDE DEF n
  <2>2. IsFiniteSet(1 .. n) /\ Cardinality(1 .. n) = IF 1 > n THEN 0 ELSE n - 1 + 1
    BY <2>1, FS_Interval
  <2>3. IsFiniteSet(1 .. pipeline)
    BY <2>1, FS_Interval
  <2>4. (IF 1 > n THEN 0 ELSE n - 1 + 1) = n
    BY <2>1
  <2>5. QED
    BY <2>2, <2>3, <2>4
<1>2. IsFiniteSet((DOMAIN clients) \X (1 .. pipeline))
  BY <1>1, FS_Product
<1>3. rest \in SUBSET ((DOMAIN clients) \X (1 .. pipeline))
  BY DEF OfOthers, Outstanding
<1>4. IsFiniteSet(rest) /\ Cardinality(rest) \in Nat
  BY <1>2, <1>3, FS_Subset, FS_CardinalityType
<1>5. IsFiniteSet(own) /\ Cardinality(own) = n
  <2>1. IsFiniteSet({h}) /\ Cardinality({h}) = 1
    BY FS_Singleton
  <2> DEFINE A == {h}
             B == 1 .. n
  <2>2. IsFiniteSet(A) /\ IsFiniteSet(B) /\ Cardinality(A) = 1 /\ Cardinality(B) = n /\ n \in Nat
    BY <1>1, <2>1
  <2> HIDE DEF A, B, n
  <2>3. IsFiniteSet(A \X B) /\ Cardinality(A \X B) = Cardinality(A) * Cardinality(B)
    BY <2>2, FS_Product
  <2>4. Cardinality(A) * Cardinality(B) = n
    BY <2>2
  <2>5. QED
    BY <2>3, <2>4 DEF A, B
<1>6. all = rest \cup own /\ rest \cap own = {}
  <2> HIDE DEF n
  <2>1. ASSUME NEW o \in all, o[1] = h
        PROVE  o \in own
    <3>1. o \in (DOMAIN clients) \X (1 .. pipeline) /\ o[2] <= n
      BY <2>1 DEF Outstanding, n
    <3>2. QED
      BY <2>1, <3>1 DEF n
  <2>2. ASSUME NEW o \in own
        PROVE  o \in all /\ o[1] = h
    <3>1. o[1] = h /\ o[2] \in 1 .. n
      OBVIOUS
    <3>2. n \in 0 .. pipeline
      BY DEF n
    <3>3. o[2] \in 1 .. pipeline /\ o[2] <= n
      BY <3>1, <3>2
    <3>4. o \in (DOMAIN clients) \X (1 .. pipeline)
      BY <3>1, <3>3
    <3>5. QED
      BY <3>1, <3>3, <3>4 DEF Outstanding, n
  <2>3. \A o : o \in rest <=> o \in all /\ o[1] # h
    BY DEF OfOthers
  <2> HIDE DEF all, rest, own
  <2>4. QED
    BY <2>1, <2>2, <2>3
<1> HIDE DEF all, rest, own, n
<1>7. /\ IsFiniteSet(rest \cup own)
      /\ Cardinality(rest \cup own) = Cardinality(rest) + Cardinality(own) - Cardinality(rest \cap own)
  BY <1>4, <1>5, FS_Union
<1>8. Cardinality(rest \cap own) = 0
  BY <1>6, FS_EmptySet
<1>9. n \in Nat
  BY DEF n
<1>10. QED
  BY <1>4, <1>5, <1>6, <1>7, <1>8, <1>9 DEF all, rest, n

(* A step of h that leaves the others as they are changes no other count;  *)
(* clients that are new have nothing on its way.                           *)
LEMMA OthersKept ==
  ASSUME NEW old, NEW new, NEW pipeline \in Nat, NEW h,
         \A g \in DOMAIN old : g # h => g \in DOMAIN new /\ new[g] = old[g],
         \A g \in DOMAIN new : g # h => g \in DOMAIN old \/ Awaited(new[g]) = 0
  PROVE  OfOthers(new, pipeline, h) = OfOthers(old, pipeline, h)
<1>1. ASSUME NEW o \in OfOthers(old, pipeline, h)
      PROVE  o \in OfOthers(new, pipeline, h)
  <2>1. /\ o \in (DOMAIN old) \X (1 .. pipeline)
        /\ o[2] <= Awaited(old[o[1]]) /\ o[1] # h
    BY DEF OfOthers, Outstanding
  <2>2. o[1] \in DOMAIN old /\ o[2] \in 1 .. pipeline /\ o = <<o[1], o[2]>>
    BY <2>1
  <2>3. o[1] \in DOMAIN new /\ new[o[1]] = old[o[1]]
    BY <2>1, <2>2
  <2>4. o \in (DOMAIN new) \X (1 .. pipeline)
    BY <2>2, <2>3
  <2>5. QED
    BY <2>1, <2>3, <2>4 DEF OfOthers, Outstanding
<1>2. ASSUME NEW o \in OfOthers(new, pipeline, h)
      PROVE  o \in OfOthers(old, pipeline, h)
  <2>1. /\ o \in (DOMAIN new) \X (1 .. pipeline)
        /\ o[2] <= Awaited(new[o[1]]) /\ o[1] # h
    BY DEF OfOthers, Outstanding
  <2>2. o[1] \in DOMAIN new /\ o[2] \in 1 .. pipeline /\ o = <<o[1], o[2]>>
    BY <2>1
  <2>3. o[1] \in DOMAIN old
    <3>1. Awaited(new[o[1]]) # 0
      BY <2>1, <2>2
    <3>2. QED
      BY <2>1, <2>2, <3>1
  <2>4. new[o[1]] = old[o[1]]
    BY <2>1, <2>3
  <2>5. o \in (DOMAIN old) \X (1 .. pipeline)
    BY <2>2, <2>3
  <2>6. QED
    BY <2>1, <2>4, <2>5 DEF OfOthers, Outstanding
<1>3. QED
  BY <1>1, <1>2

(* Without h only the others count.                                        *)
LEMMA OutstandingOfOthers ==
  ASSUME NEW clients, NEW pipeline \in Nat, NEW h, h \notin DOMAIN clients
  PROVE  Outstanding(clients, pipeline) = OfOthers(clients, pipeline, h)
  BY DEF OfOthers, Outstanding

(* Clients that have written nothing await nothing.                        *)
LEMMA NothingOutstanding ==
  ASSUME NEW clients, NEW pipeline \in Nat,
         \A h \in DOMAIN clients : Awaited(clients[h]) = 0
  PROVE  Cardinality(Outstanding(clients, pipeline)) = 0
<1>1. Outstanding(clients, pipeline) = {}
  <2>1. ASSUME NEW o \in Outstanding(clients, pipeline)
        PROVE  FALSE
    <3>1. o[1] \in DOMAIN clients /\ o[2] \in 1 .. pipeline /\ o[2] <= Awaited(clients[o[1]])
      BY DEF Outstanding
    <3>2. QED
      BY <3>1
  <2>2. QED
    BY <2>1
<1>2. QED
  BY <1>1, FS_EmptySet

(* A client never awaits more than the commands of one request.            *)
LEMMA AwaitedFits ==
  ASSUME NEW cfg \in ConfigType, NEW sent, NEW c, Good(cfg, sent, c)
  PROVE  /\ Awaited(c) \in 0 .. cfg.pipeline
         /\ c.handler = "write" => Unanswered(c) = cfg.pipeline
         /\ c.handler = "read" => Awaited(c) = Unanswered(c)
<1>1. c.pending \in Nat /\ c.prefix_pending \in Nat /\ c.prefixlen \in Nat /\ c.written \in Nat
  BY SoundFields DEF Good
<1>2. cfg.pipeline \in Nat
  BY DEF ConfigType
<1>3. \/ c.handler = "write" /\ c.pending = cfg.pipeline + c.prefixlen /\ c.prefix_pending = c.prefixlen
      \/ /\ c.handler = "read" /\ c.written > 0
         /\ c.prefix_pending < c.pending /\ c.pending <= c.prefix_pending + cfg.pipeline
  BY DEF Good, Awaiting
<1>4. QED
  BY <1>1, <1>2, <1>3 DEF Awaited, Unanswered

----------------------------------------------------------------------------
(* The clients of a round. *)

(* createClient and createMissingClients give as many clients as wanted,   *)
(* and one at least.                                                       *)
LEMMA ClientsCreated ==
  ASSUME NEW cfg \in ConfigType, NEW cmd \in Seq({"word", "rand"}),
         cfg.numclients < Cardinality(Handle), CreateClients(cfg, cmd)
  PROVE  /\ DOMAIN client' \in SUBSET Handle /\ DOMAIN client' # {}
         /\ liveclients' = Cardinality(DOMAIN client')
         /\ liveclients' = AtLeast(1, cfg.numclients)
         /\ \A h \in DOMAIN client' : New(cfg, Copies(cfg.pipeline, cmd), client'[h])
<1> DEFINE first == CHOOSE h \in Handle : TRUE
           c == FirstClient(cfg, cmd)
           n == AtLeast(0, cfg.numclients - 1)
           fresh == Fresh(n, {first})
           all == {first} \cup fresh
           sent == Copies(cfg.pipeline, cmd)
<1>1. client' = [h \in all |-> IF h = first THEN c ELSE Clone(cfg, c)] /\ liveclients' = Cardinality(all)
  BY DEF CreateClients
<1>2. first \in Handle
  BY CommandLineAssumption
<1>3. /\ cfg.numclients \in Int /\ n \in Nat /\ Cardinality(Handle) \in Nat
      /\ n + 1 <= Cardinality(Handle) /\ n + 1 = AtLeast(1, cfg.numclients)
  <2>1. cfg.numclients \in Int /\ Cardinality(Handle) \in Nat /\ Cardinality(Handle) > 0
    <3>1. IsFiniteSet(Handle) /\ Handle # {}
      BY CommandLineAssumption
    <3>2. Cardinality(Handle) \in Nat /\ Cardinality(Handle) # 0
      BY <3>1, FS_CardinalityType, FS_EmptySet
    <3>3. QED
      BY <3>2 DEF ConfigType
  <2>2. QED
    BY <2>1 DEF AtLeast
<1> HIDE DEF first, c, n, sent
<1>4. {first} \in SUBSET Handle /\ Cardinality({first}) = 1
  BY <1>2, FS_Singleton
<1>5. /\ fresh \in SUBSET Handle /\ Cardinality({first} \cup fresh) = 1 + n
  <2> DEFINE used == {first}
  <2>1. used \in SUBSET Handle /\ Cardinality(used) = 1
    BY <1>4
  <2> HIDE DEF used
  <2>2. n + Cardinality(used) <= Cardinality(Handle)
    BY <1>3, <2>1
  <2>3. Fresh(n, used) \in SUBSET Handle /\ Cardinality(used \cup Fresh(n, used)) = Cardinality(used) + n
    BY <1>3, <2>1, <2>2, FreshIsNew
  <2>4. QED
    BY <2>1, <2>3 DEF used
<1>6. cfg.pipeline \in Nat \ {0}
  BY DEF ConfigType
<1>7. sent \in Seq({"word", "rand"})
  BY <1>6, CopiesType DEF sent
<1>8. New(cfg, sent, c)
  BY FirstClientIsNew DEF sent, c
<1>9. New(cfg, sent, Clone(cfg, c))
  BY <1>7, <1>8, CloneIsNew DEF New
<1> HIDE DEF fresh
<1>10. DOMAIN client' = all
  BY <1>1
<1>11. \A h \in all : New(cfg, sent, client'[h])
  BY <1>1, <1>8, <1>9
<1>12. DOMAIN client' \in SUBSET Handle /\ DOMAIN client' # {}
  BY <1>2, <1>5, <1>10
<1>13. liveclients' = Cardinality(DOMAIN client') /\ liveclients' = AtLeast(1, cfg.numclients)
  <2>1. liveclients' = 1 + n
    BY <1>1, <1>5
  <2>2. QED
    BY <1>1, <1>3, <1>10, <2>1
<1>14. QED
  BY <1>10, <1>11, <1>12, <1>13 DEF sent

(* A new client of a benchmark is ready to write.                          *)
LEMMA NewIsGood ==
  ASSUME NEW cfg \in ConfigType, ~cfg.idlemode, NEW sent \in Seq({"word", "rand"}), sent # <<>>,
         NEW c, New(cfg, sent, c)
  PROVE  Good(cfg, sent, c) /\ Awaited(c) = 0 /\ c.written = 0
<1>1. /\ Sound(cfg, sent, c) /\ c.written = 0 /\ c.handler = "write"
      /\ c.pending = cfg.pipeline + c.prefixlen /\ c.prefix_pending = c.prefixlen
  BY DEF New
<1>2. Len(c.obuf) > 0
  <2>1. Len(c.obuf) = c.prefixlen + Len(sent) /\ Len(sent) > 0 /\ c.prefixlen \in Nat
    BY <1>1, SoundFields DEF Sound, Intact
  <2>2. QED
    BY <2>1
<1>3. QED
  BY <1>1, <1>2 DEF Good, Awaiting, Awaited

----------------------------------------------------------------------------
(* The inductive invariant. *)

Running == phase \in {"between", "loop", "report"}

(* The options are read, and a round is one of the plan. *)
Settled ==
  /\ config \in ConfigType
  /\ plan \in Seq(CommandType)
  /\ round \in Nat
  /\ failures \in Nat
  /\ phase = "start" => liveclients = 0 /\ finished = 0
  /\ Running =>
       /\ config.requests >= 0
       /\ config.numclients < Cardinality(Handle)
       /\ ~config.idlemode
       /\ DOMAIN latency = 0 .. config.requests - 1
  /\ phase \in {"loop", "report"} => round > 0 /\ plan # <<>>

(* What a request of this round consists of. *)
Sent == Copies(config.pipeline, plan[((round - 1) % Len(plan)) + 1])

EachClient == phase = "loop" => \A h \in DOMAIN client : Good(config, Sent, client[h])

(* The latencies so far are of this round. *)
Measured ==
  phase \in {"loop", "report"} =>
    /\ \A slot \in 0 .. finished - 1 : latency[slot] = round
    /\ stop => finished = config.requests
    /\ phase = "report" => stop

(* The replies that are missing are on their way, or some client has yet   *)
(* to ask for them.                                                        *)
Progress ==
  phase = "loop" =>
    /\ finished = config.requests /\ config.requests > 0 /\ ~stop =>
         \E h \in DOMAIN client : client[h].handler = "read"
    /\ failures = 0 /\ finished < config.requests =>
         finished + Cardinality(Outstanding(client, config.pipeline))
           = config.pipeline * Least(issued, config.requests)
    /\ failures = 0 /\ finished < config.requests /\ issued <= config.requests =>
         DOMAIN client # {} \/ (config.numclients < 1 /\ ~config.keepalive)

IInv ==
  /\ TypeOK /\ Settled /\ EachClient /\ LiveClientsCounted /\ Measured /\ Progress
  /\ NoPrematureAbort

(* A request of a round has words.                                         *)
LEMMA RoundCommand ==
  ASSUME config \in ConfigType, plan \in Seq(CommandType), plan # <<>>, NEW r \in Nat
  PROVE  /\ plan[(r % Len(plan)) + 1] \in Seq({"word", "rand"})
         /\ Copies(config.pipeline, plan[(r % Len(plan)) + 1]) \in Seq({"word", "rand"})
         /\ Copies(config.pipeline, plan[(r % Len(plan)) + 1]) # <<>>
<1> DEFINE n == Len(plan)
           i == (r % n) + 1
           cmd == plan[i]
           sent == Copies(config.pipeline, cmd)
<1>1. n \in Nat /\ n > 0
  OBVIOUS
<1>2. i \in 1 .. n
  <2> HIDE DEF n
  <2>1. r % n \in 0 .. n - 1
    BY <1>1
  <2>2. QED
    BY <1>1, <2>1
<1> HIDE DEF i
<1>3. cmd \in CommandType
  BY <1>2
<1> HIDE DEF cmd
<1>4. cmd \in Seq({"word", "rand"}) /\ cmd # <<>>
  BY <1>3 DEF CommandType
<1>5. config.pipeline \in Nat \ {0}
  BY DEF ConfigType
<1>6. sent \in Seq({"word", "rand"}) /\ Len(sent) > 0
  BY <1>4, <1>5, CopiesType
<1> HIDE DEF sent
<1>7. sent # <<>>
  BY <1>6
<1>8. QED
  BY <1>4, <1>6, <1>7 DEF sent, cmd, i, n

(* What a round sends is made of words and is not empty.                   *)
LEMMA SentType ==
  ASSUME Settled, phase = "loop"
  PROVE  Sent \in Seq({"word", "rand"}) /\ Sent # <<>>
<1>1. round - 1 \in Nat
  BY DEF Settled
<1>2. config \in ConfigType /\ plan \in Seq(CommandType) /\ plan # <<>>
  BY DEF Settled
<1>3. QED
  BY <1>1, <1>2, RoundCommand DEF Sent

(* The clients are finitely many.                                          *)
LEMMA FiniteClients ==
  ASSUME NEW D \in SUBSET Handle
  PROVE  IsFiniteSet(D) /\ Cardinality(D) \in Nat
  BY CommandLineAssumption, FS_Subset, FS_CardinalityType

(* A good client has its type.                                             *)
LEMMA GoodType ==
  ASSUME NEW cfg, NEW sent, NEW c, Good(cfg, sent, c)
  PROVE  /\ c \in ClientType /\ Len(c.randptr) <= c.room
         /\ c.handler # "read" => c.written < Len(c.obuf)
  BY DEF Good, Sound, ClientFits, Awaiting

(* A step of the loop that leaves the round as it is.                      *)
LEMMA LoopStep ==
  ASSUME IInv, phase = "loop", UNCHANGED <<config, plan, round, phase>>,
         DOMAIN client' \in SUBSET Handle,
         \A h \in DOMAIN client' : Good(config, Sent, client'[h]),
         liveclients' = Cardinality(DOMAIN client'),
         liveclients' <= AtLeast(1, config.numclients),
         issued' \in Nat, finished' \in 0 .. config.requests, failures' \in Nat,
         DOMAIN latency' = DOMAIN latency, due' \in SUBSET Handle
  PROVE  /\ TypeOK' /\ Settled' /\ EachClient' /\ LiveClientsCounted' /\ NoPrematureAbort'
<1>1. config.requests \in Int /\ config.requests >= 0
  BY DEF IInv, Settled, Running, ConfigType
<1>2. Sent' = Sent
  BY DEF Sent
<1>3. EachClient'
  BY <1>2 DEF EachClient
<1>4. TypeOK'
  <2>1. liveclients' \in Nat
    BY FiniteClients
  <2>2. finished' \in 0 .. AtLeast(0, config.requests)
    BY <1>1 DEF AtLeast
  <2>3. \A h \in DOMAIN client' :
          /\ client'[h] \in ClientType /\ Len(client'[h].randptr) <= client'[h].room
          /\ client'[h].handler # "read" => client'[h].written < Len(client'[h].obuf)
    BY GoodType
  <2>4. QED
    BY <2>1, <2>2, <2>3 DEF TypeOK
<1>5. Settled'
  BY DEF IInv, Settled, Running
<1>6. LiveClientsCounted'
  BY DEF LiveClientsCounted
<1>7. NoPrematureAbort'
  BY DEF NoPrematureAbort
<1>8. QED
  BY <1>3, <1>4, <1>5, <1>6, <1>7

(* The program stops where it is.                                          *)
LEMMA EndStep ==
  ASSUME IInv, phase \notin {"start", "idle"},
         phase' \in {"aborted", "error", "killed by SIGFPE", "done"},
         UNCHANGED <<config, plan, round, finished, latency, client, liveclients>>,
         issued' \in Nat, due' \in SUBSET Handle, failures' \in Nat, NoPrematureAbort'
  PROVE  IInv'
<1>1. TypeOK'
  BY DEF IInv, TypeOK
<1>2. Settled'
  BY DEF IInv, Settled, Running
<1>3. EachClient' /\ Measured' /\ Progress'
  BY DEF EachClient, Measured, Progress
<1>4. LiveClientsCounted'
  BY DEF IInv, LiveClientsCounted
<1>5. QED
  BY <1>1, <1>2, <1>3, <1>4 DEF IInv

(* main starts with nothing read and no clients.                           *)
LEMMA InitInvariant == Init => IInv
<1> SUFFICES ASSUME Init
             PROVE  IInv
  OBVIOUS
<1>1. config \in ConfigType /\ config.requests = 100000 /\ config.numclients = 50
  BY DEF Init, Defaults, ConfigType
<1>2. DOMAIN client = {} /\ Cardinality(DOMAIN client) = 0 /\ liveclients = 0
  <2>1. client = <<>> /\ liveclients = 0
    BY DEF Init
  <2>2. DOMAIN client = {}
    BY <2>1
  <2>3. QED
    BY <2>1, <2>2, FS_EmptySet
<1>3. TypeOK
  BY <1>1, <1>2 DEF Init, TypeOK, AtLeast
<1>4. Settled
  <2>1. plan \in Seq(CommandType)
    BY DEF Init
  <2>2. QED
    BY <1>1, <2>1 DEF Init, Settled, Running
<1>5. LiveClientsCounted
  BY <1>1, <1>2 DEF LiveClientsCounted, AtLeast
<1>6. EachClient /\ Measured /\ Progress /\ NoPrematureAbort
  BY DEF Init, EachClient, Measured, Progress, NoPrematureAbort
<1>7. QED
  BY <1>3, <1>4, <1>5, <1>6 DEF IInv

----------------------------------------------------------------------------
(* The actions. *)

(* The options leave what the benchmarks need.                             *)
LEMMA ReadCommandLineKeeps == IInv /\ ReadCommandLine => IInv'
<1> SUFFICES ASSUME IInv, ReadCommandLine
             PROVE  IInv'
  OBVIOUS
<1>1. phase = "start" /\ UNCHANGED <<round, issued, finished, stop, due, failures>>
  BY DEF ReadCommandLine
<1>2. PICK argv \in CommandLines :
        LET parsed == parseOptions(argv)
        IN  /\ config' = parsed.config
            /\ latency' = [slot \in 0 .. config'.requests - 1 |-> 0]
            /\ plan' = IF parsed.command # <<>> THEN <<Command(parsed.command)>>
                       ELSE Selected(config')
            /\ phase' = CASE ~parsed.ok -> "usage"
                          [] parsed.ok /\ config'.requests < 0 -> "no memory"
                          [] OTHER -> IF config'.idlemode THEN "idle" ELSE "between"
            /\ IF phase' = "idle" THEN CreateClients(config', <<>>)
               ELSE UNCHANGED <<client, liveclients>>
  BY DEF ReadCommandLine
<1> DEFINE parsed == parseOptions(argv)
           cfg == parsed.config
<1>3. /\ config' = cfg
      /\ latency' = [slot \in 0 .. cfg.requests - 1 |-> 0]
      /\ plan' = IF parsed.command # <<>> THEN <<Command(parsed.command)>> ELSE Selected(cfg)
      /\ phase' = CASE ~parsed.ok -> "usage"
                    [] parsed.ok /\ cfg.requests < 0 -> "no memory"
                    [] OTHER -> IF cfg.idlemode THEN "idle" ELSE "between"
      /\ IF phase' = "idle" THEN CreateClients(cfg, <<>>)
         ELSE UNCHANGED <<client, liveclients>>
  BY <1>2
<1>4. /\ parsed.ok \in BOOLEAN /\ cfg \in ConfigType /\ parsed.command \in Seq(WordType)
  <2>1. argv \in Seq(WordType)
    BY CommandLineAssumption DEF WordType
  <2>2. QED
    BY <2>1, ParsedType
<1>5. parsed.ok /\ cfg.requests >= 0 => cfg.numclients < Cardinality(Handle)
  BY CommandLineAssumption
<1> HIDE DEF cfg
<1>6. cfg.requests \in Int /\ cfg.numclients \in Int
  BY <1>4 DEF ConfigType
<1>7. /\ phase' \in {"usage", "no memory", "idle", "between"}
      /\ phase' \in {"idle", "between"} => parsed.ok /\ cfg.requests >= 0
      /\ phase' = "between" => ~cfg.idlemode
  <2>1. CASE ~parsed.ok
    <3>1. ~(parsed.ok /\ cfg.requests < 0)
      BY <2>1
    <3>2. phase' = "usage"
      BY <1>3, <2>1, <3>1
    <3>3. QED
      BY <3>2
  <2>2. CASE parsed.ok /\ cfg.requests < 0
    <3>1. phase' = "no memory"
      BY <1>3, <2>2
    <3>2. QED
      BY <3>1
  <2>3. CASE parsed.ok /\ ~(cfg.requests < 0)
    <3>1. phase' = IF cfg.idlemode THEN "idle" ELSE "between"
      BY <1>3, <2>3
    <3>2. cfg.requests >= 0
      BY <1>6, <2>3
    <3>3. QED
      BY <2>3, <3>1, <3>2
  <2>4. QED
    BY <2>1, <2>2, <2>3
<1>8. plan' \in Seq(CommandType)
  <2>1. CASE parsed.command # <<>>
    <3>1. Command(parsed.command) \in CommandType
      BY <1>4, <2>1, CommandOfWords
    <3>2. plan' = <<Command(parsed.command)>>
      BY <1>3, <2>1
    <3>3. QED
      BY <3>1, <3>2
  <2>2. CASE parsed.command = <<>>
    BY <1>3, <2>2, SelectedType
  <2>3. QED
    BY <2>1, <2>2
<1> HIDE DEF parsed
<1>9. liveclients = 0 /\ finished = 0 /\ round \in Nat /\ failures \in Nat
  BY <1>1 DEF IInv, Settled
<1>10. /\ DOMAIN client' \in SUBSET Handle
       /\ \A h \in DOMAIN client' :
            /\ client'[h] \in ClientType /\ Len(client'[h].randptr) <= client'[h].room
            /\ phase' # "idle" /\ client'[h].handler # "read" =>
                 client'[h].written < Len(client'[h].obuf)
       /\ liveclients' = Cardinality(DOMAIN client')
       /\ liveclients' <= AtLeast(1, cfg.numclients) /\ liveclients' \in Nat
  <2>1. CASE phase' = "idle"
    <3>1. CreateClients(cfg, <<>>) /\ cfg.numclients < Cardinality(Handle)
      BY <1>3, <1>5, <1>7, <2>1
    <3>2. <<>> \in Seq({"word", "rand"})
      OBVIOUS
    <3>3. /\ DOMAIN client' \in SUBSET Handle
          /\ liveclients' = Cardinality(DOMAIN client')
          /\ liveclients' = AtLeast(1, cfg.numclients)
          /\ \A h \in DOMAIN client' : New(cfg, Copies(cfg.pipeline, <<>>), client'[h])
      BY <1>4, <3>1, <3>2, ClientsCreated
    <3>4. AtLeast(1, cfg.numclients) \in Nat
      BY <1>6 DEF AtLeast
    <3>5. \A h \in DOMAIN client' :
            client'[h] \in ClientType /\ Len(client'[h].randptr) <= client'[h].room
      BY <3>3 DEF New, Sound, ClientFits
    <3>6. QED
      BY <2>1, <3>3, <3>4, <3>5
  <2>2. CASE phase' # "idle"
    <3>1. UNCHANGED <<client, liveclients>>
      BY <1>3, <2>2
    <3>2. 0 <= AtLeast(1, cfg.numclients)
      BY <1>6 DEF AtLeast
    <3>3. QED
      BY <1>1, <1>9, <3>1, <3>2 DEF IInv, TypeOK, LiveClientsCounted
  <2>3. QED
    BY <2>1, <2>2
<1>11. TypeOK'
  <2>1. 0 \in 0 .. AtLeast(0, cfg.requests)
    BY <1>6 DEF AtLeast
  <2>2. finished' \in 0 .. AtLeast(0, config'.requests)
    BY <1>1, <1>3, <1>9, <2>1
  <2>3. issued' \in Nat /\ due' \subseteq Handle
    BY <1>1 DEF IInv, TypeOK
  <2>4. QED
    BY <1>7, <1>10, <2>2, <2>3 DEF TypeOK
<1>12. Settled'
  <2>1. DOMAIN latency' = 0 .. config'.requests - 1
    BY <1>3
  <2>2. QED
    BY <1>1, <1>3, <1>4, <1>5, <1>7, <1>8, <1>9, <2>1 DEF Settled, Running
<1>13. LiveClientsCounted'
  BY <1>3, <1>10 DEF LiveClientsCounted
<1>14. EachClient' /\ Measured' /\ Progress' /\ NoPrematureAbort'
  BY <1>7 DEF EachClient, Measured, Progress, NoPrematureAbort
<1>15. QED
  BY <1>11, <1>12, <1>13, <1>14 DEF IInv

(* A round begins with nothing asked for and nothing counted.              *)
LEMMA StartBenchmarkKeeps == IInv /\ StartBenchmark => IInv'
<1> SUFFICES ASSUME IInv, StartBenchmark
             PROVE  IInv'
  OBVIOUS
<1>1. /\ phase = "between" /\ MoreRounds
      /\ issued' = 0 /\ finished' = 0 /\ round' = round + 1
      /\ CreateClients(config, plan[(round % Len(plan)) + 1])
      /\ phase' = "loop" /\ stop' = FALSE /\ due' = {}
      /\ UNCHANGED <<config, plan, latency, failures>>
  BY DEF StartBenchmark
<1>2. /\ config \in ConfigType /\ plan \in Seq(CommandType) /\ round \in Nat /\ failures \in Nat
      /\ config.requests >= 0 /\ config.numclients < Cardinality(Handle) /\ ~config.idlemode
      /\ DOMAIN latency = 0 .. config.requests - 1
  BY <1>1 DEF IInv, Settled, Running
<1>3. config.requests \in Int /\ config.numclients \in Int /\ config.pipeline \in Nat
  BY <1>2 DEF ConfigType
<1>4. plan # <<>>
  <2>1. ASSUME plan = <<>>
        PROVE  FALSE
    <3>1. Len(plan) = 0
      BY <2>1
    <3>2. MaxPasses * Len(plan) = 0
      BY <3>1, BoundsAssumption
    <3>3. QED
      BY <1>1, <1>2, <3>1, <3>2 DEF MoreRounds
  <2>2. QED
    BY <2>1
<1> DEFINE cmd == plan[(round % Len(plan)) + 1]
           sent == Copies(config.pipeline, cmd)
<1>5. cmd \in Seq({"word", "rand"}) /\ sent \in Seq({"word", "rand"}) /\ sent # <<>>
  BY <1>2, <1>4, RoundCommand
<1>6. Sent' = sent
  <2>1. round' - 1 = round
    BY <1>1, <1>2
  <2>2. QED
    BY <1>1, <2>1 DEF Sent
<1> HIDE DEF cmd
<1>7. /\ DOMAIN client' \in SUBSET Handle /\ DOMAIN client' # {}
      /\ liveclients' = Cardinality(DOMAIN client')
      /\ liveclients' = AtLeast(1, config.numclients)
      /\ \A h \in DOMAIN client' : New(config, sent, client'[h])
  <2>1. CreateClients(config, cmd)
    BY <1>1 DEF cmd
  <2>2. QED
    BY <1>2, <1>5, <2>1, ClientsCreated
<1> HIDE DEF sent
<1>8. \A h \in DOMAIN client' : Good(config, sent, client'[h]) /\ Awaited(client'[h]) = 0
  BY <1>2, <1>5, <1>7, NewIsGood
<1>9. EachClient'
  BY <1>1, <1>6, <1>8 DEF EachClient
<1>10. TypeOK'
  <2>1. AtLeast(1, config.numclients) \in Nat /\ 0 \in 0 .. AtLeast(0, config.requests)
    BY <1>3 DEF AtLeast
  <2>2. \A h \in DOMAIN client' :
          /\ client'[h] \in ClientType /\ Len(client'[h].randptr) <= client'[h].room
          /\ client'[h].handler # "read" => client'[h].written < Len(client'[h].obuf)
    BY <1>8, GoodType
  <2>3. QED
    BY <1>1, <1>7, <2>1, <2>2 DEF TypeOK
<1>11. Settled'
  BY <1>1, <1>2, <1>4 DEF Settled, Running
<1>12. LiveClientsCounted'
  <2>1. AtLeast(1, config.numclients) <= AtLeast(1, config.numclients)
    BY <1>3 DEF AtLeast
  <2>2. QED
    BY <1>1, <1>7, <2>1 DEF LiveClientsCounted
<1>13. Measured'
  BY <1>1 DEF Measured
<1>14. Progress'
  <2>1. Cardinality(Outstanding(client', config.pipeline)) = 0
    BY <1>3, <1>8, NothingOutstanding
  <2>2. config.requests > 0 => config.pipeline * Least(0, config.requests) = 0
    BY <1>3 DEF Least
  <2>3. \A i \in Int : 0 < i => Least(0, i) = 0
    BY DEF Least
  <2>4. (finished' = config'.requests /\ config'.requests > 0) => FALSE
    BY <1>1, <1>3
  <2>5. finished' < config'.requests =>
          finished' + Cardinality(Outstanding(client', config'.pipeline))
            = config'.pipeline * Least(issued', config'.requests)
    BY <1>1, <1>3, <2>1, <2>2
  <2>6. QED
    BY <1>7, <2>4, <2>5 DEF Progress
<1>15. NoPrematureAbort'
  BY <1>1 DEF NoPrematureAbort
<1>16. QED
  BY <1>9, <1>10, <1>11, <1>12, <1>13, <1>14, <1>15 DEF IInv

(* Between the rounds there are no clients.                                *)
LEMMA ReportKeeps == IInv /\ Report => IInv'
<1> SUFFICES ASSUME IInv, Report
             PROVE  IInv'
  OBVIOUS
<1>1. /\ phase = "report" /\ phase' = "between" /\ client' = <<>>
      /\ liveclients' = liveclients - Cardinality(DOMAIN client)
      /\ UNCHANGED <<config, plan, round, issued, finished, latency, stop, due, failures>>
  BY DEF Report
<1>2. DOMAIN client' = {} /\ Cardinality(DOMAIN client') = 0
  <2>1. DOMAIN client' = {}
    BY <1>1
  <2>2. QED
    BY <2>1, FS_EmptySet
<1>3. liveclients' = 0
  BY <1>1 DEF IInv, TypeOK, LiveClientsCounted
<1>4. TypeOK'
  BY <1>1, <1>2, <1>3 DEF IInv, TypeOK
<1>5. Settled'
  BY <1>1 DEF IInv, Settled, Running
<1>6. LiveClientsCounted'
  <2>1. 0 <= AtLeast(1, config.numclients)
    BY DEF IInv, Settled, ConfigType, AtLeast
  <2>2. QED
    BY <1>1, <1>2, <1>3, <2>1 DEF LiveClientsCounted
<1>7. EachClient' /\ Measured' /\ Progress' /\ NoPrematureAbort'
  BY <1>1 DEF EachClient, Measured, Progress, NoPrematureAbort
<1>8. QED
  BY <1>4, <1>5, <1>6, <1>7 DEF IInv

(* main returns after the last round.                                      *)
LEMMA MainReturnsKeeps == IInv /\ MainReturns => IInv'
<1> SUFFICES ASSUME IInv, MainReturns
             PROVE  IInv'
  OBVIOUS
<1>1. /\ phase = "between" /\ phase' = "done"
      /\ UNCHANGED <<config, plan, round, issued, finished, latency, client,
                     liveclients, stop, due, failures>>
  BY DEF MainReturns
<1>2. issued' \in Nat /\ due' \in SUBSET Handle /\ failures' \in Nat /\ NoPrematureAbort'
  BY <1>1 DEF IInv, TypeOK, Settled, NoPrematureAbort
<1>3. QED
  BY <1>1, <1>2, EndStep

(* The loop ends with its requests finished.                               *)
LEMMA LoopEndKeeps == IInv /\ aeMainReturns => IInv'
<1> SUFFICES ASSUME IInv, aeMainReturns
             PROVE  IInv'
  OBVIOUS
<1>1. /\ phase = "loop" /\ stop /\ phase' = "report"
      /\ UNCHANGED <<config, plan, round, issued, finished, latency, client,
                     liveclients, stop, due, failures>>
  BY DEF aeMainReturns
<1>2. TypeOK'
  BY <1>1 DEF IInv, TypeOK
<1>3. Settled'
  BY <1>1 DEF IInv, Settled, Running
<1>4. LiveClientsCounted'
  BY <1>1 DEF IInv, LiveClientsCounted
<1>5. Measured'
  BY <1>1 DEF IInv, Measured
<1>6. EachClient' /\ Progress' /\ NoPrematureAbort'
  BY <1>1 DEF EachClient, Progress, NoPrematureAbort
<1>7. QED
  BY <1>2, <1>3, <1>4, <1>5, <1>6 DEF IInv

(* The timer gives up when no client is left, and then none could have     *)
(* brought the requests that are missing.                                  *)
LEMMA ThroughputKeeps == IInv /\ showThroughput => IInv'
<1> SUFFICES ASSUME IInv, showThroughput
             PROVE  IInv'
  OBVIOUS
<1>1. /\ phase = "loop" /\ liveclients = 0 /\ phase' = "aborted"
      /\ UNCHANGED <<config, plan, round, issued, finished, latency, client,
                     liveclients, stop, due, failures>>
  BY DEF showThroughput, Die
<1>2. /\ config \in ConfigType /\ config.requests \in Int /\ config.requests >= 0
      /\ config.pipeline \in Nat \ {0} /\ issued \in Nat /\ finished \in Int
      /\ finished <= config.requests
  <2>1. /\ config \in ConfigType /\ config.requests >= 0 /\ issued \in Nat
        /\ finished \in 0 .. AtLeast(0, config.requests)
    BY <1>1 DEF IInv, Settled, Running, TypeOK
  <2>2. config.requests \in Int /\ config.pipeline \in Nat \ {0}
    BY <2>1 DEF ConfigType
  <2>3. QED
    BY <2>1, <2>2 DEF AtLeast
<1>3. DOMAIN client = {}
  <2>1. IsFiniteSet(DOMAIN client) /\ Cardinality(DOMAIN client) = 0
    BY <1>1, FiniteClients DEF IInv, TypeOK, LiveClientsCounted
  <2>2. QED
    BY <2>1, FS_EmptySet
<1>4. Cardinality(Outstanding(client, config.pipeline)) = 0
  BY <1>2, <1>3, NothingOutstanding
<1>5. ASSUME failures = 0, finished # config.requests
      PROVE  config.numclients < 1 /\ ~config.keepalive
  <2>1. finished < config.requests
    BY <1>2, <1>5
  <2>2. finished + 0 = config.pipeline * Least(issued, config.requests)
    BY <1>1, <1>4, <1>5, <2>1 DEF IInv, Progress
  <2>3. issued <= config.requests
    <3>1. ASSUME issued > config.requests
          PROVE  FALSE
      <4> DEFINE R == config.requests
                 P == config.pipeline
      <4>1. Least(issued, R) = R
        BY <1>2, <3>1 DEF Least
      <4>2. finished = P * R /\ P \in Nat \ {0} /\ R \in Nat /\ finished < R /\ finished \in Int
        BY <1>2, <2>1, <2>2, <4>1
      <4> HIDE DEF P, R
      <4>3. R <= P * R
        <5>1. (P - 1) * R >= 0
          BY <4>2
        <5>2. (P - 1) * R = P * R - R
          BY <4>2
        <5>3. P * R \in Int
          BY <4>2
        <5>4. QED
          BY <4>2, <5>1, <5>2, <5>3
      <4>4. QED
        BY <4>2, <4>3
    <3>2. QED
      BY <1>2, <3>1
  <2>4. QED
    BY <1>1, <1>3, <1>5, <2>1, <2>3 DEF IInv, Progress
<1>6. ASSUME finished = config.requests, config.requests > 0
      PROVE  stop
  BY <1>1, <1>3, <1>6 DEF IInv, Progress
<1>7. NoPrematureAbort'
  BY <1>1, <1>5, <1>6 DEF NoPrematureAbort
<1>8. issued' \in Nat /\ due' \in SUBSET Handle /\ failures' \in Nat
  BY <1>1 DEF IInv, TypeOK, Settled
<1>9. phase \notin {"start", "idle"} /\ phase' \in {"aborted", "error", "killed by SIGFPE", "done"}
  BY <1>1
<1>10. QED
  BY <1>1, <1>7, <1>8, <1>9, EndStep

(* A connection that is lost ends the program.                             *)
LEMMA ConnectionLostKeeps == IInv /\ ConnectionLost => IInv'
<1> SUFFICES ASSUME IInv, ConnectionLost
             PROVE  IInv'
  OBVIOUS
<1>1. /\ phase \in {"loop", "between"} /\ phase' = "error"
      /\ UNCHANGED <<config, plan, round, issued, finished, latency, client,
                     liveclients, stop, due, failures>>
  BY DEF ConnectionLost, Die
<1>2. issued' \in Nat /\ due' \in SUBSET Handle /\ failures' \in Nat /\ NoPrematureAbort'
  BY <1>1 DEF IInv, TypeOK, Settled, NoPrematureAbort
<1>3. phase \notin {"start", "idle"} /\ phase' \in {"aborted", "error", "killed by SIGFPE", "done"}
  BY <1>1
<1>4. QED
  BY <1>1, <1>2, <1>3, EndStep

(* What holds of a client whose event the loop handles.                    *)
LEMMA HandledClient ==
  ASSUME IInv, phase = "loop", NEW h \in DOMAIN client
  PROVE  /\ config \in ConfigType
         /\ config.requests \in Nat /\ config.pipeline \in Nat \ {0} /\ config.numclients \in Int
         /\ Sent \in Seq({"word", "rand"}) /\ Sent # <<>>
         /\ \A g \in DOMAIN client : Good(config, Sent, client[g])
         /\ Good(config, Sent, client[h])
         /\ DOMAIN client \in SUBSET Handle /\ IsFiniteSet(DOMAIN client)
         /\ liveclients = Cardinality(DOMAIN client) /\ liveclients \in Nat /\ liveclients > 0
         /\ liveclients <= AtLeast(1, config.numclients)
         /\ issued \in Nat /\ finished \in 0 .. config.requests /\ failures \in Nat
         /\ due \in SUBSET Handle
         /\ DOMAIN latency = 0 .. config.requests - 1
<1>1. config \in ConfigType /\ config.requests >= 0 /\ failures \in Nat
      /\ DOMAIN latency = 0 .. config.requests - 1
  BY DEF IInv, Settled, Running
<1>2. config.requests \in Nat /\ config.pipeline \in Nat \ {0} /\ config.numclients \in Int
  BY <1>1 DEF ConfigType
<1>3. Sent \in Seq({"word", "rand"}) /\ Sent # <<>>
  BY SentType DEF IInv
<1>4. \A g \in DOMAIN client : Good(config, Sent, client[g])
  BY DEF IInv, EachClient
<1>5. DOMAIN client \in SUBSET Handle /\ issued \in Nat /\ due \in SUBSET Handle
      /\ finished \in 0 .. AtLeast(0, config.requests)
  BY DEF IInv, TypeOK
<1>6. finished \in 0 .. config.requests
  BY <1>2, <1>5 DEF AtLeast
<1>7. IsFiniteSet(DOMAIN client) /\ Cardinality(DOMAIN client) \in Nat
  BY <1>5, FiniteClients
<1>8. Cardinality(DOMAIN client) # 0
  BY <1>7, FS_EmptySet
<1>9. liveclients = Cardinality(DOMAIN client) /\ liveclients <= AtLeast(1, config.numclients)
  BY DEF IInv, LiveClientsCounted
<1>10. QED
  BY <1>1, <1>2, <1>3, <1>4, <1>5, <1>6, <1>7, <1>8, <1>9

(* One client less.                                                        *)
LEMMA FreeClient ==
  ASSUME IInv, phase = "loop", NEW h \in DOMAIN client, freeClient(h)
  PROVE  /\ DOMAIN client' = DOMAIN client \ {h}
         /\ \A g \in DOMAIN client' : client'[g] = client[g]
         /\ liveclients' = Cardinality(DOMAIN client')
         /\ liveclients' <= AtLeast(1, config.numclients)
         /\ OfOthers(client', config.pipeline, h) = OfOthers(client, config.pipeline, h)
         /\ Outstanding(client', config.pipeline) = OfOthers(client', config.pipeline, h)
<1>1. client' = [g \in DOMAIN client \ {h} |-> client[g]] /\ liveclients' = liveclients - 1
  BY DEF freeClient, Without
<1>2. DOMAIN client' = DOMAIN client \ {h} /\ \A g \in DOMAIN client' : client'[g] = client[g]
  BY <1>1
<1>3. /\ IsFiniteSet(DOMAIN client) /\ liveclients = Cardinality(DOMAIN client) /\ liveclients \in Nat
      /\ liveclients <= AtLeast(1, config.numclients) /\ config.pipeline \in Nat
      /\ config.numclients \in Int
  BY HandledClient
<1>4. Cardinality(DOMAIN client \ {h}) = Cardinality(DOMAIN client) - 1
  BY <1>3, FS_RemoveElement
<1>5. OfOthers(client', config.pipeline, h) = OfOthers(client, config.pipeline, h)
  <2> DEFINE old == client
             new == client'
             P == config.pipeline
  <2>1. P \in Nat
    BY <1>3
  <2>2. \A g \in DOMAIN old : g # h => g \in DOMAIN new /\ new[g] = old[g]
    BY <1>2
  <2>3. \A g \in DOMAIN new : g # h => g \in DOMAIN old \/ Awaited(new[g]) = 0
    BY <1>2
  <2> HIDE DEF old, new, P
  <2>4. OfOthers(new, P, h) = OfOthers(old, P, h)
    BY <2>1, <2>2, <2>3, OthersKept
  <2>5. QED
    BY <2>4 DEF old, new, P
<1>6. Outstanding(client', config.pipeline) = OfOthers(client', config.pipeline, h)
  <2>1. h \notin DOMAIN client'
    BY <1>2
  <2>2. QED
    BY <1>3, <2>1, OutstandingOfOthers
<1>7. liveclients' <= AtLeast(1, config.numclients)
  <2>1. AtLeast(1, config.numclients) \in Int
    BY <1>3 DEF AtLeast
  <2>2. QED
    BY <1>1, <1>3, <2>1
<1>8. QED
  BY <1>1, <1>2, <1>3, <1>4, <1>5, <1>6, <1>7

(* What is on its way, with that of h apart.                               *)
LEMMA OutstandingNow ==
  ASSUME IInv, phase = "loop", NEW h \in DOMAIN client
  PROVE  /\ Cardinality(OfOthers(client, config.pipeline, h)) \in Nat
         /\ Cardinality(Outstanding(client, config.pipeline)) =
              Cardinality(OfOthers(client, config.pipeline, h)) + Awaited(client[h])
         /\ Awaited(client[h]) \in 0 .. config.pipeline
<1>1. /\ config \in ConfigType /\ config.pipeline \in Nat /\ IsFiniteSet(DOMAIN client)
      /\ Good(config, Sent, client[h])
  BY HandledClient
<1>2. Awaited(client[h]) \in 0 .. config.pipeline
  BY <1>1, AwaitedFits
<1>3. QED
  BY <1>1, <1>2, OutstandingSplit

(* One client changed.                                                     *)
LEMMA ChangedClient ==
  ASSUME IInv, phase = "loop", NEW h \in DOMAIN client, NEW d,
         client' = [client EXCEPT ![h] = d], Good(config, Sent, d), UNCHANGED liveclients
  PROVE  /\ DOMAIN client' = DOMAIN client /\ client'[h] = d
         /\ \A g \in DOMAIN client' : g # h => client'[g] = client[g]
         /\ \A g \in DOMAIN client' : Good(config, Sent, client'[g])
         /\ liveclients' = Cardinality(DOMAIN client')
         /\ liveclients' <= AtLeast(1, config.numclients)
         /\ Cardinality(OfOthers(client, config.pipeline, h)) \in Nat
         /\ Awaited(d) \in 0 .. config.pipeline
         /\ Cardinality(Outstanding(client', config.pipeline)) =
              Cardinality(OfOthers(client, config.pipeline, h)) + Awaited(d)
<1>1. /\ config \in ConfigType /\ config.pipeline \in Nat /\ IsFiniteSet(DOMAIN client)
      /\ liveclients = Cardinality(DOMAIN client) /\ liveclients <= AtLeast(1, config.numclients)
      /\ \A g \in DOMAIN client : Good(config, Sent, client[g])
  BY HandledClient
<1>2. /\ DOMAIN client' = DOMAIN client /\ client'[h] = d
      /\ \A g \in DOMAIN client' : g # h => client'[g] = client[g]
  OBVIOUS
<1>3. \A g \in DOMAIN client' : Good(config, Sent, client'[g])
  <2>1. ASSUME NEW g \in DOMAIN client'
        PROVE  Good(config, Sent, client'[g])
    <3>1. CASE g = h
      BY <1>2, <3>1
    <3>2. CASE g # h
      BY <1>1, <1>2, <3>2
    <3>3. QED
      BY <3>1, <3>2
  <2>2. QED
    BY <2>1
<1>4. Awaited(d) \in 0 .. config.pipeline
  BY <1>1, AwaitedFits
<1> DEFINE old == client
           new == client'
           P == config.pipeline
<1>5. P \in Nat /\ IsFiniteSet(DOMAIN new) /\ h \in DOMAIN new /\ new[h] = d
  BY <1>1, <1>2
<1>6. \A g \in DOMAIN old : g # h => g \in DOMAIN new /\ new[g] = old[g]
  BY <1>2
<1>7. \A g \in DOMAIN new : g # h => g \in DOMAIN old \/ Awaited(new[g]) = 0
  BY <1>2
<1>8. Awaited(new[h]) \in 0 .. P
  BY <1>4, <1>5
<1> HIDE DEF old, new, P
<1>9. OfOthers(new, P, h) = OfOthers(old, P, h)
  BY <1>5, <1>6, <1>7, OthersKept
<1>10. /\ Cardinality(OfOthers(new, P, h)) \in Nat
       /\ Cardinality(Outstanding(new, P)) = Cardinality(OfOthers(new, P, h)) + Awaited(new[h])
  BY <1>5, <1>8, OutstandingSplit
<1>11. QED
  BY <1>1, <1>2, <1>3, <1>4, <1>5, <1>9, <1>10 DEF old, new, P

(* A step of a writer: it is freed, stops the program or writes.           *)
LEMMA WriteKeeps ==
  ASSUME NEW h \in Handle, IInv, writeHandler(h)
  PROVE  IInv'
<1> DEFINE c == client[h]
           now == IF c.written = 0 THEN Begun(c) ELSE c
           R == config.requests
           P == config.pipeline
<1>1. /\ phase = "loop" /\ h \in DOMAIN client /\ c.handler = "write"
      /\ due' = due \ {h} /\ UNCHANGED stop
      /\ UNCHANGED <<config, plan, round, finished, latency>>
      /\ issued' = issued + (IF c.written = 0 THEN 1 ELSE 0)
  BY DEF writeHandler, MayHandle, Handled
<1>2. \/ Exhausted(c) /\ freeClient(h) /\ UNCHANGED <<phase, failures>>
      \/ /\ ~Exhausted(c) /\ phase' = "killed by SIGFPE"
         /\ UNCHANGED <<client, liveclients, failures>>
      \/ failures' = failures + 1 /\ freeClient(h) /\ UNCHANGED phase
      \/ /\ ~Exhausted(c)
         /\ \E n \in 1 .. Len(now.obuf) - now.written :
              client' = [client EXCEPT ![h] = Written(now, n)]
         /\ UNCHANGED <<phase, liveclients, failures>>
  BY DEF writeHandler
<1>3. /\ config \in ConfigType
      /\ R \in Nat /\ P \in Nat \ {0} /\ config.numclients \in Int
      /\ Sent \in Seq({"word", "rand"}) /\ Sent # <<>>
      /\ \A g \in DOMAIN client : Good(config, Sent, client[g])
      /\ Good(config, Sent, c)
      /\ DOMAIN client \in SUBSET Handle
      /\ issued \in Nat /\ finished \in 0 .. R /\ failures \in Nat
      /\ due \in SUBSET Handle
  BY <1>1, HandledClient
<1>4. c.written \in Nat
  BY <1>3, SoundFields DEF Good
<1>5. issued' \in Nat /\ due' \in SUBSET Handle
  BY <1>1, <1>3
<1>6. /\ Unanswered(c) = P
      /\ Awaited(c) = IF c.written > 0 THEN P ELSE 0
  BY <1>1, <1>3, AwaitedFits DEF Awaited
<1> HIDE DEF c, R, P
<1>7. /\ finished = R /\ R > 0 /\ ~stop => \E g \in DOMAIN client : client[g].handler = "read"
      /\ failures = 0 /\ finished < R =>
           finished + Cardinality(Outstanding(client, P)) = P * Least(issued, R)
      /\ failures = 0 /\ finished < R /\ issued <= R =>
           DOMAIN client # {} \/ (config.numclients < 1 /\ ~config.keepalive)
  BY <1>1 DEF IInv, Progress, R, P
<1>8. Measured' \/ phase' # "loop"
  BY <1>1 DEF IInv, Measured
<1>9. /\ Cardinality(OfOthers(client, P, h)) \in Nat
      /\ Cardinality(Outstanding(client, P)) = Cardinality(OfOthers(client, P, h)) + Awaited(c)
  BY <1>1, OutstandingNow DEF P, c
<1>10. ASSUME freeClient(h), UNCHANGED phase, failures' \in Nat,
              failures' = 0 => Exhausted(c) /\ failures = 0
       PROVE  IInv'
  <2>1. /\ DOMAIN client' = DOMAIN client \ {h}
        /\ \A g \in DOMAIN client' : client'[g] = client[g]
        /\ liveclients' = Cardinality(DOMAIN client')
        /\ liveclients' <= AtLeast(1, config.numclients)
        /\ OfOthers(client', P, h) = OfOthers(client, P, h)
        /\ Outstanding(client', P) = OfOthers(client', P, h)
    BY <1>1, <1>10, FreeClient DEF P
  <2>2. TypeOK' /\ Settled' /\ EachClient' /\ LiveClientsCounted' /\ NoPrematureAbort'
    <3>1. UNCHANGED <<config, plan, round, phase>> /\ DOMAIN latency' = DOMAIN latency
      BY <1>1, <1>10
    <3>2. DOMAIN client' \in SUBSET Handle /\ \A g \in DOMAIN client' : Good(config, Sent, client'[g])
      BY <1>3, <2>1
    <3>3. finished' \in 0 .. config.requests
      BY <1>1, <1>3 DEF R
    <3>4. QED
      BY <1>1, <1>5, <1>10, <2>1, <3>1, <3>2, <3>3, LoopStep
  <2>3. Progress'
    <3>1. ASSUME finished = R, R > 0, ~stop
          PROVE  \E g \in DOMAIN client' : client'[g].handler = "read"
      <4>1. PICK g \in DOMAIN client : client[g].handler = "read"
        BY <1>7, <3>1
      <4>2. g # h
        BY <1>1, <4>1 DEF c
      <4>3. QED
        BY <2>1, <4>1, <4>2
    <3>2. ASSUME failures' = 0, finished < R
          PROVE  /\ finished + Cardinality(Outstanding(client', P)) = P * Least(issued', R)
                 /\ ~(issued' <= R)
      <4>1. c.written = 0 /\ issued >= R /\ failures = 0
        BY <1>10, <3>2 DEF Exhausted, R
      <4>2. issued' = issued + 1 /\ Least(issued', R) = R /\ Least(issued, R) = R
        BY <1>1, <1>3, <4>1 DEF Least, c
      <4>3. Cardinality(Outstanding(client', P)) = Cardinality(Outstanding(client, P))
        BY <1>6, <1>9, <2>1, <4>1
      <4>4. finished + Cardinality(Outstanding(client', P)) = P * Least(issued', R)
        BY <1>7, <3>2, <4>1, <4>2, <4>3
      <4>5. ~(issued' <= R)
        BY <1>3, <4>1, <4>2
      <4>6. QED
        BY <4>4, <4>5
    <3>3. config' = config /\ finished' = finished /\ stop' = stop
      BY <1>1
    <3>4. QED
      BY <3>1, <3>2, <3>3 DEF Progress, R, P
  <2>4. Measured'
    BY <1>1, <1>8, <1>10
  <2>5. QED
    BY <2>2, <2>3, <2>4 DEF IInv
<1>11. CASE Exhausted(c) /\ freeClient(h) /\ UNCHANGED <<phase, failures>>
  BY <1>3, <1>10, <1>11
<1>12. CASE phase' = "killed by SIGFPE" /\ UNCHANGED <<client, liveclients, failures>>
  <2>1. NoPrematureAbort'
    BY <1>12 DEF NoPrematureAbort
  <2>2. phase \notin {"start", "idle"} /\ phase' \in {"aborted", "error", "killed by SIGFPE", "done"}
    BY <1>1, <1>12
  <2>3. failures' \in Nat
    BY <1>3, <1>12
  <2>4. QED
    BY <1>1, <1>5, <1>12, <2>1, <2>2, <2>3, EndStep
<1>13. CASE failures' = failures + 1 /\ freeClient(h) /\ UNCHANGED phase
  <2>1. failures' \in Nat /\ failures' # 0
    BY <1>3, <1>13
  <2>2. QED
    BY <1>10, <1>13, <2>1
<1>14. CASE /\ ~Exhausted(c)
            /\ \E n \in 1 .. Len(now.obuf) - now.written :
                 client' = [client EXCEPT ![h] = Written(now, n)]
            /\ UNCHANGED <<phase, liveclients, failures>>
  <2>1. PICK n \in 1 .. Len(now.obuf) - now.written :
          client' = [client EXCEPT ![h] = Written(now, n)]
    BY <1>14
  <2> DEFINE d == Written(now, n)
  <2>2. /\ Good(config, Sent, d) /\ d.written > 0
        /\ d.pending = c.pending /\ d.prefix_pending = c.prefix_pending
    <3>1. c.handler = "write" /\ now = IF c.written = 0 THEN Begun(c) ELSE c
      BY <1>1
    <3>2. config \in ConfigType /\ Sent \in Seq({"word", "rand"}) /\ Good(config, Sent, c)
      BY <1>3
    <3> HIDE DEF now
    <3>3. QED
      BY <3>1, <3>2, WrittenIsGood
  <2>3. Awaited(d) = P
    BY <1>6, <2>2 DEF Awaited, Unanswered
  <2> HIDE DEF d
  <2>4. client' = [client EXCEPT ![h] = d] /\ UNCHANGED liveclients
    BY <1>14, <2>1 DEF d
  <2>5. /\ DOMAIN client' = DOMAIN client /\ client'[h] = d
        /\ \A g \in DOMAIN client' : g # h => client'[g] = client[g]
        /\ \A g \in DOMAIN client' : Good(config, Sent, client'[g])
        /\ liveclients' = Cardinality(DOMAIN client')
        /\ liveclients' <= AtLeast(1, config.numclients)
        /\ Cardinality(Outstanding(client', P)) = Cardinality(OfOthers(client, P, h)) + P
    <3>1. phase = "loop" /\ h \in DOMAIN client /\ Good(config, Sent, d)
      BY <1>1, <2>2
    <3>2. /\ DOMAIN client' = DOMAIN client /\ client'[h] = d
          /\ \A g \in DOMAIN client' : g # h => client'[g] = client[g]
          /\ \A g \in DOMAIN client' : Good(config, Sent, client'[g])
          /\ liveclients' = Cardinality(DOMAIN client')
          /\ liveclients' <= AtLeast(1, config.numclients)
          /\ Cardinality(Outstanding(client', config.pipeline)) =
               Cardinality(OfOthers(client, config.pipeline, h)) + Awaited(d)
      BY <2>4, <3>1, ChangedClient
    <3>3. QED
      BY <2>3, <3>2 DEF P
  <2>6. TypeOK' /\ Settled' /\ EachClient' /\ LiveClientsCounted' /\ NoPrematureAbort'
    <3>1. UNCHANGED <<config, plan, round, phase>> /\ DOMAIN latency' = DOMAIN latency
      BY <1>1, <1>14
    <3>2. DOMAIN client' \in SUBSET Handle
      BY <1>3, <2>5
    <3>3. finished' \in 0 .. config.requests /\ failures' \in Nat
      BY <1>1, <1>3, <1>14 DEF R
    <3>4. QED
      BY <1>1, <1>5, <2>5, <3>1, <3>2, <3>3, LoopStep
  <2>7. Progress'
    <3>1. ASSUME finished = R, R > 0, ~stop
          PROVE  \E g \in DOMAIN client' : client'[g].handler = "read"
      <4>1. PICK g \in DOMAIN client : client[g].handler = "read"
        BY <1>7, <3>1
      <4>2. g # h
        BY <1>1, <4>1 DEF c
      <4>3. QED
        BY <2>5, <4>1, <4>2
    <3>2. ASSUME failures = 0, finished < R
          PROVE  finished + Cardinality(Outstanding(client', P)) = P * Least(issued', R)
      <4> DEFINE others == Cardinality(OfOthers(client, P, h))
      <4>1. CASE c.written = 0
        <5>1. issued < R
          BY <1>3, <1>14, <4>1 DEF Exhausted, R
        <5>2. issued' = issued + 1 /\ Least(issued', R) = issued + 1 /\ Least(issued, R) = issued
          BY <1>1, <1>3, <4>1, <5>1 DEF Least
        <5>3. finished + others = P * issued
          BY <1>6, <1>7, <1>9, <3>2, <4>1, <5>2
        <5> HIDE DEF others
        <5>4. P * (issued + 1) = P * issued + P
          BY <1>3
        <5>5. others \in Nat /\ P * issued \in Nat
          BY <1>3, <1>9 DEF others
        <5>6. finished + (others + P) = P * (issued + 1)
          BY <1>3, <5>3, <5>4, <5>5
        <5>7. QED
          BY <2>5, <5>2, <5>6 DEF others
      <4>2. CASE c.written # 0
        <5>1. issued' = issued /\ Awaited(c) = P
          BY <1>1, <1>3, <1>4, <1>6, <4>2
        <5>2. QED
          BY <1>7, <1>9, <2>5, <3>2, <5>1
      <4>3. QED
        BY <4>1, <4>2
    <3>3. DOMAIN client' # {}
      BY <1>1, <2>5
    <3>4. config' = config /\ finished' = finished /\ stop' = stop /\ failures' = failures
      BY <1>1, <1>14
    <3>5. QED
      BY <3>1, <3>2, <3>3, <3>4 DEF Progress, R, P
  <2>8. Measured'
    BY <1>1, <1>8, <1>14
  <2>9. QED
    BY <2>6, <2>7, <2>8 DEF IInv
<1>15. QED
  BY <1>2, <1>11, <1>12, <1>13, <1>14

(* The client is taken off the list and as many are made as are missing.   *)
LEMMA ReplacedClient ==
  ASSUME IInv, phase = "loop", NEW h \in DOMAIN client,
         NEW c, Sound(config, Sent, c),
         client' = Without(WithMissing(client, liveclients - 1, c), h),
         liveclients' = liveclients - 1 + Missing(liveclients - 1) + 1 - 1
  PROVE  /\ DOMAIN client' \in SUBSET Handle
         /\ \A g \in DOMAIN client' : Good(config, Sent, client'[g])
         /\ liveclients' = Cardinality(DOMAIN client')
         /\ liveclients' <= AtLeast(1, config.numclients)
         /\ DOMAIN client' # {} \/ config.numclients < 1
         /\ Cardinality(Outstanding(client', config.pipeline)) =
              Cardinality(OfOthers(client, config.pipeline, h))
<1> DEFINE D == DOMAIN client
           m == Missing(liveclients - 1)
           new == Fresh(m, D)
           with == [g \in D \cup new |-> IF g \in new THEN Clone(config, c) ELSE client[g]]
<1>1. /\ config \in ConfigType /\ config.numclients \in Int /\ config.pipeline \in Nat
      /\ Sent \in Seq({"word", "rand"}) /\ Sent # <<>>
      /\ \A g \in D : Good(config, Sent, client[g])
      /\ D \in SUBSET Handle /\ IsFiniteSet(D)
      /\ liveclients = Cardinality(D) /\ liveclients \in Nat /\ liveclients > 0
      /\ liveclients <= AtLeast(1, config.numclients)
  BY HandledClient
<1>2. config.numclients < Cardinality(Handle) /\ ~config.idlemode /\ Cardinality(Handle) \in Nat
  <2>1. Handle \in SUBSET Handle
    OBVIOUS
  <2>2. QED
    BY <2>1, FiniteClients DEF IInv, Settled, Running
<1>3. Cardinality(D) <= Cardinality(Handle)
  BY <1>1, CommandLineAssumption, FS_Subset
<1>4. /\ m \in Nat
      /\ m = IF config.numclients - (liveclients - 1) < 0 THEN 0
             ELSE config.numclients - (liveclients - 1)
  BY <1>1 DEF Missing, AtLeast
<1>5. m + Cardinality(D) <= Cardinality(Handle)
  BY <1>1, <1>2, <1>3, <1>4
<1>6. with = WithMissing(client, liveclients - 1, c)
  BY DEF WithMissing
<1> HIDE DEF m
<1>7. /\ new \in SUBSET Handle /\ new \cap D = {}
      /\ IsFiniteSet(new) /\ Cardinality(new) = m
      /\ IsFiniteSet(D \cup new) /\ Cardinality(D \cup new) = Cardinality(D) + m
  <2> HIDE DEF D
  <2>1. D \in SUBSET Handle /\ m \in Nat /\ m + Cardinality(D) <= Cardinality(Handle)
    BY <1>1, <1>4, <1>5
  <2>2. QED
    BY <2>1, FreshIsNew
<1> HIDE DEF new
<1>8. client' = [g \in (D \cup new) \ {h} |-> with[g]]
  BY <1>6 DEF Without
<1>9. DOMAIN client' = (D \cup new) \ {h}
  BY <1>8
<1>10. \A g \in DOMAIN client' : client'[g] = IF g \in new THEN Clone(config, c) ELSE client[g]
  BY <1>8
<1>11. Good(config, Sent, Clone(config, c)) /\ Awaited(Clone(config, c)) = 0
  <2>1. New(config, Sent, Clone(config, c))
    BY <1>1, CloneIsNew
  <2>2. QED
    BY <1>1, <1>2, <2>1, NewIsGood
<1>12. DOMAIN client' \in SUBSET Handle /\ \A g \in DOMAIN client' : Good(config, Sent, client'[g])
  BY <1>1, <1>7, <1>9, <1>10, <1>11
<1>13. h \in D \cup new /\ h \notin new
  BY <1>7
<1>14. liveclients' = Cardinality(DOMAIN client')
  <2>1. Cardinality((D \cup new) \ {h}) = Cardinality(D) + m - 1
    <3> DEFINE T == D \cup new
    <3>1. IsFiniteSet(T) /\ h \in T /\ Cardinality(T) = Cardinality(D) + m
      BY <1>7, <1>13
    <3> HIDE DEF T
    <3>2. Cardinality(T \ {h}) = Cardinality(T) - 1
      BY <3>1, FS_RemoveElement
    <3> DEFINE t == Cardinality(T)
               b == Cardinality(D)
               less == Cardinality(T \ {h})
    <3>3. less = t - 1 /\ t = b + m /\ b \in Nat /\ m \in Nat
      BY <1>1, <1>4, <3>1, <3>2
    <3> HIDE DEF t, b, less
    <3>4. less = b + m - 1
      BY <3>3
    <3>5. QED
      BY <3>4, Zenon DEF T, b, less
  <2>2. liveclients' = liveclients + m - 1
    BY <1>1, <1>4 DEF m
  <2>3. QED
    BY <1>1, <1>9, <2>1, <2>2
<1>15. liveclients' <= AtLeast(1, config.numclients)
  <2>1. liveclients' = liveclients - 1 + m
    BY <1>1, <1>4 DEF m
  <2>2. QED
    BY <1>1, <1>4, <2>1 DEF AtLeast
<1>16. DOMAIN client' # {} \/ config.numclients < 1
  <2>1. SUFFICES ASSUME config.numclients >= 1
                 PROVE  DOMAIN client' # {}
    BY <1>1
  <2>2. m # 0
    BY <1>1, <1>4, <2>1 DEF AtLeast
  <2>3. new # {}
    BY <1>7, <2>2, FS_EmptySet
  <2>4. QED
    BY <1>9, <1>13, <2>3
<1>17. Cardinality(Outstanding(client', config.pipeline)) =
         Cardinality(OfOthers(client, config.pipeline, h))
  <2> DEFINE old == client
             now == client'
             P == config.pipeline
  <2>1. P \in Nat /\ h \notin DOMAIN now
    BY <1>1, <1>9
  <2>2. \A g \in DOMAIN old : g # h => g \in DOMAIN now /\ now[g] = old[g]
    BY <1>7, <1>9, <1>10
  <2>3. \A g \in DOMAIN now : g # h => g \in DOMAIN old \/ Awaited(now[g]) = 0
    BY <1>9, <1>10, <1>11
  <2> HIDE DEF old, now, P
  <2>4. OfOthers(now, P, h) = OfOthers(old, P, h)
    BY <2>1, <2>2, <2>3, OthersKept
  <2>5. Outstanding(now, P) = OfOthers(now, P, h)
    BY <2>1, OutstandingOfOthers
  <2>6. QED
    BY <2>4, <2>5 DEF old, now, P
<1>18. QED
  BY <1>12, <1>14, <1>15, <1>16, <1>17

(* A step of a reader: its answers are counted, and when the last is there *)
(* it is freed, used again or replaced.                                    *)
LEMMA ReadKeeps ==
  ASSUME NEW h \in Handle, NEW k \in Nat, IInv, readHandler(h, k)
  PROVE  IInv'
<1> DEFINE c == client[h]
           d == Answered(c, k)
           n == k - PrefixAnswers(c, k)
           R == config.requests
           P == config.pipeline
<1>1. /\ phase = "loop" /\ h \in DOMAIN client /\ c.handler = "read"
      /\ k <= c.pending
      /\ finished' = Count(n)
      /\ latency' = [slot \in DOMAIN latency |->
                       IF slot \notin finished .. finished' - 1 THEN latency[slot]
                       ELSE IF d.latency = "taken" THEN round ELSE 0]
      /\ UNCHANGED <<config, plan, round, phase, issued, failures>>
  BY DEF readHandler, MayHandle
<1>2. \/ /\ n > 0 /\ d.pending = 0 /\ clientDone(h, d, finished')
      \/ /\ ~(n > 0 /\ d.pending = 0)
         /\ client' = [client EXCEPT ![h] = d] /\ Handled(h) /\ UNCHANGED liveclients
  BY DEF readHandler
<1>3. /\ config \in ConfigType
      /\ R \in Nat /\ P \in Nat \ {0} /\ config.numclients \in Int
      /\ Sent \in Seq({"word", "rand"}) /\ Sent # <<>>
      /\ \A g \in DOMAIN client : Good(config, Sent, client[g])
      /\ Good(config, Sent, c)
      /\ DOMAIN client \in SUBSET Handle
      /\ issued \in Nat /\ finished \in 0 .. R /\ failures \in Nat
      /\ due \in SUBSET Handle
      /\ DOMAIN latency = 0 .. R - 1
  BY <1>1, HandledClient
<1> HIDE DEF c, d, n, R, P
<1>4. /\ n \in Nat /\ Sound(config, Sent, d)
      /\ d.latency = "taken" /\ d.handler = "read" /\ d.written = c.written
      /\ Unanswered(d) = Unanswered(c) - n
      /\ ~(n > 0 /\ d.pending = 0) => Good(config, Sent, d)
      /\ n > 0 /\ d.pending = 0 =>
           /\ n = Unanswered(c)
           /\ Good(config, Sent, resetClient(d))
           /\ resetClient(d).written = 0
  <2>1. d = Answered(c, k) /\ n = k - PrefixAnswers(c, k)
    BY DEF d, n
  <2>2. /\ config \in ConfigType /\ Sent \in Seq({"word", "rand"}) /\ Sent # <<>>
        /\ Good(config, Sent, c) /\ c.handler = "read" /\ k <= c.pending
    BY <1>1, <1>3
  <2>3. QED
    BY <2>1, <2>2, AnsweredIsGood
<1>5. Awaited(c) = Unanswered(c) /\ Unanswered(c) \in Nat /\ c.written > 0
  <2>1. Awaited(c) = Unanswered(c) /\ Awaited(c) \in 0 .. P
    BY <1>1, <1>3, AwaitedFits DEF P
  <2>2. c.written > 0
    BY <1>1, <1>3 DEF Good, Awaiting
  <2>3. QED
    BY <2>1, <2>2
<1>6. /\ finished' \in 0 .. R /\ finished <= finished'
      /\ finished' # R => finished' = finished + n /\ finished < R
      /\ finished = R => finished' = R
  <2>1. finished' = IF finished + n <= R THEN finished + n ELSE R
    BY <1>1 DEF Count, Least, R
  <2>2. QED
    BY <1>3, <1>4, <2>1
<1>7. DOMAIN latency' = DOMAIN latency
  BY <1>1
<1>8. \A slot \in 0 .. finished' - 1 : latency'[slot] = round
  <2>1. \A slot \in 0 .. finished - 1 : latency[slot] = round
    BY <1>1 DEF IInv, Measured
  <2>2. ASSUME NEW slot \in 0 .. finished' - 1
        PROVE  latency'[slot] = round
    <3> DEFINE f == finished
               g == finished'
    <3>1. /\ R \in Nat /\ f \in Nat /\ g \in Nat /\ g <= R
          /\ slot \in Nat /\ slot < g /\ DOMAIN latency = 0 .. R - 1
      <4>1. R \in Nat /\ f \in 0 .. R /\ g \in 0 .. R /\ slot \in 0 .. g - 1
        BY <1>3, <1>6, <2>2
      <4>2. DOMAIN latency = 0 .. R - 1
        BY <1>3
      <4> HIDE DEF f, g
      <4>3. QED
        BY <4>1, <4>2
    <3> HIDE DEF f, g
    <3>2. slot \in 0 .. R - 1 /\ (slot \notin f .. g - 1 => slot \in 0 .. f - 1)
      BY <3>1
    <3>3. slot \in DOMAIN latency
      BY <3>1, <3>2
    <3>4. slot \notin finished .. finished' - 1 => slot \in 0 .. finished - 1
      BY <3>2 DEF f, g
    <3>5. QED
      BY <1>1, <1>4, <2>1, <3>3, <3>4
  <2>3. QED
    BY <2>2
<1>9. /\ stop => finished = R
      /\ failures = 0 /\ finished < R =>
           finished + Cardinality(Outstanding(client, P)) = P * Least(issued, R)
      /\ failures = 0 /\ finished < R /\ issued <= R =>
           DOMAIN client # {} \/ (config.numclients < 1 /\ ~config.keepalive)
  BY <1>1 DEF IInv, Measured, Progress, R, P
<1> DEFINE others == Cardinality(OfOthers(client, P, h))
<1>10. others \in Nat /\ Cardinality(Outstanding(client, P)) = others + Unanswered(c)
  BY <1>1, <1>5, OutstandingNow DEF P, c
<1> HIDE DEF others
(* What is left to show of the step, whatever becomes of h. *)
<1>11. ASSUME DOMAIN client' \in SUBSET Handle,
              \A g \in DOMAIN client' : Good(config, Sent, client'[g]),
              liveclients' = Cardinality(DOMAIN client'),
              liveclients' <= AtLeast(1, config.numclients),
              due' \in SUBSET Handle, stop' => finished' = R,
              finished' = R /\ ~stop' => \E g \in DOMAIN client' : client'[g].handler = "read",
              finished' < R =>
                /\ Cardinality(Outstanding(client', P)) = others + (Unanswered(c) - n)
                /\ DOMAIN client' # {} \/ (config.numclients < 1 /\ ~config.keepalive)
       PROVE  IInv'
  <2>1. TypeOK' /\ Settled' /\ EachClient' /\ LiveClientsCounted' /\ NoPrematureAbort'
    <3>1. UNCHANGED <<config, plan, round, phase>> /\ issued' \in Nat /\ failures' \in Nat
      BY <1>1, <1>3
    <3>2. finished' \in 0 .. config.requests
      BY <1>6 DEF R
    <3>3. QED
      BY <1>1, <1>7, <1>11, <3>1, <3>2, LoopStep
  <2>2. Measured'
    BY <1>1, <1>8, <1>11 DEF Measured, R
  <2>3. Progress'
    <3>1. ASSUME failures = 0, finished' < R
          PROVE  finished' + Cardinality(Outstanding(client', P)) = P * Least(issued, R)
      <4>1. finished' = finished + n /\ finished < R
        BY <1>3, <1>6, <3>1
      <4>2. finished + (others + Unanswered(c)) = P * Least(issued, R)
        BY <1>9, <1>10, <3>1, <4>1
      <4> DEFINE u == Unanswered(c)
                 total == P * Least(issued, R)
      <4>3. /\ finished + (others + u) = total /\ finished \in Nat /\ others \in Nat /\ u \in Nat
            /\ n \in Nat /\ Cardinality(Outstanding(client', P)) = others + (u - n)
        BY <1>3, <1>4, <1>5, <1>10, <1>11, <3>1, <4>2
      <4> HIDE DEF u, total
      <4>4. (finished + n) + (others + (u - n)) = total
        BY <4>3
      <4>5. QED
        BY <4>1, <4>3, <4>4 DEF total
    <3>2. config' = config /\ issued' = issued /\ failures' = failures
      BY <1>1
    <3>3. QED
      BY <1>11, <3>1, <3>2 DEF Progress, R, P
  <2>4. QED
    BY <2>1, <2>2, <2>3 DEF IInv
<1>12. CASE n > 0 /\ d.pending = 0 /\ clientDone(h, d, finished')
  <2>1. CASE finished' = R
    <3>1. freeClient(h) /\ aeStop(h)
      BY <1>12, <2>1 DEF clientDone, R
    <3>2. stop' = TRUE /\ due' \in SUBSET Handle
      BY <1>3, <3>1 DEF aeStop
    <3>3. /\ DOMAIN client' = DOMAIN client \ {h}
          /\ \A g \in DOMAIN client' : client'[g] = client[g]
          /\ liveclients' = Cardinality(DOMAIN client')
          /\ liveclients' <= AtLeast(1, config.numclients)
      BY <1>1, <3>1, FreeClient
    <3>4. ~(finished' < R)
      BY <1>3, <2>1
    <3>5. QED
      BY <1>3, <1>11, <2>1, <3>2, <3>3, <3>4
  <2>2. CASE finished' # R /\ config.keepalive
    <3> DEFINE r == resetClient(d)
    <3>1. Handled(h) /\ client' = [client EXCEPT ![h] = r] /\ UNCHANGED liveclients
      BY <1>12, <2>2 DEF clientDone, R
    <3>2. Good(config, Sent, r) /\ r.written = 0
      BY <1>4, <1>12
    <3> HIDE DEF r
    <3>3. Awaited(r) = 0
      BY <3>2 DEF Awaited
    <3>4. /\ DOMAIN client' = DOMAIN client
          /\ \A g \in DOMAIN client' : Good(config, Sent, client'[g])
          /\ liveclients' = Cardinality(DOMAIN client')
          /\ liveclients' <= AtLeast(1, config.numclients)
          /\ Cardinality(Outstanding(client', config.pipeline)) =
               Cardinality(OfOthers(client, config.pipeline, h)) + Awaited(r)
      BY <1>1, <3>1, <3>2, ChangedClient
    <3>5. Cardinality(Outstanding(client', P)) = others + (Unanswered(c) - n)
      <4>1. Unanswered(c) - n = 0
        BY <1>4, <1>5, <1>12
      <4>2. QED
        BY <3>3, <3>4, <4>1 DEF P, others
    <3>6. due' \in SUBSET Handle /\ (stop' => finished' = R)
      BY <1>3, <1>6, <1>9, <3>1 DEF Handled
    <3>7. QED
      BY <1>1, <1>3, <1>11, <2>2, <3>4, <3>5, <3>6
  <2>3. CASE finished' # R /\ ~config.keepalive
    <3>1. /\ Handled(h)
          /\ client' = Without(WithMissing(client, liveclients - 1, d), h)
          /\ liveclients' = liveclients - 1 + Missing(liveclients - 1) + 1 - 1
      BY <1>12, <2>3 DEF clientDone, R
    <3>2. /\ DOMAIN client' \in SUBSET Handle
          /\ \A g \in DOMAIN client' : Good(config, Sent, client'[g])
          /\ liveclients' = Cardinality(DOMAIN client')
          /\ liveclients' <= AtLeast(1, config.numclients)
          /\ DOMAIN client' # {} \/ config.numclients < 1
          /\ Cardinality(Outstanding(client', config.pipeline)) =
               Cardinality(OfOthers(client, config.pipeline, h))
      BY <1>1, <1>4, <3>1, ReplacedClient
    <3>3. Cardinality(Outstanding(client', P)) = others + (Unanswered(c) - n)
      <4>1. Unanswered(c) - n = 0
        BY <1>4, <1>5, <1>12
      <4>2. QED
        BY <1>10, <3>2, <4>1 DEF P, others
    <3>4. due' \in SUBSET Handle /\ (stop' => finished' = R)
      BY <1>3, <1>6, <1>9, <3>1 DEF Handled
    <3>5. QED
      BY <1>11, <2>3, <3>2, <3>3, <3>4
  <2>4. QED
    BY <2>1, <2>2, <2>3
<1>13. CASE /\ ~(n > 0 /\ d.pending = 0)
            /\ client' = [client EXCEPT ![h] = d] /\ Handled(h) /\ UNCHANGED liveclients
  <2>1. Good(config, Sent, d)
    BY <1>4, <1>13
  <2>2. /\ DOMAIN client' = DOMAIN client /\ client'[h] = d
        /\ \A g \in DOMAIN client' : Good(config, Sent, client'[g])
        /\ liveclients' = Cardinality(DOMAIN client')
        /\ liveclients' <= AtLeast(1, config.numclients)
        /\ Cardinality(Outstanding(client', config.pipeline)) =
             Cardinality(OfOthers(client, config.pipeline, h)) + Awaited(d)
    BY <1>1, <1>13, <2>1, ChangedClient
  <2>3. Cardinality(Outstanding(client', P)) = others + (Unanswered(c) - n)
    <3>1. Awaited(d) = Unanswered(c) - n
      BY <1>4, <1>5 DEF Awaited
    <3>2. QED
      BY <2>2, <3>1 DEF P, others
  <2>4. due' \in SUBSET Handle /\ (stop' => finished' = R)
    BY <1>3, <1>6, <1>9, <1>13 DEF Handled
  <2>5. h \in DOMAIN client' /\ client'[h].handler = "read"
    BY <1>1, <1>4, <2>2
  <2>6. QED
    BY <1>3, <1>11, <2>2, <2>3, <2>4, <2>5
<1>14. QED
  BY <1>2, <1>12, <1>13

----------------------------------------------------------------------------
(* The theorems. *)

(* Every step of the benchmark keeps the invariant,                        *)
LEMMA NextKeeps == IInv /\ [Next]_vars => IInv'
<1> SUFFICES ASSUME IInv, [Next]_vars
             PROVE  IInv'
  OBVIOUS
<1>1. CASE ReadCommandLine
  BY <1>1, ReadCommandLineKeeps
<1>2. CASE StartBenchmark
  BY <1>2, StartBenchmarkKeeps
<1>3. CASE Report
  BY <1>3, ReportKeeps
<1>4. CASE MainReturns
  BY <1>4, MainReturnsKeeps
<1>5. CASE aeMainReturns
  BY <1>5, LoopEndKeeps
<1>6. CASE showThroughput
  BY <1>6, ThroughputKeeps
<1>7. CASE ConnectionLost
  BY <1>7, ConnectionLostKeeps
<1>8. ASSUME NEW h \in Handle, writeHandler(h)
      PROVE  IInv'
  BY <1>8, WriteKeeps
<1>9. ASSUME NEW h \in Handle, Read(h)
      PROVE  IInv'
  <2>1. PICK k \in 1 .. Batch : readHandler(h, k)
    BY <1>9 DEF Read
  <2>2. k \in Nat
    BY <2>1
  <2>3. QED
    BY <2>1, <2>2, ReadKeeps
<1>10. ASSUME NEW h \in Handle, readHandler(h, 0)
       PROVE  IInv'
  BY <1>10, ReadKeeps
<1>11. CASE UNCHANGED vars
  <2>1. TypeOK' /\ Settled' /\ LiveClientsCounted' /\ NoPrematureAbort'
    BY <1>11 DEF vars, IInv, TypeOK, Settled, Running, LiveClientsCounted, NoPrematureAbort
  <2>2. EachClient'
    BY <1>11 DEF vars, IInv, EachClient, Sent
  <2>3. Measured' /\ Progress'
    BY <1>11 DEF vars, IInv, Measured, Progress
  <2>4. QED
    BY <2>1, <2>2, <2>3 DEF IInv
<1>12. QED
  BY <1>1, <1>2, <1>3, <1>4, <1>5, <1>6, <1>7, <1>8, <1>9, <1>10, <1>11 DEF Next

(* so it holds in every state.                                             *)
LEMMA Invariance == Spec => []IInv
  BY InitInvariant, NextKeeps, PTL DEF Spec

(* liveclients is the length of config.clients in every state, and never   *)
(* more than were asked for: createClient, createMissingClients, clientDone*)
(* and freeClient keep the two in step.                                    *)
THEOREM ClientsAreCounted == Spec => []LiveClientsCounted
<1>1. IInv => LiveClientsCounted
  BY DEF IInv
<1>2. QED
  BY <1>1, Invariance, PTL

(* showThroughput gives up for want of clients only after a failed write or*)
(* when clients that are not kept were never asked for; and with all       *)
(* requests finished, only after aeStop.                                   *)
THEOREM AbortsAreJustified == Spec => []NoPrematureAbort
<1>1. IInv => NoPrematureAbort
  BY DEF IInv
<1>2. QED
  BY <1>1, Invariance, PTL

(* At showLatencyReport every request is finished and every slot of the    *)
(* latencies was measured in this round, whatever the number of clients,   *)
(* the pipeline and the writes that failed.                                *)
THEOREM ReportsAreComplete == Spec => []ReportComplete
<1>1. IInv => ReportComplete
  <2>1. SUFFICES ASSUME IInv, phase = "report"
                 PROVE  finished = config.requests /\ \A slot \in DOMAIN latency : latency[slot] = round
    BY DEF IInv, ReportComplete
  <2>2. DOMAIN latency = 0 .. config.requests - 1
    BY <2>1 DEF IInv, Settled, Running
  <2>3. finished = config.requests /\ \A slot \in 0 .. finished - 1 : latency[slot] = round
    BY <2>1 DEF IInv, Measured
  <2>4. QED
    BY <2>2, <2>3
<1>2. QED
  BY <1>1, Invariance, PTL

(* A client that is about to write waits for one answer per command of its *)
(* buffer: no reply is taken for that of a later request, and none is      *)
(* waited for in vain.                                                     *)
THEOREM AnswersAreTheirOwn == Spec => []AnswersMatchCommands
<1>1. IInv => AnswersMatchCommands
  BY DEF IInv, EachClient, Good, Awaiting, AnswersMatchCommands
<1>2. QED
  BY <1>1, Invariance, PTL

(* A client's buffer is its prefix, if not yet dropped, and `pipeline` copies*)
(* of the command, in which the placeholders of a request that has begun   *)
(* and nothing else are keys, through cloning, reuse and the removal of    *)
(* the prefix.                                                             *)
THEOREM RequestsStayIntact == Spec => []RequestsIntact
<1>1. IInv => RequestsIntact
  <2>1. SUFFICES ASSUME IInv, phase = "loop", NEW h \in DOMAIN client
                 PROVE  LET c == client[h]
                            body == SubSeq(c.obuf, c.prefixlen + 1, Len(c.obuf))
                            begun == config.randomkeys /\ c.written > 0
                        IN  /\ SubSeq(c.obuf, 1, c.prefixlen) =
                                 (IF c.prefixlen = 0 THEN <<>> ELSE Prefix(config))
                            /\ Len(body) = Len(Sent)
                            /\ \A i \in DOMAIN body :
                                 \/ body[i] = Sent[i] /\ ~(begun /\ Sent[i] = "rand")
                                 \/ config.randomkeys /\ Sent[i] = "rand" /\ body[i] = "key"
    BY DEF RequestsIntact, Sent
  <2> DEFINE c == client[h]
             old == c.obuf
             m == c.prefixlen
             front == SubSeq(old, 1, m)
             body == SubSeq(old, m + 1, Len(old))
             P == Prefix(config)
  <2>2. config \in ConfigType /\ Sent \in Seq({"word", "rand"}) /\ Sound(config, Sent, c)
    BY <2>1, HandledClient DEF Good
  <2>3. old \in Seq(Token) /\ Len(old) \in Nat /\ m \in Nat
    BY <2>2, SoundFields
  <2>4. /\ m \in {0, Len(P)}
        /\ Len(old) = m + Len(Sent)
        /\ \A i \in 1 .. m : old[i] = P[i]
        /\ \A i \in DOMAIN Sent :
             \/ old[m + i] = Sent[i]
             \/ config.randomkeys /\ i \in Marks(Sent) /\ old[m + i] = "key"
        /\ config.randomkeys /\ c.written > 0 =>
             \A i \in Marks(Sent) : old[m + i] = "key"
    BY <2>2 DEF Sound, Intact
  <2>5. P \in Seq({"auth", "select"})
    BY <2>2, PrefixType
  <2> DEFINE S == Sent
  <2>6. S \in Seq({"word", "rand"}) /\ Len(S) \in Nat /\ DOMAIN S = 1 .. Len(S)
    BY <2>2
  <2> HIDE DEF old, m, P, S
  <2>7. /\ body \in Seq(Token) /\ Len(body) = Len(S) /\ DOMAIN body = 1 .. Len(S)
        /\ \A i \in 1 .. Len(S) : body[i] = old[m + i]
    BY <2>3, <2>4, <2>6 DEF S
  <2>8. front = IF m = 0 THEN <<>> ELSE P
    <3>1. front \in Seq(Token) /\ Len(front) = m /\ \A i \in 1 .. m : front[i] = old[i]
      BY <2>3, <2>4, <2>6 DEF S
    <3>2. CASE m = 0
      BY <3>1, <3>2
    <3>3. CASE m # 0
      <4>1. Len(P) = m
        BY <2>4, <3>3
      <4>2. \A i \in 1 .. m : front[i] = P[i]
        BY <2>4, <3>1
      <4> HIDE DEF front
      <4>3. DOMAIN front = 1 .. m /\ DOMAIN P = 1 .. m
        BY <2>5, <3>1, <4>1
      <4>4. front = [i \in 1 .. m |-> front[i]] /\ P = [i \in 1 .. m |-> P[i]]
        BY <2>5, <3>1, <4>1, <4>3
      <4>5. front = P
        BY <4>2, <4>4
      <4>6. QED
        BY <3>3, <4>5
    <3>4. QED
      BY <3>2, <3>3
  <2>9. \A i \in DOMAIN body :
          \/ body[i] = S[i] /\ ~(config.randomkeys /\ c.written > 0 /\ S[i] = "rand")
          \/ config.randomkeys /\ S[i] = "rand" /\ body[i] = "key"
    <3> HIDE DEF body, c
    <3>1. ASSUME NEW i \in 1 .. Len(S)
          PROVE  \/ body[i] = S[i] /\ ~(config.randomkeys /\ c.written > 0 /\ S[i] = "rand")
                 \/ config.randomkeys /\ S[i] = "rand" /\ body[i] = "key"
      <4>1. body[i] = old[m + i] /\ i \in DOMAIN Sent /\ S = Sent
        BY <2>6, <2>7 DEF S
      <4>2. i \in Marks(Sent) <=> S[i] = "rand"
        BY <4>1 DEF Marks
      <4>3. \/ old[m + i] = Sent[i]
            \/ config.randomkeys /\ i \in Marks(Sent) /\ old[m + i] = "key"
        BY <2>4, <4>1, Zenon
      <4>4. \/ body[i] = S[i]
            \/ config.randomkeys /\ S[i] = "rand" /\ body[i] = "key"
        BY <4>1, <4>2, <4>3, Zenon
      <4>5. config.randomkeys /\ c.written > 0 /\ S[i] = "rand" => body[i] = "key"
        <5>1. config.randomkeys /\ c.written > 0 => \A k \in Marks(Sent) : old[m + k] = "key"
          BY <2>4, Zenon
        <5>2. QED
          BY <4>1, <4>2, <5>1, Zenon
      <4>6. QED
        BY <4>4, <4>5
    <3>2. QED
      BY <2>7, <3>1
  <2>10. QED
    BY <2>7, <2>8, <2>9 DEF old, m, P, S
<1>2. QED
  BY <1>1, Invariance, PTL
=============================================================================
