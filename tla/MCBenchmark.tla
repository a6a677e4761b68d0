---------------------------- MODULE MCBenchmark ----------------------------
(* Command lines for TLC: clients, requests, pipelines, connections kept   *)
(* or made anew, prefixes and random keys in every combination, and the    *)
(* ways the program may be started that the loop does not tell apart.      *)
EXTENDS Benchmark

Clients(n) == <<Option("-c"), Number(n)>>
Requests(n) == <<Option("-n"), Number(n)>>
Small == Clients(1) \o Requests(1)

Loads ==
  {Clients(c) \o Requests(n) \o <<Option("-P"), Number(p), Option("-k"), Number(k),
                                  Word("lpush"), Word("mylist"), Word("x")>> :
     c \in 1 .. 3, n \in 1 .. 4, p \in 1 .. 3, k \in 0 .. 1}

Openings == {<<>>, <<Option("-a"), Word("secret")>>, <<Option("--dbnum"), Number(3)>>,
             <<Option("-a"), Word("secret"), Option("--dbnum"), Number(3)>>}

RandomLoads ==
  {Clients(3) \o Requests(3) \o prefix
     \o <<Option("-P"), Number(p), Option("-k"), Number(k), Option("-r"), Number(100),
          Word("sadd"), Word("__rand_int__"), Word("x"), Word("__rand_int__")>> :
     prefix \in Openings, p \in 1 .. 2, k \in 0 .. 1}

Others ==
  { Small,
    Clients(2) \o Requests(2) \o <<Option("-r"), Number(9), Option("-t"), Names({"ping", "rede"})>>,
    Small \o <<Option("-t"), Names({"mset", "get"}), Option("-r"), Number(9), Option("-l"), Option("-q")>>,
    Small \o <<Option("-r"), Number(-1), Option("-t"), Names({"set"})>>,
    Small \o <<Option("-t"), Names({"ping_bulk"})>>,
    Clients(0) \o Requests(2) \o <<Option("-k"), Number(0), Word("ping")>>,
    Clients(2) \o Requests(0) \o <<Word("ping")>>,
    Requests(-1),
    Clients(2) \o <<Option("-I")>>,
    <<Option("-P"), Number(0), Option("-c")>>,
    <<Option("--help")>> }

AllCommandLines == Loads \cup RandomLoads \cup Others
=============================================================================
