-------------------------------- MODULE Args --------------------------------
(***************************************************************************)
(* The helpers of src/rmutil/util.c for a command's arguments, for the     *)
(* answer of INFO and for nested replies.                                  *)
(*                                                                         *)
(* An argument is one of a few words, told apart by what they convert to;  *)
(* a line of INFO is its key and what strtoll can make of its value, or no *)
(* entry at all.                                                           *)
(* The caller's variables, the table of entries and errno outlive a call.  *)
(***************************************************************************)
EXTENDS Integers, FiniteSets, SequencesExt

CONSTANTS
  MaxArgs,    \* bounds the arguments of a command
  MaxFormat,  \* bounds a format
  MaxLines,   \* bounds the lines of INFO
  MaxPath,    \* bounds a path into a reply
  Word,       \* the arguments: "token", "word", "int" and "real"
  Letter,     \* the letters of formats
  InfoValue,  \* the values of INFO: see InfoValueAssumption
  FirstCap,   \* the entries there is room for at first, 100 in the code
  LongMax     \* LONG_MAX

ASSUME ArgsAssumption ==
  /\ {MaxArgs, MaxFormat, MaxLines, MaxPath} \subseteq Nat
  /\ FirstCap \in Nat \ {0} /\ LongMax \in Nat \ {0}

(* A value is told by the number it begins with, of any size and sign, 0   *)
(* if it begins with none, and by whether that number is all there is:     *)
(* role:master leads with 0 and used_memory_human:1.02M with 1.            *)
ASSUME InfoValueAssumption == InfoValue \subseteq [leads : Int, whole : BOOLEAN]

VARIABLES
  argv,    \* the command
  parse,   \* the last parse: where its arguments begin, its format, and
           \* whether there was a token to begin behind
  out,     \* the caller's variables, each with what was last stored there
  rc,      \* what the last parse returned
  info,    \* the lines of INFO, the entries made of them, their capacity
  errno,   \* the C library's
  got,     \* the last GetInt: key, errno before it, what it returned, *val
  path     \* a path into a reply

arg == <<argv, parse, out, rc, info, errno, got, path>>

(* Whether RedisModule converts a word to a long long or to a double. *)
Converts(w, letter) ==
  CASE letter \in {"c", "s", "*"} -> TRUE
    [] letter = "l" -> w = "int"
    [] letter = "d" -> w \in {"int", "real"}
    [] OTHER -> FALSE

----------------------------------------------------------------------------
(* Arguments.  argv[0], the name of the command, is argv[1] here. *)

RMUtil_ArgExists(w, offset) ==
  IF \E i \in offset .. Len(argv) - 1 : argv[i + 1] = w
  THEN CHOOSE i \in offset .. Len(argv) - 1 :
         argv[i + 1] = w /\ \A j \in offset .. i - 1 : argv[j + 1] # w
  ELSE 0

(* Mutant: an argument that is skipped takes a variable all the same. *)
Parsed_StarTakes(offset, fmt) ==
  LET turn[n \in 0 .. Len(fmt)] ==
        IF n = 0 THEN [ok |-> TRUE, vars |-> <<>>]
        ELSE IF turn[n - 1].ok /\ offset + n <= Len(argv) /\ Converts(argv[offset + n], fmt[n])
        THEN [ok |-> TRUE, vars |-> Append(turn[n - 1].vars, <<fmt[n], argv[offset + n]>>)]
        ELSE [ok |-> FALSE, vars |-> turn[n - 1].vars]
  IN  turn[Len(fmt)]

(* The loop, a letter of the format and an argument at each turn, and the  *)
(* variables it fills; it stops at an argument that is missing or does not *)
(* convert.                                                                *)
Parsed(offset, fmt) ==
  LET turn[n \in 0 .. Len(fmt)] ==
        IF n = 0 THEN [ok |-> TRUE, vars |-> <<>>]
        ELSE IF turn[n - 1].ok /\ offset + n <= Len(argv) /\ Converts(argv[offset + n], fmt[n])
        THEN [ok |-> TRUE,
              vars |-> IF fmt[n] = "*" THEN turn[n - 1].vars
                       ELSE Append(turn[n - 1].vars, <<fmt[n], argv[offset + n]>>)]
        ELSE [ok |-> FALSE, vars |-> turn[n - 1].vars]
  IN  turn[Len(fmt)]

(* Variables that are not reached keep what they held. *)
vparseArgs(offset, fmt) ==
  LET parsed == Parsed(offset, fmt)
  IN  /\ parse' = [found |-> TRUE, offset |-> offset, fmt |-> fmt]
      /\ rc' = IF parsed.ok THEN "OK" ELSE "ERR"
      /\ out' = [k \in DOMAIN out |-> IF k \in DOMAIN parsed.vars THEN parsed.vars[k] ELSE out[k]]

RMUtil_ParseArgs(offset, fmt) ==
  /\ vparseArgs(offset, fmt)
  /\ UNCHANGED <<argv, info, errno, got, path>>

RMUtil_ParseArgsAfter(token, fmt) ==
  LET pos == RMUtil_ArgExists(token, 0)
  IN  /\ IF pos = 0
         THEN rc' = "ERR" /\ parse' = [found |-> FALSE, offset |-> 0, fmt |-> fmt] /\ UNCHANGED out
         ELSE vparseArgs(pos + 1, fmt)
      /\ UNCHANGED <<argv, info, errno, got, path>>

NextArgument ==
  /\ Len(argv) < MaxArgs
  /\ info.lines = <<>> /\ path = <<>> /\ rc = "none"
  /\ \E w \in Word : argv' = Append(argv, w)
  /\ UNCHANGED <<parse, out, rc, info, errno, got, path>>

----------------------------------------------------------------------------
(* INFO. *)

(* A line that is no entry: a heading, or what is between \r and \n. *)
Blank == [key |-> "blank", says |-> [leads |-> 0, whole |-> FALSE]]

Lines == {Blank} \cup [key : {"k1", "k2"}, says : InfoValue]

(* Mutant: the table grows once an entry has been written behind it. *)
Entered_Late(t, line) ==
  IF line = Blank THEN t
  ELSE LET n == Len(t.entries) + 1
       IN  [t EXCEPT !.entries = Append(@, line), !.overrun = @ \/ n > t.cap,
                     !.cap = IF n > @ THEN 2 * @ ELSE @]

(* A line that begins with a small letter is an entry; there is room for   *)
(* one more at the end of each turn.                                       *)
Entered(t, line) ==
  IF line = Blank THEN t
  ELSE LET n == Len(t.entries) + 1
       IN  [t EXCEPT !.entries = Append(@, line), !.overrun = @ \/ n > t.cap,
                     !.cap = IF n >= @ THEN 2 * @ ELSE @]

NoInfo == [lines |-> <<>>, entries |-> <<>>, cap |-> FirstCap, overrun |-> FALSE]

(* The table after all lines. *)
Table(lines) ==
  LET turn[n \in 0 .. Len(lines)] ==
        IF n = 0 THEN NoInfo ELSE Entered(turn[n - 1], lines[n])
  IN  turn[Len(lines)]

RMUtil_GetRedisInfo(lines) ==
  /\ argv = <<>>
  /\ info' = [Table(lines) EXCEPT !.lines = lines]
  /\ UNCHANGED <<argv, parse, out, rc, errno, got, path>>

RMUtilInfo_GetString(key) == SelectInSeq(info.entries, LAMBDA entry : entry.key = key)

LongMin == -LongMax - 1

(* strtoll: the number at the beginning of a value, or the limit it is     *)
(* beyond and ERANGE.  Where there is no number it is 0, and glibc leaves  *)
(* errno alone; what follows the number is not looked at (no endptr).      *)
strtoll(says, before) ==
  CASE says.leads > LongMax -> [val |-> LongMax, errno |-> "ERANGE"]
    [] says.leads < LongMin -> [val |-> LongMin, errno |-> "ERANGE"]
    [] OTHER -> [val |-> says.leads, errno |-> before]

(* Mutant: saturation goes unnoticed. *)
Failed_ZeroOnly(n) == n.errno # "0" /\ n.val = 0

Failed(n) ==
  \/ n.errno = "ERANGE" /\ n.val \in {LongMax, LongMin}
  \/ n.errno # "0" /\ n.val = 0

RMUtilInfo_GetInt(key) ==
  LET i == RMUtilInfo_GetString(key)
      n == strtoll(info.entries[i].says, errno)
  IN  /\ info.lines # <<>>
      /\ IF i = 0
         THEN /\ got' = [key |-> key, before |-> errno, ok |-> FALSE, val |-> got.val]
              /\ UNCHANGED errno
         ELSE /\ got' = [key |-> key, before |-> errno, ok |-> ~Failed(n),
                         val |-> IF Failed(n) THEN -1 ELSE n.val]
              /\ errno' = n.errno
      /\ UNCHANGED <<argv, parse, out, rc, info, path>>

(* The rest of the server leaves errno as it pleases. *)
Elsewhere ==
  /\ info.lines # <<>>
  /\ errno' \in {"0", "ERANGE", "EAGAIN"}
  /\ UNCHANGED <<argv, parse, out, rc, info, got, path>>

----------------------------------------------------------------------------
(* Nested replies.  A leaf is a number, an array a sequence. *)

Nil == [array |-> FALSE, items |-> <<>>, name |-> "NULL"]
Leaf(name) == [array |-> FALSE, items |-> <<>>, name |-> name]
Array(items) == [array |-> TRUE, items |-> items, name |-> ""]

(* RedisModule_CallReplyArrayElement *)
ArrayElement(r, idx) == IF idx + 1 \in DOMAIN r.items THEN r.items[idx + 1] ELSE Nil

(* What strtol makes nothing of. *)
Junk == -2

(* Mutant: elements are counted from zero. *)
CallReplyArrayElementByPath_FromZero(r, p) ==
  LET ele[n \in 0 .. Len(p)] ==
        IF n = 0 THEN r
        ELSE IF ~ele[n - 1].array THEN Nil ELSE ArrayElement(ele[n - 1], p[n])
  IN  IF p = <<>> THEN Nil ELSE ele[Len(p)]

(* The element after each step; Nil is no array, and stays. *)
CallReplyArrayElementByPath(r, p) ==
  LET ele[n \in 0 .. Len(p)] ==
        IF n = 0 THEN r
        ELSE IF ~ele[n - 1].array \/ p[n] = Junk THEN Nil
        ELSE ArrayElement(ele[n - 1], p[n] - 1)
  IN  IF p = <<>> THEN Nil ELSE ele[Len(p)]

NextStep ==
  /\ argv = <<>> /\ info.lines = <<>> /\ Len(path) < MaxPath
  /\ \E idx \in {Junk, 0, 1, 2} : path' = Append(path, idx)
  /\ UNCHANGED <<argv, parse, out, rc, info, errno, got>>

----------------------------------------------------------------------------

Formats == UNION { [1 .. n -> Letter] : n \in 1 .. MaxFormat }

Texts == UNION { [1 .. n -> Lines] : n \in 1 .. MaxLines }

ArgInit ==
  /\ argv = <<>> /\ path = <<>>
  /\ parse = [found |-> FALSE, offset |-> 0, fmt |-> <<>>]
  /\ out = [k \in 1 .. MaxFormat |-> <<"unset">>]
  /\ rc = "none"
  /\ info = NoInfo
  /\ errno = "0"
  /\ got = [key |-> "none", before |-> "0", ok |-> FALSE, val |-> 0]

ArgNext ==
  \/ NextArgument
  \/ \E fmt \in Formats :
       \/ \E offset \in 0 .. Len(argv) - 1 : RMUtil_ParseArgs(offset, fmt)
       \/ argv # <<>> /\ RMUtil_ParseArgsAfter("token", fmt)
  \/ path = <<>> /\ info = NoInfo /\ \E lines \in Texts : RMUtil_GetRedisInfo(lines)
  \/ \E key \in {"k1", "k2"} : RMUtilInfo_GetInt(key)
  \/ Elsewhere
  \/ NextStep

ArgSpec == ArgInit /\ [][ArgNext]_arg

----------------------------------------------------------------------------
(* Properties. *)

(* A parse succeeds exactly when every letter of the format has an         *)
(* argument that converts, and then each variable holds the argument of    *)
(* its own letter, whatever is skipped between them and whatever was       *)
(* stored by an earlier parse.  A token behind the command's name is       *)
(* found, unless the name is the same word (util.c:16-26, 140-196).        *)
ParsesFormat ==
  LET Place(n) == Cardinality({ m \in 1 .. n : parse.fmt[m] # "*" })
      fits == \A n \in DOMAIN parse.fmt :
                /\ parse.offset + n <= Len(argv)
                /\ Converts(argv[parse.offset + n], parse.fmt[n])
  IN  rc # "none" =>
        IF parse.found
        THEN /\ rc = "OK" <=> fits
             /\ fits => \A n \in DOMAIN parse.fmt :
                          parse.fmt[n] # "*" =>
                            out[Place(n)] = <<parse.fmt[n], argv[parse.offset + n]>>
        ELSE /\ rc = "ERR"
             /\ argv[1] = "token" \/ \A i \in 2 .. Len(argv) : argv[i] # "token"

(* The first line of INFO with the key last looked up. *)
FirstLine(i) ==
  /\ info.lines[i].key = got.key
  /\ \A j \in 1 .. i - 1 : info.lines[j].key # got.key

(* A zero or a limit that GetInt takes for a failure because of what an    *)
(* earlier call left in errno, which nothing clears.                       *)
Mistrusted(says) ==
  \/ got.before # "0" /\ says.leads = 0
  \/ got.before = "ERANGE" /\ says.leads \in {LongMin, LongMax}

AnInteger(says) == says.whole /\ says.leads \in LongMin .. LongMax

(* No integer, yet GetInt takes the number it begins with, or 0, for one.  *)
PassedOff(says) == ~says.whole /\ says.leads \in LongMin .. LongMax

(* Every entry line of INFO goes into the table, which has grown in time   *)
(* (util.c:36-62), and RMUtilInfo_GetInt reads the first one with its key  *)
(* from there (util.c:74-90).  "Returns 1 if the value was found and is an *)
(* integer, 0 otherwise" (util.h:82-83) holds but for two kinds of values, *)
(* which are named: a text is passed off as the number it begins with, or  *)
(* as 0, and a zero or a limit is refused if an earlier call left errno    *)
(* set.  Any other integer is found whatever errno was; the limit is never *)
(* given for a number beyond it, nor is another entry's number.            *)
InfoIsRead ==
  /\ ~info.overrun
  /\ got.ok => \E i \in DOMAIN info.lines : FirstLine(i)
  /\ \A i \in DOMAIN info.lines :
       FirstLine(i) =>
         LET says == info.lines[i].says
         IN  /\ got.ok <=> (AnInteger(says) \/ PassedOff(says)) /\ ~Mistrusted(says)
             /\ got.val = IF got.ok THEN says.leads ELSE -1

Trees ==
  { Array(<<Leaf("a"), Array(<<Leaf("b"), Array(<<Leaf("c"), Leaf("d")>>)>>)>>),
    Array(<<Array(<<>>), Array(<<Array(<<Leaf("e")>>), Leaf("f")>>)>>) }

(* A path of one step leads to that element, the first being 1, and a      *)
(* longer path leads where its end leads from where its beginning led; a   *)
(* step out of a leaf or out of bounds leads nowhere, for good (util.h:99).*)
PathsCompose ==
  \A tree \in Trees, k \in 1 .. Len(path) :
    LET begun == CallReplyArrayElementByPath(tree, SubSeq(path, 1, k))
    IN  /\ k = 1 => begun = IF path[1] \in DOMAIN tree.items THEN tree.items[path[1]] ELSE Nil
        /\ k < Len(path) =>
             CallReplyArrayElementByPath(tree, path)
               = CallReplyArrayElementByPath(begun, SubSeq(path, k + 1, Len(path)))

=============================================================================
