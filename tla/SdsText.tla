------------------------------ MODULE SdsText ------------------------------
(***************************************************************************)
(* The algorithms of src/rmutil/sds.c that read or produce whole texts:    *)
(* numbers, splitting and joining, quoting and parsing of arguments,       *)
(* printf.  A text is a sequence of character codes, and an sds is no more *)
(* than its text here; Sds is about how it is held.                        *)
(*                                                                         *)
(* `line` runs through every text over Alphabet up to MaxLine characters,  *)
(* `number` through every integer of the model's width.                    *)
(***************************************************************************)
EXTENDS Integers, SequencesExt

CONSTANTS
  Alphabet,     \* the characters of the texts
  MaxLine,      \* bounds their length
  Half,         \* integers are -Half .. Half - 1; 2^63 in the code
  Slots,        \* the tokens sdssplitlen has room for at first, 5 in the code
  StaticBuffer  \* sizeof(staticbuf) in sdscatvprintf, 1024 in the code

ASSUME AlphabetAssumption ==
  /\ Alphabet \subseteq 0 .. 255 /\ MaxLine \in Nat
  /\ Half \in Nat \ {0} /\ Slots \in Nat \ {0}
  /\ StaticBuffer \in Nat /\ StaticBuffer >= 2

VARIABLES line, number

txt == <<line, number>>

Smaller(a, b) == IF a < b THEN a ELSE b

At(t, p) == IF p \in DOMAIN t THEN t[p] ELSE 0

----------------------------------------------------------------------------
(* Numbers. *)

(* The digits of v, the last one first, as the loop leaves them: `left` is *)
(* what is left of v after n turns, and the first turn that leaves nothing *)
(* is the last.                                                            *)
Digits(v) ==
  LET left[n \in 0 .. v + 1] == IF n = 0 THEN v ELSE left[n - 1] \div 10
      turns == CHOOSE n \in 1 .. v + 1 : left[n] = 0 /\ \A m \in 1 .. n - 1 : left[m] # 0
  IN  [k \in 1 .. turns |-> 48 + (left[k - 1] % 10)]

sdsull2str(v) == Reverse(Digits(v))

(* Mutant: the sign is left at the end. *)
sdsll2str_SignLast(value) ==
  LET v == IF value < 0 THEN (-value) % (2 * Half) ELSE value
  IN  Reverse(Digits(v)) \o (IF value < 0 THEN <<45>> ELSE <<>>)

(* The magnitude is taken in unsigned arithmetic. *)
sdsll2str(value) ==
  LET v == IF value < 0 THEN (-value) % (2 * Half) ELSE value
  IN  Reverse(Digits(v) \o (IF value < 0 THEN <<45>> ELSE <<>>))

----------------------------------------------------------------------------
(* Splitting and joining. *)

(* Mutant: the scan goes on behind the first character of a separator. *)
Scan_Overlap(t, sep, x) ==
  IF x.j > Len(t) - (Len(sep) - 1) THEN x
  ELSE IF SubSeq(t, x.j, x.j + Len(sep) - 1) = sep
  THEN [j |-> x.j + 1, start |-> x.j + Len(sep),
        tokens |-> Append(x.tokens, SubSeq(t, x.start, x.j - 1)), slots |-> x.slots + 1]
  ELSE [x EXCEPT !.j = @ + 1]

(* A turn of the scan at position j, with the token that began at `start`; *)
(* `slots` grows before a token is looked for.                             *)
Scan(t, sep, x) ==
  LET room == IF x.slots < Len(x.tokens) + 2 THEN 2 * x.slots ELSE x.slots
  IN  IF x.j > Len(t) - (Len(sep) - 1) THEN x
      ELSE IF SubSeq(t, x.j, x.j + Len(sep) - 1) = sep
      THEN [j |-> x.j + Len(sep), start |-> x.j + Len(sep),
            tokens |-> Append(x.tokens, SubSeq(t, x.start, x.j - 1)), slots |-> room]
      ELSE [j |-> x.j + 1, start |-> x.start, tokens |-> x.tokens, slots |-> room]

(* The scan, which no text outlasts, and the token behind the last         *)
(* separator.                                                              *)
sdssplitlen(t, sep) ==
  LET turn[n \in 0 .. Len(t)] ==
        IF n = 0 THEN [j |-> 1, start |-> 1, tokens |-> <<>>, slots |-> Slots]
        ELSE Scan(t, sep, turn[n - 1])
      end == turn[Len(t)]
  IN  IF t = <<>> THEN [tokens |-> <<>>, slots |-> Slots]
      ELSE [tokens |-> Append(end.tokens, SubSeq(t, end.start, Len(t))), slots |-> end.slots]

sdsjoinsds(tokens, sep) ==
  FlattenSeq([i \in DOMAIN tokens |->
                IF i = Len(tokens) THEN tokens[i] ELSE tokens[i] \o sep])

----------------------------------------------------------------------------
(* Quoting. *)

Quote == 34
Apostrophe == 39
Backslash == 92

EscapeLetter == [c \in {10, 13, 9, 7, 8} |->
             CASE c = 10 -> 110 [] c = 13 -> 114 [] c = 9 -> 116 [] c = 7 -> 97 [] c = 8 -> 98]

HexDigit(v) == IF v < 10 THEN 48 + v ELSE 87 + v

(* Mutant: the quotes inside the text are not escaped. *)
Escaped_Bare(c) ==
  CASE c = Backslash -> <<Backslash, c>>
    [] c \in DOMAIN EscapeLetter -> <<Backslash, EscapeLetter[c]>>
    [] c \in (32 .. 126) \ {Backslash} -> <<c>>
    [] OTHER -> <<Backslash, 120, HexDigit(c \div 16), HexDigit(c % 16)>>

Escaped(c) ==
  CASE c \in {Backslash, Quote} -> <<Backslash, c>>
    [] c \in DOMAIN EscapeLetter -> <<Backslash, EscapeLetter[c]>>
    [] c \in (32 .. 126) \ {Backslash, Quote} -> <<c>>
    [] OTHER -> <<Backslash, 120, HexDigit(c \div 16), HexDigit(c % 16)>>

sdscatrepr(t) ==
  <<Quote>> \o FlattenSeq([i \in DOMAIN t |-> Escaped(t[i])]) \o <<Quote>>

is_hex_digit(c) == c \in (48 .. 57) \cup (97 .. 102) \cup (65 .. 70)

hex_digit_to_int(c) ==
  CASE c \in 48 .. 57 -> c - 48
    [] c \in 97 .. 102 -> c - 87
    [] c \in 65 .. 70 -> c - 55
    [] OTHER -> 0

isspace(c) == c \in {32} \cup 9 .. 13

(* What a backslash and c mean between quotes. *)
Unescaped(c) ==
  IF \E b \in DOMAIN EscapeLetter : EscapeLetter[b] = c
  THEN CHOOSE b \in DOMAIN EscapeLetter : EscapeLetter[b] = c ELSE c

(* The argument read so far, in a mode: outside of quotes, inside of       *)
(* either kind, finished or refused; p is where reading goes on.           *)
Reading(mode, p, arg) == [mode |-> mode, p |-> p, arg |-> arg]

Closed(t, p, arg) ==
  IF At(t, p + 1) # 0 /\ ~isspace(At(t, p + 1)) THEN Reading("bad", p, arg)
  ELSE Reading("done", p + 1, arg)

Hex(t, p) == At(t, p) = 120 /\ is_hex_digit(At(t, p + 1)) /\ is_hex_digit(At(t, p + 2))

(* A turn of the loop. *)
Read(t, x) ==
  LET c == At(t, x.p)
      d == At(t, x.p + 1)
  IN  CASE x.mode \in {"done", "bad"} -> x
        [] x.mode = "plain" /\ c = 0 -> Reading("done", x.p, x.arg)
        [] x.mode = "plain" /\ c \in {32, 10, 13, 9} -> Reading("done", x.p + 1, x.arg)
        [] x.mode = "plain" /\ c = Quote -> Reading("quoted", x.p + 1, x.arg)
        [] x.mode = "plain" /\ c = Apostrophe -> Reading("single", x.p + 1, x.arg)
        [] x.mode \in {"quoted", "single"} /\ c = 0 -> Reading("bad", x.p, x.arg)
        [] x.mode = "quoted" /\ c = Quote -> Closed(t, x.p, x.arg)
        [] x.mode = "single" /\ c = Apostrophe -> Closed(t, x.p, x.arg)
        [] x.mode = "quoted" /\ c = Backslash /\ Hex(t, x.p + 1) ->
             Reading("quoted", x.p + 4,
                     Append(x.arg, 16 * hex_digit_to_int(At(t, x.p + 2))
                                   + hex_digit_to_int(At(t, x.p + 3))))
        [] x.mode = "quoted" /\ c = Backslash /\ d # 0 /\ ~Hex(t, x.p + 1) ->
             Reading("quoted", x.p + 2, Append(x.arg, Unescaped(d)))
        [] x.mode = "single" /\ c = Backslash /\ d = Apostrophe ->
             Reading("single", x.p + 2, Append(x.arg, Apostrophe))
        [] OTHER -> Reading(x.mode, x.p + 1, Append(x.arg, c))

(* The argument that begins at p.  A turn ends the loop or moves on, so    *)
(* there are no more turns than characters and one.                        *)
Token(t, p) ==
  LET turn[n \in 0 .. Len(t) + 1] ==
        IF n = 0 THEN Reading("plain", p, <<>>) ELSE Read(t, turn[n - 1])
  IN  turn[Len(t) + 1]

(* A turn of the loop around it: the end, a blank, or an argument. *)
Arguments(t, x) ==
  LET token == Token(t, x.p)
  IN  CASE x.mode # "line" -> x
        [] x.mode = "line" /\ At(t, x.p) = 0 -> Reading("done", x.p, x.arg)
        [] x.mode = "line" /\ isspace(At(t, x.p)) -> Reading("line", x.p + 1, x.arg)
        [] OTHER -> IF token.mode = "done" THEN Reading("line", token.p, Append(x.arg, token.arg))
                    ELSE Reading("bad", token.p, <<>>)

(* The arguments of a line, or none and ok = FALSE. *)
sdssplitargs(t) ==
  LET turn[n \in 0 .. Len(t) + 1] ==
        IF n = 0 THEN Reading("line", 1, <<>>) ELSE Arguments(t, turn[n - 1])
      end == turn[Len(t) + 1]
  IN  IF end.mode = "done" THEN [ok |-> TRUE, args |-> end.arg] ELSE [ok |-> FALSE, args |-> <<>>]

----------------------------------------------------------------------------
(* printf.  What the format and its values stand for is `out`, and the     *)
(* buffer is asked whether all of it went in by its last character but     *)
(* one, cleared before.                                                    *)

(* What a C string of this content says. *)
CString(t) ==
  CHOOSE u \in { SubSeq(t, 1, n) : n \in 0 .. Len(t) } :
    /\ \A i \in DOMAIN u : u[i] # 0
    /\ At(t, Len(u) + 1) = 0

(* vsnprintf into a buffer of this size. *)
Printed(out, buflen) == SubSeq(out, 1, Smaller(Len(out), buflen - 1))

(* Mutant: the cleared character is the last one. *)
Fits_LastOne(out, buflen) == At(Printed(out, buflen), buflen) = 0

Fits(out, buflen) == At(Printed(out, buflen), buflen - 1) = 0

(* The size of the buffer at the first turn at which all fits. *)
Doubled(out, buflen) ==
  LET size[n \in 0 .. Len(out)] == IF n = 0 THEN buflen ELSE 2 * size[n - 1]
      turn == CHOOSE n \in 0 .. Len(out) :
                Fits(out, size[n]) /\ \A m \in 0 .. n - 1 : ~Fits(out, size[m])
  IN  size[turn]

sdscatvprintf(t, fmtlen, out) ==
  LET first == IF 2 * fmtlen > StaticBuffer THEN 2 * fmtlen ELSE StaticBuffer
  IN  t \o CString(Printed(out, Doubled(out, first)))

----------------------------------------------------------------------------

TxtInit == line = <<>> /\ number = 0

NextCharacter ==
  \E c \in Alphabet : /\ Len(line) < MaxLine
                      /\ number = 0
                      /\ line' = Append(line, c)
                      /\ UNCHANGED number

NextNumber ==
  \E step \in {-1, 1} : /\ line = <<>>
                        /\ number + step \in -Half .. Half - 1
                        /\ number' = number + step
                        /\ UNCHANGED line

TxtNext == NextCharacter \/ NextNumber

TxtSpec == TxtInit /\ [][TxtNext]_txt

(* Properties. *)

Within(u, t) == \E j \in 1 .. Len(t) - Len(u) + 1 : SubSeq(t, j, j + Len(u) - 1) = u

(* Every part of the line of one character or two. *)
Separators ==
  UNION { { SubSeq(line, j, j + n - 1) : j \in 1 .. Len(line) - n + 1 } : n \in {1, 2} }

(* Splitting a text at a separator of one or of several characters, even   *)
(* one that overlaps itself, and joining the pieces gives the text back,   *)
(* no piece holds the separator, and every piece has a slot in the array   *)
(* (sdssplitlen, sdsjoinsds).                                              *)
SplitJoins ==
  \A sep \in Separators :
    LET split == sdssplitlen(line, sep)
    IN  /\ sdsjoinsds(split.tokens, sep) = line
        /\ \A i \in DOMAIN split.tokens : ~Within(sep, split.tokens[i])
        /\ Len(split.tokens) <= split.slots

(* What sdscatrepr writes, sdssplitargs reads as one argument, whatever    *)
(* the bytes; and the arguments of any line it accepts, written by         *)
(* sdscatrepr, read as the same arguments: the comments of both functions  *)
(* promise it of each other.                                               *)
ReprReadsBack ==
  /\ sdssplitargs(sdscatrepr(line)) = [ok |-> TRUE, args |-> <<line>>]
  /\ LET read == sdssplitargs(line)
     IN  read.ok => sdssplitargs(sdsjoinsds([i \in DOMAIN read.args |->
                                               sdscatrepr(read.args[i])], <<32>>)) = read

(* The text sdsll2str writes is the number in decimal, for every number up *)
(* to the least, whose magnitude has no positive counterpart.              *)
NumbersReadBack ==
  LET t == sdsll2str(number)
      digits == IF t[1] = 45 THEN Tail(t) ELSE t
      value[n \in 0 .. Len(digits)] ==
        IF n = 0 THEN 0 ELSE 10 * value[n - 1] + digits[n] - 48
  IN  /\ number = IF t[1] = 45 THEN -value[Len(digits)] ELSE value[Len(digits)]
      /\ \A i \in DOMAIN digits : digits[i] \in 48 .. 57
      /\ Len(digits) > 1 => digits[1] # 48

(* sdscatvprintf appends all that was printed, up to its first NUL,        *)
(* whatever size its buffers have.                                         *)
PrintsAll ==
  \A fmtlen \in 0 .. Len(line) :
    sdscatvprintf(<<>>, fmtlen, line) = CString(line)

=============================================================================
