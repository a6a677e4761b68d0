-------------------------------- MODULE Sds --------------------------------
(***************************************************************************)
(* The dynamic strings of rmutil (src/rmutil/sds.c, sds.h): a buffer       *)
(* behind a header that holds its length and, but in the smallest kind,    *)
(* its capacity, in integers as narrow as the string allows.               *)
(*                                                                         *)
(* A character is its code, Garbage memory nobody has written; what lies   *)
(* behind the terminator is never read and counts as garbage.  The widths  *)
(* of the headers and the most that is allocated in advance are constants  *)
(* of the model.  `text` is not in the code: it is the string that the     *)
(* calls so far mean, each by its definition in words.                     *)
(***************************************************************************)
EXTENDS Integers, FiniteSets, SequencesExt

CONSTANTS
  Char,          \* the characters written
  Room5, Room8, Room16,   \* how many values the length of a header has: 32,
                          \* 256 and 65536 in the code
  MaxPrealloc,   \* SDS_MAX_PREALLOC
  MaxText        \* bounds the length of the string

ASSUME HeaderAssumption ==
  /\ Char \subseteq Nat
  /\ {Room5, Room8, Room16, MaxPrealloc, MaxText} \subseteq Nat
  /\ 0 < Room5 /\ Room5 < Room8 - 1 /\ Room8 < Room16

VARIABLES
  s,      \* the string: its type, len and alloc, and buf, indexed from 0
  text,   \* what it should hold
  aborted \* an assertion of the code has failed

sds == <<s, text, aborted>>

NUL == 0
Garbage == -1

Lesser(a, b) == IF a <= b THEN a ELSE b
Greater(a, b) == IF a >= b THEN a ELSE b

----------------------------------------------------------------------------
(* Headers. *)

(* Mutant: a string as long as the header counts, with no value to spare. *)
sdsReqType_OffByOne(size) ==
  CASE size <= Room5 -> 5
    [] size > Room5 /\ size < Room8 - 1 -> 8
    [] size >= Room8 - 1 /\ size < Room16 - 1 -> 16
    [] OTHER -> 32

sdsReqType(size) ==
  CASE size < Room5 -> 5
    [] size >= Room5 /\ size < Room8 - 1 -> 8
    [] size >= Room8 - 1 /\ size < Room16 - 1 -> 16
    [] OTHER -> 32

(* What a length becomes in a header; the two widest are wide enough. *)
Stored(type, n) ==
  CASE type = 5 -> n % Room5
    [] type = 8 -> n % Room8
    [] type = 16 -> n % Room16
    [] OTHER -> n

sdsavail(d) == IF d.type = 5 THEN 0 ELSE d.alloc - d.len
sdsalloc(d) == IF d.type = 5 THEN d.len ELSE d.alloc

sdssetlen(d, n) == [d EXCEPT !.len = Stored(d.type, n)]

Cell(d, i) == IF i \in DOMAIN d.buf THEN d.buf[i] ELSE Garbage

(* memcpy of chars to position pos, wherever that is. *)
Write(d, pos, chars) ==
  [d EXCEPT !.buf =
     [i \in DOMAIN d.buf \cup pos .. pos + Len(chars) - 1 |->
        IF i \in pos .. pos + Len(chars) - 1 THEN chars[i - pos + 1] ELSE d.buf[i]]]

(* s[n] = '\0' at the end of an operation. *)
Terminate(d, n) ==
  LET ended == Write(d, n, <<NUL>>)
  IN  [ended EXCEPT !.buf = [i \in DOMAIN @ |-> IF i <= n THEN @[i] ELSE Garbage]]

Content(d) == [i \in 1 .. d.len |-> Cell(d, i - 1)]

(* A string of n characters moved to a block of its own for size of them. *)
Block(d, type, n, size) ==
  [type |-> type, len |-> Stored(type, n),
   alloc |-> IF type = 5 THEN 0 ELSE Stored(type, size),
   buf |-> [i \in 0 .. size |-> IF i <= n THEN Cell(d, i) ELSE Garbage]]

----------------------------------------------------------------------------
(* The operations. *)

sdsnewlen(chars) ==
  LET n == Len(chars)
      type == IF n = 0 THEN 8 ELSE sdsReqType(n)
  IN  Terminate(Write(Block([buf |-> <<>>], type, n, n), 0, chars), n)

(* Mutant: room for the whole string only, not what is added to it. *)
sdsMakeRoomFor_AddOnly(d, add) ==
  IF sdsavail(d) >= add THEN d
  ELSE LET newlen == IF add < MaxPrealloc THEN 2 * add ELSE add + MaxPrealloc
           type == Greater(8, sdsReqType(newlen))
       IN  Block(d, type, d.len, newlen)

sdsMakeRoomFor(d, add) ==
  IF sdsavail(d) >= add THEN d
  ELSE LET need == d.len + add
           newlen == IF need < MaxPrealloc THEN 2 * need ELSE need + MaxPrealloc
           type == Greater(8, sdsReqType(newlen))
       IN  Block(d, type, d.len, newlen)

sdsRemoveFreeSpace(d) == Block(d, sdsReqType(d.len), d.len, d.len)

sdscatlen(d, chars) ==
  LET n == d.len + Len(chars)
  IN  Terminate(sdssetlen(Write(sdsMakeRoomFor(d, Len(chars)), d.len, chars), n), n)

sdscpylen(d, chars) ==
  LET n == Len(chars)
      roomy == IF sdsalloc(d) < n THEN sdsMakeRoomFor(d, n - d.len) ELSE d
  IN  Terminate(sdssetlen(Write(roomy, 0, chars), n), n)

sdsgrowzero(d, n) ==
  IF n <= d.len THEN d
  ELSE LET roomy == sdsMakeRoomFor(d, n - d.len)
       IN  Terminate(sdssetlen(Write(roomy, d.len, [i \in 1 .. n - d.len |-> NUL]), n), n)

sdsclear(d) == Terminate(sdssetlen(d, 0), 0)

(* strlen *)
Strlen(d) == CHOOSE n \in 0 .. Cardinality(DOMAIN d.buf) :
               /\ Cell(d, n) = NUL \/ n \notin DOMAIN d.buf
               /\ \A i \in 0 .. n - 1 : Cell(d, i) # NUL

sdsupdatelen(d) == Terminate(sdssetlen(d, Strlen(d)), Strlen(d))

(* The assertions of sdsIncrLen. *)
MayIncr(d, incr) ==
  CASE d.type = 5 -> \/ incr > 0 /\ d.len + incr < Room5
                     \/ incr < 0 /\ d.len >= -incr
    [] OTHER -> \/ incr >= 0 /\ d.alloc - d.len >= incr
                \/ incr < 0 /\ d.len >= -incr

sdsIncrLen(d, incr) == Terminate(sdssetlen(d, d.len + incr), d.len + incr)

(* memmove of the n characters from position `from` on to the front. *)
Keep(d, from, n) ==
  Terminate(sdssetlen(Write(d, 0, [i \in 1 .. n |-> Cell(d, from + i - 1)]), n), n)

(* strchr finds the terminator of cset, too. *)
InCset(cset, c) == c \in cset \/ c = NUL

sdstrim(d, cset) ==
  LET end == d.len - 1
      sp == CHOOSE i \in 0 .. d.len :
              /\ i > end \/ ~InCset(cset, Cell(d, i))
              /\ \A j \in 0 .. i - 1 : InCset(cset, Cell(d, j))
      ep == CHOOSE i \in -1 .. end :
              /\ i <= sp \/ ~InCset(cset, Cell(d, i))
              /\ \A j \in i + 1 .. end : j > sp /\ InCset(cset, Cell(d, j))
  IN  Keep(d, sp, IF sp > end THEN 0 ELSE ep - sp + 1)

(* Mutant: an end beyond the string is not moved back. *)
sdsrange_NoClamp(d, start, end) ==
  LET from == IF start < 0 THEN Greater(0, d.len + start) ELSE start
      to == IF end < 0 THEN Greater(0, d.len + end) ELSE end
  IN  IF d.len = 0 THEN d
      ELSE IF from > to \/ from >= d.len THEN Keep(d, 0, 0)
      ELSE Keep(d, from, to - from + 1)

sdsrange(d, start, end) ==
  LET from == IF start < 0 THEN Greater(0, d.len + start) ELSE start
      to == IF end < 0 THEN Greater(0, d.len + end) ELSE end
  IN  IF d.len = 0 THEN d
      ELSE IF from > to \/ from >= d.len THEN Keep(d, 0, 0)
      ELSE Keep(d, from, Lesser(to, d.len - 1) - from + 1)

(* The first match counts. *)
Mapped(c, from, to) ==
  IF Contains(from, c)
  THEN to[CHOOSE i \in DOMAIN from : from[i] = c /\ \A j \in 1 .. i - 1 : from[j] # c]
  ELSE c

sdsmapchars(d, from, to) ==
  [d EXCEPT !.buf = [i \in DOMAIN @ |-> IF i < d.len THEN Mapped(@[i], from, to) ELSE @[i]]]

Lower(c) == IF c \in 65 .. 90 THEN c + 32 ELSE c
Upper(c) == IF c \in 97 .. 122 THEN c - 32 ELSE c

sdstolower(d) == [d EXCEPT !.buf = [i \in DOMAIN @ |-> IF i < d.len THEN Lower(@[i]) ELSE @[i]]]
sdstoupper(d) == [d EXCEPT !.buf = [i \in DOMAIN @ |-> IF i < d.len THEN Upper(@[i]) ELSE @[i]]]

(* One conversion of sdscatfmt, which comes to the characters given: a     *)
(* character of the format or of `%%` takes the room found at the top of   *)
(* the loop, a string or a number asks for its own.                        *)
Convert(d, item) ==
  LET n == Len(item.chars)
      one == IF sdsavail(d) = 0 THEN sdsMakeRoomFor(d, 1) ELSE d
      roomy == IF item.verbatim \/ sdsavail(one) >= n THEN one ELSE sdsMakeRoomFor(one, n)
  IN  sdssetlen(Write(roomy, d.len, item.chars), d.len + n)

sdscatfmt(d, items) ==
  LET done[k \in 0 .. Len(items)] == IF k = 0 THEN d ELSE Convert(done[k - 1], items[k])
      last == done[Len(items)]
  IN  Terminate(last, last.len)

----------------------------------------------------------------------------
(* What the calls mean, in words of their own. *)

Strings(n) == UNION {[1 .. k -> Char] : k \in 0 .. n}

From(t, i) == IF i < 0 THEN Greater(0, Len(t) + i) ELSE i

(* The characters from start to end, both counted from the end if negative. *)
Slice(t, start, end) == SubSeq(t, From(t, start) + 1, Lesser(From(t, end) + 1, Len(t)))

(* Without what is in the set at either end; NUL counts as in every set.   *)
Trimmed(t, cset) ==
  LET kept == {i \in DOMAIN t : t[i] \notin cset \cup {NUL}}
  IN  IF kept = {} THEN <<>>
      ELSE SubSeq(t, CHOOSE i \in kept : \A j \in kept : i <= j,
                     CHOOSE i \in kept : \A j \in kept : i >= j)

UpToNul(t) ==
  LET nuls == {i \in DOMAIN t : t[i] = NUL}
  IN  IF nuls = {} THEN t ELSE SubSeq(t, 1, (CHOOSE i \in nuls : \A j \in nuls : i <= j) - 1)

----------------------------------------------------------------------------
(* The calls. *)

SdsInit ==
  /\ s = sdsnewlen(<<>>)
  /\ text = <<>>
  /\ aborted = FALSE

Becomes(d, t) ==
  /\ Len(t) <= MaxText
  /\ s' = d
  /\ text' = t
  /\ UNCHANGED aborted

New(chars) == Becomes(sdsnewlen(chars), chars)

Dup == Becomes(sdsnewlen(Content(s)), text)

Cat(chars) == Becomes(sdscatlen(s, chars), text \o chars)

Cpy(chars) == Becomes(sdscpylen(s, chars), chars)

GrowZero(n) ==
  Becomes(sdsgrowzero(s, n), text \o [i \in 1 .. n - Len(text) |-> NUL])

Clear == Becomes(sdsclear(s), <<>>)

RemoveFreeSpace == Becomes(sdsRemoveFreeSpace(s), text)

(* A caller writes a NUL into the string and has its length taken anew. *)
CutAt(i) ==
  /\ i < Len(text)
  /\ Becomes(sdsupdatelen(Write(s, i, <<NUL>>)), UpToNul([text EXCEPT ![i + 1] = NUL]))

(* A caller makes room for k characters, reads fewer or as many into it    *)
(* and adds them to the length: read(2) in the comment on sdsIncrLen.      *)
ReadInto(k, chars) ==
  /\ Len(chars) <= k /\ Len(text) + k <= MaxText
  /\ LET roomy == sdsMakeRoomFor(s, k)
     IN  /\ s' = sdsIncrLen(Write(roomy, s.len, chars), Len(chars))
         /\ aborted' = ~MayIncr(roomy, Len(chars))
  /\ text' = text \o chars

RightTrim(n) ==
  /\ n <= Len(text)
  /\ s' = sdsIncrLen(s, -n)
  /\ aborted' = ~MayIncr(s, -n)
  /\ text' = SubSeq(text, 1, Len(text) - n)

TrimSet(cset) == Becomes(sdstrim(s, cset), Trimmed(text, cset))

RangeOf(start, end) == Becomes(sdsrange(s, start, end), Slice(text, start, end))

MapChars(from, to) ==
  Becomes(sdsmapchars(s, from, to), [i \in DOMAIN text |-> Mapped(text[i], from, to)])

ToLower == Becomes(sdstolower(s), [i \in DOMAIN text |-> Lower(text[i])])
ToUpper == Becomes(sdstoupper(s), [i \in DOMAIN text |-> Upper(text[i])])

CatFmt(items) ==
  Becomes(sdscatfmt(s, items), text \o FlattenSeq([i \in DOMAIN items |-> items[i].chars]))

Items == {[verbatim |-> v, chars |-> c] : v \in {TRUE}, c \in Strings(1) \ {<<>>}}
         \cup [verbatim : {FALSE}, chars : Strings(3)]

SdsNext ==
  \/ \E chars \in Strings(MaxText) : New(chars) \/ Cpy(chars)
  \/ \E chars \in Strings(3) : Cat(chars)
  \/ Dup \/ Clear \/ RemoveFreeSpace \/ ToLower \/ ToUpper
  \/ \E n \in 0 .. MaxText : GrowZero(n)
  \/ \E i \in 0 .. MaxText : CutAt(i)
  \/ \E k \in 1 .. 3, chars \in Strings(3) : ReadInto(k, chars)
  \/ \E n \in 1 .. MaxText : RightTrim(n)
  \/ \E cset \in SUBSET Char : TrimSet(cset)
  \/ \E start, end \in -(MaxText + 1) .. MaxText + 1 : RangeOf(start, end)
  \/ \E a, b \in Char : MapChars(<<a>>, <<b>>) \/ MapChars(<<a, b>>, <<b, a>>)
  \/ \E x, y \in Items : CatFmt(<<x, y>>)

SdsSpec == SdsInit /\ [][SdsNext]_sds

----------------------------------------------------------------------------
(* Properties. *)

(* A length within the capacity, a capacity within the block and within    *)
(* the integers of the header, and nothing written behind the block        *)
(* (sds.c:81-133, 194-240).                                                *)
SdsTypeOK ==
  LET room == Cardinality(DOMAIN s.buf) - 1
  IN  /\ s.type \in {5, 8, 16, 32}
      /\ DOMAIN s.buf = 0 .. room
      /\ s.len <= sdsalloc(s) /\ sdsalloc(s) <= room
      /\ s.type # 5 => s.alloc = room
      /\ ~aborted

(* Whatever the sequence of calls, and through every change of the header, *)
(* the string holds exactly what they mean, a NUL ends it, and its header  *)
(* and its buffer fit each other.                                          *)
HoldsText ==
  /\ SdsTypeOK
  /\ Content(s) = text
  /\ Cell(s, s.len) = NUL
=============================================================================
