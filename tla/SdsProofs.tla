----------------------------- MODULE SdsProofs ------------------------------
(***************************************************************************)
(* The strings of src/rmutil/sds.c hold their text, for any characters and *)
(* header sizes: the block always ends behind a NUL, the header can store  *)
(* the length and the room, and every call leaves the text that it should. *)
(*                                                                         *)
(* First the block: what room is made, and that writing within it keeps    *)
(* the rest.  Then each call on a sound string, then every step.           *)
(*                                                                         *)
(* The second half is about the algorithms on whole texts: printf, pieces  *)
(* of texts, splitting and joining, numbers, quoting and parsing.  Each is *)
(* a loop, of which a lemma says what every turn has done.                 *)
(***************************************************************************)
EXTENDS Sds, SdsText, BasicLemmas

----------------------------------------------------------------------------
(* The block and its header. *)

----------------------------------------------------------------------------
(* Strings. *)

Header == {5, 8, 16, 32}

(* d lies in a block for r characters and a terminator, its header counts *)
(* them and can count r. *)
InBlock(d, r) ==
  /\ d = [type |-> d.type, len |-> d.len, alloc |-> d.alloc, buf |-> d.buf]
  /\ d.type \in Header
  /\ r \in Nat /\ d.len \in 0 .. r
  /\ d.buf \in [0 .. r -> Int]
  /\ d.type = 5 => d.alloc = 0 /\ d.len < Room5
  /\ d.type = 8 => r < Room8
  /\ d.type = 16 => r < Room16
  /\ d.type # 5 => d.alloc = r

(* d holds the text t. *)
Holds(d, t) ==
  /\ t \in Seq(Int) /\ Len(t) = d.len
  /\ \A i \in 1 .. d.len : d.buf[i - 1] = t[i]
  /\ d.buf[d.len] = NUL

(* What the properties say of a string follows from these two. *)
LEMMA HoldsIsHoldsText ==
  ASSUME NEW r, InBlock(s, r), Holds(s, text), ~aborted
  PROVE  HoldsText
<1>1. /\ r \in Nat /\ s.len \in 0 .. r /\ s.len \in Nat /\ DOMAIN s.buf = 0 .. r
      /\ text \in Seq(Int) /\ Len(text) = s.len
  BY DEF InBlock, Holds
<1>2. Cardinality(DOMAIN s.buf) = r + 1
  BY <1>1, FS_Interval
<1>3. Cardinality(DOMAIN s.buf) - 1 = r
  BY <1>1, <1>2
<1>4. SdsTypeOK
  <2>1. s.len <= sdsalloc(s) /\ sdsalloc(s) <= r
    BY <1>1 DEF InBlock, sdsalloc
  <2>2. s.type \in {5, 8, 16, 32} /\ (s.type # 5 => s.alloc = r)
    BY DEF InBlock, Header
  <2>3. QED
    BY <1>1, <1>3, <2>1, <2>2 DEF SdsTypeOK
<1>5. Content(s) = text
  <2> DEFINE c == Content(s)
             t == text
             n == s.len
  <2>1. c = [i \in 1 .. n |-> Cell(s, i - 1)]
    BY DEF Content
  <2>2. \A i \in 1 .. n : Cell(s, i - 1) = t[i]
    BY <1>1 DEF Holds, Cell
  <2>3. t = [i \in 1 .. n |-> t[i]]
    BY <1>1
  <2> HIDE DEF c, t, n
  <2>4. c = t
    BY <2>1, <2>2, <2>3
  <2>5. QED
    BY <2>4 DEF c, t
<1>6. Cell(s, s.len) = NUL
  BY <1>1 DEF Holds, Cell
<1>7. QED
  BY <1>4, <1>5, <1>6 DEF HoldsText

(* e is d with chars at position pos. *)
Overwritten(d, e, r, pos, chars) ==
  /\ InBlock(e, r) /\ e.type = d.type /\ e.len = d.len /\ e.alloc = d.alloc
  /\ \A i \in 0 .. r :
       e.buf[i] = IF pos <= i /\ i < pos + Len(chars) THEN chars[i - pos + 1] ELSE d.buf[i]

(* Characters written into the block change the cells they go to. *)
LEMMA WriteStays ==
  ASSUME NEW d, NEW r, InBlock(d, r), NEW pos \in Nat, NEW chars \in Seq(Int),
         pos + Len(chars) <= r + 1, NEW e, e = Write(d, pos, chars)
  PROVE  Overwritten(d, e, r, pos, chars)
<1> DEFINE n == Len(chars)
           D == DOMAIN d.buf \cup pos .. pos + n - 1
           b == [i \in D |-> IF i \in pos .. pos + n - 1 THEN chars[i - pos + 1] ELSE d.buf[i]]
<1>1. n \in Nat /\ r \in Nat /\ DOMAIN chars = 1 .. n /\ d.buf \in [0 .. r -> Int]
      /\ \A i \in 1 .. n : chars[i] \in Int
  BY DEF InBlock
<1>2. D = 0 .. r
  <2> HIDE DEF n
  <2>1. pos + n <= r + 1
    BY DEF n
  <2>2. QED
    BY <1>1, <2>1
<1>3. e = [d EXCEPT !.buf = b]
  BY DEF Write
<1> HIDE DEF D
<1>4. \A i \in 0 .. r : b[i] = IF pos <= i /\ i < pos + n THEN chars[i - pos + 1] ELSE d.buf[i]
  <2> HIDE DEF n
  <2>1. \A i \in 0 .. r : i \in pos .. pos + n - 1 <=> pos <= i /\ i < pos + n
    BY <1>1
  <2>2. QED
    BY <1>2, <2>1
<1>5. b \in [0 .. r -> Int]
  <2> HIDE DEF n
  <2>1. ASSUME NEW i \in 0 .. r
        PROVE  b[i] \in Int
    <3>1. pos <= i /\ i < pos + n => i - pos + 1 \in 1 .. n
      BY <1>1
    <3>2. d.buf[i] \in Int
      BY <1>1
    <3> HIDE DEF b
    <3>3. QED
      BY <1>1, <1>4, <3>1, <3>2
  <2>2. b = [i \in 0 .. r |-> b[i]]
    BY <1>2
  <2> HIDE DEF b
  <2>3. QED
    BY <2>1, <2>2
<1> HIDE DEF b, n
<1>6. e = [type |-> d.type, len |-> d.len, alloc |-> d.alloc, buf |-> b]
  BY <1>3 DEF InBlock
<1>7. e.type = d.type /\ e.len = d.len /\ e.alloc = d.alloc /\ e.buf = b
  BY <1>6
<1>8. InBlock(e, r)
  BY <1>5, <1>6, <1>7 DEF InBlock
<1>9. QED
  BY <1>4, <1>7, <1>8 DEF n, Overwritten

(* A length that fits is what the header holds. *)
LEMMA LengthFits ==
  ASSUME NEW d, NEW r, InBlock(d, r), NEW n \in 0 .. r, d.type = 5 => n < Room5
  PROVE  Stored(d.type, n) = n
<1>1. r \in Nat /\ n \in Nat /\ n <= r /\ d.type \in Header
  BY DEF InBlock
<1>2. CASE d.type = 5
  BY <1>1, <1>2, HeaderAssumption DEF Stored
<1>3. CASE d.type = 8
  <2>1. n < Room8 /\ Room8 \in Nat
    BY <1>1, <1>3, HeaderAssumption DEF InBlock
  <2>2. QED
    BY <1>1, <1>3, <2>1 DEF Stored
<1>4. CASE d.type = 16
  <2>1. n < Room16 /\ Room16 \in Nat
    BY <1>1, <1>4, HeaderAssumption DEF InBlock
  <2>2. QED
    BY <1>1, <1>4, <2>1 DEF Stored
<1>5. CASE d.type = 32
  BY <1>5 DEF Stored
<1>6. QED
  BY <1>1, <1>2, <1>3, <1>4, <1>5 DEF Header

(* A length that fits the header, set and terminated. *)
Ended(d, e, r, n) ==
  /\ InBlock(e, r) /\ e.type = d.type /\ e.len = n /\ e.alloc = d.alloc
  /\ e.buf[n] = NUL
  /\ \A i \in 0 .. n - 1 : e.buf[i] = d.buf[i]

(* Setting the length leaves the NUL behind the text, where sdssetlen      *)
(* finds the header apart from the block.                                  *)
LEMMA EndStays ==
  ASSUME NEW d, NEW r, InBlock(d, r), NEW n \in 0 .. r, d.type = 5 => n < Room5,
         NEW e, e = Terminate(sdssetlen(d, n), n)
  PROVE  Ended(d, e, r, n)
<1>1. r \in Nat /\ n \in Nat /\ n <= r /\ d.type \in Header
  BY DEF InBlock
<1>2. Stored(d.type, n) = n
  BY LengthFits
<1> DEFINE f == sdssetlen(d, n)
           w == Write(f, n, <<NUL>>)
           b == [i \in DOMAIN w.buf |-> IF i <= n THEN w.buf[i] ELSE Garbage]
<1>3. f = [type |-> d.type, len |-> n, alloc |-> d.alloc, buf |-> d.buf]
  BY <1>2 DEF sdssetlen, InBlock
<1>4. f.type = d.type /\ f.len = n /\ f.alloc = d.alloc /\ f.buf = d.buf
  BY <1>3
<1>5. InBlock(f, r)
  BY <1>1, <1>3, <1>4 DEF InBlock
<1>6. e = [w EXCEPT !.buf = b]
  BY DEF Terminate
<1> HIDE DEF f
<1>7. /\ InBlock(w, r) /\ w.type = d.type /\ w.len = n /\ w.alloc = d.alloc
      /\ \A i \in 0 .. r : w.buf[i] = IF n <= i /\ i < n + 1 THEN NUL ELSE d.buf[i]
  <2> DEFINE chars == <<NUL>>
  <2>1. chars \in Seq(Int) /\ Len(chars) = 1 /\ chars[1] = NUL
    BY DEF NUL
  <2>2. w = Write(f, n, chars)
    OBVIOUS
  <2> HIDE DEF chars, w
  <2>3. n + Len(chars) <= r + 1
    BY <1>1, <2>1
  <2>4. Overwritten(f, w, r, n, chars)
    BY <1>1, <1>5, <2>1, <2>2, <2>3, WriteStays
  <2>5. \A i \in 0 .. r : n <= i /\ i < n + 1 => i - n + 1 = 1
    BY <1>1
  <2>6. QED
    BY <1>4, <2>1, <2>4, <2>5 DEF Overwritten
<1> HIDE DEF w
<1>8. w.buf \in [0 .. r -> Int] /\ DOMAIN w.buf = 0 .. r
      /\ w = [type |-> w.type, len |-> w.len, alloc |-> w.alloc, buf |-> w.buf]
  BY <1>7 DEF InBlock
<1>9. b \in [0 .. r -> Int] /\ \A i \in 0 .. n : b[i] = w.buf[i]
  BY <1>1, <1>8 DEF Garbage
<1>10. \A i \in 0 .. n : b[i] = IF i = n THEN NUL ELSE d.buf[i]
  BY <1>1, <1>7, <1>9
<1> HIDE DEF b
<1>11. e = [type |-> d.type, len |-> n, alloc |-> d.alloc, buf |-> b]
  BY <1>6, <1>7, <1>8
<1>12. e.type = d.type /\ e.len = n /\ e.alloc = d.alloc /\ e.buf = b
  BY <1>11
<1>13. InBlock(e, r)
  BY <1>1, <1>9, <1>11, <1>12 DEF InBlock
<1>14. QED
  BY <1>1, <1>10, <1>12, <1>13 DEF Ended

----------------------------------------------------------------------------
(* Making room. *)

(* Characters written, up to the end of the string that is to be. *)
LEMMA RewrittenHolds ==
  ASSUME NEW d, NEW r, InBlock(d, r), NEW pos \in Nat, NEW chars \in Seq(Int),
         NEW n, n = pos + Len(chars), n <= r, d.type = 5 => n < Room5,
         NEW t \in Seq(Int), Len(t) = n,
         \A i \in 1 .. pos : t[i] = d.buf[i - 1],
         \A j \in 1 .. Len(chars) : t[pos + j] = chars[j],
         NEW e, e = Terminate(sdssetlen(Write(d, pos, chars), n), n)
  PROVE  InBlock(e, r) /\ Holds(e, t)
<1> DEFINE w == Write(d, pos, chars)
           m == Len(chars)
<1>1. r \in Nat /\ m \in Nat /\ n \in 0 .. r /\ n \in Nat
  BY DEF InBlock
<1>2. Overwritten(d, w, r, pos, chars)
  BY <1>1, WriteStays
<1> HIDE DEF w
<1>3. w.type = d.type /\ InBlock(w, r)
  BY <1>2 DEF Overwritten
<1>4. Ended(w, e, r, n)
  <2>1. e = Terminate(sdssetlen(w, n), n)
    BY DEF w
  <2>2. QED
    BY <1>1, <1>3, <2>1, EndStays
<1>5. e.len = n /\ InBlock(e, r) /\ e.buf[e.len] = NUL /\ \A i \in 0 .. n - 1 : e.buf[i] = w.buf[i]
  BY <1>4 DEF Ended
<1>6. \A i \in 0 .. r : w.buf[i] = IF pos <= i /\ i < pos + m THEN chars[i - pos + 1] ELSE d.buf[i]
  BY <1>2 DEF Overwritten
<1>7. ASSUME NEW i \in 1 .. n
      PROVE  e.buf[i - 1] = t[i]
  <2>1. i - 1 \in 0 .. n - 1 /\ i - 1 \in 0 .. r /\ i \in Nat /\ n = pos + m
    BY <1>1
  <2>2. e.buf[i - 1] = IF pos <= i - 1 /\ i - 1 < pos + m THEN chars[(i - 1) - pos + 1] ELSE d.buf[i - 1]
    BY <1>5, <1>6, <2>1
  <2> HIDE DEF m
  <2>3. CASE i <= pos
    <3>1. i \in 1 .. pos /\ ~(pos <= i - 1)
      BY <2>1, <2>3
    <3>2. QED
      BY <2>2, <3>1
  <2>4. CASE i > pos
    <3>1. i - pos \in 1 .. m /\ pos + (i - pos) = i /\ (i - 1) - pos + 1 = i - pos
          /\ pos <= i - 1 /\ i - 1 < pos + m
      BY <1>1, <2>1, <2>4
    <3>2. t[pos + (i - pos)] = chars[i - pos]
      BY <3>1 DEF m
    <3>3. QED
      BY <2>2, <3>1, <3>2
  <2>5. QED
    BY <2>1, <2>3, <2>4
<1>8. QED
  BY <1>5, <1>7 DEF Holds

(* A header chosen for a size counts it. *)
LEMMA ReqTypeCounts ==
  ASSUME NEW n \in Nat
  PROVE  /\ sdsReqType(n) \in Header /\ Greater(8, sdsReqType(n)) \in Header \ {5}
         /\ sdsReqType(n) = 5 => n < Room5
         /\ sdsReqType(n) = 8 => n < Room8
         /\ sdsReqType(n) = 16 => n < Room16
         /\ Greater(8, sdsReqType(n)) = 8 => n < Room8
         /\ Greater(8, sdsReqType(n)) = 16 => n < Room16
  BY HeaderAssumption DEF sdsReqType, Greater, Header

(* The string in a block of its own. *)
LEMMA BlockIsOwn ==
  ASSUME NEW d, NEW type \in Header, NEW size \in Nat, NEW n \in 0 .. size,
         \A i \in 0 .. n : Cell(d, i) \in Int,
         type = 5 => n < Room5, type = 8 => size < Room8, type = 16 => size < Room16,
         NEW e, e = Block(d, type, n, size)
  PROVE  /\ InBlock(e, size) /\ e.type = type /\ e.len = n
         /\ \A i \in 0 .. n : e.buf[i] = Cell(d, i)
<1> DEFINE b == [i \in 0 .. size |-> IF i <= n THEN Cell(d, i) ELSE Garbage]
<1>1. n \in Nat /\ n <= size
  OBVIOUS
<1>2. Stored(type, n) = n
  BY <1>1, HeaderAssumption DEF Stored, Header
<1>3. type # 5 => Stored(type, size) = size
  BY HeaderAssumption DEF Stored, Header
<1>4. e = [type |-> type, len |-> n, alloc |-> IF type = 5 THEN 0 ELSE size, buf |-> b]
  BY <1>2, <1>3 DEF Block
<1>5. \A i \in 0 .. n : b[i] = Cell(d, i)
  BY <1>1
<1>6. b \in [0 .. size -> Int]
  <2>1. ASSUME NEW i \in 0 .. size
        PROVE  b[i] \in Int
    BY <1>1 DEF Garbage
  <2>2. b = [i \in 0 .. size |-> b[i]]
    OBVIOUS
  <2> HIDE DEF b
  <2>3. QED
    BY <2>1, <2>2
<1> HIDE DEF b
<1>7. e.type = type /\ e.len = n /\ e.buf = b /\ e.alloc = IF type = 5 THEN 0 ELSE size
  BY <1>4
<1>8. e = [type |-> e.type, len |-> e.len, alloc |-> e.alloc, buf |-> e.buf]
  BY <1>4, <1>7
<1>9. InBlock(e, size)
  BY <1>1, <1>6, <1>7, <1>8 DEF InBlock
<1>10. QED
  BY <1>5, <1>7, <1>9

(* e is d with room for `add` characters more, whatever block it is in. *)
Roomy(d, e, add) ==
  /\ e.len = d.len /\ sdsavail(e) >= add
  /\ \E q : /\ InBlock(e, q) /\ d.len + add <= q
            /\ e.type = 5 => d.len + add < Room5
  /\ \A i \in 0 .. d.len : e.buf[i] = d.buf[i]

(* sdsMakeRoomFor makes it, in a wider header if need be. *)
LEMMA RoomIsMade ==
  ASSUME NEW d, NEW r, InBlock(d, r), NEW add \in Nat
  PROVE  Roomy(d, sdsMakeRoomFor(d, add), add)
<1> DEFINE n == d.len
           e == sdsMakeRoomFor(d, add)
<1>1. /\ r \in Nat /\ n \in 0 .. r /\ n \in Nat /\ d.type \in Header
      /\ DOMAIN d.buf = 0 .. r /\ \A i \in 0 .. r : d.buf[i] \in Int
  BY DEF InBlock
<1>2. CASE sdsavail(d) >= add
  <2>1. e = d
    BY <1>2 DEF sdsMakeRoomFor
  <2>2. CASE d.type = 5
    <3>1. add = 0
      BY <1>2, <2>2 DEF sdsavail
    <3>2. n + add = n
      BY <1>1, <3>1
    <3>3. n < Room5
      BY <2>2 DEF InBlock
    <3>4. n + add <= r
      BY <1>1, <3>2
    <3>5. QED
      BY <1>2, <2>1, <3>2, <3>3, <3>4 DEF Roomy
  <2>3. CASE d.type # 5
    <3>1. d.alloc = r
      BY <2>3 DEF InBlock
    <3>2. r - n >= add
      BY <1>2, <2>3, <3>1 DEF sdsavail
    <3>3. n + add <= r
      BY <1>1, <3>2
    <3>4. QED
      BY <1>2, <2>1, <2>3, <3>3 DEF Roomy
  <2>4. QED
    BY <2>2, <2>3
<1>3. CASE ~(sdsavail(d) >= add)
  <2> DEFINE need == n + add
             newlen == IF need < MaxPrealloc THEN 2 * need ELSE need + MaxPrealloc
             type == Greater(8, sdsReqType(newlen))
  <2>1. e = Block(d, type, n, newlen)
    BY <1>3 DEF sdsMakeRoomFor
  <2>2. need \in Nat
    BY <1>1
  <2>3. newlen \in Nat /\ need <= newlen /\ n <= newlen
    <3>1. n <= need
      BY <1>1
    <3> HIDE DEF need
    <3>2. QED
      BY <1>1, <2>2, <3>1, HeaderAssumption
  <2> HIDE DEF newlen
  <2>4. /\ type \in Header \ {5}
        /\ type = 8 => newlen < Room8
        /\ type = 16 => newlen < Room16
    BY <2>3, ReqTypeCounts
  <2> HIDE DEF type
  <2>5. \A i \in 0 .. n : Cell(d, i) = d.buf[i] /\ Cell(d, i) \in Int
    BY <1>1 DEF Cell
  <2>6. /\ InBlock(e, newlen) /\ e.type = type /\ e.len = n
        /\ \A i \in 0 .. n : e.buf[i] = Cell(d, i)
    <3> HIDE DEF n, e
    <3>1. n \in 0 .. newlen /\ newlen \in Nat
      BY <1>1, <2>3
    <3>2. type \in Header /\ type # 5
      BY <2>4
    <3>3. (type = 8 => newlen < Room8) /\ (type = 16 => newlen < Room16)
      BY <2>4
    <3>4. QED
      BY <2>1, <2>5, <3>1, <3>2, <3>3, BlockIsOwn
  <2>7. sdsavail(e) >= add
    <3>1. sdsavail(e) = newlen - n
      BY <2>4, <2>6 DEF sdsavail, InBlock
    <3>2. newlen - n >= add
      <4>1. need = n + add
        OBVIOUS
      <4> HIDE DEF need
      <4>2. QED
        BY <1>1, <2>2, <2>3, <4>1
    <3>3. QED
      BY <3>1, <3>2
  <2>8. QED
    BY <2>3, <2>4, <2>5, <2>6, <2>7 DEF Roomy
<1>4. QED
  BY <1>2, <1>3

(* What is in the string stays there. *)
LEMMA RoomyHolds ==
  ASSUME NEW d, NEW e, NEW add, Roomy(d, e, add), NEW t, Holds(d, t), d.len \in Nat
  PROVE  Holds(e, t)
<1>1. e.len = d.len /\ \A i \in 0 .. d.len : e.buf[i] = d.buf[i]
  BY DEF Roomy
<1>2. \A i \in 1 .. d.len : i - 1 \in 0 .. d.len
  OBVIOUS
<1>3. d.len \in 0 .. d.len
  OBVIOUS
<1>4. QED
  BY <1>1, <1>2, <1>3 DEF Holds

----------------------------------------------------------------------------
(* Strings that hold their text. *)

(* d is in a block of its own and holds the text t. *)
Sound(d, t) == (\E r : InBlock(d, r)) /\ Holds(d, t)

(* A length that is already set does not change the string. *)
LEMMA LengthIsSet ==
  ASSUME NEW d, NEW r, InBlock(d, r)
  PROVE  sdssetlen(d, d.len) = d
<1>1. d.len \in 0 .. r /\ (d.type = 5 => d.len < Room5)
  BY DEF InBlock
<1>2. Stored(d.type, d.len) = d.len
  BY <1>1, LengthFits
<1>3. sdssetlen(d, d.len) = [d EXCEPT !.len = d.len]
  BY <1>2 DEF sdssetlen
<1>4. d = [type |-> d.type, len |-> d.len, alloc |-> d.alloc, buf |-> d.buf]
  BY DEF InBlock
<1>5. [d EXCEPT !.len = d.len] = d
  BY <1>4
<1>6. QED
  BY <1>3, <1>5

(* sdsnewlen *)
LEMMA NewSound ==
  ASSUME NEW chars \in Seq(Int)
  PROVE  Sound(sdsnewlen(chars), chars)
<1> DEFINE n == Len(chars)
           type == IF n = 0 THEN 8 ELSE sdsReqType(n)
           d0 == [buf |-> <<>>]
           b == Block(d0, type, n, n)
           w == Write(b, 0, chars)
           e == Terminate(sdssetlen(w, n), n)
<1>1. n \in Nat /\ n \in 0 .. n /\ n <= n
  OBVIOUS
<1>2. type \in Header
  BY <1>1, ReqTypeCounts DEF Header
<1>3. type = 5 => n < Room5
  BY <1>1, ReqTypeCounts
<1>4. type = 8 => n < Room8
  BY <1>1, ReqTypeCounts, HeaderAssumption
<1>5. type = 16 => n < Room16
  BY <1>1, ReqTypeCounts
<1>6. \A i \in 0 .. n : Cell(d0, i) \in Int
  <2>1. d0.buf = <<>> /\ DOMAIN d0.buf = {}
    OBVIOUS
  <2> HIDE DEF d0
  <2>2. QED
    BY <2>1 DEF Cell, Garbage
<1>7. w = Write(b, 0, chars) /\ b = Block(d0, type, n, n)
  OBVIOUS
<1>8. sdsnewlen(chars) = Terminate(w, n)
  BY DEF sdsnewlen
<1>9. n = Len(chars)
  OBVIOUS
<1> HIDE DEF n, type, d0, b, w
<1>10. InBlock(b, n) /\ b.type = type /\ b.len = n
  BY <1>1, <1>2, <1>3, <1>4, <1>5, <1>6, <1>7, BlockIsOwn
<1>11. Overwritten(b, w, n, 0, chars)
  <2>1. 0 + Len(chars) <= n + 1
    BY <1>1, <1>9
  <2>2. QED
    BY <1>7, <1>10, <2>1, WriteStays
<1>12. InBlock(w, n) /\ w.len = n
  BY <1>10, <1>11 DEF Overwritten
<1>13. sdssetlen(w, n) = w
  BY <1>12, LengthIsSet
<1>14. InBlock(e, n) /\ Holds(e, chars)
  <2>1. n = 0 + Len(chars) /\ (b.type = 5 => n < Room5)
    BY <1>1, <1>3, <1>9, <1>10
  <2>2. \A i \in 1 .. 0 : chars[i] = b.buf[i - 1]
    OBVIOUS
  <2>3. \A j \in 1 .. Len(chars) : chars[0 + j] = chars[j]
    OBVIOUS
  <2>4. e = Terminate(sdssetlen(Write(b, 0, chars), n), n)
    BY <1>7
  <2> HIDE DEF e
  <2>5. QED
    BY <1>1, <1>9, <1>10, <2>1, <2>2, <2>3, <2>4, RewrittenHolds
<1>15. sdsnewlen(chars) = e
  BY <1>8, <1>13
<1>16. QED
  BY <1>14, <1>15 DEF Sound

(* The text goes on where it ended, in a block with room for it. *)
LEMMA AppendedHolds ==
  ASSUME NEW d, NEW e, NEW t, Holds(d, t), d.len \in Nat, NEW chars \in Seq(Int),
         Roomy(d, e, Len(chars)),
         NEW f, f = Terminate(sdssetlen(Write(e, d.len, chars), d.len + Len(chars)), d.len + Len(chars))
  PROVE  Sound(f, t \o chars)
<1> DEFINE pos == d.len
           n == pos + Len(chars)
           u == t \o chars
<1>1. PICK q : InBlock(e, q) /\ pos + Len(chars) <= q /\ (e.type = 5 => pos + Len(chars) < Room5)
  BY DEF Roomy
<1>2. t \in Seq(Int) /\ Len(t) = pos /\ \A i \in 1 .. pos : d.buf[i - 1] = t[i]
  BY DEF Holds
<1>3. \A i \in 0 .. pos : e.buf[i] = d.buf[i]
  BY DEF Roomy
<1>4. /\ u \in Seq(Int) /\ Len(u) = n
      /\ \A i \in 1 .. pos : u[i] = t[i]
      /\ \A j \in 1 .. Len(chars) : u[pos + j] = chars[j]
  <2> DEFINE m == Len(t)
  <2>1. /\ t \o chars \in Seq(Int) /\ Len(t \o chars) = m + Len(chars)
        /\ \A i \in 1 .. m : (t \o chars)[i] = t[i]
        /\ \A j \in 1 .. Len(chars) : (t \o chars)[m + j] = chars[j]
    <3> DEFINE c == t \o chars
    <3>1. c = t \o chars
      OBVIOUS
    <3> HIDE DEF c
    <3>2. /\ c \in Seq(Int) /\ Len(c) = Len(t) + Len(chars)
          /\ \A i \in 1 .. Len(t) : c[i] = t[i]
          /\ \A j \in 1 .. Len(chars) : c[Len(t) + j] = chars[j]
      <4> DEFINE X == Int
      <4>1. t \in Seq(X) /\ chars \in Seq(X)
        BY <1>2
      <4> HIDE DEF X
      <4>2. /\ c \in Seq(X) /\ Len(c) = Len(t) + Len(chars)
            /\ \A i \in 1 .. Len(t) : c[i] = t[i]
            /\ \A j \in 1 .. Len(chars) : c[Len(t) + j] = chars[j]
        BY ONLY <4>1, <3>1, ConcatPositions
      <4>3. QED
        BY <4>2 DEF X
    <3>3. QED
      BY <3>2 DEF c
  <2>2. m = pos
    BY <1>2
  <2> HIDE DEF m, pos
  <2>3. QED
    BY <2>1, <2>2
<1>5. \A i \in 1 .. pos : u[i] = e.buf[i - 1]
  <2>1. \A i \in 1 .. pos : i - 1 \in 0 .. pos
    OBVIOUS
  <2>2. QED
    BY <1>2, <1>3, <1>4, <2>1
<1>6. n \in Nat /\ pos \in Nat
  OBVIOUS
<1>7. f = Terminate(sdssetlen(Write(e, pos, chars), n), n)
  OBVIOUS
<1>8. n = pos + Len(chars) /\ n <= q /\ (e.type = 5 => n < Room5)
  BY <1>1
<1> HIDE DEF pos, n, u
<1>9. InBlock(f, q) /\ Holds(f, u)
  <2>1. InBlock(e, q) /\ pos \in Nat /\ n <= q /\ (e.type = 5 => n < Room5) /\ n = pos + Len(chars)
    BY <1>1, <1>6, <1>8
  <2>2. u \in Seq(Int) /\ Len(u) = n
    BY <1>4
  <2>3. \A j \in 1 .. Len(chars) : u[pos + j] = chars[j]
    BY <1>4
  <2>4. QED
    BY ONLY <2>1, <2>2, <2>3, <1>5, <1>7, chars \in Seq(Int), RewrittenHolds
<1>10. QED
  BY <1>9 DEF u, Sound

(* sdscatlen *)
LEMMA CatSound ==
  ASSUME NEW d, NEW t, Sound(d, t), NEW chars \in Seq(Int)
  PROVE  Sound(sdscatlen(d, chars), t \o chars)
<1>1. PICK r : InBlock(d, r)
  BY DEF Sound
<1>2. Holds(d, t) /\ d.len \in Nat /\ Len(chars) \in Nat
  BY <1>1 DEF Sound, InBlock
<1> DEFINE e == sdsMakeRoomFor(d, Len(chars))
           f == sdscatlen(d, chars)
<1>3. Roomy(d, e, Len(chars))
  BY <1>1, <1>2, RoomIsMade
<1>4. f = Terminate(sdssetlen(Write(e, d.len, chars), d.len + Len(chars)), d.len + Len(chars))
  BY DEF sdscatlen
<1> HIDE DEF e, f
<1>5. Sound(f, t \o chars)
  BY <1>2, <1>3, <1>4, AppendedHolds
<1>6. QED
  BY <1>5 DEF f

----------------------------------------------------------------------------
(* Copying over, growing, cutting, freeing. *)

(* What is written from the start on is the text. *)
LEMMA FrontHolds ==
  ASSUME NEW e, NEW q, InBlock(e, q), NEW chars \in Seq(Int), Len(chars) <= q,
         e.type = 5 => Len(chars) < Room5,
         NEW f, f = Terminate(sdssetlen(Write(e, 0, chars), Len(chars)), Len(chars))
  PROVE  Sound(f, chars)
<1> DEFINE n == Len(chars)
<1>1. n \in Nat /\ n <= q /\ (e.type = 5 => n < Room5) /\ n = 0 + Len(chars)
  OBVIOUS
<1>2. \A i \in 1 .. 0 : chars[i] = e.buf[i - 1]
  OBVIOUS
<1>3. \A j \in 1 .. Len(chars) : chars[0 + j] = chars[j]
  OBVIOUS
<1>4. f = Terminate(sdssetlen(Write(e, 0, chars), n), n)
  OBVIOUS
<1>5. Len(chars) = n /\ 0 \in Nat
  OBVIOUS
<1> HIDE DEF n
<1>6. InBlock(f, q) /\ Holds(f, chars)
  BY ONLY InBlock(e, q), <1>1, <1>2, <1>3, <1>4, <1>5, chars \in Seq(Int), RewrittenHolds
<1>7. QED
  BY <1>6 DEF Sound

(* sdscpylen *)
LEMMA CpySound ==
  ASSUME NEW d, NEW t, Sound(d, t), NEW chars \in Seq(Int)
  PROVE  Sound(sdscpylen(d, chars), chars)
<1>1. PICK r : InBlock(d, r)
  BY DEF Sound
<1>2. d.len \in Nat /\ r \in Nat /\ d.len <= r /\ d.type \in Header
  BY <1>1 DEF InBlock
<1> DEFINE n == Len(chars)
           e == IF sdsalloc(d) < n THEN sdsMakeRoomFor(d, n - d.len) ELSE d
           f == sdscpylen(d, chars)
<1>3. f = Terminate(sdssetlen(Write(e, 0, chars), n), n)
  BY DEF sdscpylen
<1>4. n \in Nat
  OBVIOUS
<1> HIDE DEF n
<1>5. \E q : InBlock(e, q) /\ n <= q /\ (e.type = 5 => n < Room5)
  <2>1. CASE sdsalloc(d) < n
    <3> DEFINE add == n - d.len
               g == sdsMakeRoomFor(d, add)
    <3>1. d.len <= sdsalloc(d) /\ sdsalloc(d) \in Nat
      BY <1>1, <1>2 DEF sdsalloc, InBlock
    <3>2. add \in Nat /\ d.len + add = n
      BY <1>2, <1>4, <2>1, <3>1
    <3>3. e = g
      BY <2>1
    <3> HIDE DEF add
    <3>4. Roomy(d, g, add)
      BY <1>1, <3>2, RoomIsMade
    <3>5. QED
      BY <3>2, <3>3, <3>4 DEF Roomy
  <2>2. CASE ~(sdsalloc(d) < n)
    <3>1. CASE d.type = 5
      <4>1. n <= d.len /\ d.len < Room5 /\ Room5 \in Nat
        BY <1>1, <1>2, <1>4, <2>2, <3>1, HeaderAssumption DEF sdsalloc, InBlock
      <4>2. n <= r /\ n < Room5
        BY <1>2, <1>4, <4>1
      <4>3. QED
        BY <1>1, <2>2, <4>2
    <3>2. CASE d.type # 5
      <4>1. n <= r
        BY <1>1, <1>2, <1>4, <2>2, <3>2 DEF sdsalloc, InBlock
      <4>2. QED
        BY <1>1, <2>2, <3>2, <4>1
    <3>3. QED
      BY <3>1, <3>2
  <2>3. QED
    BY <2>1, <2>2
<1>6. PICK q : InBlock(e, q) /\ n <= q /\ (e.type = 5 => n < Room5)
  BY <1>5
<1> HIDE DEF e, f
<1>7. Sound(f, chars)
  BY <1>3, <1>6, FrontHolds DEF n
<1>8. QED
  BY <1>7 DEF f

(* sdsgrowzero *)
LEMMA GrowZeroSound ==
  ASSUME NEW d, NEW t, Sound(d, t), NEW n \in Nat
  PROVE  Sound(sdsgrowzero(d, n), t \o [i \in 1 .. n - Len(t) |-> NUL])
<1>1. PICK r : InBlock(d, r)
  BY DEF Sound
<1>2. Holds(d, t) /\ d.len \in Nat /\ t \in Seq(Int) /\ Len(t) = d.len
  BY <1>1 DEF Sound, InBlock, Holds
<1> DEFINE add == n - d.len
           zeros == [i \in 1 .. add |-> NUL]
           e == sdsMakeRoomFor(d, add)
           f == sdsgrowzero(d, n)
<1>3. CASE n <= d.len
  <2>1. f = d
    BY <1>3 DEF sdsgrowzero
  <2>2. 1 .. add = {}
    BY <1>2, <1>3
  <2>3. zeros = <<>>
    BY <2>2
  <2>4. t \o zeros = t
    <3> HIDE DEF zeros
    <3>1. t \o <<>> = t
      BY <1>2
    <3>2. QED
      BY <2>3, <3>1
  <2>5. QED
    BY <1>2, <2>1, <2>4
<1>4. CASE ~(n <= d.len)
  <2>1. add \in Nat /\ d.len + add = n
    BY <1>2, <1>4
  <2>2. f = Terminate(sdssetlen(Write(e, d.len, zeros), n), n)
    BY <1>4 DEF sdsgrowzero
  <2>4. t \o [i \in 1 .. n - Len(t) |-> NUL] = t \o zeros
    BY <1>2
  <2> HIDE DEF add
  <2>5. zeros \in Seq(Int) /\ Len(zeros) = add
    BY <2>1 DEF NUL
  <2>6. Roomy(d, e, add)
    BY <1>1, <2>1, RoomIsMade
  <2> HIDE DEF e, f, zeros
  <2>7. Sound(f, t \o zeros)
    BY <1>2, <2>1, <2>2, <2>5, <2>6, AppendedHolds
  <2>8. QED
    BY <2>4, <2>7 DEF f
<1>5. QED
  BY <1>3, <1>4

(* A string cut short where its terminator is put. *)
LEMMA ShortenedSound ==
  ASSUME NEW d, NEW t, Sound(d, t), NEW n \in 0 .. d.len
  PROVE  Sound(Terminate(sdssetlen(d, n), n), SubSeq(t, 1, n))
<1>1. PICK r : InBlock(d, r)
  BY DEF Sound
<1>2. Holds(d, t) /\ d.len \in Nat /\ t \in Seq(Int) /\ Len(t) = d.len /\ d.len <= r /\ r \in Nat
  BY <1>1 DEF Sound, InBlock, Holds
<1>3. n \in 0 .. r /\ n \in Nat /\ n <= d.len
  BY <1>2
<1>4. d.type = 5 => n < Room5
  BY <1>1, <1>2, <1>3, HeaderAssumption DEF InBlock
<1> DEFINE f == Terminate(sdssetlen(d, n), n)
           u == SubSeq(t, 1, n)
<1>5. Ended(d, f, r, n)
  BY <1>1, <1>3, <1>4, EndStays
<1>6. u \in Seq(Int) /\ Len(u) = n /\ \A i \in 1 .. n : u[i] = t[i]
  BY <1>2, <1>3
<1> HIDE DEF f, u
<1>7. InBlock(f, r) /\ f.len = n /\ f.buf[n] = NUL /\ \A i \in 0 .. n - 1 : f.buf[i] = d.buf[i]
  BY <1>5 DEF Ended
<1>8. \A i \in 1 .. n : i - 1 \in 0 .. n - 1 /\ i \in 1 .. d.len
  BY <1>2, <1>3
<1>9. \A i \in 1 .. n : f.buf[i - 1] = u[i]
  BY <1>2, <1>6, <1>7, <1>8 DEF Holds
<1>10. QED
  BY <1>6, <1>7, <1>9 DEF Sound, Holds, f, u

(* sdsclear *)
LEMMA ClearSound ==
  ASSUME NEW d, NEW t, Sound(d, t)
  PROVE  Sound(sdsclear(d), <<>>)
<1>1. d.len \in Nat /\ t \in Seq(Int)
  BY DEF Sound, InBlock, Holds
<1>2. 0 \in 0 .. d.len
  BY <1>1
<1>3. Sound(Terminate(sdssetlen(d, 0), 0), SubSeq(t, 1, 0))
  BY <1>2, ShortenedSound
<1>4. SubSeq(t, 1, 0) = <<>>
  BY <1>1
<1>5. QED
  BY <1>3, <1>4 DEF sdsclear

(* sdsRemoveFreeSpace *)
LEMMA FreeSound ==
  ASSUME NEW d, NEW t, Sound(d, t)
  PROVE  Sound(sdsRemoveFreeSpace(d), t)
<1>1. PICK r : InBlock(d, r)
  BY DEF Sound
<1> DEFINE n == d.len
           type == sdsReqType(n)
           e == sdsRemoveFreeSpace(d)
<1>2. n \in Nat /\ n \in 0 .. n /\ n <= n /\ d.buf \in [0 .. r -> Int] /\ r \in Nat /\ n <= r
  BY <1>1 DEF InBlock
<1>3. e = Block(d, type, n, n)
  BY DEF sdsRemoveFreeSpace
<1>4. \A i \in 0 .. n : Cell(d, i) = d.buf[i] /\ Cell(d, i) \in Int
  BY <1>2 DEF Cell
<1>5. Holds(d, t) /\ Len(t) = n
  BY DEF Sound, Holds
<1>6. type \in Header
  BY <1>2, ReqTypeCounts
<1>7. type = 5 => n < Room5
  BY <1>2, ReqTypeCounts
<1>8. type = 8 => n < Room8
  BY <1>2, ReqTypeCounts
<1>9. type = 16 => n < Room16
  BY <1>2, ReqTypeCounts
<1> HIDE DEF n, type, e
<1>10. InBlock(e, n) /\ e.len = n /\ \A i \in 0 .. n : e.buf[i] = Cell(d, i)
  BY <1>2, <1>3, <1>4, <1>6, <1>7, <1>8, <1>9, BlockIsOwn
<1>11. \A i \in 1 .. n : i - 1 \in 0 .. n
  BY <1>2
<1>12. Holds(e, t)
  <2>1. e.buf[e.len] = NUL
    BY <1>2, <1>4, <1>5, <1>10 DEF Holds, n
  <2>2. \A i \in 1 .. e.len : e.buf[i - 1] = t[i]
    BY <1>2, <1>4, <1>5, <1>10, <1>11 DEF Holds, n
  <2>3. QED
    BY <1>5, <1>10, <2>1, <2>2 DEF Holds
<1>13. QED
  BY <1>10, <1>12 DEF Sound, e

(* Keep: what lies from `from` on, moved to the front. *)
LEMMA KeepSound ==
  ASSUME NEW d, NEW t, Sound(d, t), NEW from \in Nat, NEW n \in Nat, from + n <= d.len
  PROVE  Sound(Keep(d, from, n), SubSeq(t, from + 1, from + n))
<1>1. PICK r : InBlock(d, r)
  BY DEF Sound
<1>2. /\ Holds(d, t) /\ d.len \in Nat /\ t \in Seq(Int) /\ Len(t) = d.len /\ d.len <= r /\ r \in Nat
      /\ DOMAIN d.buf = 0 .. r
  BY <1>1 DEF Sound, InBlock, Holds
<1> DEFINE chars == [i \in 1 .. n |-> Cell(d, from + i - 1)]
           u == SubSeq(t, from + 1, from + n)
           f == Keep(d, from, n)
<1>3. \A i \in 1 .. n : Cell(d, from + i - 1) = t[from + i] /\ t[from + i] \in Int
  <2> SUFFICES ASSUME NEW i \in 1 .. n
               PROVE  Cell(d, from + i - 1) = t[from + i] /\ t[from + i] \in Int
    OBVIOUS
  <2> DEFINE k == from + i
  <2>1. k \in 1 .. d.len /\ from + i - 1 = k - 1 /\ k - 1 \in 0 .. r
    BY <1>2
  <2> HIDE DEF k
  <2>2. Cell(d, k - 1) = d.buf[k - 1] /\ d.buf[k - 1] = t[k] /\ t[k] \in Int
    BY <1>2, <2>1 DEF Cell, Holds
  <2>3. QED
    BY <2>1, <2>2 DEF k
<1>4. chars \in Seq(Int) /\ Len(chars) = n
  <2>1. \A i \in 1 .. n : Cell(d, from + i - 1) \in Int
    BY <1>3
  <2>2. QED
    BY <2>1
<1>5. u = chars
  <2> DEFINE m == from + n
  <2>0. m \in Nat /\ m <= d.len /\ m <= Len(t) /\ from + 1 \in Nat /\ from + 1 >= 1 /\ (m - (from + 1)) + 1 = n
    BY <1>2
  <2>1. u \in Seq(Int) /\ Len(u) = n
    <3>1. u = SubSeq(t, from + 1, m)
      OBVIOUS
    <3> HIDE DEF m, u
    <3>2. QED
      BY <1>2, <2>0, <3>1
  <2>2. \A i \in 1 .. n : u[i] = t[from + i]
    <3>1. u = SubSeq(t, from + 1, m)
      OBVIOUS
    <3> HIDE DEF m, u
    <3>2. QED
      BY <1>2, <2>0, <3>1
  <2>3. u = [i \in 1 .. n |-> u[i]]
    BY <2>1
  <2> HIDE DEF u
  <2>4. QED
    BY <1>3, <2>2, <2>3
<1>6. f = Terminate(sdssetlen(Write(d, 0, chars), n), n)
  BY DEF Keep
<1>7. n <= r /\ (d.type = 5 => n < Room5)
  <2>1. d.len \in Int /\ r \in Int /\ d.len <= r /\ (d.type = 5 => d.len < Room5) /\ Room5 \in Int
    BY <1>1, HeaderAssumption DEF InBlock
  <2>2. n \in Int /\ n <= d.len
    BY <1>2
  <2>3. QED
    BY <2>1, <2>2
<1> HIDE DEF chars, u, f
<1>8. Sound(f, chars)
  BY <1>1, <1>4, <1>6, <1>7, FrontHolds
<1>9. QED
  BY <1>5, <1>8 DEF f, u

(* The characters changed where they stand. *)
LEMMA MappedSound ==
  ASSUME NEW d, NEW t, Sound(d, t), NEW b \in [DOMAIN d.buf -> Int], b[d.len] = d.buf[d.len],
         NEW u \in Seq(Int), Len(u) = d.len, \A i \in 1 .. d.len : b[i - 1] = u[i],
         NEW f, f = [d EXCEPT !.buf = b]
  PROVE  Sound(f, u)
<1>1. PICK r : InBlock(d, r)
  BY DEF Sound
<1>2. f = [type |-> d.type, len |-> d.len, alloc |-> d.alloc, buf |-> b]
  BY <1>1 DEF InBlock
<1>3. f.type = d.type /\ f.len = d.len /\ f.alloc = d.alloc /\ f.buf = b
  BY <1>2
<1>4. InBlock(f, r)
  BY <1>1, <1>2, <1>3 DEF InBlock
<1>5. Holds(f, u)
  BY <1>3 DEF Holds, Sound
<1>6. QED
  BY <1>4, <1>5 DEF Sound

----------------------------------------------------------------------------
(* NUL bytes. *)

(* The position of the first NUL of a string. *)
FirstNul(t, n) == n \in 0 .. Len(t) /\ (n < Len(t) => t[n + 1] = NUL) /\ \A i \in 1 .. n : t[i] # NUL

(* What a C function reads of a text is the text before its first NUL. *)
LEMMA UpToNulCuts ==
  ASSUME NEW t \in Seq(Int)
  PROVE  \E n : FirstNul(t, n) /\ UpToNul(t) = SubSeq(t, 1, n)
<1> DEFINE nuls == {i \in DOMAIN t : t[i] = NUL}
           least(i) == i \in nuls /\ \A j \in nuls : i <= j
<1>1. Len(t) \in Nat /\ DOMAIN t = 1 .. Len(t)
  OBVIOUS
<1>2. CASE nuls = {}
  <2>1. UpToNul(t) = t
    BY <1>2 DEF UpToNul
  <2>2. SubSeq(t, 1, Len(t)) = t
    OBVIOUS
  <2>3. FirstNul(t, Len(t))
    BY <1>1, <1>2 DEF FirstNul
  <2>4. QED
    BY <2>1, <2>2, <2>3
<1>3. CASE nuls # {}
  <2> DEFINE m == CHOOSE i \in nuls : \A j \in nuls : i <= j
  <2>1. UpToNul(t) = SubSeq(t, 1, m - 1)
    BY <1>3 DEF UpToNul
  <2>2. m \in nuls /\ \A j \in nuls : m <= j
    <3>1. nuls \in SUBSET Nat
      BY <1>1
    <3> HIDE DEF nuls
    <3>2. \E i \in nuls : \A j \in nuls : i <= j
      BY <1>3, <3>1, LeastNatural
    <3>3. QED
      BY <3>2
  <2> HIDE DEF m
  <2>3. m \in 1 .. Len(t) /\ t[m] = NUL
    BY <1>1, <2>2
  <2>4. \A i \in 1 .. m - 1 : t[i] # NUL
    <3> SUFFICES ASSUME NEW i \in 1 .. m - 1, t[i] = NUL
                 PROVE  FALSE
      OBVIOUS
    <3>1. i \in DOMAIN t /\ ~(m <= i)
      BY <1>1, <2>3
    <3>2. i \in nuls
      BY <3>1
    <3>3. QED
      BY <2>2, <3>1, <3>2
  <2>5. m - 1 \in 0 .. Len(t) /\ (m - 1) + 1 = m
    BY <1>1, <2>3
  <2>6. FirstNul(t, m - 1)
    BY <2>3, <2>4, <2>5 DEF FirstNul
  <2>7. QED
    BY <2>1, <2>6
<1>4. QED
  BY <1>2, <1>3

(* strlen stops there. *)
LEMMA StrlenStops ==
  ASSUME NEW d, NEW t, Sound(d, t), NEW n, FirstNul(t, n)
  PROVE  Strlen(d) = n
<1>1. PICK r : InBlock(d, r)
  BY DEF Sound
<1>2. /\ r \in Nat /\ d.len \in Nat /\ d.len <= r /\ DOMAIN d.buf = 0 .. r
      /\ t \in Seq(Int) /\ Len(t) = d.len /\ d.buf[d.len] = NUL
      /\ \A i \in 1 .. d.len : d.buf[i - 1] = t[i]
  BY <1>1 DEF Sound, InBlock, Holds
<1> DEFINE room == Cardinality(DOMAIN d.buf)
           Stop(m) == /\ Cell(d, m) = NUL \/ m \notin DOMAIN d.buf
                      /\ \A i \in 0 .. m - 1 : Cell(d, i) # NUL
<1>3. room = r + 1
  BY <1>2, FS_Interval
<1>4. n \in 0 .. room /\ n \in Nat /\ n <= d.len
  BY <1>2, <1>3 DEF FirstNul
<1>5. \A i \in 0 .. r : Cell(d, i) = d.buf[i]
  BY <1>2 DEF Cell
<1>6. Stop(n)
  <2>1. Cell(d, n) = NUL
    <3>1. CASE n = d.len
      BY <1>2, <1>5, <3>1
    <3>2. CASE n < d.len
      <4>1. n + 1 \in 1 .. d.len /\ (n + 1) - 1 = n /\ n \in 0 .. r
        BY <1>2, <1>4, <3>2
      <4>2. t[n + 1] = NUL
        BY <1>2, <3>2 DEF FirstNul
      <4>3. d.buf[(n + 1) - 1] = t[n + 1]
        BY <1>2, <4>1
      <4>4. QED
        BY <1>5, <4>1, <4>2, <4>3
    <3>3. QED
      BY <1>2, <1>4, <3>1, <3>2
  <2>2. ASSUME NEW i \in 0 .. n - 1
        PROVE  Cell(d, i) # NUL
    <3>1. i + 1 \in 1 .. d.len /\ i + 1 \in 1 .. n /\ (i + 1) - 1 = i /\ i \in 0 .. r
      BY <1>2, <1>4
    <3>2. t[i + 1] # NUL /\ d.buf[(i + 1) - 1] = t[i + 1]
      BY <1>2, <3>1 DEF FirstNul
    <3>3. QED
      BY <1>5, <3>1, <3>2
  <2>3. QED
    BY <2>1, <2>2
<1>7. ASSUME NEW m \in 0 .. room, Stop(m)
      PROVE  m = n
  <2>1. CASE m < n
    <3>1. m \in 0 .. n - 1 /\ m \in DOMAIN d.buf
      BY <1>2, <1>3, <1>4, <2>1
    <3>2. QED
      BY <1>6, <1>7, <3>1
  <2>2. CASE n < m
    <3>1. n \in 0 .. m - 1 /\ n \in 0 .. r
      BY <1>2, <1>3, <1>4, <2>2
    <3>2. Cell(d, n) = NUL
      BY <1>2, <1>6, <3>1
    <3>3. QED
      BY <1>7, <3>1, <3>2
  <2>3. QED
    BY <1>3, <1>2, <1>4, <2>1, <2>2
<1>8. Strlen(d) = CHOOSE m \in 0 .. room : Stop(m)
  BY DEF Strlen
<1> HIDE DEF Stop, room
<1>9. QED
  BY <1>4, <1>6, <1>7, <1>8

(* sdsupdatelen *)
LEMMA UpdateLenSound ==
  ASSUME NEW d, NEW t, Sound(d, t)
  PROVE  Sound(sdsupdatelen(d), UpToNul(t))
<1>1. t \in Seq(Int) /\ Len(t) = d.len
  BY DEF Sound, Holds
<1>2. PICK n : FirstNul(t, n) /\ UpToNul(t) = SubSeq(t, 1, n)
  BY <1>1, UpToNulCuts
<1>3. Strlen(d) = n
  BY <1>2, StrlenStops
<1>4. n \in 0 .. d.len
  BY <1>1, <1>2 DEF FirstNul
<1>5. sdsupdatelen(d) = Terminate(sdssetlen(d, n), n)
  BY <1>3 DEF sdsupdatelen
<1>6. QED
  BY <1>2, <1>4, <1>5, ShortenedSound

(* A NUL that the caller writes into the string. *)
LEMMA NulWrittenSound ==
  ASSUME NEW d, NEW t, Sound(d, t), NEW i \in 0 .. Len(t) - 1
  PROVE  Sound(Write(d, i, <<NUL>>), [t EXCEPT ![i + 1] = NUL])
<1>1. PICK r : InBlock(d, r)
  BY DEF Sound
<1>2. /\ r \in Nat /\ d.len \in Nat /\ d.len <= r
      /\ t \in Seq(Int) /\ Len(t) = d.len /\ d.buf[d.len] = NUL
      /\ \A k \in 1 .. d.len : d.buf[k - 1] = t[k]
  BY <1>1 DEF Sound, InBlock, Holds
<1> DEFINE chars == <<NUL>>
           w == Write(d, i, chars)
           u == [t EXCEPT ![i + 1] = NUL]
<1>3. i \in Nat /\ i < d.len
  BY <1>2
<1>4. chars \in Seq(Int) /\ Len(chars) = 1 /\ chars[1] = NUL
  BY DEF NUL
<1>5. Overwritten(d, w, r, i, chars)
  <2> HIDE DEF chars, w
  <2>1. i + Len(chars) <= r + 1
    BY <1>2, <1>3, <1>4
  <2>2. QED
    BY <1>1, <1>3, <1>4, <2>1, WriteStays DEF w
<1> HIDE DEF chars, w
<1>6. /\ InBlock(w, r) /\ w.len = d.len
      /\ \A k \in 0 .. r : w.buf[k] = IF i <= k /\ k < i + 1 THEN chars[k - i + 1] ELSE d.buf[k]
  BY <1>4, <1>5 DEF Overwritten
<1>7. \A k \in 0 .. r : w.buf[k] = IF k = i THEN NUL ELSE d.buf[k]
  <2>1. \A k \in 0 .. r : (i <= k /\ k < i + 1 <=> k = i) /\ (k = i => k - i + 1 = 1)
    BY <1>3
  <2>2. QED
    BY <1>4, <1>6, <2>1
<1>8. /\ u \in Seq(Int) /\ Len(u) = d.len
      /\ \A k \in 1 .. d.len : u[k] = IF k = i + 1 THEN NUL ELSE t[k]
  BY <1>2, <1>3 DEF NUL
<1> HIDE DEF u
<1>9. \A k \in 1 .. d.len : k - 1 \in 0 .. r /\ (k - 1 = i <=> k = i + 1)
  BY <1>2, <1>3
<1>10. \A k \in 1 .. d.len : w.buf[k - 1] = u[k]
  BY <1>2, <1>7, <1>8, <1>9
<1>11. w.buf[d.len] = NUL
  BY <1>2, <1>3, <1>7
<1>12. QED
  BY <1>6, <1>8, <1>10, <1>11 DEF Sound, Holds, w, u, chars

(* sdsIncrLen over what was read into the room made for it. *)
LEMMA ReadSound ==
  ASSUME NEW d, NEW t, Sound(d, t), NEW k \in Nat, k >= 1, NEW chars \in Seq(Int), Len(chars) <= k
  PROVE  /\ MayIncr(sdsMakeRoomFor(d, k), Len(chars))
         /\ Sound(sdsIncrLen(Write(sdsMakeRoomFor(d, k), d.len, chars), Len(chars)), t \o chars)
<1>1. PICK r : InBlock(d, r)
  BY DEF Sound
<1> DEFINE e == sdsMakeRoomFor(d, k)
           n == Len(chars)
           w == Write(e, d.len, chars)
<1>2. Holds(d, t) /\ d.len \in Nat /\ n \in Nat
  BY <1>1 DEF Sound, InBlock
<1>3. Roomy(d, e, k)
  BY <1>1, RoomIsMade
<1> HIDE DEF e
<1>4. e.len = d.len /\ sdsavail(e) >= k
  BY <1>3 DEF Roomy
<1>5. e.type # 5 /\ sdsavail(e) = e.alloc - e.len
  BY <1>4 DEF sdsavail
<1>6. PICK q : InBlock(e, q) /\ d.len + k <= q /\ (e.type = 5 => d.len + k < Room5)
  BY <1>3 DEF Roomy
<1>7. e.alloc = q /\ q \in Nat
  BY <1>5, <1>6 DEF InBlock
<1>8. MayIncr(e, n)
  <2>1. n >= 0 /\ e.alloc - e.len >= n
    BY <1>2, <1>4, <1>5, <1>7
  <2> HIDE DEF n
  <2>2. QED
    BY <1>5, <2>1 DEF MayIncr
<1>9. d.len + n <= q
  BY <1>2, <1>6, <1>7
<1>10. sdsavail(e) >= n
  BY <1>2, <1>4, <1>5, <1>7
<1>11. Roomy(d, e, n)
  BY <1>3, <1>5, <1>6, <1>9, <1>10 DEF Roomy
<1>12. w.len = d.len
  <2>1. d.len + n <= q + 1
    BY <1>2, <1>7, <1>9
  <2>2. Overwritten(e, w, q, d.len, chars)
    <3> HIDE DEF w
    <3>1. QED
      BY <1>2, <1>6, <2>1, WriteStays DEF w
  <2>3. QED
    BY <1>4, <2>2 DEF Overwritten
<1> DEFINE f == sdsIncrLen(w, n)
<1>13. f = Terminate(sdssetlen(w, d.len + n), d.len + n)
  <2> HIDE DEF w
  <2>1. QED
    BY <1>12 DEF sdsIncrLen
<1> HIDE DEF f
<1>14. Sound(f, t \o chars)
  BY <1>2, <1>11, <1>13, AppendedHolds
<1>15. QED
  BY <1>8, <1>14 DEF f, e

(* sdsIncrLen by less than nothing. *)
LEMMA RightTrimSound ==
  ASSUME NEW d, NEW t, Sound(d, t), NEW n \in 1 .. Len(t)
  PROVE  MayIncr(d, -n) /\ Sound(sdsIncrLen(d, -n), SubSeq(t, 1, Len(t) - n))
<1>1. d.len \in Nat /\ Len(t) = d.len
  BY DEF Sound, InBlock, Holds
<1> DEFINE m == d.len + -n
           k == -n
<1>2. m \in 0 .. d.len /\ m = Len(t) - n
  BY <1>1
<1>3. k < 0 /\ d.len >= -k
  BY <1>1
<1>4. MayIncr(d, k)
  <2> HIDE DEF k
  <2>1. CASE d.type = 5
    BY <1>3, <2>1 DEF MayIncr
  <2>2. CASE d.type # 5
    BY <1>3, <2>2 DEF MayIncr
  <2>3. QED
    BY <2>1, <2>2
<1>5. sdsIncrLen(d, -n) = Terminate(sdssetlen(d, m), m)
  BY DEF sdsIncrLen
<1> HIDE DEF m
<1>6. QED
  BY <1>2, <1>4, <1>5, ShortenedSound

----------------------------------------------------------------------------
(* Copies, slices, trimming, mapping. *)

(* sdsdup *)
LEMMA ContentIsText ==
  ASSUME NEW d, NEW t, Sound(d, t)
  PROVE  Content(d) = t
<1>1. PICK r : InBlock(d, r)
  BY DEF Sound
<1>2. /\ r \in Nat /\ d.len \in Nat /\ d.len <= r /\ DOMAIN d.buf = 0 .. r
      /\ t \in Seq(Int) /\ Len(t) = d.len
      /\ \A k \in 1 .. d.len : d.buf[k - 1] = t[k]
  BY <1>1 DEF Sound, InBlock, Holds
<1> DEFINE n == d.len
<1>3. \A i \in 1 .. n : Cell(d, i - 1) = t[i]
  BY <1>2 DEF Cell
<1>4. t = [i \in 1 .. n |-> t[i]]
  BY <1>2
<1>5. Content(d) = [i \in 1 .. n |-> Cell(d, i - 1)]
  BY DEF Content
<1> HIDE DEF n
<1>6. QED
  BY <1>3, <1>4, <1>5

(* sdsdup (sds.c:161): a copy holds the same text. *)
LEMMA DupSound ==
  ASSUME NEW d, NEW t, Sound(d, t)
  PROVE  Sound(sdsnewlen(Content(d)), t)
<1>1. Content(d) = t /\ t \in Seq(Int)
  BY ContentIsText DEF Sound, Holds
<1>2. QED
  BY <1>1, NewSound

(* sdsrange *)
LEMMA EmptyKept ==
  ASSUME NEW d, NEW t, Sound(d, t), NEW from \in 0 .. d.len
  PROVE  Sound(Keep(d, from, 0), <<>>)
<1>1. from \in Nat /\ 0 \in Nat /\ from + 0 <= d.len /\ t \in Seq(Int) /\ d.len \in Nat
  BY DEF Sound, InBlock, Holds
<1>2. Sound(Keep(d, from, 0), SubSeq(t, from + 1, from + 0))
  BY <1>1, KeepSound
<1>3. SubSeq(t, from + 1, from + 0) = <<>>
  BY <1>1
<1>4. QED
  BY <1>2, <1>3

(* sdsrange (sds.c:698): from any two indexes, negative or beyond the end, *)
(* the string comes to hold the slice they mean.                           *)
LEMMA RangeSound ==
  ASSUME NEW d, NEW t, Sound(d, t), NEW start \in Int, NEW end \in Int
  PROVE  Sound(sdsrange(d, start, end), Slice(t, start, end))
<1> DEFINE n == d.len
           from == IF start < 0 THEN Greater(0, n + start) ELSE start
           to == IF end < 0 THEN Greater(0, n + end) ELSE end
           last == Lesser(to + 1, n)
           e == sdsrange(d, start, end)
<1>1. n \in Nat /\ t \in Seq(Int) /\ Len(t) = n
  BY DEF Sound, InBlock, Holds
<1>2. Slice(t, start, end) = SubSeq(t, from + 1, last)
  BY <1>1 DEF Slice, From
<1>3. from \in Nat /\ to \in Nat
  <2> HIDE DEF n
  <2>1. QED
    BY <1>1 DEF Greater
<1>4. e = IF n = 0 THEN d
          ELSE IF from > to \/ from >= n THEN Keep(d, 0, 0)
          ELSE Keep(d, from, Lesser(to, n - 1) - from + 1)
  BY DEF sdsrange
<1> HIDE DEF from, to, e
<1>5. last \in Nat /\ last <= n /\ (n # 0 => last = Lesser(to, n - 1) + 1)
  <2> HIDE DEF n
  <2>1. QED
    BY <1>1, <1>3 DEF Lesser
<1>6. CASE from + 1 > last
  <2>1. SubSeq(t, from + 1, last) = <<>>
    <3> HIDE DEF last
    <3>1. QED
      BY <1>1, <1>3, <1>5, <1>6
  <2>2. CASE n = 0
    <3>1. t = <<>>
      BY <1>1, <2>2
    <3>2. QED
      BY <1>2, <1>4, <2>1, <2>2, <3>1 DEF e
  <2>3. CASE n # 0
    <3>1. from > to \/ from >= n
      <4> HIDE DEF n
      <4>1. QED
        BY <1>1, <1>3, <1>6 DEF Lesser
    <3>2. Sound(Keep(d, 0, 0), <<>>)
      BY <1>1, EmptyKept
    <3>3. QED
      BY <1>2, <1>4, <2>1, <2>3, <3>1, <3>2 DEF e
  <2>4. QED
    BY <2>2, <2>3
<1>7. CASE from + 1 <= last
  <2> DEFINE k == Lesser(to, n - 1) - from + 1
  <2>1. n # 0 /\ ~(from > to \/ from >= n)
    <3> HIDE DEF n
    <3>1. QED
      BY <1>1, <1>3, <1>7 DEF Lesser
  <2>2. last = Lesser(to, n - 1) + 1
    BY <1>5, <2>1
  <2>3. Lesser(to, n - 1) \in Int
    <3> HIDE DEF n
    <3>1. QED
      BY <1>1, <1>3 DEF Lesser
  <2>4. k \in Nat /\ from + k = last /\ from + k <= d.len
    <3> DEFINE x == Lesser(to, n - 1)
    <3> HIDE DEF x, last
    <3>1. QED
      BY <1>1, <1>3, <1>5, <1>7, <2>2, <2>3 DEF x
  <2>5. e = Keep(d, from, k)
    BY <1>4, <2>1
  <2> HIDE DEF k, last
  <2>6. Sound(Keep(d, from, k), SubSeq(t, from + 1, from + k))
    BY <1>3, <2>4, KeepSound
  <2>7. QED
    BY <1>2, <2>4, <2>5, <2>6 DEF e
<1>8. QED
  BY <1>3, <1>5, <1>6, <1>7

(* sdstrim *)
LEMMA TrimSound ==
  ASSUME NEW d, NEW t, Sound(d, t), NEW cset
  PROVE  Sound(sdstrim(d, cset), Trimmed(t, cset))
<1>1. PICK r : InBlock(d, r)
  BY DEF Sound
<1>2. /\ r \in Nat /\ d.len \in Nat /\ d.len <= r /\ DOMAIN d.buf = 0 .. r
      /\ t \in Seq(Int) /\ Len(t) = d.len
      /\ \A k \in 1 .. d.len : d.buf[k - 1] = t[k]
  BY <1>1 DEF Sound, InBlock, Holds
<1> DEFINE n == d.len
           end == n - 1
           S(i) == /\ i > end \/ ~InCset(cset, Cell(d, i))
                   /\ \A j \in 0 .. i - 1 : InCset(cset, Cell(d, j))
           sp == CHOOSE i \in 0 .. n : S(i)
           E(i) == /\ i <= sp \/ ~InCset(cset, Cell(d, i))
                   /\ \A j \in i + 1 .. end : j > sp /\ InCset(cset, Cell(d, j))
           ep == CHOOSE i \in -1 .. end : E(i)
           e == sdstrim(d, cset)
           kept == {i \in DOMAIN t : t[i] \notin cset \cup {NUL}}
<1>3. e = Keep(d, sp, IF sp > end THEN 0 ELSE ep - sp + 1)
  BY DEF sdstrim
<1>4. DOMAIN t = 1 .. n
  BY <1>2
<1>5. \A i \in 0 .. end : InCset(cset, Cell(d, i)) <=> i + 1 \notin kept
  <2> SUFFICES ASSUME NEW i \in 0 .. end
               PROVE  InCset(cset, Cell(d, i)) <=> i + 1 \notin kept
    OBVIOUS
  <2>1. i + 1 \in 1 .. n /\ (i + 1) - 1 = i /\ i \in 0 .. r
    BY <1>2
  <2>2. Cell(d, i) = t[i + 1]
    BY <1>2, <2>1 DEF Cell
  <2>3. QED
    BY <1>4, <2>1, <2>2 DEF InCset
<1>6. kept \subseteq 1 .. n
  BY <1>4
<1>7. n \in Nat /\ end \in Int /\ end = n - 1
  BY <1>2
<1>8. Trimmed(t, cset) = IF kept = {} THEN <<>>
                         ELSE SubSeq(t, CHOOSE i \in kept : \A j \in kept : i <= j,
                                        CHOOSE i \in kept : \A j \in kept : i >= j)
  BY DEF Trimmed
<1> HIDE DEF kept, n, end
<1>9. CASE kept = {}
  <2>1. S(n)
    <3>1. \A j \in 0 .. n - 1 : j \in 0 .. end
      BY <1>7
    <3>2. n > end
      BY <1>7
    <3>3. QED
      BY <1>5, <1>9, <3>1, <3>2
  <2>2. ASSUME NEW i \in 0 .. n, S(i)
        PROVE  i = n
    <3>1. i # n => i \in 0 .. end
      BY <1>7
    <3>2. i \in 0 .. end => ~(i > end)
      BY <1>7
    <3>3. QED
      BY <1>5, <1>9, <2>2, <3>1, <3>2
  <2>3. n \in 0 .. n
    BY <1>7
  <2> HIDE DEF S
  <2>4. sp = n
    BY <2>1, <2>2, <2>3
  <2> HIDE DEF sp, ep
  <2>5. e = Keep(d, n, 0)
    BY <1>3, <1>7, <2>4
  <2> HIDE DEF e
  <2>6. Sound(e, <<>>)
    BY <2>3, <2>5, EmptyKept DEF n
  <2>7. QED
    BY <1>8, <1>9, <2>6 DEF e
<1>10. CASE kept # {}
  <2> DEFINE a == CHOOSE i \in kept : \A j \in kept : i <= j
             b == CHOOSE i \in kept : \A j \in kept : i >= j
  <2>1. a \in kept /\ \A j \in kept : a <= j
    <3>1. kept \in SUBSET Nat
      BY <1>6, <1>7
    <3>2. \E i \in kept : \A j \in kept : i <= j
      BY <1>10, <3>1, LeastNatural
    <3>3. QED
      BY <3>2
  <2>2. b \in kept /\ \A j \in kept : b >= j
    <3> DEFINE T == {n - i : i \in kept}
    <3>1. T \in SUBSET Nat /\ T # {}
      <4>1. \A i \in kept : n - i \in Nat
        BY <1>6, <1>7
      <4>2. T \in SUBSET Nat
        BY <4>1
      <4>3. PICK i \in kept : TRUE
        BY <1>10
      <4>4. n - i \in T
        BY <4>3
      <4>5. QED
        BY <4>2, <4>4
    <3>2. PICK m \in T : \A x \in T : m <= x
      <4> HIDE DEF T
      <4>1. QED
        BY <3>1, LeastNatural
    <3>3. PICK i \in kept : m = n - i
      BY <3>2
    <3>4. \A j \in kept : n - j \in T
      OBVIOUS
    <3>5. \A j \in kept : i >= j
      <4>1. \A j \in kept : n - i <= n - j
        BY <3>2, <3>3, <3>4
      <4>2. QED
        BY <1>6, <1>7, <3>3, <4>1
    <3>6. \E k \in kept : \A j \in kept : k >= j
      BY <3>3, <3>5
    <3>7. QED
      BY <3>6
  <2> HIDE DEF a, b
  <2>3. a \in 1 .. n /\ b \in 1 .. n /\ a <= b
    BY <1>6, <2>1, <2>2
  <2>4. S(a - 1)
    <3>1. a - 1 \in 0 .. end /\ (a - 1) + 1 = a
      BY <1>7, <2>3
    <3>2. \A j \in 0 .. (a - 1) - 1 : j \in 0 .. end /\ ~(a <= j + 1)
      BY <1>7, <2>3
    <3>3. ~InCset(cset, Cell(d, a - 1))
      BY <1>5, <2>1, <3>1
    <3>4. \A j \in 0 .. (a - 1) - 1 : InCset(cset, Cell(d, j))
      BY <1>5, <2>1, <3>2
    <3>5. QED
      BY <3>3, <3>4
  <2>5. ASSUME NEW i \in 0 .. n, S(i)
        PROVE  i = a - 1
    <3>1. CASE i < a - 1
      <4>1. i \in 0 .. end /\ ~(a <= i + 1) /\ ~(i > end)
        BY <1>7, <2>3, <3>1
      <4>2. InCset(cset, Cell(d, i))
        BY <1>5, <2>1, <4>1
      <4>3. QED
        BY <2>5, <4>1, <4>2
    <3>2. CASE i > a - 1
      <4>1. a - 1 \in 0 .. i - 1 /\ a - 1 \in 0 .. end /\ (a - 1) + 1 = a
        BY <1>7, <2>3, <3>2
      <4>2. InCset(cset, Cell(d, a - 1))
        BY <2>5, <4>1
      <4>3. QED
        BY <1>5, <2>1, <4>1, <4>2
    <3>3. QED
      BY <2>3, <3>1, <3>2
  <2>6. a - 1 \in 0 .. n
    BY <1>7, <2>3
  <2> HIDE DEF S
  <2>7. sp = a - 1
    BY <2>4, <2>5, <2>6
  <2> HIDE DEF sp
  <2>8. E(b - 1)
    <3>1. b - 1 \in 0 .. end /\ (b - 1) + 1 = b
      BY <1>7, <2>3
    <3>2. \A j \in (b - 1) + 1 .. end : j \in 0 .. end /\ ~(b >= j + 1) /\ j > a - 1
      BY <1>7, <2>3
    <3>3. ~InCset(cset, Cell(d, b - 1))
      BY <1>5, <2>2, <3>1
    <3>4. \A j \in (b - 1) + 1 .. end : j > sp /\ InCset(cset, Cell(d, j))
      BY <1>5, <2>2, <2>7, <3>2
    <3>5. QED
      BY <3>3, <3>4
  <2>9. ASSUME NEW i \in -1 .. end, E(i)
        PROVE  i = b - 1
    <3>1. CASE i < b - 1
      <4>1. b - 1 \in i + 1 .. end /\ b - 1 \in 0 .. end /\ (b - 1) + 1 = b
        BY <1>7, <2>3, <3>1
      <4>2. InCset(cset, Cell(d, b - 1))
        BY <2>9, <4>1
      <4>3. QED
        BY <1>5, <2>2, <4>1, <4>2
    <3>2. CASE i > b - 1
      <4>1. i \in 0 .. end /\ ~(i <= sp) /\ ~(b >= i + 1)
        BY <1>7, <2>3, <2>7, <3>2
      <4>2. InCset(cset, Cell(d, i))
        BY <1>5, <2>2, <4>1
      <4>3. QED
        BY <2>9, <4>1, <4>2
    <3>3. QED
      BY <1>7, <2>3, <3>1, <3>2
  <2>10. b - 1 \in -1 .. end
    BY <1>7, <2>3
  <2> HIDE DEF E
  <2>11. ep = b - 1
    BY <2>8, <2>9, <2>10
  <2> HIDE DEF ep
  <2> DEFINE k == (b - 1) - (a - 1) + 1
             f == a - 1
  <2>12. e = Keep(d, f, k)
    BY <1>3, <1>7, <2>3, <2>7, <2>11
  <2>13. f \in Nat /\ k \in Nat /\ f + k <= n /\ f + 1 = a /\ f + k = b
    BY <1>7, <2>3
  <2> HIDE DEF f, k, e
  <2>14. Sound(Keep(d, f, k), SubSeq(t, f + 1, f + k))
    BY <2>13, KeepSound DEF n
  <2>15. Trimmed(t, cset) = SubSeq(t, a, b)
    BY <1>8, <1>10 DEF a, b
  <2>16. QED
    BY <2>12, <2>13, <2>14, <2>15 DEF e
<1>11. QED
  BY <1>9, <1>10

(* Every character changed by the function g. *)
LEMMA EveryMapped ==
  ASSUME NEW d, NEW t, Sound(d, t), NEW g \in [Int -> Int], NEW f,
         f = [d EXCEPT !.buf = [i \in DOMAIN d.buf |-> IF i < d.len THEN g[d.buf[i]] ELSE d.buf[i]]]
  PROVE  Sound(f, [i \in DOMAIN t |-> g[t[i]]])
<1>1. PICK r : InBlock(d, r)
  BY DEF Sound
<1>0. /\ r \in Nat /\ d.len \in Nat /\ d.len <= r
      /\ DOMAIN d.buf = 0 .. r /\ \A k \in 0 .. r : d.buf[k] \in Int
      /\ t \in Seq(Int) /\ Len(t) = d.len
      /\ \A k \in 1 .. d.len : d.buf[k - 1] = t[k]
  <2>1. r \in Nat /\ d.len \in Nat /\ d.len <= r
        /\ DOMAIN d.buf = 0 .. r /\ \A k \in 0 .. r : d.buf[k] \in Int
    BY <1>1 DEF InBlock
  <2>2. QED
    BY <2>1 DEF Sound, Holds
<1>2. DOMAIN t = 1 .. d.len /\ \A k \in DOMAIN t : t[k] \in Int
  <2>1. t \in Seq(Int) /\ Len(t) = d.len
    BY <1>0
  <2>2. DOMAIN t = 1 .. Len(t) /\ \A k \in DOMAIN t : t[k] \in Int
    BY <2>1
  <2>3. QED
    BY <2>1, <2>2
<1> DEFINE b == [i \in DOMAIN d.buf |-> IF i < d.len THEN g[d.buf[i]] ELSE d.buf[i]]
           u == [i \in DOMAIN t |-> g[t[i]]]
<1>3. b \in [DOMAIN d.buf -> Int]
  BY <1>0
<1>4. b[d.len] = d.buf[d.len]
  BY <1>0
<1>5. u \in Seq(Int) /\ Len(u) = d.len
  <2> DEFINE n == d.len
  <2>1. u = [i \in 1 .. n |-> g[t[i]]]
    BY <1>2
  <2>2. \A i \in 1 .. n : g[t[i]] \in Int
    BY <1>2
  <2>3. n \in Nat
    BY <1>0
  <2> HIDE DEF n, u
  <2>4. u \in Seq(Int) /\ Len(u) = n
    BY ONLY <2>1, <2>2, <2>3
  <2>5. QED
    BY <2>4 DEF n
<1>6. \A i \in 1 .. d.len : b[i - 1] = u[i]
  <2> SUFFICES ASSUME NEW i \in 1 .. d.len
               PROVE  b[i - 1] = u[i]
    OBVIOUS
  <2> DEFINE n == d.len
  <2>0. n \in Nat /\ r \in Nat /\ n <= r /\ i \in 1 .. n
    BY <1>0
  <2>1. i - 1 \in 0 .. r /\ i - 1 < d.len
    <3>1. i - 1 \in 0 .. r /\ i - 1 < n
      <4> HIDE DEF n
      <4>1. QED
        BY ONLY <2>0
    <3>2. QED
      BY <3>1
  <2>2. b[i - 1] = g[d.buf[i - 1]]
    BY <1>0, <2>1
  <2>3. u[i] = g[t[i]]
    BY <1>2
  <2>4. d.buf[i - 1] = t[i]
    BY <1>0
  <2>5. QED
    BY <2>2, <2>3, <2>4
<1> HIDE DEF b, u
<1>7. f = [d EXCEPT !.buf = b]
  BY DEF b
<1>8. QED
  BY <1>3, <1>4, <1>5, <1>6, <1>7, MappedSound DEF u

(* sdstolower, sdstoupper *)
LEMMA CasedSound ==
  ASSUME NEW d, NEW t, Sound(d, t)
  PROVE  /\ Sound(sdstolower(d), [i \in DOMAIN t |-> Lower(t[i])])
         /\ Sound(sdstoupper(d), [i \in DOMAIN t |-> Upper(t[i])])
<1>1. PICK r : InBlock(d, r)
  BY DEF Sound
<1>2. (\A i \in DOMAIN d.buf : d.buf[i] \in Int) /\ (\A i \in DOMAIN t : t[i] \in Int)
  <2>1. (\A i \in DOMAIN d.buf : d.buf[i] \in Int) /\ t \in Seq(Int)
    BY <1>1 DEF Sound, InBlock, Holds
  <2>2. QED
    BY <2>1
<1>3. ASSUME NEW g \in [Int -> Int], \A c \in Int : g[c] = Lower(c)
      PROVE  Sound(sdstolower(d), [i \in DOMAIN t |-> Lower(t[i])])
  <2> DEFINE f == [d EXCEPT !.buf = [i \in DOMAIN d.buf |-> IF i < d.len THEN g[d.buf[i]] ELSE d.buf[i]]]
             u == [i \in DOMAIN t |-> g[t[i]]]
  <2>1. Sound(f, u)
    <3> HIDE DEF u, f
    <3>1. QED
      BY EveryMapped DEF u, f
  <2>2. u = [i \in DOMAIN t |-> Lower(t[i])]
    BY <1>2, <1>3
  <2>3. [i \in DOMAIN d.buf |-> IF i < d.len THEN g[d.buf[i]] ELSE d.buf[i]]
        = [i \in DOMAIN d.buf |-> IF i < d.len THEN Lower(d.buf[i]) ELSE d.buf[i]]
    BY <1>2, <1>3
  <2>4. f = sdstolower(d)
    BY <2>3 DEF sdstolower
  <2> HIDE DEF u, f
  <2>5. QED
    BY <2>1, <2>2, <2>4
<1>4. ASSUME NEW g \in [Int -> Int], \A c \in Int : g[c] = Upper(c)
      PROVE  Sound(sdstoupper(d), [i \in DOMAIN t |-> Upper(t[i])])
  <2> DEFINE f == [d EXCEPT !.buf = [i \in DOMAIN d.buf |-> IF i < d.len THEN g[d.buf[i]] ELSE d.buf[i]]]
             u == [i \in DOMAIN t |-> g[t[i]]]
  <2>1. Sound(f, u)
    <3> HIDE DEF u, f
    <3>1. QED
      BY EveryMapped DEF u, f
  <2>2. u = [i \in DOMAIN t |-> Upper(t[i])]
    BY <1>2, <1>4
  <2>3. [i \in DOMAIN d.buf |-> IF i < d.len THEN g[d.buf[i]] ELSE d.buf[i]]
        = [i \in DOMAIN d.buf |-> IF i < d.len THEN Upper(d.buf[i]) ELSE d.buf[i]]
    BY <1>2, <1>4
  <2>4. f = sdstoupper(d)
    BY <2>3 DEF sdstoupper
  <2> HIDE DEF u, f
  <2>5. QED
    BY <2>1, <2>2, <2>4
<1>5. \E g \in [Int -> Int] : \A c \in Int : g[c] = Lower(c)
  <2> DEFINE g == [c \in Int |-> Lower(c)]
  <2>1. g \in [Int -> Int] /\ \A c \in Int : g[c] = Lower(c)
    BY DEF Lower
  <2>2. QED
    BY <2>1
<1>6. \E g \in [Int -> Int] : \A c \in Int : g[c] = Upper(c)
  <2> DEFINE g == [c \in Int |-> Upper(c)]
  <2>1. g \in [Int -> Int] /\ \A c \in Int : g[c] = Upper(c)
    BY DEF Upper
  <2>2. QED
    BY <2>1
<1>7. QED
  BY <1>3, <1>4, <1>5, <1>6

(* A character found in one set of characters becomes one of the other. *)
LEMMA MappedType ==
  ASSUME NEW from \in Seq(Int), NEW to \in Seq(Int), Len(from) = Len(to), NEW c \in Int
  PROVE  Mapped(c, from, to) \in Int
<1>1. CASE Contains(from, c)
  <2> DEFINE T == {i \in DOMAIN from : from[i] = c}
             Hit(i) == from[i] = c /\ \A j \in 1 .. i - 1 : from[j] # c
  <2>1. DOMAIN from = 1 .. Len(from) /\ Len(from) \in Nat
    OBVIOUS
  <2>2. T \in SUBSET Nat /\ T # {}
    BY <1>1, <2>1 DEF Contains
  <2>3. PICK i \in T : \A j \in T : i <= j
    <3> HIDE DEF T
    <3>1. QED
      BY <2>2, LeastNatural
  <2>4. i \in DOMAIN from /\ Hit(i)
    <3>1. \A j \in 1 .. i - 1 : j \in DOMAIN from /\ ~(i <= j)
      BY <2>1, <2>3
    <3>2. QED
      BY <2>3, <3>1
  <2> HIDE DEF Hit
  <2>5. (CHOOSE k \in DOMAIN from : Hit(k)) \in DOMAIN from
    BY <2>4
  <2>6. (CHOOSE k \in DOMAIN from : Hit(k)) \in DOMAIN to
    BY <2>1, <2>5
  <2>7. Mapped(c, from, to) = to[CHOOSE k \in DOMAIN from : Hit(k)]
    BY <1>1 DEF Mapped, Hit
  <2>8. \A k \in DOMAIN to : to[k] \in Int
    OBVIOUS
  <2>9. QED
    BY <2>6, <2>7, <2>8
<1>2. CASE ~Contains(from, c)
  BY <1>2 DEF Mapped
<1>3. QED
  BY <1>1, <1>2

(* sdsmapchars *)
LEMMA MapCharsSound ==
  ASSUME NEW d, NEW t, Sound(d, t), NEW from \in Seq(Int), NEW to \in Seq(Int), Len(from) = Len(to)
  PROVE  Sound(sdsmapchars(d, from, to), [i \in DOMAIN t |-> Mapped(t[i], from, to)])
<1>1. PICK r : InBlock(d, r)
  BY DEF Sound
<1>2. (\A i \in DOMAIN d.buf : d.buf[i] \in Int) /\ (\A i \in DOMAIN t : t[i] \in Int)
  <2>1. (\A i \in DOMAIN d.buf : d.buf[i] \in Int) /\ t \in Seq(Int)
    BY <1>1 DEF Sound, InBlock, Holds
  <2>2. QED
    BY <2>1
<1> DEFINE g == [c \in Int |-> Mapped(c, from, to)]
           f == [d EXCEPT !.buf = [i \in DOMAIN d.buf |-> IF i < d.len THEN g[d.buf[i]] ELSE d.buf[i]]]
           u == [i \in DOMAIN t |-> g[t[i]]]
<1>3. g \in [Int -> Int]
  BY MappedType
<1>4. u = [i \in DOMAIN t |-> Mapped(t[i], from, to)]
  BY <1>2
<1>5. f = sdsmapchars(d, from, to)
  <2>1. [i \in DOMAIN d.buf |-> IF i < d.len THEN g[d.buf[i]] ELSE d.buf[i]]
        = [i \in DOMAIN d.buf |-> IF i < d.len THEN Mapped(d.buf[i], from, to) ELSE d.buf[i]]
    BY <1>2
  <2>2. QED
    BY <2>1 DEF sdsmapchars
<1> HIDE DEF g
<1>6. Sound(f, u)
  <2> HIDE DEF f, u
  <2>1. QED
    BY <1>3, EveryMapped DEF f, u
<1>7. QED
  BY <1>4, <1>5, <1>6

----------------------------------------------------------------------------
(* sdscatfmt. *)

(* d carries the characters of t and need not end yet. *)
Carries(d, t) ==
  /\ \E r : InBlock(d, r)
  /\ t \in Seq(Int) /\ Len(t) = d.len
  /\ \A i \in 1 .. d.len : d.buf[i - 1] = t[i]

(* The room a conversion finds or makes. *)
ConvertRoom(d, item) ==
  LET n == Len(item.chars)
      one == IF sdsavail(d) = 0 THEN sdsMakeRoomFor(d, 1) ELSE d
  IN  IF item.verbatim \/ sdsavail(one) >= n THEN one ELSE sdsMakeRoomFor(one, n)

(* sdscatfmt asks for room before it writes a conversion, and gets what    *)
(* the conversion takes.                                                   *)
LEMMA ConvertFinds ==
  ASSUME NEW d, NEW r, InBlock(d, r), NEW item, Len(item.chars) \in Nat,
         item.verbatim => Len(item.chars) = 1
  PROVE  Roomy(d, ConvertRoom(d, item), Len(item.chars))
<1> DEFINE n == Len(item.chars)
           one == sdsMakeRoomFor(d, 1)
           two == sdsMakeRoomFor(one, n)
<1>1. r \in Nat /\ d.len \in Nat /\ d.len <= r /\ (d.type # 5 => d.alloc = r)
  BY DEF InBlock
<1>2. sdsavail(d) # 0 => sdsavail(d) >= 1
  BY <1>1 DEF sdsavail
<1>3. one = IF sdsavail(d) = 0 THEN sdsMakeRoomFor(d, 1) ELSE d
  BY <1>2 DEF sdsMakeRoomFor
<1>4. sdsavail(one) >= n => two = one
  BY DEF sdsMakeRoomFor
<1>5. ConvertRoom(d, item) = IF item.verbatim THEN one ELSE two
  <2> HIDE DEF one
  <2>1. ConvertRoom(d, item) = IF item.verbatim \/ sdsavail(one) >= n THEN one ELSE two
    BY <1>3 DEF ConvertRoom
  <2> HIDE DEF two, n
  <2>2. QED
    BY <1>4, <2>1
<1>6. Roomy(d, one, 1)
  BY RoomIsMade
<1> HIDE DEF one
<1>7. PICK q : InBlock(one, q)
  BY <1>6 DEF Roomy
<1>8. Roomy(one, two, n)
  BY <1>7, RoomIsMade
<1> HIDE DEF two, n
<1>9. Roomy(d, two, n)
  <2>1. one.len = d.len /\ (\A i \in 0 .. d.len : one.buf[i] = d.buf[i])
    BY <1>6 DEF Roomy
  <2>2. QED
    BY <1>8, <2>1 DEF Roomy
<1>10. CASE item.verbatim
  BY <1>5, <1>6, <1>10 DEF n
<1>11. CASE ~item.verbatim
  BY <1>5, <1>9, <1>11 DEF n
<1>12. QED
  BY <1>10, <1>11

(* Characters at the end of the string, counted but not yet terminated. *)
LEMMA ConvertCarries ==
  ASSUME NEW d, NEW t, Carries(d, t), NEW item, item.chars \in Seq(Int),
         item.verbatim => Len(item.chars) = 1
  PROVE  Carries(Convert(d, item), t \o item.chars)
<1>1. PICK r : InBlock(d, r)
  BY DEF Carries
<1> DEFINE chars == item.chars
           e == ConvertRoom(d, item)
           pos == d.len
           n == pos + Len(chars)
           w == Write(e, pos, chars)
           f == sdssetlen(w, n)
           u == t \o chars
<1>2. Convert(d, item) = f
  BY DEF Convert, ConvertRoom
<1>3. pos \in Nat /\ Len(chars) \in Nat /\ n \in Nat /\ pos <= n /\ n = pos + Len(chars)
  BY <1>1 DEF InBlock
<1>4. Roomy(d, e, Len(chars))
  BY <1>1, <1>3, ConvertFinds
<1> HIDE DEF e
<1>5. PICK q : InBlock(e, q) /\ n <= q /\ (e.type = 5 => n < Room5)
  BY <1>4 DEF Roomy
<1>6. \A i \in 0 .. pos : e.buf[i] = d.buf[i]
  BY <1>4 DEF Roomy
<1>7. q \in Nat
  BY <1>5 DEF InBlock
<1>8. w = Write(e, pos, chars) /\ chars \in Seq(Int) /\ f = sdssetlen(w, n) /\ u = t \o chars
  OBVIOUS
<1> HIDE DEF chars, w, n, f, u
<1>9. Overwritten(e, w, q, pos, chars)
  <2>1. pos + Len(chars) <= q + 1
    BY <1>3, <1>5, <1>7
  <2>2. QED
    BY <1>3, <1>5, <1>8, <2>1, WriteStays
<1>10. /\ InBlock(w, q) /\ w.type = e.type
       /\ \A i \in 0 .. q : w.buf[i] = IF pos <= i /\ i < pos + Len(chars) THEN chars[i - pos + 1] ELSE e.buf[i]
  BY <1>9 DEF Overwritten
<1>11. Stored(w.type, n) = n
  <2>1. n \in 0 .. q
    BY <1>3, <1>5, <1>7
  <2>2. QED
    BY <1>5, <1>10, <2>1, LengthFits
<1>12. f = [type |-> w.type, len |-> n, alloc |-> w.alloc, buf |-> w.buf]
  <2>1. f = [w EXCEPT !.len = n]
    BY <1>8, <1>11 DEF sdssetlen
  <2>2. w = [type |-> w.type, len |-> w.len, alloc |-> w.alloc, buf |-> w.buf]
    BY <1>10 DEF InBlock
  <2>3. QED
    BY <2>1, <2>2
<1>13. f.type = w.type /\ f.len = n /\ f.alloc = w.alloc /\ f.buf = w.buf
  BY <1>12
<1>14. InBlock(f, q)
  BY <1>3, <1>5, <1>7, <1>10, <1>12, <1>13 DEF InBlock
<1>15. t \in Seq(Int) /\ Len(t) = pos /\ \A i \in 1 .. pos : d.buf[i - 1] = t[i]
  BY DEF Carries
<1>16. /\ u \in Seq(Int) /\ Len(u) = n
       /\ \A i \in 1 .. pos : u[i] = t[i]
       /\ \A j \in 1 .. Len(chars) : u[pos + j] = chars[j]
  <2> DEFINE X == Int
  <2>1. t \in Seq(X) /\ chars \in Seq(X)
    BY <1>8, <1>15
  <2> HIDE DEF X
  <2>2. /\ u \in Seq(X) /\ Len(u) = Len(t) + Len(chars)
        /\ \A i \in 1 .. Len(t) : u[i] = t[i]
        /\ \A j \in 1 .. Len(chars) : u[Len(t) + j] = chars[j]
    BY ONLY <2>1, <1>8, ConcatPositions
  <2> DEFINE m == Len(t)
  <2>3. /\ u \in Seq(X) /\ Len(u) = m + Len(chars)
        /\ \A i \in 1 .. m : u[i] = t[i]
        /\ \A j \in 1 .. Len(chars) : u[m + j] = chars[j]
    BY <2>2
  <2>4. m = pos
    BY <1>15
  <2> HIDE DEF m, pos
  <2>5. QED
    BY <1>3, <2>3, <2>4 DEF X
<1>17. ASSUME NEW i \in 1 .. n
       PROVE  f.buf[i - 1] = u[i]
  <2> DEFINE m == Len(chars)
  <2> HIDE DEF pos
  <2>1. i - 1 \in 0 .. q /\ n = pos + m /\ m \in Nat
    BY <1>3, <1>5, <1>7
  <2>2. w.buf[i - 1] = IF pos <= i - 1 /\ i - 1 < pos + m THEN chars[(i - 1) - pos + 1] ELSE e.buf[i - 1]
    BY <1>10, <2>1
  <2> HIDE DEF m
  <2>3. CASE i <= pos
    <3>1. i \in 1 .. pos /\ ~(pos <= i - 1) /\ i - 1 \in 0 .. pos
      BY <1>3, <2>3
    <3>2. QED
      BY <1>6, <1>13, <1>15, <1>16, <2>2, <3>1 DEF pos
  <2>4. CASE i > pos
    <3>1. i - pos \in 1 .. m /\ pos + (i - pos) = i /\ (i - 1) - pos + 1 = i - pos
          /\ pos <= i - 1 /\ i - 1 < pos + m
      BY <1>3, <2>1, <2>4
    <3>2. u[pos + (i - pos)] = chars[i - pos]
      BY <1>16, <3>1 DEF m
    <3>3. QED
      BY <1>13, <2>2, <3>1, <3>2
  <2>5. QED
    BY <1>3, <2>3, <2>4
<1>18. Carries(f, u)
  BY <1>13, <1>14, <1>16, <1>17 DEF Carries
<1>19. QED
  BY <1>2, <1>18 DEF u, chars

(* Once terminated it holds them. *)
LEMMA CarriedHolds ==
  ASSUME NEW d, NEW t, Carries(d, t)
  PROVE  Sound(Terminate(d, d.len), t)
<1>1. PICK r : InBlock(d, r)
  BY DEF Carries
<1> DEFINE n == d.len
           e == Terminate(d, n)
<1>2. n \in 0 .. r /\ n \in Nat /\ (d.type = 5 => n < Room5)
  BY <1>1 DEF InBlock
<1>3. sdssetlen(d, n) = d
  BY <1>1, LengthIsSet
<1>4. e = Terminate(sdssetlen(d, n), n)
  BY <1>3
<1> HIDE DEF e
<1>5. Ended(d, e, r, n)
  BY <1>1, <1>2, <1>4, EndStays
<1>6. InBlock(e, r) /\ e.len = n /\ e.buf[n] = NUL /\ \A i \in 0 .. n - 1 : e.buf[i] = d.buf[i]
  BY <1>5 DEF Ended
<1>7. t \in Seq(Int) /\ Len(t) = n /\ \A i \in 1 .. n : d.buf[i - 1] = t[i]
  BY DEF Carries
<1>8. \A i \in 1 .. n : i - 1 \in 0 .. n - 1
  BY <1>2
<1>9. \A i \in 1 .. n : e.buf[i - 1] = t[i]
  BY <1>6, <1>7, <1>8
<1> HIDE DEF n
<1>10. Holds(e, t)
  BY <1>6, <1>7, <1>9 DEF Holds
<1>11. QED
  BY <1>6, <1>10 DEF Sound, e, n

(* Texts of the same length and characters. *)
LEMMA SameText ==
  ASSUME NEW t, t \in Seq(Int), NEW u, u \in Seq(Int), Len(t) = Len(u),
         \A i \in 1 .. Len(t) : t[i] = u[i]
  PROVE  t = u
  OBVIOUS

(* A function from the first n numbers is a sequence of length n. *)
LEMMA MadeSeq ==
  ASSUME NEW X, NEW n \in Nat, NEW t \in [1 .. n -> X]
  PROVE  t \in Seq(X) /\ Len(t) = n
  OBVIOUS

(* A text and another behind it. *)
Meets(p, q, z) ==
  /\ z \in Seq(Int) /\ Len(z) = Len(p) + Len(q)
  /\ \A i \in 1 .. Len(p) : z[i] = p[i]
  /\ \A i \in 1 .. Len(q) : z[Len(p) + i] = q[i]

(* What follows when a text is put behind another. *)
LEMMA TextsMeet ==
  ASSUME NEW p, p \in Seq(Int), NEW q, q \in Seq(Int), NEW z, z = p \o q
  PROVE  Meets(p, q, z)
<1>1. Meets(p, q, p \o q)
  BY ConcatPositions DEF Meets
<1>2. QED
  BY <1>1

(* Three texts one behind the other. *)
Associates(p, q, r) == p \o (q \o r) = (p \o q) \o r

(* Three texts are put together in either order. *)
LEMMA ConcatAssociates ==
  ASSUME NEW p, p \in Seq(Int), NEW q, q \in Seq(Int), NEW r, r \in Seq(Int)
  PROVE  Associates(p, q, r)
<1> DEFINE qr == q \o r
           pq == p \o q
           A == p \o qr
           B == pq \o r
           a == Len(p)
           b == Len(q)
           c == Len(r)
<1>1. a \in Nat /\ b \in Nat /\ c \in Nat
  OBVIOUS
<1>2. /\ qr \in Seq(Int) /\ Len(qr) = b + c
      /\ \A i \in 1 .. b : qr[i] = q[i]
      /\ \A i \in 1 .. c : qr[b + i] = r[i]
  BY ConcatPositions
<1>3. /\ pq \in Seq(Int) /\ Len(pq) = a + b
      /\ \A i \in 1 .. a : pq[i] = p[i]
      /\ \A i \in 1 .. b : pq[a + i] = q[i]
  BY ConcatPositions
<1> HIDE DEF qr, pq
<1>4. /\ A \in Seq(Int) /\ Len(A) = a + (b + c)
      /\ \A i \in 1 .. a : A[i] = p[i]
      /\ \A i \in 1 .. b + c : A[a + i] = qr[i]
  <2>0. A = p \o qr
    OBVIOUS
  <2> HIDE DEF A
  <2>1. Meets(p, qr, A)
    BY <1>2, <2>0, TextsMeet, Zenon
  <2>2. QED
    BY <1>2, <2>1 DEF Meets
<1>5. /\ B \in Seq(Int) /\ Len(B) = (a + b) + c
      /\ \A i \in 1 .. a + b : B[i] = pq[i]
      /\ \A i \in 1 .. c : B[(a + b) + i] = r[i]
  <2>0. B = pq \o r
    OBVIOUS
  <2> HIDE DEF B
  <2>1. Meets(pq, r, B)
    BY <1>3, <2>0, TextsMeet, Zenon
  <2>2. QED
    BY <1>3, <2>1 DEF Meets
<1> HIDE DEF A, B, a, b, c
<1>6. ASSUME NEW i \in 1 .. a + (b + c)
      PROVE  A[i] = B[i]
  <2>1. CASE i <= a
    <3>1. i \in 1 .. a /\ i \in 1 .. a + b
      BY <1>1, <2>1
    <3>2. QED
      BY <1>3, <1>4, <1>5, <3>1
  <2>2. CASE a < i /\ i <= a + b
    <3>1. /\ i - a \in 1 .. b /\ i - a \in 1 .. b + c /\ i \in 1 .. a + b
          /\ a + (i - a) = i
      BY <1>1, <2>2
    <3>2. A[a + (i - a)] = qr[i - a] /\ qr[i - a] = q[i - a]
      BY <1>2, <1>4, <3>1
    <3>3. B[i] = pq[i] /\ pq[a + (i - a)] = q[i - a]
      BY <1>3, <1>5, <3>1
    <3>4. QED
      BY <3>1, <3>2, <3>3
  <2>3. CASE a + b < i
    <3> DEFINE k == i - (a + b)
    <3>1. /\ k \in 1 .. c /\ b + k \in 1 .. b + c
          /\ a + (b + k) = i /\ (a + b) + k = i
      BY <1>1, <2>3
    <3> HIDE DEF k
    <3>2. A[a + (b + k)] = qr[b + k] /\ qr[b + k] = r[k]
      BY <1>2, <1>4, <3>1
    <3>3. B[(a + b) + k] = r[k]
      BY <1>5, <3>1
    <3>4. QED
      BY <3>1, <3>2, <3>3
  <2>4. QED
    BY <1>1, <2>1, <2>2, <2>3
<1>7. A = B
  <2>1. Len(A) = Len(B) /\ Len(A) = a + (b + c)
    BY <1>1, <1>4, <1>5
  <2>2. QED
    BY <1>4, <1>5, <1>6, <2>1, SameText
<1>8. QED
  BY <1>7 DEF A, B, qr, pq, Associates

(* Two pieces of text, one behind the other. *)
LEMMA TwoFlattened ==
  ASSUME NEW a, NEW b
  PROVE  FlattenSeq(<<a, b>>) = a \o b
<1> DEFINE seqs == <<a, b>>
<1>1. Len(seqs) = 2 /\ seqs[1] = a /\ seqs[2] = b
  OBVIOUS
<1> HIDE DEF seqs
<1>2. FlattenSeq(seqs) = Flat(seqs)[2]
  <2>1. Len(seqs) # 0
    BY <1>1
  <2>2. FlattenSeq(seqs) = Flat(seqs)[Len(seqs)]
    BY <2>1, FlattenIsFlat, Zenon
  <2>3. QED
    BY <1>1, <2>2
<1>3. /\ 1 \in 1 .. Len(seqs) /\ 2 \in 1 .. Len(seqs) /\ Len(seqs) \in Nat
  BY <1>1
<1>4. Flat(seqs)[1] = seqs[1] /\ Flat(seqs)[2] = Flat(seqs)[1] \o seqs[2]
  <2>1. \A i \in 1 .. Len(seqs) :
           Flat(seqs)[i] = IF i = 1 THEN seqs[i] ELSE Flat(seqs)[i - 1] \o seqs[i]
    BY <1>3, FlatEquation
  <2>2. Flat(seqs)[1] = seqs[1]
    BY <1>3, <2>1
  <2>3. Flat(seqs)[2] = Flat(seqs)[2 - 1] \o seqs[2]
    <3>1. 2 # 1
      OBVIOUS
    <3> DEFINE R(i) == IF i = 1 THEN seqs[i] ELSE Flat(seqs)[i - 1] \o seqs[i]
    <3>2. Flat(seqs)[2] = R(2)
      BY <1>3, <2>1, Zenon
    <3>3. QED
      BY <3>1, <3>2, Zenon
  <2>4. 2 - 1 = 1
    OBVIOUS
  <2>5. QED
    BY <2>2, <2>3, <2>4
<1>5. QED
  BY <1>1, <1>2, <1>4 DEF seqs

(* sdscatfmt of two conversions. *)
LEMMA CatFmtSound ==
  ASSUME NEW d, NEW t, Sound(d, t), NEW x, NEW y,
         x.chars \in Seq(Int), x.verbatim => Len(x.chars) = 1,
         y.chars \in Seq(Int), y.verbatim => Len(y.chars) = 1
  PROVE  Sound(sdscatfmt(d, <<x, y>>), (t \o x.chars) \o y.chars)
<1> DEFINE items == <<x, y>>
           Done(f) == f = [k \in 0 .. Len(items) |-> IF k = 0 THEN d ELSE Convert(f[k - 1], items[k])]
           done == CHOOSE f : Done(f)
           one == Convert(d, x)
           two == Convert(one, y)
<1>1. Len(items) = 2 /\ items[1] = x /\ items[2] = y
  OBVIOUS
<1>2. sdscatfmt(d, items) = Terminate(done[Len(items)], done[Len(items)].len)
  BY DEF sdscatfmt
<1> HIDE DEF items
<1>3. \E f : Done(f)
  <2> DEFINE f == [k \in 0 .. 2 |-> IF k = 0 THEN d ELSE IF k = 1 THEN one ELSE two]
             V(k) == IF k = 0 THEN d ELSE Convert(f[k - 1], items[k])
  <2> HIDE DEF one, two
  <2>1. f[0] = d /\ f[1] = one /\ f[2] = two
    OBVIOUS
  <2>2. f = [k \in 0 .. 2 |-> f[k]]
    OBVIOUS
  <2> HIDE DEF f
  <2>3. \A k \in 0 .. 2 : k = 0 \/ k = 1 \/ k = 2
    OBVIOUS
  <2>4. V(0) = d
    OBVIOUS
  <2>5. V(1) = one
    <3>1. 1 - 1 = 0 /\ 1 # 0
      OBVIOUS
    <3>2. QED
      BY <1>1, <2>1, <3>1 DEF one
  <2>6. V(2) = two
    <3>1. 2 - 1 = 1 /\ 2 # 0
      OBVIOUS
    <3>2. QED
      BY <1>1, <2>1, <3>1 DEF two
  <2> HIDE DEF V
  <2>7. \A k \in 0 .. 2 : f[k] = V(k)
    BY <2>1, <2>3, <2>4, <2>5, <2>6
  <2>8. f = [k \in 0 .. 2 |-> V(k)]
    BY <2>2, <2>7
  <2>9. Done(f)
    BY <1>1, <2>8 DEF V
  <2> HIDE DEF Done
  <2>10. QED
    BY <2>9
<1>4. Done(done)
  <2> HIDE DEF Done
  <2>1. QED
    BY <1>3, Zenon
<1> HIDE DEF done
<1>5. done[2] = two
  <2> HIDE DEF one, two
  <2> DEFINE V(k) == IF k = 0 THEN d ELSE Convert(done[k - 1], items[k])
  <2>1. done = [k \in 0 .. 2 |-> V(k)]
    BY <1>1, <1>4
  <2> HIDE DEF V
  <2>2. done[0] = V(0) /\ done[1] = V(1) /\ done[2] = V(2)
    BY <2>1
  <2>3. done[0] = d
    BY <2>2 DEF V
  <2>4. done[1] = one
    <3>1. 1 - 1 = 0 /\ 1 # 0
      OBVIOUS
    <3>2. QED
      BY <1>1, <2>2, <2>3, <3>1 DEF one, V
  <2>5. 2 - 1 = 1 /\ 2 # 0
    OBVIOUS
  <2>6. QED
    BY <1>1, <2>2, <2>4, <2>5 DEF two, V
<1>6. Carries(d, t)
  BY DEF Carries, Sound, Holds
<1> HIDE DEF one, two
<1>7. Carries(one, t \o x.chars)
  BY <1>6, ConvertCarries DEF one
<1>8. Carries(two, (t \o x.chars) \o y.chars)
  BY <1>7, ConvertCarries DEF two
<1>9. Sound(Terminate(two, two.len), (t \o x.chars) \o y.chars)
  BY <1>8, CarriedHolds
<1>10. QED
  BY <1>1, <1>2, <1>5, <1>9 DEF items

----------------------------------------------------------------------------
(* Every call. *)

(* The string holds the text, and no assertion has failed. *)
SdsInv == Sound(s, text) /\ aborted = FALSE

(* The texts that are drawn are texts. *)
LEMMA StringsAreTexts ==
  ASSUME NEW n \in Nat, NEW c \in Strings(n)
  PROVE  c \in Seq(Int) /\ Len(c) \in Nat
<1>1. PICK k \in 0 .. n : c \in [1 .. k -> Char]
  BY DEF Strings
<1>2. Char \subseteq Int
  BY HeaderAssumption
<1>3. k \in Nat /\ c \in [1 .. k -> Int]
  <2>1. k \in Nat
    OBVIOUS
  <2>2. c = [i \in 1 .. k |-> c[i]] /\ \A i \in 1 .. k : c[i] \in Int
    BY <1>1, <1>2
  <2>3. QED
    BY <2>1, <2>2
<1>4. QED
  BY <1>3

(* So are the conversions of sdscatfmt, and a character that is copied is  *)
(* one.                                                                    *)
LEMMA ItemsAreTexts ==
  ASSUME NEW x \in Items
  PROVE  x.chars \in Seq(Int) /\ (x.verbatim => Len(x.chars) = 1)
<1> DEFINE A == {[verbatim |-> v, chars |-> c] : v \in {TRUE}, c \in Strings(1) \ {<<>>}}
           B == [verbatim : {FALSE}, chars : Strings(3)]
<1>1. CASE x \in A
  <2>1. PICK c \in Strings(1) \ {<<>>} : x.chars = c
    BY <1>1
  <2>2. c \in Seq(Int)
    BY <2>1, StringsAreTexts
  <2>3. Len(c) = 1
    <3>1. PICK k \in 0 .. 1 : c \in [1 .. k -> Char]
      BY <2>1 DEF Strings
    <3>2. k = 0 => c = <<>>
      BY <3>1
    <3>3. k = 1
      BY <2>1, <3>1, <3>2
    <3>4. QED
      BY <2>2, <3>1, <3>3
  <2>4. QED
    BY <2>1, <2>2, <2>3
<1>2. CASE x \in B
  <2>1. x.verbatim = FALSE /\ x.chars \in Strings(3)
    BY <1>2
  <2>2. QED
    BY <2>1, StringsAreTexts
<1>3. Items = A \cup B
  BY DEF Items
<1> HIDE DEF A, B
<1>4. QED
  BY <1>1, <1>2, <1>3

(* An empty string holds the empty text. *)
LEMMA SdsInitInv ==
  ASSUME SdsInit
  PROVE  SdsInv
<1>1. <<>> \in Seq(Int)
  OBVIOUS
<1>2. Sound(sdsnewlen(<<>>), <<>>)
  BY <1>1, NewSound
<1>3. QED
  BY <1>2 DEF SdsInit, SdsInv

(* A call whose result holds what it means. *)
LEMMA BecomesKeeps ==
  ASSUME SdsInv, NEW d, NEW t, Becomes(d, t), Sound(d, t)
  PROVE  SdsInv'
BY DEF SdsInv, Becomes, Sound, InBlock, Holds

(* Every call keeps the string sound and its text the one it stands for. *)
LEMMA SdsStepInv ==
  ASSUME SdsInv, [SdsNext]_sds
  PROVE  SdsInv'
<1>1. Sound(s, text) /\ aborted = FALSE
  BY DEF SdsInv
<1>2. text \in Seq(Int) /\ Len(text) \in Nat /\ Len(text) = s.len /\ s.len \in Nat
  BY <1>1 DEF Sound, Holds, InBlock
<1>3. MaxText \in Nat /\ Char \subseteq Int
  BY HeaderAssumption
<1>4. ASSUME NEW chars \in Strings(MaxText), New(chars) \/ Cpy(chars)
      PROVE  SdsInv'
  <2>1. chars \in Seq(Int)
    BY <1>3, StringsAreTexts
  <2>2. CASE New(chars)
    <3>1. Sound(sdsnewlen(chars), chars)
      BY <2>1, NewSound
    <3>2. QED
      BY <2>2, <3>1, BecomesKeeps DEF New
  <2>3. CASE Cpy(chars)
    <3>1. Sound(sdscpylen(s, chars), chars)
      BY <1>1, <2>1, CpySound
    <3>2. QED
      BY <2>3, <3>1, BecomesKeeps DEF Cpy
  <2>4. QED
    BY <1>4, <2>2, <2>3
<1>5. ASSUME NEW chars \in Strings(3), Cat(chars)
      PROVE  SdsInv'
  <2>1. chars \in Seq(Int)
    BY StringsAreTexts
  <2>2. Sound(sdscatlen(s, chars), text \o chars)
    BY <1>1, <2>1, CatSound
  <2>3. QED
    BY <1>5, <2>2, BecomesKeeps DEF Cat
<1>6. CASE Dup
  <2>1. Sound(sdsnewlen(Content(s)), text)
    BY <1>1, DupSound
  <2>2. QED
    BY <1>6, <2>1, BecomesKeeps DEF Dup
<1>7. CASE Clear
  <2>1. Sound(sdsclear(s), <<>>)
    BY <1>1, ClearSound
  <2>2. QED
    BY <1>7, <2>1, BecomesKeeps DEF Clear
<1>8. CASE RemoveFreeSpace
  <2>1. Sound(sdsRemoveFreeSpace(s), text)
    BY <1>1, FreeSound
  <2>2. QED
    BY <1>8, <2>1, BecomesKeeps DEF RemoveFreeSpace
<1>9. CASE ToLower
  <2>1. Sound(sdstolower(s), [i \in DOMAIN text |-> Lower(text[i])])
    BY <1>1, CasedSound
  <2>2. QED
    BY <1>9, <2>1, BecomesKeeps DEF ToLower
<1>10. CASE ToUpper
  <2>1. Sound(sdstoupper(s), [i \in DOMAIN text |-> Upper(text[i])])
    BY <1>1, CasedSound
  <2>2. QED
    BY <1>10, <2>1, BecomesKeeps DEF ToUpper
<1>11. ASSUME NEW n \in 0 .. MaxText, GrowZero(n)
       PROVE  SdsInv'
  <2>1. n \in Nat
    BY <1>3
  <2>2. Sound(sdsgrowzero(s, n), text \o [i \in 1 .. n - Len(text) |-> NUL])
    BY <1>1, <2>1, GrowZeroSound
  <2>3. QED
    BY <1>11, <2>2, BecomesKeeps DEF GrowZero
<1>12. ASSUME NEW i \in 0 .. MaxText, CutAt(i)
       PROVE  SdsInv'
  <2> DEFINE d == Write(s, i, <<NUL>>)
             t == [text EXCEPT ![i + 1] = NUL]
  <2>1. i \in 0 .. Len(text) - 1
    BY <1>2, <1>3, <1>12 DEF CutAt
  <2>2. Sound(d, t)
    BY <1>1, <2>1, NulWrittenSound
  <2>3. Becomes(sdsupdatelen(d), UpToNul(t))
    BY <1>12 DEF CutAt
  <2> HIDE DEF d, t
  <2>4. Sound(sdsupdatelen(d), UpToNul(t))
    BY <2>2, UpdateLenSound
  <2>5. QED
    BY <2>3, <2>4, BecomesKeeps
<1>13. ASSUME NEW k \in 1 .. 3, NEW chars \in Strings(3), ReadInto(k, chars)
       PROVE  SdsInv'
  <2> DEFINE roomy == sdsMakeRoomFor(s, k)
             d == sdsIncrLen(Write(roomy, s.len, chars), Len(chars))
             t == text \o chars
             may == MayIncr(roomy, Len(chars))
  <2>1. chars \in Seq(Int)
    BY StringsAreTexts
  <2>2. /\ Len(chars) <= k /\ s' = d /\ aborted' = ~may /\ text' = t
    BY <1>13 DEF ReadInto
  <2>3. may /\ Sound(d, t)
    <3>1. k \in Nat /\ k >= 1
      OBVIOUS
    <3>2. QED
      BY <1>1, <2>1, <2>2, <3>1, ReadSound
  <2> HIDE DEF d, t, may
  <2>4. aborted' = FALSE
    BY <2>2, <2>3
  <2>5. Sound(s', text')
    BY <2>2, <2>3
  <2>6. QED
    BY <2>4, <2>5 DEF SdsInv, Sound, InBlock, Holds
<1>14. ASSUME NEW n \in 1 .. MaxText, RightTrim(n)
       PROVE  SdsInv'
  <2> DEFINE d == sdsIncrLen(s, -n)
             t == SubSeq(text, 1, Len(text) - n)
             may == MayIncr(s, -n)
  <2>1. n \in 1 .. Len(text)
    BY <1>2, <1>3, <1>14 DEF RightTrim
  <2>2. s' = d /\ aborted' = ~may /\ text' = t
    BY <1>14 DEF RightTrim
  <2>3. may /\ Sound(d, t)
    BY <1>1, <2>1, RightTrimSound
  <2> HIDE DEF d, t, may
  <2>4. aborted' = FALSE
    BY <2>2, <2>3
  <2>5. Sound(s', text')
    BY <2>2, <2>3
  <2>6. QED
    BY <2>4, <2>5 DEF SdsInv, Sound, InBlock, Holds
<1>15. ASSUME NEW cset \in SUBSET Char, TrimSet(cset)
       PROVE  SdsInv'
  <2>1. Sound(sdstrim(s, cset), Trimmed(text, cset))
    BY <1>1, TrimSound
  <2>2. QED
    BY <1>15, <2>1, BecomesKeeps DEF TrimSet
<1>16. ASSUME NEW start \in -(MaxText + 1) .. MaxText + 1, NEW end \in -(MaxText + 1) .. MaxText + 1,
              RangeOf(start, end)
       PROVE  SdsInv'
  <2>1. start \in Int /\ end \in Int
    BY <1>3
  <2>2. Sound(sdsrange(s, start, end), Slice(text, start, end))
    BY <1>1, <2>1, RangeSound
  <2>3. QED
    BY <1>16, <2>2, BecomesKeeps DEF RangeOf
<1>17. ASSUME NEW a \in Char, NEW b \in Char, MapChars(<<a>>, <<b>>) \/ MapChars(<<a, b>>, <<b, a>>)
       PROVE  SdsInv'
  <2>1. ASSUME NEW from \in Seq(Int), NEW to \in Seq(Int), Len(from) = Len(to), MapChars(from, to)
        PROVE  SdsInv'
    <3>1. Sound(sdsmapchars(s, from, to), [i \in DOMAIN text |-> Mapped(text[i], from, to)])
      BY <1>1, <2>1, MapCharsSound
    <3>2. QED
      BY <2>1, <3>1, BecomesKeeps DEF MapChars
  <2>2. a \in Int /\ b \in Int
    BY <1>3
  <2>3. /\ <<a>> \in Seq(Int) /\ <<b>> \in Seq(Int) /\ Len(<<a>>) = Len(<<b>>)
        /\ <<a, b>> \in Seq(Int) /\ <<b, a>> \in Seq(Int) /\ Len(<<a, b>>) = Len(<<b, a>>)
    BY <2>2
  <2>4. QED
    BY <1>17, <2>1, <2>3
<1>18. ASSUME NEW x \in Items, NEW y \in Items, CatFmt(<<x, y>>)
       PROVE  SdsInv'
  <2> DEFINE items == <<x, y>>
             t == text \o FlattenSeq([i \in DOMAIN items |-> items[i].chars])
             u == (text \o x.chars) \o y.chars
  <2>1. /\ x.chars \in Seq(Int) /\ (x.verbatim => Len(x.chars) = 1)
        /\ y.chars \in Seq(Int) /\ (y.verbatim => Len(y.chars) = 1)
    BY ItemsAreTexts
  <2>2. Sound(sdscatfmt(s, items), u)
    BY <1>1, <2>1, CatFmtSound
  <2>3. [i \in DOMAIN items |-> items[i].chars] = <<x.chars, y.chars>>
    <3>1. DOMAIN items = 1 .. 2 /\ items[1] = x /\ items[2] = y
      OBVIOUS
    <3> HIDE DEF items
    <3>2. \A i \in 1 .. 2 : i = 1 \/ i = 2
      OBVIOUS
    <3>3. \A i \in 1 .. 2 : items[i].chars = <<x.chars, y.chars>>[i]
      BY <3>1, <3>2
    <3>4. <<x.chars, y.chars>> = [i \in 1 .. 2 |-> <<x.chars, y.chars>>[i]]
      OBVIOUS
    <3>5. QED
      BY <3>1, <3>3, <3>4
  <2>4. t = u
    <3> DEFINE p == x.chars
               q == y.chars
    <3>1. FlattenSeq([i \in DOMAIN items |-> items[i].chars]) = p \o q
      BY <2>3, TwoFlattened
    <3>2. p \in Seq(Int) /\ q \in Seq(Int)
      BY <2>1
    <3> HIDE DEF p, q, items
    <3>3. text \o (p \o q) = (text \o p) \o q
      <4>1. Associates(text, p, q)
        BY <1>2, <3>2, ConcatAssociates, Zenon
      <4>2. QED
        BY <4>1 DEF Associates
    <3>4. t = text \o (p \o q)
      BY <3>1
    <3> HIDE DEF t
    <3>5. t = (text \o p) \o q
      BY <3>3, <3>4
    <3>6. QED
      BY <3>5 DEF p, q
  <2>5. Becomes(sdscatfmt(s, items), t)
    BY <1>18 DEF CatFmt
  <2> HIDE DEF t, u, items
  <2>6. QED
    BY <2>2, <2>4, <2>5, BecomesKeeps
<1>19. CASE UNCHANGED sds
  BY <1>19 DEF SdsInv, Sound, InBlock, Holds, sds
<1>20. QED
  BY <1>4, <1>5, <1>6, <1>7, <1>8, <1>9, <1>10, <1>11, <1>12, <1>13, <1>14, <1>15, <1>16, <1>17,
     <1>18, <1>19 DEF SdsNext

(* Through every sequence of sds calls, with growth, moves between header  *)
(* types and truncation at a NUL byte, the length, the room, the block and *)
(* the characters agree, and the string holds the text it stands for       *)
(* (sds.c).                                                                *)
THEOREM StringsHoldTheirText == SdsSpec => []HoldsText
<1>1. SdsInit => SdsInv
  BY SdsInitInv
<1>2. SdsInv /\ [SdsNext]_sds => SdsInv'
  BY SdsStepInv
<1>3. SdsInv => HoldsText
  <2> SUFFICES ASSUME SdsInv
               PROVE  HoldsText
    OBVIOUS
  <2>1. PICK r : InBlock(s, r)
    BY DEF SdsInv, Sound
  <2>2. Holds(s, text) /\ ~aborted
    BY DEF SdsInv, Sound
  <2>3. QED
    BY <2>1, <2>2, HoldsIsHoldsText
<1>4. QED
  BY <1>1, <1>2, <1>3, PTL DEF SdsSpec

----------------------------------------------------------------------------
(* The loops over texts. *)

(* A turn of a loop, of those below: each makes x from x and perhaps from  *)
(* the number of the turn.                                                 *)
Turned(loop, t, u, x, n) ==
  CASE loop = "digits" -> x \div 10
    [] loop = "value" -> 10 * x + t[n] - 48
    [] loop = "buffer" -> 2 * x
    [] loop = "scan" -> Scan(t, u, x)
    [] loop = "token" -> Read(t, x)
    [] OTHER -> Arguments(t, x)

(* The first m turns. *)
Loops(loop, t, u, x, m, f) ==
  f = [n \in 0 .. m |-> IF n = 0 THEN x ELSE Turned(loop, t, u, f[n - 1], n)]

(* Every loop has a result after every turn. *)
LEMMA LoopExists ==
  ASSUME NEW loop, NEW t, NEW u, NEW x, NEW m \in Nat
  PROVE  \E f : Loops(loop, t, u, x, m, f)
<1> DEFINE S == {n \in Nat : \E f : Loops(loop, t, u, x, n, f)}
<1>1. 0 \in S
  <2> DEFINE f == [n \in 0 .. 0 |-> x]
  <2>1. f = [n \in 0 .. 0 |-> IF n = 0 THEN x ELSE Turned(loop, t, u, f[n - 1], n)]
    OBVIOUS
  <2> HIDE DEF f
  <2>2. Loops(loop, t, u, x, 0, f)
    BY <2>1 DEF Loops
  <2>3. QED
    BY <2>2
<1>2. ASSUME NEW n \in Nat, n \in S
      PROVE  n + 1 \in S
  <2>1. PICK f : Loops(loop, t, u, x, n, f)
    BY <1>2
  <2> DEFINE last == Turned(loop, t, u, f[n], n + 1)
             g == [k \in 0 .. n + 1 |-> IF k = n + 1 THEN last ELSE f[k]]
             h == [k \in 0 .. n + 1 |-> IF k = 0 THEN x ELSE Turned(loop, t, u, g[k - 1], k)]
  <2>2. \A k \in 0 .. n : f[k] = IF k = 0 THEN x ELSE Turned(loop, t, u, f[k - 1], k)
    BY <2>1 DEF Loops
  <2>3. ASSUME NEW k \in 0 .. n + 1
        PROVE  g[k] = h[k]
    <3>1. CASE k = n + 1
      <4>1. k # 0 /\ g[k] = last /\ g[k - 1] = f[n]
        BY <3>1
      <4>2. h[k] = Turned(loop, t, u, g[k - 1], k)
        BY <4>1
      <4>3. QED
        BY <3>1, <4>1, <4>2, Zenon
    <3>2. CASE k \in 0 .. n
      <4>1. g[k] = f[k] /\ (k # 0 => g[k - 1] = f[k - 1])
        BY <3>2
      <4>2. h[k] = IF k = 0 THEN x ELSE Turned(loop, t, u, g[k - 1], k)
        OBVIOUS
      <4>3. QED
        BY <2>2, <3>2, <4>1, <4>2, Zenon
    <3>3. QED
      BY <3>1, <3>2
  <2>4. g = h
    BY <2>3
  <2>5. Loops(loop, t, u, x, n + 1, g)
    BY <2>4 DEF Loops
  <2>6. QED
    BY <2>5
<1>3. QED
  <2> HIDE DEF S
  <2>1. m \in S
    BY <1>1, <1>2, SetInduction
  <2>2. QED
    BY <2>1 DEF S

----------------------------------------------------------------------------
(* printf. *)

(* t is n characters to its first NUL. *)
Ends(t, n) == n \in 0 .. Len(t) /\ At(t, n + 1) = 0 /\ \A i \in 1 .. n : t[i] # 0

(* A text ends somewhere. *)
LEMMA EndExists ==
  ASSUME NEW t, t \in Seq(Int)
  PROVE  \E n : Ends(t, n)
<1> DEFINE S == {n \in Nat : n <= Len(t) /\ At(t, n + 1) = 0}
<1>1. Len(t) \in Nat /\ DOMAIN t = 1 .. Len(t)
  OBVIOUS
<1>2. S \in SUBSET Nat /\ S # {}
  <2>1. Len(t) + 1 \notin DOMAIN t
    BY <1>1
  <2>2. At(t, Len(t) + 1) = 0
    BY <2>1 DEF At
  <2>3. QED
    BY <1>1, <2>2
<1>3. PICK n \in S : \A k \in S : n <= k
  BY <1>2, LeastNatural
<1>4. n \in 0 .. Len(t) /\ At(t, n + 1) = 0
  BY <1>1, <1>3
<1>5. ASSUME NEW i \in 1 .. n, t[i] = 0
      PROVE  FALSE
  <2>1. i - 1 \in Nat /\ i - 1 <= Len(t) /\ (i - 1) + 1 = i /\ i \in DOMAIN t /\ ~(n <= i - 1)
    BY <1>1, <1>4
  <2>2. At(t, (i - 1) + 1) = 0
    BY <1>5, <2>1 DEF At
  <2>3. i - 1 \in S
    BY <2>1, <2>2
  <2>4. QED
    BY <1>3, <2>1, <2>3
<1>6. QED
  BY <1>4, <1>5 DEF Ends

(* It says what is before that. *)
LEMMA EndSays ==
  ASSUME NEW t, t \in Seq(Int), NEW n, Ends(t, n)
  PROVE  CString(t) = SubSeq(t, 1, n)
<1> DEFINE U == {SubSeq(t, 1, k) : k \in 0 .. Len(t)}
           Says(u) == (\A i \in DOMAIN u : u[i] # 0) /\ At(t, Len(u) + 1) = 0
           w == SubSeq(t, 1, n)
<1>1. Len(t) \in Nat /\ DOMAIN t = 1 .. Len(t) /\ n \in 0 .. Len(t) /\ n \in Nat
  BY DEF Ends
<1>2. ASSUME NEW k \in 0 .. Len(t)
      PROVE  /\ SubSeq(t, 1, k) \in Seq(Int) /\ Len(SubSeq(t, 1, k)) = k
             /\ DOMAIN SubSeq(t, 1, k) = 1 .. k
             /\ \A i \in 1 .. k : SubSeq(t, 1, k)[i] = t[i]
  BY <1>1
<1>3. w \in U /\ Says(w)
  BY <1>1, <1>2 DEF Ends
<1>4. ASSUME NEW k \in 0 .. Len(t), Says(SubSeq(t, 1, k))
      PROVE  k = n
  <2>1. At(t, k + 1) = 0 /\ \A i \in 1 .. k : t[i] # 0
    BY <1>2, <1>4
  <2>2. ~(k < n)
    <3>1. SUFFICES ASSUME k < n
                   PROVE  FALSE
      OBVIOUS
    <3>2. k + 1 \in 1 .. n /\ k + 1 \in DOMAIN t
      BY <1>1, <3>1
    <3>3. QED
      BY <2>1, <3>2 DEF At, Ends
  <2>3. ~(n < k)
    <3>1. SUFFICES ASSUME n < k
                   PROVE  FALSE
      OBVIOUS
    <3>2. n + 1 \in 1 .. k /\ n + 1 \in DOMAIN t
      BY <1>1, <3>1
    <3>3. QED
      BY <2>1, <3>2 DEF At, Ends
  <2>4. QED
    BY <1>1, <2>2, <2>3
<1>5. \A u \in U : Says(u) => u = w
  BY <1>4
<1>6. CString(t) = CHOOSE u \in U : Says(u)
  BY DEF CString
<1> HIDE DEF U, Says, w
<1>7. CString(t) = w
  BY <1>3, <1>5, <1>6, Zenon
<1>8. QED
  BY <1>7 DEF w

(* A buffer that is big enough holds the output up to its first NUL. *)
LEMMA FittedSays ==
  ASSUME NEW out, out \in Seq(Int), NEW size \in Nat, size >= 2, Fits(out, size)
  PROVE  CString(Printed(out, size)) = CString(out)
<1> DEFINE m == Smaller(Len(out), size - 1)
           r == SubSeq(out, 1, m)
<1>1. Len(out) \in Nat /\ DOMAIN out = 1 .. Len(out) /\ m \in 0 .. Len(out) /\ m \in Nat
  BY DEF Smaller
<1>2. Printed(out, size) = r
  BY DEF Printed
<1>3. r \in Seq(Int) /\ Len(r) = m /\ DOMAIN r = 1 .. m /\ \A i \in 1 .. m : r[i] = out[i]
  BY <1>1
<1>4. CASE Len(out) <= size - 1
  <2>1. m = Len(out)
    BY <1>4 DEF Smaller
  <2>2. r = out
    BY <1>3, <2>1
  <2>3. QED
    BY <1>2, <2>2
<1>5. CASE ~(Len(out) <= size - 1)
  <2>1. m = size - 1 /\ m \in 1 .. Len(out)
    BY <1>1, <1>5 DEF Smaller
  <2>2. At(r, m) = 0
    BY <1>2, <2>1 DEF Fits
  <2>3. out[m] = 0
    BY <1>3, <2>1, <2>2 DEF At
  <2>4. PICK n : Ends(out, n)
    BY EndExists
  <2>5. n \in 0 .. Len(out) /\ At(out, n + 1) = 0 /\ \A i \in 1 .. n : out[i] # 0
    BY <2>4 DEF Ends
  <2>6. n < m
    BY <2>1, <2>3, <2>5
  <2> HIDE DEF m, r
  <2>7. At(r, n + 1) = 0
    <3>1. n + 1 \in 1 .. m /\ n + 1 \in DOMAIN out
      BY <1>1, <2>1, <2>5, <2>6
    <3>2. QED
      BY <1>3, <2>5, <3>1 DEF At
  <2>8. Ends(r, n)
    BY <1>1, <1>3, <2>5, <2>6, <2>7 DEF Ends
  <2>9. SubSeq(r, 1, n) = SubSeq(out, 1, n)
    BY <1>1, <1>3, <2>5, <2>6
  <2>10. CString(r) = SubSeq(r, 1, n) /\ CString(out) = SubSeq(out, 1, n)
    BY <1>3, <2>4, <2>8, EndSays
  <2>11. QED
    BY <1>2, <2>9, <2>10
<1>6. QED
  BY <1>4, <1>5

(* Doubling comes to such a buffer. *)
LEMMA DoubledFits ==
  ASSUME NEW out, out \in Seq(Int), NEW first \in Nat, first >= 2
  PROVE  Doubled(out, first) \in Nat /\ Doubled(out, first) >= 2 /\ Fits(out, Doubled(out, first))
<1> DEFINE L == Len(out)
           Sol(f) == f = [n \in 0 .. L |-> IF n = 0 THEN first ELSE 2 * f[n - 1]]
           f == CHOOSE f : Sol(f)
           Best(n) == Fits(out, f[n]) /\ \A k \in 0 .. n - 1 : ~Fits(out, f[k])
           turn == CHOOSE n \in 0 .. L : Best(n)
<1>1. L \in Nat
  OBVIOUS
<1>2. \E g : Sol(g)
  <2>1. PICK g : Loops("buffer", out, out, first, L, g)
    BY <1>1, LoopExists
  <2>2. \A x, n : Turned("buffer", out, out, x, n) = 2 * x
    BY DEF Turned
  <2>3. Sol(g)
    BY <2>1, <2>2 DEF Loops
  <2>4. QED
    BY <2>3
<1>3. Sol(f)
  BY <1>2, Zenon
<1>4. Doubled(out, first) = f[turn]
  BY DEF Doubled
<1> HIDE DEF f
<1>5. \A n \in 0 .. L : f[n] = IF n = 0 THEN first ELSE 2 * f[n - 1]
  BY <1>3
<1> DEFINE S == {n \in Nat : n <= L => f[n] \in Nat /\ f[n] >= n + 2}
<1>6. \A n \in Nat : n <= L => f[n] \in Nat /\ f[n] >= n + 2
  <2>1. 0 \in S
    BY <1>1, <1>5
  <2>2. ASSUME NEW n \in Nat, n \in S
        PROVE  n + 1 \in S
    <3>1. SUFFICES ASSUME n + 1 <= L
                   PROVE  f[n + 1] \in Nat /\ f[n + 1] >= (n + 1) + 2
      OBVIOUS
    <3>2. f[n + 1] = 2 * f[n] /\ f[n] \in Nat /\ f[n] >= n + 2
      BY <1>1, <1>5, <2>2, <3>1
    <3>3. QED
      BY <3>2
  <2>3. Nat \subseteq S
    <3> HIDE DEF S
    <3>1. QED
      BY <2>1, <2>2, SetInduction
  <2>4. QED
    BY <2>3
<1>7. Fits(out, f[L])
  <2>1. f[L] \in Nat /\ f[L] - 1 >= L + 1
    BY <1>1, <1>6
  <2>2. Printed(out, f[L]) = out
    BY <1>1, <2>1 DEF Printed, Smaller
  <2>3. f[L] - 1 \notin DOMAIN out
    BY <1>1, <2>1
  <2>4. QED
    BY <2>2, <2>3 DEF Fits, At
<1> DEFINE T == {n \in Nat : n <= L /\ Fits(out, f[n])}
<1>8. PICK n \in T : \A k \in T : n <= k
  <2>1. T \in SUBSET Nat /\ T # {}
    BY <1>1, <1>7
  <2> HIDE DEF T
  <2>2. QED
    BY <2>1, LeastNatural
<1>9. n \in 0 .. L /\ Best(n)
  <2>1. n \in 0 .. L /\ Fits(out, f[n])
    BY <1>8
  <2>2. ASSUME NEW k \in 0 .. n - 1, Fits(out, f[k])
        PROVE  FALSE
    <3>1. k \in T /\ ~(n <= k)
      BY <1>1, <2>1, <2>2
    <3>2. QED
      BY <1>8, <3>1
  <2>3. QED
    BY <2>1, <2>2
<1>10. turn \in 0 .. L /\ Best(turn)
  <2> HIDE DEF Best
  <2>1. QED
    BY <1>9, Zenon
<1> HIDE DEF turn
<1>11. f[turn] \in Nat /\ f[turn] >= 2
  BY <1>1, <1>6, <1>10
<1>12. QED
  BY <1>4, <1>10, <1>11

(* sdscatvprintf (sds.c:501) appends all that was printed. *)
LEMMA PrintedWhole ==
  ASSUME NEW out, out \in Seq(Int), NEW fmtlen \in Nat
  PROVE  sdscatvprintf(<<>>, fmtlen, out) = CString(out)
<1> DEFINE first == IF 2 * fmtlen > StaticBuffer THEN 2 * fmtlen ELSE StaticBuffer
           size == Doubled(out, first)
<1>1. first \in Nat /\ first >= 2
  BY AlphabetAssumption
<1>2. sdscatvprintf(<<>>, fmtlen, out) = <<>> \o CString(Printed(out, size))
  BY DEF sdscatvprintf
<1> HIDE DEF first
<1>3. size \in Nat /\ size >= 2 /\ Fits(out, size)
  BY <1>1, DoubledFits
<1> HIDE DEF size
<1>4. CString(Printed(out, size)) = CString(out)
  BY <1>3, FittedSays
<1>5. CString(out) \in Seq(Int)
  <2>1. PICK n : Ends(out, n)
    BY EndExists
  <2>2. CString(out) = SubSeq(out, 1, n)
    BY <2>1, EndSays
  <2>3. n \in 0 .. Len(out)
    BY <2>1 DEF Ends
  <2>4. SubSeq(out, 1, n) \in Seq(Int)
    BY <2>3
  <2>5. QED
    BY <2>2, <2>4
<1>6. <<>> \o CString(out) = CString(out)
  BY <1>5
<1>7. QED
  BY <1>2, <1>4, <1>6

----------------------------------------------------------------------------
(* Pieces of texts. *)

(* The members of a sequence. *)
LEMMA MemberOf ==
  ASSUME NEW X, NEW a, a \in Seq(X), NEW k \in 1 .. Len(a)
  PROVE  a[k] \in X
  OBVIOUS

(* A sequence of no members. *)
LEMMA NoMembers ==
  ASSUME NEW X, NEW a, a \in Seq(X), Len(a) = 0
  PROVE  a = <<>>
  OBVIOUS

(* A sequence over a set is one over a larger set. *)
LEMMA WiderSeq ==
  ASSUME NEW X, NEW Y, X \subseteq Y, NEW t, t \in Seq(X)
  PROVE  t \in Seq(Y)
<1> DEFINE n == Len(t)
<1>1. n \in Nat /\ t \in [1 .. n -> X]
  OBVIOUS
<1> HIDE DEF n
<1>2. t \in [1 .. n -> Y]
  BY <1>1
<1>3. QED
  BY <1>1, <1>2

(* A sequence that may have one more member. *)
LEMMA LongerSeq ==
  ASSUME NEW X, NEW a, a \in Seq(X), NEW b, b = a \/ \E c \in X : b = Append(a, c)
  PROVE  b \in Seq(X)
  OBVIOUS

(* The beginnings of a text grow by a character. *)
LEMMA PrefixGrows ==
  ASSUME NEW X, NEW a, a \in Seq(X), NEW k \in Nat, k + 1 <= Len(a)
  PROVE  Append(SubSeq(a, 1, k), a[k + 1]) = SubSeq(a, 1, k + 1)
  OBVIOUS

(* The shortest and the longest of them. *)
LEMMA PrefixEnds ==
  ASSUME NEW X, NEW a, a \in Seq(X)
  PROVE  SubSeq(a, 1, 0) = <<>> /\ SubSeq(a, 1, Len(a)) = a
  OBVIOUS

(* One more sequence flattened. *)
LEMMA FlattenAppend ==
  ASSUME NEW X, NEW seqs, seqs \in Seq(Seq(X)), NEW u, u \in Seq(X)
  PROVE  /\ FlattenSeq(seqs) \in Seq(X)
         /\ FlattenSeq(Append(seqs, u)) = FlattenSeq(seqs) \o u
<1> DEFINE more == Append(seqs, u)
           n == Len(seqs)
           f == Flat(seqs)
           g == Flat(more)
<1>1. n \in Nat /\ more \in Seq(Seq(X)) /\ Len(more) = n + 1 /\ more[n + 1] = u
      /\ \A i \in 1 .. n : more[i] = seqs[i]
  OBVIOUS
<1>2. FlattenSeq(seqs) \in Seq(X)
  BY FlattenOffsets
<1> HIDE DEF more
<1>3. FlattenSeq(more) = g[n + 1]
  <2>1. Len(more) # 0
    BY <1>1
  <2>2. QED
    BY <1>1, <2>1, FlattenIsFlat
<1>4. \A i \in 1 .. n : f[i] = IF i = 1 THEN seqs[i] ELSE f[i - 1] \o seqs[i]
  <2>1. Len(seqs) \in Nat
    BY <1>1
  <2>2. QED
    BY <1>1, <2>1, FlatEquation
<1>5. \A i \in 1 .. n + 1 : g[i] = IF i = 1 THEN more[i] ELSE g[i - 1] \o more[i]
  <2>1. Len(more) \in Nat
    BY <1>1
  <2>2. QED
    BY <1>1, <2>1, FlatEquation
<1> HIDE DEF f, g
<1>6. CASE n = 0
  <2>1. FlattenSeq(seqs) = <<>>
    <3>1. seqs = <<>>
      BY <1>6
    <3>2. QED
      BY <3>1 DEF FlattenSeq
  <2>2. g[1] = u
    BY <1>1, <1>5, <1>6
  <2>3. <<>> \o u = u
    OBVIOUS
  <2>4. QED
    BY <1>2, <1>3, <1>6, <2>1, <2>2, <2>3 DEF more
<1>7. CASE n # 0
  <2> DEFINE S == {i \in Nat : i + 1 <= n => g[i + 1] = f[i + 1]}
  <2>1. 0 \in S
    <3>1. 1 \in 1 .. n /\ 1 \in 1 .. n + 1
      BY <1>1, <1>7
    <3>2. QED
      BY <1>1, <1>4, <1>5, <3>1
  <2>2. ASSUME NEW i \in Nat, i \in S
        PROVE  i + 1 \in S
    <3>1. SUFFICES ASSUME (i + 1) + 1 <= n
                   PROVE  g[(i + 1) + 1] = f[(i + 1) + 1]
      OBVIOUS
    <3> DEFINE k == (i + 1) + 1
    <3>2. k \in 1 .. n /\ k \in 1 .. n + 1 /\ k # 1 /\ k - 1 = i + 1
      BY <1>1, <3>1
    <3>3. g[i + 1] = f[i + 1]
      BY <1>1, <2>2, <3>1
    <3> HIDE DEF k
    <3>4. g[k] = g[k - 1] \o more[k] /\ f[k] = f[k - 1] \o seqs[k] /\ more[k] = seqs[k]
      BY <1>1, <1>4, <1>5, <3>2
    <3>5. g[k] = f[k]
      BY <3>2, <3>3, <3>4
    <3>6. QED
      BY <3>5 DEF k
  <2>3. g[n] = f[n]
    <3> HIDE DEF S
    <3>1. n - 1 \in Nat /\ (n - 1) + 1 = n
      BY <1>1, <1>7
    <3>2. n - 1 \in S
      BY <2>1, <2>2, <3>1, SetInduction
    <3>3. QED
      BY <3>1, <3>2 DEF S
  <2>4. g[n + 1] = g[n] \o u
    <3>1. n + 1 \in 1 .. n + 1 /\ n + 1 # 1 /\ (n + 1) - 1 = n
      BY <1>1, <1>7
    <3>2. g[n + 1] = g[(n + 1) - 1] \o more[n + 1]
      BY <1>5, <3>1
    <3>3. QED
      BY <1>1, <3>1, <3>2
  <2>5. FlattenSeq(seqs) = f[n]
    BY <1>7, FlattenIsFlat DEF f
  <2>6. QED
    BY <1>2, <1>3, <2>3, <2>4, <2>5 DEF more
<1>8. QED
  BY <1>6, <1>7

(* A piece of a text. *)
LEMMA PieceOf ==
  ASSUME NEW t, t \in Seq(Int), NEW a \in Nat, NEW b \in Int, a >= 1, b <= Len(t), a <= b + 1
  PROVE  /\ SubSeq(t, a, b) \in Seq(Int) /\ Len(SubSeq(t, a, b)) = b + 1 - a
         /\ \A i \in 1 .. b + 1 - a : SubSeq(t, a, b)[i] = t[a + i - 1]
  OBVIOUS

(* What a text begins with. *)
LEMMA PrefixOf ==
  ASSUME NEW t, t \in Seq(Int), NEW n \in Nat, n <= Len(t)
  PROVE  /\ SubSeq(t, 1, n) \in Seq(Int) /\ Len(SubSeq(t, 1, n)) = n
         /\ \A i \in 1 .. n : SubSeq(t, 1, n)[i] = t[i]
  OBVIOUS

(* A piece of a piece. *)
LEMMA PieceOfPiece ==
  ASSUME NEW t, t \in Seq(Int), NEW a \in Nat, NEW b \in Int, a >= 1, b <= Len(t), a <= b + 1,
         NEW i \in Nat, NEW k \in Nat, i >= 1, i + k - 1 <= b + 1 - a
  PROVE  SubSeq(SubSeq(t, a, b), i, i + k - 1) = SubSeq(t, a + i - 1, (a + i - 1) + k - 1)
<1> DEFINE p == SubSeq(t, a, b)
           q == SubSeq(p, i, i + k - 1)
           c == a + i - 1
           r == SubSeq(t, c, c + k - 1)
<1>1. p \in Seq(Int) /\ Len(p) = b + 1 - a /\ \A x \in 1 .. b + 1 - a : p[x] = t[a + x - 1]
  BY PieceOf
<1> HIDE DEF p
<1>2. q \in Seq(Int) /\ Len(q) = k /\ \A x \in 1 .. k : q[x] = p[i + x - 1]
  <2>1. i + k - 1 \in Int /\ i + k - 1 <= Len(p) /\ i <= (i + k - 1) + 1 /\ (i + k - 1) + 1 - i = k
    BY <1>1
  <2>2. QED
    BY <1>1, <2>1, PieceOf
<1>3. r \in Seq(Int) /\ Len(r) = k /\ \A x \in 1 .. k : r[x] = t[c + x - 1]
  <2>1. /\ c \in Nat /\ c >= 1 /\ c + k - 1 \in Int /\ c + k - 1 <= Len(t)
        /\ c <= (c + k - 1) + 1 /\ (c + k - 1) + 1 - c = k
    OBVIOUS
  <2> HIDE DEF c
  <2>2. QED
    BY <2>1, PieceOf
<1> HIDE DEF q, r
<1>4. ASSUME NEW x \in 1 .. k
      PROVE  q[x] = r[x]
  <2>1. i + x - 1 \in 1 .. b + 1 - a /\ a + (i + x - 1) - 1 = c + x - 1
    OBVIOUS
  <2>2. q[x] = p[i + x - 1] /\ r[x] = t[c + x - 1]
    BY <1>2, <1>3
  <2>3. p[i + x - 1] = t[a + (i + x - 1) - 1]
    BY <1>1, <2>1
  <2>4. QED
    BY <2>1, <2>2, <2>3
<1>5. q = r
  BY <1>2, <1>3, <1>4, SameText
<1>6. QED
  BY <1>5 DEF p, q, r

(* Two pieces that meet. *)
LEMMA PiecesMeet ==
  ASSUME NEW t, t \in Seq(Int), NEW a \in Nat, NEW b \in Nat, a <= b, b <= Len(t)
  PROVE  SubSeq(t, 1, a) \o SubSeq(t, a + 1, b) = SubSeq(t, 1, b)
<1> DEFINE p == SubSeq(t, 1, a)
           q == SubSeq(t, a + 1, b)
           r == SubSeq(t, 1, b)
           pq == p \o q
<1>1. p \in Seq(Int) /\ Len(p) = a /\ \A i \in 1 .. a : p[i] = t[i]
  OBVIOUS
<1>2. q \in Seq(Int) /\ Len(q) = b - a /\ \A i \in 1 .. b - a : q[i] = t[a + i]
  <2>1. /\ q \in Seq(Int) /\ Len(q) = b + 1 - (a + 1)
        /\ \A i \in 1 .. b + 1 - (a + 1) : q[i] = t[(a + 1) + i - 1]
    BY PieceOf
  <2>2. b + 1 - (a + 1) = b - a /\ \A i \in Nat : (a + 1) + i - 1 = a + i
    OBVIOUS
  <2>3. QED
    BY <2>1, <2>2
<1>3. r \in Seq(Int) /\ Len(r) = b /\ \A i \in 1 .. b : r[i] = t[i]
  OBVIOUS
<1> HIDE DEF p, q, r
<1>4. /\ pq \in Seq(Int) /\ Len(pq) = b /\ \A i \in 1 .. a : pq[i] = p[i]
      /\ \A i \in 1 .. b - a : pq[a + i] = q[i]
  <2>1. /\ pq \in Seq(Int) /\ Len(pq) = Len(p) + Len(q)
        /\ \A i \in 1 .. Len(p) : pq[i] = p[i]
        /\ \A i \in 1 .. Len(q) : pq[Len(p) + i] = q[i]
    <3>1. pq = p \o q
      OBVIOUS
    <3> HIDE DEF pq
    <3>2. p \in Seq(Int)
      BY <1>1
    <3>3. q \in Seq(Int)
      BY <1>2
    <3>4. QED
      <4>1. Meets(p, q, pq)
        BY <3>1, <3>2, <3>3, TextsMeet, Zenon
      <4>2. QED
        BY <4>1 DEF Meets
  <2>2. a + (b - a) = b
    OBVIOUS
  <2> HIDE DEF pq
  <2>3. QED
    BY <1>1, <1>2, <2>1, <2>2
<1> HIDE DEF pq
<1>5. ASSUME NEW i \in 1 .. b
      PROVE  pq[i] = r[i]
  <2>1. CASE i <= a
    <3>1. i \in 1 .. a
      BY <2>1
    <3>2. QED
      BY <1>1, <1>3, <1>4, <3>1
  <2>2. CASE ~(i <= a)
    <3>1. i - a \in 1 .. b - a /\ a + (i - a) = i
      BY <2>2
    <3>2. pq[a + (i - a)] = q[i - a] /\ q[i - a] = t[a + (i - a)]
      BY <1>2, <1>4, <3>1
    <3>3. QED
      BY <1>3, <3>1, <3>2
  <2>3. QED
    BY <2>1, <2>2
<1>6. pq = r
  BY <1>3, <1>4, <1>5, SameText
<1>7. QED
  BY <1>6 DEF pq, p, q, r

(* One more member. *)
LEMMA AppendIs ==
  ASSUME NEW X, NEW t, t \in Seq(X), NEW u, u \in X, NEW n, n = Len(t)
  PROVE  Append(t, u) = [i \in 1 .. n + 1 |-> IF i <= n THEN t[i] ELSE u]
<1> DEFINE A == Append(t, u)
           B == [i \in 1 .. n + 1 |-> IF i <= n THEN t[i] ELSE u]
<1>1. n \in Nat
  OBVIOUS
<1>2. /\ A \in Seq(X) /\ Len(A) = n + 1 /\ DOMAIN A = 1 .. n + 1
      /\ \A i \in 1 .. n + 1 : A[i] = IF i <= n THEN t[i] ELSE u
  OBVIOUS
<1>3. \A i \in 1 .. n + 1 : (IF i <= n THEN t[i] ELSE u) \in X
  OBVIOUS
<1>4. B \in [1 .. n + 1 -> X]
  BY <1>3
<1>5. B \in Seq(X) /\ Len(B) = n + 1
  BY <1>1, <1>4
<1>6. \A i \in 1 .. n + 1 : A[i] = B[i]
  BY <1>2
<1> HIDE DEF A, B
<1>7. A = B
  BY <1>2, <1>5, <1>6
<1>8. QED
  BY <1>7 DEF A, B

----------------------------------------------------------------------------
(* Splitting and joining. *)

(* The separator is not at any of the positions from a to b. *)
Free(t, sep, a, b) == \A q \in a .. b : SubSeq(t, q, q + Len(sep) - 1) # sep

(* A piece with no separator at any position it could be at. *)
LEMMA FreePiece ==
  ASSUME NEW t, t \in Seq(Int), NEW sep, sep \in Seq(Int), sep # <<>>,
         NEW a \in Nat, NEW b \in Int, a >= 1, b <= Len(t), a <= b + 1,
         Free(t, sep, a, b + 1 - Len(sep))
  PROVE  ~Within(sep, SubSeq(t, a, b))
<1> DEFINE p == SubSeq(t, a, b)
           k == Len(sep)
<1>1. Len(p) = b + 1 - a /\ k \in Nat /\ k >= 1
  <2>1. k \in Nat /\ k # 0
    OBVIOUS
  <2>2. QED
    BY <2>1, PieceOf
<1>2. ASSUME NEW i \in 1 .. Len(p) - k + 1, SubSeq(p, i, i + k - 1) = sep
      PROVE  FALSE
  <2>1. i \in Nat /\ i >= 1 /\ i + k - 1 <= b + 1 - a
    BY <1>1
  <2>2. SubSeq(p, i, i + k - 1) = SubSeq(t, a + i - 1, (a + i - 1) + k - 1)
    BY <1>1, <2>1, PieceOfPiece
  <2>3. a + i - 1 \in a .. b + 1 - k
    BY <1>1, <2>1
  <2> HIDE DEF p
  <2>4. SubSeq(t, a + i - 1, (a + i - 1) + k - 1) # sep
    BY <2>3 DEF Free
  <2>5. QED
    BY <1>2, <2>2, <2>4
<1>3. QED
  BY <1>2 DEF Within

(* The pieces with a separator behind each. *)
Behind(tokens, sep) == [i \in 1 .. Len(tokens) |-> tokens[i] \o sep]

(* Joining puts them before the last piece. *)
LEMMA JoinedBehind ==
  ASSUME NEW sep, sep \in Seq(Int), NEW tokens, tokens \in Seq(Seq(Int)), NEW u, u \in Seq(Int)
  PROVE  /\ Behind(tokens, sep) \in Seq(Seq(Int))
         /\ Behind(Append(tokens, u), sep) = Append(Behind(tokens, sep), u \o sep)
         /\ sdsjoinsds(Append(tokens, u), sep) = FlattenSeq(Behind(tokens, sep)) \o u
<1> DEFINE more == Append(tokens, u)
           n == Len(tokens)
           B == Behind(tokens, sep)
           C == Behind(more, sep)
           D == Append(B, u \o sep)
           J == [i \in DOMAIN more |-> IF i = Len(more) THEN more[i] ELSE more[i] \o sep]
           K == Append(B, u)
<1>1. /\ n \in Nat /\ Len(more) = n + 1 /\ DOMAIN more = 1 .. n + 1 /\ more[n + 1] = u
      /\ \A i \in 1 .. n : more[i] = tokens[i] /\ tokens[i] \in Seq(Int)
  OBVIOUS
<1> HIDE DEF more
<1>2. B \in Seq(Seq(Int)) /\ Len(B) = n /\ \A i \in 1 .. n : B[i] = tokens[i] \o sep
  <2>1. \A i \in 1 .. n : tokens[i] \o sep \in Seq(Int)
    BY <1>1
  <2>2. B \in [1 .. n -> Seq(Int)]
    BY <2>1 DEF Behind
  <2>3. B = [i \in 1 .. n |-> tokens[i] \o sep] /\ n \in Nat
    BY <1>1 DEF Behind
  <2> HIDE DEF B, n
  <2>4. B \in Seq(Seq(Int)) /\ Len(B) = n
    BY <2>2, <2>3, MadeSeq, Zenon
  <2>5. \A i \in 1 .. n : B[i] = tokens[i] \o sep
    BY <2>3
  <2>6. QED
    BY <2>4, <2>5
<1>3. C = D
  <2>1. C = [i \in 1 .. n + 1 |-> more[i] \o sep]
    BY <1>1 DEF Behind
  <2>2. D = [i \in 1 .. n + 1 |-> IF i <= n THEN B[i] ELSE u \o sep]
    <3> DEFINE us == u \o sep
    <3>1. us \in Seq(Int)
      OBVIOUS
    <3> HIDE DEF us, B
    <3>2. Append(B, us) = [i \in 1 .. n + 1 |-> IF i <= n THEN B[i] ELSE us]
      <4>1. B \in Seq(Seq(Int)) /\ n = Len(B)
        BY <1>2
      <4> HIDE DEF n
      <4>2. QED
        BY <3>1, <4>1, AppendIs
    <3>3. QED
      BY <3>2 DEF us
  <2> HIDE DEF B, C, D
  <2>3. ASSUME NEW i \in 1 .. n + 1
        PROVE  more[i] \o sep = IF i <= n THEN B[i] ELSE u \o sep
    <3>1. CASE i <= n
      <4>1. i \in 1 .. n
        BY <1>1, <3>1
      <4>2. QED
        BY <1>1, <1>2, <3>1, <4>1
    <3>2. CASE ~(i <= n)
      <4>1. i = n + 1
        BY <1>1, <3>2
      <4>2. QED
        BY <1>1, <3>2, <4>1
    <3>3. QED
      BY <3>1, <3>2
  <2>4. QED
    BY <2>1, <2>2, <2>3
<1>4. J = K
  <2>1. J = [i \in 1 .. n + 1 |-> IF i = n + 1 THEN more[i] ELSE more[i] \o sep]
    BY <1>1
  <2>2. K = [i \in 1 .. n + 1 |-> IF i <= n THEN B[i] ELSE u]
    <3> HIDE DEF B
    <3>1. B \in Seq(Seq(Int)) /\ n = Len(B)
      BY <1>2
    <3> HIDE DEF n
    <3>2. QED
      BY <3>1, AppendIs
  <2> HIDE DEF B, J, K
  <2>3. ASSUME NEW i \in 1 .. n + 1
        PROVE  (IF i = n + 1 THEN more[i] ELSE more[i] \o sep) = IF i <= n THEN B[i] ELSE u
    <3>1. CASE i <= n
      <4>1. i \in 1 .. n /\ i # n + 1
        BY <1>1, <3>1
      <4>2. QED
        BY <1>1, <1>2, <3>1, <4>1
    <3>2. CASE ~(i <= n)
      <4>1. i = n + 1
        BY <1>1, <3>2
      <4>2. QED
        BY <1>1, <3>2, <4>1
    <3>3. QED
      BY <3>1, <3>2
  <2>4. QED
    BY <2>1, <2>2, <2>3
<1>5. sdsjoinsds(more, sep) = FlattenSeq(J)
  BY DEF sdsjoinsds
<1> HIDE DEF J, C
<1>6. FlattenSeq(K) = FlattenSeq(B) \o u
  <2> HIDE DEF B
  <2>1. QED
    BY <1>2, FlattenAppend
<1>7. QED
  BY <1>2, <1>3, <1>4, <1>5, <1>6 DEF more, C

(* What the scan has found after n turns: pieces that make the text with a *)
(* separator behind each, free of it, with a slot for each and one more.   *)
Scanned(t, sep, n, x) ==
  /\ x.j \in Nat /\ x.start \in Nat /\ 1 <= x.start /\ x.start <= x.j /\ x.j <= Len(t) + 1
  /\ x.tokens \in Seq(Seq(Int)) /\ x.slots \in Nat /\ Len(x.tokens) + 1 <= x.slots
  /\ FlattenSeq(Behind(x.tokens, sep)) = SubSeq(t, 1, x.start - 1)
  /\ \A i \in 1 .. Len(x.tokens) : ~Within(sep, x.tokens[i])
  /\ Free(t, sep, x.start, x.j - 1)
  /\ x.j > n \/ x.j > Len(t) - (Len(sep) - 1)

(* One turn more. *)
LEMMA ScanTurn ==
  ASSUME NEW t, t \in Seq(Int), NEW sep, sep \in Seq(Int), sep # <<>>, NEW n \in Nat,
         NEW x, Scanned(t, sep, n, x), NEW y, y = Scan(t, sep, x)
  PROVE  Scanned(t, sep, n + 1, y)
<1> DEFINE k == Len(sep)
           L == Len(t)
           j == x.j
           a == x.start
           T == x.tokens
           room == IF x.slots < Len(T) + 2 THEN 2 * x.slots ELSE x.slots
<1>0. /\ T \in Seq(Seq(Int)) /\ x.slots \in Nat /\ Len(T) + 1 <= x.slots
      /\ FlattenSeq(Behind(T, sep)) = SubSeq(t, 1, a - 1)
      /\ \A i \in 1 .. Len(T) : ~Within(sep, T[i])
      /\ Free(t, sep, a, j - 1)
  BY DEF Scanned
<1>1. /\ j \in Nat /\ a \in Nat /\ 1 <= a /\ a <= j /\ j <= L + 1
      /\ j > n \/ j > L - (k - 1)
  BY DEF Scanned
<1>2. k \in Nat /\ k >= 1 /\ L \in Nat /\ Len(T) \in Nat
  <2>1. k \in Nat /\ k # 0 /\ L \in Nat
    OBVIOUS
  <2>2. Len(T) \in Nat
    BY <1>0
  <2>3. QED
    BY <2>1, <2>2
<1>3. room \in Nat /\ Len(T) + 2 <= room
  <2>1. CASE x.slots < Len(T) + 2
    <3>1. room = 2 * x.slots
      BY <2>1
    <3>2. QED
      BY <1>0, <1>2, <3>1
  <2>2. CASE ~(x.slots < Len(T) + 2)
    <3>1. room = x.slots
      BY <2>2
    <3>2. QED
      BY <1>0, <1>2, <2>2, <3>1
  <2>3. QED
    BY <2>1, <2>2
<1> HIDE DEF j, a, T, k, L
<1>4. CASE j > L - (k - 1)
  <2>1. y = x
    BY <1>4 DEF Scan, j, k, L
  <2>2. QED
    BY <1>0, <1>1, <1>4, <2>1 DEF Scanned, j, a, T, k, L
<1>5. CASE ~(j > L - (k - 1)) /\ SubSeq(t, j, j + k - 1) = sep
  <2> DEFINE u == SubSeq(t, a, j - 1)
  <2>1. y = [j |-> j + k, start |-> j + k, tokens |-> Append(T, u), slots |-> room]
    BY <1>5 DEF Scan, j, a, T, k, L
  <2>2. j + k \in Nat /\ j + k <= L + 1 /\ j - 1 \in Nat /\ a - 1 \in Nat /\ j - 1 <= L /\ a <= (j - 1) + 1
    BY <1>1, <1>2, <1>5
  <2>3. u \in Seq(Int)
    BY <1>1, <2>2, PieceOf DEF L
  <2>4. ~Within(sep, u)
    <3>1. Free(t, sep, a, (j - 1) + 1 - k)
      <4>1. \A q \in a .. (j - 1) + 1 - k : q \in a .. j - 1
        BY <1>1, <1>2
      <4>2. QED
        BY <1>0, <4>1 DEF Free
    <3>2. QED
      BY <1>1, <2>2, <3>1, FreePiece DEF k, L
  <2>5. FlattenSeq(Behind(Append(T, u), sep)) = SubSeq(t, 1, (j + k) - 1)
    <3> HIDE DEF u
    <3>1. /\ Behind(T, sep) \in Seq(Seq(Int))
          /\ Behind(Append(T, u), sep) = Append(Behind(T, sep), u \o sep)
      BY <1>0, <2>3, JoinedBehind
    <3>2. u \o sep \in Seq(Int)
      BY <2>3
    <3>3. FlattenSeq(Append(Behind(T, sep), u \o sep)) = FlattenSeq(Behind(T, sep)) \o (u \o sep)
      <4> DEFINE us == u \o sep
      <4> HIDE DEF us
      <4>1. us \in Seq(Int)
        BY <3>2 DEF us
      <4>2. FlattenSeq(Append(Behind(T, sep), us)) = FlattenSeq(Behind(T, sep)) \o us
        BY <3>1, <4>1, FlattenAppend
      <4>3. QED
        BY <4>2 DEF us
    <3> DEFINE A == SubSeq(t, 1, a - 1)
               Q == SubSeq(t, 1, j - 1)
    <3>4. A \in Seq(Int) /\ Q \in Seq(Int)
      <4>1. a - 1 <= L
        BY <1>1, <1>2, <2>2
      <4>2. QED
        BY <2>2, <4>1, PrefixOf DEF L
    <3>5. A \o u = Q
      <4>1. (a - 1) + 1 = a /\ a - 1 <= j - 1
        BY <1>1
      <4>2. SubSeq(t, 1, a - 1) \o SubSeq(t, (a - 1) + 1, j - 1) = SubSeq(t, 1, j - 1)
        BY <2>2, <4>1, PiecesMeet DEF L
      <4>3. QED
        BY <4>1, <4>2 DEF u
    <3>6. Q \o sep = SubSeq(t, 1, (j + k) - 1)
      <4>1. /\ (j - 1) + 1 = j /\ j - 1 <= j + k - 1 /\ j + k - 1 \in Nat /\ j + k - 1 <= L
            /\ (j + k) - 1 = j + k - 1
        BY <1>1, <1>2, <2>2
      <4>2. SubSeq(t, 1, j - 1) \o SubSeq(t, (j - 1) + 1, j + k - 1) = SubSeq(t, 1, j + k - 1)
        BY <2>2, <4>1, PiecesMeet DEF L
      <4>3. QED
        BY <1>5, <4>1, <4>2
    <3> HIDE DEF A, Q
    <3>7. A \o (u \o sep) = (A \o u) \o sep
      <4>1. u \in Seq(Int) /\ A \in Seq(Int)
        BY <2>3, <3>4
      <4>2. Associates(A, u, sep)
        BY <4>1, ConcatAssociates, Zenon
      <4>3. QED
        BY <4>2 DEF Associates
    <3>8. FlattenSeq(Behind(T, sep)) = A
      BY <1>0 DEF A
    <3>9. QED
      BY <3>1, <3>3, <3>5, <3>6, <3>7, <3>8
  <2> HIDE DEF u, room
  <2>6. y.j = j + k /\ y.start = j + k /\ y.tokens = Append(T, u) /\ y.slots = room
    BY <2>1
  <2> DEFINE U == Append(T, u)
  <2>7. /\ U \in Seq(Seq(Int)) /\ Len(U) = Len(T) + 1 /\ U[Len(T) + 1] = u
        /\ \A i \in 1 .. Len(T) : U[i] = T[i]
    BY <1>0, <2>3
  <2> HIDE DEF U
  <2>8. ASSUME NEW i \in 1 .. Len(U)
        PROVE  ~Within(sep, U[i])
    <3>1. CASE i = Len(T) + 1
      BY <2>4, <2>7, <3>1
    <3>2. CASE i # Len(T) + 1
      <4>1. i \in 1 .. Len(T)
        BY <1>2, <2>7, <3>2
      <4>2. QED
        BY <1>0, <2>7, <4>1
    <3>3. QED
      BY <3>1, <3>2
  <2>9. Free(t, sep, j + k, (j + k) - 1)
    <3>1. (j + k) .. (j + k) - 1 = {}
      BY <1>1, <1>2
    <3>2. QED
      BY <3>1 DEF Free
  <2>10. j + k > n + 1
    BY <1>1, <1>2, <1>5
  <2>11. y.tokens = U /\ Len(U) + 1 <= room
    BY <1>2, <1>3, <2>6, <2>7 DEF U
  <2>12. FlattenSeq(Behind(U, sep)) = SubSeq(t, 1, (j + k) - 1)
    BY <2>5 DEF U
  <2>13. 1 <= j + k
    BY <1>1, <1>2
  <2>14. QED
    <3>1. /\ y.j \in Nat /\ y.start \in Nat /\ 1 <= y.start /\ y.start <= y.j /\ y.j <= L + 1
          /\ y.j > n + 1 \/ y.j > L - (k - 1)
      BY <2>2, <2>6, <2>10, <2>13
    <3>2. /\ y.tokens \in Seq(Seq(Int)) /\ y.slots \in Nat /\ Len(y.tokens) + 1 <= y.slots
          /\ \A i \in 1 .. Len(y.tokens) : ~Within(sep, y.tokens[i])
      BY <1>3, <2>6, <2>7, <2>8, <2>11
    <3>3. /\ FlattenSeq(Behind(y.tokens, sep)) = SubSeq(t, 1, y.start - 1)
          /\ Free(t, sep, y.start, y.j - 1)
      BY <2>6, <2>9, <2>11, <2>12
    <3>4. QED
      BY <3>1, <3>2, <3>3 DEF Scanned, k, L
<1>6. CASE ~(j > L - (k - 1)) /\ SubSeq(t, j, j + k - 1) # sep
  <2>1. y = [j |-> j + 1, start |-> a, tokens |-> T, slots |-> room]
    BY <1>6 DEF Scan, j, a, T, k, L
  <2> HIDE DEF room
  <2>2. y.j = j + 1 /\ y.start = a /\ y.tokens = T /\ y.slots = room
    BY <2>1
  <2>3. Free(t, sep, a, (j + 1) - 1)
    <3>1. \A q \in a .. (j + 1) - 1 : q \in a .. j - 1 \/ q = j
      BY <1>1
    <3>2. QED
      BY <1>0, <1>6, <3>1 DEF Free, k
  <2>4. j + 1 \in Nat /\ a <= j + 1 /\ j + 1 <= L + 1 /\ (j + 1 > n + 1 \/ j + 1 > L - (k - 1))
    BY <1>1, <1>2, <1>6
  <2>5. Len(T) + 1 <= room
    BY <1>2, <1>3
  <2>6. QED
    <3>1. /\ y.j \in Nat /\ y.start \in Nat /\ 1 <= y.start /\ y.start <= y.j /\ y.j <= L + 1
          /\ y.j > n + 1 \/ y.j > L - (k - 1)
      BY <1>1, <2>2, <2>4
    <3>2. QED
      BY <1>0, <1>3, <2>2, <2>3, <2>5, <3>1 DEF Scanned, k, L
<1>7. QED
  BY <1>4, <1>5, <1>6

(* sdssplitlen (sds.c:795), and what sdsjoinsds (sds.c:1080) makes of it. *)
LEMMA SplitSound ==
  ASSUME NEW t, t \in Seq(Int), t # <<>>, NEW sep, sep \in Seq(Int), sep # <<>>,
         NEW split, split = sdssplitlen(t, sep)
  PROVE  /\ sdsjoinsds(split.tokens, sep) = t
         /\ \A i \in DOMAIN split.tokens : ~Within(sep, split.tokens[i])
         /\ Len(split.tokens) <= split.slots
<1> DEFINE L == Len(t)
           start == [j |-> 1, start |-> 1, tokens |-> <<>>, slots |-> Slots]
           Sol(f) == f = [n \in 0 .. L |-> IF n = 0 THEN start ELSE Scan(t, sep, f[n - 1])]
           f == CHOOSE f : Sol(f)
           end == f[L]
           u == SubSeq(t, end.start, L)
<1>1. L \in Nat /\ Len(sep) \in Nat /\ Len(sep) >= 1
  <2>1. L \in Nat /\ Len(sep) \in Nat /\ Len(sep) # 0
    OBVIOUS
  <2>2. QED
    BY <2>1
<1>2. \E g : Sol(g)
  <2>1. PICK g : Loops("scan", t, sep, start, L, g)
    BY <1>1, LoopExists
  <2>2. \A x, n : Turned("scan", t, sep, x, n) = Scan(t, sep, x)
    BY DEF Turned
  <2> HIDE DEF start
  <2>3. Sol(g)
    BY <2>1, <2>2 DEF Loops
  <2>4. QED
    BY <2>3
<1>3. Sol(f)
  BY <1>2, Zenon
<1>4. split = [tokens |-> Append(end.tokens, u), slots |-> end.slots]
  BY DEF sdssplitlen
<1> HIDE DEF f, start
<1>5. \A n \in 0 .. L : f[n] = IF n = 0 THEN start ELSE Scan(t, sep, f[n - 1])
  BY <1>3
<1> DEFINE S == {n \in Nat : n <= L => Scanned(t, sep, n, f[n])}
<1>6. 0 \in S
  <2>1. f[0] = start
    BY <1>1, <1>5
  <2>2. start.j = 1 /\ start.start = 1 /\ start.tokens = <<>> /\ start.slots = Slots
    BY DEF start
  <2>3. FlattenSeq(Behind(<<>>, sep)) = SubSeq(t, 1, 1 - 1)
    <3>1. Behind(<<>>, sep) = <<>>
      BY DEF Behind
    <3>2. FlattenSeq(<<>>) = <<>>
      BY DEF FlattenSeq
    <3>3. SubSeq(t, 1, 1 - 1) = <<>>
      OBVIOUS
    <3>4. QED
      BY <3>1, <3>2, <3>3
  <2>4. Free(t, sep, 1, 1 - 1)
    BY DEF Free
  <2>5. Slots \in Nat /\ Len(<<>>) + 1 <= Slots /\ <<>> \in Seq(Seq(Int)) /\ 1 <= L + 1
    BY <1>1, AlphabetAssumption
  <2>6. \A i \in 1 .. Len(<<>>) : ~Within(sep, <<>>[i])
    OBVIOUS
  <2>7. Scanned(t, sep, 0, start)
    BY <2>2, <2>3, <2>4, <2>5, <2>6 DEF Scanned
  <2>8. QED
    BY <2>1, <2>7
<1>7. ASSUME NEW n \in Nat, n \in S
      PROVE  n + 1 \in S
  <2>1. SUFFICES ASSUME n + 1 <= L
                 PROVE  Scanned(t, sep, n + 1, f[n + 1])
    OBVIOUS
  <2>2. f[n + 1] = Scan(t, sep, f[n]) /\ Scanned(t, sep, n, f[n])
    BY <1>1, <1>5, <1>7, <2>1
  <2>3. QED
    BY <2>2, ScanTurn
<1>8. Scanned(t, sep, L, end)
  <2> HIDE DEF S
  <2>1. L \in S
    BY <1>1, <1>6, <1>7, SetInduction
  <2>2. QED
    BY <1>1, <2>1 DEF S
<1> HIDE DEF end
<1> DEFINE T == end.tokens
           a == end.start
<1>9. /\ a \in Nat /\ 1 <= a /\ a <= L + 1 /\ T \in Seq(Seq(Int)) /\ Len(T) + 1 <= end.slots
      /\ FlattenSeq(Behind(T, sep)) = SubSeq(t, 1, a - 1)
      /\ \A i \in 1 .. Len(T) : ~Within(sep, T[i])
      /\ Free(t, sep, a, L + 1 - Len(sep))
  <2>1. /\ end.j \in Nat /\ a \in Nat /\ 1 <= a /\ a <= end.j /\ end.j <= L + 1
        /\ T \in Seq(Seq(Int)) /\ Len(T) + 1 <= end.slots
        /\ FlattenSeq(Behind(T, sep)) = SubSeq(t, 1, a - 1)
        /\ \A i \in 1 .. Len(T) : ~Within(sep, T[i])
        /\ Free(t, sep, a, end.j - 1)
        /\ end.j > L \/ end.j > L - (Len(sep) - 1)
    BY <1>8 DEF Scanned
  <2>2. \A q \in a .. L + 1 - Len(sep) : q \in a .. end.j - 1
    <3>1. L \in Int /\ Len(sep) \in Nat /\ Len(sep) >= 1
      BY <1>1
    <3>2. a \in Int /\ end.j \in Int /\ (end.j > L \/ end.j > L - (Len(sep) - 1))
      BY <2>1
    <3>3. L + 1 - Len(sep) <= end.j - 1
      BY <3>1, <3>2
    <3>4. QED
      BY <3>1, <3>2, <3>3
  <2>3. Free(t, sep, a, L + 1 - Len(sep))
    BY <2>1, <2>2 DEF Free
  <2>4. a <= L + 1
    <3>1. a \in Nat /\ a <= end.j /\ end.j \in Nat /\ end.j <= L + 1
      BY <2>1, Zenon
    <3>2. L \in Int
      BY <1>1
    <3>3. QED
      BY <3>1, <3>2
  <2>5. QED
    BY <2>1, <2>3, <2>4, Zenon
<1>10. u \in Seq(Int) /\ ~Within(sep, u)
  <2>1. L \in Int /\ L <= Len(t) /\ a >= 1 /\ a <= L + 1
    <3>1. a \in Nat /\ 1 <= a /\ a <= L + 1
      BY <1>9, Zenon
    <3>2. QED
      BY <1>1, <3>1
  <2>2. u \in Seq(Int)
    BY <1>9, <2>1, PieceOf
  <2>3. ~Within(sep, u)
    BY <1>9, <2>1, FreePiece
  <2>4. QED
    BY <2>2, <2>3
<1>11. SubSeq(t, 1, a - 1) \o u = t
  <2>1. a - 1 \in Nat /\ a - 1 <= L /\ (a - 1) + 1 = a
    <3>1. a \in Nat /\ 1 <= a /\ a <= L + 1
      BY <1>9, Zenon
    <3>2. L \in Nat
      BY <1>1
    <3>3. QED
      BY <3>1, <3>2
  <2> DEFINE b == a - 1
  <2> HIDE DEF b
  <2>2. SubSeq(t, 1, b) \o SubSeq(t, b + 1, L) = SubSeq(t, 1, L)
    <3>1. b \in Nat /\ b <= L
      BY <2>1 DEF b
    <3>2. L <= Len(t)
      BY <1>1
    <3> HIDE DEF L
    <3>3. QED
      BY <1>1, <3>1, <3>2, PiecesMeet
  <2>3. SubSeq(t, 1, L) = t
    OBVIOUS
  <2>4. QED
    BY <2>1, <2>2, <2>3 DEF b
<1> HIDE DEF u
<1> DEFINE U == Append(T, u)
<1>12. sdsjoinsds(U, sep) = t
  <2>1. sdsjoinsds(U, sep) = FlattenSeq(Behind(T, sep)) \o u
    BY <1>9, <1>10, JoinedBehind
  <2>2. QED
    BY <1>9, <1>11, <2>1
<1>13. /\ DOMAIN U = 1 .. Len(T) + 1 /\ Len(U) = Len(T) + 1 /\ U[Len(T) + 1] = u
       /\ \A i \in 1 .. Len(T) : U[i] = T[i]
  BY <1>9, <1>10
<1> HIDE DEF U
<1>14. ASSUME NEW i \in DOMAIN U
       PROVE  ~Within(sep, U[i])
  <2>1. CASE i = Len(T) + 1
    BY <1>10, <1>13, <2>1
  <2>2. CASE i # Len(T) + 1
    <3>1. Len(T) \in Nat
      BY <1>9
    <3>2. i \in 1 .. Len(T)
      <4>1. i \in 1 .. Len(T) + 1
        BY <1>13
      <4>2. QED
        BY <2>2, <3>1, <4>1
    <3>3. QED
      BY <1>9, <1>13, <3>2
  <2>3. QED
    BY <2>1, <2>2
<1>15. split.tokens = U /\ split.slots = end.slots
  BY <1>4 DEF U
<1>16. QED
  BY <1>9, <1>12, <1>13, <1>14, <1>15

(* Splitting and joining, at the separators of the property. *)
LEMMA SplitsSound ==
  ASSUME line \in Seq(Int)
  PROVE  SplitJoins
<1>1. SUFFICES ASSUME NEW sep \in Separators
               PROVE  LET split == sdssplitlen(line, sep)
                      IN  /\ sdsjoinsds(split.tokens, sep) = line
                          /\ \A i \in DOMAIN split.tokens : ~Within(sep, split.tokens[i])
                          /\ Len(split.tokens) <= split.slots
  BY DEF SplitJoins
<1>2. PICK n \in {1, 2} : \E j \in 1 .. Len(line) - n + 1 : sep = SubSeq(line, j, j + n - 1)
  BY <1>1 DEF Separators
<1>3. PICK j \in 1 .. Len(line) - n + 1 : sep = SubSeq(line, j, j + n - 1)
  BY <1>2
<1>4. Len(line) \in Nat /\ n \in 1 .. Len(line) /\ j \in 1 .. Len(line) /\ j + n - 1 \in j .. Len(line)
  BY <1>2, <1>3
<1>5. line # <<>>
  BY <1>4
<1>6. sep \in Seq(Int) /\ Len(sep) = n
  BY <1>3, <1>4
<1>7. sep # <<>>
  BY <1>4, <1>6
<1>8. QED
  BY <1>5, <1>6, <1>7, SplitSound

----------------------------------------------------------------------------
(* Numbers. *)

(* v divided by ten, left[n] after n turns, of which the m-th is the first *)
(* that leaves nothing.                                                    *)
Divided(v, m, left) ==
  /\ m \in Nat \ {0} /\ left[0] = v /\ left[m] = 0
  /\ \A n \in 0 .. m : left[n] \in Nat
  /\ \A n \in 1 .. m : left[n] = left[n - 1] \div 10
  /\ \A n \in 1 .. m - 1 : left[n] # 0

(* The digits are the remainders. *)
LEMMA DigitsDivide ==
  ASSUME NEW v \in Nat
  PROVE  \E m, left : /\ Divided(v, m, left)
                      /\ Digits(v) = [k \in 1 .. m |-> 48 + (left[k - 1] % 10)]
<1> DEFINE Sol(f) == f = [n \in 0 .. v + 1 |-> IF n = 0 THEN v ELSE f[n - 1] \div 10]
           f == CHOOSE f : Sol(f)
           LastTurn(n) == f[n] = 0 /\ \A k \in 1 .. n - 1 : f[k] # 0
           m == CHOOSE n \in 1 .. v + 1 : LastTurn(n)
<1>1. \E g : Sol(g)
  <2>1. PICK g : Loops("digits", v, v, v, v + 1, g)
    BY LoopExists
  <2>2. \A x, n : Turned("digits", v, v, x, n) = x \div 10
    BY DEF Turned
  <2>3. Sol(g)
    BY <2>1, <2>2 DEF Loops
  <2>4. QED
    BY <2>3
<1>2. Sol(f)
  BY <1>1, Zenon
<1>3. Digits(v) = [k \in 1 .. m |-> 48 + (f[k - 1] % 10)]
  BY DEF Digits
<1> HIDE DEF f
<1>4. \A n \in 0 .. v + 1 : f[n] = IF n = 0 THEN v ELSE f[n - 1] \div 10
  BY <1>2
<1> DEFINE S == {n \in Nat : n <= v + 1 => f[n] \in Nat /\ (f[n] = 0 \/ f[n] + n <= v)}
<1>5. \A n \in Nat : n <= v + 1 => f[n] \in Nat /\ (f[n] = 0 \/ f[n] + n <= v)
  <2>1. 0 \in S
    BY <1>4
  <2>2. ASSUME NEW n \in Nat, n \in S
        PROVE  n + 1 \in S
    <3>1. SUFFICES ASSUME n + 1 <= v + 1
                   PROVE  f[n + 1] \in Nat /\ (f[n + 1] = 0 \/ f[n + 1] + (n + 1) <= v)
      OBVIOUS
    <3>2. f[n + 1] = f[n] \div 10 /\ f[n] \in Nat /\ (f[n] = 0 \/ f[n] + n <= v)
      BY <1>4, <2>2, <3>1
    <3>3. QED
      BY <3>2
  <2>3. Nat \subseteq S
    <3> HIDE DEF S
    <3>1. QED
      BY <2>1, <2>2, SetInduction
  <2>4. QED
    BY <2>3
<1>6. f[v + 1] = 0
  BY <1>5
<1> DEFINE T == {n \in Nat : n \in 1 .. v + 1 /\ f[n] = 0}
<1>7. PICK n \in T : \A k \in T : n <= k
  <2>1. T \in SUBSET Nat /\ T # {}
    BY <1>6
  <2> HIDE DEF T
  <2>2. QED
    BY <2>1, LeastNatural
<1>8. n \in 1 .. v + 1 /\ LastTurn(n)
  <2>1. n \in 1 .. v + 1 /\ f[n] = 0
    BY <1>7
  <2>2. ASSUME NEW k \in 1 .. n - 1, f[k] = 0
        PROVE  FALSE
    <3>1. k \in T /\ ~(n <= k)
      BY <2>1, <2>2
    <3>2. QED
      BY <1>7, <3>1
  <2>3. QED
    BY <2>1, <2>2
<1>9. m \in 1 .. v + 1 /\ LastTurn(m)
  <2> HIDE DEF LastTurn
  <2>1. QED
    BY <1>8, Zenon
<1> HIDE DEF m
<1>10. Divided(v, m, f)
  <2>1. m \in Nat \ {0} /\ f[0] = v /\ f[m] = 0 /\ \A k \in 1 .. m - 1 : f[k] # 0
    BY <1>4, <1>9
  <2>2. ASSUME NEW k \in 0 .. m
        PROVE  f[k] \in Nat
    BY <1>5, <1>9
  <2>3. ASSUME NEW k \in 1 .. m
        PROVE  f[k] = f[k - 1] \div 10
    <3>1. k \in 0 .. v + 1 /\ k # 0
      BY <1>9
    <3>2. QED
      BY <1>4, <3>1
  <2>4. QED
    BY <2>1, <2>2, <2>3 DEF Divided
<1>11. QED
  BY <1>3, <1>10

(* d is v in decimal. *)
Decimal(v, d) ==
  \E m, left : /\ Divided(v, m, left) /\ d \in Seq(Int) /\ Len(d) = m
               /\ \A i \in 1 .. m : d[i] = 48 + (left[m - i] % 10)

(* So are the digits, the last one first. *)
LEMMA DigitsDecimal ==
  ASSUME NEW v \in Nat
  PROVE  /\ Digits(v) \in Seq(Int) /\ Len(Digits(v)) \in Nat \ {0}
         /\ Digits(v)[Len(Digits(v))] # 45
         /\ \A d : /\ d \in Seq(Int) /\ Len(d) = Len(Digits(v))
                   /\ \A i \in 1 .. Len(d) : d[i] = Digits(v)[Len(d) + 1 - i]
                   => Decimal(v, d)
<1>1. PICK m, left : /\ Divided(v, m, left)
                     /\ Digits(v) = [k \in 1 .. m |-> 48 + (left[k - 1] % 10)]
  BY DigitsDivide
<1>2. m \in Nat \ {0} /\ \A n \in 0 .. m : left[n] \in Nat
  BY <1>1 DEF Divided
<1>3. \A k \in 1 .. m : left[k - 1] \in Nat /\ left[k - 1] % 10 \in 0 .. 9
  <2>1. ASSUME NEW k \in 1 .. m
        PROVE  left[k - 1] \in Nat /\ left[k - 1] % 10 \in 0 .. 9
    <3>1. k - 1 \in 0 .. m
      BY <1>2
    <3>2. left[k - 1] \in Nat
      BY <1>2, <3>1
    <3>3. QED
      BY <3>2
  <2>2. QED
    BY <2>1
<1> DEFINE D == Digits(v)
<1>4. D \in Seq(Int) /\ Len(D) = m /\ \A k \in 1 .. m : D[k] = 48 + (left[k - 1] % 10)
  BY <1>1, <1>2, <1>3
<1> HIDE DEF D
<1>5. D[m] # 45
  <2>1. m \in 1 .. m
    BY <1>2
  <2>2. left[m - 1] % 10 \in 0 .. 9 /\ D[m] = 48 + (left[m - 1] % 10)
    BY <1>3, <1>4, <2>1
  <2>3. QED
    BY <2>2
<1>6. ASSUME NEW d, d \in Seq(Int), Len(d) = Len(D), \A i \in 1 .. Len(d) : d[i] = D[Len(d) + 1 - i]
      PROVE  Decimal(v, d)
  <2>1. Len(d) = m
    BY <1>4, <1>6
  <2>2. ASSUME NEW i \in 1 .. m
        PROVE  d[i] = 48 + (left[m - i] % 10)
    <3>1. m + 1 - i \in 1 .. m /\ (m + 1 - i) - 1 = m - i
      BY <1>2
    <3>2. d[i] = D[m + 1 - i]
      BY <1>6, <2>1
    <3>3. D[m + 1 - i] = 48 + (left[(m + 1 - i) - 1] % 10)
      BY <1>4, <3>1
    <3>4. QED
      BY <3>1, <3>2, <3>3
  <2>3. QED
    BY <1>1, <1>6, <2>1, <2>2 DEF Decimal
<1>7. QED
  BY <1>2, <1>4, <1>5, <1>6 DEF D

(* What decimal digits are worth. *)
LEMMA DecimalWorth ==
  ASSUME NEW v \in Nat, NEW d, Decimal(v, d)
  PROVE  /\ DOMAIN d = 1 .. Len(d) /\ Len(d) \in Nat
         /\ \A i \in 1 .. Len(d) : d[i] \in 48 .. 57
         /\ Len(d) > 1 => d[1] # 48
         /\ \A g : (\A n \in 0 .. Len(d) : g[n] = IF n = 0 THEN 0 ELSE 10 * g[n - 1] + d[n] - 48)
                   => g[Len(d)] = v
<1>1. PICK m, left : /\ Divided(v, m, left) /\ d \in Seq(Int) /\ Len(d) = m
                     /\ \A i \in 1 .. m : d[i] = 48 + (left[m - i] % 10)
  BY DEF Decimal
<1>2. /\ m \in Nat \ {0} /\ left[0] = v /\ left[m] = 0
      /\ \A n \in 0 .. m : left[n] \in Nat
      /\ \A n \in 1 .. m : left[n] = left[n - 1] \div 10
      /\ \A n \in 1 .. m - 1 : left[n] # 0
  BY <1>1 DEF Divided
<1>3. DOMAIN d = 1 .. m
  BY <1>1
<1>4. ASSUME NEW i \in 1 .. m
      PROVE  /\ left[m - i] \in Nat /\ left[m - i] % 10 \in 0 .. 9
             /\ left[m - (i - 1)] = left[m - i] \div 10
  <2>1. m - i \in 0 .. m /\ m - (i - 1) \in 1 .. m /\ (m - (i - 1)) - 1 = m - i
    BY <1>2
  <2>2. left[m - i] \in Nat
    BY <1>2, <2>1
  <2>3. left[m - (i - 1)] = left[(m - (i - 1)) - 1] \div 10
    BY <1>2, <2>1
  <2>4. QED
    BY <2>1, <2>2, <2>3
<1>5. \A i \in 1 .. m : d[i] \in 48 .. 57
  <2>1. ASSUME NEW i \in 1 .. m
        PROVE  d[i] \in 48 .. 57
    <3>1. d[i] = 48 + (left[m - i] % 10) /\ left[m - i] % 10 \in 0 .. 9
      BY <1>1, <1>4
    <3>2. QED
      BY <3>1
  <2>2. QED
    BY <2>1
<1>6. ASSUME m > 1
      PROVE  d[1] # 48
  <2>1. 1 \in 1 .. m /\ m - 1 \in 1 .. m - 1 /\ m - (1 - 1) = m
    BY <1>2, <1>6
  <2>2. left[m - 1] # 0 /\ left[m - 1] \in Nat /\ left[m] = left[m - 1] \div 10
    BY <1>2, <1>4, <2>1
  <2>3. left[m - 1] % 10 # 0
    BY <1>2, <2>2
  <2>4. d[1] = 48 + (left[m - 1] % 10)
    BY <1>1, <2>1
  <2>5. left[m - 1] % 10 \in 0 .. 9
    BY <1>4, <2>1
  <2>6. QED
    BY <2>3, <2>4, <2>5
<1>7. ASSUME NEW g, \A n \in 0 .. m : g[n] = IF n = 0 THEN 0 ELSE 10 * g[n - 1] + d[n] - 48
      PROVE  g[m] = v
  <2> DEFINE S == {n \in Nat : n <= m => g[n] = left[m - n]}
  <2>1. 0 \in S
    BY <1>2, <1>7
  <2>2. ASSUME NEW n \in Nat, n \in S
        PROVE  n + 1 \in S
    <3>1. SUFFICES ASSUME n + 1 <= m
                   PROVE  g[n + 1] = left[m - (n + 1)]
      OBVIOUS
    <3>2. n + 1 \in 1 .. m /\ n + 1 \in 0 .. m /\ n + 1 # 0 /\ (n + 1) - 1 = n
      BY <1>2, <3>1
    <3>3. g[n + 1] = 10 * g[n] + d[n + 1] - 48
      BY <1>7, <3>2
    <3>4. g[n] = left[m - n]
      BY <1>2, <2>2, <3>1
    <3> DEFINE x == left[m - (n + 1)]
    <3>5. d[n + 1] = 48 + (x % 10)
      BY <1>1, <3>2
    <3>6. x \in Nat /\ left[m - n] = x \div 10
      BY <1>4, <3>2
    <3> HIDE DEF x
    <3>7. g[n + 1] = 10 * (x \div 10) + (48 + (x % 10)) - 48
      BY <3>3, <3>4, <3>5, <3>6
    <3>8. 10 * (x \div 10) + (48 + (x % 10)) - 48 = x
      BY <3>6
    <3>9. QED
      BY <3>7, <3>8 DEF x
  <2>3. m \in S
    <3> HIDE DEF S
    <3>1. QED
      BY <1>2, <2>1, <2>2, SetInduction
  <2>4. m - m = 0
    BY <1>2
  <2>5. QED
    BY <1>2, <2>3, <2>4
<1>8. QED
  BY <1>1, <1>2, <1>3, <1>5, <1>6, <1>7

(* A number without its sign. *)
Unsigned(t) == IF t[1] = 45 THEN Tail(t) ELSE t

(* t says value, and digits are its digits. *)
Written(value, t, digits) ==
  /\ t[1] = 45 <=> value < 0
  /\ Decimal(IF value < 0 THEN -value ELSE value, digits)

(* sdsll2str (sds.c:429) writes a number in decimal. *)
LEMMA NumberWritten ==
  ASSUME NEW value \in -Half .. Half - 1
  PROVE  Written(value, sdsll2str(value), Unsigned(sdsll2str(value)))
<1> DEFINE t == sdsll2str(value)
           digits == Unsigned(t)
           v == IF value < 0 THEN (-value) % (2 * Half) ELSE value
           D == Digits(v)
           L == Len(D)
           sign == IF value < 0 THEN <<45>> ELSE <<>>
<1>0. digits = IF t[1] = 45 THEN Tail(t) ELSE t
  BY DEF Unsigned
<1>1. value \in Int /\ Half \in Nat /\ -Half <= value /\ value < Half
  BY AlphabetAssumption
<1>2. v \in Nat /\ v = IF value < 0 THEN -value ELSE value
  <2>1. CASE value < 0
    <3>1. -value \in Nat /\ -value < 2 * Half /\ 2 * Half \in Nat
      BY <1>1, <2>1
    <3>2. (-value) % (2 * Half) = -value
      BY <3>1
    <3>3. QED
      BY <2>1, <3>1, <3>2
  <2>2. CASE ~(value < 0)
    BY <1>1, <2>2
  <2>3. QED
    BY <2>1, <2>2
<1>3. t = Reverse(D \o sign)
  BY DEF sdsll2str
<1> HIDE DEF v, t, digits
<1>4. /\ D \in Seq(Int) /\ L \in Nat \ {0} /\ D[L] # 45
      /\ \A d : /\ d \in Seq(Int) /\ Len(d) = L
                /\ \A i \in 1 .. Len(d) : d[i] = D[Len(d) + 1 - i]
                => Decimal(v, d)
  BY <1>2, DigitsDecimal
<1> HIDE DEF D
<1>5. ASSUME value < 0
      PROVE  Written(value, t, digits)
  <2> DEFINE r == D \o <<45>>
  <2>1. r \in Seq(Int) /\ Len(r) = L + 1 /\ r[L + 1] = 45 /\ \A i \in 1 .. L : r[i] = D[i]
    BY <1>4
  <2>2. t = Reverse(r)
    BY <1>3, <1>5
  <2> HIDE DEF r
  <2>3. t = [i \in 1 .. L + 1 |-> r[((L + 1) - i) + 1]]
    BY <2>1, <2>2 DEF Reverse
  <2>4. t \in Seq(Int) /\ Len(t) = L + 1 /\ t[1] = 45
        /\ \A i \in 1 .. L : t[i + 1] = D[L + 1 - i]
    <3>1. \A i \in 1 .. L + 1 : ((L + 1) - i) + 1 \in 1 .. L + 1 /\ r[((L + 1) - i) + 1] \in Int
      BY <1>4, <2>1
    <3>2. t \in [1 .. L + 1 -> Int]
      BY <2>3, <3>1
    <3>3. t \in Seq(Int) /\ Len(t) = L + 1
      <4>1. L + 1 \in Nat
        BY <1>4
      <4>2. QED
        BY <3>2, <4>1, MadeSeq, Zenon
    <3>4. t[1] = 45
      <4>1. 1 \in 1 .. L + 1 /\ ((L + 1) - 1) + 1 = L + 1
        BY <1>4
      <4>2. QED
        BY <2>1, <2>3, <4>1
    <3>5. ASSUME NEW i \in 1 .. L
          PROVE  t[i + 1] = D[L + 1 - i]
      <4>1. /\ i + 1 \in 1 .. L + 1 /\ ((L + 1) - (i + 1)) + 1 = L + 1 - i
            /\ L + 1 - i \in 1 .. L
        BY <1>4
      <4>2. t[i + 1] = r[((L + 1) - (i + 1)) + 1]
        BY <2>3, <4>1, Zenon
      <4>3. r[L + 1 - i] = D[L + 1 - i]
        BY <2>1, <4>1, Zenon
      <4>4. QED
        BY <4>1, <4>2, <4>3, Zenon
    <3>6. QED
      BY <3>3, <3>4, <3>5
  <2>5. digits = Tail(t)
    BY <1>0, <2>4
  <2>6. digits \in Seq(Int) /\ Len(digits) = L /\ \A i \in 1 .. L : digits[i] = t[i + 1]
    BY <1>4, <2>4, <2>5
  <2>7. Decimal(v, digits)
    <3>1. \A i \in 1 .. Len(digits) : i \in 1 .. L
      BY <2>6
    <3>2. \A i \in 1 .. Len(digits) : digits[i] = D[Len(digits) + 1 - i]
      <4>1. \A i \in 1 .. L : digits[i] = D[L + 1 - i]
        BY <2>4, <2>6, Zenon
      <4>2. Len(digits) = L
        BY <2>6
      <4>3. QED
        BY <4>1, <4>2, Zenon
    <3>3. digits \in Seq(Int) /\ Len(digits) = L
      BY <2>6
    <3>4. QED
      BY <1>4, <3>2, <3>3, Zenon
  <2>8. QED
    <3>1. t[1] = 45
      BY <2>4
    <3>2. v = -value
      BY <1>2, <1>5
    <3>3. QED
      BY <1>5, <2>7, <3>1, <3>2 DEF Written
<1>6. ASSUME ~(value < 0)
      PROVE  Written(value, t, digits)
  <2>1. t = Reverse(D)
    <3>1. D \o <<>> = D
      BY <1>4
    <3>2. QED
      BY <1>3, <1>6, <3>1
  <2>2. t = [i \in 1 .. L |-> D[(L - i) + 1]]
    BY <2>1 DEF Reverse
  <2>3. t \in Seq(Int) /\ Len(t) = L /\ t[1] # 45 /\ \A i \in 1 .. L : t[i] = D[L + 1 - i]
    <3>1. \A i \in 1 .. L : (L - i) + 1 \in 1 .. L /\ D[(L - i) + 1] \in Int
      BY <1>4
    <3>2. t \in [1 .. L -> Int]
      BY <2>2, <3>1
    <3>3. t \in Seq(Int) /\ Len(t) = L
      BY <1>4, <3>2, MadeSeq, Zenon
    <3>4. ASSUME NEW i \in 1 .. L
          PROVE  t[i] = D[L + 1 - i]
      <4>1. (L - i) + 1 = L + 1 - i
        BY <1>4
      <4>2. QED
        BY <2>2, <4>1
    <3>5. t[1] = D[L]
      <4>1. 1 \in 1 .. L /\ (L - 1) + 1 = L
        BY <1>4
      <4>2. QED
        BY <2>2, <4>1
    <3>6. QED
      BY <1>4, <3>3, <3>4, <3>5
  <2>4. digits = t
    BY <1>0, <2>3
  <2>5. Decimal(v, digits)
    BY <1>4, <2>3, <2>4
  <2>6. QED
    <3>1. t[1] # 45
      BY <2>3
    <3>2. v = value
      BY <1>2, <1>6
    <3>3. QED
      BY <1>6, <2>5, <3>1, <3>2 DEF Written
<1>7. Written(value, t, digits)
  BY <1>5, <1>6
<1>8. QED
  BY <1>7 DEF t, digits

(* Numbers read back. *)
LEMMA NumbersSound ==
  ASSUME number \in -Half .. Half - 1
  PROVE  NumbersReadBack
<1> DEFINE t == sdsll2str(number)
           digits == IF t[1] = 45 THEN Tail(t) ELSE t
           L == Len(digits)
           Sol(f) == f = [n \in 0 .. L |-> IF n = 0 THEN 0 ELSE 10 * f[n - 1] + digits[n] - 48]
           f == CHOOSE f : Sol(f)
           v == IF number < 0 THEN -number ELSE number
<1>1. number \in Int /\ v \in Nat
  BY AlphabetAssumption
<1>2. (t[1] = 45 <=> number < 0) /\ Decimal(v, digits)
  <2>1. t = sdsll2str(number)
    OBVIOUS
  <2>2. digits = IF t[1] = 45 THEN Tail(t) ELSE t
    OBVIOUS
  <2>3. v = IF number < 0 THEN -number ELSE number
    OBVIOUS
  <2> HIDE DEF t, digits, v
  <2>4. Written(number, sdsll2str(number), Unsigned(sdsll2str(number)))
    BY NumberWritten, Zenon
  <2>5. QED
    BY <2>1, <2>2, <2>3, <2>4 DEF Written, Unsigned
<1> HIDE DEF v, t, digits
<1>3. /\ DOMAIN digits = 1 .. L /\ L \in Nat
      /\ \A i \in 1 .. L : digits[i] \in 48 .. 57
      /\ L > 1 => digits[1] # 48
      /\ \A g : (\A n \in 0 .. L : g[n] = IF n = 0 THEN 0 ELSE 10 * g[n - 1] + digits[n] - 48)
                => g[L] = v
  BY <1>1, <1>2, DecimalWorth
<1>4. \E g : Sol(g)
  <2>1. PICK g : Loops("value", digits, digits, 0, L, g)
    BY <1>3, LoopExists
  <2>2. \A x, n : Turned("value", digits, digits, x, n) = 10 * x + digits[n] - 48
    BY DEF Turned
  <2>3. Sol(g)
    BY <2>1, <2>2 DEF Loops
  <2>4. QED
    BY <2>3
<1>5. Sol(f)
  BY <1>4, Zenon
<1> HIDE DEF f
<1>6. f[L] = v
  <2>1. \A n \in 0 .. L : f[n] = IF n = 0 THEN 0 ELSE 10 * f[n - 1] + digits[n] - 48
    BY <1>5
  <2>2. QED
    BY <1>3, <2>1
<1>7. number = IF t[1] = 45 THEN -f[L] ELSE f[L]
  BY <1>1, <1>2, <1>6 DEF v
<1>8. QED
  BY <1>3, <1>7 DEF NumbersReadBack, t, digits, f

----------------------------------------------------------------------------
(* Quoting and parsing. *)

(* One turn of the loop of an argument (sds.c:949): at an opening quote. *)
LEMMA ReadsQuote ==
  ASSUME NEW t, NEW p, NEW a, At(t, p) = 34
  PROVE  Read(t, Reading("plain", p, a)) = Reading("quoted", p + 1, a)
  BY DEF Read, Reading, Quote, Apostrophe, Backslash

(* When the argument is read. *)
LEMMA ReadsEnd ==
  ASSUME NEW t, NEW p, NEW a
  PROVE  Read(t, Reading("done", p, a)) = Reading("done", p, a)
  BY DEF Read, Reading

(* At the closing quote. *)
LEMMA ReadsClosing ==
  ASSUME NEW t, NEW p, NEW a, At(t, p) = 34, At(t, p + 1) = 0 \/ isspace(At(t, p + 1))
  PROVE  Read(t, Reading("quoted", p, a)) = Reading("done", p + 1, a)
<1>1. Read(t, Reading("quoted", p, a)) = Closed(t, p, a)
  BY DEF Read, Reading, Quote, Apostrophe, Backslash
<1>2. Closed(t, p, a) = Reading("done", p + 1, a)
  BY DEF Closed
<1>3. QED
  BY <1>1, <1>2

(* At a character that stands for itself. *)
LEMMA ReadsPlain ==
  ASSUME NEW t, NEW p, NEW a, At(t, p) \notin {0, 34, 92}
  PROVE  Read(t, Reading("quoted", p, a)) = Reading("quoted", p + 1, Append(a, At(t, p)))
  BY DEF Read, Reading, Quote, Apostrophe, Backslash

(* At a backslash and a character. *)
LEMMA ReadsEscape ==
  ASSUME NEW t, NEW p, NEW a, At(t, p) = 92, At(t, p + 1) \notin {0, 120}
  PROVE  Read(t, Reading("quoted", p, a))
           = Reading("quoted", p + 2, Append(a, Unescaped(At(t, p + 1))))
<1>1. ~Hex(t, p + 1)
  BY DEF Hex
<1>2. QED
  BY <1>1 DEF Read, Reading, Quote, Apostrophe, Backslash

(* At a backslash, an x and two hexadecimal digits. *)
LEMMA ReadsHex ==
  ASSUME NEW t, NEW p \in Nat, NEW a, At(t, p) = 92, At(t, p + 1) = 120,
         is_hex_digit(At(t, p + 2)), is_hex_digit(At(t, p + 3))
  PROVE  Read(t, Reading("quoted", p, a))
           = Reading("quoted", p + 4, Append(a, 16 * hex_digit_to_int(At(t, p + 2))
                                                + hex_digit_to_int(At(t, p + 3))))
<1>1. Hex(t, p + 1)
  <2>1. (p + 1) + 1 = p + 2 /\ (p + 1) + 2 = p + 3
    OBVIOUS
  <2>2. QED
    BY <2>1 DEF Hex
<1>2. QED
  BY <1>1 DEF Read, Reading, Quote, Apostrophe, Backslash

(* A hexadecimal digit reads as what it was written for. *)
LEMMA HexDigitReads ==
  ASSUME NEW v \in 0 .. 15
  PROVE  /\ is_hex_digit(HexDigit(v)) /\ hex_digit_to_int(HexDigit(v)) = v
         /\ HexDigit(v) \in 1 .. 255
<1>1. CASE v < 10
  <2>1. HexDigit(v) = 48 + v /\ 48 + v \in 48 .. 57
    BY <1>1 DEF HexDigit
  <2>2. QED
    BY <2>1 DEF is_hex_digit, hex_digit_to_int
<1>2. CASE ~(v < 10)
  <2>1. HexDigit(v) = 87 + v /\ 87 + v \in 97 .. 102
    BY <1>2 DEF HexDigit
  <2>2. 87 + v \notin 48 .. 57 /\ 87 + v \notin 65 .. 70
    BY <2>1
  <2>3. QED
    BY <2>1, <2>2 DEF is_hex_digit, hex_digit_to_int
<1>3. QED
  BY <1>1, <1>2

(* A letter behind a backslash means the character it was written for. *)
LEMMA LettersMean ==
  ASSUME NEW c \in {10, 13, 9, 7, 8}
  PROVE  /\ EscapeLetter[c] \in {110, 114, 116, 97, 98}
         /\ Unescaped(EscapeLetter[c]) = c
<1>1. /\ DOMAIN EscapeLetter = {10, 13, 9, 7, 8}
      /\ EscapeLetter[10] = 110 /\ EscapeLetter[13] = 114 /\ EscapeLetter[9] = 116
      /\ EscapeLetter[7] = 97 /\ EscapeLetter[8] = 98
  BY DEF EscapeLetter
<1>2. EscapeLetter[c] \in {110, 114, 116, 97, 98}
  BY <1>1
<1>3. \A b \in DOMAIN EscapeLetter : EscapeLetter[b] = EscapeLetter[c] => b = c
  BY <1>1
<1>4. c \in DOMAIN EscapeLetter
  BY <1>1
<1>5. (CHOOSE b \in DOMAIN EscapeLetter : EscapeLetter[b] = EscapeLetter[c]) = c
  BY <1>3, <1>4
<1>6. QED
  BY <1>2, <1>4, <1>5 DEF Unescaped

(* A backslash or a quote behind a backslash means itself. *)
LEMMA OthersMeanThemselves ==
  ASSUME NEW c \in {92, 34}
  PROVE  Unescaped(c) = c
<1>1. \A b \in DOMAIN EscapeLetter : EscapeLetter[b] # c
  BY DEF EscapeLetter
<1>2. QED
  BY <1>1 DEF Unescaped

(* w stands in t from p on. *)
Stands(t, p, w) == \A i \in 1 .. Len(w) : At(t, p + i - 1) = w[i]

(* What Escaped writes of c stands for c. *)
Writes(c) ==
  /\ Escaped(c) \in Seq(Int) /\ Len(Escaped(c)) \in 1 .. 4
  /\ \A i \in 1 .. Len(Escaped(c)) : Escaped(c)[i] # 0
  /\ \A t, a : \A p \in Nat :
       Stands(t, p, Escaped(c)) =>
         Read(t, Reading("quoted", p, a))
           = Reading("quoted", p + Len(Escaped(c)), Append(a, c))

(* The three ways in which sdscatrepr escapes a character. *)
LEMMA EscapedBy ==
  ASSUME NEW c, c \notin {Backslash, Quote}, c \notin (32 .. 126) \ {Backslash, Quote}
  PROVE  Escaped(c) = IF c \in DOMAIN EscapeLetter THEN <<Backslash, EscapeLetter[c]>>
                      ELSE <<Backslash, 120, HexDigit(c \div 16), HexDigit(c % 16)>>
<1> DEFINE A == c \in {Backslash, Quote}
           B == c \in DOMAIN EscapeLetter
           P == c \in (32 .. 126) \ {Backslash, Quote}
           x == <<Backslash, c>>
           y == <<Backslash, EscapeLetter[c]>>
           z == <<c>>
           w == <<Backslash, 120, HexDigit(c \div 16), HexDigit(c % 16)>>
<1>1. Escaped(c) = CASE A -> x [] B -> y [] P -> z [] OTHER -> w
  BY DEF Escaped
<1>2. ~A /\ ~P
  OBVIOUS
<1> HIDE DEF A, B, P, x, y, z, w
<1>3. Escaped(c) = IF B THEN y ELSE w
  BY <1>1, <1>2
<1>4. QED
  BY <1>3 DEF B, y, w

(* sdscatrepr (sds.c:858) and sdssplitargs agree on every character. *)
LEMMA EscapeWrites ==
  ASSUME NEW c \in 0 .. 255
  PROVE  Writes(c)
<1> DEFINE w == Escaped(c)
<1>1. CASE c \in {92, 34}
  <2>1. w = <<92, c>>
    <3>1. c \notin DOMAIN EscapeLetter /\ c \notin (32 .. 126) \ {92, 34}
      BY <1>1 DEF EscapeLetter
    <3>2. QED
      BY <1>1, <3>1 DEF Escaped, Backslash, Quote
  <2>2. w \in Seq(Int) /\ Len(w) = 2 /\ w[1] = 92 /\ w[2] = c
    BY <2>1
  <2> HIDE DEF w
  <2>3. ASSUME NEW t, NEW a, NEW p \in Nat, Stands(t, p, w)
        PROVE  Read(t, Reading("quoted", p, a)) = Reading("quoted", p + 2, Append(a, c))
    <3>1. At(t, p + 1 - 1) = 92 /\ At(t, p + 2 - 1) = c
      BY <2>2, <2>3 DEF Stands
    <3>2. p + 1 - 1 = p /\ p + 2 - 1 = p + 1
      OBVIOUS
    <3>3. At(t, p) = 92 /\ At(t, p + 1) = c
      BY <3>1, <3>2
    <3>4. c \notin {0, 120}
      BY <1>1
    <3>5. QED
      BY <1>1, <3>3, <3>4, ReadsEscape, OthersMeanThemselves
  <2>4. 2 \in 1 .. 4 /\ 92 # 0 /\ c # 0
    BY <1>1
  <2>5. QED
    BY <2>2, <2>3, <2>4 DEF Writes, w
<1>2. CASE c \in {10, 13, 9, 7, 8}
  <2> DEFINE l == EscapeLetter[c]
  <2>1. w = <<92, l>>
    <3>1. /\ c \notin {Backslash, Quote} /\ c \in DOMAIN EscapeLetter
          /\ c \notin (32 .. 126) \ {Backslash, Quote}
      BY <1>2 DEF EscapeLetter, Backslash, Quote
    <3>2. Escaped(c) = <<Backslash, EscapeLetter[c]>>
      BY <3>1, EscapedBy
    <3>3. QED
      BY <3>2 DEF Backslash
  <2>2. l \in {110, 114, 116, 97, 98} /\ Unescaped(l) = c
    BY <1>2, LettersMean
  <2> HIDE DEF l
  <2>3. l \in Int /\ l # 0 /\ l \notin {0, 120}
    BY <2>2
  <2>4. w \in Seq(Int) /\ Len(w) = 2 /\ w[1] = 92 /\ w[2] = l
    BY <2>1, <2>3
  <2> HIDE DEF w
  <2>5. ASSUME NEW t, NEW a, NEW p \in Nat, Stands(t, p, w)
        PROVE  Read(t, Reading("quoted", p, a)) = Reading("quoted", p + 2, Append(a, c))
    <3>1. At(t, p + 1 - 1) = 92 /\ At(t, p + 2 - 1) = l
      BY <2>4, <2>5 DEF Stands
    <3>2. p + 1 - 1 = p /\ p + 2 - 1 = p + 1
      OBVIOUS
    <3>3. At(t, p) = 92 /\ At(t, p + 1) = l
      BY <3>1, <3>2
    <3>4. QED
      BY <2>2, <2>3, <3>3, ReadsEscape
  <2>6. 2 \in 1 .. 4 /\ 92 # 0
    OBVIOUS
  <2>7. QED
    BY <2>3, <2>4, <2>5, <2>6 DEF Writes, w
<1>3. CASE c \in (32 .. 126) \ {92, 34}
  <2>1. w = <<c>>
    <3>1. c \notin {92, 34} /\ c \notin DOMAIN EscapeLetter
      BY <1>3 DEF EscapeLetter
    <3>2. QED
      BY <1>3, <3>1 DEF Escaped, Backslash, Quote
  <2>2. w \in Seq(Int) /\ Len(w) = 1 /\ w[1] = c
    BY <2>1
  <2> HIDE DEF w
  <2>3. ASSUME NEW t, NEW a, NEW p \in Nat, Stands(t, p, w)
        PROVE  Read(t, Reading("quoted", p, a)) = Reading("quoted", p + 1, Append(a, c))
    <3>1. At(t, p + 1 - 1) = c
      BY <2>2, <2>3 DEF Stands
    <3>2. p + 1 - 1 = p
      OBVIOUS
    <3>3. At(t, p) = c /\ c \notin {0, 34, 92}
      BY <1>3, <3>1, <3>2
    <3>4. QED
      BY <3>3, ReadsPlain
  <2>4. 1 \in 1 .. 4 /\ c # 0
    BY <1>3
  <2>5. QED
    BY <2>2, <2>3, <2>4 DEF Writes, w
<1>4. CASE c \notin {92, 34} \cup {10, 13, 9, 7, 8} \cup 32 .. 126
  <2> DEFINE h == HexDigit(c \div 16)
             l == HexDigit(c % 16)
  <2>1. w = <<92, 120, h, l>>
    <3>1. /\ c \notin {Backslash, Quote} /\ c \notin DOMAIN EscapeLetter
          /\ c \notin (32 .. 126) \ {Backslash, Quote}
      BY <1>4 DEF EscapeLetter, Backslash, Quote
    <3>2. Escaped(c) = <<Backslash, 120, HexDigit(c \div 16), HexDigit(c % 16)>>
      BY <3>1, EscapedBy
    <3>3. QED
      BY <3>2 DEF Backslash
  <2>2. c \div 16 \in 0 .. 15 /\ c % 16 \in 0 .. 15 /\ 16 * (c \div 16) + (c % 16) = c
    OBVIOUS
  <2>3. /\ is_hex_digit(h) /\ hex_digit_to_int(h) = c \div 16 /\ h \in 1 .. 255
        /\ is_hex_digit(l) /\ hex_digit_to_int(l) = c % 16 /\ l \in 1 .. 255
    BY <2>2, HexDigitReads
  <2> HIDE DEF h, l
  <2>4. w \in Seq(Int) /\ Len(w) = 4 /\ w[1] = 92 /\ w[2] = 120 /\ w[3] = h /\ w[4] = l
    BY <2>1, <2>3
  <2> HIDE DEF w
  <2>5. ASSUME NEW t, NEW a, NEW p \in Nat, Stands(t, p, w)
        PROVE  Read(t, Reading("quoted", p, a)) = Reading("quoted", p + 4, Append(a, c))
    <3>1. /\ At(t, p + 1 - 1) = 92 /\ At(t, p + 2 - 1) = 120
          /\ At(t, p + 3 - 1) = h /\ At(t, p + 4 - 1) = l
      BY <2>4, <2>5 DEF Stands
    <3>2. p + 1 - 1 = p /\ p + 2 - 1 = p + 1 /\ p + 3 - 1 = p + 2 /\ p + 4 - 1 = p + 3
      OBVIOUS
    <3>3. At(t, p) = 92 /\ At(t, p + 1) = 120 /\ At(t, p + 2) = h /\ At(t, p + 3) = l
      BY <3>1, <3>2
    <3>4. 16 * hex_digit_to_int(h) + hex_digit_to_int(l) = c
      BY <2>2, <2>3
    <3>5. QED
      BY <2>3, <3>3, <3>4, ReadsHex
  <2>6. 4 \in 1 .. 4 /\ 92 # 0 /\ 120 # 0 /\ h # 0 /\ l # 0
    BY <2>3
  <2>7. \A i \in 1 .. 4 : w[i] # 0
    BY <2>4, <2>6
  <2>8. QED
    BY <2>4, <2>5, <2>6, <2>7 DEF Writes, w
<1>5. QED
  BY <1>1, <1>2, <1>3, <1>4

(* r is how sdscatrepr writes the m characters of a: the k-th begins       *)
(* behind the quote and off[k] characters.                                 *)
Quotes(a, m, off, r) ==
  /\ m = Len(a) /\ r \in Seq(Int) /\ off[1] = 0 /\ \A k \in 1 .. m + 1 : off[k] \in Nat
  /\ Len(r) = off[m + 1] + 2 /\ r[1] = 34 /\ r[off[m + 1] + 2] = 34
  /\ \A k \in 1 .. m : off[k + 1] = off[k] + Len(Escaped(a[k]))
  /\ \A k \in 1 .. m : \A j \in 1 .. Len(Escaped(a[k])) :
       /\ 1 + off[k] + j \in 1 .. Len(r)
       /\ r[1 + off[k] + j] = Escaped(a[k])[j]

(* So does sdscatrepr write every text of bytes. *)
LEMMA ReprQuotes ==
  ASSUME NEW a, a \in Seq(0 .. 255), NEW r, r = sdscatrepr(a)
  PROVE  \E off : Quotes(a, Len(a), off, r)
<1> DEFINE m == Len(a)
           E == [i \in DOMAIN a |-> Escaped(a[i])]
           off == Offset(E)
           F == FlattenSeq(E)
           q == <<34>>
           l == q \o F
<1>1. m \in Nat /\ DOMAIN a = 1 .. m /\ \A k \in 1 .. m : a[k] \in 0 .. 255
  <2>1. m \in Nat /\ DOMAIN a = 1 .. m
    OBVIOUS
  <2>2. ASSUME NEW k \in 1 .. m
        PROVE  a[k] \in 0 .. 255
    BY <2>2, MemberOf
  <2>3. QED
    BY <2>1, <2>2
<1>2. \A k \in 1 .. m : Escaped(a[k]) \in Seq(Int) /\ Len(Escaped(a[k])) \in 1 .. 4
  BY <1>1, EscapeWrites DEF Writes
<1>3. E \in Seq(Seq(Int)) /\ Len(E) = m /\ \A k \in 1 .. m : E[k] = Escaped(a[k])
  <2> HIDE DEF m
  <2>1. E \in [1 .. m -> Seq(Int)]
    BY <1>1, <1>2
  <2>2. m \in Nat /\ \A k \in 1 .. m : E[k] = Escaped(a[k])
    BY <1>1
  <2> HIDE DEF E
  <2>3. E \in Seq(Seq(Int)) /\ Len(E) = m
    BY <2>1, <2>2, MadeSeq, Zenon
  <2>4. QED
    BY <2>2, <2>3
<1> HIDE DEF E, m
<1>4. F \in Seq(Int) /\ Laid(E, m, off, F)
  BY <1>3, FlattenOffsets
<1> HIDE DEF off
<1>5. /\ off[1] = 0 /\ Len(F) = off[m + 1] /\ \A k \in 1 .. m + 1 : off[k] \in Nat
      /\ \A k \in 1 .. m : off[k + 1] = off[k] + Len(Escaped(a[k]))
      /\ \A k \in 1 .. m : \A j \in 1 .. Len(Escaped(a[k])) :
           off[k] + j \in 1 .. Len(F) /\ F[off[k] + j] = Escaped(a[k])[j]
  <2>1. /\ off[1] = 0 /\ Len(F) = off[m + 1] /\ \A k \in 1 .. m + 1 : off[k] \in Nat
        /\ \A k \in 1 .. m : off[k + 1] = off[k] + Len(E[k])
        /\ \A k \in 1 .. m : \A j \in 1 .. Len(E[k]) :
             off[k] + j \in 1 .. Len(F) /\ F[off[k] + j] = E[k][j]
    BY <1>3, <1>4 DEF Laid
  <2>2. \A k \in 1 .. m : E[k] = Escaped(a[k])
    BY <1>3, Zenon
  <2>3. QED
    BY <2>1, <2>2, Zenon
<1>6. r = l \o q
  BY DEF sdscatrepr, Quote, E, F
<1> HIDE DEF F
<1>7. q \in Seq(Int) /\ Len(q) = 1 /\ q[1] = 34
  OBVIOUS
<1> HIDE DEF q
<1>8. Meets(q, F, l)
  BY <1>4, <1>7, TextsMeet
<1> HIDE DEF l
<1>9. Meets(l, q, r)
  <2>1. l \in Seq(Int)
    BY <1>8 DEF Meets
  <2>2. QED
    BY <1>6, <1>7, <2>1, TextsMeet, Zenon
<1> DEFINE w == Len(F)
<1>10. w \in Nat
  BY <1>4
<1>11. /\ Len(l) = 1 + w /\ l[1] = 34 /\ \A i \in 1 .. w : l[1 + i] = F[i]
  <2>1. 1 \in 1 .. Len(q)
    BY <1>7
  <2>2. QED
    BY <1>7, <1>8, <2>1 DEF Meets
<1>12. /\ r \in Seq(Int) /\ Len(r) = (1 + w) + 1
       /\ \A i \in 1 .. 1 + w : r[i] = l[i]
       /\ r[(1 + w) + 1] = 34
  <2>1. 1 \in 1 .. Len(q)
    BY <1>7
  <2>2. QED
    BY <1>7, <1>9, <1>11, <2>1 DEF Meets
<1> HIDE DEF w
<1>13. w = off[m + 1] /\ (1 + w) + 1 = off[m + 1] + 2
  <2>1. w = off[m + 1]
    BY <1>5 DEF w
  <2>2. QED
    BY <1>10, <2>1
<1>14. r[1] = 34
  <2>1. 1 \in 1 .. 1 + w
    BY <1>10
  <2>2. QED
    BY <1>11, <1>12, <2>1
<1>15. ASSUME NEW k \in 1 .. m, NEW j \in 1 .. Len(Escaped(a[k]))
       PROVE  /\ 1 + off[k] + j \in 1 .. Len(r)
              /\ r[1 + off[k] + j] = Escaped(a[k])[j]
  <2> DEFINE i == off[k] + j
  <2>1. i \in 1 .. w /\ F[i] = Escaped(a[k])[j]
    BY <1>5 DEF w
  <2>2. off[k] \in Nat /\ j \in Nat
    BY <1>1, <1>2, <1>5
  <2>3. 1 + i = 1 + off[k] + j
    BY <2>2
  <2> HIDE DEF i
  <2>4. 1 + i \in 1 .. 1 + w /\ 1 + i \in 1 .. (1 + w) + 1
    BY <1>10, <2>1
  <2>5. r[1 + i] = F[i]
    BY <1>11, <1>12, <2>1, <2>4
  <2>6. QED
    BY <1>12, <2>1, <2>3, <2>4, <2>5
<1>16. Quotes(a, m, off, r)
  BY <1>5, <1>12, <1>13, <1>14, <1>15 DEF Quotes, m
<1>17. QED
  BY <1>16 DEF m

(* The argument loop after n turns over such a text, which stands in t     *)
(* from p on: it is behind the text, or behind the k-th character.         *)
Quoting(a, m, off, p, n, x) ==
  \/ x = Reading("done", p + (off[m + 1] + 2), a)
  \/ \E k \in 0 .. m :
       x = Reading("quoted", (p + 1) + off[k + 1], SubSeq(a, 1, k)) /\ n <= 1 + off[k + 1]

(* One turn more. *)
LEMMA QuotingTurn ==
  ASSUME NEW a, a \in Seq(0 .. 255), NEW m, NEW off, NEW r, Quotes(a, m, off, r),
         NEW t, NEW p \in Nat, Stands(t, p, r),
         At(t, p + Len(r)) = 0 \/ isspace(At(t, p + Len(r))),
         NEW n \in Nat, NEW x, Quoting(a, m, off, p, n, x)
  PROVE  Quoting(a, m, off, p, n + 1, Read(t, x))
<1>1. /\ m = Len(a) /\ m \in Nat /\ Len(r) = off[m + 1] + 2 /\ r[off[m + 1] + 2] = 34
      /\ off[m + 1] \in Nat
  <2>1. m = Len(a) /\ m \in Nat
    BY DEF Quotes
  <2>2. m + 1 \in 1 .. m + 1
    BY <2>1
  <2>3. QED
    BY <2>1, <2>2 DEF Quotes
<1>2. CASE x = Reading("done", p + (off[m + 1] + 2), a)
  <2>1. Read(t, x) = x
    BY <1>2, ReadsEnd
  <2>2. QED
    BY <1>2, <2>1 DEF Quoting
<1>3. ASSUME NEW k \in 0 .. m, n <= 1 + off[k + 1],
             x = Reading("quoted", (p + 1) + off[k + 1], SubSeq(a, 1, k))
      PROVE  Quoting(a, m, off, p, n + 1, Read(t, x))
  <2> DEFINE o == off[k + 1]
             z == (p + 1) + o
             b == SubSeq(a, 1, k)
  <2>1. o \in Nat /\ k \in Nat
    <3>1. k + 1 \in 1 .. m + 1
      BY <1>1
    <3>2. QED
      BY <3>1 DEF Quotes
  <2>2. CASE k = m
    <3>1. At(t, p + (o + 2) - 1) = 34
      <4>1. o + 2 = Len(r) /\ o + 2 \in 1 .. Len(r)
        BY <1>1, <2>1, <2>2
      <4>2. At(t, p + (o + 2) - 1) = r[o + 2]
        BY <4>1 DEF Stands
      <4>3. QED
        BY <1>1, <2>2, <4>2
    <3>2. p + (o + 2) - 1 = z /\ z + 1 = p + (o + 2)
      BY <2>1
    <3>3. b = a
      BY <1>1, <2>2, PrefixEnds
    <3>4. p + Len(r) = z + 1 /\ p + (off[m + 1] + 2) = z + 1
      <4>1. Len(r) = o + 2 /\ off[m + 1] + 2 = o + 2
        BY <1>1, <2>2
      <4>2. QED
        BY <3>2, <4>1
    <3> HIDE DEF z, b, o
    <3>5. At(t, z) = 34
      BY <3>1, <3>2
    <3>6. At(t, z + 1) = 0 \/ isspace(At(t, z + 1))
      BY <3>4
    <3>7. Read(t, Reading("quoted", z, a)) = Reading("done", z + 1, a)
      BY <3>5, <3>6, ReadsClosing
    <3>8. x = Reading("quoted", z, a)
      BY <1>3, <3>3 DEF z, b, o
    <3>9. QED
      BY <3>4, <3>7, <3>8 DEF Quoting
  <2>3. CASE k # m
    <3> DEFINE c == a[k + 1]
               e == Escaped(c)
    <3>1. k + 1 \in 1 .. m /\ k + 1 <= Len(a) /\ k + 1 \in 0 .. m
      BY <1>1, <2>1, <2>3
    <3>2. c \in 0 .. 255
      BY <1>1, <3>1
    <3> HIDE DEF c
    <3>3. Writes(c)
      BY <3>2, EscapeWrites
    <3>4. /\ off[(k + 1) + 1] = o + Len(e)
          /\ \A j \in 1 .. Len(e) : 1 + o + j \in 1 .. Len(r) /\ r[1 + o + j] = e[j]
      BY <3>1 DEF Quotes, c
    <3> HIDE DEF o, e
    <3>5. Len(e) \in 1 .. 4
      BY <3>3 DEF Writes, e
    <3>6. Stands(t, z, e)
      <4>1. ASSUME NEW j \in 1 .. Len(e)
            PROVE  At(t, z + j - 1) = e[j]
        <5>1. j \in Nat
          BY <3>5
        <5>2. p + (1 + o + j) - 1 = z + j - 1
          BY <2>1, <5>1
        <5>3. At(t, p + (1 + o + j) - 1) = r[1 + o + j]
          BY <3>4 DEF Stands
        <5>4. QED
          BY <3>4, <5>2, <5>3
      <4>2. QED
        BY <4>1 DEF Stands
    <3>7. z \in Nat /\ z + Len(e) = (p + 1) + off[(k + 1) + 1]
      BY <2>1, <3>4, <3>5
    <3>8. n + 1 <= 1 + off[(k + 1) + 1]
      <4> DEFINE d == Len(e)
                 u == off[(k + 1) + 1]
      <4>1. n <= 1 + o
        BY <1>3 DEF o
      <4>2. u = o + d /\ d \in 1 .. 4
        BY <3>4, <3>5
      <4> HIDE DEF d, u
      <4>3. n + 1 <= 1 + u
        BY <2>1, <4>1, <4>2
      <4>4. QED
        BY <4>3 DEF u
    <3>9. Append(b, c) = SubSeq(a, 1, k + 1)
      BY <2>1, <3>1, PrefixGrows DEF c
    <3>10. x = Reading("quoted", z, b)
      BY <1>3 DEF o
    <3> HIDE DEF z, b
    <3>11. Read(t, Reading("quoted", z, b)) = Reading("quoted", z + Len(e), Append(b, c))
      BY <3>3, <3>6, <3>7 DEF Writes, e
    <3>12. Read(t, x) = Reading("quoted", (p + 1) + off[(k + 1) + 1], SubSeq(a, 1, k + 1))
      BY <3>7, <3>9, <3>10, <3>11
    <3>13. QED
      BY <3>1, <3>8, <3>12 DEF Quoting
  <2>4. QED
    BY <2>2, <2>3
<1>4. QED
  BY <1>2, <1>3 DEF Quoting

(* The loop of an argument (sds.c:949), turn by turn. *)
LEMMA TokenTurns ==
  ASSUME NEW t, t \in Seq(Int), NEW p
  PROVE  \E f : /\ f[0] = Reading("plain", p, <<>>)
                /\ \A n \in 0 .. Len(t) : f[n + 1] = Read(t, f[n])
                /\ Token(t, p) = f[Len(t) + 1]
<1> DEFINE L == Len(t) + 1
           start == Reading("plain", p, <<>>)
           Sol(f) == f = [n \in 0 .. L |-> IF n = 0 THEN start ELSE Read(t, f[n - 1])]
           f == CHOOSE f : Sol(f)
<1>1. L \in Nat /\ Len(t) \in Nat
  OBVIOUS
<1>2. \E g : Sol(g)
  <2> HIDE DEF L
  <2>1. PICK g : Loops("token", t, 0, start, L, g)
    BY <1>1, LoopExists
  <2>2. \A x, n : Turned("token", t, 0, x, n) = Read(t, x)
    BY DEF Turned
  <2> HIDE DEF start
  <2>3. Sol(g)
    BY <2>1, <2>2 DEF Loops
  <2>4. QED
    BY <2>3
<1>3. Sol(f)
  BY <1>2, Zenon
<1>4. Token(t, p) = f[L]
  BY DEF Token
<1> HIDE DEF f, start
<1>5. f[0] = start
  <2>1. 0 \in 0 .. L
    BY <1>1
  <2>2. QED
    BY <1>3, <2>1
<1>6. ASSUME NEW n \in 0 .. Len(t)
      PROVE  f[n + 1] = Read(t, f[n])
  <2>1. n + 1 \in 0 .. L /\ n + 1 # 0 /\ (n + 1) - 1 = n
    BY <1>1
  <2>2. f[n + 1] = Read(t, f[(n + 1) - 1])
    BY <1>3, <2>1
  <2>3. QED
    BY <2>1, <2>2
<1>7. QED
  BY <1>4, <1>5, <1>6 DEF start

(* The same for the loop of a line (sds.c:939). *)
LEMMA LineTurns ==
  ASSUME NEW t, t \in Seq(Int)
  PROVE  \E f : /\ f[0] = Reading("line", 1, <<>>)
                /\ \A n \in 0 .. Len(t) : f[n + 1] = Arguments(t, f[n])
                /\ sdssplitargs(t) = IF f[Len(t) + 1].mode = "done"
                                     THEN [ok |-> TRUE, args |-> f[Len(t) + 1].arg]
                                     ELSE [ok |-> FALSE, args |-> <<>>]
<1> DEFINE L == Len(t) + 1
           start == Reading("line", 1, <<>>)
           Sol(f) == f = [n \in 0 .. L |-> IF n = 0 THEN start ELSE Arguments(t, f[n - 1])]
           f == CHOOSE f : Sol(f)
<1>1. L \in Nat /\ Len(t) \in Nat
  OBVIOUS
<1>2. \E g : Sol(g)
  <2> HIDE DEF L
  <2>1. PICK g : Loops("line", t, 0, start, L, g)
    BY <1>1, LoopExists
  <2>2. \A x, n : Turned("line", t, 0, x, n) = Arguments(t, x)
    BY DEF Turned
  <2> HIDE DEF start
  <2>3. Sol(g)
    BY <2>1, <2>2 DEF Loops
  <2>4. QED
    BY <2>3
<1>3. Sol(f)
  BY <1>2, Zenon
<1>4. sdssplitargs(t) = IF f[L].mode = "done" THEN [ok |-> TRUE, args |-> f[L].arg]
                        ELSE [ok |-> FALSE, args |-> <<>>]
  BY DEF sdssplitargs
<1> HIDE DEF f, start
<1>5. f[0] = start
  <2>1. 0 \in 0 .. L
    BY <1>1
  <2>2. QED
    BY <1>3, <2>1
<1>6. ASSUME NEW n \in 0 .. Len(t)
      PROVE  f[n + 1] = Arguments(t, f[n])
  <2>1. n + 1 \in 0 .. L /\ n + 1 # 0 /\ (n + 1) - 1 = n
    BY <1>1
  <2>2. f[n + 1] = Arguments(t, f[(n + 1) - 1])
    BY <1>3, <2>1
  <2>3. QED
    BY <2>1, <2>2
<1>7. QED
  BY <1>4, <1>5, <1>6 DEF start

(* A quoted text followed by a blank or the end is read as one argument. *)
LEMMA TokenQuotes ==
  ASSUME NEW a, a \in Seq(0 .. 255), NEW r, r = sdscatrepr(a),
         NEW t, t \in Seq(Int), NEW p \in Nat, p >= 1, Stands(t, p, r),
         p + Len(r) <= Len(t) + 1,
         At(t, p + Len(r)) = 0 \/ isspace(At(t, p + Len(r)))
  PROVE  Token(t, p) = Reading("done", p + Len(r), a) /\ At(t, p) = 34 /\ Len(r) >= 2
<1> DEFINE m == Len(a)
           L == Len(t)
<1>1. PICK off : Quotes(a, m, off, r)
  BY ReprQuotes
<1>2. PICK f : /\ f[0] = Reading("plain", p, <<>>)
               /\ \A n \in 0 .. L : f[n + 1] = Read(t, f[n])
               /\ Token(t, p) = f[L + 1]
  BY TokenTurns
<1>3. /\ off[1] = 0 /\ Len(r) = off[m + 1] + 2 /\ m \in Nat /\ L \in Nat /\ r[1] = 34
      /\ off[m + 1] \in Nat
  <2>1. m \in Nat /\ L \in Nat
    OBVIOUS
  <2> HIDE DEF m
  <2>2. m + 1 \in 1 .. m + 1
    BY <2>1
  <2>3. QED
    BY <1>1, <2>1, <2>2 DEF Quotes
<1> HIDE DEF m, L
<1>4. At(t, p) = 34
  <2>1. 1 \in 1 .. Len(r) /\ p + 1 - 1 = p
    BY <1>3
  <2>2. At(t, p + 1 - 1) = r[1]
    BY <2>1 DEF Stands
  <2>3. QED
    BY <1>3, <2>1, <2>2
<1> DEFINE S == {n \in Nat : n <= L => Quoting(a, m, off, p, n + 1, f[n + 1])}
<1>5. 0 \in S
  <2>1. f[0 + 1] = Read(t, f[0])
    <3>1. 0 \in 0 .. L
      BY <1>3
    <3>2. QED
      BY <1>2, <3>1
  <2>2. Read(t, f[0]) = Reading("quoted", p + 1, <<>>)
    BY <1>2, <1>4, ReadsQuote
  <2>3. SubSeq(a, 1, 0) = <<>> /\ (p + 1) + off[0 + 1] = p + 1 /\ 0 + 1 <= 1 + off[0 + 1]
        /\ 0 \in 0 .. m
    <3>1. SubSeq(a, 1, 0) = <<>>
      BY PrefixEnds
    <3>2. off[0 + 1] = 0 /\ m \in Nat
      BY <1>3
    <3>3. (p + 1) + off[0 + 1] = p + 1 /\ 0 + 1 <= 1 + off[0 + 1] /\ 0 \in 0 .. m
      BY <3>2
    <3>4. QED
      BY <3>1, <3>3, Zenon
  <2>4. f[0 + 1] = Reading("quoted", (p + 1) + off[0 + 1], SubSeq(a, 1, 0))
    BY <2>1, <2>2, <2>3
  <2>5. Quoting(a, m, off, p, 0 + 1, f[0 + 1])
    BY <2>3, <2>4 DEF Quoting
  <2>6. QED
    BY <2>5
<1>6. ASSUME NEW n \in Nat, n \in S
      PROVE  n + 1 \in S
  <2>1. SUFFICES ASSUME n + 1 <= L
                 PROVE  Quoting(a, m, off, p, (n + 1) + 1, f[(n + 1) + 1])
    OBVIOUS
  <2>2. Quoting(a, m, off, p, n + 1, f[n + 1])
    BY <1>3, <1>6, <2>1
  <2>3. f[(n + 1) + 1] = Read(t, f[n + 1])
    <3>1. n + 1 \in 0 .. L
      BY <1>3, <2>1
    <3>2. QED
      BY <1>2, <3>1
  <2>4. n + 1 \in Nat
    OBVIOUS
  <2>5. Quoting(a, m, off, p, (n + 1) + 1, Read(t, f[n + 1]))
    BY <1>1, <2>2, <2>4, QuotingTurn
  <2>6. QED
    BY <2>3, <2>5
<1>7. Quoting(a, m, off, p, L + 1, f[L + 1])
  <2> HIDE DEF S
  <2>1. L \in S
    BY <1>3, <1>5, <1>6, SetInduction
  <2>2. QED
    BY <1>3, <2>1 DEF S
<1>8. ASSUME NEW k \in 0 .. m
      PROVE  ~(L + 1 <= 1 + off[k + 1])
  <2>1. CASE k = 0
    <3>1. off[k + 1] = 0 /\ off[m + 1] + 2 <= L
      <4>1. p + (off[m + 1] + 2) <= L + 1
        BY <1>3 DEF L
      <4>2. off[1] = 0 /\ off[m + 1] \in Nat /\ L \in Nat
        BY <1>3, Zenon
      <4>3. k + 1 = 1
        BY <2>1
      <4>4. QED
        BY <4>1, <4>2, <4>3
    <3>2. QED
      BY <1>3, <3>1
  <2>2. CASE k # 0
    <3>1. k \in 1 .. m /\ k \in Nat /\ k \in 1 .. m + 1 /\ k + 1 \in 1 .. m + 1
      BY <1>3, <2>2
    <3> DEFINE d == Len(Escaped(a[k]))
               u == off[k + 1]
               v == off[k]
               w == Len(r)
    <3>2. u = v + d /\ v \in Nat /\ \A j \in 1 .. d : 1 + v + j \in 1 .. w
      BY <1>1, <3>1 DEF Quotes
    <3>3. d \in 1 .. 4
      <4>1. k \in 1 .. Len(a)
        BY <3>1 DEF m
      <4>2. a[k] \in 0 .. 255
        BY <4>1, MemberOf
      <4>3. QED
        BY <4>2, EscapeWrites DEF Writes
    <3>4. w \in Nat /\ p + w <= L + 1
      BY <1>3 DEF L
    <3> HIDE DEF d, u, v, w
    <3>5. 1 + v + d \in 1 .. w
      <4>1. d \in 1 .. d
        BY <3>3
      <4>2. QED
        BY <3>2, <4>1
    <3>6. ~(L + 1 <= 1 + u)
      BY <1>3, <3>2, <3>3, <3>4, <3>5
    <3>7. QED
      BY <3>6 DEF u
  <2>3. QED
    BY <2>1, <2>2
<1>9. f[L + 1] = Reading("done", p + (off[m + 1] + 2), a)
  BY <1>7, <1>8 DEF Quoting
<1>10. Len(r) >= 2
  BY <1>3
<1>11. QED
  BY <1>2, <1>3, <1>4, <1>9, <1>10

(* One turn of the loop of a line (sds.c:939): when it is done. *)
LEMMA LineDone ==
  ASSUME NEW t, NEW p, NEW a
  PROVE  Arguments(t, Reading("done", p, a)) = Reading("done", p, a)
  BY DEF Arguments, Reading

(* At the end of the line. *)
LEMMA LineEnds ==
  ASSUME NEW t, NEW p, NEW a, At(t, p) = 0
  PROVE  Arguments(t, Reading("line", p, a)) = Reading("done", p, a)
<1>1. ~isspace(At(t, p))
  BY DEF isspace
<1>2. QED
  BY <1>1 DEF Arguments, Reading

(* At a blank. *)
LEMMA LineBlank ==
  ASSUME NEW t, NEW p, NEW a, At(t, p) = 32
  PROVE  Arguments(t, Reading("line", p, a)) = Reading("line", p + 1, a)
<1>1. isspace(At(t, p)) /\ At(t, p) # 0
  BY DEF isspace
<1>2. QED
  BY <1>1 DEF Arguments, Reading

(* At a quoted argument. *)
LEMMA LineToken ==
  ASSUME NEW t, NEW p, NEW a, At(t, p) = 34, NEW q, NEW b, Token(t, p) = Reading("done", q, b)
  PROVE  Arguments(t, Reading("line", p, a)) = Reading("line", q, Append(a, b))
<1>1. ~isspace(At(t, p)) /\ At(t, p) # 0
  BY DEF isspace
<1>2. QED
  BY <1>1 DEF Arguments, Reading

(* j is the line of the m arguments, the k-th behind off[k] characters.    *)
Joined(args, m, off, j) ==
  /\ m = Len(args) /\ j \in Seq(Int) /\ (m = 0 => j = <<>>) /\ (m # 0 => off[1] = 0)
  /\ \A k \in 1 .. m :
       LET r == sdscatrepr(args[k])
           e == (off[k] + 1) + Len(r)
       IN  /\ off[k] \in Nat /\ Stands(j, off[k] + 1, r) /\ e <= Len(j) + 1
           /\ IF k = m THEN e = Len(j) + 1 ELSE At(j, e) = 32 /\ off[k + 1] = e

(* So does sdsjoinsds (sds.c:1080) join what sdscatrepr writes. *)
LEMMA ReprsJoined ==
  ASSUME NEW args, args \in Seq(Seq(0 .. 255)),
         NEW j, j = sdsjoinsds([i \in DOMAIN args |-> sdscatrepr(args[i])], << 32 >>)
  PROVE  \E off : Joined(args, Len(args), off, j)
<1> DEFINE m == Len(args)
           reprs == [i \in DOMAIN args |-> sdscatrepr(args[i])]
           P == [i \in DOMAIN reprs |-> IF i = Len(reprs) THEN reprs[i] ELSE reprs[i] \o <<32>>]
           off == Offset(P)
<1>1. m \in Nat /\ DOMAIN args = 1 .. m
  OBVIOUS
<1>2. \A k \in 1 .. m : sdscatrepr(args[k]) \in Seq(Int)
  <2>1. ASSUME NEW k \in 1 .. m
        PROVE  sdscatrepr(args[k]) \in Seq(Int)
    <3>1. args[k] \in Seq(0 .. 255)
      BY <2>1, MemberOf
    <3>2. QED
      BY <3>1, ReprQuotes DEF Quotes
  <2>2. QED
    BY <2>1
<1>3. reprs \in Seq(Seq(Int)) /\ Len(reprs) = m /\ \A k \in 1 .. m : reprs[k] = sdscatrepr(args[k])
  <2> HIDE DEF m
  <2>1. reprs \in [1 .. m -> Seq(Int)]
    BY <1>1, <1>2
  <2>2. QED
    BY <1>1, <2>1
<1>4. j = FlattenSeq(P)
  BY DEF sdsjoinsds
<1> HIDE DEF reprs, m
<1>5. DOMAIN reprs = 1 .. m
  BY <1>1, <1>3
<1>6. ASSUME NEW k \in 1 .. m
      PROVE  P[k] = IF k = m THEN reprs[k] ELSE reprs[k] \o <<32>>
  BY <1>3, <1>5
<1>7. ASSUME NEW k \in 1 .. m, k # m
      PROVE  Meets(reprs[k], <<32>>, P[k])
  <2>1. reprs[k] \in Seq(Int) /\ <<32>> \in Seq(Int)
    BY <1>3
  <2>2. P[k] = reprs[k] \o <<32>>
    BY <1>6, <1>7
  <2> HIDE DEF P
  <2>3. QED
    BY <2>1, <2>2, TextsMeet, Zenon
<1>8. P \in Seq(Seq(Int)) /\ Len(P) = m
  <2>1. ASSUME NEW k \in 1 .. m
        PROVE  P[k] \in Seq(Int)
    <3>1. CASE k = m
      BY <1>3, <1>6, <3>1
    <3>2. CASE k # m
      BY <1>7, <3>2 DEF Meets
    <3>3. QED
      BY <3>1, <3>2
  <2>2. DOMAIN P = 1 .. m
    BY <1>5
  <2>3. P = [i \in 1 .. m |-> P[i]]
    BY <1>5
  <2> HIDE DEF P
  <2>4. P \in [1 .. m -> Seq(Int)]
    BY <2>1, <2>3
  <2>5. QED
    BY <1>1, <2>4
<1> HIDE DEF P
<1>9. m \in Nat /\ j \in Seq(Int) /\ Laid(P, m, off, j)
  BY <1>4, <1>8, FlattenOffsets
<1> HIDE DEF off
<1>10. /\ off[1] = 0 /\ Len(j) = off[m + 1] /\ \A k \in 1 .. m + 1 : off[k] \in Nat
       /\ \A k \in 1 .. m : off[k + 1] = off[k] + Len(P[k])
       /\ \A k \in 1 .. m : \A i \in 1 .. Len(P[k]) :
            off[k] + i \in 1 .. Len(j) /\ j[off[k] + i] = P[k][i]
  BY <1>9 DEF Laid
<1>11. \A q \in 1 .. Len(j) : At(j, q) = j[q]
  BY <1>9 DEF At
<1>12. ASSUME NEW k \in 1 .. m
       PROVE  LET r == sdscatrepr(args[k])
                  e == (off[k] + 1) + Len(r)
              IN  /\ off[k] \in Nat /\ Stands(j, off[k] + 1, r) /\ e <= Len(j) + 1
                  /\ IF k = m THEN e = Len(j) + 1 ELSE At(j, e) = 32 /\ off[k + 1] = e
  <2> DEFINE r == sdscatrepr(args[k])
             o == off[k]
             w == Len(r)
             d == Len(P[k])
             u == off[k + 1]
             l == Len(j)
  <2>1. r = reprs[k] /\ r \in Seq(Int) /\ w \in Nat /\ l \in Nat
    BY <1>2, <1>3, <1>9
  <2> HIDE DEF r
  <2>2. o \in Nat /\ u = o + d
    <3>1. k \in 1 .. m + 1
      BY <1>9
    <3>2. QED
      BY <1>10, <3>1
  <2>3. \A i \in 1 .. d : o + i \in 1 .. l /\ At(j, o + i) = P[k][i]
    BY <1>10, <1>11
  <2>4. IF k = m THEN d = w /\ u = l /\ P[k] = r
        ELSE d = w + 1 /\ P[k][w + 1] = 32 /\ \A i \in 1 .. w : P[k][i] = r[i]
    <3>1. CASE k = m
      BY <1>6, <1>10, <2>1, <3>1
    <3>2. CASE k # m
      <4>1. Meets(r, <<32>>, P[k])
        BY <1>7, <2>1, <3>2
      <4>2. Len(<<32>>) = 1 /\ <<32>>[1] = 32 /\ 1 \in 1 .. 1
        OBVIOUS
      <4>3. QED
        BY <3>2, <4>1, <4>2 DEF Meets
    <3>3. QED
      BY <3>1, <3>2
  <2>5. w <= d /\ \A i \in 1 .. w : P[k][i] = r[i]
    <3>1. CASE k = m
      BY <2>1, <2>4, <3>1
    <3>2. CASE k # m
      BY <2>1, <2>4, <3>2
    <3>3. QED
      BY <3>1, <3>2
  <2>6. d \in Nat
    <3>1. CASE k = m
      BY <2>1, <2>4, <3>1
    <3>2. CASE k # m
      BY <2>1, <2>4, <3>2
    <3>3. QED
      BY <3>1, <3>2
  <2> HIDE DEF o, w, d, u, l
  <2>7. Stands(j, o + 1, r)
    <3>1. ASSUME NEW i \in 1 .. w
          PROVE  At(j, (o + 1) + i - 1) = r[i]
      <4>1. i \in 1 .. d /\ (o + 1) + i - 1 = o + i
        BY <2>1, <2>2, <2>5, <2>6
      <4>2. At(j, o + i) = P[k][i] /\ P[k][i] = r[i]
        BY <2>3, <2>5, <4>1
      <4>3. QED
        BY <4>1, <4>2
    <3>2. QED
      BY <3>1 DEF Stands, w
  <2>8. (o + 1) + w <= l + 1
    <3>1. CASE d = 0
      <4>1. w = 0
        BY <2>1, <2>5, <3>1
      <4>2. CASE k = m
        BY <2>1, <2>2, <2>4, <3>1, <4>1, <4>2
      <4>3. CASE k # m
        BY <2>1, <2>4, <3>1, <4>3
      <4>4. QED
        BY <4>2, <4>3
    <3>2. CASE d # 0
      <4>1. d \in 1 .. d
        BY <2>6, <3>2
      <4>2. o + d \in 1 .. l
        BY <2>3, <4>1
      <4>3. QED
        BY <2>1, <2>2, <2>5, <2>6, <4>2
    <3>3. QED
      BY <3>1, <3>2
  <2>9. CASE k = m
    <3>1. (o + 1) + w = l + 1
      <4>1. d = w /\ u = l
        BY <2>4, <2>9
      <4>2. QED
        BY <2>1, <2>2, <4>1
    <3>2. QED
      BY <2>2, <2>7, <2>8, <2>9, <3>1 DEF o, w, l, r
  <2>10. CASE k # m
    <3>1. d = w + 1 /\ P[k][w + 1] = 32
      BY <2>4, <2>10
    <3>2. w + 1 \in 1 .. d /\ o + (w + 1) = (o + 1) + w /\ u = (o + 1) + w
      BY <2>1, <2>2, <3>1
    <3>3. At(j, (o + 1) + w) = 32
      BY <2>3, <3>1, <3>2
    <3>4. QED
      BY <2>2, <2>7, <2>8, <2>10, <3>2, <3>3 DEF o, w, l, u, r
  <2>11. QED
    BY <2>9, <2>10
<1>13. m = 0 => j = <<>>
  BY <1>9, <1>10
<1>14. Joined(args, m, off, j)
  BY <1>9, <1>10, <1>12, <1>13 DEF Joined, m
<1>15. QED
  BY <1>14 DEF m

(* The loop over that line after n turns: it has all the arguments, or is  *)
(* before the k-th, or right behind it.                                    *)
Parsing(args, m, off, l, n, x) ==
  \/ x = Reading("done", l + 1, args)
  \/ m = 0 /\ n = 0 /\ x = Reading("line", 1, <<>>)
  \/ \E k \in 1 .. m :
       x = Reading("line", off[k] + 1, SubSeq(args, 1, k - 1)) /\ n <= off[k]
  \/ \E k \in 1 .. m :
       /\ x = Reading("line", (off[k] + 1) + Len(sdscatrepr(args[k])), SubSeq(args, 1, k))
       /\ n <= off[k] + 1

(* One turn more. *)
LEMMA ParsingTurn ==
  ASSUME NEW args, args \in Seq(Seq(0 .. 255)), NEW m, NEW off, NEW j, Joined(args, m, off, j),
         NEW l, l = Len(j), NEW n \in Nat, NEW x, Parsing(args, m, off, l, n, x)
  PROVE  Parsing(args, m, off, l, n + 1, Arguments(j, x))
<1>1. m \in Nat /\ m = Len(args) /\ j \in Seq(Int) /\ l \in Nat /\ At(j, l + 1) = 0
  <2>1. m = Len(args) /\ j \in Seq(Int)
    BY DEF Joined
  <2>2. m \in Nat /\ l \in Nat /\ DOMAIN j = 1 .. l
    BY <2>1
  <2>3. l + 1 \notin DOMAIN j
    BY <2>2
  <2>4. QED
    BY <2>1, <2>2, <2>3 DEF At
<1>2. CASE x = Reading("done", l + 1, args)
  <2>1. Arguments(j, x) = x
    BY <1>2, LineDone
  <2>2. QED
    BY <1>2, <2>1 DEF Parsing
<1>3. CASE m = 0 /\ x = Reading("line", 1, <<>>)
  <2>1. l + 1 = 1 /\ args = <<>>
    <3>1. j = <<>>
      BY <1>3 DEF Joined
    <3>2. l = 0
      BY <3>1
    <3>3. args = <<>>
      BY <1>1, <1>3, NoMembers
    <3>4. QED
      BY <3>2, <3>3
  <2>2. Arguments(j, Reading("line", 1, <<>>)) = Reading("done", 1, <<>>)
    BY <1>1, <2>1, LineEnds
  <2>3. QED
    BY <1>3, <2>1, <2>2 DEF Parsing
<1>4. ASSUME NEW k \in 1 .. m
      PROVE  LET r == sdscatrepr(args[k])
             IN  /\ off[k] \in Nat /\ Len(r) \in Nat /\ Len(r) >= 2 /\ At(j, off[k] + 1) = 34
                 /\ Token(j, off[k] + 1) = Reading("done", (off[k] + 1) + Len(r), args[k])
                 /\ (off[k] + 1) + Len(r) <= l + 1
                 /\ IF k = m THEN (off[k] + 1) + Len(r) = l + 1
                    ELSE At(j, (off[k] + 1) + Len(r)) = 32 /\ off[k + 1] = (off[k] + 1) + Len(r)
  <2> DEFINE r == sdscatrepr(args[k])
             p == off[k] + 1
             e == p + Len(r)
  <2>1. args[k] \in Seq(0 .. 255)
    BY <1>1, MemberOf
  <2>2. /\ off[k] \in Nat /\ Stands(j, p, r) /\ e <= Len(j) + 1
        /\ IF k = m THEN e = Len(j) + 1 ELSE At(j, e) = 32 /\ off[k + 1] = e
    BY DEF Joined
  <2>3. At(j, e) = 0 \/ isspace(At(j, e))
    <3>1. CASE k = m
      BY <1>1, <2>2, <3>1
    <3>2. CASE k # m
      BY <2>2, <3>2 DEF isspace
    <3>3. QED
      BY <3>1, <3>2
  <2>4. Len(r) \in Nat
    <3>1. r \in Seq(Int)
      BY <2>1, ReprQuotes DEF Quotes
    <3>2. QED
      BY <3>1
  <2>5. p \in Nat /\ p >= 1
    <3>1. off[k] \in Nat
      BY <2>2, Zenon
    <3>2. QED
      BY <3>1
  <2>6. Token(j, p) = Reading("done", e, args[k]) /\ At(j, p) = 34 /\ Len(r) >= 2
    <3> HIDE DEF p
    <3>1. r = sdscatrepr(args[k])
      OBVIOUS
    <3> HIDE DEF r
    <3>2. p + Len(r) <= Len(j) + 1 /\ (At(j, p + Len(r)) = 0 \/ isspace(At(j, p + Len(r))))
      BY <2>2, <2>3
    <3>3. Stands(j, p, r)
      BY <2>2
    <3>4. QED
      BY <1>1, <2>1, <2>5, <3>1, <3>2, <3>3, TokenQuotes
  <2>7. QED
    BY <2>2, <2>4, <2>6
<1>5. ASSUME NEW k \in 1 .. m, n <= off[k],
             x = Reading("line", off[k] + 1, SubSeq(args, 1, k - 1))
      PROVE  Parsing(args, m, off, l, n + 1, Arguments(j, x))
  <2> DEFINE e == (off[k] + 1) + Len(sdscatrepr(args[k]))
             b == SubSeq(args, 1, k - 1)
  <2>1. Arguments(j, x) = Reading("line", e, Append(b, args[k]))
    <3> HIDE DEF e, b
    <3>1. At(j, off[k] + 1) = 34 /\ Token(j, off[k] + 1) = Reading("done", e, args[k])
      BY <1>4 DEF e
    <3>2. x = Reading("line", off[k] + 1, b)
      BY <1>5 DEF b
    <3>3. QED
      BY <3>1, <3>2, LineToken
  <2>2. Append(b, args[k]) = SubSeq(args, 1, k)
    <3>1. k - 1 \in Nat /\ (k - 1) + 1 = k /\ (k - 1) + 1 <= Len(args)
      BY <1>1
    <3>2. Append(SubSeq(args, 1, k - 1), args[(k - 1) + 1]) = SubSeq(args, 1, (k - 1) + 1)
      BY <3>1, PrefixGrows
    <3>3. QED
      BY <3>1, <3>2
  <2>3. n + 1 <= off[k] + 1
    BY <1>4, <1>5
  <2> HIDE DEF b
  <2>4. Arguments(j, x) = Reading("line", e, SubSeq(args, 1, k))
    BY <2>1, <2>2
  <2>5. QED
    BY <2>3, <2>4 DEF Parsing
<1>6. ASSUME NEW k \in 1 .. m, n <= off[k] + 1,
             x = Reading("line", (off[k] + 1) + Len(sdscatrepr(args[k])), SubSeq(args, 1, k))
      PROVE  Parsing(args, m, off, l, n + 1, Arguments(j, x))
  <2> DEFINE w == Len(sdscatrepr(args[k]))
             e == (off[k] + 1) + w
             b == SubSeq(args, 1, k)
  <2>1. x = Reading("line", e, b) /\ w \in Nat /\ w >= 2 /\ off[k] \in Nat
    BY <1>4, <1>6
  <2>2. CASE k = m
    <3>1. e = l + 1
      BY <1>4, <2>2
    <3>2. b = args
      BY <1>1, <2>2, PrefixEnds
    <3> HIDE DEF b, e
    <3>3. Arguments(j, Reading("line", e, b)) = Reading("done", e, b)
      BY <1>1, <3>1, LineEnds
    <3>4. Arguments(j, x) = Reading("done", l + 1, args)
      BY <2>1, <3>1, <3>2, <3>3
    <3>5. QED
      BY <3>4 DEF Parsing
  <2>3. CASE k # m
    <3>1. At(j, e) = 32 /\ off[k + 1] = e
      BY <1>4, <2>3
    <3>2. k + 1 \in 1 .. m /\ (k + 1) - 1 = k
      BY <1>1, <2>3
    <3> HIDE DEF w
    <3>3. n + 1 <= off[k + 1]
      <4>1. n <= off[k] + 1
        BY <1>6
      <4>2. n + 1 <= e
        BY <2>1, <4>1
      <4> HIDE DEF e
      <4>3. QED
        BY <3>1, <4>2
    <3> HIDE DEF b, e
    <3>4. Arguments(j, Reading("line", e, b)) = Reading("line", e + 1, b)
      BY <3>1, LineBlank
    <3>5. Arguments(j, x) = Reading("line", off[k + 1] + 1, SubSeq(args, 1, (k + 1) - 1))
      BY <2>1, <3>1, <3>2, <3>4 DEF b
    <3>6. QED
      BY <3>2, <3>3, <3>5 DEF Parsing
  <2>4. QED
    BY <2>2, <2>3
<1>7. QED
  BY <1>2, <1>3, <1>5, <1>6 DEF Parsing

(* What sdscatrepr writes, joined by blanks, is read as it was.            *)
LEMMA LineQuotes ==
  ASSUME NEW args, args \in Seq(Seq(0 .. 255)),
         NEW j, j = sdsjoinsds([i \in DOMAIN args |-> sdscatrepr(args[i])], << 32 >>)
  PROVE  sdssplitargs(j) = [ok |-> TRUE, args |-> args]
<1> DEFINE m == Len(args)
           l == Len(j)
<1>1. PICK off : Joined(args, m, off, j)
  BY ReprsJoined
<1>2. m \in Nat /\ j \in Seq(Int) /\ l \in Nat
  <2>1. m \in Nat /\ j \in Seq(Int)
    BY <1>1 DEF Joined
  <2>2. QED
    BY <2>1
<1>3. PICK f : /\ f[0] = Reading("line", 1, <<>>)
               /\ \A n \in 0 .. l : f[n + 1] = Arguments(j, f[n])
               /\ sdssplitargs(j) = IF f[l + 1].mode = "done"
                                    THEN [ok |-> TRUE, args |-> f[l + 1].arg]
                                    ELSE [ok |-> FALSE, args |-> <<>>]
  BY <1>2, LineTurns
<1> HIDE DEF m
<1> DEFINE S == {n \in Nat : n <= l + 1 => Parsing(args, m, off, l, n, f[n])}
<1>4. 0 \in S
  <2>1. CASE m = 0
    <3>1. Parsing(args, m, off, l, 0, f[0])
      BY <1>3, <2>1 DEF Parsing
    <3>2. QED
      BY <3>1
  <2>2. CASE m # 0
    <3>1. 1 \in 1 .. m /\ 1 - 1 = 0
      BY <1>2, <2>2
    <3>2. off[1] = 0
      BY <1>1, <2>2 DEF Joined
    <3>3. off[1] + 1 = 1 /\ 0 <= off[1] /\ SubSeq(args, 1, 1 - 1) = <<>>
      BY <3>1, <3>2, PrefixEnds
    <3>4. f[0] = Reading("line", off[1] + 1, SubSeq(args, 1, 1 - 1))
      BY <1>3, <3>3
    <3>5. Parsing(args, m, off, l, 0, f[0])
      BY <3>1, <3>3, <3>4 DEF Parsing
    <3>6. QED
      BY <3>5
  <2>3. QED
    BY <2>1, <2>2
<1>5. ASSUME NEW n \in Nat, n \in S
      PROVE  n + 1 \in S
  <2>1. SUFFICES ASSUME n + 1 <= l + 1
                 PROVE  Parsing(args, m, off, l, n + 1, f[n + 1])
    OBVIOUS
  <2>2. n \in 0 .. l /\ n <= l + 1
    BY <1>2, <2>1
  <2>3. Parsing(args, m, off, l, n, f[n]) /\ f[n + 1] = Arguments(j, f[n])
    BY <1>3, <1>5, <2>2
  <2>4. l = Len(j)
    OBVIOUS
  <2> HIDE DEF l
  <2>5. Parsing(args, m, off, l, n + 1, Arguments(j, f[n]))
    BY <1>1, <2>3, <2>4, ParsingTurn
  <2>6. QED
    BY <2>3, <2>5
<1>6. Parsing(args, m, off, l, l + 1, f[l + 1])
  <2> HIDE DEF S
  <2>1. l + 1 \in Nat /\ l + 1 <= l + 1
    BY <1>2
  <2> HIDE DEF l
  <2>2. l + 1 \in S
    BY <1>4, <1>5, <2>1, SetInduction
  <2>3. QED
    BY <2>1, <2>2 DEF S
<1>7. ASSUME NEW k \in 1 .. m
      PROVE  ~(l + 1 <= off[k]) /\ ~(l + 1 <= off[k] + 1)
  <2> DEFINE r == sdscatrepr(args[k])
             w == Len(r)
             o == off[k]
  <2>1. o \in Nat /\ (o + 1) + w <= l + 1
    BY <1>1 DEF Joined
  <2>2. w \in Nat /\ w >= 2
    <3>1. args[k] \in Seq(0 .. 255)
      BY MemberOf DEF m
    <3>2. PICK g : Quotes(args[k], Len(args[k]), g, r)
      BY <3>1, ReprQuotes
    <3> DEFINE d == g[Len(args[k]) + 1]
    <3>3. d \in Nat /\ w = d + 2
      <4>1. Len(args[k]) \in Nat
        BY <3>1
      <4>2. Len(args[k]) + 1 \in 1 .. Len(args[k]) + 1
        BY <4>1
      <4> HIDE DEF r
      <4>3. QED
        BY <3>2, <4>2 DEF Quotes
    <3> HIDE DEF d, w
    <3>4. QED
      BY <3>3
  <2> HIDE DEF o, w, l
  <2>3. ~(l + 1 <= o) /\ ~(l + 1 <= o + 1)
    BY <1>2, <2>1, <2>2
  <2>4. QED
    BY <2>3 DEF o
<1>8. f[l + 1] = Reading("done", l + 1, args)
  <2>1. l + 1 # 0
    BY <1>2
  <2> HIDE DEF l
  <2>2. QED
    BY <1>6, <1>7, <2>1 DEF Parsing
<1>9. f[l + 1].mode = "done" /\ f[l + 1].arg = args
  BY <1>8 DEF Reading
<1>10. QED
  BY <1>3, <1>9

(* The characters of a line of bytes, or its end. *)
LEMMA AtIsByte ==
  ASSUME NEW t, t \in Seq(0 .. 255), NEW p
  PROVE  At(t, p) \in 0 .. 255
<1>1. CASE p \in DOMAIN t
  <2>1. p \in 1 .. Len(t)
    BY <1>1
  <2>2. t[p] \in 0 .. 255
    BY <2>1, MemberOf
  <2>3. QED
    BY <1>1, <2>2 DEF At
<1>2. CASE p \notin DOMAIN t
  BY <1>2 DEF At
<1>3. QED
  BY <1>1, <1>2

(* What two hexadecimal digits stand for. *)
LEMMA HexIsByte ==
  ASSUME NEW c, NEW d
  PROVE  16 * hex_digit_to_int(c) + hex_digit_to_int(d) \in 0 .. 255
<1>1. ASSUME NEW e
      PROVE  hex_digit_to_int(e) \in 0 .. 15
  <2>1. CASE e \in 48 .. 57
    <3>1. hex_digit_to_int(e) = e - 48
      BY <2>1 DEF hex_digit_to_int
    <3>2. QED
      BY <2>1, <3>1
  <2>2. CASE e \in 97 .. 102
    <3>1. hex_digit_to_int(e) = e - 87
      BY <2>2 DEF hex_digit_to_int
    <3>2. QED
      BY <2>2, <3>1
  <2>3. CASE e \in 65 .. 70
    <3>1. hex_digit_to_int(e) = e - 55
      BY <2>3 DEF hex_digit_to_int
    <3>2. QED
      BY <2>3, <3>1
  <2>4. CASE e \notin 48 .. 57 /\ e \notin 97 .. 102 /\ e \notin 65 .. 70
    <3>1. hex_digit_to_int(e) = 0
      BY <2>4, Zenon DEF hex_digit_to_int
    <3>2. QED
      BY <3>1
  <2>5. QED
    BY <2>1, <2>2, <2>3, <2>4
<1>2. QED
  <2>1. hex_digit_to_int(c) \in 0 .. 15 /\ hex_digit_to_int(d) \in 0 .. 15
    BY <1>1
  <2> DEFINE u == hex_digit_to_int(c)
             v == hex_digit_to_int(d)
  <2> HIDE DEF u, v
  <2>2. u \in 0 .. 15 /\ v \in 0 .. 15
    BY <2>1 DEF u, v
  <2>3. 16 * u + v \in 0 .. 255
    BY <2>2
  <2>4. QED
    BY <2>3 DEF u, v

(* What a character behind a backslash stands for. *)
LEMMA UnescapedIsByte ==
  ASSUME NEW c \in 0 .. 255
  PROVE  Unescaped(c) \in 0 .. 255
<1>1. CASE \E b \in DOMAIN EscapeLetter : EscapeLetter[b] = c
  <2> DEFINE B == CHOOSE b \in DOMAIN EscapeLetter : EscapeLetter[b] = c
  <2>1. B \in DOMAIN EscapeLetter
    BY <1>1
  <2>2. DOMAIN EscapeLetter = {10, 13, 9, 7, 8}
    BY DEF EscapeLetter
  <2>3. Unescaped(c) = B
    BY <1>1 DEF Unescaped
  <2> HIDE DEF B
  <2>4. QED
    BY <2>1, <2>2, <2>3
<1>2. CASE ~\E b \in DOMAIN EscapeLetter : EscapeLetter[b] = c
  BY <1>2 DEF Unescaped
<1>3. QED
  BY <1>1, <1>2

(* What a turn adds to the argument, if anything. *)
Added(t, p) ==
  {At(t, p), Apostrophe, Unescaped(At(t, p + 1)),
   16 * hex_digit_to_int(At(t, p + 2)) + hex_digit_to_int(At(t, p + 3))}

(* A turn adds one of those or nothing. *)
LEMMA ReadAdds ==
  ASSUME NEW t, NEW x
  PROVE  Read(t, x).arg = x.arg \/ \E c \in Added(t, x.p) : Read(t, x).arg = Append(x.arg, c)
<1> DEFINE c == At(t, x.p)
           d == At(t, x.p + 1)
           e == 16 * hex_digit_to_int(At(t, x.p + 2)) + hex_digit_to_int(At(t, x.p + 3))
           y == Read(t, x)
<1>1. \A m, p, a : Reading(m, p, a).arg = a
  BY DEF Reading
<1>2. \A p, a : Closed(t, p, a).arg = a
  BY <1>1 DEF Closed
<1>3. \/ y = x \/ y = Closed(t, x.p, x.arg)
      \/ \E m, p : y = Reading(m, p, x.arg)
      \/ \E m, p : y = Reading(m, p, Append(x.arg, e))
      \/ \E m, p : y = Reading(m, p, Append(x.arg, Unescaped(d)))
      \/ \E m, p : y = Reading(m, p, Append(x.arg, Apostrophe))
      \/ \E m, p : y = Reading(m, p, Append(x.arg, c))
  BY DEF Read
<1>4. c \in Added(t, x.p) /\ Apostrophe \in Added(t, x.p) /\ Unescaped(d) \in Added(t, x.p)
      /\ e \in Added(t, x.p)
  BY DEF Added
<1> HIDE DEF c, d, e, y
<1>5. CASE y = x
  BY <1>5 DEF y
<1>6. CASE y = Closed(t, x.p, x.arg)
  BY <1>2, <1>6 DEF y
<1>7. CASE \E m, p : y = Reading(m, p, x.arg)
  BY <1>1, <1>7 DEF y
<1>8. ASSUME NEW z \in Added(t, x.p), \E m, p : y = Reading(m, p, Append(x.arg, z))
      PROVE  \E a \in Added(t, x.p) : Read(t, x).arg = Append(x.arg, a)
  <2> DEFINE w == Append(x.arg, z)
  <2>1. \E m, p : y = Reading(m, p, w)
    BY <1>8
  <2> HIDE DEF w
  <2>2. y.arg = w
    BY <1>1, <2>1
  <2>3. QED
    BY <2>2 DEF y, w
<1>9. QED
  BY <1>3, <1>4, <1>5, <1>6, <1>7, <1>8

(* An argument of a line of bytes is a text of bytes. *)
LEMMA TokenIsBytes ==
  ASSUME NEW t, t \in Seq(0 .. 255), NEW p
  PROVE  Token(t, p).arg \in Seq(0 .. 255)
<1>1. t \in Seq(Int) /\ Len(t) \in Nat
  <2>1. 0 .. 255 \subseteq Int
    OBVIOUS
  <2>2. t \in Seq(Int)
    BY <2>1, WiderSeq
  <2>3. QED
    BY <2>2
<1>2. PICK f : /\ f[0] = Reading("plain", p, <<>>)
               /\ \A n \in 0 .. Len(t) : f[n + 1] = Read(t, f[n])
               /\ Token(t, p) = f[Len(t) + 1]
  BY <1>1, TokenTurns
<1>3. ASSUME NEW x, x.arg \in Seq(0 .. 255)
      PROVE  Read(t, x).arg \in Seq(0 .. 255)
  <2>1. Added(t, x.p) \subseteq 0 .. 255
    <3>1. At(t, x.p) \in 0 .. 255 /\ At(t, x.p + 1) \in 0 .. 255
      BY AtIsByte
    <3>2. Unescaped(At(t, x.p + 1)) \in 0 .. 255
      BY <3>1, UnescapedIsByte
    <3>3. 16 * hex_digit_to_int(At(t, x.p + 2)) + hex_digit_to_int(At(t, x.p + 3)) \in 0 .. 255
      BY HexIsByte
    <3>4. Apostrophe \in 0 .. 255
      BY DEF Apostrophe
    <3>5. QED
      BY <3>1, <3>2, <3>3, <3>4, Zenon DEF Added
  <2>2. Read(t, x).arg = x.arg \/ \E c \in 0 .. 255 : Read(t, x).arg = Append(x.arg, c)
    BY <2>1, ReadAdds
  <2>3. QED
    BY <1>3, <2>2, LongerSeq
<1> DEFINE S == {n \in Nat : n <= Len(t) + 1 => f[n].arg \in Seq(0 .. 255)}
<1>4. 0 \in S
  <2>1. f[0].arg = <<>>
    BY <1>2 DEF Reading
  <2>2. <<>> \in Seq(0 .. 255)
    OBVIOUS
  <2>3. QED
    BY <2>1, <2>2
<1>5. ASSUME NEW n \in Nat, n \in S
      PROVE  n + 1 \in S
  <2>1. SUFFICES ASSUME n + 1 <= Len(t) + 1
                 PROVE  f[n + 1].arg \in Seq(0 .. 255)
    OBVIOUS
  <2>2. n \in 0 .. Len(t) /\ n <= Len(t) + 1
    BY <1>1, <2>1
  <2>3. f[n].arg \in Seq(0 .. 255) /\ f[n + 1] = Read(t, f[n])
    BY <1>2, <1>5, <2>2
  <2>4. Read(t, f[n]).arg \in Seq(0 .. 255)
    BY <1>3, <2>3
  <2>5. QED
    BY <2>3, <2>4
<1>6. f[Len(t) + 1].arg \in Seq(0 .. 255)
  <2> HIDE DEF S
  <2>1. Len(t) + 1 \in Nat /\ Len(t) + 1 <= Len(t) + 1
    BY <1>1
  <2>2. Len(t) + 1 \in S
    BY <1>4, <1>5, <2>1, SetInduction
  <2>3. QED
    BY <2>1, <2>2 DEF S
<1>7. QED
  BY <1>2, <1>6

(* sdssplitargs refuses a line of bytes or reads texts of bytes from it. *)
LEMMA ArgumentsAreBytes ==
  ASSUME NEW t, t \in Seq(0 .. 255)
  PROVE  \/ sdssplitargs(t) = [ok |-> FALSE, args |-> <<>>]
         \/ \E args \in Seq(Seq(0 .. 255)) : sdssplitargs(t) = [ok |-> TRUE, args |-> args]
<1> DEFINE B == Seq(0 .. 255)
<1>1. t \in Seq(Int) /\ Len(t) \in Nat
  <2>1. 0 .. 255 \subseteq Int
    OBVIOUS
  <2>2. t \in Seq(Int)
    BY <2>1, WiderSeq
  <2>3. QED
    BY <2>2
<1>2. PICK f : /\ f[0] = Reading("line", 1, <<>>)
               /\ \A n \in 0 .. Len(t) : f[n + 1] = Arguments(t, f[n])
               /\ sdssplitargs(t) = IF f[Len(t) + 1].mode = "done"
                                    THEN [ok |-> TRUE, args |-> f[Len(t) + 1].arg]
                                    ELSE [ok |-> FALSE, args |-> <<>>]
  BY <1>1, LineTurns
<1>3. \A p : Token(t, p).arg \in B
  BY TokenIsBytes
<1> HIDE DEF B
<1>4. ASSUME NEW x, x.arg \in Seq(B)
      PROVE  Arguments(t, x).arg \in Seq(B)
  <2> DEFINE b == Token(t, x.p).arg
             y == Arguments(t, x)
  <2>1. \A m, p, z : Reading(m, p, z).arg = z
    BY DEF Reading
  <2>2. \/ y = x \/ \E m, p : y = Reading(m, p, x.arg)
        \/ \E m, p : y = Reading(m, p, Append(x.arg, b))
        \/ \E m, p : y = Reading(m, p, <<>>)
    BY DEF Arguments
  <2>3. b \in B
    BY <1>3
  <2> HIDE DEF y, b
  <2>4. CASE y = x
    BY <1>4, <2>4 DEF y
  <2>5. CASE \E m, p : y = Reading(m, p, x.arg)
    <3>1. y.arg = x.arg
      BY <2>1, <2>5
    <3>2. QED
      BY <1>4, <3>1 DEF y
  <2>6. CASE \E m, p : y = Reading(m, p, Append(x.arg, b))
    <3> DEFINE w == Append(x.arg, b)
    <3>1. y.arg = w
      <4>1. \E m, p : y = Reading(m, p, w)
        BY <2>6
      <4> HIDE DEF w
      <4>2. QED
        BY <2>1, <4>1
    <3>2. y.arg \in Seq(B)
      BY <1>4, <2>3, <3>1, LongerSeq
    <3>3. QED
      BY <3>2 DEF y
  <2>7. CASE \E m, p : y = Reading(m, p, <<>>)
    <3>1. y.arg = <<>>
      BY <2>1, <2>7
    <3>2. <<>> \in Seq(B)
      OBVIOUS
    <3>3. QED
      BY <3>1, <3>2 DEF y
  <2>8. QED
    BY <2>2, <2>4, <2>5, <2>6, <2>7
<1> DEFINE S == {n \in Nat : n <= Len(t) + 1 => f[n].arg \in Seq(B)}
<1>5. 0 \in S
  <2>1. f[0].arg = <<>>
    BY <1>2 DEF Reading
  <2>2. <<>> \in Seq(B)
    OBVIOUS
  <2>3. QED
    BY <2>1, <2>2
<1>6. ASSUME NEW n \in Nat, n \in S
      PROVE  n + 1 \in S
  <2>1. SUFFICES ASSUME n + 1 <= Len(t) + 1
                 PROVE  f[n + 1].arg \in Seq(B)
    OBVIOUS
  <2>2. n \in 0 .. Len(t) /\ n <= Len(t) + 1
    BY <1>1, <2>1
  <2>3. f[n].arg \in Seq(B) /\ f[n + 1] = Arguments(t, f[n])
    BY <1>2, <1>6, <2>2
  <2>4. Arguments(t, f[n]).arg \in Seq(B)
    BY <1>4, <2>3
  <2>5. QED
    BY <2>3, <2>4
<1>7. f[Len(t) + 1].arg \in Seq(B)
  <2> HIDE DEF S
  <2>1. Len(t) + 1 \in Nat /\ Len(t) + 1 <= Len(t) + 1
    BY <1>1
  <2>2. Len(t) + 1 \in S
    BY <1>5, <1>6, <2>1, SetInduction
  <2>3. QED
    BY <2>1, <2>2 DEF S
<1>8. CASE f[Len(t) + 1].mode = "done"
  BY <1>2, <1>7, <1>8 DEF B
<1>9. CASE f[Len(t) + 1].mode # "done"
  BY <1>2, <1>9
<1>10. QED
  BY <1>8, <1>9

(* What sdscatrepr writes, sdssplitargs reads (sds.c:858, 933). *)
LEMMA ReprSound ==
  ASSUME line \in Seq(0 .. 255)
  PROVE  ReprReadsBack
<1>1. sdssplitargs(sdscatrepr(line)) = [ok |-> TRUE, args |-> <<line>>]
  <2> DEFINE one == <<line>>
             r == sdscatrepr(line)
             reprs == [i \in DOMAIN one |-> sdscatrepr(one[i])]
             j == sdsjoinsds(reprs, <<32>>)
  <2>1. one \in Seq(Seq(0 .. 255)) /\ DOMAIN one = 1 .. 1 /\ one[1] = line
    OBVIOUS
  <2>2. sdssplitargs(j) = [ok |-> TRUE, args |-> one]
    <3> HIDE DEF one
    <3>1. QED
      BY <2>1, LineQuotes
  <2>3. r \in Seq(Int)
    BY ReprQuotes DEF Quotes
  <2>4. j = r
    <3>1. reprs = <<r>>
      BY <2>1
    <3> HIDE DEF reprs, r
    <3>2. <<>> \in Seq(Seq(Int)) /\ <<32>> \in Seq(Int) /\ Append(<<>>, r) = <<r>>
      BY <2>3
    <3>3. sdsjoinsds(Append(<<>>, r), <<32>>) = FlattenSeq(Behind(<<>>, <<32>>)) \o r
      BY <2>3, <3>2, JoinedBehind
    <3>4. Behind(<<>>, <<32>>) = <<>> /\ FlattenSeq(<<>>) = <<>> /\ <<>> \o r = r
      <4>1. Behind(<<>>, <<32>>) = <<>>
        BY DEF Behind
      <4>2. FlattenSeq(<<>>) = <<>>
        BY DEF FlattenSeq
      <4>3. QED
        BY <2>3, <4>1, <4>2
    <3>5. QED
      BY <3>1, <3>2, <3>3, <3>4
  <2> HIDE DEF j, r
  <2>5. QED
    BY <2>2, <2>4 DEF r
<1>2. ASSUME NEW read, read = sdssplitargs(line), read.ok
      PROVE  sdssplitargs(sdsjoinsds([i \in DOMAIN read.args |-> sdscatrepr(read.args[i])], <<32>>))
               = read
  <2>1. PICK args \in Seq(Seq(0 .. 255)) : read = [ok |-> TRUE, args |-> args]
    <3>1. \/ read = [ok |-> FALSE, args |-> <<>>]
          \/ \E args \in Seq(Seq(0 .. 255)) : read = [ok |-> TRUE, args |-> args]
      BY <1>2, ArgumentsAreBytes
    <3>2. read # [ok |-> FALSE, args |-> <<>>]
      BY <1>2
    <3>3. QED
      BY <3>1, <3>2
  <2>2. read.args = args
    BY <2>1
  <2>3. sdssplitargs(sdsjoinsds([i \in DOMAIN args |-> sdscatrepr(args[i])], <<32>>))
          = [ok |-> TRUE, args |-> args]
    BY <2>1, LineQuotes
  <2>4. QED
    BY <2>1, <2>2, <2>3
<1>3. QED
  BY <1>1, <1>2 DEF ReprReadsBack

----------------------------------------------------------------------------
(* The runs of TxtSpec. *)

(* The line is over the alphabet, the number within its width. *)
TxtInv == line \in Seq(Alphabet) /\ number \in -Half .. Half - 1

(* It holds at first. *)
LEMMA TxtInitInv == TxtInit => TxtInv
<1>1. Half \in Nat \ {0}
  BY AlphabetAssumption DEF AlphabetAssumption
<1>2. ASSUME TxtInit
      PROVE  TxtInv
  <2>1. line = <<>> /\ number = 0
    BY <1>2 DEF TxtInit
  <2>2. line \in Seq(Alphabet)
    BY <2>1
  <2>3. 0 \in -Half .. Half - 1
    BY <1>1
  <2>4. QED
    BY <2>1, <2>2, <2>3 DEF TxtInv
<1>3. QED
  BY <1>2

(* Every step keeps it. *)
LEMMA TxtNextInv == TxtInv /\ [TxtNext]_txt => TxtInv'
<1>1. SUFFICES ASSUME TxtInv, [TxtNext]_txt
               PROVE  TxtInv'
  OBVIOUS
<1>2. CASE NextCharacter
  <2>1. PICK c \in Alphabet : line' = Append(line, c) /\ number' = number
    BY <1>2 DEF NextCharacter
  <2>2. line' \in Seq(Alphabet)
    BY <1>1, <2>1 DEF TxtInv
  <2>3. QED
    BY <1>1, <2>1, <2>2 DEF TxtInv
<1>3. CASE NextNumber
  BY <1>1, <1>3 DEF NextNumber, TxtInv
<1>4. CASE UNCHANGED txt
  BY <1>1, <1>4 DEF txt, TxtInv
<1>5. QED
  BY <1>1, <1>2, <1>3, <1>4 DEF TxtNext

(* It holds in every run. *)
LEMMA TxtAlways == TxtSpec => []TxtInv
<1>1. QED
  BY TxtInitInv, TxtNextInv, PTL DEF TxtSpec

(* So the line is a text of bytes. *)
LEMMA LineIsText ==
  ASSUME TxtInv
  PROVE  line \in Seq(0 .. 255) /\ line \in Seq(Int)
<1>1. line \in Seq(Alphabet)
  BY DEF TxtInv
<1>2. Alphabet \subseteq 0 .. 255
  BY AlphabetAssumption DEF AlphabetAssumption
<1>3. Alphabet \subseteq Int
  BY <1>2
<1>4. line \in Seq(0 .. 255)
  <2> DEFINE bytes == 0 .. 255
  <2>1. Alphabet \subseteq bytes
    BY <1>2
  <2> HIDE DEF bytes
  <2>2. line \in Seq(bytes)
    BY ONLY <1>1, <2>1, WiderSeq
  <2>3. QED
    BY <2>2 DEF bytes
<1>5. line \in Seq(Int)
  BY ONLY <1>1, <1>3, WiderSeq
<1>6. QED
  BY <1>4, <1>5

(* sdscatvprintf (sds.c:501) appends all that was printed up to its first  *)
(* NUL, whatever the size of the static buffer and the length of the       *)
(* output: doubling the buffer ends, and at a buffer that held it all.     *)
THEOREM PrintsItAll == TxtSpec => []PrintsAll
<1>1. ASSUME TxtInv
      PROVE  PrintsAll
  <2>1. line \in Seq(Int)
    BY <1>1, LineIsText
  <2>2. \A fmtlen \in 0 .. Len(line) : fmtlen \in Nat
    OBVIOUS
  <2>3. QED
    BY <2>1, <2>2, PrintedWhole DEF PrintsAll
<1>2. TxtInv => PrintsAll
  BY <1>1
<1>3. QED
  BY <1>2, TxtAlways, PTL

(* A line of any length split by sdssplitlen (sds.c:795) at any separator  *)
(* the runs take, even one that overlaps itself, is joined again by        *)
(* sdsjoinsds (sds.c:1080); no piece holds the separator, and every piece  *)
(* has a slot in the array.                                                *)
THEOREM SplitsJoinAgain == TxtSpec => []SplitJoins
<1>1. TxtInv => SplitJoins
  BY LineIsText, SplitsSound
<1>2. QED
  BY <1>1, TxtAlways, PTL

(* The text sdsll2str (sds.c:429) writes of a number reads as that number  *)
(* in decimal, with a sign when it is negative and no zero in front, down  *)
(* to the least number, whose magnitude has no positive counterpart, and   *)
(* whatever the width of the integers.                                     *)
THEOREM NumbersAreWrittenInDecimal == TxtSpec => []NumbersReadBack
<1>1. TxtInv => NumbersReadBack
  BY NumbersSound DEF TxtInv
<1>2. QED
  BY <1>1, TxtAlways, PTL

(* sdssplitargs (sds.c:933) reads what sdscatrepr (sds.c:858) writes of    *)
(* any text of bytes as that text, and the arguments it reads from any     *)
(* line it reads again as the same from the line of their representations. *)
THEOREM ReprsAreReadBack == TxtSpec => []ReprReadsBack
<1>1. TxtInv => ReprReadsBack
  BY LineIsText, ReprSound
<1>2. QED
  BY <1>1, TxtAlways, PTL

=============================================================================
