------------------------------- MODULE KHash -------------------------------
(***************************************************************************)
(* The hash maps of a dehydrator (src/src/khash.h): open addressing with   *)
(* triangular probing, deletion by tombstones, and rehashing in place.     *)
(* timeout_queues and element_nodes are such maps.                         *)
(*                                                                         *)
(* The module inserts a key only after a lookup has not found it, deletes  *)
(* the bucket a lookup or a loop over the buckets has found, and never     *)
(* asks for fewer buckets.  What a bucket that is not live still holds is  *)
(* never read and left out.                                                *)
(***************************************************************************)
EXTENDS Integers, FiniteSets, FiniteSetsExt, Functions

CONSTANTS
  Key,
  Value,
  Hash     \* the hash of each key

ASSUME HashAssumption == Hash \in [Key -> Nat]

VARIABLE h \* the kh_..._t: n_buckets, size, n_occupied, upper_bound, and
           \* the flags and the entries of its buckets

----------------------------------------------------------------------------
kh_init ==
  [n_buckets |-> 0, size |-> 0, n_occupied |-> 0, upper_bound |-> 0,
   flags |-> <<>>, entry |-> <<>>]

Buckets(t) == 0 .. t.n_buckets - 1

Live(t) == {i \in Buckets(t) : t.flags[i] = "live"}

Holds(t, i, key) == t.flags[i] = "live" /\ t.entry[i].key = key

(* The bucket looked at after s steps: each step is one longer than the    *)
(* last.                                                                   *)
Probe(n, key, s) == (Hash[key] + (s * (s + 1)) \div 2) % n

(* How far a search goes: to an empty bucket, the key, or back to where it *)
(* began.                                                                  *)
SearchEnd(t, key) ==
  Min({s \in 0 .. 2 * t.n_buckets :
         LET i == Probe(t.n_buckets, key, s)
         IN  \/ t.flags[i] = "empty"
             \/ Holds(t, i, key)
             \/ s > 0 /\ i = Probe(t.n_buckets, key, 0)})

(* The bucket of a key, or n_buckets. *)
kh_get(t, key) ==
  IF t.n_buckets = 0 THEN 0
  ELSE LET i == Probe(t.n_buckets, key, SearchEnd(t, key))
       IN  IF Holds(t, i, key) THEN i ELSE t.n_buckets

----------------------------------------------------------------------------
(* kh_resize. *)

(* The numbers of buckets: powers of two.  A khint_t, of 32 bits, ends the  *)
(* doubling, and here it ends at 2^30, which leaves it room.               *)
Size[k \in 2 .. 30] == IF k = 2 THEN 4 ELSE 2 * Size[k - 1]

Sizes == {Size[k] : k \in 2 .. 30}

(* So many keys that their table never needs more buckets than that. *)
ASSUME KeysFit == IsFiniteSet(Key) /\ Cardinality(Key) <= Size[29]

(* kroundup32, and at least 4. *)
RoundUp(n) == Min({m \in Sizes : m >= n})

(* 77 percent, rounded. *)
UpperBound(n) == (77 * n + 50) \div 100

(* The free bucket of the new table for a key. *)
NewBucket(w, new, key) ==
  Probe(new, key,
        Min({s \in 0 .. 2 * new : w.new_flags[Probe(new, key, s)] = "empty"}))

(* Mutant: keys are exchanged and values are not. *)
Place_KeyOnly(w, new) ==
  LET i      == NewBucket(w, new, w.hand.key)
      kicked == i \in DOMAIN w.flags /\ w.flags[i] = "live"
      placed == [w EXCEPT !.new_flags[i] = "live", !.entry[i] = w.hand]
  IN  IF kicked
        THEN [placed EXCEPT !.flags[i] = "deleted", !.hand.key = w.entry[i].key]
        ELSE [placed EXCEPT !.done = TRUE]

(* The kick-out: the entry in hand goes to its new bucket; if an entry of  *)
(* the old table is still there, that one is taken in hand.                *)
Place(w, new) ==
  LET i      == NewBucket(w, new, w.hand.key)
      kicked == i \in DOMAIN w.flags /\ w.flags[i] = "live"
      placed == [w EXCEPT !.new_flags[i] = "live", !.entry[i] = w.hand]
  IN  IF kicked
        THEN [placed EXCEPT !.flags[i] = "deleted", !.hand = w.entry[i]]
        ELSE [placed EXCEPT !.done = TRUE]

(* The entry of old bucket j, if it is still there, and the ones it kicks  *)
(* out, one after the other.                                               *)
Move(w, j, new) ==
  IF w.flags[j] # "live" THEN w
  ELSE LET after[k \in 0 .. Cardinality(DOMAIN w.flags)] ==
             IF k = 0
               THEN [w EXCEPT !.flags[j] = "deleted", !.hand = w.entry[j],
                              !.done = FALSE]
             ELSE LET before == after[k - 1]
                  IN  IF before.done THEN before ELSE Place(before, new)
       IN  after[Cardinality(DOMAIN w.flags)]

NoEntry == [key |-> "none"]

Rehash(t, new) ==
  LET start == [flags     |-> t.flags,
                new_flags |-> [i \in 0 .. new - 1 |-> "empty"],
                entry     |-> [i \in 0 .. new - 1 |->
                                 IF i < t.n_buckets THEN t.entry[i] ELSE NoEntry],
                hand      |-> NoEntry,
                done      |-> TRUE]
      moved[j \in 0 .. t.n_buckets] ==
        IF j = 0 THEN start
        ELSE LET before == moved[j - 1] IN Move(before, j - 1, new)
      last == moved[t.n_buckets]
  IN  [n_buckets   |-> new,
       size        |-> t.size,
       n_occupied  |-> t.size,
       upper_bound |-> UpperBound(new),
       flags       |-> last.new_flags,
       entry       |-> [i \in 0 .. new - 1 |->
                          IF last.new_flags[i] = "live" THEN last.entry[i]
                          ELSE NoEntry]]

(* A size that is too small for what the table holds is not taken. *)
kh_resize(t, n) ==
  IF t.size >= UpperBound(RoundUp(n)) THEN t ELSE Rehash(t, RoundUp(n))

----------------------------------------------------------------------------
(* kh_put. *)

(* Mutant: no rehashing as long as there is room for the keys. *)
MakeRoom_Late(t) ==
  IF t.size < t.upper_bound THEN t ELSE kh_resize(t, t.n_buckets + 1)

(* When tombstones and entries reach the bound, the table is cleared of    *)
(* tombstones if it is less than half full, and grows otherwise.           *)
MakeRoom(t) ==
  IF t.n_occupied < t.upper_bound THEN t
  ELSE IF t.n_buckets > 2 * t.size THEN kh_resize(t, t.n_buckets - 1)
  ELSE kh_resize(t, t.n_buckets + 1)

(* The key's bucket; else the last tombstone met on the way to the end of  *)
(* the search; else that end.                                              *)
BucketFor(t, key) ==
  LET end    == SearchEnd(t, key)
      bucket == [s \in 0 .. end |-> Probe(t.n_buckets, key, s)]
      tombs  == {s \in 0 .. end - 1 : t.flags[bucket[s]] = "deleted"}
  IN  IF Holds(t, bucket[end], key) \/ tombs = {} THEN bucket[end]
      ELSE bucket[Max(tombs)]

(* kh_put, and the assignment to kh_value that follows it. *)
kh_put(t0, key, value) ==
  LET t == MakeRoom(t0)
      x == BucketFor(t, key)
  IN  [t EXCEPT !.flags[x]   = "live",
                !.entry[x]   = [key |-> key, value |-> value],
                !.size       = @ + (IF t.flags[x] = "live" THEN 0 ELSE 1),
                !.n_occupied = @ + (IF t.flags[x] = "empty" THEN 1 ELSE 0)]

(* Mutant: a bucket is freed without a tombstone. *)
kh_del_NoTomb(t, x) ==
  IF x \notin Live(t) THEN t
  ELSE [t EXCEPT !.flags[x] = "empty", !.entry[x] = NoEntry, !.size = @ - 1]

kh_del(t, x) ==
  IF x \notin Live(t) THEN t
  ELSE [t EXCEPT !.flags[x] = "deleted", !.entry[x] = NoEntry, !.size = @ - 1]

----------------------------------------------------------------------------
(* The module's use of a map. *)

(* Look up, and insert what is not there. *)
Insert(key, value) ==
  /\ kh_get(h, key) = h.n_buckets
  /\ h' = kh_put(h, key, value)

(* Look up, and delete what is found: kh_del ignores n_buckets. *)
Discard(key) == h' = kh_del(h, kh_get(h, key))

(* The loop of POLL: it visits every bucket in turn and deletes some while *)
(* it goes on.                                                             *)
Swept(t, keys) ==
  LET after[j \in 0 .. t.n_buckets] ==
        IF j = 0 THEN t
        ELSE LET before == after[j - 1]
             IN  IF j - 1 \in Live(before) /\ before.entry[j - 1].key \in keys
                   THEN kh_del(before, j - 1) ELSE before
  IN  after[t.n_buckets]

Sweep(keys) == h' = Swept(h, keys)

MapInit == h = kh_init

MapNext ==
  \/ \E key \in Key, value \in Value : Insert(key, value)
  \/ \E key \in Key : Discard(key)
  \/ \E keys \in SUBSET Key : Sweep(keys)

MapSpec == MapInit /\ [][MapNext]_h

----------------------------------------------------------------------------
(* Properties. *)

(* The counters say what the flags say, and there is always an empty       *)
(* bucket left: the searches of kh_put and kh_resize, of which the second  *)
(* has no other way to end, end.                                           *)
CountersExact ==
  /\ h.size = Cardinality(Live(h))
  /\ h.n_occupied = Cardinality({i \in Buckets(h) : h.flags[i] # "empty"})
  /\ h.n_buckets # 0 => h.n_occupied < h.n_buckets

(* A lookup finds exactly the keys that are there, whatever tombstones and *)
(* colliding keys a sequence of insertions, deletions and rehashings has   *)
(* left on the way; and no key is there twice.                             *)
LookupsFind ==
  /\ \A i \in Live(h) : kh_get(h, h.entry[i].key) = i
  /\ \A key \in Key : kh_get(h, key) \in Live(h) \cup {h.n_buckets}

(* The table is a map: what the other modules write as a function. *)
ContentsOf(t) ==
  [key \in {t.entry[i].key : i \in Live(t)} |->
     t.entry[CHOOSE i \in Live(t) : t.entry[i].key = key].value]

Contents == ContentsOf(h)

Map == INSTANCE HashMap WITH map <- Contents

Extended(map, key, value) ==
  [k \in DOMAIN map \cup {key} |-> IF k = key THEN value ELSE map[k]]

Cut(map, keys) == [k \in DOMAIN map \ keys |-> map[k]]

(* Insertions and deletions change the keys they are given and no other,   *)
(* and a rehashing changes nothing.  The steps of HashMap name no key, so  *)
(* the second half says what each call would make of every table.          *)
ImplementsMap ==
  /\ Map!Spec
  /\ [](/\ \A key \in Key, value \in Value :
             kh_get(h, key) = h.n_buckets =>
               ContentsOf(kh_put(h, key, value)) = Extended(Contents, key, value)
        /\ \A key \in Key : ContentsOf(kh_del(h, kh_get(h, key))) = Cut(Contents, {key})
        /\ \A keys \in SUBSET Key : ContentsOf(Swept(h, keys)) = Cut(Contents, keys))
============================================================================
