\* Five nodes: a list of three has a head, a middle and a tail, and there is
\* room for a second one.  Five keys, of which 0, 8 and 16, and 3 and 11, meet:
\* the table grows from 4 to 8 and 16 buckets, kicks entries out as it is
\* rehashed (3 and 11 take turns at bucket 3), and is cleared of tombstones.
\* Two seconds whose ids overlap, and a dehydrator that holds three of them.
\* Strings that cross every header's size; vectors and queues with ties; a
\* table of INFO that grows twice, and a long long of three values each side.
CONSTANTS
  Addr = {1, 2, 3, 4, 5}
  Ttl = {t1, t2}
  NULL = NULL
  Key = {0, 3, 8, 11, 16}
  Value = {u, v}
  Hash <- IdentityHash
  Dehydrators = {d1}
  RAND_MAX = 10
  IdLength = 2
  IdChars = 3
  Values <- TwoSeconds
  MaxHeld = 3
  MaxSecond = 1
  Char = {97, 32}
  Room5 = 3
  Room8 = 6
  Room16 = 9
  MaxPrealloc = 4
  MaxText = 5
  Alphabet = {0, 10, 32, 34, 39, 92, 97, 120, 200}
  MaxLine = 4
  Half = 128
  Slots = 2
  StaticBuffer = 2
  Elem = {0, 1, 3}
  Rank <- HalfOf
  MaxCap = 5
  MaxQueue = 6
  MaxArgs = 3
  MaxFormat = 2
  MaxLines = 2
  MaxPath = 4
  Word = {"token", "int", "real"}
  Letter = {"l", "d", "*", "?"}
  InfoValue <- InfoValues
  FirstCap = 1
  LongMax = 3
SPECIFICATION FoundationsSpec
\* A string that is full, or a helper that has answered, may stop.
CHECK_DEADLOCK FALSE
INVARIANTS WellLinked NoLeak CountersExact LookupsFind IdsOfTheAlphabet HoldsText SplitJoins ReprReadsBack NumbersReadBack PrintsAll HoldsList HeapInOrder ParsesFormat InfoIsRead PathsCompose
PROPERTIES ImplementsQueues ImplementsMap GivesAnId HeapKeepsElements QueueIsBag
