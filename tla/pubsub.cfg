\* Two consumers of one dehydrator, in a world in which POLL may not reach the
\* server and in one in which everything goes wrong.
CONSTANTS
  Consumer = {c1, c2}
  Message = {m1, m2, m3}
  Ttl = {0, 2}
  Worlds = {{"refused"}, {"refused", "lost", "dies", "resent", "killed"}}
  MaxClock = 2
SPECIFICATION FairSpec
INVARIANTS OnePublisher NothingLost
PROPERTY EventuallyPublished
