\* Two dehydrators, or one whose element is taken, within a second.
CONSTANTS
  Dehydrators = {d1, d2}
  RAND_MAX = 10
  IdLength = 2
  IdChars = 3
  Values <- TwoSeconds
  MaxHeld = 2
  MaxSecond = 1
SPECIFICATION IdSpec
PROPERTY GuidsAreUnique
