SPECIFICATION FairSpec
CONSTANTS
  Searchers = {s1, s2}
  Openers = {o1}
  Loops = {l1, l2}
  MaxPosts = 1
CHECK_DEADLOCK FALSE
INVARIANTS FlagsAreTrue OneLoop
PROPERTIES ConnectionComes PauseSilences ImplementsConnection
