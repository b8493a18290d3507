\* Three keys over three home bins and one overflow bin, plus the bin past the
\* end: collisions, an overflow bin that is itself the home of another key, and
\* deletions in between, over every hash function. Three callbacks registered up
\* to five times in all, several times each, in every order. A list that is full of
\* functions nobody wants ends a behaviour: that is the bound, not the code.
CHECK_DEADLOCK FALSE
SPECIFICATION MCSpec
CONSTANTS
  Keys = {"ka", "kb", "kc"}
  Values = {1, 2}
  LongKeys = {"kc"}
  CapTotal = 4
  NoKey = "none"
  Callbacks = {"f", "g", "h"}
  MaxHooks = 5
  Jobs <- MCJobs
  BufSize = 9
  JunkLens = {0, 2, 6}
  Names <- MCNames
  Needles <- MCNeedles
  MaxU32 = 1000
INVARIANTS  OnlyFirstStays TextIsExact NamesComeApart
