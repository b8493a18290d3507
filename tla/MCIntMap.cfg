\* The first client: four keys, three of them enough to fill the first table (3
\* cells, all reachable by the hash) and to force the rehash into the second (6
\* cells, 5 reachable); every hash function into HashRange: 0 and 3 collide before
\* the growth and part after it.
\* The second client: two keys, set twice and deleted at will, in 4 cells.
SPECIFICATION MCSpec
CONSTANTS
  Keys = {0, 1, 2, 3}
  Values = {1, 2}
  HashRange = {0, 3, 4}
  Inits <- MCInits
  MaxCap = 6
  AnyKeys = {1, 2}
  AnyHash = {0, 3}
INVARIANTS FreshSetsSucceed ChainsEnd NoForeignValue
PROPERTY RefinesStore
\* The first client's keys run out.
CHECK_DEADLOCK FALSE
