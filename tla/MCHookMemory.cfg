SPECIFICATION EitherSpec
CONSTANTS
  Mode = {"ptr", "cg"}
  K = 1
  BBCtxPlusOne = 1
  CGCtxPlusOne = 2
  Funcs = {11, 12}
  Sites = {21, 22}
  Pointers = {31}
  StackAddrs = {1, 2}
  OtherAddrs = {6}
  Sizes = {1, 2}
  Counts = {1, 2}
  EndModes = {TRUE, FALSE}
  MaxDepth = 3
  MaxEvents = 5
  W = 2
  Items = {1, 2, 3}
  Blank = 0
  MaxSeen = 7
INVARIANTS TablesOK ScopesKept LiveObjectsKnown ConstructionsNested
INVARIANTS PoolSound WindowsExact
PROPERTY ProbesAreTrue
CHECK_DEADLOCK FALSE
