\* Occurrences of one millisecond have ids in any order.
SPECIFICATION FairSpec
CONSTANTS
  s1 = s1
  s2 = s2
  Capacity = 3
  PerMs = 2
  Window = 1
  Limit = 2
  Probes <- MCProbes
  Handles <- MCHandles
  IdOf <- MCIdOf
  Streams = {s1, s2}
  OutboxMax = 1
  MaxClock = 2
  MaxEvents = 4
  MaxRequests = 2
INVARIANTS
  StreamsInOrder
  NothingSkipped
PROPERTY EventsReachTheClient
CHECK_DEADLOCK FALSE
CONSTRAINTS FewerForMore NoneAtTheEnd
