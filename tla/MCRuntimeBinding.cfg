SPECIFICATION Spec
CONSTANTS
  Pods <- MCPods
  Containers <- MCContainers
  PodOf <- MCPodOf
  Capacities = {2, 3}
  PidReuse = FALSE
  MemoMax = 1
  MaxChanges = 3
  MaxBreaks = 1
INVARIANTS
  CacheConsistent
  CacheFollowsCluster
  BoundToItsPod
CHECK_DEADLOCK FALSE
