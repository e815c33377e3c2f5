SPECIFICATION FairSpec
CONSTANTS
  c1 = c1
  c2 = c2
  c3 = c3
  c4 = c4
  Calls = {c1, c2, c3}
  Connections = {1, 3}
  Compiled = {"tcp_connect", "tcp_close", "process_exec"}
  Startup = {"tcp_connect", "process_exec"}
  Generated = {"vfs_read"}
INVARIANTS
  ObjectsAreOwned
  ReadersMatchRegistry
  SoundForOneClient
PROPERTIES
  CallsAreAnswered
