\* Every order of four user requests, writes and link errors.
CONSTANTS
  Sessions = {s1, s2}
  Writes = {w1}
  Types = {"serial", "tcpClient", "tcpServer"}
  NoSession = NoSession
  MaxRequests = 4
SPECIFICATION Spec
INVARIANTS SingleLifecycle ConnectedSession SessionsOwned OwnerNotLeaked
  PageFollowsConnection
PROPERTIES NoConnectAgainstPendingDisconnect ConnectSettles ShutdownConverges
  LifecycleRefinement
