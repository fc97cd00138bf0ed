CONSTANTS
  Sessions = {s1, s2}
  Writes = {w1}
  Types = {"serial"}
  NoSession = NoSession
  MaxRequests = 4
SPECIFICATION Spec
INVARIANT DisconnectInvalidates
