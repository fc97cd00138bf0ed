\* SSH acquires the entry that the data connection holds.
CONSTANTS
  Sessions = {s1, s2}
  Writes = {w1}
  Types = {"serial"}
  NoSession = NoSession
  MaxRequests = 1
  SshCalls = {c1}
  SshClients = {k1, k2}
  NoClient = NoClient
  MaxSshRequests = 1
SPECIFICATION SharedSpec
INVARIANT OneSession
