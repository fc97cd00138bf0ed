\* Every order of five calls and link losses, three of them in progress at once.
CONSTANTS
  Calls = {c1, c2, c3}
  Clients = {k1, k2, k3, k4}
  NoClient = NoClient
  MaxRequests = 5
SPECIFICATION Spec
INVARIANTS EntryNotLeaked ConsistentUnlessOvertaken ClientNotLeaked
PROPERTY StateSettles
