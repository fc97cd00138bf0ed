\* Every order of five calls and process exits, on two backends.
CONSTANTS
  Calls = {c1, c2, c3}
  Backends = {jlink, pyocd}
  JLink = {jlink}
  NoBackend = NoBackend
  MaxRequests = 5
SPECIFICATION Spec
INVARIANTS EntryNotLeaked ConsistentUnlessOvertaken
PROPERTIES ConnectSettles LossIsNoticed
