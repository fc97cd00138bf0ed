\* Every order of four calls, tool failures and tool exits.
CONSTANTS
  Calls = {c1, c2, c3}
  Tools = {t1, t2, t3, t4}
  NoTool = NoTool
  MaxRequests = 4
SPECIFICATION Spec
INVARIANTS EntryHasHolder OperationUndisturbed ConsistentUnlessOvertaken
PROPERTIES BusySettles ShutdownEndsSession
