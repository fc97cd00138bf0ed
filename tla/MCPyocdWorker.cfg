\* Every order of four requests, with a thread that may hang in any of its reads.
CONSTANTS
  Bus <- MCBus
  NoSerial = ""
  NoPair = NoPair
  NoName = ""
  UsbDevice = "USB device"
  GenericNames <- MCGenericNames
  Threads = {t1, t2}
  NoThread = NoThread
  Accesses <- MCAccesses
  Forbidden <- MCForbidden
  NoAccess = NoAccess
  Requests <- MCRequests
  MaxRequests = 4
SPECIFICATION Spec
\* The host may send nothing more, and the worker may exit.
CHECK_DEADLOCK FALSE
INVARIANTS OneActivity ResourcesFollowSession StaysOut DiscoverySound AskedProbe
PROPERTY EveryRequestAnswered
