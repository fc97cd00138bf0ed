\* One call of execute and two periodic rows under every order of requests.
CONSTANTS
  call = call
  poll = poll
  send = send
  Calls <- MCCalls
  Keys <- MCKeys
  Reads <- MCReads
  Retries <- MCRetries
  Shape <- MCShape
  Workers = {w1, w2}
  NoWorker = NoWorker
  NoJob = NoJob
  MaxLate = 2
  TidSpace = 3
  MaxRequests = 6
SPECIFICATION Spec
INVARIANTS OneInFlight EachJobOnce NoStrangeAnswer
PROPERTIES SendsOnlyForSession CallReturns RowIsServed
\* With no row switched on and no call the worker idles.
CHECK_DEADLOCK FALSE
