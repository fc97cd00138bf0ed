\* A forced termination during the search for a tool does not stop the search.
CONSTANTS
  Calls = {c1, c2}
  Tools = {t1, t2, t3}
  NoTool = NoTool
  MaxRequests = 3
SPECIFICATION Spec
PROPERTY ToolStartsInOwnedEntry
