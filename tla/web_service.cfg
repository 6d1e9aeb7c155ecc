SPECIFICATION FairSpec
CONSTANTS
  Handlers = {"h1", "h2"}
  HostLists = {"", "a"}
  NoHosts = ""
  Prompt = TRUE
  MaxPuts = 2
  MaxFaults = 1
  MaxStarts = 2
INVARIANTS HandlerScope CertHealed
PROPERTIES TlsFollows Served Exits
\* The process may end for good.
CHECK_DEADLOCK FALSE
