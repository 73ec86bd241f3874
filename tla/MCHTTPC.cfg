\* Two callers, two requests each, and connections that fail at any time.
CONSTANTS
  Callers = {a, b}
  MaxTries = 2
  MaxRequests = 2
  MaxSockets = 3
SPECIFICATION FairSpec
INVARIANTS TypeOK OwnResponse SentOnce
PROPERTIES CallsEnd
CHECK_DEADLOCK FALSE
