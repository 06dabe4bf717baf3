SPECIFICATION FairSpec
CONSTANTS
  Modulus = 10
  MaxGap = 2
  ReliableWindow = 4
  MaxOrderGap = 2
  MaxWaiting = 1
  MaxSplits = 1
  MaxParts = 2
  Connections = 3
  Traffic <- MCTraffic
  FirstNumber <- MCFirstNumber
  FirstMessage <- MCFirstMessage
  Start <- MCStart
  ClientWindow = 3
  MaxCopies <- MCMaxCopies
  MaxPending = 1
  MaxAttempts = 2
INVARIANTS TypeOK InOrder AckedNotLost
PROPERTIES DepartureTrue NoStaleWrite EventuallySettled
CHECK_DEADLOCK FALSE
