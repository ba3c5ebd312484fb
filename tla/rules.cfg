CONSTANTS
  Ranges <- MCRanges
  Serves <- MCServes
  Addresses <- MCAddresses
  Trusted <- MCTrusted
  logResumeTail = 2
  defaultLogLimit = 2
  maxLogLimit = 5
  defaultLogTail = 3
  maxLogTail = 6
  scopedTailPerService = 2
  maxScopedServices = 2
  Widening = 3
SPECIFICATION Spec
CHECK_DEADLOCK FALSE
INVARIANTS WritesGuarded ArrivalsSound AccessSound NegotiationSound ListenersTold ReadingResumes 
