CONSTANTS
  N = 6
  Methods <- SomeMethods
  MaxAsks = 2
SPECIFICATION FairSpec
INVARIANTS TypeOK NothingLost OneAckEach ConfigFirst
PROPERTIES PromiseKept AllAnswered MethodExits
