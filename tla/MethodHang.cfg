CONSTANTS
  N = 4
  Methods <- Pipelining
  MaxAsks = 1
SPECIFICATION FairSpec
PROPERTIES AskEnds
