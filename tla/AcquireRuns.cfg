CONSTANTS
  a = a  b = b  c = c
  http = http  cd = cd  hx = hx  c1 = c1  c2 = c2
  None = None
  Items = {a, c}
  Queues = {http, cd}
  Accesses = {http, cd}
  URIs = {hx, c1}
  AccessOf <- MCAccessOf
  QueueOf <- MCQueueOf
  FirstURI <- MixedURI
  Pipe <- MCPipe
  NeedsCleanup = {cd}
  PreferredQ = {cd}
  PreferredURI = {}
  Retries = 1
  MaxHops = 1
  MaxRuns = 2
  MayCancel = TRUE
  MayShutdown = TRUE
SPECIFICATION FairSpec
INVARIANTS MessagesMatch CountersExact
PROPERTIES RunEnds SuccessIsComplete
