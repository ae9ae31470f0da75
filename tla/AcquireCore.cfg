CONSTANTS
  a = a  b = b  c = c
  http = http  cd = cd  hx = hx  c1 = c1  c2 = c2
  None = None
  Items = {a, b, c}
  Queues = {http, cd}
  Accesses = {http, cd}
  URIs = {hx, c1, c2}
  AccessOf <- MCAccessOf
  QueueOf <- MCQueueOf
  FirstURI <- MixedURI
  Pipe <- MCPipe
  NeedsCleanup = {cd}
  PreferredQ = {cd}
  PreferredURI = {c1}
  Retries = 1
  MaxHops = 0
  MaxRuns = 1
  MayCancel = FALSE
  MayShutdown = FALSE
SPECIFICATION Spec
INVARIANTS TypeOK CurrentItemAlive OneRequestEach NeverStalls RightOwner
PROPERTIES PreferredFirst
