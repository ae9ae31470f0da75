CONSTANTS
  u1 = u1  u2 = u2  u3 = u3
  h1 = h1  h2 = h2
  None = None
  N = 3
  URIs = {u1, u2}
  Hosts = {h1, h2}
  HostOf <- OneEach
  FirstURI <- TwoThenOne
  PipelineDepth = 1
  NewURIs = {u1}
  LoneRedirects = FALSE
  MayFill = TRUE
  Says = {"ok", "ims", "moved", "gone", "garbage"}
SPECIFICATION FairSpec
INVARIANTS TypeOK Attributed NothingLost RightHost Asked
PROPERTIES AllAnswered
