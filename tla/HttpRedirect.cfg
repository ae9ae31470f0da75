CONSTANTS
  u1 = u1  u2 = u2  u3 = u3
  h1 = h1  h2 = h2
  None = None
  N = 2
  URIs = {u1, u3}
  Hosts = {h1}
  HostOf <- SameHost
  FirstURI <- TwoLocal
  PipelineDepth = 1
  NewURIs = {u1}
  LoneRedirects = TRUE
  MayFill = FALSE
  Says = {"ok", "moved"}
SPECIFICATION Spec
INVARIANTS Attributed
