CONSTANTS
  w = w  u = u
  Procs = {w}
  Root = {w}
  Inodes = {1, 2, 3, 4}
  MaxGen <- MCMaxGen
  SizeOf <- MCSizeOf
  FileDeps <- MCFileDeps
  MaxCrashes = 0
  MayForeign = FALSE
  MayRace = FALSE
SPECIFICATION Spec
INVARIANTS NoChangeHidden
