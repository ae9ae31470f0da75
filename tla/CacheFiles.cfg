CONSTANTS
  w = w  u = u
  Procs = {w, u}
  Root = {w}
  Inodes = {1, 2, 3, 4}
  MaxGen <- MCMaxGen
  SizeOf <- MCSizeOf
  FileDeps <- MCFileDeps
  MaxCrashes = 1
  MayForeign = TRUE
  MayRace = FALSE
SPECIFICATION Spec
INVARIANTS TypeOK CleanIsWhole NeverStale MapStable MtimeHonest
