CONSTANTS
  app = app  lib = lib  alt = alt  mta = mta
  a1 = a1  a2 = a2  a3 = a3  l1 = l1  l2 = l2  t1 = t1  t2 = t2
  NoVer = NoVer
  Pkgs <- MCPkgs
  Vers <- MCVers
  Deps = {1, 2, 3, 4, 5, 6, 7, 8, 9, 10}
  PkgOf <- MCPkgOf
  Current <- MCCurrent
  FirstCandidate <- MCCandidate
  Rank <- MCRank
  Size <- MCSize
  InstalledSize <- MCInstalledSize
  Provides <- MCProvides
  Depends <- MCDepends
  ParentVer <- MCParentVer
  Target <- MCTarget
  Kind <- MCKind
  Direct <- MCDirect
  Indirect <- MCIndirect
  Ignored = {4}
  Needs <- Troubled
  Residue = {alt}
  Downloadable = {a1}
  Selectable = {a1, t1, t2}
  ReInstallable = {app}
  Purgeable = {alt}
  SaveMarks = {}
  Priority <- MCPriority
  MaxDepth = 8
SPECIFICATION AutoSpec
INVARIANTS TypeOK DepFresh CountersExact TargetKnown
