CONSTANTS
  base = base  old = old  app = app  web = web  exim = exim  post = post
  plug = plug  tool = tool  hurt = hurt  spam = spam  mta = mta  gone = gone
  b1 = b1  b2 = b2  o1 = o1  a1 = a1  a2 = a2  w1 = w1  e1 = e1  e2 = e2  s1 = s1
  p1 = p1  t1 = t1  h1 = h1  h2 = h2  m1 = m1
  NoVer = NoVer
  Pkgs <- MCPkgs
  Vers <- MCVers
  Deps = {1, 2, 3, 4, 5, 6, 7, 8, 9, 10, 11, 12, 13, 14, 15, 16}
  PkgOf <- MCPkgOf
  Current <- MCCurrent
  FirstCandidate <- MCCandidate
  Rank <- MCRank
  Size <- MCSize
  InstalledSize <- MCSize
  Provides <- MCProvides
  Depends <- MCDepends
  ParentVer <- MCParentVer
  Target <- MCTarget
  Kind <- MCKind
  Direct <- MCDirect
  Indirect <- MCIndirect
  Ignored = {}
  Needs <- MCFine
  Residue = {}
  Downloadable = {b2, a2, e2, s1, p1, t1, h2, m1}
  Selectable = {}
  ReInstallable = {}
  Purgeable = {}
  SaveMarks = {}
  Priority <- MCPriority
  MaxDepth = 8
  Place <- InOrder
  Listed <- MCListed
  Essential = {base}
  Importance <- MCImportance
  Wanted = {base, hurt}
  Held = {app}
  Pin <- MCPin
  AutoRemove = TRUE
  MaxCommands = 2
  MaxNames = 2
  NameOrder <- MCNameOrder
  RevListed <- MCRevListed
  Medium <- MCMedium
  Net = Net
  Discs = {1, 2}
  NoDisc = NoDisc
  Settings <- MCSettings
  MaxFailures = 1
SPECIFICATION InstallSpec
INVARIANT UpgradeSound
