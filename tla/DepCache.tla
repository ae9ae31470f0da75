------------------------------ MODULE DepCache ------------------------------
(***************************************************************************)
(* pkgDepCache (apt-pkg/depcache.cc): what will be installed, kept and     *)
(* removed, with three cached consequences of that choice: whether each    *)
(* dependency is satisfied, whether each package's dependencies are, and   *)
(* the totals that APT shows.  A change of one package updates the cached  *)
(* values incrementally, along reverse dependencies and provides;          *)
(* Update(OpProgress) computes the same values from nothing.               *)
(*                                                                         *)
(* Abstractions.  The package cache is constant.  Whether a version        *)
(* satisfies a dependency is given by the sets Direct and Indirect, not    *)
(* by version strings.  The iFlags bit AutoKept is left out, since no      *)
(* caller passes Soft; Flags is left out, since nothing reads it.          *)
(***************************************************************************)
EXTENDS Integers, Sequences, FiniteSets, FiniteSetsExt

CONSTANTS Pkgs, Vers, Deps,
          NoVer,         \* the null version
          PkgOf,         \* the package of a version
          Current,       \* the installed version of a package, or NoVer
          FirstCandidate,\* Policy::GetCandidateVer, or NoVer
          Rank,          \* the order of versions
          Size,          \* what a version is to download
          InstalledSize, \* what it takes on the disk
          Provides,      \* the names a version provides
          Depends,       \* the or-groups of a version, each a sequence of Deps
          ParentVer,     \* the version a dependency belongs to
          Target,        \* the name it is about
          Kind,          \* its type
          Direct,        \* the versions of Target it matches
          Indirect,      \* the versions it matches by what they provide
          Ignored,       \* dependencies that _system->IgnoreDep waives
          Needs,         \* PkgIterator::State
          Residue,       \* packages of which configuration files are left
          Downloadable,  \* versions that are in some index
          Selectable,    \* versions that SetCandidateVersion is called with
          ReInstallable, \* packages that SetReInstall is called with
          Purgeable,     \* packages that the user may purge
          SaveMarks      \* what may be marked when the state is saved (a bound)

VerOrNone == Vers \cup {NoVer}
Kinds == {"Depends", "PreDepends", "Suggests", "Conflicts", "Obsoletes"}

ASSUME GraphOK ==
    /\ NoVer \notin Vers
    /\ PkgOf \in [Vers -> Pkgs]
    /\ Current \in [Pkgs -> VerOrNone] /\ FirstCandidate \in [Pkgs -> VerOrNone]
    /\ \A p \in Pkgs : {Current[p], FirstCandidate[p]} \subseteq
                           {v \in Vers : PkgOf[v] = p} \cup {NoVer}
    /\ Provides \in [Vers -> SUBSET Pkgs]
    /\ Depends \in [Vers -> Seq(Seq(Deps))]
    /\ ParentVer \in [Deps -> Vers]
    /\ \A v \in Vers : \A g \in DOMAIN Depends[v] :
           /\ Depends[v][g] # << >>
           /\ \A k \in DOMAIN Depends[v][g] : ParentVer[Depends[v][g][k]] = v
    /\ Target \in [Deps -> Pkgs] /\ Kind \in [Deps -> Kinds]
    /\ Direct \in [Deps -> SUBSET Vers] /\ Indirect \in [Deps -> SUBSET Vers]
    /\ \A d \in Deps : /\ \A v \in Direct[d] : PkgOf[v] = Target[d]
                       /\ \A v \in Indirect[d] : Target[d] \in Provides[v]
    /\ Ignored \subseteq Deps
    /\ Selectable \subseteq Vers /\ ReInstallable \subseteq Pkgs
    /\ Purgeable \subseteq Pkgs /\ SaveMarks \subseteq Pkgs

\* What the totals rest on: there are finitely many packages, and what is half
\* installed is of some version (the list parsers set CurrentVer with the state).
ASSUME TotalsOK ==
    /\ IsFiniteSet(Pkgs)
    /\ Size \in [Vers -> Nat] /\ InstalledSize \in [Vers -> Nat]
    /\ \A p \in Pkgs : Needs[p] = "Unpack" => Current[p] # NoVer

VARIABLES cache,   \* pkgDepCache: PkgState, DepState and the counters
          saved    \* a pkgDepCache::State; << >> before Save

vars == <<cache, saved>>

Modes == {"Delete", "Keep", "Install"}
Checks == {"Now", "Install", "CVer"}            \* DepFlags, own and group
Minima == {"NowMin", "CandMin", "InstMin"}      \* DepStateFlags
Totals == {"inst", "del", "keep", "broken", "bad", "usr", "down"}

\* The StateCache of a package and the DepState of a dependency.
StateCache == [inst : VerOrNone, cand : VerOrNone, mode : Modes,
               status : {-1, 0, 1, 2}, purge : BOOLEAN, reinst : BOOLEAN,
               met : SUBSET Minima]
DepFlags == [own : SUBSET Checks, grp : SUBSET Checks]
Cache == [pkg : [Pkgs -> StateCache], dep : [Deps -> DepFlags],
          count : [Totals -> Int]]

\* Type invariant; the counters of packages are unsigned and never wrap.
TypeOK ==
    /\ cache \in Cache /\ saved \in Cache \cup {<< >>}
    /\ \A k \in Totals \ {"usr", "down"} : cache.count[k] \in 0..Cardinality(Pkgs)

-----------------------------------------------------------------------------
(* Dependencies.                                                           *)

Parent(d) == PkgOf[ParentVer[d]]
Negative(d) == Kind[d] \in {"Conflicts", "Obsoletes"}
Requires(d) == Kind[d] \in {"Depends", "PreDepends"}
IsCritical(d) == Negative(d) \/ Requires(d)
Virtual(p) == p \notin {PkgOf[v] : v \in Vers}
Purged(p) == Current[p] = NoVer /\ p \notin Residue

Chosen(pkg, p, c) ==
    IF c = "Now" THEN Current[p]
    ELSE IF c = "Install" THEN pkg[p].inst ELSE pkg[p].cand

\* A package conflicts neither with itself nor with what it provides itself.
CheckDep(pkg, d, c) ==
    \/ /\ Negative(d) => Target[d] # Parent(d)
       /\ Chosen(pkg, Target[d], c) \in Direct[d]
    \/ /\ Kind[d] # "Obsoletes"
       /\ \E v \in Indirect[d] : /\ Chosen(pkg, PkgOf[v], c) = v
                                 /\ Kind[d] = "Conflicts" => PkgOf[v] # Parent(d)
    \/ Kind[d] # "Obsoletes" /\ d \in Ignored

Flip(d, cs) == IF Negative(d) THEN Checks \ cs ELSE cs

DependencyState(pkg, d) == Flip(d, {c \in Checks : CheckDep(pkg, d, c)})

\* A dependency and those before it in its or-group.
UpTo == [d \in Deps |->
    {e \in Deps : \E g \in DOMAIN Depends[ParentVer[d]] :
        LET group == Depends[ParentVer[d]][g]
        IN  \E j \in DOMAIN group : \E i \in 1..j : group[i] = e /\ group[j] = d}]

GroupOrs(own, d) == Flip(d, UNION {Flip(e, own[e]) : e \in UpTo[d]})

\* Every or-group of v whose first member is critical has a member that holds.
VersionState(dep, v, c) ==
    v # NoVer =>
        \A g \in DOMAIN Depends[v] :
            IsCritical(Depends[v][g][1]) =>
                \E k \in DOMAIN Depends[v][g] : c \in dep[Depends[v][g][k]].own

VerState(dep, p, r) ==
    {m \in Minima : /\ m = "NowMin" => VersionState(dep, Current[p], "Now")
                    /\ m = "CandMin" => VersionState(dep, r.cand, "Install")
                    /\ m = "InstMin" => VersionState(dep, r.inst, "Install")}

-----------------------------------------------------------------------------
(* What one package adds to the totals: AddSizes and AddStates.            *)

NoSizes == [usr |-> 0, down |-> 0]

Sizes(p, r) ==
    IF Virtual(p) \/ (Needs[p] = "Configure" /\ r.mode = "Keep") THEN NoSizes
    ELSE IF r.status = 2 /\ r.mode = "Install"
         THEN [usr |-> InstalledSize[r.inst], down |-> Size[r.inst]]
    ELSE IF /\ NoVer \notin {Current[p], r.inst}
            /\ r.inst # Current[p] \/ r.reinst
         THEN [usr |-> InstalledSize[r.inst] - InstalledSize[Current[p]],
               down |-> Size[r.inst]]
    ELSE IF Needs[p] = "Unpack" /\ r.mode # "Delete"
         THEN [usr |-> 0, down |-> Size[r.inst]]
    ELSE IF Current[p] # NoVer /\ r.inst = NoVer
         THEN [usr |-> 0 - InstalledSize[Current[p]], down |-> 0]
    ELSE NoSizes

\* In which of the counters a package is.
States(p, r) ==
    LET settled == Current[p] # NoVer /\ r.status = 0
    IN  {k \in Totals :
           \/ k = "broken" /\ "InstMin" \notin r.met
           \/ k = "bad" /\ Needs[p] # "Nothing"
           \/ /\ k = "del" /\ r.mode = "Delete"
              /\ Current[p] # NoVer \/ (~r.reinst /\ ~Purged(p))
           \/ /\ k = "inst"
              /\ IF settled THEN r.mode # "Delete" /\ r.reinst ELSE r.mode = "Install"
           \/ k = "keep" /\ Current[p] # NoVer /\ ~settled /\ r.mode = "Keep"}

Share(p, r) == [k \in Totals |->
    IF k \in {"usr", "down"} THEN Sizes(p, r)[k]
    ELSE IF k \in States(p, r) THEN 1 ELSE 0]

Recount(pkg) == [k \in Totals |-> MapThenSumSet(LAMBDA p : Share(p, pkg[p])[k], Pkgs)]

-----------------------------------------------------------------------------
(* Update.                                                                 *)

\* Update(OpProgress): everything, from what is to be installed.
AllDeps(pkg) ==
    LET own == [d \in Deps |-> DependencyState(pkg, d)]
    IN  [d \in Deps |-> [own |-> own[d], grp |-> GroupOrs(own, d)]]

Rebuild(pkg) ==
    LET dep == AllDeps(pkg)
        new == [p \in Pkgs |-> [pkg[p] EXCEPT !.met = VerState(dep, p, pkg[p])]]
    IN  [pkg |-> new, dep |-> dep, count |-> Recount(new)]

\* The dependencies that Update(PkgIterator) looks at again: those on p and on
\* what its current and its candidate version provide.
Stale(pkg, p) ==
    {d \in Deps : \/ Target[d] = p
                  \/ \E v \in {Current[p], pkg[p].cand} \ {NoVer} :
                         Target[d] \in Provides[v]}

Touched(pkg, p) == {p} \cup {Parent(d) : d \in Stale(pkg, p)}

\* Mutant: Update(DepIterator) does not count the parents again.
Counted_Only(pkg, p) == {p}
Counted(pkg, p) == Touched(pkg, p)

Regroup(own, dep, ds) ==
    [d \in Deps |-> IF \E e \in ds : ParentVer[e] = ParentVer[d]
                    THEN GroupOrs(own, d) ELSE dep[d].grp]

\* s itself.  TLC evaluates it here, once, and not wherever a part of it is used.
Evaluated(s) == CHOOSE t \in {s} : t = s

\* What becomes of the cache when its packages become pkg, which differs in p: the
\* dependencies ds that are looked at again, their or-groups, the states of the
\* packages, and the counters.  In the code the counters go up and down once per
\* dependency that is looked at; this is the sum.
NewOwn(s, pkg, ds) ==
    Evaluated([d \in Deps |-> IF d \in ds THEN DependencyState(pkg, d) ELSE s.dep[d].own])

NewDeps(s, own, ds) ==
    Evaluated([d \in Deps |-> [own |-> own[d], grp |-> Regroup(own, s.dep, ds)[d]]])

NewStates(pkg, p, dep) ==
    Evaluated([q \in Pkgs |-> IF q \in Touched(pkg, p)
                              THEN [pkg[q] EXCEPT !.met = VerState(dep, q, pkg[q])]
                              ELSE pkg[q]])

NewCounts(s, pkg, p, new) ==
    Evaluated([k \in Totals |-> s.count[k]
        + MapThenSumSet(LAMBDA q : Share(q, new[q])[k] - Share(q, s.pkg[q])[k],
                        Counted(pkg, p))])

Recounted(s, pkg, p, dep, new) ==
    [pkg |-> new, dep |-> dep, count |-> NewCounts(s, pkg, p, new)]

Restated(s, pkg, p, dep) == Recounted(s, pkg, p, dep, NewStates(pkg, p, dep))

Updated(s, pkg, p, ds) == Restated(s, pkg, p, NewDeps(s, NewOwn(s, pkg, ds), ds))

\* The change of one package to r: RemoveSizes, RemoveStates, the change,
\* AddStates, Update(Pkg), AddSizes.
Changed(s, pkg, p) == Updated(s, pkg, p, Stale(pkg, p))
Change(s, p, r) == Changed(s, [s.pkg EXCEPT ![p] = r], p)

-----------------------------------------------------------------------------
(* The operations, each from one state of the cache to the next.           *)

MarkKeep(s, p) ==
    IF \/ Needs[p] = "Unpack" /\ Current[p] \notin Downloadable
       \/ s.pkg[p].mode = "Keep"
       \/ Virtual(p)
    THEN s
    ELSE Change(s, p, [s.pkg[p] EXCEPT !.mode = "Keep", !.inst = Current[p]])

MarkDelete(s, p, purge) ==
    LET r == [s.pkg[p] EXCEPT !.purge = purge]
    IN  IF \/ /\ r.mode = "Delete" \/ r.inst = NoVer
              /\ Purged(p) \/ ~purge
           \/ Virtual(p)
        THEN [s EXCEPT !.pkg[p] = r]
        ELSE Change(s, p, [r EXCEPT !.inst = NoVer,
                !.mode = IF Current[p] = NoVer /\ (Purged(p) \/ ~purge)
                         THEN "Keep" ELSE "Delete"])

\* MarkInstall without AutoInst.
MarkInstall(s, p) ==
    LET r == s.pkg[p]
    IN  IF "InstMin" \in r.met /\ (r.mode = "Install" \/ r.cand = Current[p])
        THEN IF r.cand = Current[p] /\ r.inst = NoVer THEN MarkKeep(s, p) ELSE s
        ELSE IF r.cand = NoVer \/ Virtual(p) THEN s
        ELSE Change(s, p, [r EXCEPT !.inst = r.cand,
                !.mode = IF r.cand = Current[p] THEN "Keep" ELSE "Install"])

\* Mutant: the totals are not corrected.
SetReInstall_NoCount(s, p, to) == [s EXCEPT !.pkg[p].reinst = to]

SetReInstall(s, p, to) ==
    LET r == [s.pkg[p] EXCEPT !.reinst = to]
    IN  [s EXCEPT !.pkg[p] = r,
                  !.count = [k \in Totals |-> @[k] + Share(p, r)[k]
                                                  - Share(p, s.pkg[p])[k]]]

\* StateCache::Update: the candidate is older than, equal to or newer than the
\* installed version, or there is nothing to compare.
StatusOf(p, cand) ==
    IF NoVer \in {Current[p], cand} THEN 2
    ELSE IF Rank[cand] < Rank[Current[p]] THEN -1
    ELSE IF Rank[cand] = Rank[Current[p]] THEN 0 ELSE 1

\* Mutant: the install version does not follow the candidate.
SetCandidateVersion_Inst(s, v) ==
    LET p == PkgOf[v]
    IN  Change(s, p, [s.pkg[p] EXCEPT !.cand = v, !.status = StatusOf(p, v)])

SetCandidateVersion(s, v) ==
    LET p == PkgOf[v]
        r == s.pkg[p]
    IN  Change(s, p, [r EXCEPT !.inst = IF r.cand = r.inst THEN v ELSE r.inst,
                               !.cand = v, !.status = StatusOf(p, v)])

\* Mutant: Restore forgets the dependencies.
Restored_NoDeps == [saved EXCEPT !.dep = cache.dep]

\* pkgDepCache::State::Restore.
Restored == saved

-----------------------------------------------------------------------------

\* pkgDepCache::Init: every package is kept as it is.
Init ==
    /\ cache = Rebuild([p \in Pkgs |->
          [inst |-> Current[p], cand |-> FirstCandidate[p], mode |-> "Keep",
           status |-> StatusOf(p, FirstCandidate[p]), purge |-> FALSE,
           reinst |-> FALSE, met |-> Minima]])
    /\ saved = << >>

Keep == \E p \in Pkgs : cache' = MarkKeep(cache, p) /\ UNCHANGED saved

Delete ==
    \E p \in Pkgs, purge \in BOOLEAN :
        /\ purge => p \in Purgeable
        /\ cache' = MarkDelete(cache, p, purge)
        /\ UNCHANGED saved

Install == \E p \in Pkgs : cache' = MarkInstall(cache, p) /\ UNCHANGED saved

\* apt-get install --reinstall: only of what is installed and can be downloaded.
ReInstall ==
    \E p \in ReInstallable :
        /\ Current[p] \in Downloadable
        /\ cache.pkg[p].mode # "Install"
        /\ cache' = SetReInstall(cache, p, TRUE)
        /\ UNCHANGED saved

\* apt-get install <package>=<version>: the version, then the package.
Select ==
    \E v \in Selectable : cache' = SetCandidateVersion(cache, v) /\ UNCHANGED saved

Save ==
    /\ \A p \in Pkgs \ SaveMarks : cache.pkg[p].mode = "Keep"
    /\ saved' = cache /\ UNCHANGED cache

Restore == saved # << >> /\ cache' = Restored /\ UNCHANGED saved

Next == Keep \/ Delete \/ Install \/ ReInstall \/ Select \/ Save \/ Restore

Spec == Init /\ [][Next]_vars

-----------------------------------------------------------------------------
(* Properties.                                                             *)

\* The names that a package has dropped: a version that may have been its candidate
\* provides them, and neither the candidate nor the installed version does.
Dropped(pkg) ==
    {n \in Pkgs : \E p \in Pkgs : \E w \in ({FirstCandidate[p]} \cup Selectable) \ {NoVer} :
        /\ PkgOf[w] = p /\ n \in Provides[w]
        /\ \A v \in {Current[p], pkg[p].cand} \ {NoVer} : n \notin Provides[v]}

\* The cached values of s are what Update(OpProgress) would compute now, each from
\* the ones before it; a dependency on a dropped name may be out of date.
Fresh(s) ==
    /\ \A d \in Deps : Target[d] \notin Dropped(s.pkg) => s.dep[d].own = DependencyState(s.pkg, d)
    /\ \A d \in Deps : s.dep[d].grp = GroupOrs([e \in Deps |-> s.dep[e].own], d)
    /\ \A p \in Pkgs : s.pkg[p].met = VerState(s.dep, p, s.pkg[p])

\* The incremental update leaves no stale value behind: the state of every
\* dependency is what a full computation gives, whatever was marked, restored or
\* selected before, except on a name that the selected version of some package no
\* longer provides (depcache.cc: Update(PkgIterator) follows the provides of the new
\* candidate, not of the one it replaces), and that one, too, once such a version is
\* given up; every or-group and every package always agrees with its dependencies.
DepFresh == Fresh(cache)

\* The counters and the sizes that APT shows and tests (BrokenCount = 0 is the
\* condition for going on) are those of the packages, whatever was changed,
\* changed back, purged, reinstalled or restored, in whatever order.
CountersExact == cache.count = Recount(cache.pkg)

Known(s) == \A p \in Pkgs : s.pkg[p].inst \in {NoVer, Current[p], s.pkg[p].cand}

\* What is to be installed is nothing, the current or the candidate version:
\* the two whose provides Update(PkgIterator) follows.
TargetKnown == Known(cache)
=============================================================================
