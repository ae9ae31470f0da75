--------------------------- MODULE DepCacheProofs ---------------------------
(***************************************************************************)
(* The incremental update of pkgDepCache gives what a full computation     *)
(* gives, for every archive, every sequence of marks, with and without     *)
(* AutoInst, and every use of Save and Restore, except for the state of a  *)
(* dependency on a name while a selected version has it dropped.  The      *)
(* counters and sizes are exact whatever is selected.                      *)
(***************************************************************************)
EXTENDS DepCacheInstall, FiniteSetTheorems, WellFoundedInduction, TLAPS

\* The part of the type invariant that the argument needs, for a state s.
Shape(s) ==
    /\ s = [pkg |-> s.pkg, dep |-> s.dep, count |-> s.count]
    /\ s.pkg \in [Pkgs -> StateCache]
    /\ s.dep \in [Deps -> DepFlags]
    /\ \A p \in Pkgs : {s.pkg[p].inst, s.pkg[p].cand} \subseteq
                           {v \in Vers : PkgOf[v] = p} \cup {NoVer}

\* A candidate is the one of the policy, or was selected.
Offered(p) == {FirstCandidate[p]} \cup Selectable
FromOffer(s) == \A p \in Pkgs : s.pkg[p].cand \in Offered(p)

\* The inductive invariant: what holds of the cache holds of the saved copy.
Good(s) == Shape(s) /\ Known(s) /\ FromOffer(s) /\ Fresh(s)
GoodInv == Good(cache) /\ (saved = << >> \/ Good(saved))

\* What Change is given: a StateCache of p whose install version is one that
\* Update follows.
Fits(p, r) ==
    /\ p \in Pkgs /\ r \in StateCache /\ r.cand \in Offered(p)
    /\ {r.inst, r.cand} \subseteq {v \in Vers : PkgOf[v] = p} \cup {NoVer}
    /\ r.inst \in {NoVer, Current[p], r.cand}

-----------------------------------------------------------------------------

\* Whether a dependency holds depends on the install and the candidate
\* versions only.
LEMMA SameChoice ==
    ASSUME NEW pkg, NEW new, NEW d \in Deps, NEW c \in Checks,
           \A q \in Pkgs : pkg[q].inst = new[q].inst /\ pkg[q].cand = new[q].cand
    PROVE  CheckDep(pkg, d, c) = CheckDep(new, d, c)
  <1>1. \A q \in Pkgs : Chosen(pkg, q, c) = Chosen(new, q, c)
    BY DEF Chosen
  <1>2. Target[d] \in Pkgs /\ \A v \in Indirect[d] : PkgOf[v] \in Pkgs
    BY GraphOK
  <1> QED
    BY <1>1, <1>2 DEF CheckDep

\* A dependency that Update(PkgIterator) does not look at again is not affected,
\* unless its name is dropped now; it was not dropped before.
LEMMA NotStale ==
    ASSUME NEW s, Shape(s), Known(s), FromOffer(s), NEW p, NEW r, Fits(p, r),
           NEW d \in Deps \ Stale([s.pkg EXCEPT ![p] = r], p),
           Target[d] \notin Dropped([s.pkg EXCEPT ![p] = r]), NEW c \in Checks
    PROVE  /\ Target[d] \notin Dropped(s.pkg)
           /\ CheckDep(s.pkg, d, c) = CheckDep([s.pkg EXCEPT ![p] = r], d, c)
  <1> DEFINE pkg == [s.pkg EXCEPT ![p] = r]
  <1>0. p \in Pkgs /\ s.pkg \in [Pkgs -> StateCache] /\ pkg[p] = r
    BY DEF Fits, Shape
  <1>1. \A q \in Pkgs \ {p} : Chosen(pkg, q, c) = Chosen(s.pkg, q, c)
    BY <1>0 DEF Chosen
  <1>2. Target[d] \in Pkgs \ {p}
    BY GraphOK, <1>0 DEF Stale
  <1>3. \A v \in {Current[p], r.cand} \ {NoVer} : Target[d] \notin Provides[v]
    BY <1>0 DEF Stale
  <1>3a. \A w \in Offered(p) \ {NoVer} : PkgOf[w] = p => Target[d] \notin Provides[w]
    BY <1>0, <1>2, <1>3 DEF Dropped, Offered
  <1>4. s.pkg[p].cand # NoVer => Target[d] \notin Provides[s.pkg[p].cand]
    BY <1>0, <1>3a DEF FromOffer, Shape
  <1>4a. Target[d] \notin Dropped(s.pkg)
    <2>1. SUFFICES ASSUME NEW q \in Pkgs, NEW w \in Offered(q) \ {NoVer}, PkgOf[w] = q,
                          Target[d] \in Provides[w]
                   PROVE  \E v \in {Current[q], s.pkg[q].cand} \ {NoVer} : Target[d] \in Provides[v]
      BY DEF Dropped, Offered
    <2>2. q # p
      BY <1>3a, <2>1
    <2>3. pkg[q] = s.pkg[q]
      BY <1>0, <2>2
    <2> HIDE DEF pkg
    <2>4. Target[d] \notin Dropped(pkg)
      BY DEF pkg
    <2> QED
      BY <1>2, <2>1, <2>3, <2>4 DEF Dropped, Offered
  <1>5. ASSUME NEW v \in Indirect[d], PkgOf[v] = p
        PROVE  Chosen(pkg, p, c) # v /\ Chosen(s.pkg, p, c) # v
    <2>1. v \in Vers /\ v # NoVer /\ Target[d] \in Provides[v]
      BY <1>5, GraphOK
    <2>2. v \notin {Current[p], r.cand, s.pkg[p].cand}
      BY <2>1, <1>3, <1>4
    <2>3. v # r.inst /\ v # s.pkg[p].inst
      BY <2>1, <2>2, <1>0 DEF Fits, Known
    <2> QED
      BY <2>2, <2>3, <1>0 DEF Chosen, Checks
  <1>6. \A v \in Indirect[d] : PkgOf[v] \in Pkgs
    BY GraphOK
  <1>7. \A v \in Indirect[d] : Chosen(pkg, PkgOf[v], c) = v <=> Chosen(s.pkg, PkgOf[v], c) = v
    BY <1>1, <1>5, <1>6
  <1>8. Chosen(pkg, Target[d], c) = Chosen(s.pkg, Target[d], c)
    BY <1>1, <1>2
  <1> HIDE DEF pkg
  <1>9. CheckDep(s.pkg, d, c) = CheckDep(pkg, d, c)
    BY <1>7, <1>8 DEF CheckDep
  <1> QED
    BY <1>9, <1>4a DEF pkg

\* The versions in the group of a dependency are those of one package version.
LEMMA SameVersion ==
    ASSUME NEW d \in Deps, NEW e \in UpTo[d]
    PROVE  e \in Deps /\ ParentVer[e] = ParentVer[d]
  <1>1. UpTo[d] = {x \in Deps : \E g \in DOMAIN Depends[ParentVer[d]] :
            LET group == Depends[ParentVer[d]][g]
            IN  \E j \in DOMAIN group : \E i \in 1..j : group[i] = x /\ group[j] = d}
    BY DEF UpTo
  <1>2. PICK g \in DOMAIN Depends[ParentVer[d]] :
            \E j \in DOMAIN Depends[ParentVer[d]][g] : \E i \in 1..j :
                Depends[ParentVer[d]][g][i] = e /\ Depends[ParentVer[d]][g][j] = d
    BY <1>1
  <1>3. PICK j \in DOMAIN Depends[ParentVer[d]][g] : \E i \in 1..j :
            Depends[ParentVer[d]][g][i] = e
    BY <1>2
  <1>4. PICK i \in 1..j : Depends[ParentVer[d]][g][i] = e
    BY <1>3
  <1>5. ParentVer[d] \in Vers /\ Depends[ParentVer[d]] \in Seq(Seq(Deps))
    BY GraphOK
  <1>6. Depends[ParentVer[d]][g] \in Seq(Deps)
    BY <1>5
  <1>7. i \in DOMAIN Depends[ParentVer[d]][g]
    BY <1>6
  <1>8. ParentVer[Depends[ParentVer[d]][g][i]] = ParentVer[d]
    BY <1>5, <1>7, GraphOK
  <1> QED
    BY <1>1, <1>4, <1>8

\* What DependencyState and BuildGroupOrs compute are sets of checks.
LEMMA BitsOK ==
    /\ \A d \in Deps : \A cs : cs \subseteq Checks => Flip(d, cs) \subseteq Checks
    /\ \A pkg : \A d \in Deps : DependencyState(pkg, d) \subseteq Checks
    /\ \A own \in [Deps -> SUBSET Checks], d \in Deps : GroupOrs(own, d) \subseteq Checks
  <1>1. \A d \in Deps : \A cs : cs \subseteq Checks => Flip(d, cs) \subseteq Checks
    BY DEF Flip
  <1>2. ASSUME NEW pkg, NEW d \in Deps
        PROVE  DependencyState(pkg, d) \subseteq Checks
    <2>1. {c \in Checks : CheckDep(pkg, d, c)} \subseteq Checks
      OBVIOUS
    <2> QED
      BY <2>1, <1>1 DEF DependencyState
  <1>3. ASSUME NEW own \in [Deps -> SUBSET Checks], NEW d \in Deps
        PROVE  GroupOrs(own, d) \subseteq Checks
    <2>1. \A e \in UpTo[d] : Flip(e, own[e]) \subseteq Checks
      BY SameVersion, <1>1
    <2>2. UNION {Flip(e, own[e]) : e \in UpTo[d]} \subseteq Checks
      BY <2>1
    <2> QED
      BY <2>2, <1>1 DEF GroupOrs
  <1> QED
    BY <1>1, <1>2, <1>3

\* The bits of a group are those of its members.
LEMMA GroupSame ==
    ASSUME NEW f, NEW g, NEW d \in Deps,
           \A e \in Deps : ParentVer[e] = ParentVer[d] => f[e] = g[e]
    PROVE  GroupOrs(f, d) = GroupOrs(g, d)
  <1>1. \A e \in UpTo[d] : Flip(e, f[e]) = Flip(e, g[e])
    BY SameVersion
  <1>2. {Flip(e, f[e]) : e \in UpTo[d]} = {Flip(e, g[e]) : e \in UpTo[d]}
    BY <1>1
  <1> QED
    BY <1>2 DEF GroupOrs

\* The verdict on a version depends on its own dependencies only.
LEMMA VersionSame ==
    ASSUME NEW f, NEW g, NEW v \in VerOrNone, NEW c,
           \A e \in Deps : v # NoVer /\ ParentVer[e] = v => f[e].own = g[e].own
    PROVE  VersionState(f, v, c) = VersionState(g, v, c)
  <1>1. CASE v = NoVer
    BY <1>1 DEF VersionState
  <1>2. CASE v # NoVer
    <2>1. v \in Vers /\ Depends[v] \in Seq(Seq(Deps))
      BY <1>2, GraphOK DEF VerOrNone
    <2>2. ASSUME NEW n \in DOMAIN Depends[v], NEW k \in DOMAIN Depends[v][n]
          PROVE  f[Depends[v][n][k]].own = g[Depends[v][n][k]].own
      <3>1. Depends[v][n] \in Seq(Deps)
        BY <2>1
      <3>2. Depends[v][n][k] \in Deps
        BY <3>1
      <3>3. ParentVer[Depends[v][n][k]] = v
        BY <2>1, GraphOK
      <3> QED
        BY <3>2, <3>3, <1>2
    <2> QED
      BY <2>2 DEF VersionState
  <1> QED
    BY <1>1, <1>2

-----------------------------------------------------------------------------

\* Evaluated only makes TLC evaluate: it is the identity.
LEMMA SameValue ==
    ASSUME NEW x PROVE Evaluated(x) = x
  BY DEF Evaluated

\* A change of one package leaves every cached value fresh.
LEMMA ChangeGood ==
    ASSUME NEW s, Good(s), NEW p, NEW r, Fits(p, r)
    PROVE  Good(Change(s, p, r))
  <1> DEFINE pkg == [s.pkg EXCEPT ![p] = r]
             ds == Stale(pkg, p)
             own == [d \in Deps |-> IF d \in ds THEN DependencyState(pkg, d)
                                    ELSE s.dep[d].own]
             grp == Regroup(own, s.dep, ds)
             dep == [d \in Deps |-> [own |-> own[d], grp |-> grp[d]]]
             new == [q \in Pkgs |-> IF q \in Touched(pkg, p)
                                    THEN [pkg[q] EXCEPT !.met = VerState(dep, q, pkg[q])]
                                    ELSE pkg[q]]
             cnt == [k \in Totals |-> s.count[k]
                + MapThenSumSet(LAMBDA q : Share(q, new[q])[k] - Share(q, s.pkg[q])[k],
                                Counted(pkg, p))]
             next == [pkg |-> new, dep |-> dep, count |-> cnt]
  <1>1. Change(s, p, r) = next
    <2> DEFINE Dep(o) == [d \in Deps |-> [own |-> o[d], grp |-> Regroup(o, s.dep, ds)[d]]]
               New(dd) == [q \in Pkgs |-> IF q \in Touched(pkg, p)
                                          THEN [pkg[q] EXCEPT !.met = VerState(dd, q, pkg[q])]
                                          ELSE pkg[q]]
               Cnt(n) == [k \in Totals |-> s.count[k]
                + MapThenSumSet(LAMBDA q : Share(q, n[q])[k] - Share(q, s.pkg[q])[k],
                                Counted(pkg, p))]
    <2>1. Change(s, p, r) =
            [pkg |-> Evaluated(New(Evaluated(Dep(Evaluated(own))))),
             dep |-> Evaluated(Dep(Evaluated(own))),
             count |-> Evaluated(Cnt(Evaluated(New(Evaluated(Dep(Evaluated(own)))))))]
      BY DEF Change, Changed, Updated, Restated, Recounted,
             NewOwn, NewDeps, NewStates, NewCounts
    <2>2. next = [pkg |-> New(Dep(own)), dep |-> Dep(own), count |-> Cnt(New(Dep(own)))]
      OBVIOUS
    <2> HIDE DEF own, next, Dep, New, Cnt
    <2> QED
      BY <2>1, <2>2, SameValue
  <1> HIDE DEF cnt
  <1>2. /\ Shape(s) /\ Known(s) /\ FromOffer(s) /\ Fresh(s)
        /\ p \in Pkgs /\ r \in StateCache /\ s.pkg \in [Pkgs -> StateCache]
        /\ s.dep \in [Deps -> DepFlags]
    BY DEF Good, Shape, Fits
  <1>3. pkg \in [Pkgs -> StateCache] /\ pkg[p] = r /\ \A q \in Pkgs \ {p} : pkg[q] = s.pkg[q]
    BY <1>2
  <1>4. \A q \in Pkgs : /\ pkg[q].inst \in {NoVer, Current[q], pkg[q].cand}
                        /\ {pkg[q].inst, pkg[q].cand} \subseteq
                               {v \in Vers : PkgOf[v] = q} \cup {NoVer}
    BY <1>2, <1>3 DEF Shape, Known, Fits
  <1>5. \A d \in Deps : Target[d] \notin Dropped(s.pkg) => s.dep[d].own = DependencyState(s.pkg, d)
    BY <1>2 DEF Fresh
  <1>6. \A d \in Deps : Target[d] \notin Dropped(pkg) => own[d] = DependencyState(pkg, d)
    <2>1. ASSUME NEW d \in Deps \ ds, Target[d] \notin Dropped(pkg)
          PROVE  /\ Target[d] \notin Dropped(s.pkg)
                 /\ DependencyState(s.pkg, d) = DependencyState(pkg, d)
      <3>1. /\ Target[d] \notin Dropped(s.pkg)
            /\ \A c \in Checks : CheckDep(s.pkg, d, c) = CheckDep(pkg, d, c)
        BY <1>2, <2>1, NotStale DEF Checks
      <3>2. {c \in Checks : CheckDep(s.pkg, d, c)} = {c \in Checks : CheckDep(pkg, d, c)}
        BY <3>1
      <3> QED
        BY <3>1, <3>2 DEF DependencyState
    <2> QED
      BY <2>1, <1>5
  <1>7. new \in [Pkgs -> StateCache]
        /\ \A q \in Pkgs : new[q].inst = pkg[q].inst /\ new[q].cand = pkg[q].cand
    <2>1. \A q \in Pkgs : VerState(dep, q, pkg[q]) \in SUBSET Minima
      BY DEF VerState
    <2> HIDE DEF pkg, dep
    <2> QED
      BY <2>1, <1>3 DEF StateCache
  <1>8. \A d \in Deps : DependencyState(new, d) = DependencyState(pkg, d)
    <2>1. ASSUME NEW d \in Deps
          PROVE  DependencyState(new, d) = DependencyState(pkg, d)
      <3>1. \A c \in Checks : CheckDep(new, d, c) = CheckDep(pkg, d, c)
        <4> HIDE DEF new, pkg
        <4> QED
          BY <1>7, SameChoice
      <3>2. {c \in Checks : CheckDep(new, d, c)} = {c \in Checks : CheckDep(pkg, d, c)}
        BY <3>1
      <3> QED
        BY <3>2 DEF DependencyState
    <2> QED
      BY <2>1
  <1>9. \A d \in Deps : Target[d] \notin Dropped(new) => own[d] = DependencyState(new, d)
    <2>1. \A q \in Pkgs : new[q].cand = pkg[q].cand
      BY <1>7
    <2> HIDE DEF new, pkg, own
    <2>2. Dropped(new) = Dropped(pkg)
      BY <2>1 DEF Dropped
    <2> QED
      BY <1>6, <1>8, <2>2
  <1>10. own \in [Deps -> SUBSET Checks]
    <2>1. \A d \in Deps : s.dep[d].own \subseteq Checks
      BY <1>2 DEF DepFlags
    <2>2. \A d \in Deps : own[d] \subseteq Checks
      BY <2>1, BitsOK
    <2> QED
      BY <2>2
  <1>11. \A d \in Deps : grp[d] = GroupOrs(own, d)
    <2>1. ASSUME NEW d \in Deps, ~ \E e \in ds : ParentVer[e] = ParentVer[d]
          PROVE  s.dep[d].grp = GroupOrs(own, d)
      <3> DEFINE old == [e \in Deps |-> s.dep[e].own]
      <3>1. s.dep[d].grp = GroupOrs(old, d)
        BY <1>2 DEF Fresh
      <3>2. \A e \in Deps : ParentVer[e] = ParentVer[d] => old[e] = own[e]
        BY <2>1
      <3> HIDE DEF old, own
      <3>3. GroupOrs(old, d) = GroupOrs(own, d)
        BY <3>2, GroupSame
      <3> QED
        BY <3>1, <3>3
    <2>2. grp = [d \in Deps |-> IF \E e \in ds : ParentVer[e] = ParentVer[d]
                                THEN GroupOrs(own, d) ELSE s.dep[d].grp]
      BY DEF Regroup
    <2> HIDE DEF own, ds, grp
    <2> QED
      BY <2>1, <2>2
  <1>12. /\ \A d \in Deps : Target[d] \notin Dropped(new) => dep[d].own = DependencyState(new, d)
         /\ \A d \in Deps : dep[d].grp = GroupOrs([e \in Deps |-> dep[e].own], d)
    <2> HIDE DEF new
    <2>1. own = [e \in Deps |-> own[e]]
      OBVIOUS
    <2> HIDE DEF own, grp
    <2>2. \A d \in Deps : dep[d].own = own[d] /\ dep[d].grp = grp[d]
      OBVIOUS
    <2>3. [e \in Deps |-> dep[e].own] = own
      BY <2>1, <2>2
    <2> HIDE DEF dep
    <2> QED
      BY <1>9, <1>11, <2>2, <2>3
  <1>13. dep \in [Deps -> DepFlags]
    <2>1. \A d \in Deps : own[d] \subseteq Checks /\ grp[d] \subseteq Checks
      BY <1>10, <1>11, BitsOK
    <2> HIDE DEF own, grp
    <2> QED
      BY <2>1 DEF DepFlags
  <1>14. \A q \in Pkgs : new[q].met = VerState(dep, q, new[q])
    <2>0. ASSUME NEW q \in Pkgs
          PROVE  VerState(dep, q, new[q]) = VerState(dep, q, pkg[q])
      <3> HIDE DEF new, pkg, dep
      <3> QED
        BY <1>7 DEF VerState
    <2>1. ASSUME NEW q \in Touched(pkg, p), q \in Pkgs
          PROVE  new[q].met = VerState(dep, q, pkg[q])
      <3> HIDE DEF pkg, dep
      <3> QED
        BY <2>1, <1>3 DEF StateCache
    <2>2. ASSUME NEW q \in Pkgs, q \notin Touched(pkg, p)
          PROVE  new[q].met = VerState(dep, q, pkg[q])
      <3>1. q # p /\ pkg[q] = s.pkg[q] /\ new[q] = pkg[q]
        BY <2>2, <1>3 DEF Touched
      <3>2. s.pkg[q].met = VerState(s.dep, q, s.pkg[q])
        BY <1>2 DEF Fresh
      <3>3. \A e \in Deps : PkgOf[ParentVer[e]] = q => e \notin ds
        BY <2>2 DEF Touched, Parent
      <3>4. \A e \in Deps : PkgOf[ParentVer[e]] = q => dep[e].own = s.dep[e].own
        BY <3>3
      <3>5. ASSUME NEW v \in VerOrNone, v # NoVer => PkgOf[v] = q, NEW c
            PROVE  VersionState(dep, v, c) = VersionState(s.dep, v, c)
        <4> HIDE DEF dep
        <4>1. \A e \in Deps : v # NoVer /\ ParentVer[e] = v => dep[e].own = s.dep[e].own
          BY <3>4, <3>5
        <4> QED
          BY <4>1, VersionSame
      <3>6. \A v \in {Current[q], s.pkg[q].cand, s.pkg[q].inst} :
                v \in VerOrNone /\ (v # NoVer => PkgOf[v] = q)
        BY <1>2, <2>2, GraphOK DEF Shape, VerOrNone
      <3>7. VerState(dep, q, s.pkg[q]) = VerState(s.dep, q, s.pkg[q])
        <4> HIDE DEF dep
        <4> QED
          BY <3>5, <3>6 DEF VerState
      <3> QED
        BY <3>1, <3>2, <3>7
    <2> QED
      BY <2>0, <2>1, <2>2
  <1>15. Fresh(next)
    <2> HIDE DEF new, dep
    <2> QED
      BY <1>12, <1>14 DEF Fresh
  <1>16. Shape(next) /\ Known(next) /\ FromOffer(next)
    <2>1. \A q \in Pkgs : pkg[q].cand \in Offered(q)
      BY <1>2, <1>3 DEF FromOffer, Fits
    <2> HIDE DEF new, dep, pkg
    <2> QED
      BY <1>4, <1>7, <1>13, <2>1 DEF Shape, Known, FromOffer
  <1> QED
    BY <1>1, <1>15, <1>16 DEF Good

\* A StateCache of s may be given another mode, install version or purge flag.
LEMMA KeepCandidate ==
    ASSUME NEW s, Good(s), NEW p \in Pkgs, NEW r \in StateCache,
           r.cand = s.pkg[p].cand, r.inst \in {NoVer, Current[p], r.cand}
    PROVE  Fits(p, r)
  <1>1. {Current[p], r.cand} \subseteq {v \in Vers : PkgOf[v] = p} \cup {NoVer}
    BY GraphOK DEF Good, Shape
  <1> QED
    BY <1>1 DEF Fits, Good, FromOffer

\* Only inst, cand and met of a StateCache matter to the cached values.
LEMMA OtherFields ==
    ASSUME NEW s, Good(s), NEW pkg \in [Pkgs -> StateCache], NEW count,
           \A q \in Pkgs : /\ pkg[q].inst = s.pkg[q].inst
                           /\ pkg[q].cand = s.pkg[q].cand
                           /\ pkg[q].met = s.pkg[q].met
    PROVE  Good([pkg |-> pkg, dep |-> s.dep, count |-> count])
  <1> DEFINE t == [pkg |-> pkg, dep |-> s.dep, count |-> count]
  <1>1. \A d \in Deps : DependencyState(pkg, d) = DependencyState(s.pkg, d)
    <2>1. ASSUME NEW d \in Deps
          PROVE  DependencyState(pkg, d) = DependencyState(s.pkg, d)
      <3>1. \A c \in Checks : CheckDep(pkg, d, c) = CheckDep(s.pkg, d, c)
        BY SameChoice
      <3>2. {c \in Checks : CheckDep(pkg, d, c)} = {c \in Checks : CheckDep(s.pkg, d, c)}
        BY <3>1
      <3> QED
        BY <3>2 DEF DependencyState
    <2> QED
      BY <2>1
  <1>3. \A q \in Pkgs : VerState(s.dep, q, pkg[q]) = VerState(s.dep, q, s.pkg[q])
    BY DEF VerState
  <1>2. Dropped(pkg) = Dropped(s.pkg)
    BY DEF Dropped
  <1>4. Fresh(t)
    BY <1>1, <1>2, <1>3 DEF Good, Fresh
  <1>5. Shape(t) /\ Known(t) /\ FromOffer(t)
    BY DEF Good, Shape, Known, FromOffer
  <1> QED
    BY <1>4, <1>5 DEF Good

\* MarkKeep gives a package the candidate it had and its current version.
LEMMA KeepGood ==
    ASSUME NEW s, Good(s), NEW p \in Pkgs
    PROVE  Good(MarkKeep(s, p))
  <1> DEFINE r == [s.pkg[p] EXCEPT !.mode = "Keep", !.inst = Current[p]]
  <1>1. s.pkg[p] \in StateCache /\ Current[p] \in VerOrNone
    BY GraphOK DEF Good, Shape
  <1>2. r \in StateCache /\ r.cand = s.pkg[p].cand /\ r.inst = Current[p]
    BY <1>1 DEF StateCache, Modes
  <1>3. Good(Change(s, p, r))
    <2> HIDE DEF r
    <2>1. Fits(p, r)
      BY <1>2, KeepCandidate
    <2> QED
      BY <2>1, ChangeGood
  <1> QED
    BY <1>3 DEF MarkKeep

\* MarkDelete sets the purge flag, also where it returns early, and may change
\* the package.
LEMMA DeleteGood ==
    ASSUME NEW s, Good(s), NEW p \in Pkgs, NEW purge \in BOOLEAN
    PROVE  Good(MarkDelete(s, p, purge))
  <1> DEFINE r == [s.pkg[p] EXCEPT !.purge = purge]
             m == IF Current[p] = NoVer /\ (Purged(p) \/ ~purge) THEN "Keep" ELSE "Delete"
             r2 == [r EXCEPT !.inst = NoVer, !.mode = m]
             t == [s EXCEPT !.pkg[p] = r]
  <1>1. s.pkg[p] \in StateCache /\ s.pkg \in [Pkgs -> StateCache]
        /\ s = [pkg |-> s.pkg, dep |-> s.dep, count |-> s.count]
    BY DEF Good, Shape
  <1>2. r \in StateCache /\ r.inst = s.pkg[p].inst /\ r.cand = s.pkg[p].cand
        /\ r.met = s.pkg[p].met
    BY <1>1 DEF StateCache
  <1>3. r2 \in StateCache /\ r2.cand = s.pkg[p].cand /\ r2.inst = NoVer
    BY <1>1 DEF StateCache, Modes, VerOrNone
  <1>4. Good(t)
    <2> DEFINE pkg == [s.pkg EXCEPT ![p] = r]
    <2>1. t = [pkg |-> pkg, dep |-> s.dep, count |-> s.count]
      <3> HIDE DEF r
      <3> QED
        BY <1>1
    <2>2. pkg \in [Pkgs -> StateCache] /\ \A q \in Pkgs : /\ pkg[q].inst = s.pkg[q].inst
                                                         /\ pkg[q].cand = s.pkg[q].cand
                                                         /\ pkg[q].met = s.pkg[q].met
      <3> HIDE DEF r
      <3> QED
        BY <1>1, <1>2
    <2> HIDE DEF pkg, t
    <2> QED
      BY <2>1, <2>2, OtherFields
  <1>5. Good(Change(s, p, r2))
    <2> HIDE DEF r2
    <2>1. Fits(p, r2)
      BY <1>3, KeepCandidate
    <2> QED
      BY <2>1, ChangeGood
  <1> QED
    BY <1>4, <1>5 DEF MarkDelete

\* MarkInstall gives a package its candidate.
LEMMA InstallGood ==
    ASSUME NEW s, Good(s), NEW p \in Pkgs
    PROVE  Good(MarkInstall(s, p))
  <1> DEFINE r == [s.pkg[p] EXCEPT !.inst = s.pkg[p].cand,
                !.mode = IF s.pkg[p].cand = Current[p] THEN "Keep" ELSE "Install"]
  <1>1. s.pkg[p] \in StateCache
    BY DEF Good, Shape
  <1>2. r \in StateCache /\ r.cand = s.pkg[p].cand /\ r.inst = s.pkg[p].cand
    BY <1>1 DEF StateCache, Modes
  <1>3. Good(Change(s, p, r))
    <2> HIDE DEF r
    <2>1. Fits(p, r)
      BY <1>2, KeepCandidate
    <2> QED
      BY <2>1, ChangeGood
  <1> QED
    BY <1>3, KeepGood DEF MarkInstall

\* SetReInstall changes no version and follows no dependency.
LEMMA ReInstallGood ==
    ASSUME NEW s, Good(s), NEW p \in Pkgs
    PROVE  Good(SetReInstall(s, p, TRUE))
  <1> DEFINE r == [s.pkg[p] EXCEPT !.reinst = TRUE]
             pkg == [s.pkg EXCEPT ![p] = r]
             cnt == [k \in Totals |-> s.count[k] + Share(p, r)[k] - Share(p, s.pkg[p])[k]]
  <1>1. s.pkg[p] \in StateCache /\ s.pkg \in [Pkgs -> StateCache]
        /\ s = [pkg |-> s.pkg, dep |-> s.dep, count |-> s.count]
    BY DEF Good, Shape
  <1>2. r \in StateCache /\ r.inst = s.pkg[p].inst /\ r.cand = s.pkg[p].cand
        /\ r.met = s.pkg[p].met
    BY <1>1 DEF StateCache
  <1>3. SetReInstall(s, p, TRUE) = [pkg |-> pkg, dep |-> s.dep, count |-> cnt]
    <2>1. SetReInstall(s, p, TRUE) = [s EXCEPT !.pkg[p] = r, !.count = cnt]
      BY DEF SetReInstall
    <2> HIDE DEF r, cnt
    <2> QED
      BY <2>1, <1>1
  <1>4. pkg \in [Pkgs -> StateCache] /\ \A q \in Pkgs : /\ pkg[q].inst = s.pkg[q].inst
                                                       /\ pkg[q].cand = s.pkg[q].cand
                                                       /\ pkg[q].met = s.pkg[q].met
    <2> HIDE DEF r
    <2> QED
      BY <1>1, <1>2
  <1> HIDE DEF pkg, cnt
  <1> QED
    BY <1>3, <1>4, OtherFields

\* SetCandidateVersion is where names are dropped: Update(PkgIterator) no longer
\* sees what the replaced candidate provided.
LEMMA SelectGood ==
    ASSUME NEW s, Good(s), NEW v \in Selectable
    PROVE  Good(SetCandidateVersion(s, v))
  <1> DEFINE p == PkgOf[v]
             i == IF s.pkg[p].cand = s.pkg[p].inst THEN v ELSE s.pkg[p].inst
             r == [s.pkg[p] EXCEPT !.inst = i, !.cand = v, !.status = StatusOf(p, v)]
  <1>1. v \in Vers /\ v # NoVer /\ p \in Pkgs
    BY GraphOK
  <1>2. s.pkg[p] \in StateCache /\ {s.pkg[p].inst, s.pkg[p].cand} \subseteq
                           {w \in Vers : PkgOf[w] = p} \cup {NoVer}
        /\ s.pkg[p].inst \in {NoVer, Current[p], s.pkg[p].cand}
    BY <1>1 DEF Good, Shape, Known
  <1>3. StatusOf(p, v) \in {-1, 0, 1, 2}
    BY DEF StatusOf
  <1>4. r \in StateCache /\ r.cand = v /\ r.inst = i
    BY <1>1, <1>2, <1>3 DEF StateCache, VerOrNone
  <1>5. Fits(p, r)
    <2>1. i \in {NoVer, Current[p], v} /\ i \in {w \in Vers : PkgOf[w] = p} \cup {NoVer}
      BY <1>1, <1>2
    <2> HIDE DEF r, i
    <2> QED
      BY <1>1, <1>4, <2>1 DEF Fits, Offered
  <1>6. Good(Change(s, p, r))
    <2> HIDE DEF r
    <2> QED
      BY <1>5, ChangeGood
  <1> QED
    BY <1>6 DEF SetCandidateVersion

-----------------------------------------------------------------------------

\* Init computes everything.
LEMMA InitGood == Init => GoodInv
  <1> DEFINE pkg == [p \in Pkgs |->
                [inst |-> Current[p], cand |-> FirstCandidate[p], mode |-> "Keep",
                 status |-> StatusOf(p, FirstCandidate[p]), purge |-> FALSE,
                 reinst |-> FALSE, met |-> Minima]]
             dep == AllDeps(pkg)
             new == [p \in Pkgs |-> [pkg[p] EXCEPT !.met = VerState(dep, p, pkg[p])]]
             cnt == Recount(new)
  <1>1. \A p \in Pkgs : StatusOf(p, FirstCandidate[p]) \in {-1, 0, 1, 2}
    BY DEF StatusOf
  <1>2. pkg \in [Pkgs -> StateCache]
    BY <1>1, GraphOK DEF StateCache, Modes
  <1>3. \A p \in Pkgs : VerState(dep, p, pkg[p]) \in SUBSET Minima
    BY DEF VerState
  <1>4. new \in [Pkgs -> StateCache]
        /\ \A p \in Pkgs : /\ new[p].inst = Current[p] /\ new[p].cand = FirstCandidate[p]
                           /\ pkg[p].inst = Current[p] /\ pkg[p].cand = FirstCandidate[p]
                           /\ new[p].met = VerState(dep, p, pkg[p])
    <2> HIDE DEF dep
    <2>1. \A p \in Pkgs : pkg[p].inst = Current[p] /\ pkg[p].cand = FirstCandidate[p]
      OBVIOUS
    <2> HIDE DEF pkg
    <2> QED
      BY <1>2, <1>3, <2>1 DEF StateCache
  <1> HIDE DEF pkg
  <1>5. \A d \in Deps : DependencyState(new, d) = DependencyState(pkg, d)
    <2>1. ASSUME NEW d \in Deps
          PROVE  DependencyState(new, d) = DependencyState(pkg, d)
      <3>1. \A c \in Checks : CheckDep(new, d, c) = CheckDep(pkg, d, c)
        <4> HIDE DEF new
        <4> QED
          BY <1>4, SameChoice
      <3>2. {c \in Checks : CheckDep(new, d, c)} = {c \in Checks : CheckDep(pkg, d, c)}
        BY <3>1
      <3> QED
        BY <3>2 DEF DependencyState
    <2> QED
      BY <2>1
  <1>6. /\ \A d \in Deps : dep[d].own = DependencyState(new, d)
        /\ \A d \in Deps : dep[d].grp = GroupOrs([e \in Deps |-> dep[e].own], d)
    <2>1. PICK own : own = [d \in Deps |-> DependencyState(pkg, d)]
      OBVIOUS
    <2>2. dep = [d \in Deps |-> [own |-> own[d], grp |-> GroupOrs(own, d)]]
      BY <2>1 DEF AllDeps
    <2> HIDE DEF dep, new
    <2>3. \A d \in Deps : dep[d].own = own[d] /\ dep[d].grp = GroupOrs(own, d)
      BY <2>2
    <2>4. [e \in Deps |-> dep[e].own] = own
      BY <2>1, <2>3
    <2> QED
      BY <1>5, <2>1, <2>3, <2>4
  <1>7. dep \in [Deps -> DepFlags]
    <2> DEFINE own == [d \in Deps |-> DependencyState(pkg, d)]
    <2>1. own \in [Deps -> SUBSET Checks]
      BY BitsOK
    <2>2. dep = [d \in Deps |-> [own |-> own[d], grp |-> GroupOrs(own, d)]]
      BY DEF AllDeps
    <2> HIDE DEF own, dep
    <2> QED
      BY <2>1, <2>2, BitsOK DEF DepFlags
  <1>8. \A p \in Pkgs : new[p].met = VerState(dep, p, new[p])
    <2> HIDE DEF new, dep
    <2> QED
      BY <1>4 DEF VerState
  <1>9. Rebuild(pkg) = [pkg |-> new, dep |-> dep, count |-> cnt]
    BY DEF Rebuild
  <1> HIDE DEF new, dep, cnt
  <1>10. Good([pkg |-> new, dep |-> dep, count |-> cnt])
    BY <1>4, <1>6, <1>7, <1>8, GraphOK DEF Good, Shape, Known, FromOffer, Offered, Fresh
  <1> QED
    BY <1>9, <1>10 DEF Init, GoodInv, pkg

\* One step per operation.
LEMMA StepGood ==
    ASSUME GoodInv, [Next]_vars
    PROVE  GoodInv'
  <1>0. Good(cache)
    BY DEF GoodInv
  <1>1. CASE Keep
    BY <1>0, <1>1, KeepGood DEF Keep, GoodInv
  <1>2. CASE Delete
    BY <1>0, <1>2, DeleteGood DEF Delete, GoodInv
  <1>3. CASE Install
    BY <1>0, <1>3, InstallGood DEF Install, GoodInv
  <1>4. CASE ReInstall
    <2>1. PICK p \in ReInstallable : cache' = SetReInstall(cache, p, TRUE) /\ UNCHANGED saved
      BY <1>4 DEF ReInstall
    <2>2. p \in Pkgs
      BY GraphOK
    <2> QED
      BY <1>0, <2>1, <2>2, ReInstallGood DEF GoodInv
  <1>5. CASE Select
    BY <1>0, <1>5, SelectGood DEF Select, GoodInv
  <1>6. CASE Save
    BY <1>6 DEF Save, GoodInv
  <1>7. CASE Restore
    BY <1>7 DEF Restore, Restored, GoodInv
  <1>8. CASE UNCHANGED vars
    BY <1>8 DEF vars, GoodInv
  <1> QED
    BY <1>1, <1>2, <1>3, <1>4, <1>5, <1>6, <1>7, <1>8 DEF Next

-----------------------------------------------------------------------------
(* Sums over a finite set, and what a change of some summands does to them. *)

\* Induction up to a number, for a set of numbers.
LEMMA Climb ==
    ASSUME NEW S, NEW k \in Nat, 0 \in S, \A n \in 0..(k - 1) : n \in S => n + 1 \in S
    PROVE  \A n \in 0..k : n \in S
<1> DEFINE B == {n \in 0..k : n \notin S}
           R == OpToRel(<, Nat)
<1> SUFFICES ASSUME B # {} PROVE FALSE  OBVIOUS
<1>1. IsWellFoundedOn(R, Nat)  BY NatLessThanWellFounded
<1>2. \A n, m \in Nat : n < m => <<n, m>> \in R  BY DEF OpToRel
<1>3. B \subseteq Nat /\ \A n \in B : n # 0 /\ n - 1 \in B  OBVIOUS
<1> HIDE DEF B, R
<1>4. PICK n \in B : \A m \in B : ~(<<m, n>> \in R)  BY <1>1, <1>3, WFMin
<1>5. n - 1 \in Nat /\ n \in Nat /\ n - 1 < n /\ n - 1 \in B  BY <1>3, <1>4
<1> QED  BY <1>2, <1>4, <1>5

\* What holds of a set when it holds of all smaller ones holds of all.
LEMMA Smaller ==
    ASSUME NEW P, IsFiniteSet(P), NEW A,
           \A T \in SUBSET P :
             (\A U \in SUBSET P : Cardinality(U) < Cardinality(T) => U \in A) => T \in A
    PROVE  \A T \in SUBSET P : T \in A
<1>1. \A T \in SUBSET P : IsFiniteSet(T) /\ Cardinality(T) \in Nat  BY FS_Subset, FS_CardinalityType
<1> SUFFICES ASSUME NEW T \in SUBSET P PROVE T \in A  OBVIOUS
<1> DEFINE S == {n \in Nat : \A U \in SUBSET P : Cardinality(U) < n => U \in A}
<1>2. PICK k \in Nat : k = Cardinality(T) + 1  BY <1>1
<1>3. 0 \in S
  <2>1. \A U \in SUBSET P : ~(Cardinality(U) < 0)  BY <1>1
  <2> QED  BY <2>1
<1>4. ASSUME NEW n \in 0..(k - 1), n \in S PROVE n + 1 \in S
  <2> SUFFICES ASSUME NEW U \in SUBSET P, Cardinality(U) < n + 1 PROVE U \in A  OBVIOUS
  <2>1. Cardinality(U) \in Nat /\ Cardinality(U) <= n  BY <1>1
  <2>2. \A V \in SUBSET P : Cardinality(V) < Cardinality(U) => V \in A
    <3> SUFFICES ASSUME NEW V \in SUBSET P, Cardinality(V) < Cardinality(U) PROVE V \in A
      OBVIOUS
    <3>1. Cardinality(V) \in Nat  BY <1>1
    <3>2. Cardinality(V) < n  BY <2>1, <3>1
    <3> QED  BY <1>4, <3>2
  <2> QED  BY <2>2
<1> HIDE DEF S
<1>5. \A n \in 0..k : n \in S  BY <1>3, <1>4, Climb
<1>6. k \in S /\ Cardinality(T) < k  BY <1>1, <1>2, <1>5
<1> QED  BY <1>6 DEF S

\* The folds of the model: F is the sum of f over every set of D.
AnyOf(T) == CHOOSE x \in T : TRUE
Adds(f, D, F) == F = [T \in D |-> IF T = {} THEN 0 ELSE f[AnyOf(T)] + F[T \ {AnyOf(T)}]]

LEMMA AnyIn == ASSUME NEW T, T # {} PROVE AnyOf(T) \in T
BY DEF AnyOf

Upto(P, n) == {T \in SUBSET P : Cardinality(T) <= n}

\* The recursive function exists.
LEMMA AddsExist ==
    ASSUME NEW P, IsFiniteSet(P), NEW f
    PROVE  \E F : Adds(f, SUBSET P, F)
<1> DEFINE S == {n \in Nat : \E F : Adds(f, Upto(P, n), F)}
<1>1. \A T \in SUBSET P : /\ IsFiniteSet(T) /\ Cardinality(T) \in Nat
                          /\ Cardinality(T) <= Cardinality(P) /\ (Cardinality(T) = 0 <=> T = {})
  BY FS_Subset, FS_CardinalityType, FS_EmptySet
<1>2. 0 \in S
  <2>1. \A T \in Upto(P, 0) : T = {}  BY <1>1 DEF Upto
  <2>2. Adds(f, Upto(P, 0), [T \in Upto(P, 0) |-> 0])  BY <2>1 DEF Adds
  <2> QED  BY <2>2
<1>3. ASSUME NEW n \in Nat, n \in S PROVE n + 1 \in S
  <2>1. PICK F : Adds(f, Upto(P, n), F)  BY <1>3
  <2>2. PICK G : G = [T \in Upto(P, n + 1) |-> IF T = {} THEN 0 ELSE f[AnyOf(T)] + F[T \ {AnyOf(T)}]]
    OBVIOUS
  <2>3. ASSUME NEW T \in Upto(P, n + 1), T # {} PROVE G[T \ {AnyOf(T)}] = F[T \ {AnyOf(T)}]
    <3>1. PICK U : U = T \ {AnyOf(T)}  OBVIOUS
    <3>2. T \in SUBSET P /\ AnyOf(T) \in T /\ Cardinality(T) <= n + 1  BY <2>3, AnyIn DEF Upto
    <3>3. Cardinality(U) = Cardinality(T) - 1  BY <1>1, <3>1, <3>2, FS_RemoveElement
    <3>4. U \in Upto(P, n) /\ U \in Upto(P, n + 1)  BY <1>1, <3>1, <3>2, <3>3 DEF Upto
    <3>5. F[U] = IF U = {} THEN 0 ELSE f[AnyOf(U)] + F[U \ {AnyOf(U)}]  BY <2>1, <3>4 DEF Adds
    <3>6. G[U] = IF U = {} THEN 0 ELSE f[AnyOf(U)] + F[U \ {AnyOf(U)}]  BY <2>2, <3>4
    <3> QED  BY <3>1, <3>5, <3>6
  <2>4. G = [T \in Upto(P, n + 1) |-> IF T = {} THEN 0 ELSE f[AnyOf(T)] + G[T \ {AnyOf(T)}]]
    BY <2>2, <2>3
  <2>5. Adds(f, Upto(P, n + 1), G)  BY <2>4 DEF Adds
  <2> QED  BY <2>5
<1> HIDE DEF S
<1>4. Cardinality(P) \in S
  <2>1. Cardinality(P) \in Nat  BY FS_CardinalityType
  <2>2. \A n \in 0..Cardinality(P) : n \in S  BY <1>2, <1>3, <2>1, Climb
  <2> QED  BY <2>1, <2>2
<1>5. Upto(P, Cardinality(P)) = SUBSET P  BY <1>1 DEF Upto
<1> QED  BY <1>4, <1>5 DEF S

\* The sum does not depend on the order in which the elements are chosen.
Total(f, P, F) ==
    /\ F \in [SUBSET P -> Int] /\ F[{}] = 0
    /\ \A T \in SUBSET P : \A x \in T : F[T] = f[x] + F[T \ {x}]

LEMMA AddsTotal ==
    ASSUME NEW P, IsFiniteSet(P), NEW f, \A x \in P : f[x] \in Int, NEW F, Adds(f, SUBSET P, F)
    PROVE  Total(f, P, F)
<1> DEFINE A == {T \in SUBSET P : F[T] \in Int}
           B == {T \in SUBSET P : \A x \in T : F[T] = f[x] + F[T \ {x}]}
<1>1. \A T \in SUBSET P : /\ IsFiniteSet(T) /\ Cardinality(T) \in Nat
                          /\ F[T] = IF T = {} THEN 0 ELSE f[AnyOf(T)] + F[T \ {AnyOf(T)}]
  BY FS_Subset, FS_CardinalityType DEF Adds
<1>2. ASSUME NEW T \in SUBSET P, NEW x \in T
      PROVE  T \ {x} \in SUBSET P /\ Cardinality(T \ {x}) < Cardinality(T)
  <2>1. Cardinality(T) \in Nat /\ IsFiniteSet(T)  BY <1>1
  <2>2. Cardinality(T \ {x}) = Cardinality(T) - 1  BY <2>1, FS_RemoveElement
  <2>3. Cardinality(T \ {x}) < Cardinality(T)  BY <2>1, <2>2
  <2> QED  BY <2>3
<1>3. \A T \in SUBSET P : T \in A
  <2>1. ASSUME NEW T \in SUBSET P, \A U \in SUBSET P : Cardinality(U) < Cardinality(T) => U \in A
        PROVE  T \in A
    <3>1. CASE T = {}
      <4>1. F[T] = 0  BY <1>1, <3>1
      <4> QED  BY <4>1
    <3>2. CASE T # {}
      <4>1. AnyOf(T) \in T /\ AnyOf(T) \in P  BY <3>2, AnyIn
      <4>2. T \ {AnyOf(T)} \in A  BY <1>2, <2>1, <4>1
      <4>3. F[T \ {AnyOf(T)}] \in Int /\ f[AnyOf(T)] \in Int  BY <4>1, <4>2
      <4>4. F[T] = f[AnyOf(T)] + F[T \ {AnyOf(T)}]  BY <1>1, <3>2
      <4> QED  BY <4>3, <4>4
    <3> QED  BY <3>1, <3>2
  <2> HIDE DEF A
  <2> QED  BY <2>1, Smaller, Zenon
<1>4. \A T \in SUBSET P : T \in B
  <2>1. ASSUME NEW T \in SUBSET P, \A U \in SUBSET P : Cardinality(U) < Cardinality(T) => U \in B
        PROVE  T \in B
    <3> SUFFICES ASSUME NEW x \in T PROVE F[T] = f[x] + F[T \ {x}]  OBVIOUS
    <3>1. PICK c : c = AnyOf(T)  OBVIOUS
    <3>2. c \in T /\ F[T] = f[c] + F[T \ {c}]  BY <1>1, <3>1, AnyIn
    <3>3. CASE x = c  BY <3>2, <3>3
    <3>4. CASE x # c
      <4>1. T \ {c} \in B /\ T \ {x} \in B  BY <1>2, <2>1, <3>2
      <4>2. F[T \ {c}] = f[x] + F[(T \ {c}) \ {x}]  BY <3>4, <4>1
      <4>3. F[T \ {x}] = f[c] + F[(T \ {x}) \ {c}]  BY <3>2, <3>4, <4>1
      <4>4. (T \ {c}) \ {x} = (T \ {x}) \ {c} /\ (T \ {x}) \ {c} \in SUBSET P  OBVIOUS
      <4>5. PICK a, b, r, u, v : /\ a = f[c] /\ b = f[x] /\ r = F[(T \ {x}) \ {c}]
                                 /\ u = F[T \ {c}] /\ v = F[T \ {x}]
        OBVIOUS
      <4>6. a \in Int /\ b \in Int /\ r \in Int  BY <1>3, <3>2, <4>4, <4>5
      <4>7. u = b + r /\ v = a + r /\ F[T] = a + u  BY <3>2, <4>2, <4>3, <4>4, <4>5
      <4>8. F[T] = b + v  BY <4>6, <4>7
      <4> QED  BY <4>5, <4>8
    <3> QED  BY <3>3, <3>4
  <2> HIDE DEF B
  <2> QED  BY <2>1, Smaller, Zenon
<1>5. F \in [SUBSET P -> Int]
  <2>1. F = [T \in SUBSET P |-> IF T = {} THEN 0 ELSE f[AnyOf(T)] + F[T \ {AnyOf(T)}]]  BY DEF Adds
  <2>2. F = [T \in SUBSET P |-> F[T]]  BY <2>1
  <2> QED  BY <1>3, <2>2
<1> QED  BY <1>1, <1>4, <1>5 DEF Total

\* A sum after some of its summands changed: D are the differences, over T.
LEMMA TotalChange ==
    ASSUME NEW P, IsFiniteSet(P), NEW f, NEW F, Total(f, P, F), NEW g, NEW G, Total(g, P, G),
           \A x \in P : f[x] \in Int /\ g[x] \in Int,
           NEW Q \in SUBSET P, NEW d, NEW D, Total(d, Q, D),
           \A x \in Q : d[x] = g[x] - f[x], \A x \in P \ Q : g[x] = f[x]
    PROVE  G[P] = F[P] + D[Q]
<1> DEFINE A == {T \in SUBSET P : G[T] = F[T] + D[T \cap Q]}
<1>1. ASSUME NEW T \in SUBSET P, \A U \in SUBSET P : Cardinality(U) < Cardinality(T) => U \in A
      PROVE  T \in A
  <2>1. CASE T = {}
    <3>1. G[T] = 0 /\ F[T] = 0 /\ D[T \cap Q] = 0  BY <2>1 DEF Total
    <3> QED  BY <3>1
  <2>2. CASE T # {}
    <3>1. PICK x : x \in T  BY <2>2
    <3>2. PICK U : U = T \ {x}  OBVIOUS
    <3>3. U \in SUBSET P /\ x \in P  BY <3>1, <3>2
    <3>4. Cardinality(U) = Cardinality(T) - 1 /\ Cardinality(T) \in Nat
      BY <3>1, <3>2, FS_Subset, FS_CardinalityType, FS_RemoveElement
    <3>5. U \in A  BY <1>1, <3>3, <3>4
    <3>6. G[U] = F[U] + D[U \cap Q]  BY <3>5
    <3>7. G[T] = g[x] + G[U] /\ F[T] = f[x] + F[U]  BY <3>1, <3>2 DEF Total
    <3>8. D[T \cap Q] = (g[x] - f[x]) + D[U \cap Q]
      <4>1. CASE x \in Q
        <5>1. T \cap Q \in SUBSET Q /\ x \in T \cap Q /\ (T \cap Q) \ {x} = U \cap Q
          BY <3>1, <3>2, <4>1
        <5>2. D[T \cap Q] = d[x] + D[U \cap Q]  BY <5>1 DEF Total
        <5> QED  BY <4>1, <5>2
      <4>2. CASE x \notin Q
        <5>1. T \cap Q = U \cap Q  BY <3>2, <4>2
        <5>2. g[x] - f[x] = 0  BY <3>3, <4>2
        <5>3. PICK e : e = D[U \cap Q]  OBVIOUS
        <5>4. U \cap Q \in SUBSET Q /\ D \in [SUBSET Q -> Int]  BY DEF Total
        <5>5. e \in Int /\ D[T \cap Q] = e  BY <5>1, <5>3, <5>4
        <5>6. D[T \cap Q] = 0 + e  BY <5>5
        <5> QED  BY <5>2, <5>3, <5>6
      <4> QED  BY <4>1, <4>2
    <3>9. PICK a, b, u, v, e : a = f[x] /\ b = g[x] /\ u = F[U] /\ v = G[U] /\ e = D[U \cap Q]
      OBVIOUS
    <3>10. a \in Int /\ b \in Int /\ u \in Int /\ e \in Int
      BY <3>3, <3>9 DEF Total
    <3>11. v = u + e /\ G[T] = b + v /\ F[T] = a + u /\ D[T \cap Q] = (b - a) + e
      BY <3>6, <3>7, <3>8, <3>9
    <3>12. G[T] = F[T] + D[T \cap Q]  BY <3>10, <3>11
    <3> QED  BY <3>12
  <2> QED  BY <2>1, <2>2
<1>2. \A T \in SUBSET P : T \in A
  <2> HIDE DEF A
  <2> QED  BY <1>1, Smaller, Zenon
<1>3. P \cap Q = Q /\ P \in SUBSET P  OBVIOUS
<1> QED  BY <1>2, <1>3

\* A sum of zeros and ones.
LEMMA TotalBound ==
    ASSUME NEW P, IsFiniteSet(P), NEW f, \A x \in P : f[x] \in {0, 1}, NEW F, Total(f, P, F)
    PROVE  \A T \in SUBSET P : F[T] \in 0..Cardinality(T)
<1> DEFINE A == {T \in SUBSET P : F[T] \in 0..Cardinality(T)}
<1>1. ASSUME NEW T \in SUBSET P, \A U \in SUBSET P : Cardinality(U) < Cardinality(T) => U \in A
      PROVE  T \in A
  <2>1. Cardinality(T) \in Nat /\ IsFiniteSet(T)  BY FS_Subset, FS_CardinalityType
  <2>2. CASE T = {}
    <3>1. F[T] = 0  BY <2>2 DEF Total
    <3> QED  BY <2>1, <3>1
  <2>3. CASE T # {}
    <3>1. PICK x : x \in T  BY <2>3
    <3>2. PICK U : U = T \ {x}  OBVIOUS
    <3>3. U \in SUBSET P /\ x \in P  BY <3>1, <3>2
    <3>4. Cardinality(U) = Cardinality(T) - 1  BY <2>1, <3>1, <3>2, FS_RemoveElement
    <3>5. U \in A  BY <1>1, <2>1, <3>3, <3>4
    <3>6. F[U] \in 0..Cardinality(U)  BY <3>5
    <3>7. F[T] = f[x] + F[U]  BY <3>1, <3>2 DEF Total
    <3>8. f[x] \in {0, 1}  BY <3>3
    <3>9. F[T] \in 0..Cardinality(T)  BY <2>1, <3>4, <3>6, <3>7, <3>8
    <3> QED  BY <3>9
  <2> QED  BY <2>2, <2>3
<1>2. \A T \in SUBSET P : T \in A
  <2> HIDE DEF A
  <2> QED  BY <1>1, Smaller, Zenon
<1> QED  BY <1>2

\* Such a sum is zero when all are.
LEMMA TotalZero ==
    ASSUME NEW P, IsFiniteSet(P), NEW f, \A x \in P : f[x] \in {0, 1}, NEW F, Total(f, P, F)
    PROVE  F[P] = 0 <=> \A x \in P : f[x] = 0
<1>1. ASSUME F[P] = 0, NEW x \in P PROVE f[x] = 0
  <2>1. PICK U : U = P \ {x}  OBVIOUS
  <2>2. F[P] = f[x] + F[U]
    <3>1. P \in SUBSET P  OBVIOUS
    <3> QED  BY <2>1, <3>1 DEF Total
  <2>3. Cardinality(U) \in Nat  BY <2>1, FS_Subset, FS_CardinalityType
  <2>4. F[U] \in 0..Cardinality(U)  BY <2>1, TotalBound
  <2>5. F[U] \in Int /\ F[U] >= 0  BY <2>3, <2>4
  <2>6. f[x] \in {0, 1}  OBVIOUS
  <2> QED  BY <1>1, <2>2, <2>5, <2>6
<1>2. ASSUME \A x \in P : f[x] = 0 PROVE F[P] = 0
  <2>1. PICK z, Z : z = [x \in P |-> 0] /\ Z = [T \in SUBSET P |-> 0]  OBVIOUS
  <2>2. Total(z, P, Z)  BY <2>1 DEF Total
  <2>3. PICK e, E : e = [x \in {} |-> 0] /\ E = [T \in SUBSET {} |-> 0]  OBVIOUS
  <2>4. Total(e, {}, E)  BY <2>3 DEF Total
  <2>5. /\ \A x \in P : z[x] \in Int /\ f[x] \in Int
        /\ \A x \in {} : e[x] = f[x] - z[x]
        /\ \A x \in P \ {} : f[x] = z[x]
    BY <1>2, <2>1
  <2>6. F[P] = Z[P] + E[{}]  BY <2>2, <2>4, <2>5, TotalChange
  <2>7. Z[P] = 0 /\ E[{}] = 0  BY <2>1, <2>3
  <2> QED  BY <2>6, <2>7
<1> QED  BY <1>1, <1>2

\* The share of every package in one of the totals.
Shares(pkg, k) == [q \in Pkgs |-> Share(q, pkg[q])[k]]

\* Recount gives these sums ...
LEMMA RecountTotal ==
    ASSUME IsFiniteSet(Pkgs), NEW pkg, NEW k \in Totals, \A q \in Pkgs : Share(q, pkg[q])[k] \in Int
    PROVE  \E F : Total(Shares(pkg, k), Pkgs, F) /\ Recount(pkg)[k] = F[Pkgs]
<1> DEFINE f == Shares(pkg, k)
           Is(F) == F = [T \in SUBSET Pkgs |-> IF T = {} THEN 0
                ELSE Share(AnyOf(T), pkg[AnyOf(T)])[k] + F[T \ {AnyOf(T)}]]
<1>1. \A F : Is(F) <=> Adds(f, SUBSET Pkgs, F)
  <2>1. \A T \in SUBSET Pkgs : T # {} => f[AnyOf(T)] = Share(AnyOf(T), pkg[AnyOf(T)])[k]
    BY AnyIn DEF Shares
  <2> HIDE DEF f
  <2> QED  BY <2>1 DEF Adds
<1>2. PICK F : F = CHOOSE G : Is(G)  OBVIOUS
<1>3. Is(F)
  <2>1. \E G : Is(G)
    <3> HIDE DEF Is, f
    <3> QED  BY <1>1, AddsExist
  <2> HIDE DEF Is
  <2> QED  BY <1>2, <2>1
<1>4. Recount(pkg)[k] = F[Pkgs]  BY <1>2 DEF Recount, MapThenSumSet, MapThenFoldSet, AnyOf
<1>5. \A x \in Pkgs : f[x] \in Int  BY DEF Shares
<1> HIDE DEF Is, f
<1> QED  BY <1>1, <1>3, <1>4, <1>5, AddsTotal DEF f
\* D are the sums of what the packages of Q add to k in new and not in old.
Differs(old, new, k, Q, D) ==
    \E d : /\ Total(d, Q, D)
           /\ \A q \in Q : d[q] = Share(q, new[q])[k] - Share(q, old[q])[k]

\* What Update(PkgIterator) adds to the totals is the sum of the differences.
LEMMA CountsTotal ==
    ASSUME NEW s, NEW pkg, NEW p, NEW new, NEW k \in Totals,
           NEW Q, Q = Counted(pkg, p), IsFiniteSet(Q),
           \A q \in Q : Share(q, new[q])[k] \in Int /\ Share(q, s.pkg[q])[k] \in Int
    PROVE  \E D : /\ Differs(s.pkg, new, k, Q, D)
                  /\ NewCounts(s, pkg, p, new)[k] = s.count[k] + D[Q]
<1> DEFINE d == [q \in Q |-> Share(q, new[q])[k] - Share(q, s.pkg[q])[k]]
           Is(F) == F = [T \in SUBSET Q |-> IF T = {} THEN 0
                ELSE (Share(AnyOf(T), new[AnyOf(T)])[k] - Share(AnyOf(T), s.pkg[AnyOf(T)])[k])
                     + F[T \ {AnyOf(T)}]]
<1>1. \A F : Is(F) <=> Adds(d, SUBSET Q, F)
  <2>1. \A T \in SUBSET Q :
          T # {} => d[AnyOf(T)] = Share(AnyOf(T), new[AnyOf(T)])[k] - Share(AnyOf(T), s.pkg[AnyOf(T)])[k]
    BY AnyIn
  <2> HIDE DEF d
  <2> QED  BY <2>1 DEF Adds
<1>2. PICK D : D = CHOOSE G : Is(G)  OBVIOUS
<1>3. Is(D)
  <2>1. \E G : Is(G)
    <3> HIDE DEF Is, d
    <3> QED  BY <1>1, AddsExist
  <2> HIDE DEF Is
  <2> QED  BY <1>2, <2>1
<1>4. NewCounts(s, pkg, p, new)[k] = s.count[k] + D[Q]
  <2>1. NewCounts(s, pkg, p, new) = [j \in Totals |-> s.count[j]
          + MapThenSumSet(LAMBDA q : Share(q, new[q])[j] - Share(q, s.pkg[q])[j], Q)]
    BY SameValue DEF NewCounts
  <2>2. NewCounts(s, pkg, p, new)[k] = s.count[k]
          + MapThenSumSet(LAMBDA q : Share(q, new[q])[k] - Share(q, s.pkg[q])[k], Q)
    BY <2>1 DEF MapThenSumSet, MapThenFoldSet
  <2>3. MapThenSumSet(LAMBDA q : Share(q, new[q])[k] - Share(q, s.pkg[q])[k], Q) = D[Q]
    BY <1>2 DEF MapThenSumSet, MapThenFoldSet, AnyOf
  <2> QED  BY <2>2, <2>3 DEF MapThenSumSet, MapThenFoldSet
<1>5. \A q \in Q : d[q] = Share(q, new[q])[k] - Share(q, s.pkg[q])[k] /\ d[q] \in Int
  OBVIOUS
<1> HIDE DEF Is, d
<1>6. Total(d, Q, D)  BY <1>1, <1>3, <1>5, AddsTotal
<1> QED  BY <1>4, <1>5, <1>6 DEF Differs

-----------------------------------------------------------------------------
(* The totals.                                                             *)

\* What the mode of a package says of its install version: AddSizes reads it.
Planned(p, r) ==
    /\ r.mode = "Install" => r.inst # NoVer
    /\ r.mode = "Keep" /\ Current[p] # NoVer => r.inst # NoVer

\* A StateCache of p.
Suits(p, r) ==
    /\ r \in StateCache /\ Planned(p, r)
    /\ {r.inst, r.cand} \subseteq {v \in Vers : PkgOf[v] = p} \cup {NoVer}

\* The inductive invariant of the totals, again also of the saved copy.  Whether
\* the rest of the state is fresh does not matter to it.
Sound(s) ==
    /\ Shape(s) /\ \A p \in Pkgs : Planned(p, s.pkg[p])
    /\ s.count = Recount(s.pkg)
SoundInv == Sound(cache) /\ (saved = << >> \/ Sound(saved))

\* Every package adds a number, and to the counters zero or one.
LEMMA ShareType ==
    ASSUME NEW p \in Pkgs, NEW r, Suits(p, r), NEW k \in Totals
    PROVE  /\ Share(p, r)[k] \in Int
           /\ k \notin {"usr", "down"} => Share(p, r)[k] \in {0, 1}
<1>1. /\ r.inst \in VerOrNone /\ Current[p] \in VerOrNone
      /\ Size \in [Vers -> Nat] /\ InstalledSize \in [Vers -> Nat]
      /\ Needs[p] = "Unpack" => Current[p] # NoVer
      /\ r.mode \in Modes
  BY GraphOK, TotalsOK DEF Suits, StateCache
<1>2. Sizes(p, r).usr \in Int /\ Sizes(p, r).down \in Int
  <2>1. CASE Virtual(p) \/ (Needs[p] = "Configure" /\ r.mode = "Keep")
    BY <2>1 DEF Sizes, NoSizes
  <2>2. CASE ~(Virtual(p) \/ (Needs[p] = "Configure" /\ r.mode = "Keep"))
    <3>1. CASE r.status = 2 /\ r.mode = "Install"
      <4>1. r.inst \in Vers  BY <1>1, <3>1 DEF Suits, Planned, VerOrNone
      <4>2. InstalledSize[r.inst] \in Nat /\ Size[r.inst] \in Nat  BY <1>1, <4>1
      <4> QED  BY <2>2, <3>1, <4>2 DEF Sizes
    <3>2. CASE ~(r.status = 2 /\ r.mode = "Install") /\ NoVer \notin {Current[p], r.inst}
               /\ (r.inst # Current[p] \/ r.reinst)
      <4>1. r.inst \in Vers /\ Current[p] \in Vers  BY <1>1, <3>2 DEF VerOrNone
      <4>2. /\ InstalledSize[r.inst] \in Nat /\ Size[r.inst] \in Nat
            /\ InstalledSize[Current[p]] \in Nat
        BY <1>1, <4>1
      <4> QED  BY <2>2, <3>2, <4>2 DEF Sizes
    <3>3. CASE /\ ~(r.status = 2 /\ r.mode = "Install")
               /\ ~(NoVer \notin {Current[p], r.inst} /\ (r.inst # Current[p] \/ r.reinst))
               /\ Needs[p] = "Unpack" /\ r.mode # "Delete"
      <4>1. r.inst \in Vers  BY <1>1, <3>3 DEF Suits, Planned, VerOrNone, Modes
      <4>2. Size[r.inst] \in Nat  BY <1>1, <4>1
      <4> QED  BY <2>2, <3>3, <4>2 DEF Sizes
    <3>4. CASE /\ ~(r.status = 2 /\ r.mode = "Install")
               /\ ~(NoVer \notin {Current[p], r.inst} /\ (r.inst # Current[p] \/ r.reinst))
               /\ ~(Needs[p] = "Unpack" /\ r.mode # "Delete")
      <4>1. Current[p] # NoVer => InstalledSize[Current[p]] \in Nat  BY <1>1 DEF VerOrNone
      <4> QED  BY <2>2, <3>4, <4>1 DEF Sizes, NoSizes
    <3> QED  BY <3>1, <3>2, <3>3, <3>4
  <2> QED  BY <2>1, <2>2
<1>3. Share(p, r)[k] = IF k \in {"usr", "down"} THEN Sizes(p, r)[k]
                       ELSE IF k \in States(p, r) THEN 1 ELSE 0
  BY DEF Share
<1>4. CASE k \in {"usr", "down"}  BY <1>2, <1>3, <1>4
<1>5. CASE k \notin {"usr", "down"}  BY <1>3, <1>5
<1> QED  BY <1>4, <1>5

\* Every package of a sound state has a suitable StateCache.
LEMMA SoundSuits ==
    ASSUME NEW s, Shape(s), \A q \in Pkgs : Planned(q, s.pkg[q])
    PROVE  \A q \in Pkgs : Suits(q, s.pkg[q])
BY DEF Shape, Suits

\* The totals after a change of some packages.
LEMMA RecountChange ==
    ASSUME NEW s, NEW t, \A q \in Pkgs : Suits(q, s[q]) /\ Suits(q, t[q]),
           NEW k \in Totals, NEW Q \in SUBSET Pkgs,
           \A q \in Pkgs \ Q : Share(q, t[q])[k] = Share(q, s[q])[k],
           NEW d, NEW D, Total(d, Q, D),
           \A q \in Q : d[q] = Share(q, t[q])[k] - Share(q, s[q])[k]
    PROVE  Recount(t)[k] = Recount(s)[k] + D[Q]
<1>1. IsFiniteSet(Pkgs)  BY TotalsOK
<1>2. \A q \in Pkgs : Share(q, s[q])[k] \in Int /\ Share(q, t[q])[k] \in Int  BY ShareType
<1>3. PICK F : Total(Shares(s, k), Pkgs, F) /\ Recount(s)[k] = F[Pkgs]
  BY <1>1, <1>2, RecountTotal
<1>4. PICK G : Total(Shares(t, k), Pkgs, G) /\ Recount(t)[k] = G[Pkgs]
  BY <1>1, <1>2, RecountTotal
<1>5. \A q \in Pkgs : Shares(s, k)[q] = Share(q, s[q])[k] /\ Shares(t, k)[q] = Share(q, t[q])[k]
  BY DEF Shares
<1>6. PICK f, g : f = Shares(s, k) /\ g = Shares(t, k)  OBVIOUS
<1>7. /\ Total(f, Pkgs, F) /\ Total(g, Pkgs, G)
      /\ \A q \in Pkgs : f[q] \in Int /\ g[q] \in Int
      /\ \A q \in Q : d[q] = g[q] - f[q]
      /\ \A q \in Pkgs \ Q : g[q] = f[q]
  BY <1>2, <1>3, <1>4, <1>5, <1>6
<1>8. G[Pkgs] = F[Pkgs] + D[Q]  BY <1>1, <1>7, TotalChange
<1> QED  BY <1>3, <1>4, <1>8

\* The totals of packages that add the same.
LEMMA RecountSame ==
    ASSUME NEW s, NEW t, \A q \in Pkgs : Suits(q, s[q]) /\ Suits(q, t[q]),
           \A q \in Pkgs : Share(q, t[q]) = Share(q, s[q])
    PROVE  Recount(t) = Recount(s)
<1>1. Total([q \in {} |-> 0], {}, [T \in SUBSET {} |-> 0])  BY DEF Total
<1>2. ASSUME NEW k \in Totals PROVE Recount(t)[k] = Recount(s)[k]
  <2>1. Recount(t)[k] = Recount(s)[k] + [T \in SUBSET {} |-> 0][{}]
    BY <1>1, RecountChange
  <2>2. Recount(s)[k] \in Int
    <3>1. \A q \in Pkgs : Share(q, s[q])[k] \in Int  BY ShareType
    <3>2. PICK F : Total(Shares(s, k), Pkgs, F) /\ Recount(s)[k] = F[Pkgs]
      BY <3>1, TotalsOK, RecountTotal
    <3> QED  BY <3>2 DEF Total
  <2> QED  BY <2>1, <2>2
<1>3. Recount(t) = [k \in Totals |-> Recount(t)[k]] /\ Recount(s) = [k \in Totals |-> Recount(s)[k]]
  BY DEF Recount, MapThenSumSet, MapThenFoldSet
<1> QED  BY <1>2, <1>3

\* A change of one package leaves the totals exact.
LEMMA ChangeSound ==
    ASSUME NEW s, Sound(s), NEW p \in Pkgs, NEW r, Suits(p, r)
    PROVE  Sound(Change(s, p, r))
<1>1. PICK pkg : pkg = [s.pkg EXCEPT ![p] = r]  OBVIOUS
<1>2. PICK ds : ds = Stale(pkg, p)  OBVIOUS
<1>3. PICK own : own = NewOwn(s, pkg, ds)  OBVIOUS
<1>4. PICK dep : dep = NewDeps(s, own, ds)  OBVIOUS
<1>5. PICK new : new = NewStates(pkg, p, dep)  OBVIOUS
<1>6. PICK cnt : cnt = NewCounts(s, pkg, p, new)  OBVIOUS
<1>7. Change(s, p, r) = [pkg |-> new, dep |-> dep, count |-> cnt]
  BY <1>1, <1>2, <1>3, <1>4, <1>5, <1>6 DEF Change, Changed, Updated, Restated, Recounted
<1>8. /\ Shape(s) /\ s.pkg \in [Pkgs -> StateCache] /\ s.dep \in [Deps -> DepFlags]
      /\ s.count = Recount(s.pkg) /\ \A q \in Pkgs : Suits(q, s.pkg[q])
  BY SoundSuits DEF Sound, Shape
<1>9. /\ pkg \in [Pkgs -> StateCache] /\ pkg[p] = r
      /\ \A q \in Pkgs \ {p} : pkg[q] = s.pkg[q]
      /\ \A q \in Pkgs : Suits(q, pkg[q])
  BY <1>1, <1>8 DEF Suits
<1>10. own \in [Deps -> SUBSET Checks]
  <2>1. own = [d \in Deps |-> IF d \in ds THEN DependencyState(pkg, d) ELSE s.dep[d].own]
    BY <1>3, SameValue DEF NewOwn
  <2>2. \A d \in Deps : DependencyState(pkg, d) \subseteq Checks /\ s.dep[d].own \subseteq Checks
    BY <1>8, BitsOK DEF DepFlags
  <2> QED  BY <2>1, <2>2
<1>11. dep \in [Deps -> DepFlags]
  <2>1. dep = [d \in Deps |-> [own |-> own[d], grp |-> Regroup(own, s.dep, ds)[d]]]
    BY <1>4, SameValue DEF NewDeps
  <2>2. \A d \in Deps : Regroup(own, s.dep, ds)[d] =
          IF \E e \in ds : ParentVer[e] = ParentVer[d] THEN GroupOrs(own, d) ELSE s.dep[d].grp
    BY DEF Regroup
  <2>3. \A d \in Deps : GroupOrs(own, d) \subseteq Checks /\ s.dep[d].grp \subseteq Checks
    BY <1>8, <1>10, BitsOK DEF DepFlags
  <2>4. \A d \in Deps : Regroup(own, s.dep, ds)[d] \subseteq Checks  BY <2>2, <2>3
  <2> QED  BY <1>10, <2>1, <2>4 DEF DepFlags
<1>12. ASSUME NEW q \in Pkgs
       PROVE  /\ new[q] \in StateCache
              /\ \A f \in {"inst", "cand", "mode", "status", "purge", "reinst"} :
                   new[q][f] = pkg[q][f]
              /\ q \notin Touched(pkg, p) => new[q] = s.pkg[q]
  <2>1. new[q] = IF q \in Touched(pkg, p) THEN [pkg[q] EXCEPT !.met = VerState(dep, q, pkg[q])]
                 ELSE pkg[q]
    BY <1>5, SameValue DEF NewStates
  <2>2. VerState(dep, q, pkg[q]) \subseteq Minima  BY DEF VerState
  <2>3. pkg[q] \in StateCache  BY <1>9
  <2>4. q \notin Touched(pkg, p) => pkg[q] = s.pkg[q]  BY <1>9 DEF Touched
  <2> QED  BY <2>1, <2>2, <2>3, <2>4 DEF StateCache
<1>13. new = [q \in Pkgs |-> new[q]]
  <2>1. new = [q \in Pkgs |-> IF q \in Touched(pkg, p)
                 THEN [pkg[q] EXCEPT !.met = VerState(dep, q, pkg[q])] ELSE pkg[q]]
    BY <1>5, SameValue DEF NewStates
  <2> QED  BY <2>1
<1>14. new \in [Pkgs -> StateCache]  BY <1>12, <1>13
<1>15. \A q \in Pkgs : Suits(q, new[q])
  <2> SUFFICES ASSUME NEW q \in Pkgs PROVE Suits(q, new[q])  OBVIOUS
  <2>1. new[q].inst = pkg[q].inst /\ new[q].cand = pkg[q].cand /\ new[q].mode = pkg[q].mode
    BY <1>12
  <2> QED  BY <1>9, <1>12, <2>1 DEF Suits, Planned
<1>16. cnt = Recount(new)
  <2>1. PICK Q : Q = Counted(pkg, p)  OBVIOUS
  <2>2. Q \in SUBSET Pkgs /\ Q = Touched(pkg, p)
    <3>1. \A d \in Deps : Parent(d) \in Pkgs  BY GraphOK DEF Parent
    <3> QED  BY <2>1, <3>1 DEF Counted, Touched, Stale
  <2>3. IsFiniteSet(Q)  BY <2>2, TotalsOK, FS_Subset
  <2>4. ASSUME NEW k \in Totals PROVE cnt[k] = Recount(new)[k]
    <3>1. \A q \in Pkgs : Share(q, new[q])[k] \in Int /\ Share(q, s.pkg[q])[k] \in Int
      BY <1>8, <1>15, ShareType
    <3>2. \A q \in Q : Share(q, new[q])[k] \in Int /\ Share(q, s.pkg[q])[k] \in Int
      BY <2>2, <3>1
    <3>3. PICK D : Differs(s.pkg, new, k, Q, D) /\ cnt[k] = s.count[k] + D[Q]
      BY <1>6, <2>1, <2>3, <3>2, CountsTotal
    <3>4. \A q \in Pkgs \ Q : Share(q, new[q])[k] = Share(q, s.pkg[q])[k]  BY <1>12, <2>2
    <3>5. Recount(new)[k] = Recount(s.pkg)[k] + D[Q]
      BY <1>8, <1>15, <2>2, <3>3, <3>4, RecountChange DEF Differs
    <3> QED  BY <1>8, <3>3, <3>5
  <2>5. cnt = [k \in Totals |-> cnt[k]]
    BY <1>6, SameValue DEF NewCounts, MapThenSumSet, MapThenFoldSet
  <2>6. Recount(new) = [k \in Totals |-> Recount(new)[k]]
    BY DEF Recount, MapThenSumSet, MapThenFoldSet
  <2> QED  BY <2>4, <2>5, <2>6
<1>17. Sound([pkg |-> new, dep |-> dep, count |-> cnt])
  BY <1>11, <1>14, <1>15, <1>16 DEF Sound, Shape, Suits
<1> QED  BY <1>7, <1>17

\* MarkKeep keeps the current version.
LEMMA KeepSound ==
    ASSUME NEW s, Sound(s), NEW p \in Pkgs
    PROVE  Sound(MarkKeep(s, p))
<1>1. PICK r : r = [s.pkg[p] EXCEPT !.mode = "Keep", !.inst = Current[p]]  OBVIOUS
<1>2. Suits(p, s.pkg[p])  BY SoundSuits DEF Sound
<1>3. Suits(p, r)
  <2>1. s.pkg[p] \in StateCache /\ Current[p] \in {v \in Vers : PkgOf[v] = p} \cup {NoVer}
    BY <1>2, GraphOK DEF Suits
  <2>2. /\ r \in StateCache /\ r.mode = "Keep"
        /\ r.inst = Current[p] /\ r.cand = s.pkg[p].cand
    BY <1>1, <2>1 DEF StateCache, Modes, VerOrNone
  <2> QED  BY <1>2, <2>1, <2>2 DEF Suits, Planned
<1>4. Sound(Change(s, p, r))  BY <1>3, ChangeSound
<1> QED  BY <1>1, <1>4 DEF MarkKeep

\* MarkDelete removes what is installed, and keeps nothing of what is not; where
\* it only sets the purge flag no total changes.
LEMMA DeleteSound ==
    ASSUME NEW s, Sound(s), NEW p \in Pkgs, NEW purge \in BOOLEAN
    PROVE  Sound(MarkDelete(s, p, purge))
<1>1. PICK r : r = [s.pkg[p] EXCEPT !.purge = purge]  OBVIOUS
<1>2. PICK m : m = IF Current[p] = NoVer /\ (Purged(p) \/ ~purge) THEN "Keep" ELSE "Delete"
  OBVIOUS
<1>3. PICK x : x = [r EXCEPT !.inst = NoVer, !.mode = m]  OBVIOUS
<1>4. PICK t : t = [s EXCEPT !.pkg[p] = r]  OBVIOUS
<1>5. MarkDelete(s, p, purge) \in {t, Change(s, p, x)}
  BY <1>1, <1>2, <1>3, <1>4 DEF MarkDelete
<1>6. /\ Shape(s) /\ s.count = Recount(s.pkg) /\ \A q \in Pkgs : Suits(q, s.pkg[q])
      /\ s = [pkg |-> s.pkg, dep |-> s.dep, count |-> s.count]
      /\ s.pkg \in [Pkgs -> StateCache] /\ s.dep \in [Deps -> DepFlags]
  BY SoundSuits DEF Sound, Shape
<1>7. /\ r \in StateCache /\ r.inst = s.pkg[p].inst /\ r.cand = s.pkg[p].cand
      /\ r.mode = s.pkg[p].mode /\ r.status = s.pkg[p].status /\ r.reinst = s.pkg[p].reinst
      /\ r.met = s.pkg[p].met
  BY <1>1, <1>6 DEF StateCache
<1>8. Suits(p, x)
  <2>1. /\ x \in StateCache /\ x.inst = NoVer /\ x.cand = s.pkg[p].cand /\ x.mode = m
    BY <1>2, <1>3, <1>7 DEF StateCache, Modes, VerOrNone
  <2>2. m # "Install" /\ (m = "Keep" => Current[p] = NoVer)  BY <1>2
  <2> QED  BY <1>6, <2>1, <2>2 DEF Suits, Planned
<1>9. Sound(t)
  <2>1. PICK pkg : pkg = [s.pkg EXCEPT ![p] = r]  OBVIOUS
  <2>2. t = [pkg |-> pkg, dep |-> s.dep, count |-> s.count]  BY <1>4, <1>6, <2>1
  <2>3. /\ pkg \in [Pkgs -> StateCache] /\ pkg[p] = r
        /\ \A q \in Pkgs \ {p} : pkg[q] = s.pkg[q]
    BY <1>6, <1>7, <2>1
  <2>4. Suits(p, r)  BY <1>6, <1>7 DEF Suits, Planned
  <2>5. \A q \in Pkgs : Suits(q, pkg[q])  BY <1>6, <2>3, <2>4
  <2>6. Share(p, r) = Share(p, s.pkg[p])
    <3>1. Sizes(p, r) = Sizes(p, s.pkg[p])  BY <1>7 DEF Sizes
    <3>2. States(p, r) = States(p, s.pkg[p])  BY <1>7 DEF States
    <3> QED  BY <3>1, <3>2 DEF Share
  <2>7. \A q \in Pkgs : Share(q, pkg[q]) = Share(q, s.pkg[q])  BY <2>3, <2>6
  <2>8. Recount(pkg) = Recount(s.pkg)  BY <1>6, <2>5, <2>7, RecountSame
  <2>9. Sound([pkg |-> pkg, dep |-> s.dep, count |-> s.count])
    BY <1>6, <2>3, <2>5, <2>8 DEF Sound, Shape, Suits
  <2> QED  BY <2>2, <2>9
<1>10. Sound(Change(s, p, x))  BY <1>8, ChangeSound
<1> QED  BY <1>5, <1>9, <1>10

\* MarkInstall installs the candidate, of which there is one.
LEMMA InstallSound ==
    ASSUME NEW s, Sound(s), NEW p \in Pkgs
    PROVE  Sound(MarkInstall(s, p))
<1>1. PICK r : r = [s.pkg[p] EXCEPT !.inst = s.pkg[p].cand,
                        !.mode = IF s.pkg[p].cand = Current[p] THEN "Keep" ELSE "Install"]
  OBVIOUS
<1>2. Suits(p, s.pkg[p])  BY SoundSuits DEF Sound
<1>3. MarkInstall(s, p) \in {s, MarkKeep(s, p)} \/
      (s.pkg[p].cand # NoVer /\ MarkInstall(s, p) = Change(s, p, r))
  BY <1>1 DEF MarkInstall
<1>4. ASSUME s.pkg[p].cand # NoVer PROVE Sound(Change(s, p, r))
  <2>1. /\ r \in StateCache /\ r.inst = s.pkg[p].cand /\ r.cand = s.pkg[p].cand
    BY <1>1, <1>2 DEF Suits, StateCache, Modes
  <2>2. Suits(p, r)  BY <1>2, <1>4, <2>1 DEF Suits, Planned
  <2> QED  BY <2>2, ChangeSound
<1> QED  BY <1>3, <1>4, KeepSound

\* SetReInstall corrects the totals itself.
LEMMA ReInstallSound ==
    ASSUME NEW s, Sound(s), NEW p \in Pkgs
    PROVE  Sound(SetReInstall(s, p, TRUE))
<1>1. PICK r : r = [s.pkg[p] EXCEPT !.reinst = TRUE]  OBVIOUS
<1>2. PICK pkg : pkg = [s.pkg EXCEPT ![p] = r]  OBVIOUS
<1>3. PICK cnt : cnt = [k \in Totals |-> s.count[k] + Share(p, r)[k] - Share(p, s.pkg[p])[k]]
  OBVIOUS
<1>4. /\ Shape(s) /\ s.count = Recount(s.pkg) /\ \A q \in Pkgs : Suits(q, s.pkg[q])
      /\ s = [pkg |-> s.pkg, dep |-> s.dep, count |-> s.count]
      /\ s.pkg \in [Pkgs -> StateCache] /\ s.dep \in [Deps -> DepFlags]
  BY SoundSuits DEF Sound, Shape
<1>5. SetReInstall(s, p, TRUE) = [pkg |-> pkg, dep |-> s.dep, count |-> cnt]
  <2>1. SetReInstall(s, p, TRUE) = [s EXCEPT !.pkg[p] = r, !.count = cnt]
    BY <1>1, <1>3 DEF SetReInstall
  <2> QED  BY <1>2, <1>4, <2>1
<1>6. /\ r \in StateCache /\ r.inst = s.pkg[p].inst /\ r.cand = s.pkg[p].cand
      /\ r.mode = s.pkg[p].mode
  BY <1>1, <1>4 DEF StateCache
<1>7. /\ pkg \in [Pkgs -> StateCache] /\ pkg[p] = r
      /\ \A q \in Pkgs \ {p} : pkg[q] = s.pkg[q]
  BY <1>2, <1>4, <1>6
<1>8. Suits(p, r)  BY <1>4, <1>6 DEF Suits, Planned
<1>9. \A q \in Pkgs : Suits(q, pkg[q])  BY <1>4, <1>7, <1>8
<1>10. ASSUME NEW k \in Totals PROVE cnt[k] = Recount(pkg)[k]
  <2>1. PICK a, b : a = Share(p, r)[k] /\ b = Share(p, s.pkg[p])[k]  OBVIOUS
  <2>2. a \in Int /\ b \in Int  BY <1>4, <1>8, <2>1, ShareType
  <2>3. PICK d, D : d = [q \in {p} |-> a - b] /\ Adds(d, SUBSET {p}, D)
    BY AddsExist, FS_Singleton
  <2>4. Total(d, {p}, D)
    <3>1. \A q \in {p} : d[q] \in Int  BY <2>2, <2>3
    <3> QED  BY <2>3, <3>1, AddsTotal, FS_Singleton
  <2>5. D[{p}] = a - b
    <3>1. D[{p}] = d[p] + D[{p} \ {p}] /\ D[{}] = 0  BY <2>4 DEF Total
    <3>2. {p} \ {p} = {} /\ d[p] = a - b  BY <2>3
    <3> QED  BY <2>2, <3>1, <3>2
  <2>6. \A q \in {p} : d[q] = Share(q, pkg[q])[k] - Share(q, s.pkg[q])[k]
    BY <1>7, <2>1, <2>3
  <2>7. \A q \in Pkgs \ {p} : Share(q, pkg[q])[k] = Share(q, s.pkg[q])[k]  BY <1>7
  <2>8. Recount(pkg)[k] = Recount(s.pkg)[k] + D[{p}]
    BY <1>4, <1>9, <2>4, <2>6, <2>7, RecountChange
  <2>9. Recount(s.pkg)[k] \in Int
    <3>1. \A q \in Pkgs : Share(q, s.pkg[q])[k] \in Int  BY <1>4, ShareType
    <3>2. PICK F : Total(Shares(s.pkg, k), Pkgs, F) /\ Recount(s.pkg)[k] = F[Pkgs]
      BY <3>1, TotalsOK, RecountTotal
    <3> QED  BY <3>2 DEF Total
  <2>10. cnt[k] = s.count[k] + a - b  BY <1>3, <2>1
  <2> QED  BY <1>4, <2>2, <2>5, <2>8, <2>9, <2>10
<1>11. cnt = Recount(pkg)
  <2>1. Recount(pkg) = [k \in Totals |-> Recount(pkg)[k]]
    BY DEF Recount, MapThenSumSet, MapThenFoldSet
  <2>2. cnt = [k \in Totals |-> cnt[k]]  BY <1>3
  <2> QED  BY <1>10, <2>1, <2>2
<1>12. Sound([pkg |-> pkg, dep |-> s.dep, count |-> cnt])
  BY <1>4, <1>7, <1>9, <1>11 DEF Sound, Shape, Suits
<1> QED  BY <1>5, <1>12

\* SetCandidateVersion: whatever the new candidate provides, the totals are exact.
LEMMA SelectSound ==
    ASSUME NEW s, Sound(s), NEW v \in Selectable
    PROVE  Sound(SetCandidateVersion(s, v))
<1>1. PICK p : p = PkgOf[v]  OBVIOUS
<1>2. PICK i : i = IF s.pkg[p].cand = s.pkg[p].inst THEN v ELSE s.pkg[p].inst  OBVIOUS
<1>3. PICK r : r = [s.pkg[p] EXCEPT !.inst = i, !.cand = v, !.status = StatusOf(p, v)]  OBVIOUS
<1>4. v \in Vers /\ v # NoVer /\ p \in Pkgs /\ v \in {w \in Vers : PkgOf[w] = p}
  BY <1>1, GraphOK
<1>5. Suits(p, s.pkg[p])  BY <1>4, SoundSuits DEF Sound
<1>6. StatusOf(p, v) \in {-1, 0, 1, 2}  BY DEF StatusOf
<1>7. i \in {w \in Vers : PkgOf[w] = p} \cup {NoVer} /\ (i = NoVer => s.pkg[p].inst = NoVer)
  BY <1>2, <1>4, <1>5 DEF Suits
<1>8. /\ r \in StateCache /\ r.inst = i /\ r.cand = v /\ r.mode = s.pkg[p].mode
  BY <1>3, <1>4, <1>5, <1>6, <1>7 DEF Suits, StateCache, VerOrNone
<1>9. Suits(p, r)  BY <1>4, <1>5, <1>7, <1>8 DEF Suits, Planned
<1>10. SetCandidateVersion(s, v) = Change(s, p, r)
  BY <1>1, <1>2, <1>3 DEF SetCandidateVersion
<1> QED  BY <1>4, <1>9, <1>10, ChangeSound

\* Init counts everything.
LEMMA InitSound == Init => SoundInv
<1> SUFFICES ASSUME Init PROVE SoundInv  OBVIOUS
<1>1. PICK pkg : pkg = [p \in Pkgs |->
                [inst |-> Current[p], cand |-> FirstCandidate[p], mode |-> "Keep",
                 status |-> StatusOf(p, FirstCandidate[p]), purge |-> FALSE,
                 reinst |-> FALSE, met |-> Minima]]
  OBVIOUS
<1>2. PICK dep : dep = AllDeps(pkg)  OBVIOUS
<1>3. PICK new : new = [p \in Pkgs |-> [pkg[p] EXCEPT !.met = VerState(dep, p, pkg[p])]]  OBVIOUS
<1>4. cache = [pkg |-> new, dep |-> dep, count |-> Recount(new)]
  BY <1>1, <1>2, <1>3 DEF Init, Rebuild
<1>5. ASSUME NEW p \in Pkgs PROVE Suits(p, new[p])
  <2>1. StatusOf(p, FirstCandidate[p]) \in {-1, 0, 1, 2}  BY DEF StatusOf
  <2>2. {Current[p], FirstCandidate[p]} \subseteq {v \in Vers : PkgOf[v] = p} \cup {NoVer}
    BY GraphOK
  <2>3. VerState(dep, p, pkg[p]) \subseteq Minima  BY DEF VerState
  <2>4. pkg[p] \in StateCache /\ pkg[p].inst = Current[p] /\ pkg[p].cand = FirstCandidate[p]
        /\ pkg[p].mode = "Keep"
    BY <1>1, <2>1, <2>2 DEF StateCache, Modes, VerOrNone
  <2>5. /\ new[p] \in StateCache /\ new[p].inst = Current[p]
        /\ new[p].cand = FirstCandidate[p] /\ new[p].mode = "Keep"
    BY <1>3, <2>3, <2>4 DEF StateCache
  <2> QED  BY <2>2, <2>5 DEF Suits, Planned
<1>6. new \in [Pkgs -> StateCache]  BY <1>3, <1>5 DEF Suits
<1>7. dep \in [Deps -> DepFlags]
  <2>1. PICK own : own = [d \in Deps |-> DependencyState(pkg, d)]  OBVIOUS
  <2>2. own \in [Deps -> SUBSET Checks]  BY <2>1, BitsOK
  <2>3. dep = [d \in Deps |-> [own |-> own[d], grp |-> GroupOrs(own, d)]]
    BY <1>2, <2>1 DEF AllDeps
  <2> QED  BY <2>2, <2>3, BitsOK DEF DepFlags
<1>8. Sound([pkg |-> new, dep |-> dep, count |-> Recount(new)])
  BY <1>5, <1>6, <1>7 DEF Sound, Shape, Suits
<1> QED  BY <1>4, <1>8 DEF Init, SoundInv

\* One step per operation, of any version that may be selected.
LEMMA StepSound ==
    ASSUME SoundInv, [Next]_vars
    PROVE  SoundInv'
<1>1. Sound(cache)  BY DEF SoundInv
<1>2. CASE Keep  BY <1>1, <1>2, KeepSound DEF Keep, SoundInv
<1>3. CASE Delete  BY <1>1, <1>3, DeleteSound DEF Delete, SoundInv
<1>4. CASE Install  BY <1>1, <1>4, InstallSound DEF Install, SoundInv
<1>5. CASE ReInstall
  <2>1. PICK p \in ReInstallable : cache' = SetReInstall(cache, p, TRUE) /\ UNCHANGED saved
    BY <1>5 DEF ReInstall
  <2>2. p \in Pkgs  BY GraphOK
  <2> QED  BY <1>1, <2>1, <2>2, ReInstallSound DEF SoundInv
<1>6. CASE Select  BY <1>1, <1>6, SelectSound DEF Select, SoundInv
<1>7. CASE Save  BY <1>7 DEF Save, SoundInv
<1>8. CASE Restore  BY <1>8 DEF Restore, Restored, SoundInv
<1>9. CASE UNCHANGED vars  BY <1>9 DEF vars, SoundInv
<1> QED  BY <1>2, <1>3, <1>4, <1>5, <1>6, <1>7, <1>8, <1>9 DEF Next

\* What a sound state counts, and how far.
LEMMA SoundTyped ==
    ASSUME NEW s, Sound(s)
    PROVE  /\ s \in Cache
           /\ \A k \in Totals \ {"usr", "down"} : s.count[k] \in 0..Cardinality(Pkgs)
<1>1. \A q \in Pkgs : Suits(q, s.pkg[q])  BY SoundSuits DEF Sound
<1>2. ASSUME NEW k \in Totals
      PROVE  /\ s.count[k] \in Int
             /\ k \notin {"usr", "down"} => s.count[k] \in 0..Cardinality(Pkgs)
  <2>1. \A q \in Pkgs : Share(q, s.pkg[q])[k] \in Int  BY <1>1, ShareType
  <2>2. PICK F : Total(Shares(s.pkg, k), Pkgs, F) /\ Recount(s.pkg)[k] = F[Pkgs]
    BY <2>1, TotalsOK, RecountTotal
  <2>3. s.count[k] = F[Pkgs]  BY <2>2 DEF Sound
  <2>4. F[Pkgs] \in Int  BY <2>2 DEF Total
  <2>5. CASE k \notin {"usr", "down"}
    <3>1. \A q \in Pkgs : Shares(s.pkg, k)[q] \in {0, 1}  BY <1>1, <2>5, ShareType DEF Shares
    <3>2. F[Pkgs] \in 0..Cardinality(Pkgs)  BY <2>2, <3>1, TotalsOK, TotalBound
    <3> QED  BY <2>3, <2>4, <3>2
  <2> QED  BY <2>3, <2>4, <2>5
<1>3. s.count = [k \in Totals |-> s.count[k]]
  <2>1. Recount(s.pkg) = [k \in Totals |-> Recount(s.pkg)[k]]
    BY DEF Recount, MapThenSumSet, MapThenFoldSet
  <2> QED  BY <2>1 DEF Sound
<1>4. s.count \in [Totals -> Int]  BY <1>2, <1>3
<1>5. s \in Cache  BY <1>4 DEF Sound, Shape, Cache
<1> QED  BY <1>2, <1>5

\* A dependency that will hold, and a package that will have what it needs: one of
\* every or-group that begins with a dependency or a conflict, not a suggestion.
Holds(pkg, d) == CheckDep(pkg, d, "Install") <=> ~Negative(d)
Served(pkg, p) ==
    pkg[p].inst # NoVer =>
      \A g \in DOMAIN Depends[pkg[p].inst] :
        IsCritical(Depends[pkg[p].inst][g][1]) =>
          \E k \in DOMAIN Depends[pkg[p].inst][g] : Holds(pkg, Depends[pkg[p].inst][g][k])

\* BrokenCount counts the packages whose cached state lacks DepInstMin ...
LEMMA BrokenCounted ==
    ASSUME NEW s, Sound(s)
    PROVE  s.count["broken"] = 0 <=> \A p \in Pkgs : "InstMin" \in s.pkg[p].met
<1>1. "broken" \in Totals /\ "broken" \notin {"usr", "down"}  BY DEF Totals
<1>2. \A q \in Pkgs : Suits(q, s.pkg[q])  BY SoundSuits DEF Sound
<1>3. PICK k : k = "broken"  OBVIOUS
<1>4. \A q \in Pkgs : Share(q, s.pkg[q])[k] \in Int /\ Share(q, s.pkg[q])[k] \in {0, 1}
  BY <1>1, <1>2, <1>3, ShareType
<1>5. PICK F : Total(Shares(s.pkg, k), Pkgs, F) /\ Recount(s.pkg)[k] = F[Pkgs]
  BY <1>1, <1>3, <1>4, TotalsOK, RecountTotal
<1>6. PICK f : f = Shares(s.pkg, k)  OBVIOUS
<1>7. \A q \in Pkgs : f[q] = Share(q, s.pkg[q])[k]  BY <1>6 DEF Shares
<1>8. F[Pkgs] = 0 <=> \A q \in Pkgs : f[q] = 0  BY <1>4, <1>5, <1>6, <1>7, TotalsOK, TotalZero
<1>9. ASSUME NEW q \in Pkgs PROVE f[q] = 0 <=> "InstMin" \in s.pkg[q].met
  <2>1. f[q] = IF k \in States(q, s.pkg[q]) THEN 1 ELSE 0  BY <1>1, <1>3, <1>7 DEF Share
  <2>2. k \in States(q, s.pkg[q]) <=> "InstMin" \notin s.pkg[q].met
    BY <1>1, <1>3 DEF States
  <2> QED  BY <2>1, <2>2
<1> QED  BY <1>3, <1>5, <1>8, <1>9 DEF Sound

\* ... and a fresh state has it where all that the package needs will hold.
LEMMA FreshServed ==
    ASSUME NEW s, Good(s), Dropped(s.pkg) = {}, NEW p \in Pkgs
    PROVE  "InstMin" \in s.pkg[p].met <=> Served(s.pkg, p)
<1>1. PICK v : v = s.pkg[p].inst  OBVIOUS
<1>2. /\ v \in VerOrNone /\ \A d \in Deps : s.dep[d].own = DependencyState(s.pkg, d)
      /\ s.pkg[p].met = VerState(s.dep, p, s.pkg[p])
  BY <1>1 DEF Good, Shape, Fresh, VerOrNone
<1>3. "InstMin" \in s.pkg[p].met <=> VersionState(s.dep, v, "Install")
  BY <1>1, <1>2 DEF VerState, Minima
<1>4. ASSUME NEW d \in Deps PROVE "Install" \in s.dep[d].own <=> Holds(s.pkg, d)
  <2>1. s.dep[d].own = DependencyState(s.pkg, d)  BY <1>2
  <2> QED  BY <2>1 DEF DependencyState, Flip, Checks, Holds
<1>5. CASE v = NoVer  BY <1>1, <1>3, <1>5 DEF VersionState, Served
<1>6. CASE v # NoVer
  <2>1. v \in Vers /\ Depends[v] \in Seq(Seq(Deps))  BY <1>2, <1>6, GraphOK DEF VerOrNone
  <2>2. ASSUME NEW g \in DOMAIN Depends[v], NEW k \in DOMAIN Depends[v][g]
        PROVE  "Install" \in s.dep[Depends[v][g][k]].own <=> Holds(s.pkg, Depends[v][g][k])
    <3>1. Depends[v][g] \in Seq(Deps)  BY <2>1
    <3>2. Depends[v][g][k] \in Deps  BY <3>1
    <3> QED  BY <1>4, <3>2
  <2> QED  BY <1>1, <1>3, <1>6, <2>2 DEF VersionState, Served
<1> QED  BY <1>5, <1>6

-----------------------------------------------------------------------------
(* MarkInstall with AutoInst.                                              *)

\* A fold that chooses its elements in any way stays where every step stays ...
LEMMA FoldKept ==
    ASSUME NEW P, IsFiniteSet(P), NEW K, NEW F, F[{}] \in K,
           \A T \in SUBSET P : T # {} => \E x \in T : F[T \ {x}] \in K => F[T] \in K
    PROVE  \A T \in SUBSET P : F[T] \in K
<1> DEFINE A == {T \in SUBSET P : F[T] \in K}
<1>1. ASSUME NEW T \in SUBSET P, \A U \in SUBSET P : Cardinality(U) < Cardinality(T) => U \in A
      PROVE  T \in A
  <2>1. CASE T = {}  BY <2>1
  <2>2. CASE T # {}
    <3>1. PICK x \in T : F[T \ {x}] \in K => F[T] \in K  BY <2>2
    <3>2. PICK U : U = T \ {x}  OBVIOUS
    <3>3. U \in SUBSET P /\ IsFiniteSet(T) /\ Cardinality(T) \in Nat
      BY <3>2, FS_Subset, FS_CardinalityType
    <3>4. Cardinality(U) = Cardinality(T) - 1  BY <3>2, <3>3, FS_RemoveElement
    <3>5. Cardinality(U) < Cardinality(T)  BY <3>3, <3>4
    <3>6. U \in A  BY <1>1, <3>3, <3>5
    <3> QED  BY <3>1, <3>2, <3>6
  <2> QED  BY <2>1, <2>2
<1>2. \A T \in SUBSET P : T \in A
  <2> HIDE DEF A
  <2> QED  BY <1>1, Smaller, Zenon
<1> QED  BY <1>2

\* F is the fold of g from b over every set of D, in the order that c chooses.
Folds(b, g, c, D, F) == F = [T \in D |-> IF T = {} THEN b ELSE g[c[T]][F[T \ {c[T]}]]]

\* ... and it exists.
LEMMA FoldExists ==
    ASSUME NEW P, IsFiniteSet(P), NEW K, NEW b \in K, NEW g,
           \A x \in P, k \in K : g[x][k] \in K,
           NEW c, \A T \in SUBSET P : T # {} => c[T] \in T
    PROVE  \E F : Folds(b, g, c, SUBSET P, F) /\ \A T \in SUBSET P : F[T] \in K
<1> DEFINE S == {n \in Nat : \E F : Folds(b, g, c, Upto(P, n), F)}
<1>1. \A T \in SUBSET P : /\ IsFiniteSet(T) /\ Cardinality(T) \in Nat
                          /\ Cardinality(T) <= Cardinality(P) /\ (Cardinality(T) = 0 <=> T = {})
  BY FS_Subset, FS_CardinalityType, FS_EmptySet
<1>2. 0 \in S
  <2>1. \A T \in Upto(P, 0) : T = {}  BY <1>1 DEF Upto
  <2>2. Folds(b, g, c, Upto(P, 0), [T \in Upto(P, 0) |-> b])  BY <2>1 DEF Folds
  <2> QED  BY <2>2
<1>3. ASSUME NEW n \in Nat, n \in S PROVE n + 1 \in S
  <2>1. PICK F : Folds(b, g, c, Upto(P, n), F)  BY <1>3
  <2>2. PICK G : G = [T \in Upto(P, n + 1) |-> IF T = {} THEN b ELSE g[c[T]][F[T \ {c[T]}]]]
    OBVIOUS
  <2>3. ASSUME NEW T \in Upto(P, n + 1), T # {} PROVE G[T \ {c[T]}] = F[T \ {c[T]}]
    <3>1. PICK x : x = c[T]  OBVIOUS
    <3>2. T \in SUBSET P /\ x \in T /\ Cardinality(T) <= n + 1  BY <2>3, <3>1 DEF Upto
    <3>3. PICK U : U = T \ {x}  OBVIOUS
    <3>4. Cardinality(U) = Cardinality(T) - 1  BY <1>1, <3>2, <3>3, FS_RemoveElement
    <3>5. U \in Upto(P, n) /\ U \in Upto(P, n + 1)  BY <1>1, <3>2, <3>3, <3>4 DEF Upto
    <3>6. F[U] = IF U = {} THEN b ELSE g[c[U]][F[U \ {c[U]}]]  BY <2>1, <3>5 DEF Folds
    <3>7. G[U] = IF U = {} THEN b ELSE g[c[U]][F[U \ {c[U]}]]  BY <2>2, <3>5
    <3> QED  BY <3>1, <3>3, <3>6, <3>7
  <2>4. G = [T \in Upto(P, n + 1) |-> IF T = {} THEN b ELSE g[c[T]][G[T \ {c[T]}]]]
    BY <2>2, <2>3
  <2>5. Folds(b, g, c, Upto(P, n + 1), G)  BY <2>4 DEF Folds
  <2> QED  BY <2>5
<1>4. Cardinality(P) \in S
  <2> HIDE DEF S
  <2>1. Cardinality(P) \in Nat  BY FS_CardinalityType
  <2>2. \A n \in 0..Cardinality(P) : n \in S  BY <1>2, <1>3, <2>1, Climb
  <2> QED  BY <2>1, <2>2
<1>5. Upto(P, Cardinality(P)) = SUBSET P  BY <1>1 DEF Upto
<1>6. PICK F : Folds(b, g, c, SUBSET P, F)
  <2>1. PICK F : Folds(b, g, c, Upto(P, Cardinality(P)), F)  BY <1>4
  <2>2. Folds(b, g, c, SUBSET P, F)  BY <1>5, <2>1 DEF Folds
  <2> QED  BY <2>2
<1>7. F[{}] = b  BY <1>6 DEF Folds
<1>8. ASSUME NEW T \in SUBSET P, T # {}
      PROVE  \E x \in T : F[T \ {x}] \in K => F[T] \in K
  <2>1. c[T] \in T /\ c[T] \in P  BY <1>8
  <2>2. F[T] = g[c[T]][F[T \ {c[T]}]]  BY <1>6, <1>8 DEF Folds
  <2>3. F[T \ {c[T]}] \in K => F[T] \in K  BY <2>1, <2>2
  <2> QED  BY <2>1, <2>3
<1>9. \A T \in SUBSET P : F[T] \in K  BY <1>7, <1>8, FoldKept
<1> QED  BY <1>6, <1>9

\* A finite set of numbers has a largest and a smallest.
LEMMA Extremes ==
    ASSUME NEW T \in SUBSET Int, IsFiniteSet(T), T # {}
    PROVE  Max(T) \in T /\ Min(T) \in T
<1> DEFINE A == {U \in SUBSET T : U # {} => /\ \E x \in U : \A y \in U : x >= y
                                           /\ \E x \in U : \A y \in U : x =< y}
<1>1. ASSUME NEW U \in SUBSET T, \A V \in SUBSET T : Cardinality(V) < Cardinality(U) => V \in A
      PROVE  U \in A
  <2>1. CASE U = {}  BY <2>1
  <2>2. CASE U # {}
    <3>1. PICK x : x \in U  BY <2>2
    <3>2. PICK V : V = U \ {x}  OBVIOUS
    <3>3. V \in SUBSET T /\ IsFiniteSet(U) /\ Cardinality(U) \in Nat
      BY <3>2, FS_Subset, FS_CardinalityType
    <3>4. Cardinality(V) = Cardinality(U) - 1  BY <3>1, <3>2, <3>3, FS_RemoveElement
    <3>5. Cardinality(V) < Cardinality(U)  BY <3>3, <3>4
    <3>6. V \in A  BY <1>1, <3>3, <3>5
    <3>7. CASE V = {}
      <4>1. U = {x} /\ x \in Int  BY <3>1, <3>2, <3>7
      <4> QED  BY <4>1
    <3>8. CASE V # {}
      <4>1. PICK y \in V : \A z \in V : y >= z  BY <3>6, <3>8
      <4>2. PICK w \in V : \A z \in V : w =< z  BY <3>6, <3>8
      <4>3. x \in Int /\ y \in Int /\ w \in Int /\ \A z \in U : z \in Int /\ (z \in V \/ z = x)
        BY <3>1, <3>2
      <4>4. \E h \in U : \A z \in U : h >= z
        <5>1. CASE x >= y  BY <3>1, <4>1, <4>3, <5>1
        <5>2. CASE ~(x >= y)  BY <3>2, <4>1, <4>3, <5>2
        <5> QED  BY <5>1, <5>2
      <4>5. \E h \in U : \A z \in U : h =< z
        <5>1. CASE x =< w  BY <3>1, <4>2, <4>3, <5>1
        <5>2. CASE ~(x =< w)  BY <3>2, <4>2, <4>3, <5>2
        <5> QED  BY <5>1, <5>2
      <4> QED  BY <4>4, <4>5
    <3> QED  BY <3>7, <3>8
  <2> QED  BY <2>1, <2>2
<1>2. \A U \in SUBSET T : U \in A
  <2> HIDE DEF A
  <2> QED  BY <1>1, Smaller, Zenon
<1>3. T \in A  BY <1>2
<1>4. (\E x \in T : \A y \in T : x >= y) /\ (\E x \in T : \A y \in T : x =< y)  BY <1>3
<1>5. Max(T) \in T  BY <1>4 DEF Max
<1>6. Min(T) \in T  BY <1>4 DEF Min
<1> QED  BY <1>5, <1>6

\* Sets of states that no mark of a package leaves.
Closed(K) ==
    /\ K \subseteq Cache
    /\ \A s \in K, p \in Pkgs : MarkInstall(s, p) \in K /\ MarkDelete(s, p, FALSE) \in K

\* What is matched is a package.
LEMMA TargetsOf == ASSUME NEW d \in Deps PROVE {PkgOf[v] : v \in AllTargets(d)} \subseteq Pkgs
<1>1. AllTargets(d) \subseteq Vers  BY GraphOK DEF AllTargets
<1> QED  BY <1>1, GraphOK

LEMMA InstPkgsOf == ASSUME NEW s, NEW d \in Deps PROVE InstPkgs(s, d) \subseteq Pkgs
<1>1. AllTargets(d) \subseteq Vers  BY GraphOK DEF AllTargets
<1>2. \A v \in AllTargets(d) : PkgOf[v] \in Pkgs  BY <1>1, GraphOK
<1> QED  BY <1>2 DEF InstPkgs

\* The member of an or-group to work on is one of it.
LEMMA StartOf ==
    ASSUME NEW s, NEW group \in Seq(Deps), group # << >>
    PROVE  Start(s, group) \in Deps
<1> DEFINE can == {k \in DOMAIN group : "CVer" \in s.dep[group[k]].own}
<1>1. DOMAIN group = 1..Len(group) /\ Len(group) \in Nat /\ Len(group) # 0  OBVIOUS
<1>2. can \in SUBSET Int /\ IsFiniteSet(can)
  <2>1. IsFiniteSet(1..Len(group))  BY <1>1, FS_Interval
  <2>2. can \subseteq 1..Len(group)  BY <1>1
  <2> QED  BY <2>1, <2>2, <1>1, FS_Subset
<1>3. can # {} => Min(can) \in DOMAIN group
  <2>1. can # {} => Min(can) \in can
    <3> HIDE DEF can
    <3> QED  BY <1>2, Extremes
  <2> QED  BY <2>1
<1>4. Len(group) \in DOMAIN group  BY <1>1
<1>5. \A k \in DOMAIN group : group[k] \in Deps  OBVIOUS
<1>6. Start(s, group) = group[IF can = {} THEN Len(group) ELSE Min(can)]  BY DEF Start
<1> HIDE DEF can
<1> QED  BY <1>3, <1>4, <1>5, <1>6

\* A set of packages, each marked by what deeper is ...
EachMarked(s, S, deeper) == FoldSet(LAMBDA p, t : deeper[p][t], s, S)

LEMMA EachMarkedKept ==
    ASSUME NEW K, NEW deeper, \A p \in Pkgs, t \in K : deeper[p][t] \in K,
           NEW s \in K, NEW S \in SUBSET Pkgs
    PROVE  EachMarked(s, S, deeper) \in K
<1> DEFINE c == [T \in SUBSET S |-> AnyOf(T)]
           Is(F) == F = [T \in SUBSET S |-> IF T = {} THEN s ELSE deeper[AnyOf(T)][F[T \ {AnyOf(T)}]]]
<1>1. IsFiniteSet(S)  BY TotalsOK, FS_Subset
<1>2. \A T \in SUBSET S : T # {} => c[T] \in T  BY AnyIn
<1>3. \A F : Is(F) <=> Folds(s, deeper, c, SUBSET S, F)
  <2>1. \A T \in SUBSET S : c[T] = AnyOf(T)  OBVIOUS
  <2> HIDE DEF c
  <2> QED  BY <2>1 DEF Folds
<1>4. \E F : Is(F)
  <2> HIDE DEF Is, c
  <2>1. \A x \in S, k \in K : deeper[x][k] \in K  OBVIOUS
  <2>2. \E F : /\ Folds(s, deeper, c, SUBSET S, F)
               /\ \A T \in SUBSET S : F[T] \in K
    BY <1>1, <1>2, <2>1, FoldExists
  <2> QED  BY <1>3, <2>2
<1>5. PICK F : F = CHOOSE G : Is(G)  OBVIOUS
<1>6. Is(F)
  <2> HIDE DEF Is
  <2> QED  BY <1>4, <1>5
<1>7. F[{}] = s  BY <1>6
<1>8. ASSUME NEW T \in SUBSET S, T # {} PROVE \E x \in T : F[T \ {x}] \in K => F[T] \in K
  <2>1. PICK x : x = AnyOf(T)  OBVIOUS
  <2>2. x \in T /\ x \in Pkgs  BY <1>8, <2>1, AnyIn
  <2>3. F[T] = deeper[x][F[T \ {x}]]  BY <1>6, <1>8, <2>1
  <2> QED  BY <2>2, <2>3
<1>9. F[S] \in K
  <2> HIDE DEF Is
  <2>1. \A T \in SUBSET S : F[T] \in K  BY <1>1, <1>7, <1>8, FoldKept
  <2> QED  BY <2>1
<1>10. EachMarked(s, S, deeper) = F[S]
  BY <1>5 DEF EachMarked, FoldSet, MapThenFoldSet, AnyOf
<1> QED  BY <1>9, <1>10

\* ... or deleted.
EachDeleted(s, S) == FoldSet(LAMBDA p, t : MarkDelete(t, p, FALSE), s, S)

LEMMA EachDeletedKept ==
    ASSUME NEW K, \A p \in Pkgs, t \in K : MarkDelete(t, p, FALSE) \in K,
           NEW s \in K, NEW S \in SUBSET Pkgs
    PROVE  EachDeleted(s, S) \in K
<1> DEFINE c == [T \in SUBSET S |-> AnyOf(T)]
           g == [p \in Pkgs |-> [t \in K |-> MarkDelete(t, p, FALSE)]]
           Is(F) == F = [T \in SUBSET S |-> IF T = {} THEN s
                                            ELSE MarkDelete(F[T \ {AnyOf(T)}], AnyOf(T), FALSE)]
<1>1. IsFiniteSet(S)  BY TotalsOK, FS_Subset
<1>2. \A T \in SUBSET S : T # {} => c[T] \in T  BY AnyIn
<1>3. \A x \in S, k \in K : g[x][k] = MarkDelete(k, x, FALSE)  OBVIOUS
<1>4. \E F : Is(F)
  <2>1. \A T \in SUBSET S : c[T] = AnyOf(T)  OBVIOUS
  <2> HIDE DEF c, g
  <2>2. \A x \in S, k \in K : g[x][k] \in K  BY <1>3
  <2>3. PICK F : /\ Folds(s, g, c, SUBSET S, F)
                 /\ \A T \in SUBSET S : F[T] \in K
    BY <1>1, <1>2, <2>2, FoldExists
  <2>4. ASSUME NEW T \in SUBSET S, T # {}
        PROVE  g[c[T]][F[T \ {c[T]}]] = MarkDelete(F[T \ {AnyOf(T)}], AnyOf(T), FALSE)
    <3>1. c[T] \in S /\ F[T \ {c[T]}] \in K  BY <1>2, <2>3, <2>4
    <3> QED  BY <1>3, <2>1, <3>1
  <2>5. F = [T \in SUBSET S |-> IF T = {} THEN s ELSE g[c[T]][F[T \ {c[T]}]]]  BY <2>3 DEF Folds
  <2>6. Is(F)  BY <2>4, <2>5
  <2> HIDE DEF Is
  <2> QED  BY <2>6
<1>5. PICK F : F = CHOOSE G : Is(G)  OBVIOUS
<1>6. Is(F)
  <2> HIDE DEF Is
  <2> QED  BY <1>4, <1>5
<1>7. F[{}] = s  BY <1>6
<1>8. ASSUME NEW T \in SUBSET S, T # {} PROVE \E x \in T : F[T \ {x}] \in K => F[T] \in K
  <2>1. PICK x : x = AnyOf(T)  OBVIOUS
  <2>2. x \in T /\ x \in Pkgs  BY <1>8, <2>1, AnyIn
  <2>3. F[T] = MarkDelete(F[T \ {x}], x, FALSE)  BY <1>6, <1>8, <2>1
  <2> QED  BY <2>2, <2>3
<1>9. F[S] \in K
  <2> HIDE DEF Is
  <2>1. \A T \in SUBSET S : F[T] \in K  BY <1>1, <1>7, <1>8, FoldKept
  <2> QED  BY <2>1
<1>10. EachDeleted(s, S) = F[S]
  BY <1>5 DEF EachDeleted, FoldSet, MapThenFoldSet, AnyOf
<1> QED  BY <1>9, <1>10

\* One or-group.
LEMMA SatisfiedKept ==
    ASSUME NEW K, Closed(K), NEW deeper, \A p \in Pkgs, t \in K : deeper[p][t] \in K,
           NEW s \in K, NEW group \in Seq(Deps), group # << >>
    PROVE  Satisfied(s, group, deeper) \in K
<1>1. PICK d : d = Start(s, group)  OBVIOUS
<1>2. d \in Deps  BY <1>1, StartOf
<1>3. InstPkgs(s, d) \in SUBSET Pkgs /\ {PkgOf[v] : v \in AllTargets(d)} \in SUBSET Pkgs
  BY <1>2, InstPkgsOf, TargetsOf
<1>4. EachMarked(s, InstPkgs(s, d), deeper) \in K  BY <1>3, EachMarkedKept
<1>5. EachDeleted(s, {PkgOf[v] : v \in AllTargets(d)}) \in K
  BY <1>3, EachDeletedKept DEF Closed
<1>6. \/ Satisfied(s, group, deeper) = s
      \/ Satisfied(s, group, deeper) = EachMarked(s, InstPkgs(s, d), deeper)
      \/ Satisfied(s, group, deeper) = EachDeleted(s, {PkgOf[v] : v \in AllTargets(d)})
  BY <1>1 DEF Satisfied, EachMarked, EachDeleted
<1> QED  BY <1>4, <1>5, <1>6

\* All or-groups, one after another.
EachSatisfied(s, groups, deeper) ==
    FoldLeft(LAMBDA t, group : Satisfied(t, group, deeper), s, groups)

LEMMA EachSatisfiedKept ==
    ASSUME NEW K, Closed(K), NEW deeper, \A p \in Pkgs, t \in K : deeper[p][t] \in K,
           NEW s \in K, NEW groups \in Seq(Seq(Deps)), \A k \in DOMAIN groups : groups[k] # << >>
    PROVE  EachSatisfied(s, groups, deeper) \in K
<1> DEFINE S == DOMAIN groups
           c == [T \in SUBSET S |-> Max(T)]
           g == [k \in S |-> [t \in K |-> Satisfied(t, groups[k], deeper)]]
           Is(F) == F = [T \in SUBSET S |-> IF T = {} THEN s
                             ELSE Satisfied(F[T \ {Max(T)}], groups[Max(T)], deeper)]
<1>1. S = 1..Len(groups) /\ IsFiniteSet(S) /\ S \subseteq Int
  <2>1. S = 1..Len(groups) /\ Len(groups) \in Nat  OBVIOUS
  <2> HIDE DEF S
  <2> QED  BY <2>1, FS_Interval
<1>2. ASSUME NEW T \in SUBSET S, T # {} PROVE Max(T) \in T
  <2> HIDE DEF S
  <2>1. T \in SUBSET Int /\ IsFiniteSet(T)  BY <1>1, FS_Subset
  <2> QED  BY <1>2, <2>1, Extremes
<1>3. ASSUME NEW k \in S, NEW t \in K
      PROVE  g[k][t] = Satisfied(t, groups[k], deeper) /\ g[k][t] \in K
  <2>1. groups[k] \in Seq(Deps) /\ groups[k] # << >>  OBVIOUS
  <2>2. Satisfied(t, groups[k], deeper) \in K  BY <2>1, SatisfiedKept
  <2> QED  BY <2>2
<1>4. \A T \in SUBSET S : c[T] = Max(T)  OBVIOUS
<1>5. \E F : Is(F)
  <2> HIDE DEF c, g, S
  <2>1. \A T \in SUBSET S : T # {} => c[T] \in T  BY <1>2, <1>4
  <2>2. \A x \in S, k \in K : g[x][k] \in K  BY <1>3
  <2>3. PICK F : /\ Folds(s, g, c, SUBSET S, F)
                 /\ \A T \in SUBSET S : F[T] \in K
    BY <1>1, <2>1, <2>2, FoldExists
  <2>4. ASSUME NEW T \in SUBSET S, T # {}
        PROVE  g[c[T]][F[T \ {c[T]}]] = Satisfied(F[T \ {Max(T)}], groups[Max(T)], deeper)
    <3>1. c[T] \in S /\ F[T \ {c[T]}] \in K  BY <2>1, <2>3, <2>4
    <3> QED  BY <1>3, <1>4, <3>1
  <2>5. F = [T \in SUBSET S |-> IF T = {} THEN s ELSE g[c[T]][F[T \ {c[T]}]]]  BY <2>3 DEF Folds
  <2>6. Is(F)  BY <2>4, <2>5
  <2> HIDE DEF Is
  <2> QED  BY <2>6
<1>6. PICK F : F = CHOOSE G : Is(G)  OBVIOUS
<1>7. Is(F)
  <2> HIDE DEF Is
  <2> QED  BY <1>5, <1>6
<1>8. F[{}] = s  BY <1>7
<1>9. ASSUME NEW T \in SUBSET S, T # {} PROVE \E x \in T : F[T \ {x}] \in K => F[T] \in K
  <2>1. PICK x : x = Max(T)  OBVIOUS
  <2>2. x \in T /\ x \in S  BY <1>2, <1>9, <2>1
  <2>3. F[T] = Satisfied(F[T \ {x}], groups[x], deeper)  BY <1>7, <1>9, <2>1
  <2>4. \A t \in K : Satisfied(t, groups[x], deeper) \in K
    <3> HIDE DEF g
    <3> QED  BY <1>3, <2>2
  <2> QED  BY <2>2, <2>3, <2>4
<1>10. F[S] \in K
  <2> HIDE DEF Is, S
  <2>1. \A T \in SUBSET S : F[T] \in K  BY <1>1, <1>8, <1>9, FoldKept
  <2> QED  BY <2>1
<1>11. EachSatisfied(s, groups, deeper) = F[S]
  BY <1>6 DEF EachSatisfied, FoldLeft, MapThenFoldSet
<1> QED  BY <1>10, <1>11

LEMMA InstalledKept ==
    ASSUME NEW K, Closed(K), NEW deeper, \A p \in Pkgs, t \in K : deeper[p][t] \in K,
           NEW s \in K, NEW p \in Pkgs
    PROVE  Installed(s, p, deeper) \in K
<1>1. MarkInstall(s, p) \in K  BY DEF Closed
<1>2. ASSUME Marks(s, p)
      PROVE  EachSatisfied(MarkInstall(s, p), Depends[s.pkg[p].cand], deeper) \in K
  <2>1. s.pkg[p].cand \in Vers
    <3>1. s \in Cache  BY DEF Closed
    <3>2. s.pkg[p].cand \in VerOrNone  BY <3>1 DEF Cache, StateCache
    <3> QED  BY <1>2, <3>2 DEF Marks, VerOrNone
  <2>2. PICK v : v = s.pkg[p].cand  OBVIOUS
  <2>3. Depends[v] \in Seq(Seq(Deps)) /\ \A k \in DOMAIN Depends[v] : Depends[v][k] # << >>
    BY <2>1, <2>2, GraphOK
  <2> QED  BY <1>1, <2>2, <2>3, EachSatisfiedKept
<1> QED  BY <1>1, <1>2 DEF Installed, EachSatisfied, FoldLeft, MapThenFoldSet

\* MarkInstall with n levels, as a function of the level below.
Level(left, deeper) ==
    [p \in Pkgs |-> [s \in Cache |-> IF left = 0 THEN s ELSE Installed(s, p, deeper)]]
Levels(n, F) == F = [left \in 0..n |-> Level(left, F[left - 1])]

LEMMA WithinIs ==
    ASSUME NEW left \in 0..(MaxDepth + 1)
    PROVE  Within[left] = Level(left, Within[left - 1])
<1> DEFINE S == {n \in Nat : \E F : Levels(n, F)}
<1>1. 0 \in S
  <2>1. Levels(0, [k \in 0..0 |-> Level(0, {})])
    <3>1. Level(0, {}) = [p \in Pkgs |-> [s \in Cache |-> s]]  BY DEF Level
    <3>2. \A x : Level(0, x) = [p \in Pkgs |-> [s \in Cache |-> s]]  BY DEF Level
    <3> QED  BY <3>1, <3>2 DEF Levels
  <2> QED  BY <2>1
<1>2. ASSUME NEW n \in Nat, n \in S PROVE n + 1 \in S
  <2>1. PICK F : Levels(n, F)  BY <1>2
  <2>2. PICK G : G = [k \in 0..(n + 1) |-> Level(k, F[k - 1])]  OBVIOUS
  <2>3. \A k \in 0..n : G[k] = F[k]  BY <2>1, <2>2 DEF Levels
  <2>4. ASSUME NEW k \in 0..(n + 1) PROVE Level(k, F[k - 1]) = Level(k, G[k - 1])
    <3>1. CASE k = 0  BY <3>1 DEF Level
    <3>2. CASE k # 0
      <4>1. k - 1 \in 0..n  BY <3>2
      <4> QED  BY <2>3, <4>1
    <3> QED  BY <3>1, <3>2
  <2>5. Levels(n + 1, G)  BY <2>2, <2>4 DEF Levels
  <2> QED  BY <2>5
<1>3. MaxDepth + 1 \in S
  <2> HIDE DEF S
  <2>1. MaxDepth + 1 \in Nat  BY DepthOK
  <2>2. \A n \in 0..(MaxDepth + 1) : n \in S  BY <1>1, <1>2, <2>1, Climb
  <2> QED  BY <2>1, <2>2
<1>4. \E F : Levels(MaxDepth + 1, F)  BY <1>3
<1>5. Within = CHOOSE F : Levels(MaxDepth + 1, F)  BY DEF Within, Levels, Level
<1>6. Levels(MaxDepth + 1, Within)  BY <1>4, <1>5
<1> QED  BY <1>6 DEF Levels

\* MarkInstall with AutoInst stays where the marks do.
LEMMA AutoKept ==
    ASSUME NEW K, Closed(K), NEW s \in K, NEW p \in Pkgs
    PROVE  AutoInstall(s, p) \in K
<1> DEFINE S == {n \in Nat : \A q \in Pkgs, t \in K : Within[n][q][t] \in K}
<1>1. K \subseteq Cache /\ MaxDepth + 1 \in Nat  BY DepthOK DEF Closed
<1>2. 0 \in S
  <2>1. Within[0] = Level(0, Within[0 - 1])  BY <1>1, WithinIs
  <2> QED  BY <1>1, <2>1 DEF Level
<1>3. ASSUME NEW n \in 0..MaxDepth, n \in S PROVE n + 1 \in S
  <2>1. n + 1 \in 0..(MaxDepth + 1) /\ (n + 1) - 1 = n /\ n + 1 # 0 /\ n + 1 \in Nat
    BY DepthOK
  <2>2. Within[n + 1] = Level(n + 1, Within[n])  BY <2>1, WithinIs
  <2> SUFFICES ASSUME NEW q \in Pkgs, NEW t \in K PROVE Within[n + 1][q][t] \in K
    BY <2>1
  <2>3. Within[n + 1][q][t] = Installed(t, q, Within[n])  BY <1>1, <2>1, <2>2 DEF Level
  <2>4. \A r \in Pkgs, u \in K : Within[n][r][u] \in K  BY <1>3
  <2> QED  BY <2>3, <2>4, InstalledKept
<1>4. MaxDepth + 1 \in S
  <2> HIDE DEF S
  <2>1. (MaxDepth + 1) - 1 = MaxDepth  BY DepthOK
  <2>2. \A n \in 0..(MaxDepth + 1) : n \in S  BY <1>1, <1>2, <1>3, <2>1, Climb
  <2> QED  BY <1>1, <2>2
<1> QED  BY <1>4 DEF AutoInstall

\* The inductive invariant of all operations, AutoInst among them.
WholeInv == GoodInv /\ SoundInv
Whole == {s \in Cache : Good(s) /\ Sound(s)}

LEMMA SoundClosed == Closed({s \in Cache : Sound(s)})
<1>1. \A s : Sound(s) => s \in Cache  BY SoundTyped
<1>2. ASSUME NEW s, Sound(s), NEW p \in Pkgs
      PROVE  Sound(MarkInstall(s, p)) /\ Sound(MarkDelete(s, p, FALSE))
  BY <1>2, InstallSound, DeleteSound
<1> QED  BY <1>1, <1>2 DEF Closed

LEMMA WholeClosed == Closed(Whole)
<1>1. \A s : Sound(s) => s \in Cache  BY SoundTyped
<1>2. ASSUME NEW s, Sound(s), NEW p \in Pkgs
      PROVE  Sound(MarkInstall(s, p)) /\ Sound(MarkDelete(s, p, FALSE))
  BY <1>2, InstallSound, DeleteSound
<1>3. ASSUME NEW s, Good(s), NEW p \in Pkgs
      PROVE  Good(MarkInstall(s, p)) /\ Good(MarkDelete(s, p, FALSE))
  BY <1>3, InstallGood, DeleteGood
<1> QED  BY <1>1, <1>2, <1>3 DEF Closed, Whole

LEMMA AutoSound == SoundInv /\ [AutoNext]_vars => SoundInv'
<1> SUFFICES ASSUME SoundInv, [AutoNext]_vars PROVE SoundInv'  OBVIOUS
<1>1. CASE [Next]_vars  BY <1>1, StepSound
<1>2. CASE InstallAuto
  <2>1. PICK p \in Pkgs : cache' = AutoInstall(cache, p) /\ UNCHANGED saved
    BY <1>2 DEF InstallAuto
  <2>2. PICK K : K = {s \in Cache : Sound(s)}  OBVIOUS
  <2>3. cache \in K /\ Closed(K)  BY <2>2, SoundTyped, SoundClosed DEF SoundInv
  <2>4. cache' \in K  BY <2>1, <2>3, AutoKept
  <2> QED  BY <2>1, <2>2, <2>4 DEF SoundInv
<1> QED  BY <1>1, <1>2 DEF AutoNext

LEMMA AutoWhole == WholeInv /\ [AutoNext]_vars => WholeInv'
<1> SUFFICES ASSUME WholeInv, [AutoNext]_vars PROVE WholeInv'  OBVIOUS
<1>1. CASE [Next]_vars  BY <1>1, StepSound, StepGood DEF WholeInv
<1>2. CASE InstallAuto
  <2>1. PICK p \in Pkgs : cache' = AutoInstall(cache, p) /\ UNCHANGED saved
    BY <1>2 DEF InstallAuto
  <2>2. cache \in Whole  BY SoundTyped DEF WholeInv, GoodInv, SoundInv, Whole
  <2>3. cache' \in Whole  BY <2>1, <2>2, WholeClosed, AutoKept
  <2> QED  BY <2>1, <2>3 DEF WholeInv, GoodInv, SoundInv, Whole
<1> QED  BY <1>1, <1>2 DEF AutoNext

LEMMA SoundAlways == AutoSpec => []SoundInv
<1> QED  BY InitSound, AutoSound, PTL DEF AutoSpec

LEMMA WholeAlways == AutoSpec => []WholeInv
<1>1. Init => WholeInv  BY InitGood, InitSound DEF WholeInv
<1>2. WholeInv /\ [AutoNext]_vars => WholeInv'  BY AutoWhole
<1> QED  BY <1>1, <1>2, PTL DEF AutoSpec

-----------------------------------------------------------------------------
(* The theorems.                                                           *)

\* The cached state of every dependency is always what a full computation would
\* give, except on a name while a selected version has it dropped, and the states
\* of the or-groups and packages always follow from those of the dependencies:
\* pkgDepCache::Update(PkgIterator) looks at enough of the reverse dependencies and
\* provides, also while MarkInstall goes from package to package on a state that it
\* is still changing.
THEOREM Freshness == AutoSpec => []DepFresh
<1>1. WholeInv => DepFresh  BY DEF WholeInv, GoodInv, Good, DepFresh
<1> QED  BY <1>1, WholeAlways, PTL

\* The install version of a package is none, its current or its candidate
\* version, whatever is selected: the two whose provides an update follows.
THEOREM Targets == AutoSpec => []TargetKnown
<1>1. WholeInv => TargetKnown  BY DEF WholeInv, GoodInv, Good, TargetKnown
<1> QED  BY <1>1, WholeAlways, PTL

\* Every part of the cached state keeps its type, and no counter of packages ever
\* falls below zero, where the code's unsigned numbers would wrap.
THEOREM TypeCorrect == AutoSpec => []TypeOK
<1>1. SoundInv => TypeOK  BY SoundTyped DEF SoundInv, TypeOK
<1> QED  BY <1>1, SoundAlways, PTL

\* The counters and sizes that APT shows and tests are always those of the
\* packages: whatever AddStates and AddSizes took out before a change, they put
\* back after it, in any order of operations.
THEOREM Counters == AutoSpec => []CountersExact
<1>1. SoundInv => CountersExact  BY DEF SoundInv, Sound, CountersExact
<1> QED  BY <1>1, SoundAlways, PTL

\* BrokenCount() = 0, on which apt-get and apt-shell go on, says what it is taken
\* to say: whatever will be installed has a member of each of its or-groups of
\* dependencies, and is in no conflict.  While a selected version has a name dropped,
\* the count may be that of stale dependencies.
THEOREM NothingBroken ==
    AutoSpec => [](Dropped(cache.pkg) = {} =>
                     (cache.count["broken"] = 0 <=> \A p \in Pkgs : Served(cache.pkg, p)))
<1>1. WholeInv => (Dropped(cache.pkg) = {} =>
                     (cache.count["broken"] = 0 <=> \A p \in Pkgs : Served(cache.pkg, p)))
  BY BrokenCounted, FreshServed DEF WholeInv, GoodInv, SoundInv
<1> QED  BY <1>1, WholeAlways, PTL

\* Altogether: as long as no name is dropped, Update(OpProgress), which recomputes
\* everything from what is marked, would change nothing.
THEOREM UpdateIdle == AutoSpec => [](Dropped(cache.pkg) = {} => cache = Rebuild(cache.pkg))
<1>1. ASSUME NEW s, Good(s), Sound(s), Dropped(s.pkg) = {} PROVE s = Rebuild(s.pkg)
  <2>1. /\ s = [pkg |-> s.pkg, dep |-> s.dep, count |-> s.count]
        /\ s.pkg \in [Pkgs -> StateCache] /\ s.dep \in [Deps -> DepFlags]
        /\ \A d \in Deps : s.dep[d].own = DependencyState(s.pkg, d)
        /\ \A d \in Deps : s.dep[d].grp = GroupOrs([e \in Deps |-> s.dep[e].own], d)
        /\ \A p \in Pkgs : s.pkg[p].met = VerState(s.dep, p, s.pkg[p])
        /\ s.count = Recount(s.pkg)
    BY <1>1 DEF Good, Shape, Fresh, Sound
  <2>2. s.dep = AllDeps(s.pkg)
    <3>1. PICK own : own = [d \in Deps |-> DependencyState(s.pkg, d)]  OBVIOUS
    <3>2. [e \in Deps |-> s.dep[e].own] = own  BY <2>1, <3>1
    <3>3. \A d \in Deps : s.dep[d] = [own |-> own[d], grp |-> GroupOrs(own, d)]
      BY <2>1, <3>1, <3>2 DEF DepFlags
    <3>4. AllDeps(s.pkg) = [d \in Deps |-> [own |-> own[d], grp |-> GroupOrs(own, d)]]
      BY <3>1 DEF AllDeps
    <3> QED  BY <2>1, <3>3, <3>4
  <2>3. PICK new : new = [p \in Pkgs |->
            [s.pkg[p] EXCEPT !.met = VerState(s.dep, p, s.pkg[p])]]
    OBVIOUS
  <2>4. new = s.pkg  BY <2>1, <2>3 DEF StateCache
  <2>5. Rebuild(s.pkg) = [pkg |-> new, dep |-> s.dep, count |-> Recount(new)]
    BY <2>2, <2>3 DEF Rebuild
  <2> QED  BY <2>1, <2>4, <2>5
<1>2. WholeInv => (Dropped(cache.pkg) = {} => cache = Rebuild(cache.pkg))
  BY <1>1 DEF WholeInv, GoodInv, SoundInv
<1> QED  BY <1>2, WholeAlways, PTL
=============================================================================
