------------------------------ MODULE Resolver ------------------------------
(***************************************************************************)
(* pkgProblemResolver (apt-pkg/algorithms.cc): what a broken selection of  *)
(* packages is turned into.  These are the operations of the resolver on   *)
(* the dependency cache; AptShell runs them for the commands of a user.    *)
(*                                                                         *)
(* The resolver is a record: c, the dependency cache; flags, a set of      *)
(* marks for each package; score, a signed short for each.                 *)
(*                                                                         *)
(* Abstractions.  qsort keeps the order of equal elements, as it does in   *)
(* the GNU library.  KillList has room for whatever is put into it.        *)
(***************************************************************************)
EXTENDS DepCacheInstall, SequencesExt

CONSTANTS Place,       \* the order of PkgBegin
          Listed,      \* the order of versions in a ProvidesList
          Essential,   \* packages that are flagged so
          Importance   \* Version::Priority, 1 (important) to 5, or 0

Flags == {"Protected", "PreInstalled", "Upgradable", "ReInstateTried", "ToRemove"}

\* The members of S from the first to the last of a strict total order.
Ordered(S, before(_, _)) ==
    Evaluated([k \in 1..Cardinality(S) |->
        CHOOSE p \in S : Cardinality({q \in S : before(q, p)}) = k - 1])

PkgList == Ordered(Pkgs, LAMBDA p, q : Place[p] < Place[q])

\* DepIterator::AllTargets in its order: the versions of the target, newest
\* first, then those that provide it.
TargetList == Evaluated([d \in Deps |->
    LET fits == AllTargets(d)
    IN  Ordered(fits \cap Direct[d], LAMBDA v, w : Rank[v] > Rank[w])
        \o Ordered(fits \cap Indirect[d], LAMBDA v, w : Listed[v] < Listed[w])])

\* DepIterator::SmartTargetPkg: a name without versions stands for the first
\* other package that provides it.
SmartTarget(d) ==
    LET provides == {v \in Vers : Target[d] \in Provides[v] /\ PkgOf[v] # Parent(d)}
    IN  IF ~Virtual(Target[d]) \/ provides = {} THEN Target[d]
        ELSE PkgOf[CHOOSE v \in provides : \A w \in provides : Listed[v] <= Listed[w]]

InstBroken(c, p) == "InstMin" \notin c.pkg[p].met
NowBroken(c, p) == "NowMin" \notin c.pkg[p].met
Installs(c, p) == c.pkg[p].mode = "Install"
Marked(r, p, flag) == flag \in r.flags[p]

-----------------------------------------------------------------------------
(* Scores.                                                                 *)

Short(n) == ((n + 32768) % 65536) - 32768
Shorts(f) == Evaluated([p \in Pkgs |-> Short(f[p])])
Magnitude(n) == IF n < 0 THEN 0 - n ELSE n

\* The dependencies of what is to be installed.
Needed(c) == {d \in Deps : Requires(d) /\ c.pkg[Parent(d)].inst = ParentVer[d]}

\* What a package is worth by itself and by the number of its dependants.
BaseScores(c) ==
    LET prio == <<3, 2, 1, -1, -2>>
        own(p) == LET v == c.pkg[p].inst
                  IN  IF v = NoVer THEN 0
                      ELSE (IF p \in Essential THEN 100 ELSE 0)
                           + (IF Importance[v] \in DOMAIN prio THEN prio[Importance[v]] ELSE 0)
                           + (IF Current[p] # NoVer THEN 1 ELSE 0)
    IN  Shorts([p \in Pkgs |-> own(p) + Cardinality({d \in Needed(c) : Target[d] = p})])

\* One level of inheritance: from the packages that depend on it.
Inherited(c, old) ==
    Shorts([p \in Pkgs |-> old[p] +
        IF c.pkg[p].inst = NoVer THEN 0
        ELSE MapThenSumSet(LAMBDA d : Magnitude(old[Parent(d)]),
                           {d \in Needed(c) : Target[d] = p})])

\* Along provides: a package gains what the names gained that it provides, name
\* after name.
AlongProvides(c, old, score) ==
    LET owners(p) == {q \in Pkgs : c.pkg[q].inst # NoVer /\ p \in Provides[c.pkg[q].inst]}
        step(f, p) == FoldSet(
            LAMBDA q, g : [g EXCEPT ![q] = Short(@ + Magnitude(g[p] - old[p]))],
            f, owners(p))
    IN  FoldLeft(step, score, PkgList)

MakeScores(r) ==
    LET scored == BaseScores(r.c)
        score == AlongProvides(r.c, scored, Inherited(r.c, scored))
    IN  [r EXCEPT !.score = Shorts([p \in Pkgs |-> score[p]
            + (IF Marked(r, p, "Protected") THEN 10000 ELSE 0)
            + (IF p \in Essential THEN 5000 ELSE 0)])]

\* The packages from the highest score to the lowest.
Sorted(score) ==
    Ordered(Pkgs, LAMBDA p, q :
        score[p] > score[q] \/ (score[p] = score[q] /\ Place[p] < Place[q]))

-----------------------------------------------------------------------------
(* DoUpgrade: install the candidate of a package and, if that would break, *)
(* those of the packages it needs.                                         *)

RECURSIVE DoUpgrade(_, _), UpgradeGroups(_, _), UpgradeOr(_, _, _)

\* The next member of an or-group, unless s did it.
UpgradeNext(s, group, k) ==
    IF s.ok \/ k = Len(group) THEN s ELSE UpgradeOr(s, group, k + 1)

\* The members of an or-group in turn; ok says that none has failed.
UpgradeOr(r, group, k) ==
    LET d == group[k]
        p == SmartTarget(d)
        fits == "CVer" \in r.c.dep[d].own /\ ~Marked(r, p, "Protected")
    IN  IF \/ "Install" \in r.c.dep[Last(group)].grp
           \/ Negative(d) /\ ~fits /\ ~Marked(r, p, "Protected")
        THEN r
        ELSE UpgradeNext(IF fits THEN DoUpgrade(r, p) ELSE [r EXCEPT !.ok = FALSE], group, k)

\* The or-groups in turn, up to the first that fails.
UpgradeGroups(r, groups) ==
    IF groups = << >> \/ ~r.ok THEN r
    ELSE UpgradeGroups(IF IsCritical(Last(Head(groups)))
                       THEN UpgradeOr(r, Head(groups), 1) ELSE r,
                       Tail(groups))

\* What becomes of p, which was marked, and of r when its dependencies failed.
UpgradeDeps(r, p, marked) ==
    LET undone(done) ==
          IF done.ok THEN done
          ELSE [done EXCEPT !.c = IF r.c.pkg[p].mode = "Keep" THEN MarkKeep(@, p)
                                  ELSE MarkDelete(@, p, FALSE)]
    IN  IF marked.c.pkg[p].inst = NoVer THEN [marked EXCEPT !.ok = FALSE]
        ELSE undone(UpgradeGroups(marked, Depends[marked.c.pkg[p].inst]))

DoUpgrade(r, p) ==
    IF ~Marked(r, p, "Upgradable") \/ r.c.pkg[p].status < 1 \/ Marked(r, p, "Protected")
    THEN [r EXCEPT !.ok = FALSE]
    ELSE UpgradeDeps(r, p, [r EXCEPT !.flags[p] = @ \ {"Upgradable"},
                                     !.c = MarkInstall(@, p), !.ok = TRUE])

-----------------------------------------------------------------------------
(* Resolve.                                                                *)

\* A package is fixed when it is broken and not to be installed, and c is the cache
\* after that; what is marked for installation is recorded.
Noted(s, p, fixed, c) ==
    [s EXCEPT !.c = c,
              !.flags[p] = (@ \ {"PreInstalled"}) \cup {"Upgradable"}
                  \cup (IF Installs(s.c, p) THEN {"PreInstalled"} ELSE {}),
              !.again = @ \/ (fixed /\ Installs(c, p))]

\* With BrokenFix, until nothing more is to be fixed.
RECURSIVE Prepare(_, _)
Reprepared(r, brokenFix) == IF r.again THEN Prepare(r, brokenFix) ELSE r
Prepare(r, brokenFix) ==
    LET step(s, p) == IF brokenFix /\ ~Installs(s.c, p) /\ InstBroken(s.c, p)
                      THEN Noted(s, p, TRUE, MarkInstall(s.c, p)) ELSE Noted(s, p, FALSE, s.c)
    IN  Reprepared(FoldLeft(step, [r EXCEPT !.again = FALSE], PkgList), brokenFix)

\* A package that was kept back although it was marked is tried once more.  The
\* flags are and-ed with ReInstateTried, which clears them all.
Reinstate(r, p) ==
    LET st == r.c.pkg[p]
        tried(c) == IF InstBroken(c, p) \/ r.c.count["broken"] < c.count["broken"]
                    THEN MarkKeep(c, p) ELSE c
    IN  IF /\ st.cand # st.inst /\ NoVer \notin {Current[p], st.inst}
           /\ Marked(r, p, "PreInstalled")
           /\ ~Marked(r, p, "Protected") /\ ~Marked(r, p, "ReInstateTried")
        THEN [r EXCEPT !.flags[p] = @ \cap {"ReInstateTried"},
                       !.c = tried(MarkInstall(@, p))]
        ELSE r

\* A keep of p, which gave kept, has done.  In an or-group the choice is put off
\* until its members have been seen.
HoldBack(x, p, kept) ==
    [x EXCEPT !.orKeep = TRUE,
              !.c = IF x.inOr /\ Installs(x.c, p) THEN MarkInstall(kept, p) ELSE kept]

Lower(x, p, q) ==   \* no score of p above that of q
    [x EXCEPT !.score[p] = IF @ > x.score[q] THEN x.score[q] ELSE @]
Raise(x, p, q) ==   \* in a late pass, no score of p below that of q
    [x EXCEPT !.score[p] = IF x.late /\ @ < x.score[q] THEN x.score[q] ELSE @]

\* Outside an or-group, a package that could not be repaired goes.
Dismiss(x, p, q) ==
    IF x.ok \/ x.inOr THEN x ELSE Raise([x EXCEPT !.c = MarkDelete(@, p, FALSE)], p, q)

\* p changes, rather than q: a keep will do, or else its candidate, or else it goes.
ChangeSelf(x, p, q, kept) ==
    IF ~InstBroken(kept, p) THEN HoldBack(x, p, kept)
    ELSE Dismiss(IF x.fixing THEN DoUpgrade([x EXCEPT !.c = kept], p)
                 ELSE [x EXCEPT !.c = kept, !.ok = FALSE], p, q)

\* The target v of the broken dependency d of p, in a group that ends in e: change
\* p, if the target is worth more, or change the target.  The result says whether
\* the next target is to be tried.
TryTarget(x, p, d, e, v, last) ==
    LET q == PkgOf[v]
        ends(y) == [x |-> y, next |-> FALSE]
        next(y) == [x |-> y, next |-> TRUE]
        kill(y) == IF last THEN ends([y EXCEPT !.kills = Append(@, [pkg |-> q, dep |-> e])])
                   ELSE next(y)
        forced(up) == IF up.ok THEN ends(Lower(up, q, p)) ELSE next(up)
        helped(up) == IF /\ up.ok /\ ~InstBroken(up.c, p)
                         /\ x.c.count["broken"] >= up.c.count["broken"]
                      THEN ends([up EXCEPT !.change = TRUE])
                      ELSE kill(IF up.ok THEN [up EXCEPT !.c = x.c]  \* State::Restore
                                ELSE up)
    IN  IF \/ x.score[p] <= x.score[q]
           \/ "Now" \notin x.c.dep[d].own /\ ~Negative(e)
        THEN IF Marked(x, p, "Protected") \/ Kind[e] = "Obsoletes"
             THEN forced(DoUpgrade(x, q))
             ELSE ends([ChangeSelf(x, p, q, MarkKeep(x.c, p))
                           EXCEPT !.change = TRUE, !.done = TRUE])
        ELSE IF \/ Negative(d) /\ x.c.pkg[q].inst # v
                \/ Marked(x, q, "Protected")
        THEN next(x)
        ELSE IF ~x.fixing THEN kill(x) ELSE helped(DoUpgrade(x, q))

\* One target after another.
RECURSIVE TryTargets(_, _, _, _, _)
TryTargets(x, p, d, e, vs) ==
    LET onward(t) == IF t.next THEN TryTargets(t.x, p, d, e, Tail(vs)) ELSE t.x
    IN  IF vs = << >> THEN x ELSE onward(TryTarget(x, p, d, e, Head(vs), Len(vs) = 1))

\* Mutant: a package that the user named is not spared.
CloseOr_Any(x, p) ==
    LET open == x.inOr /\ Len(x.kills) = x.from
        reset(y) == [y EXCEPT !.inOr = FALSE, !.orKeep = FALSE]
    IN  IF open THEN reset([x EXCEPT !.c = MarkDelete(@, p, FALSE), !.change = TRUE])
        ELSE reset(x)

\* The end of an or-group of which no target was put on the kill list.
CloseOr(x, p) ==
    LET open == x.inOr /\ Len(x.kills) = x.from
        reset(y) == [y EXCEPT !.inOr = FALSE, !.orKeep = FALSE]
    IN  IF open /\ x.orKeep
        THEN reset([x EXCEPT !.c = MarkKeep(@, p), !.change = TRUE])
        ELSE IF open /\ ~Marked(x, p, "Protected")
        THEN reset([x EXCEPT !.c = MarkDelete(@, p, FALSE), !.change = TRUE])
        ELSE reset(x)

\* The dependencies of p: Start is member k of group g; g = 0 before the first.
RECURSIVE Scan(_, _, _, _, _)

\* A broken dependency that nothing satisfies: p is kept back, or goes.
NoTargets(x, p, kept) ==
    [IF ~InstBroken(kept, p) THEN HoldBack(x, p, kept)
     ELSE [x EXCEPT !.c = IF x.inOr THEN kept ELSE MarkDelete(kept, p, FALSE)]
     EXCEPT !.change = TRUE, !.done = TRUE]

Member(x, p, groups, g, k) ==
    LET d == groups[g][k]
        e == Last(groups[g])
        vs == TargetList[d]
        free == ~Marked(x, p, "Protected") /\ ~Negative(d)
        onward(y) == IF y.inOr \/ ~y.done THEN Scan(y, p, groups, g, k) ELSE y
    IN  IF "Install" \in x.c.dep[e].grp THEN Scan([x EXCEPT !.inOr = FALSE], p, groups, g, k)
        ELSE IF vs # << >> THEN onward(TryTargets([x EXCEPT !.done = FALSE], p, d, e, vs))
        ELSE IF free /\ ~NowBroken(x.c, p)
        THEN IF x.inOr THEN Scan(x, p, groups, g, k)
             ELSE [x EXCEPT !.c = MarkKeep(@, p), !.change = TRUE]
        ELSE onward(IF free THEN NoTargets(x, p, MarkKeep(x.c, p)) ELSE [x EXCEPT !.done = FALSE])

\* Group g of p, when the groups before it are done.
Group(x, p, groups, g) ==
    IF g > Len(groups) THEN x
    ELSE IF ~IsCritical(Last(groups[g])) THEN Scan(x, p, groups, g, 1)
    ELSE Member([x EXCEPT !.inOr = Len(groups[g]) > 1, !.from = Len(x.kills)], p, groups, g, 1)

Scan(x, p, groups, g, k) ==
    IF g >= Len(groups) /\ ~x.inOr THEN x
    ELSE IF g > 0 /\ k < Len(groups[g]) THEN Member(x, p, groups, g, k + 1)
    ELSE Group(CloseOr(x, p), p, groups, g + 1)

\* What was put on the kill list is kept, if that satisfied the dependency, or,
\* if it is in conflict, removed.
ApplyKills(x, p) ==
    LET kill(y, j) ==
          Raise([y EXCEPT !.change = TRUE,
                          !.c = IF "Now" \in @.dep[j.dep].grp THEN MarkKeep(@, j.pkg)
                                ELSE IF Negative(j.dep) THEN MarkDelete(@, j.pkg, FALSE) ELSE @],
                j.pkg, p)
    IN  IF x.c.pkg[p].inst = NoVer THEN x ELSE FoldLeft(kill, x, x.kills)

\* One package of a pass of Resolve, when it has been tried once more.
Examine(s, p) ==
    IF s.c.pkg[p].inst = NoVer \/ ~InstBroken(s.c, p) THEN s
    ELSE ApplyKills(Scan([s EXCEPT !.kills = << >>, !.from = 0, !.inOr = FALSE, !.orKeep = FALSE],
                         p, Depends[s.c.pkg[p].inst], 0, 0), p)

Investigate(r, p) == Examine(Reinstate(r, p), p)

-----------------------------------------------------------------------------
(* ResolveByKeep and the other operations.                                 *)

\* Keep the targets of a broken dependency, one after another, until the package
\* is whole.
KeepTargets(r, p, d) ==
    LET step(s, v) ==
          LET q == PkgOf[v]
          IN  IF \/ ~InstBroken(s.c, p)
                 \/ NoVer \in {s.c.pkg[q].inst, Current[q]}
                 \/ Marked(s, q, "Protected")
              THEN s ELSE [s EXCEPT !.c = MarkKeep(@, q)]
    IN  FoldLeft(step, r, TargetList[d])

KeepDeps(r, p) ==
    LET group(s, g) ==
          IF \/ ~InstBroken(s.c, p) \/ ~IsCritical(Last(g))
             \/ "Install" \in s.c.dep[Last(g)].grp
          THEN s ELSE FoldLeft(LAMBDA t, d : KeepTargets(t, p, d), s, g)
    IN  FoldLeft(group, r, Depends[r.c.pkg[p].inst])

\* InstallProtect: what the user asked for, once more.
InstallProtect(r) ==
    LET step(s, p) ==
          IF ~Marked(s, p, "Protected") THEN s
          ELSE [s EXCEPT !.c = IF Marked(s, p, "ToRemove") THEN MarkDelete(@, p, FALSE)
                               ELSE MarkInstall(@, p)]
    IN  FoldLeft(step, r, PkgList)

\* Does some package that stays, or comes, need what version v gives under name?
StillNeeded(c, v, name) ==
    \E d \in Deps :
        /\ Requires(d) /\ Target[d] = name
        /\ v \in Direct[d] \cup Indirect[d]
        /\ LET q == Parent(d)
           IN  \/ Installs(c, q) /\ c.pkg[q].inst = ParentVer[d]
               \/ Current[q] # NoVer /\ c.pkg[q].mode = "Keep"

\* RemoveDepends: what only the removed packages needed goes with them.
RECURSIVE RemoveDepends(_)
RemoveDepends(r) ==
    LET target(s, q) ==
          IF \/ Current[q] = NoVer \/ s.c.pkg[q].mode = "Delete" \/ Marked(s, q, "Protected")
             \/ \E name \in {q} \cup Provides[Current[q]] :
                    StillNeeded(s.c, Current[q], name)
          THEN s ELSE [s EXCEPT !.c = MarkDelete(@, q, FALSE), !.again = TRUE]
        step(s, p) ==
          IF s.c.pkg[p].mode # "Delete" \/ Current[p] = NoVer THEN s
          ELSE FoldLeft(LAMBDA t, d : IF Requires(d) THEN target(t, Target[d]) ELSE t,
                        s, FlattenSeq(Depends[Current[p]]))
        repeated(done) == IF done.again THEN RemoveDepends(done) ELSE done
    IN  repeated(FoldLeft(step, [r EXCEPT !.again = FALSE], PkgList))
=============================================================================
