--------------------------- MODULE DepCacheInstall --------------------------
(***************************************************************************)
(* pkgDepCache::MarkInstall with AutoInst (apt-pkg/depcache.cc): after a   *)
(* package is marked, each of its or-groups that would not hold is made to *)
(* hold by marking a candidate, recursively, or, for a conflict, by        *)
(* deleting what it conflicts with.  Dependencies may be circular, so the  *)
(* recursion can come back to a package whose loop is still running.       *)
(***************************************************************************)
EXTENDS DepCache, SequencesExt

CONSTANTS Priority,  \* the order of pkgPrioSortList
          MaxDepth   \* 100 in the code

ASSUME DepthOK == MaxDepth \in Nat /\ Priority \in [Pkgs -> Int]

\* DepIterator::AllTargets: whatever the dependency matches.
AllTargets(d) ==
    {v \in Direct[d] \cup Indirect[d] : Negative(d) => PkgOf[v] # Parent(d)}

\* Mutant: always the first of an or-group.
Start_First(s, group) == group[1]

\* The member of an or-group to work on: the first that a candidate satisfies,
\* or the last.
Start(s, group) ==
    LET can == {k \in DOMAIN group : "CVer" \in s.dep[group[k]].own}
    IN  group[IF can = {} THEN Len(group) ELSE Min(can)]

\* The package to install for d: its target if the candidate of that matches,
\* else the provider of the highest priority whose candidate does.
InstPkgs(s, d) ==
    LET fits == {v \in AllTargets(d) : s.pkg[PkgOf[v]].cand = v}
        own == {PkgOf[v] : v \in fits} \cap {Target[d]}
    IN  IF own # {} THEN own
        ELSE {p \in {PkgOf[v] : v \in fits} :
                \A v \in fits : Priority[p] >= Priority[PkgOf[v]]}

\* MarkInstall goes on to the dependencies when it has marked the package.
Marks(s, p) ==
    /\ ~("InstMin" \in s.pkg[p].met
         /\ (s.pkg[p].mode = "Install" \/ s.pkg[p].cand = Current[p]))
    /\ s.pkg[p].cand # NoVer /\ ~Virtual(p)

\* One or-group, judged by what the ones before it left; deeper is MarkInstall
\* one level down.
Satisfied(s, group, deeper) ==
    LET d == Start(s, group)
    IN  IF \/ \E k \in DOMAIN group : "Install" \in s.dep[group[k]].own
           \/ ~IsCritical(group[1])
        THEN s
        ELSE IF "CVer" \in s.dep[d].own
        THEN FoldSet(LAMBDA p, t : deeper[p][t], s, InstPkgs(s, d))
        ELSE IF Negative(d)
        THEN FoldSet(LAMBDA p, t : MarkDelete(t, p, FALSE), s, {PkgOf[v] : v \in AllTargets(d)})
        ELSE s

\* The package, and then one pass over its or-groups.
Installed(s, p, deeper) ==
    IF Marks(s, p)
    THEN FoldLeft(LAMBDA t, group : Satisfied(t, group, deeper),
                  MarkInstall(s, p), Depends[s.pkg[p].cand])
    ELSE MarkInstall(s, p)

\* MarkInstall with so many levels left.
Within[left \in 0..(MaxDepth + 1)] ==
    [p \in Pkgs |-> [s \in Cache |->
        IF left = 0 THEN s ELSE Installed(s, p, Within[left - 1])]]

AutoInstall(s, p) == Within[MaxDepth + 1][p][s]

-----------------------------------------------------------------------------
(* The dependency cache with this operation, too.                          *)

InstallAuto == \E p \in Pkgs : cache' = AutoInstall(cache, p) /\ UNCHANGED saved

AutoNext == Next \/ InstallAuto
AutoSpec == Init /\ [][AutoNext]_vars
=============================================================================
