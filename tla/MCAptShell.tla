----------------------------- MODULE MCAptShell -----------------------------
(***************************************************************************)
(* An archive for AptShell: a base that can be upgraded, packages that     *)
(* hold it back or follow it, one that it replaces, two that exclude each  *)
(* other under a common name, a group of new packages that need each       *)
(* other, and a package that is broken from the start.                     *)
(*                                                                         *)
(*   base  1 (installed), 2 (candidate)                                    *)
(*   old   1 (installed)                                                   *)
(*   app   1 (installed)   Depends: base = 1                               *)
(*         2 (candidate)   Obsoletes: old;  PreDepends: base = 2;          *)
(*                                         Depends: mta                    *)
(*   web   1 (installed)   Depends: base = 1 | app = 2, old                *)
(*   exim  1 (installed), 2 (candidate)   Provides: mta;  Conflicts: mta   *)
(*   post  1 (candidate)   Provides: mta;  Conflicts: mta                  *)
(*   plug  1 (candidate)   Depends: tool, gone | base = 2                  *)
(*   tool  1 (candidate)   Depends: plug                                   *)
(*   spam  1 (candidate)   Depends: exim = 1                               *)
(*   hurt  1 (installed)   Depends: gone;  2 (candidate)                   *)
(*   mta, gone             virtual                                         *)
(***************************************************************************)
EXTENDS PackageManager

CONSTANTS base, old, app, web, exim, post, plug, tool, hurt, spam, mta, gone,
          b1, b2, o1, a1, a2, w1, e1, e2, s1, p1, t1, h1, h2, m1

MCPkgs == {base, old, app, web, exim, post, plug, tool, hurt, spam, mta, gone}
MCVers == {b1, b2, o1, a1, a2, w1, e1, e2, s1, p1, t1, h1, h2, m1}
MCPkgOf == [v \in MCVers |->
    CASE v \in {b1, b2} -> base [] v = o1 -> old [] v \in {a1, a2} -> app [] v = w1 -> web
      [] v \in {e1, e2} -> exim [] v = s1 -> post [] v = p1 -> plug [] v = t1 -> tool [] v = m1 -> spam
      [] OTHER -> hurt]
MCCurrent == [p \in MCPkgs |->
    CASE p = base -> b1 [] p = old -> o1 [] p = app -> a1 [] p = web -> w1 [] p = exim -> e1
      [] p = hurt -> h1 [] OTHER -> NoVer]
MCCandidate == [p \in MCPkgs |->
    CASE p = base -> b2 [] p = old -> o1 [] p = app -> a2 [] p = web -> w1 [] p = exim -> e2 [] p = spam -> m1
      [] p = post -> s1 [] p = plug -> p1 [] p = tool -> t1 [] p = hurt -> h2 [] OTHER -> NoVer]
MCRank == [v \in MCVers |-> IF v \in {b2, a2, e2, h2} THEN 2 ELSE 1]
MCSize == [v \in MCVers |-> 1]
MCProvides == [v \in MCVers |-> IF v \in {e1, e2, s1} THEN {mta} ELSE {}]

MCDepends == [v \in MCVers |->
    CASE v = a1 -> <<<<2>>>> [] v = a2 -> <<<<1>>, <<3>>, <<4>>>>
      [] v = w1 -> <<<<5, 6>>, <<7>>>> [] v = e1 -> <<<<8>>>> [] v = e2 -> <<<<15>>>> [] v = s1 -> <<<<9>>>>
      [] v = p1 -> <<<<10>>, <<11, 12>>>> [] v = t1 -> <<<<13>>>> [] v = h1 -> <<<<14>>>> [] v = m1 -> <<<<16>>>>
      [] OTHER -> << >>]
MCParentVer == <<a2, a1, a2, a2, w1, w1, w1, e1, s1, p1, p1, p1, t1, h1, e2, m1>>
MCTarget == <<old, base, base, mta, base, app, old, mta, mta, tool, gone, base, plug, gone, mta, exim>>
MCKind == [d \in 1..16 |-> CASE d = 1 -> "Obsoletes" [] d \in {8, 9, 15} -> "Conflicts"
                             [] d = 3 -> "PreDepends"
                             [] OTHER -> "Depends"]
MCDirect == <<{o1}, {b1}, {b2}, {}, {b1}, {a2}, {o1}, {}, {}, {t1}, {}, {b2}, {p1}, {}, {}, {e1}>>
MCIndirect == [d \in 1..16 |-> IF MCTarget[d] = mta THEN {e1, e2, s1} ELSE {}]

MCFine == [p \in MCPkgs |-> "Nothing"]
InOrder == [p \in MCPkgs |->
    CASE p = web -> 1 [] p = plug -> 2 [] p = base -> 3 [] p = mta -> 4 [] p = exim -> 5
      [] p = app -> 6 [] p = old -> 7 [] p = tool -> 8 [] p = post -> 9 [] p = hurt -> 10
      [] p = gone -> 11 [] p = spam -> 12]
MCListed == [v \in MCVers |-> IF v = s1 THEN 1 ELSE IF v = e2 THEN 3 ELSE 2]
MCImportance == [v \in MCVers |-> IF v \in {b1, b2} THEN 1 ELSE 4]
MCPriority == [p \in MCPkgs |-> IF p = base THEN 3 ELSE IF p = exim THEN 2 ELSE 1]
MCPin == [p \in MCPkgs |-> 500]

\* For a commit: two discs and the net, with and without Copy-All.
MCNameOrder == [p \in MCPkgs |->
    CASE p = app -> 1 [] p = base -> 2 [] p = exim -> 3 [] p = gone -> 4 [] p = hurt -> 5
      [] p = mta -> 6 [] p = old -> 7 [] p = plug -> 8 [] p = post -> 9 [] p = spam -> 10
      [] p = tool -> 11 [] p = web -> 12]
MCRevListed == [d \in 1..16 |-> 0 - d]
MCMedium == [v \in MCVers |->
    CASE v \in {b2, s1, t1} -> 1 [] v \in {a2, p1} -> 2 [] OTHER -> Net]
MCSettings == [copyAll : BOOLEAN, fixMissing : BOOLEAN]
MCSwaps == {[copyAll |-> FALSE, fixMissing |-> TRUE]}
=============================================================================
