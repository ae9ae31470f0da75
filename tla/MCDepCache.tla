----------------------------- MODULE MCDepCache -----------------------------
(***************************************************************************)
(* A small archive for DepCache: every kind of dependency, an or-group, a  *)
(* name that several packages provide, a provider that conflicts with the  *)
(* name it provides, a version that stops providing a name, and a          *)
(* dependency on the older version of a package that can be upgraded.      *)
(*                                                                         *)
(*   app   1 (installed)   Depends: lib = 1 | mta, mta;  Suggests: alt     *)
(*         2 (candidate)   Depends: lib = 2, alt | mta;  3 Depends: lib    *)
(*   lib   1 (installed)   Provides: mta                                   *)
(*         2 (candidate)   Obsoletes: alt                                  *)
(*   alt   1 (candidate)   Provides: mta;  Conflicts: mta;  2              *)
(*   mta   virtual                                                         *)
(***************************************************************************)
EXTENDS DepCacheInstall, TLC

CONSTANTS app, lib, alt, mta, a1, a2, a3, l1, l2, t1, t2

MCPkgs == {app, lib, alt, mta}
MCVers == {a1, a2, a3, l1, l2, t1, t2}
MCPkgOf == [v \in MCVers |-> CASE v \in {a1, a2, a3} -> app
                               [] v \in {l1, l2} -> lib
                               [] OTHER -> alt]
MCCurrent == (app :> a1) @@ (lib :> l1) @@ (alt :> NoVer) @@ (mta :> NoVer)
MCCandidate == (app :> a2) @@ (lib :> l2) @@ (alt :> t1) @@ (mta :> NoVer)
MCRank == (a1 :> 1) @@ (a2 :> 2) @@ (a3 :> 3) @@ (l1 :> 1) @@ (l2 :> 2) @@ (t1 :> 1) @@ (t2 :> 2)
MCSize == (a1 :> 5) @@ (a2 :> 7) @@ (a3 :> 9) @@ (l1 :> 11) @@ (l2 :> 13) @@ (t1 :> 17) @@ (t2 :> 19)
MCInstalledSize == [v \in MCVers |-> 2 * MCSize[v] + 1]
MCProvides == [v \in MCVers |-> IF v \in {l1, t1} THEN {mta} ELSE {}]

MCDepends == (a1 :> <<<<1, 2>>, <<3>>, <<4>>>>) @@ (a2 :> <<<<5>>, <<6, 7>>>>)
             @@ (a3 :> <<<<8>>>>) @@ (l1 :> << >>) @@ (l2 :> <<<<9>>>>)
             @@ (t1 :> <<<<10>>>>) @@ (t2 :> << >>)
MCParentVer == <<a1, a1, a1, a1, a2, a2, a2, a3, l2, t1>>
MCTarget == <<lib, mta, mta, alt, lib, alt, mta, lib, alt, mta>>
MCKind == <<"Depends", "Depends", "Depends", "Suggests", "Depends", "Depends",
            "Depends", "Depends", "Obsoletes", "Conflicts">>
MCDirect == <<{l1}, {}, {}, {t1, t2}, {l2}, {t1, t2}, {}, {l1, l2}, {t1, t2}, {}>>
MCIndirect == [d \in 1..10 |-> IF MCTarget[d] = mta THEN {l1, t1} ELSE {}]
MCPriority == (app :> 1) @@ (lib :> 2) @@ (alt :> 1) @@ (mta :> 1)

Fine == [p \in MCPkgs |-> "Nothing"]
Troubled == [p \in MCPkgs |-> CASE p = app -> "Configure" [] p = lib -> "Unpack"
                                [] OTHER -> "Nothing"]
=============================================================================
