------------------------------ MODULE OrderList ------------------------------
(***************************************************************************)
(* pkgOrderList (apt-pkg/orderlist.cc): the order in which the changes of  *)
(* a selection are made.  Four passes over the list visit each package     *)
(* depth first, and before it what should be done before it: what its      *)
(* dependencies want, or those of the others on it.  A package whose file  *)
(* is not there yet carries the flag After and is put on a second list,    *)
(* with what has to wait for it.                                           *)
(*                                                                         *)
(* The state of an ordering is a record o: c, the dependency cache; list;  *)
(* flags, a set for each package; missing, the packages without a file;    *)
(* and during a pass out and later, the lists under construction, depth,   *)
(* and the function that looks at dependencies in each role.               *)
(*                                                                         *)
(* Abstractions.  The functions of the code return true in all cases, and  *)
(* the loops they record are used by OrderCritical only, which nothing     *)
(* calls: both are left out.                                               *)
(***************************************************************************)
EXTENDS Resolver

CONSTANTS NameOrder,   \* strcmp on the names of packages
          RevListed    \* the order of dependencies in a RevDependsList

OrderFlags == {"Added", "AddPending", "Immediate", "UnPacked", "Configured", "InList", "After"}

Is(o, p, flag) == flag \in o.flags[p]
IsNow(o, p) == ~Is(o, p, "UnPacked") /\ ~Is(o, p, "Configured")
Deletes(c, p) == c.pkg[p].mode = "Delete"
Stays(c, p) == c.pkg[p].mode = "Keep" /\ Needs[p] = "Nothing"

\* RevDependsList and Version::ProvidesList.
RevDepends == Evaluated([p \in Pkgs |->
    Ordered({d \in Deps : Target[d] = p}, LAMBDA d, e : RevListed[d] < RevListed[e])])
RevProvides == Evaluated([v \in Vers |->
    FlattenSeq([k \in 1..Cardinality(Provides[v]) |->
        RevDepends[Ordered(Provides[v], LAMBDA p, q : Place[p] < Place[q])[k]]])])

-----------------------------------------------------------------------------

\* OrderList::CheckDep: does d hold when what is Added has been done?  A package
\* that is visited counts as done for the dependencies on it.
Would(o, d, reverse) ==
    LET there(v) == IF \/ Is(o, PkgOf[v], "Added")
                       \/ Is(o, PkgOf[v], "AddPending") /\ reverse
                    THEN o.c.pkg[PkgOf[v]].inst = v
                    ELSE Current[PkgOf[v]] = v /\ Needs[PkgOf[v]] = "Nothing"
    IN  SelectSeq(TargetList[d], there)

\* Its result, and the flag it hands on to the parent.
CheckOrder(o, d, reverse) ==
    LET hits == Would(o, d, reverse)
        late == \E k \in DOMAIN hits : Is(o, PkgOf[hits[k]], "After")
        waits == [o EXCEPT !.flags[Parent(d)] = @ \cup {"After"}]
        answer(s, holds) == [o |-> s, holds |-> holds]
    IN  IF hits = << >> THEN answer(o, Negative(d))
        ELSE IF Negative(d)
        THEN answer(IF Is(o, PkgOf[hits[1]], "After") THEN waits ELSE o, FALSE)
        ELSE IF \E k \in DOMAIN hits : ~Is(o, PkgOf[hits[k]], "After") THEN answer(o, TRUE)
        ELSE IF Kind[d] = "PreDepends" THEN answer(waits, TRUE)
        ELSE answer(o, FALSE)

\* What a DepFunc looks at among the dependencies of the package itself.
Forward(o, f, d) ==
    CASE f = "UnPackCrit" -> Negative(d) \/ Kind[d] = "PreDepends"
      [] f = "UnPackPreD" -> IsCritical(d)
      [] f = "UnPackPre" -> \/ Kind[d] = "PreDepends"
                            \/ /\ Kind[d] = "Depends"
                               /\ o.depth # 1 \/ Is(o, Parent(d), "Immediate")
      [] f = "Configure" -> Kind[d] = "Depends"
      [] OTHER -> FALSE

\* And among those that others, as installed, have on it.
Backward(f, d) ==
    /\ Current[Parent(d)] = ParentVer[d]
    /\ CASE f \in {"UnPackCrit", "UnPackPreD"} -> Negative(d)
         [] f = "UnPackDep" -> IsCritical(d)
         [] f = "Remove" -> Requires(d)
         [] OTHER -> FALSE

RECURSIVE Visit(_, _)

\* VisitProvides: the packages that would satisfy d, or that it excludes.
VisitProvides(o, d, critical) ==
    LET step(s, v) ==
          LET p == PkgOf[v]
          IN  IF \/ Stays(s.c, p)
                 \/ v # (IF Negative(d) THEN Current[p] ELSE s.c.pkg[p].inst)
                 \/ ~critical /\ Parent(d) \in s.missing
              THEN s ELSE Visit(s, p)
    IN  FoldLeft(step, o, TargetList[d])

\* What is done before the parent of d, or before its target: check is the answer
\* of CheckDep.
Follow(o, f, reverse, d, check) ==
    IF reverse
    THEN IF check.holds \/ (f \in {"UnPackDep", "Remove"} /\ Parent(d) \in o.missing)
         THEN check.o ELSE Visit(check.o, Parent(d))
    ELSE IF check.holds \/ check.o.flags[Target[d]] \cap {"Added", "AddPending"} # {}
    THEN check.o
    ELSE [VisitProvides([check.o EXCEPT !.primary =
                           IF f = "UnPackCrit" /\ Kind[d] = "PreDepends" THEN "UnPackPreD" ELSE @],
                        d, TRUE) EXCEPT !.primary = o.primary]

\* One dependency under the DepFunc f.
Look(o, f, reverse, d) ==
    IF ~(IF reverse THEN Backward(f, d) ELSE Forward(o, f, d)) THEN o
    ELSE IF f = "Configure" /\ ~reverse THEN VisitProvides(o, d, FALSE)
    ELSE Follow(o, f, reverse, d, CheckOrder(o, d, reverse))

LookAll(o, f, reverse, ds) == FoldLeft(LAMBDA s, d : Look(s, f, reverse, d), o, ds)

\* VisitDeps, VisitRDeps and VisitRProvides with one DepFunc: the dependencies of
\* p itself, those on it, and those on what it provides.
Consider(o, f, p, own) ==
    LET inst == o.c.pkg[p].inst
        fore == IF own /\ inst # NoVer THEN FlattenSeq(Depends[inst]) ELSE << >>
        provided(v) == IF v = NoVer THEN << >> ELSE RevProvides[v]
        back == RevDepends[p] \o provided(Current[p])
                \o (IF Deletes(o.c, p) THEN << >> ELSE provided(inst))
    IN  IF f = "none" THEN o
        ELSE LookAll(LookAll(o, f, FALSE, fore), f, TRUE, back)

\* The DepFuncs for p, and whether each is for the dependencies of p itself, too.
Roles(o, p) ==
    IF ~IsNow(o, p) THEN << >>
    ELSE IF Deletes(o.c, p) THEN <<<<o.remove, FALSE>>>>
    ELSE <<<<o.primary, TRUE>>, <<o.rev, FALSE>>, <<o.secondary, TRUE>>>>

\* p goes to one of the lists, when all that it waits for is there.
Blacken(o, p, depth, primary) ==
    [o EXCEPT !.flags[p] = (@ \ {"AddPending"}) \cup {"Added"},
              !.depth = depth, !.primary = primary,
              !.later = IF Is(o, p, "After") THEN Append(@, p) ELSE @,
              !.out = IF Is(o, p, "After") THEN @ ELSE Append(@, p)]

\* VisitNode.
Visit(o, p) ==
    LET grey == [o EXCEPT !.flags[p] = @ \cup {"AddPending"}, !.depth = @ + 1,
                    !.primary = IF Is(o, p, "Immediate") /\ @ # "UnPackPre" THEN "UnPackPreD"
                                ELSE @]
    IN  IF Is(o, p, "Added") \/ Is(o, p, "AddPending") \/ ~Is(o, p, "InList") THEN o
        ELSE Blacken(FoldLeft(LAMBDA s, role : Consider(s, role[1], p, role[2]),
                              grey, Roles(grey, p)),
                     p, o.depth, o.primary)

\* DoRun: one pass over the list, with its DepFuncs.
DoRun(o, funcs) ==
    LET marks == {"Added", "AddPending", "InList"}
        clean == [o EXCEPT !.out = << >>, !.later = << >>, !.depth = 0,
                     !.primary = funcs[1], !.secondary = funcs[2],
                     !.rev = funcs[3], !.remove = funcs[4],
                     !.flags = Evaluated([p \in Pkgs |->
                        (@[p] \ marks) \cup (IF p \in ToSet(o.list) THEN {"InList"} ELSE {})])]
        joined(s) == [s EXCEPT !.list = s.out \o s.later]
    IN  joined(FoldLeft(Visit, clean, o.list))

Score(o, p) ==
    LET inst == o.c.pkg[p].inst
        prio == <<5, 4, 3, 1, 0>>
    IN  IF Deletes(o.c, p) THEN 200
        ELSE IF inst = NoVer THEN 0 - 1
        ELSE (IF p \in Essential THEN 100 ELSE 0) + (IF Is(o, p, "Immediate") THEN 10 ELSE 0)
             + (IF \E k \in DOMAIN FlattenSeq(Depends[inst]) :
                      Kind[FlattenSeq(Depends[inst])[k]] = "PreDepends" THEN 50 ELSE 0)
             + (IF Importance[inst] \in DOMAIN prio THEN prio[Importance[inst]] ELSE 0)

\* OrderCompareA.
Earlier(o, p, q) ==
    LET before == <<IsNow(o, p) /\ ~IsNow(o, q), Needs[p] # "Nothing" /\ Needs[q] = "Nothing",
                    Score(o, p) > Score(o, q), NameOrder[p] < NameOrder[q]>>
        after == <<IsNow(o, q) /\ ~IsNow(o, p), Needs[q] # "Nothing" /\ Needs[p] = "Nothing",
                   Score(o, q) > Score(o, p), FALSE>>
    IN  \E k \in 1..4 : before[k] /\ \A j \in 1..(k - 1) : ~before[j] /\ ~after[j]

\* The flag After, when it is known which files there are.
PutOff(o) ==
    [o EXCEPT !.flags = Evaluated([p \in Pkgs |->
        (@[p] \ {"After"})
        \cup (IF p \in ToSet(o.list) \cap o.missing /\ IsNow(o, p) THEN {"After"} ELSE {})])]

\* OrderUnpack: the four passes.
OrderUnpack(o) ==
    FoldLeft(DoRun, [o EXCEPT !.list = Ordered(ToSet(@), LAMBDA p, q : Earlier(o, p, q))],
             <<<<"UnPackCrit", "Configure", "UnPackDep", "Remove">>,
               <<"UnPackCrit", "none", "UnPackDep", "Remove">>,
               <<"UnPackCrit", "none", "none", "none">>,
               <<"UnPackPre", "none", "none", "none">>>>)
=============================================================================
