------------------------------ MODULE AptShell ------------------------------
(***************************************************************************)
(* The commands of apt-shell (cmdline/apt-shell.cc) that change what will  *)
(* be installed: install, remove, keep, upgrade and dist-upgrade, with and *)
(* without --fix-broken, one after another on the same dependency cache.   *)
(* Each guards the cache with an AutoRestore and runs the resolver of      *)
(* module Resolver; apt-get runs the same commands on a fresh cache.       *)
(*                                                                         *)
(* A command is a sequence of steps; phase says which is next.  Nothing    *)
(* runs between them: they are separate so that loops show.                *)
(*                                                                         *)
(* Abstractions.  Options are at their defaults but for --fix-broken and   *)
(* APT::Remove-Depends.  Scripts do nothing.  rpm knows no half-installed  *)
(* packages, so pkgApplyStatus changes nothing; and it selects every       *)
(* package for installation, so that only RPM::Hold holds any.             *)
(***************************************************************************)
EXTENDS Resolver

CONSTANTS Wanted,        \* packages the user names
          Held,          \* packages that RPM::Hold names
          Pin,           \* Policy::GetPkgPriority
          AutoRemove,    \* may APT::Remove-Depends be set
          MaxCommands, MaxNames   \* bounds on a session

VARIABLES fix,    \* the pkgProblemResolver of the command
          cmd,    \* what the user asked for
          phase,  \* the next step of the command
          told,   \* how often the user has spoken: [commands, names]
          error   \* the internal errors reported

shellVars == <<cache, saved, fix, cmd, phase, told, error>>

NewResolver(c) ==
    [c |-> c, flags |-> [p \in Pkgs |-> {}], score |-> [p \in Pkgs |-> 0],
     ok |-> TRUE, again |-> FALSE, change |-> FALSE, done |-> FALSE,
     kills |-> << >>, from |-> 0, inOr |-> FALSE, orKeep |-> FALSE,
     fixing |-> FALSE, late |-> FALSE, list |-> << >>, at |-> 0, pass |-> 0,
     last |-> 0]

NoCommand == [kind |-> "none", names |-> << >>, broken |-> FALSE,
              fixBroken |-> FALSE, orphans |-> FALSE]

ShellInit ==
    /\ Init
    /\ fix = NewResolver(cache) /\ cmd = NoCommand /\ phase = "prompt"
    /\ told = [commands |-> 0, names |-> 0] /\ error = {}

-----------------------------------------------------------------------------
(* Resolving as a loop: resolver r is put at the first package.            *)

StartResolve(r, brokenFix) ==
    LET started(s) == [s EXCEPT !.list = Sorted(s.score), !.at = 1, !.pass = 0, !.change = FALSE]
    IN  started(MakeScores(Prepare([r EXCEPT !.fixing = brokenFix], brokenFix)))

StartKeep(r) ==
    LET started(s) == [s EXCEPT !.list = Sorted(s.score), !.at = 1, !.last = 0]
    IN  started(MakeScores(r))

\* Mutant: the passes are not counted.
PassOver_On(r) ==
    IF r.at <= Len(r.list) THEN r ELSE [r EXCEPT !.at = 1, !.pass = 2, !.change = FALSE]

\* At the end of a pass there is another, up to ten, if something changed.
PassOver(r) ==
    IF r.at <= Len(r.list) THEN r
    ELSE IF r.change /\ r.pass < 9
    THEN [r EXCEPT !.at = 1, !.pass = @ + 1, !.change = FALSE]
    ELSE r

\* One package of Resolve.
Onward(r) == PassOver([r EXCEPT !.at = @ + 1])
ResolveStep(r) == Onward(Investigate([r EXCEPT !.late = r.pass > 1], r.list[r.at]))

\* ProcessCache: what RPM::Hold names is kept and protected.
ProcessCache(r) ==
    FoldLeft(LAMBDA s, p : IF p \notin Held \/ Current[p] = NoVer THEN s
                           ELSE [s EXCEPT !.c = MarkKeep(@, p), !.flags[p] = @ \cup {"Protected"}],
             r, PkgList)

-----------------------------------------------------------------------------
(* Fixing a broken system: CheckDeps with --fix-broken.                    *)

\* With APT::Remove-Depends.
Orphans(r) == IF cmd.orphans THEN RemoveDepends(r) ELSE r

Repaired(c) ==
    FoldLeft(LAMBDA d, p : IF NowBroken(d, p) THEN AutoInstall(d, p) ELSE d, c, PkgList)
FixBroken(c) == StartResolve(Orphans(ProcessCache(NewResolver(Repaired(c)))), TRUE)

\* MinimizeUpgrade: keep what can be kept without breaking anything, until
\* nothing changes, ten times at most.  First for one package.
MinimizeOne(s, p) ==
    LET try(kept) ==
          IF kept.count["broken"] # 0 THEN [s EXCEPT !.c = MarkInstall(kept, p)]
          ELSE [c |-> kept, change |-> s.change \/ kept.pkg[p].mode # "Install"]
    IN  IF Installs(s.c, p) /\ s.c.pkg[p].status = 1 THEN try(MarkKeep(s.c, p)) ELSE s

RECURSIVE MinimizeUpgrade(_, _)
MinimizeUpgrade(c, count) ==
    LET repeated(done) ==
          IF done.change /\ count < 9 THEN MinimizeUpgrade(done.c, count + 1) ELSE done.c
    IN  repeated(FoldLeft(MinimizeOne, [c |-> c, change |-> FALSE], PkgList))

-----------------------------------------------------------------------------
(* Commands.                                                               *)

\* The resolver works on the cache that the command sees.
Works(r) == \E s \in {r} : fix' = s /\ cache' = s.c

Speaks(kind, names) ==
    /\ phase = "prompt" /\ phase' = "check"
    /\ told.commands < MaxCommands /\ told.names + Len(names) <= MaxNames
    /\ told' = [commands |-> told.commands + 1, names |-> told.names + Len(names)]
    /\ \E fixBroken \in BOOLEAN, orphans \in {FALSE, AutoRemove} :
           cmd' = [kind |-> kind, names |-> names, broken |-> FALSE,
                   fixBroken |-> fixBroken, orphans |-> orphans]
    /\ UNCHANGED <<cache, fix, error>>

\* DoInstall: install, remove or keep, each name perhaps with its own mode.
\* Its guard is set after CheckDeps, that of the other commands before.
Request ==
    /\ \/ \E n \in 0..MaxNames : \E names \in [1..n -> Wanted \X {"install", "remove"}] :
              Speaks("install", names)
       \/ \E n \in 1..MaxNames : \E names \in [1..n -> Wanted \X {"keep"}] :
              Speaks("keep", names)
    /\ UNCHANGED saved

Upgrade == (Speaks("upgrade", << >>) \/ Speaks("dist-upgrade", << >>)) /\ saved' = cache

\* CheckDeps; broken packages do not matter to an install that names some.
CheckDeps ==
    /\ phase = "check"
    /\ IF cache.count["broken"] = 0 \/ cmd.names # << >>
       THEN phase' = "begin" /\ UNCHANGED <<cache, fix>>
       ELSE IF ~cmd.fixBroken THEN phase' = "failed" /\ UNCHANGED <<cache, fix>>
       ELSE phase' = "fixing" /\ Works(FixBroken(cache))
    /\ UNCHANGED <<saved, cmd, told, error>>

\* A name without a candidate stands for the one package that provides it with
\* its current or its candidate version.
Solutions(c, p) ==
    IF c.pkg[p].cand # NoVer \/ ~(\E v \in Vers : p \in Provides[v]) THEN {p}
    ELSE {q \in Pkgs : \E v \in {Current[q], c.pkg[q].cand} \ {NoVer} : p \in Provides[v]}

\* TryToInstall.
TryToInstall(r, p, mode, brokenFix) ==
    LET flagged == [r EXCEPT !.flags[p] = (@ \ {"ToRemove"}) \cup {"Protected"}
                        \cup (IF mode = "remove" THEN {"ToRemove"} ELSE {})]
        c == MarkInstall(r.c, p)
    IN  IF mode = "install" /\ r.c.pkg[p].cand = NoVer THEN [r EXCEPT !.ok = FALSE]
        ELSE IF mode = "remove" /\ Current[p] = NoVer THEN flagged
        ELSE IF mode = "keep" THEN [flagged EXCEPT !.c = MarkKeep(@, p)]
        ELSE IF mode = "remove" THEN [flagged EXCEPT !.c = MarkDelete(@, p, FALSE)]
        ELSE [flagged EXCEPT !.c = IF InstBroken(c, p) /\ ~brokenFix
                                   THEN AutoInstall(c, p) ELSE c]

NameStep ==
    /\ phase = "names" /\ fix.at < Len(cmd.names)
    /\ LET name == cmd.names[fix.at + 1]
           found == Solutions(cache, name[1])
       IN  \E r \in {TryToInstall(fix, p, name[2], cmd.broken) : p \in found} :
               IF Cardinality(found) = 1 /\ r.ok
               THEN Works([r EXCEPT !.at = @ + 1]) /\ UNCHANGED phase
               ELSE phase' = "failed" /\ UNCHANGED <<fix, cache>>
    /\ UNCHANGED <<saved, cmd, told, error>>

\* The rest of DoInstall, up to the first package of Resolve.
NamesDone ==
    /\ phase = "names" /\ fix.at = Len(cmd.names)
    /\ \E r \in {Orphans(fix)} :
           IF cmd.broken /\ r.c.count["broken"] # 0
           THEN phase' = "confirm" /\ Works(r)
           ELSE /\ phase' = "resolve"
                /\ Works(IF cmd.kind = "keep" THEN StartResolve(r, FALSE)
                         ELSE StartResolve(InstallProtect(r), TRUE))
    /\ UNCHANGED <<saved, cmd, told, error>>

\* Mutant: what was marked before is not protected.
AllUpgrade_Open(c) ==
    LET step(s, p) == IF NoVer \in {Current[p], s.pkg[p].inst} THEN s ELSE MarkInstall(s, p)
    IN  StartKeep(ProcessCache(NewResolver(FoldLeft(step, c, PkgList))))

\* pkgAllUpgrade: the candidates of all installed packages, then keep.
AllUpgrade(c) ==
    LET step(s, p) ==
          LET t == IF Installs(s.c, p) THEN [s EXCEPT !.flags[p] = @ \cup {"Protected"}] ELSE s
          IN  IF NoVer \in {Current[p], t.c.pkg[p].inst} THEN t
              ELSE [t EXCEPT !.c = MarkInstall(@, p)]
    IN  StartKeep(ProcessCache(FoldLeft(step, NewResolver(c), PkgList)))

\* The package that obsoletes p, if its candidate does.
Obsoleting(c, p) ==
    {d \in Deps : /\ Kind[d] = "Obsoletes" /\ Target[d] = p
                  /\ c.pkg[Parent(d)].cand = ParentVer[d]
                  /\ ParentVer[d] \in Downloadable
                  /\ Current[p] \in Direct[d]
                  /\ Pin[Parent(d)] >= Pin[p]}

\* pkgDistUpgrade: all installed packages, or what obsoletes them, with their
\* dependencies; the essential ones; then all again without dependencies.
DistUpgraded(c) ==
    LET next(s, p) == IF Obsoleting(s, p) = {} THEN p ELSE Parent(Min(Obsoleting(s, p)))
        auto(s, p) == IF Current[p] = NoVer THEN s ELSE AutoInstall(s, next(s, p))
        essential(s, p) == IF p \in Essential THEN AutoInstall(s, p) ELSE s
        force(s, p) == IF Current[p] = NoVer THEN s ELSE MarkInstall(s, next(s, p))
        first == FoldLeft(essential, FoldLeft(auto, c, PkgList), PkgList)
    IN  ProcessCache(NewResolver(FoldLeft(force, first, PkgList)))

\* What a command does to the cache before it resolves or reads names.
Began(c) ==
    CASE cmd.kind = "upgrade" -> AllUpgrade(c)
      [] cmd.kind = "dist-upgrade" -> StartResolve(Orphans(DistUpgraded(c)), TRUE)
      [] OTHER -> NewResolver(c)

Begin ==
    /\ phase = "begin"
    /\ Works(Began(cache))
    /\ phase' = CASE cmd.kind = "upgrade" -> "keep" [] cmd.kind = "dist-upgrade" -> "resolve"
                  [] OTHER -> "names"
    /\ saved' = IF saved = << >> THEN cache ELSE saved
    /\ cmd' = [cmd EXCEPT !.broken = cache.count["broken"] # 0]
    /\ UNCHANGED <<told, error>>

-----------------------------------------------------------------------------
(* The loops, and the end of a command.                                    *)

Resolve ==
    /\ phase \in {"fixing", "resolve"} /\ fix.at <= Len(fix.list)
    /\ Works(ResolveStep(fix))
    /\ UNCHANGED <<saved, cmd, phase, told, error>>

\* CheckDeps goes on to minimize what it did; a command offers what it found.
Resolved ==
    /\ phase \in {"fixing", "resolve"} /\ fix.at > Len(fix.list)
    /\ IF cache.count["broken"] # 0 THEN phase' = "failed" /\ UNCHANGED <<cache, error>>
       ELSE IF phase = "resolve" THEN phase' = "confirm" /\ UNCHANGED <<cache, error>>
       ELSE \E least \in {MinimizeUpgrade(cache, 0)} :
               /\ cache' = least
               /\ IF least.count["broken"] # 0
                  THEN phase' = "failed" /\ error' = error \cup {"minimize"}
                  ELSE phase' = "begin" /\ UNCHANGED error
    /\ UNCHANGED <<saved, fix, cmd, told>>

\* ResolveByKeep: the package is kept, or else what it needs is; after that the
\* list is walked from its start again.
Looping_Other(r) == r.last # 0     \* mutant: whichever package was repaired last
Looping(r) == r.at = r.last

KeepStep(r) ==
    LET p == r.list[r.at]
        deps(s) == IF InstBroken(s.c, p) THEN [s EXCEPT !.at = @ + 1]
                   ELSE IF Looping(r) THEN [s EXCEPT !.ok = FALSE]
                   ELSE [s EXCEPT !.at = 1, !.last = r.at]
        self(s) == IF InstBroken(s.c, p) THEN deps(KeepDeps(s, p)) ELSE [s EXCEPT !.at = 1]
    IN  IF r.c.pkg[p].inst = NoVer \/ ~InstBroken(r.c, p) THEN [r EXCEPT !.at = @ + 1]
        ELSE self(IF Marked(r, p, "Protected") THEN r ELSE [r EXCEPT !.c = MarkKeep(@, p)])

ResolveByKeep ==
    /\ phase = "keep"
    /\ IF fix.at <= Len(fix.list)
       THEN \E r \in {KeepStep(fix)} :
               /\ Works(r)
               /\ phase' = IF r.ok THEN "keep" ELSE "failed"
               /\ error' = IF r.ok THEN error ELSE error \cup {"looping"}
       ELSE phase' = "confirm" /\ UNCHANGED <<fix, cache, error>>
    /\ UNCHANGED <<saved, cmd, told>>

\* State::Changed: something that was not asked for.
Unrequested ==
    \E p \in Pkgs \ {cmd.names[k][1] : k \in DOMAIN cmd.names} :
        \/ cache.pkg[p].mode # saved.pkg[p].mode
        \/ cache.pkg[p].status # saved.pkg[p].status

Over(c) ==
    /\ cache' = c /\ saved' = << >> /\ cmd' = NoCommand /\ phase' = "prompt"
    /\ fix' = NewResolver(c)
    /\ UNCHANGED <<told, error>>

Confirm == phase = "confirm" /\ Over(cache)
Decline == phase = "confirm" /\ Unrequested /\ Over(Restored)
GiveUp == phase = "failed" /\ Over(IF saved = << >> THEN cache ELSE Restored)

Working == \/ CheckDeps \/ Begin \/ NameStep \/ NamesDone \/ Resolve \/ Resolved
           \/ ResolveByKeep \/ Confirm \/ Decline \/ GiveUp
\* The end of the session.
Quit == phase = "prompt" /\ told.commands = MaxCommands /\ UNCHANGED shellVars

ShellNext == Request \/ Upgrade \/ Working \/ Quit

\* One thread runs a command: WF_shellVars(Working), written without ENABLED,
\* which TLC cannot afford here.  Working is enabled when the phase is not the
\* prompt: otherwise TLC would find a deadlock.
Runs == []<>(phase = "prompt") \/ []<><<Working>>_shellVars
ShellSpec == ShellInit /\ [][ShellNext]_shellVars /\ Runs

-----------------------------------------------------------------------------
(* Properties.                                                             *)

\* "Protected things are pushed really high up", "Do not change protected
\* packages": what the user names is still so when the command offers its
\* result, whatever the resolver did to make the rest fit.
RequestsKept ==
    phase = "confirm" /\ cache.count["broken"] = 0 =>
        \A p \in Pkgs : Marked(fix, p, "Protected") =>
            CASE cmd.kind = "install" /\ Marked(fix, p, "ToRemove") -> cache.pkg[p].inst = NoVer
              [] cmd.kind = "install" /\ ~Marked(fix, p, "ToRemove") ->
                     cache.pkg[p].inst = cache.pkg[p].cand
              [] cmd.kind = "keep" -> cache.pkg[p].mode = "Keep"
              [] OTHER -> TRUE

\* "Internal Error, AllUpgrade broke stuff", apt-shell calls it: what upgrade
\* offers breaks nothing.
UpgradeSound == phase = "confirm" /\ cmd.kind = "upgrade" => cache.count["broken"] = 0

\* Upgrade is the "soft upgrade routine": in a sound selection, with nothing
\* marked that is on hold, it breaks nothing, installs and removes nothing,
\* leaves alone what was marked for installation, and what is on hold.
UpgradeGentle ==
    /\ phase = "confirm" /\ cmd.kind = "upgrade" /\ saved.count["broken"] = 0
    /\ \A p \in Held : saved.pkg[p].inst = Current[p]
    => /\ cache.count["broken"] = 0
       /\ \A p \in Pkgs : /\ (cache.pkg[p].inst = NoVer) = (saved.pkg[p].inst = NoVer)
                          /\ saved.pkg[p].mode = "Install"
                                => cache.pkg[p].inst = saved.pkg[p].inst
       /\ \A p \in Held : cache.pkg[p].inst = Current[p]

\* Packages that can be installed with all they need: their or-groups, and those
\* of every candidate that might be taken for one, have a candidate, which stands
\* for any version of its package, and exclude nothing.
Installable == UNION {X \in SUBSET {p \in Pkgs : FirstCandidate[p] # NoVer} :
    \A p \in X : \A g \in DOMAIN Depends[FirstCandidate[p]] :
        LET group == Depends[FirstCandidate[p]][g]
            takes == {PkgOf[v] : v \in UNION {AllTargets(group[k]) : k \in DOMAIN group}}
        IN  IsCritical(group[1]) =>
              /\ takes # {} /\ takes \subseteq X
              /\ \A k \in DOMAIN group :
                    /\ ~Negative(group[k])
                    /\ \A v \in AllTargets(group[k]) :
                           FirstCandidate[PkgOf[v]] \in AllTargets(group[k])}

\* MarkInstall with AutoInst: naming such a package leaves it whole, through
\* cycles and or-groups, whatever was removed or kept before.
NamesComplete ==
    [][/\ phase = "names" /\ phase' = "names" /\ fix'.at > fix.at /\ ~cmd.broken
       /\ cmd.names[fix'.at][2] = "install"
       /\ cmd.names[fix'.at][1] \in Installable
       => ~InstBroken(cache', cmd.names[fix'.at][1])]_shellVars

\* "Internal Error, pkgProblemResolver::ResolveByKeep is looping" and "Internal
\* Error in pkgMinimizeUpgrade" are never reported.
NoInternalError == error = {}

\* Every command comes back to the prompt: the resolver does not loop.
CommandEnds == phase # "prompt" ~> phase = "prompt"
=============================================================================
