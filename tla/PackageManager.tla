--------------------------- MODULE PackageManager ---------------------------
(***************************************************************************)
(* What commit does with a selection: InstallPackages (cmdline/            *)
(* apt-shell.cc), pkgPackageManager (apt-pkg/packagemanager.cc) and        *)
(* pkgRPMLibPM (apt-pkg/rpm/rpmpm.cc).  Archives are fetched, as many as   *)
(* the disc in the drive has; what can be done without the others is       *)
(* ordered and handed to rpm as one transaction; and so on for the next    *)
(* disc, until all is done.  With Acquire::CDROM::Copy-All the archives    *)
(* of all discs are collected before the only transaction.                 *)
(*                                                                         *)
(* Abstractions.  A run of pkgAcquire is one step: module Acquire has its  *)
(* details.  What rpm makes of a transaction is done in whole or not at    *)
(* all.  Flags that only the code for dpkg needs are left out, as is the   *)
(* order within a transaction, which rpm makes itself.  The session ends   *)
(* with the commit.                                                        *)
(***************************************************************************)
EXTENDS AptShell, OrderList

CONSTANTS Medium,       \* where the archive of a version is: a disc, or Net
          Net, Discs,
          NoDisc,       \* an empty drive
          Settings,     \* of Copy-All and APT::Get::Fix-Missing
          MaxFailures   \* archives that cannot be fetched (a bound)

VARIABLES pm   \* the package manager, the fetcher, the drive, and what rpm did

installVars == <<cache, saved, fix, cmd, phase, told, error, pm>>

Idle == [step |-> "off", list |-> << >>, flags |-> << >>, files |-> {}, archives |-> {},
         drive |-> NoDisc, asked |-> FALSE, idle |-> {}, gone |-> {}, lost |-> 0,
         set |-> [copyAll |-> TRUE, fixMissing |-> FALSE], bad |-> FALSE,
         dropped |-> 0, rounds |-> << >>, result |-> "none"]

InstallInit == ShellInit /\ pm = Idle

-----------------------------------------------------------------------------
(* pkgPackageManager.                                                      *)

\* CreateOrderList: what is going to change, and which packages are flagged
\* Immediate: the essential ones and what they depend on.
Changes(c) ==
    {p \in Pkgs : /\ ~Virtual(p)
                  /\ ~(/\ c.pkg[p].mode = "Keep" \/ c.pkg[p].inst = Current[p]
                       /\ Needs[p] = "Nothing" /\ ~c.pkg[p].reinst
                       /\ Purged(p) \/ c.pkg[p].mode # "Delete" \/ ~c.pkg[p].purge)}

FirstFlags(c) ==
    LET needs == {d \in Deps : /\ Requires(d) /\ Parent(d) \in Essential
                               /\ ParentVer[d] \in {c.pkg[Parent(d)].inst, Current[Parent(d)]}}
        immediate == (Essential \cap {p \in Pkgs : ~Virtual(p)}) \cup {Target[d] : d \in needs}
    IN  [p \in Pkgs |-> IF p \in immediate THEN {"Immediate"} ELSE {}]

ByPlace(S) == Ordered(S, LAMBDA p, q : Place[p] < Place[q])

\* IsMissing, when it is known which files there are.
Missing(c, files) ==
    {p \in Pkgs \ files : /\ ~Deletes(c, p)
                          /\ ~(Needs[p] = "Configure" /\ c.pkg[p].mode = "Keep")}

Order(m, missing) ==
    [c |-> cache, list |-> m.list, flags |-> m.flags, missing |-> missing,
     out |-> << >>, later |-> << >>, depth |-> 0,
     primary |-> "none", secondary |-> "none", rev |-> "none", remove |-> "none"]

Created(c, m) ==
    IF m.flags # << >> THEN m
    ELSE [m EXCEPT !.list = ByPlace(Changes(c)), !.flags = Evaluated(FirstFlags(c))]

\* What GetArchives queues, in the order of the list.
Queue(m) ==
    SelectSeq(m.list, LAMBDA p :
        /\ ~Deletes(cache, p) /\ ~(Needs[p] = "Configure" /\ cache.pkg[p].mode = "Keep")
        /\ m.flags[p] \cap {"UnPacked", "Configured"} = {})

\* GetArchives: the list is ordered without a look at files, and the names of
\* the files are forgotten.  What is in the archive directory is there at once.
Queued(m) ==
    [m EXCEPT !.step = "fetch", !.idle = {}, !.gone = {},
        !.files = (@ \ ToSet(m.list))
                  \cup {p \in ToSet(Queue(m)) : cache.pkg[p].inst \in m.archives}]
GetArchives(m) ==
    LET listed(o) == [m EXCEPT !.list = o.list, !.flags = o.flags]
    IN  Queued(listed(OrderUnpack(Order(Created(cache, m), {}))))

\* FixMissing: what is missing is kept, and what that breaks.
RECURSIVE KeepAll(_)
KeepAll(r) == IF r.at > Len(r.list) \/ ~r.ok THEN r ELSE KeepAll(KeepStep(r))
Fixed(m) ==
    KeepAll(StartKeep(NewResolver(
        FoldLeft(LAMBDA c, p : IF p \in Missing(cache, m.files) THEN MarkKeep(c, p) ELSE c,
                 cache, PkgList))))

\* SmartRemove: what a package that is installed obsoletes is left to rpm.
Obsoleted(p) ==
    \E d \in Deps : /\ Kind[d] = "Obsoletes" /\ Target[d] = p
                    /\ Installs(cache, Parent(d))
                    /\ cache.pkg[Parent(d)].inst = ParentVer[d]
                    /\ Current[p] \in Direct[d]

\* Mutant: only removals are flagged.
Flagged_Half(o, does) ==
    [p \in Pkgs |-> IF p \notin does \/ ~Deletes(cache, p) THEN o.flags[p]
                    ELSE o.flags[p] \cup {"Configured"}]

\* What was handed over is not looked at again.  ConfigureAll, which comes after
\* everything, is left out: rpm configures as it installs.
Flagged(o, does) ==
    [p \in Pkgs |-> IF p \notin does THEN o.flags[p]
                    ELSE o.flags[p] \cup {IF Deletes(cache, p) THEN "Configured" ELSE "UnPacked"}]

\* What of an ordering is handed to rpm: all up to the first missing file.
HandOver(o) ==
    LET now == SelectSeq(o.list, LAMBDA p : IsNow(o, p))
        stops == {k \in DOMAIN now : now[k] \in o.missing}
        does == ToSet(IF stops = {} THEN now ELSE SubSeq(now, 1, Min(stops) - 1))
        kept == \E p \in does : Stays(cache, p) /\ ~cache.pkg[p].reinst
    IN  [list |-> o.list,
         flags |-> Evaluated(Flagged(o, does)),
         install |-> {cache.pkg[p].inst : p \in {q \in does : ~Deletes(cache, q)}},
         remove |-> {p \in does : Deletes(cache, p) /\ ~Obsoleted(p)},
         result |-> IF kept THEN "failed" ELSE IF stops = {} THEN "completed" ELSE "incomplete"]

\* OrderInstall: in the new order, which knows what is missing.
OrderInstall(m) ==
    HandOver(OrderUnpack(PutOff(Order(Created(cache, m), Missing(cache, m.files)))))

-----------------------------------------------------------------------------
(* InstallPackages.                                                        *)

Commit ==
    /\ phase = "prompt" /\ pm.step = "off"
    /\ cache.count["broken"] = 0
    /\ cache.count["del"] + cache.count["inst"] + cache.count["bad"] # 0
    /\ \E set \in Settings, drive \in Discs \cup {NoDisc} :
         \E m \in {GetArchives([Idle EXCEPT !.set = set, !.drive = drive])} : pm' = m
    /\ UNCHANGED shellVars

\* Mutant: the cdrom method outlives Fetcher.Shutdown and stays with its disc.
Served_Stuck(m, queue) ==
    LET discs == SelectSeq(queue, LAMBDA p : Medium[cache.pkg[p].inst] # Net)
    IN  IF discs = << >> THEN NoDisc
        ELSE IF m.drive # NoDisc THEN m.drive ELSE Medium[cache.pkg[discs[1]].inst]

\* The disc that a run of the fetcher serves: once, the one in the drive, if
\* something on it is wanted; or else that of the first package in the queue,
\* which the user is asked to insert.
Served(m, queue) ==
    LET discs == SelectSeq(queue, LAMBDA p : Medium[cache.pkg[p].inst] # Net)
    IN  IF discs = << >> THEN NoDisc
        ELSE IF /\ ~m.asked
                /\ \E k \in DOMAIN discs : Medium[cache.pkg[discs[k]].inst] = m.drive
        THEN m.drive
        ELSE Medium[cache.pkg[discs[1]].inst]

\* Fetcher.Run.  Archives on other discs are idle; some are gone, here or there.
Fetch ==
    /\ pm.step = "fetch"
    /\ LET queue == SelectSeq(Queue(pm), LAMBDA p : p \notin pm.files)
           at(p) == Medium[cache.pkg[p].inst]
           disc == Served(pm, queue)
           here == {p \in ToSet(queue) : at(p) \in {Net, disc}}
       IN  \E gone \in SUBSET here :
              /\ pm.lost + Cardinality(gone) <= MaxFailures
              /\ pm' = [pm EXCEPT !.step = "fetched",
                     !.idle = ToSet(queue) \ here, !.gone = gone, !.lost = @ + Cardinality(gone),
                     !.files = @ \cup (here \ gone),
                     !.archives = @ \cup {cache.pkg[p].inst : p \in
                         {q \in here \ gone : at(q) = Net \/ pm.set.copyAll}},
                     !.asked = @ \/ (disc # NoDisc /\ pm.drive # NoDisc),
                     !.drive = IF disc = NoDisc THEN @ ELSE disc]
    /\ UNCHANGED shellVars

Ends(m, result) == pm' = [m EXCEPT !.step = "over", !.result = result]
Refuses == ~pm.set.fixMissing \/ pm.idle # {}

Abort ==
    /\ pm.step = "fetched" /\ pm.gone # {} /\ Refuses
    /\ Ends(pm, "error") /\ UNCHANGED shellVars

FixMissing ==
    /\ pm.step = "fetched" /\ pm.gone # {} /\ ~Refuses
    /\ \E r \in {Fixed(pm)} :
          /\ cache' = r.c
          /\ IF r.ok /\ r.c.count["broken"] = 0
             THEN pm' = [pm EXCEPT !.step = "install", !.list = << >>, !.flags = << >>,
                                   !.dropped = @ + 1]
             ELSE Ends(pm, "error")
    /\ UNCHANGED <<saved, fix, cmd, phase, told, error>>

Collects == pm.idle # {} /\ pm.set.copyAll

Swap ==
    /\ pm.step = "fetched" /\ pm.gone = {} /\ Collects
    /\ \E m \in {GetArchives(pm)} : pm' = m
    /\ UNCHANGED shellVars

\* pkgRPMPM::Go: nothing is handed to rpm when there is nothing to do, or when
\* the ordering failed.
Idles(i) == i.install \cup i.remove = {} \/ i.result = "failed"

\* Mutant: the results of rpm are not looked at, as in pkgRPMExtPM::Process.
Fails_Ext(i, ok) == i.result = "failed"

\* pkgRPMLibPM::Process: an error of the transaction, or of the ordering.
Fails(i, ok) == i.result = "failed" \/ ~ok

\* DoInstall, and what comes of it: a failure is final unless there are more discs.
DoInstall ==
    /\ \/ pm.step = "install"
       \/ pm.step = "fetched" /\ pm.gone = {} /\ ~Collects
    /\ \E i \in {OrderInstall(pm)} : \E ok \in IF Idles(i) THEN {TRUE} ELSE BOOLEAN :
          LET round == [install |-> i.install, remove |-> i.remove, ok |-> ok,
                    list |-> pm.dropped]
              m == [pm EXCEPT !.list = i.list, !.flags = i.flags, !.bad = @ \/ Fails(i, ok),
                       !.rounds = IF Idles(i) THEN @ ELSE Append(@, round)]
          IN  /\ IF m.bad /\ pm.idle = {} THEN Ends(m, "error")
                 ELSE IF i.result = "completed" THEN Ends(m, IF m.bad THEN "error" ELSE "success")
                 ELSE \E n \in {GetArchives(m)} : pm' = n
              /\ error' = IF i.result = "failed" THEN error \cup {"kept"} ELSE error
    /\ UNCHANGED <<cache, saved, fix, cmd, phase, told>>

Leave == pm.step = "over" /\ UNCHANGED installVars
Installing == Fetch \/ Abort \/ FixMissing \/ Swap \/ DoInstall

InstallNext ==
    \/ pm.step = "off" /\ ShellNext /\ UNCHANGED pm
    \/ Commit \/ Installing \/ Leave

InstallRuns == []<>(pm.step \in {"off", "over"}) \/ []<><<Installing>>_installVars
InstallSpec == InstallInit /\ [][InstallNext]_installVars /\ Runs /\ InstallRuns
-----------------------------------------------------------------------------
(* Properties.                                                             *)

\* What is installed after some transactions.
Applied(now, round) ==
    LET replaced == {Target[d] : d \in {e \in Deps : /\ Kind[e] = "Obsoletes"
                                                     /\ ParentVer[e] \in round.install
                                                     /\ now[Target[e]] \in Direct[e]}}
        new(p) == {v \in round.install : PkgOf[v] = p}
    IN  IF ~round.ok THEN now
        ELSE [p \in Pkgs |-> IF new(p) # {} THEN CHOOSE v \in new(p) : TRUE
                             ELSE IF p \in round.remove \cup replaced THEN NoVer ELSE now[p]]
System(rounds) == FoldLeft(Applied, Current, rounds)

\* "--fix-missing and media swapping is not currently supported": a commit that
\* reports success has made every change of the selection that was confirmed, or
\* of what FixMissing left of it, however many discs it took.
SuccessIsInstalled ==
    pm.result = "success" => System(pm.rounds) = [p \in Pkgs |-> cache.pkg[p].inst]

\* The same of a commit whose list was not thrown away after a transaction: nothing
\* was skipped after a missing file, no removal was left to a package that never
\* came, and no failure of rpm was forgotten in a later round.
ListIsInstalled ==
    (\A k \in DOMAIN pm.rounds : pm.rounds[k].list = pm.dropped) => SuccessIsInstalled

\* No version is handed to rpm twice, whatever the order of the discs, the failures
\* of transactions, and the lists that are made anew; and no removal is, but for a
\* new list: FixMissing throws the flags of what is done away with the old one.
HandedOnce ==
    \A j, k \in DOMAIN pm.rounds : j < k =>
        /\ pm.rounds[j].install \cap pm.rounds[k].install = {}
        /\ pm.rounds[j].list = pm.rounds[k].list
              => pm.rounds[j].remove \cap pm.rounds[k].remove = {}

\* A commit comes to an end: every disc is asked for, and every fetch, failed
\* transaction or list made anew leaves less to do.
InstallEnds == pm.step = "fetch" ~> pm.step = "over"
=============================================================================
