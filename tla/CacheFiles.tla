----------------------------- MODULE CacheFiles -----------------------------
(***************************************************************************)
(* pkgcache.bin and srcpkgcache.bin (apt-pkg/pkgcachegen.cc), the rpm      *)
(* database with its so-called lock (apt-pkg/rpm/rpmsystem.cc and          *)
(* rpmhandler.cc), and the sessions of apt-get and apt-cache that share    *)
(* them: each opens the caches, building them when they are not valid, and *)
(* an installation gives the lock back before rpm changes the database.    *)
(* Processes are killed and the power fails at any point.                  *)
(*                                                                         *)
(* A cache is valid when it has the size and time of every index file.     *)
(* A write handler of the database puts back, when it is closed, the time  *)
(* it found when it was opened.  It is closed when the lock is given back  *)
(* as often as it was counted, or by ~rpmSystem when the program ends; and *)
(* a lock that is taken with an error pending is not counted.              *)
(*                                                                         *)
(* Abstractions.  There is one package list and one rpm database; their    *)
(* contents are generations, and which of them contain file dependencies   *)
(* and which share their size are constants.  The options that             *)
(* OptionsHash covers do not change, and the rpm is 4.1 or later, where    *)
(* opening the database does not lock it.  Two changes of an index file    *)
(* never fall in the same second.  A rename or unlink is durable at once,  *)
(* and fsync does not fail.  A program that cannot open the database at    *)
(* its start ends at once, and is left out.                                *)
(* At most one process that may write to the cache directory runs: nothing *)
(* in the code keeps two apart (apt-get install holds no lock before it    *)
(* downloads), and this module does not say what they do to each other.    *)
(***************************************************************************)
EXTENDS Integers, FiniteSets

CONSTANTS Procs,      \* processes
          Root,       \* those that may write to the cache directory
          Inodes,     \* numbers of the cache files on disk
          MaxGen,     \* [Sources -> Nat]: bound on the generations
          SizeOf,     \* [Sources -> [generation -> size]]
          FileDeps,   \* [Sources -> set of generations with file dependencies]
          MaxCrashes, \* bound on kills and power failures
          MayForeign, \* may another program run rpm,
          MayRace     \* also while apt has a write handler open

Sources == {"list", "db"}
Caches == {"pkg", "src"}
\* What a cache must cover.
Covers(n) == IF n = "pkg" THEN Sources ELSE {"list"}

ASSUME ConstantsOK ==
    /\ Root \subseteq Procs /\ \A p, q \in Root : p = q
    /\ IsFiniteSet(Inodes) /\ Inodes \subseteq Nat \ {0}
    /\ MaxGen \in [Sources -> Nat \ {0}]
    /\ \A s \in Sources : /\ SizeOf[s] \in [1..MaxGen[s] -> Nat]
                          /\ FileDeps[s] \subseteq 1..MaxGen[s]
    /\ MaxCrashes \in Nat /\ MayForeign \in BOOLEAN /\ MayRace \in BOOLEAN

VARIABLES index,   \* the list and the database on disk
          name,    \* directory entries of the two caches: an inode or 0
          inode,   \* the files
          proc,    \* the processes
          crashes,
          risks    \* what has happened by which the time of the database may lie

vars == <<index, name, inode, proc, crashes, risks>>

\* "race": another program ran rpm while a write handler was open.  "uncounted": a
\* transaction of apt ran after a lock that was not counted, and so not given back.
Risks == {"race", "uncounted"}

(***************************************************************************)
(* A map: the PackageFile records with their stamps, the packages merged   *)
(* from each source, the flag HasFileDeps of the header, and the file      *)
(* provides: <<s, t>> when the files of s were matched with the            *)
(* dependencies of t.                                                      *)
(***************************************************************************)
Stamp == [mtime : Nat, size : Nat]
NoStamp == [mtime |-> 0, size |-> 0]
Image == [file : [Sources -> Stamp], pkgs : [Sources -> Nat],
          deps : BOOLEAN, prov : SUBSET (Sources \X Sources)]
Blank == [file |-> [s \in Sources |-> NoStamp], pkgs |-> [s \in Sources |-> 0],
          deps |-> FALSE, prov |-> {}]

\* "none": no header.  What msync or fsync has written is in sHead and sImg.
Head == {"none", "dirty", "clean"}
File == [head : Head, img : Image, sHead : Head, sImg : Image]
Fresh == [head |-> "none", img |-> Blank, sHead |-> "none", sImg |-> Blank]

Handler == [write : BOOLEAN, mtime : Nat]    \* RPMDBHandler
NoHandler == [write |-> FALSE, mtime |-> 0]  \* mtime 0: there is none

Places == {"idle", "fetch", "check", "unlink", "create", "srccheck", "srcread", "generator",
           "select", "merge", "provides", "srcunlink", "srccreate", "srcwrite", "srchead",
           "srcsync", "seal", "sealed", "use", "run", "close", "exit"}
Programs == {"none", "cache", "update", "install"}

Process == [pc : Places,
            prog : Programs,
            force : BOOLEAN,       \* APT::Get::ReInstall, until it is not looked at again
            handler : Handler,     \* rpmSystem::RpmDB
            count : {0, 1},        \* rpmSystem::LockCount
            pending : BOOLEAN,     \* an error is pending that the program goes on with
            fd : Inodes \cup {0},  \* the file that is mapped, 0: memory
            img : Image,           \* what the map holds for this process
            at : Sources,          \* the source being merged
            opened : Nat,          \* the generation of it that was opened
            found : BOOLEAN]       \* pkgCacheGenerator::FoundFileDeps
Idle == [pc |-> "idle", prog |-> "none", force |-> FALSE, handler |-> NoHandler, count |-> 0,
         pending |-> FALSE, fd |-> 0, img |-> Blank, at |-> "list", opened |-> 0, found |-> FALSE]

TypeOK ==
    /\ index \in [Sources -> [gen : Nat, mtime : Nat]]
    /\ \A s \in Sources : index[s].gen \in 1..MaxGen[s]
    /\ name \in [Caches -> Inodes \cup {0}]
    /\ inode \in [Inodes -> File]
    /\ proc \in [Procs -> Process]
    /\ crashes \in 0..MaxCrashes /\ risks \subseteq Risks

Init ==
    /\ index = [s \in Sources |-> [gen |-> 1, mtime |-> 1]]
    /\ name = [n \in Caches |-> 0]
    /\ inode = [i \in Inodes |-> Fresh]
    /\ proc = [p \in Procs |-> Idle]
    /\ crashes = 0 /\ risks = {}

-----------------------------------------------------------------------------
(* Files.                                                                  *)

SizeNow(s) == SizeOf[s][index[s].gen]

\* An inode is forgotten when neither a name nor a process refers to it.
Kept(files, names, ps) ==
    [i \in Inodes |-> IF (\E n \in Caches : names[n] = i) \/ (\E p \in Procs : ps[p].fd = i)
                      THEN files[i] ELSE Fresh]

Unused == {i \in Inodes : (\A n \in Caches : name[n] # i) /\ (\A p \in Procs : proc[p].fd # i)}

\* FileFd::WriteEmpty: O_CREAT and O_TRUNC, of whatever has the name by now, or
\* else of a new file (the first that is free).
Opened(n) == IF name[n] # 0 THEN {name[n]} ELSE {i \in Unused : \A j \in Unused : i <= j}

\* Mutant: FindInCache compares the sizes only.
Valid_Size(n, head, img) ==
    /\ head = "clean"
    /\ \A s \in Covers(n) : img.file[s].size = SizeNow(s)
    /\ \A s \in Sources \ Covers(n) : img.file[s] = NoStamp

\* A map with header head is accepted: every index file is in it with its size
\* and time, and it has no other.
Valid(n, head, img) ==
    /\ head = "clean"
    /\ \A s \in Covers(n) : img.file[s] = [mtime |-> index[s].mtime, size |-> SizeNow(s)]
    /\ \A s \in Sources \ Covers(n) : img.file[s] = NoStamp

CheckValidity(p, n) ==
    /\ name[n] # 0 /\ ~proc[p].force
    /\ Valid(n, inode[name[n]].head, inode[name[n]].img)

Goes(p, q) == proc' = [proc EXCEPT ![p] = q]

\* Process p continues as q after it has changed its map and the header of it.
Maps(p, q, head) ==
    /\ Goes(p, q)
    /\ inode' = IF q.fd = 0 THEN inode
                ELSE [inode EXCEPT ![q.fd].img = q.img, ![q.fd].head = head]

\* ~RPMDBHandler: the database gets back the time it had.
Restored(h) == IF h.write THEN [index EXCEPT !["db"].mtime = h.mtime] ELSE index

\* fsync, or msync of the whole map.
Synced(f) == [f EXCEPT !.sHead = f.head, !.sImg = f.img]

\* The error stays pending, and ~pkgCacheGenerator leaves the cache dirty.
Fails(p) == Goes(p, [proc[p] EXCEPT !.pc = "close"]) /\ UNCHANGED inode

-----------------------------------------------------------------------------
(* A session.                                                              *)

\* rpmSystem::LockRead counts always.  RPMDBHandler takes the time the database
\* has when it is opened.
LockedRead(q, mtime) ==
    [q EXCEPT !.handler = [write |-> FALSE, mtime |-> mtime], !.count = @ + 1]

\* rpmSystem::Lock has a write handler in any case, and counts the lock unless an
\* error is pending.
Locked(q, mtime) ==
    [q EXCEPT !.handler = IF @.write THEN @ ELSE [write |-> TRUE, mtime |-> mtime],
              !.count = IF q.pending THEN @ ELSE @ + 1]

\* Mutant: the count of the lock is forgotten.
UnLocked_Counted(q, noErrors) ==
    IF q.count = 0 THEN [q EXCEPT !.pending = @ \/ ~noErrors]
    ELSE [q EXCEPT !.handler = NoHandler]

\* Mutant: the handler stays open.
UnLocked_Open(q, noErrors) ==
    IF q.count = 0 THEN [q EXCEPT !.pending = @ \/ ~noErrors]
    ELSE [q EXCEPT !.count = @ - 1]

\* rpmSystem::UnLock: of a lock that is not counted it is an error, and the handler
\* stays.
UnLocked(q, noErrors) ==
    IF q.count = 0 THEN [q EXCEPT !.pending = @ \/ ~noErrors]
    ELSE [q EXCEPT !.count = @ - 1, !.handler = IF q.count = 1 THEN NoHandler ELSE @]

\* What the index becomes when handler h gives way to another.
Released(h, next) == IF next = NoHandler THEN Restored(h) ELSE index

\* LockRead of apt-cache, and Lock of apt-get.
Opens(p, q) ==
    Goes(p, [IF q.prog = "cache" THEN LockedRead(q, index["db"].mtime)
                                 ELSE Locked(q, index["db"].mtime) EXCEPT !.pc = "check"])

Start(p, prog, force) ==
    /\ proc[p].pc = "idle"
    /\ prog = "cache" \/ p \in Root
    /\ force => prog = "install"
    /\ \E q \in {[Idle EXCEPT !.prog = prog, !.force = force]} :
          IF prog = "update" THEN Goes(p, [q EXCEPT !.pc = "fetch"]) ELSE Opens(p, q)
    /\ UNCHANGED <<index, name, inode, crashes, risks>>

\* DoUpdate: the new list is renamed into place, or there is none.
Fetch(p) ==
    /\ proc[p].pc = "fetch"
    /\ \/ UNCHANGED index
       \/ /\ index["list"].gen < MaxGen["list"]
          /\ index' = [index EXCEPT !["list"] = [gen |-> @.gen + 1, mtime |-> @.gen + 1]]
    /\ Opens(p, proc[p])
    /\ UNCHANGED <<name, inode, crashes, risks>>

(***************************************************************************)
(* pkgMakeStatusCache.                                                     *)
(***************************************************************************)
Check(p) ==
    /\ proc[p].pc = "check"
    /\ \/ /\ CheckValidity(p, "pkg")
          /\ Goes(p, [proc[p] EXCEPT !.pc = "use", !.fd = name["pkg"],
                                     !.img = inode[name["pkg"]].img])
       \/ /\ ~CheckValidity(p, "pkg")
          /\ Goes(p, [proc[p] EXCEPT !.pc = IF p \in Root THEN "unlink" ELSE "srccheck"])
    /\ UNCHANGED <<index, name, inode, crashes, risks>>

\* Mutant: the file is truncated in place.
Unlink_Not(p, pc, n, next) ==
    /\ proc[p].pc = pc
    /\ Goes(p, [proc[p] EXCEPT !.pc = next])
    /\ UNCHANGED <<index, name, inode, crashes, risks>>

Unlink(p, pc, n, next) ==
    /\ proc[p].pc = pc
    /\ name' = [name EXCEPT ![n] = 0]
    /\ Goes(p, [proc[p] EXCEPT !.pc = next])
    /\ inode' = Kept(inode, name', proc)
    /\ UNCHANGED <<index, crashes, risks>>
UnlinkPkg(p) == Unlink(p, "unlink", "pkg", "create")
UnlinkSrc(p) == Unlink(p, "srcunlink", "src", "srccreate")

Create(p) ==
    /\ proc[p].pc = "create"
    /\ \E i \in Opened("pkg") :
          /\ name' = [name EXCEPT !["pkg"] = i]
          /\ Maps(p, [proc[p] EXCEPT !.pc = "srccheck", !.fd = i], "none")
    /\ UNCHANGED <<index, crashes, risks>>

SrcCheck(p) ==
    /\ proc[p].pc = "srccheck"
    /\ \/ /\ CheckValidity(p, "src")
          /\ Goes(p, [proc[p] EXCEPT !.pc = "srcread", !.at = "db", !.force = FALSE])
       \/ /\ ~CheckValidity(p, "src")
          /\ Goes(p, [proc[p] EXCEPT !.pc = "generator", !.at = "list", !.force = FALSE])
    /\ UNCHANGED <<index, name, inode, crashes, risks>>

\* The source cache is opened again, by name, and read into the map.  It may be
\* another file than the one that was checked: an empty one leaves the map empty.
SrcRead(p) ==
    /\ proc[p].pc = "srcread"
    /\ IF name["src"] = 0 \/ inode[name["src"]].head = "dirty"
       THEN Fails(p)
       ELSE \E f \in {inode[name["src"]]} :
               Maps(p, [proc[p] EXCEPT !.pc = "generator", !.img = f.img], f.head)
    /\ UNCHANGED <<index, name, crashes, risks>>

\* The constructor of the generator marks the cache dirty and syncs the header.
Generator(p) ==
    /\ proc[p].pc = "generator"
    /\ Goes(p, [proc[p] EXCEPT !.pc = "select", !.found = FALSE])
    /\ inode' = IF proc[p].fd = 0 THEN inode
                ELSE [inode EXCEPT ![proc[p].fd].head = "dirty", ![proc[p].fd].sHead = "dirty"]
    /\ UNCHANGED <<index, name, crashes, risks>>

\* pkgIndexFile::Merge up to MergeList: the file is opened, and its size and
\* time go to the cache; those of the database are of when it was opened.
Select(p) ==
    /\ proc[p].pc = "select"
    /\ \E s \in {proc[p].at} :
          Maps(p, [proc[p] EXCEPT
                     !.pc = "merge", !.opened = index[s].gen,
                     !.img.file[s] = [size  |-> SizeNow(s),
                                      mtime |-> IF s = "db" THEN proc[p].handler.mtime
                                                ELSE index[s].mtime]], "dirty")
    /\ UNCHANGED <<index, name, crashes, risks>>

\* MergeList: the database is read as it is now, a list as it was opened.
Merge(p) ==
    /\ proc[p].pc = "merge"
    /\ \/ \E g \in {IF proc[p].at = "db" THEN index["db"].gen ELSE proc[p].opened} :
             Maps(p, [proc[p] EXCEPT !.pc = "provides", !.img.pkgs[proc[p].at] = g, !.opened = 0,
                                     !.found = @ \/ g \in FileDeps[proc[p].at]], "dirty")
       \/ Fails(p)
    /\ UNCHANGED <<index, name, crashes, risks>>

\* The files of the sources in from are matched with the dependencies so far.
Collected(img, from) ==
    [img EXCEPT !.prov = @ \cup {st \in from \X Sources : img.pkgs[st[1]] # 0 /\ img.pkgs[st[2]] # 0}]

CollectFileProvides(q) ==
    IF q.found THEN Collected([q.img EXCEPT !.deps = TRUE],
                              IF q.at = "list" THEN {"list"} ELSE Sources)
    ELSE IF q.at = "db" /\ q.img.deps THEN Collected(q.img, {"db"})
    ELSE q.img

\* File dependencies found in the lists are forgotten before the database is
\* read; what the header says stays.
Provides(p) ==
    /\ proc[p].pc = "provides"
    /\ \E q \in {[proc[p] EXCEPT !.img = CollectFileProvides(proc[p])]} :
          Maps(p, IF q.at = "db" THEN [q EXCEPT !.pc = "seal", !.at = "list", !.found = FALSE]
                  ELSE IF p \in Root THEN [q EXCEPT !.pc = "srcunlink", !.found = FALSE]
                  ELSE [q EXCEPT !.pc = "select", !.at = "db", !.found = FALSE], "dirty")
    /\ UNCHANGED <<index, name, crashes, risks>>

SrcCreate(p) ==
    /\ proc[p].pc = "srccreate"
    /\ \E i \in Opened("src") :
          /\ name' = [name EXCEPT !["src"] = i]
          /\ inode' = [inode EXCEPT ![i].head = "none", ![i].img = Blank]
    /\ Goes(p, [proc[p] EXCEPT !.pc = "srcwrite"])
    /\ UNCHANGED <<index, crashes, risks>>

\* The main data, with a dirty header; the disk may be full.
SrcWrite(p) ==
    /\ proc[p].pc = "srcwrite"
    /\ \/ /\ inode' = [inode EXCEPT ![name["src"]].head = "dirty", ![name["src"]].img = proc[p].img]
          /\ Goes(p, [proc[p] EXCEPT !.pc = "srchead"])
       \/ Fails(p)
    /\ UNCHANGED <<index, name, crashes, risks>>

\* Mutant: the data is not synced before the clean header is written.
SrcHead_NoSync(p) ==
    /\ proc[p].pc = "srchead"
    /\ \/ /\ inode' = [inode EXCEPT ![name["src"]].head = "clean"]
          /\ Goes(p, [proc[p] EXCEPT !.pc = "srcsync"])
       \/ Fails(p)
    /\ UNCHANGED <<index, name, crashes, risks>>

\* fsync, and then the clean header is written.
SrcHead(p) ==
    /\ proc[p].pc = "srchead"
    /\ \/ /\ inode' = [inode EXCEPT ![name["src"]] =
                          [Synced(@) EXCEPT !.head = "clean"]]
          /\ Goes(p, [proc[p] EXCEPT !.pc = "srcsync"])
       \/ Fails(p)
    /\ UNCHANGED <<index, name, crashes, risks>>

SrcSync(p) ==
    /\ proc[p].pc = "srcsync"
    /\ inode' = [inode EXCEPT ![name["src"]] = Synced(@)]
    /\ Goes(p, [proc[p] EXCEPT !.pc = "select", !.at = "db"])
    /\ UNCHANGED <<index, name, crashes, risks>>

\* ~pkgCacheGenerator: the data is synced, the header made clean, and synced.
Seal(p) ==
    /\ proc[p].pc = "seal"
    /\ Goes(p, [proc[p] EXCEPT !.pc = IF proc[p].fd = 0 THEN "use" ELSE "sealed"])
    /\ inode' = IF proc[p].fd = 0 THEN inode
                ELSE [inode EXCEPT ![proc[p].fd] = [Synced(@) EXCEPT !.head = "clean"]]
    /\ UNCHANGED <<index, name, crashes, risks>>

Sealed(p) ==
    /\ proc[p].pc = "sealed"
    /\ inode' = [inode EXCEPT ![proc[p].fd].sHead = inode[proc[p].fd].head]
    /\ Goes(p, [proc[p] EXCEPT !.pc = "use"])
    /\ UNCHANGED <<index, name, crashes, risks>>

(***************************************************************************)
(* The rest of a session.                                                  *)
(***************************************************************************)
\* InstallPackages gives the lock back before DoInstall, and ignores whether it was
\* there to give back.
UnLock(p) ==
    /\ proc[p].pc = "use" /\ proc[p].prog = "install"
    /\ \E r \in {[UnLocked(proc[p], FALSE) EXCEPT !.pc = "run"]} :
          /\ index' = Released(proc[p].handler, r.handler)
          /\ Goes(p, r)
    /\ UNCHANGED <<name, inode, crashes, risks>>

\* DoInstall: rpm commits a transaction or does nothing.  When media are left, the
\* lock is taken again, also with an error pending from this transaction or from the
\* lock before, and whether it was counted is not looked at; PushState then puts the
\* error aside.  The next transaction may run under the write handler.
DoInstall(p) ==
    /\ proc[p].pc = "run"
    /\ \/ UNCHANGED index
       \/ /\ index["db"].gen < MaxGen["db"]
          /\ index' = [index EXCEPT !["db"] = [gen |-> @.gen + 1, mtime |-> @.gen + 1]]
    /\ risks' = IF proc[p].pending /\ index' # index THEN risks \cup {"uncounted"} ELSE risks
    /\ \/ Goes(p, [proc[p] EXCEPT !.pc = "close"])
       \/ \E bad \in BOOLEAN :
            Goes(p, [Locked([proc[p] EXCEPT !.pending = @ \/ bad], index'["db"].mtime)
                        EXCEPT !.pc = "use", !.pending = FALSE])
    /\ UNCHANGED <<name, inode, crashes>>

\* What is left of a program at its end: a write handler, for ~rpmSystem.  A read
\* handler puts nothing back.
Ended(q) == IF q.handler.write THEN [Idle EXCEPT !.pc = "exit", !.handler = q.handler] ELSE Idle

\* ~pkgCacheFile of apt-get drops the map and then the lock, with UnLock(true).
\* apt-cache has none, and keeps its lock to the end.
Close(p) ==
    /\ proc[p].pc = "close" \/ proc[p].pc = "use"
    /\ \E r \in {IF proc[p].prog = "cache" THEN proc[p] ELSE UnLocked(proc[p], TRUE)} :
          /\ index' = Released(proc[p].handler, r.handler)
          /\ Goes(p, Ended(r))
    /\ inode' = Kept(inode, name, proc')
    /\ UNCHANGED <<name, crashes, risks>>

\* The end of the program, with ~rpmSystem.
Exit(p) ==
    /\ proc[p].pc = "exit"
    /\ index' = Released(proc[p].handler, NoHandler)
    /\ Goes(p, Idle)
    /\ UNCHANGED <<name, inode, crashes, risks>>

-----------------------------------------------------------------------------
(* Everything else that happens to the files.                              *)

\* SIGKILL: no destructor runs.
Kill(p) ==
    /\ proc[p].pc # "idle" /\ crashes < MaxCrashes
    /\ crashes' = crashes + 1
    /\ proc' = [proc EXCEPT ![p] = Idle]
    /\ inode' = Kept(inode, name, proc')
    /\ UNCHANGED <<index, name, risks>>

\* What a file may be after a power failure: of all that was not synced, any
\* part may have reached the disk.
AfterLoss(f) ==
    {[head |-> h, img |-> i, sHead |-> h, sImg |-> i] :
        h \in {f.head, f.sHead},
        i \in {[file |-> x.file, pkgs |-> y.pkgs, deps |-> z.deps, prov |-> z.prov] :
                   x, y, z \in {f.img, f.sImg}}}

PowerLoss ==
    /\ crashes < MaxCrashes
    /\ crashes' = crashes + 1
    /\ proc' = [p \in Procs |-> Idle]
    /\ \E fp \in IF name["pkg"] = 0 THEN {Fresh} ELSE AfterLoss(inode[name["pkg"]]),
          fs \in IF name["src"] = 0 THEN {Fresh} ELSE AfterLoss(inode[name["src"]]) :
          inode' = [i \in Inodes |-> IF i = name["pkg"] THEN fp
                                     ELSE IF i = name["src"] THEN fs ELSE Fresh]
    /\ UNCHANGED <<index, name, risks>>

\* Another program installs or removes packages with rpm.  A write handler does
\* not keep it out.
Foreign ==
    /\ MayForeign /\ index["db"].gen < MaxGen["db"]
    /\ index' = [index EXCEPT !["db"] = [gen |-> @.gen + 1, mtime |-> @.gen + 1]]
    /\ \E race \in {\E p \in Procs : proc[p].handler.write} :
          /\ race => MayRace
          /\ risks' = IF race THEN risks \cup {"race"} ELSE risks
    /\ UNCHANGED <<name, inode, proc, crashes>>

Begin(p) == \E prog \in {"cache", "update", "install"}, force \in BOOLEAN : Start(p, prog, force)

Build(p) == \/ Check(p) \/ UnlinkPkg(p) \/ Create(p) \/ SrcCheck(p) \/ SrcRead(p) \/ Generator(p)
            \/ Select(p) \/ Merge(p) \/ Provides(p) \/ UnlinkSrc(p) \/ SrcCreate(p)
            \/ SrcWrite(p) \/ SrcHead(p) \/ SrcSync(p) \/ Seal(p) \/ Sealed(p)

Step(p) == \/ Begin(p) \/ Fetch(p) \/ Build(p) \/ UnLock(p) \/ DoInstall(p)
           \/ Close(p) \/ Exit(p) \/ Kill(p)

Next == Foreign \/ PowerLoss \/ \E p \in Procs : Step(p)

Spec == Init /\ [][Next]_vars

-----------------------------------------------------------------------------
(* Properties.                                                             *)

\* The packages of every covered source are there, and the dependencies on
\* files were matched with the files of every one of them.
Whole(n, img) ==
    \A t \in Covers(n) :
        /\ img.pkgs[t] # 0
        /\ img.pkgs[t] \in FileDeps[t] => \A s \in Covers(n) : <<s, t>> \in img.prov

\* A cache file that CheckValidity could ever accept, with a clean header and a
\* stamp of all it must cover, is whole, whatever was killed, full or without
\* power while it was written (pkgcachegen.cc: the dirty flag, the order of the
\* writes and syncs, and the two ways to collect file provides).
CleanIsWhole ==
    \A n \in Caches :
        \E f \in {IF name[n] = 0 THEN Fresh ELSE inode[name[n]]} :
            f.head = "clean" /\ (\A s \in Covers(n) : f.img.file[s] # NoStamp) => Whole(n, f.img)

\* A cache that is accepted now has the packages the index files have now, unless
\* the time of the database may lie: another program ran rpm under an open write
\* handler, or apt ran a transaction after a lock that was not counted.
NeverStale ==
    \A n \in Caches :
        name[n] # 0 /\ Valid(n, inode[name[n]].head, inode[name[n]].img) =>
            \A s \in Covers(n) : \/ inode[name[n]].img.pkgs[s] = index[s].gen
                                 \/ s = "db" /\ risks # {}

\* What a program reads through its map does not change under it, although
\* others rebuild the caches (pkgMakeStatusCache unlinks before it creates).
MapStable ==
    \A p \in Procs : proc[p].pc \in {"use", "run"} /\ proc[p].fd # 0 =>
                        inode[proc[p].fd].img = proc[p].img

\* The time of the database tells whether it has changed: putting back an old
\* time hides no transaction, since apt gives the lock back before its own
\* (rpmhandler.cc, InstallPackages), unless another program ran one meanwhile or
\* the lock that was given back had not been counted.
MtimeHonest == index["db"].mtime = index["db"].gen \/ risks # {}

\* What apt itself does with the database is never hidden (rpmhandler.cc: "As we
\* never change any information in the database directly, we will restore the mtime
\* and save our cache").
NoChangeHidden == index["db"].mtime = index["db"].gen \/ "race" \in risks
=============================================================================
