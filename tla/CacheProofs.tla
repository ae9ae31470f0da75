---------------------------- MODULE CacheProofs -----------------------------
(***************************************************************************)
(* For any processes and index files: every variable of CacheFiles keeps   *)
(* its type, the time of the database is honest, and the maps of programs  *)
(* are stable.                                                             *)
(***************************************************************************)
EXTENDS CacheFiles, TLAPS

\* The lock: a transaction of apt itself runs under a write handler only while an
\* error is pending, and a write handler would put back the time of the generation
\* that is there, unless something has happened to it.
LockInv ==
    /\ \A p \in Procs :
          /\ proc[p].prog \in {"update", "install"} => p \in Root
          /\ proc[p].pc = "fetch" => proc[p].prog = "update"
          /\ proc[p].pc = "run" => /\ proc[p].prog = "install"
                                   /\ proc[p].handler.write => proc[p].pending
          /\ proc[p].handler.write =>
                /\ p \in Root
                /\ proc[p].handler.mtime = index["db"].gen \/ risks # {}
    /\ MtimeHonest

\* Process p is writing the package cache.
Building(p) ==
    /\ proc[p].fd # 0
    /\ proc[p].pc \in {"srccheck", "srcread", "generator", "select", "merge", "provides",
                       "srcunlink", "srccreate", "srcwrite", "srchead", "srcsync", "seal"}

\* Only the process that may write has the file under construction, and nobody
\* takes it: its header is not clean or it has no stamp of the database.
MapInv ==
    /\ name["pkg"] = name["src"] => name["pkg"] = 0
    /\ index["db"].mtime # 0
    /\ \A p \in Procs :
          /\ proc[p].handler.write => proc[p].handler.mtime # 0
          /\ proc[p].fd # 0 => /\ proc[p].fd # name["src"]
                               /\ inode[proc[p].fd].img = proc[p].img
          /\ proc[p].pc \in {"fetch", "check", "unlink", "create"} =>
                proc[p].fd = 0 /\ proc[p].img = Blank
          /\ proc[p].pc \in {"unlink", "create", "srcunlink", "srccreate", "srcwrite", "srchead",
                             "srcsync", "sealed"} => p \in Root
          /\ proc[p].pc = "create" => name["pkg"] = 0
          /\ proc[p].pc = "srccreate" => name["src"] = 0
          /\ proc[p].pc = "srcread" /\ p \in Root /\ name["src"] # 0 =>
                inode[name["src"]].img.file["db"] = NoStamp
          /\ proc[p].pc = "srccheck" => proc[p].img = Blank
          /\ Building(p) =>
                /\ p \in Root
                /\ inode[proc[p].fd].head = "clean" => proc[p].img.file["db"] = NoStamp
                /\ \A r \in Procs \ {p} : proc[r].fd # proc[p].fd

-----------------------------------------------------------------------------
(* Types.                                                                  *)

LEMMA Records == Idle \in Process /\ Fresh \in File /\ Blank \in Image
  BY DEF Idle, Process, Fresh, File, Blank, Image, Head, Stamp, NoStamp, Handler, NoHandler, Sources, Places, Programs

\* The lock is not counted where one is taken.
Counted ==
    \A p \in Procs : proc[p].pc \in {"idle", "fetch", "run"} => proc[p].count = 0

\* r is what a process in state q may become within a build.
Busy == Places \ {"idle", "fetch", "run", "exit"}
Follows(q, r) == r \in Process /\ r.count = q.count /\ r.pending = q.pending /\ r.pc \in Busy

LEMMA GoesType ==
    ASSUME TypeOK, NEW p \in Procs, NEW q \in Process, Goes(p, q)
    PROVE  proc' \in [Procs -> Process]
  BY DEF TypeOK, Goes

LEMMA MapsType ==
    ASSUME TypeOK, NEW p \in Procs, NEW q \in Process, NEW head \in Head, Maps(p, q, head)
    PROVE  proc' \in [Procs -> Process] /\ inode' \in [Inodes -> File]
  <1>1. q.fd \in Inodes \cup {0} /\ q.img \in Image
    BY DEF Process
  <1> QED
    BY <1>1, GoesType DEF Maps, TypeOK, File

LEMMA KeptType ==
    ASSUME NEW files \in [Inodes -> File], NEW names, NEW ps
    PROVE  Kept(files, names, ps) \in [Inodes -> File]
  BY Records DEF Kept

LEMMA RestoredType ==
    ASSUME TypeOK, NEW h \in Handler
    PROVE  /\ Restored(h) \in [Sources -> [gen : Nat, mtime : Nat]]
           /\ \A s \in Sources : Restored(h)[s].gen = index[s].gen
  BY DEF TypeOK, Restored, Handler, Sources

LEMMA ReleasedType ==
    ASSUME TypeOK, NEW h \in Handler, NEW next
    PROVE  /\ Released(h, next) \in [Sources -> [gen : Nat, mtime : Nat]]
           /\ \A s \in Sources : Released(h, next)[s].gen = index[s].gen
  BY RestoredType DEF Released, TypeOK

LEMMA CollectType ==
    ASSUME NEW q \in Process
    PROVE  CollectFileProvides(q) \in Image
  <1>1. ASSUME NEW img \in Image, NEW from \in SUBSET Sources
        PROVE  Collected(img, from) \in Image
    <2> DEFINE new == {st \in from \X Sources : img.pkgs[st[1]] # 0 /\ img.pkgs[st[2]] # 0}
    <2>1. img.prov \cup new \in SUBSET (Sources \X Sources)
      BY DEF Image
    <2>2. [img EXCEPT !.prov = @ \cup new] \in Image
      BY <2>1 DEF Image
    <2> QED
      BY <2>2 DEF Collected
  <1>2. q.img \in Image /\ [q.img EXCEPT !.deps = TRUE] \in Image
    BY DEF Process, Image
  <1>3. {"list"} \in SUBSET Sources /\ {"db"} \in SUBSET Sources /\ Sources \in SUBSET Sources
    BY DEF Sources
  <1> QED
    BY <1>1, <1>2, <1>3 DEF CollectFileProvides

\* A source that is merged goes into an image.
LEMMA ImageType ==
    ASSUME NEW img \in Image, NEW s \in Sources, NEW n \in Nat, NEW st \in Stamp
    PROVE  [img EXCEPT !.file[s] = st] \in Image /\ [img EXCEPT !.pkgs[s] = n] \in Image
  BY DEF Image

LEMMA LossType ==
    ASSUME NEW f \in File
    PROVE  AfterLoss(f) \subseteq File
  BY DEF AfterLoss, File, Image, Head

LEMMA SyncedType ==
    ASSUME NEW f \in File, NEW h \in Head
    PROVE  /\ Synced(f) \in File /\ [Synced(f) EXCEPT !.head = h] \in File
           /\ [f EXCEPT !.head = h] \in File /\ [f EXCEPT !.sHead = h] \in File
           /\ [f EXCEPT !.sHead = f.head] \in File
  BY DEF Synced, File, Head

\* Another generation of an index file.
LEMMA IndexType ==
    ASSUME TypeOK, NEW s \in Sources, index[s].gen < MaxGen[s],
           index' = [index EXCEPT ![s] = [gen |-> @.gen + 1, mtime |-> @.gen + 1]]
    PROVE  /\ index' \in [Sources -> [gen : Nat, mtime : Nat]]
           /\ \A t \in Sources : index'[t].gen \in 1..MaxGen[t]
  <1>0. MaxGen[s] \in Nat
    BY ConstantsOK
  <1>1. index[s].gen \in Nat /\ index[s].gen >= 1 /\ MaxGen[s] \in Nat
    BY <1>0 DEF TypeOK
  <1> DEFINE x == [gen |-> index[s].gen + 1, mtime |-> index[s].gen + 1]
  <1>2. x \in [gen : Nat, mtime : Nat] /\ x.gen \in 1..MaxGen[s] /\ index' = [index EXCEPT ![s] = x]
    BY <1>1
  <1> QED
    BY <1>2 DEF TypeOK

\* What the steps do to the record of a process.
LEMMA PcType ==
    ASSUME NEW q \in Process, NEW pc \in Busy
    PROVE  /\ Follows(q, [q EXCEPT !.pc = pc])
           /\ \A at \in Sources : Follows(q, [q EXCEPT !.pc = pc, !.at = at])
           /\ \A b \in BOOLEAN : Follows(q, [q EXCEPT !.pc = pc, !.found = b])
           /\ \A at \in Sources, b \in BOOLEAN :
                 /\ Follows(q, [q EXCEPT !.pc = pc, !.at = at, !.found = b])
                 /\ Follows(q, [q EXCEPT !.pc = pc, !.at = at, !.force = b])
  BY DEF Process, Follows, Busy

LEMMA MapType ==
    ASSUME NEW q \in Process, NEW pc \in Busy, NEW i \in Inodes \cup {0}, NEW m \in Image,
           NEW n \in Nat, NEW b \in BOOLEAN
    PROVE  /\ Follows(q, [q EXCEPT !.pc = pc, !.fd = i])
           /\ Follows(q, [q EXCEPT !.pc = pc, !.img = m])
           /\ Follows(q, [q EXCEPT !.pc = pc, !.fd = i, !.img = m])
           /\ Follows(q, [q EXCEPT !.pc = pc, !.opened = n, !.img = m])
           /\ Follows(q, [q EXCEPT !.pc = pc, !.img = m, !.opened = n, !.found = b])
  BY DEF Process, Follows, Busy

LEMMA LockedType ==
    ASSUME NEW q \in Process, q.count = 0, NEW n \in Nat
    PROVE  /\ Locked(q, n) \in Process /\ LockedRead(q, n) \in Process
           /\ Locked(q, n).pc = q.pc /\ LockedRead(q, n).pc = q.pc
  <1> DEFINE new == [write |-> TRUE, mtime |-> n]
             h == IF q.handler.write THEN q.handler ELSE new
             c == IF q.pending THEN q.count ELSE q.count + 1
             old == [write |-> FALSE, mtime |-> n]
  <1>1. h \in Handler /\ old \in Handler /\ c \in {0, 1} /\ q.count + 1 = 1
    BY DEF Process, Handler
  <1>2. /\ Locked(q, n) = [q EXCEPT !.handler = h, !.count = c]
        /\ LockedRead(q, n) = [q EXCEPT !.handler = old, !.count = 1]
    BY <1>1 DEF Locked, LockedRead
  <1> HIDE DEF h, c, old
  <1> QED
    BY <1>1, <1>2 DEF Process

LEMMA UnLockedType ==
    ASSUME NEW q \in Process, NEW b \in BOOLEAN
    PROVE  /\ UnLocked(q, b) \in Process
           /\ UnLocked(q, b).pc = q.pc /\ UnLocked(q, b).prog = q.prog
           /\ UnLocked(q, b).fd = q.fd /\ UnLocked(q, b).img = q.img
           /\ UnLocked(q, b).count = 0
           /\ \/ UnLocked(q, b).handler = NoHandler
              \/ UnLocked(q, b).handler = q.handler /\ q.count = 0
           /\ q.count = 0 /\ ~b => UnLocked(q, b).pending
  <1>1. CASE q.count = 0
    <2>1. (q.pending \/ ~b) \in BOOLEAN
      BY DEF Process
    <2> QED
      BY <1>1, <2>1 DEF UnLocked, Process
  <1>2. CASE q.count # 0
    <2>1. q.count = 1 /\ q.count - 1 = 0 /\ NoHandler \in Handler
      BY <1>2 DEF Process, NoHandler, Handler
    <2>2. UnLocked(q, b) = [q EXCEPT !.count = 0, !.handler = NoHandler]
      BY <2>1 DEF UnLocked
    <2> QED
      BY <1>2, <2>1, <2>2 DEF Process
  <1> QED
    BY <1>1, <1>2

\* A lock that is taken: the handler is kept, or it has the time of the database.
LEMMA LockedKeeps ==
    ASSUME NEW q \in Process, NEW n \in Nat
    PROVE  /\ Locked(q, n).pc = q.pc /\ Locked(q, n).prog = q.prog
           /\ Locked(q, n).fd = q.fd /\ Locked(q, n).img = q.img
           /\ Locked(q, n).handler = q.handler \/ Locked(q, n).handler.mtime = n
           /\ LockedRead(q, n).pc = q.pc /\ LockedRead(q, n).prog = q.prog
           /\ LockedRead(q, n).fd = q.fd /\ LockedRead(q, n).img = q.img
           /\ LockedRead(q, n).handler.write = FALSE /\ LockedRead(q, n).handler.mtime = n
  BY DEF Locked, LockedRead, Process

LEMMA InstallTime ==
    ASSUME TypeOK, NEW p \in Procs, DoInstall(p)
    PROVE  /\ index'["db"].mtime \in Nat
           /\ index' = index \/ index'["db"].mtime # 0
  <1>0. index \in [Sources -> [gen : Nat, mtime : Nat]] /\ "db" \in Sources /\ index["db"].gen \in Nat
    BY DEF TypeOK, Sources
  <1>1. CASE index' = index
    BY <1>0, <1>1
  <1>2. CASE index' # index
    <2> DEFINE n == index["db"].gen + 1
    <2>1. index' = [index EXCEPT !["db"] = [gen |-> n, mtime |-> n]]
      BY <1>2 DEF DoInstall
    <2>2. n \in Nat /\ n # 0
      BY <1>0
    <2> HIDE DEF n
    <2> QED
      BY <1>0, <2>1, <2>2
  <1> QED
    BY <1>1, <1>2

\* What becomes of a program that has installed.
LEMMA InstallType ==
    ASSUME TypeOK, NEW p \in Procs, DoInstall(p), index'["db"].mtime \in Nat, proc[p].count = 0
    PROVE  \E o \in Process :
              /\ Goes(p, o) /\ o.prog = proc[p].prog /\ o.fd = proc[p].fd /\ o.img = proc[p].img
              /\ \/ o.pc = "close" /\ o.handler = proc[p].handler
                 \/ o.pc = "use"
              /\ o.handler = proc[p].handler \/ o.handler.mtime = index'["db"].mtime
  <1>0. proc[p] \in Process
    BY DEF TypeOK
  <1>1. CASE Goes(p, [proc[p] EXCEPT !.pc = "close"])
    <2> DEFINE q == [proc[p] EXCEPT !.pc = "close"]
    <2>1. /\ q \in Process /\ q.prog = proc[p].prog /\ q.fd = proc[p].fd /\ q.img = proc[p].img
          /\ q.pc = "close" /\ q.handler = proc[p].handler
      BY <1>0 DEF Process, Places
    <2>2. Goes(p, q)
      BY <1>1
    <2> HIDE DEF q
    <2> QED
      BY <2>1, <2>2
  <1>2. CASE \E bad \in BOOLEAN :
                Goes(p, [Locked([proc[p] EXCEPT !.pending = @ \/ bad], index'["db"].mtime)
                            EXCEPT !.pc = "use", !.pending = FALSE])
    <2>1. PICK bad \in BOOLEAN :
                Goes(p, [Locked([proc[p] EXCEPT !.pending = @ \/ bad], index'["db"].mtime)
                            EXCEPT !.pc = "use", !.pending = FALSE])
      BY <1>2
    <2> DEFINE b == proc[p].pending \/ bad
               w == [proc[p] EXCEPT !.pending = b]
               l == Locked(w, index'["db"].mtime)
               o == [l EXCEPT !.pc = "use", !.pending = FALSE]
    <2>2. Goes(p, o)
      BY <2>1
    <2>3. b \in BOOLEAN
      BY <1>0 DEF Process
    <2> HIDE DEF b
    <2>4. /\ w \in Process /\ w.count = 0 /\ w.prog = proc[p].prog
          /\ w.fd = proc[p].fd /\ w.img = proc[p].img /\ w.handler = proc[p].handler
      BY <1>0, <2>3 DEF Process, Places
    <2> HIDE DEF w
    <2>5. /\ l \in Process
          /\ l.prog = proc[p].prog /\ l.fd = proc[p].fd /\ l.img = proc[p].img
          /\ l.handler = proc[p].handler \/ l.handler.mtime = index'["db"].mtime
      BY <2>4, LockedType, LockedKeeps
    <2> HIDE DEF l
    <2>6. /\ o \in Process /\ o.pc = "use"
          /\ o.prog = proc[p].prog /\ o.fd = proc[p].fd /\ o.img = proc[p].img
          /\ o.handler = proc[p].handler \/ o.handler.mtime = index'["db"].mtime
      BY <2>5 DEF Process, Places
    <2> HIDE DEF o
    <2> QED
      BY <2>2, <2>6
  <1> QED
    BY <1>1, <1>2 DEF DoInstall

LEMMA OpensType ==
    ASSUME TypeOK, NEW p \in Procs, NEW q \in Process, q.count = 0, Opens(p, q)
    PROVE  \E r \in Process : Goes(p, r) /\ r.pc = "check"
  <1> DEFINE l == IF q.prog = "cache" THEN LockedRead(q, index["db"].mtime)
                                      ELSE Locked(q, index["db"].mtime)
             r == [l EXCEPT !.pc = "check"]
  <1>1. index["db"].mtime \in Nat
    BY DEF TypeOK, Sources
  <1>2. l \in Process
    BY <1>1, LockedType
  <1>3. Goes(p, r)
    BY DEF Opens
  <1> HIDE DEF l
  <1>4. r \in Process /\ r.pc = "check"
    BY <1>2 DEF Process, Places
  <1> QED
    BY <1>3, <1>4

\* A lock that is given back, or not: what is left of the handler, and the time.
LEMMA ReleasedKeeps ==
    ASSUME TypeOK, NEW h \in Handler, NEW next
    PROVE  /\ Released(h, next)["db"].gen = index["db"].gen
           /\ \/ Released(h, next)["db"].mtime = index["db"].mtime
              \/ h.write /\ Released(h, next)["db"].mtime = h.mtime
           /\ Released(h, next)["list"] = index["list"]
  BY DEF Released, Restored, TypeOK, Sources

\* How a session ends: with the handler it had, or with none.
LEMMA EndKeeps ==
    ASSUME TypeOK, NEW p \in Procs, Close(p) \/ Exit(p) \/ Kill(p)
    PROVE  /\ \E o \in Process : /\ Goes(p, o) /\ o.pc \in {"idle", "exit"} /\ o.prog = "none"
                                 /\ o.count = 0 /\ o.fd = 0 /\ o.img = Blank
                                 /\ o.handler = proc[p].handler \/ o.handler = NoHandler
           /\ index' = index \/ \E h : index' = Released(proc[p].handler, h)
           /\ UNCHANGED <<name, risks>>
           /\ crashes' = crashes \/ (crashes < MaxCrashes /\ crashes' = crashes + 1)
           /\ inode' = Kept(inode, name, proc') \/ inode' = inode
  <1> DEFINE r == IF proc[p].prog = "cache" THEN proc[p] ELSE UnLocked(proc[p], TRUE)
  <1>0. proc[p] \in Process
    BY DEF TypeOK
  <1>1. r \in Process /\ (r.handler = proc[p].handler \/ r.handler = NoHandler)
    BY <1>0, UnLockedType
  <1>2. /\ Goes(p, Idle) \/ Goes(p, Ended(r))
        /\ index' = index \/ \E h : index' = Released(proc[p].handler, h)
        /\ UNCHANGED <<name, risks>>
        /\ crashes' = crashes \/ (crashes < MaxCrashes /\ crashes' = crashes + 1)
        /\ inode' = Kept(inode, name, proc') \/ inode' = inode
    <2>1. CASE Close(p)
      BY <2>1 DEF Close
    <2>2. CASE Exit(p)
      BY <2>2 DEF Exit
    <2>3. CASE Kill(p)
      BY <2>3 DEF Kill, Goes
    <2> QED
      BY <2>1, <2>2, <2>3
  <1> HIDE DEF r
  <1>3. /\ Idle \in Process /\ Idle.pc = "idle" /\ Idle.prog = "none" /\ Idle.count = 0
        /\ Idle.fd = 0 /\ Idle.img = Blank /\ Idle.handler = NoHandler
    BY Records DEF Idle
  <1> DEFINE x == [Idle EXCEPT !.pc = "exit", !.handler = r.handler]
  <1>4. /\ x \in Process /\ x.pc = "exit" /\ x.prog = "none" /\ x.count = 0
        /\ x.fd = 0 /\ x.img = Blank /\ x.handler = r.handler
    BY <1>1, <1>3 DEF Process, Places
  <1>5. Ended(r) = Idle \/ Ended(r) = x
    BY DEF Ended
  <1> HIDE DEF x
  <1> QED
    BY <1>1, <1>2, <1>3, <1>4, <1>5

LEMMA StartType ==
    ASSUME NEW prog \in Programs, NEW force \in BOOLEAN,
           NEW q, q = [Idle EXCEPT !.prog = prog, !.force = force]
    PROVE  q \in Process /\ q.count = 0 /\ [q EXCEPT !.pc = "fetch"] \in Process
  <1>1. q \in Process /\ q.count = 0
    BY Records DEF Process, Idle
  <1> QED
    BY <1>1 DEF Process, Places

\* A step of a build changes the process, the files and the names.
LEMMA BuildType ==
    ASSUME TypeOK, Counted, NEW p \in Procs, NEW q, Follows(proc[p], q), Goes(p, q),
           proc[p].pc \in Busy \ {"close"},
           inode' \in [Inodes -> File], name' \in [Caches -> Inodes \cup {0}],
           UNCHANGED <<index, crashes, risks>>
    PROVE  TypeOK' /\ Counted'
  <1>1. q \in Process /\ q.pc \in Busy
    BY DEF Follows, Counted, Busy
  <1>2. proc' \in [Procs -> Process]
    BY <1>1, GoesType
  <1>3. Counted'
    BY <1>1 DEF Goes, Counted, TypeOK, Busy
  <1> QED
    BY <1>2, <1>3 DEF TypeOK

LEMMA BuildMaps ==
    ASSUME TypeOK, Counted, NEW p \in Procs, NEW q, NEW head \in Head, Follows(proc[p], q),
           Maps(p, q, head), proc[p].pc \in Busy \ {"close"},
           name' \in [Caches -> Inodes \cup {0}], UNCHANGED <<index, crashes, risks>>
    PROVE  TypeOK' /\ Counted'
  <1>1. q \in Process
    BY DEF Follows
  <1>2. Goes(p, q) /\ inode' \in [Inodes -> File]
    BY <1>1, MapsType DEF Maps
  <1> QED
    BY <1>2, BuildType

LEMMA TypeStep == TypeOK /\ Counted /\ [Next]_vars => TypeOK' /\ Counted'
  <1> SUFFICES ASSUME TypeOK, Counted, [Next]_vars PROVE TypeOK' /\ Counted'
    OBVIOUS
  <1>0. /\ \A p \in Procs : proc[p] \in Process
        /\ \A i \in Inodes : inode[i] \in File
        /\ \A s \in Sources : index[s] \in [gen : Nat, mtime : Nat] /\ SizeNow(s) \in Nat
        /\ "clean" \in Head /\ "dirty" \in Head /\ "none" \in Head
    BY ConstantsOK DEF TypeOK, Head, SizeNow
  <1>1. ASSUME NEW p \in Procs, Begin(p) PROVE TypeOK' /\ Counted'
    <2>1. PICK prog \in {"cache", "update", "install"}, force \in BOOLEAN : Start(p, prog, force)
      BY <1>1 DEF Begin
    <2> DEFINE q == [Idle EXCEPT !.prog = prog, !.force = force]
               f == [q EXCEPT !.pc = "fetch"]
    <2>2. prog \in Programs
      BY DEF Programs
    <2>3. q \in Process /\ q.count = 0 /\ f \in Process
      BY <2>2, StartType
    <2>4. f.pc = "fetch" /\ f.count = 0
      BY <2>3 DEF Process
    <2>5. Goes(p, f) \/ Opens(p, q)
      BY <2>1 DEF Start
    <2> HIDE DEF f, q
    <2>6. \E r \in Process : /\ Goes(p, r)
                             /\ \/ r.pc = "fetch" /\ r.count = 0
                                \/ r.pc = "check"
      BY <2>3, <2>4, <2>5, OpensType
    <2>7. proc' \in [Procs -> Process] /\ Counted'
      BY <2>6, GoesType DEF Goes, Counted, TypeOK
    <2> QED
      BY <2>1, <2>7 DEF Start, TypeOK
  <1>2. ASSUME NEW p \in Procs, Fetch(p) PROVE TypeOK' /\ Counted'
    <2>1. proc[p].count = 0 /\ Opens(p, proc[p])
      BY <1>2 DEF Fetch, Counted
    <2>2. PICK r \in Process : Goes(p, r) /\ r.pc = "check"
      BY <1>0, <2>1, OpensType
    <2>3. proc' \in [Procs -> Process] /\ Counted'
      BY <2>2, GoesType DEF Goes, Counted, TypeOK
    <2>4. /\ index' \in [Sources -> [gen : Nat, mtime : Nat]]
          /\ \A t \in Sources : index'[t].gen \in 1..MaxGen[t]
      BY <1>2, IndexType DEF Fetch, Sources, TypeOK
    <2> QED
      BY <1>2, <2>3, <2>4 DEF Fetch, TypeOK
  <1>4. ASSUME NEW p \in Procs, Build(p) PROVE TypeOK' /\ Counted'
    <2>0. /\ proc[p] \in Process
          /\ {"unlink", "create", "srccheck", "srcread", "generator", "select", "merge", "provides",
              "srcunlink", "srccreate", "srcwrite", "srchead", "srcsync", "seal", "sealed", "use",
              "check"} \subseteq Busy \ {"close"}
          /\ "close" \in Busy /\ "list" \in Sources /\ "db" \in Sources
          /\ "pkg" \in Caches /\ "src" \in Caches
      BY <1>0 DEF Busy, Places, Sources, Caches
    <2>f. ASSUME Fails(p), UNCHANGED <<index, name, crashes, risks>>, proc[p].pc \in Busy \ {"close"}
          PROVE  TypeOK' /\ Counted'
      <3>1. Follows(proc[p], [proc[p] EXCEPT !.pc = "close"])
        BY <2>0, PcType
      <3> QED
        BY <2>f, <3>1, BuildType DEF Fails, TypeOK
    <2>1. CASE Check(p)
      <3>1. CASE CheckValidity(p, "pkg")
        <4> DEFINE q == [proc[p] EXCEPT !.pc = "use", !.fd = name["pkg"], !.img = inode[name["pkg"]].img]
        <4>1. name["pkg"] \in Inodes /\ inode[name["pkg"]].img \in Image
          BY <2>0, <3>1 DEF CheckValidity, TypeOK, File
        <4>2. Follows(proc[p], q)
          BY <2>0, <4>1, MapType
        <4>3. Goes(p, q)
          BY <2>1, <3>1 DEF Check
        <4> HIDE DEF q
        <4> QED
          BY <2>0, <2>1, <4>2, <4>3, BuildType DEF Check, TypeOK
      <3>2. CASE ~CheckValidity(p, "pkg")
        <4> DEFINE q == [proc[p] EXCEPT !.pc = IF p \in Root THEN "unlink" ELSE "srccheck"]
        <4>1. Follows(proc[p], q)
          BY <2>0, PcType
        <4>2. Goes(p, q)
          BY <2>1, <3>2 DEF Check
        <4> HIDE DEF q
        <4> QED
          BY <2>0, <2>1, <4>1, <4>2, BuildType DEF Check, TypeOK
      <3> QED
        BY <3>1, <3>2
    <2>2. ASSUME NEW pc \in Busy \ {"close"}, NEW n \in Caches, NEW next \in Busy, Unlink(p, pc, n, next)
          PROVE  TypeOK' /\ Counted'
      <3>1. Follows(proc[p], [proc[p] EXCEPT !.pc = next])
        BY <2>0, PcType
      <3> QED
        BY <2>2, <3>1, BuildType, KeptType DEF Unlink, TypeOK
    <2>3. CASE Create(p)
      <3>1. PICK i \in Opened("pkg") : /\ name' = [name EXCEPT !["pkg"] = i]
                                       /\ Maps(p, [proc[p] EXCEPT !.pc = "srccheck", !.fd = i], "none")
        BY <2>3 DEF Create
      <3>2. i \in Inodes
        BY <2>0 DEF Opened, Unused, TypeOK
      <3>3. Follows(proc[p], [proc[p] EXCEPT !.pc = "srccheck", !.fd = i])
        BY <2>0, <3>2, MapType, Records
      <3>4. name' \in [Caches -> Inodes \cup {0}]
        BY <3>1, <3>2 DEF TypeOK
      <3> QED
        BY <1>0, <2>0, <2>3, <3>1, <3>3, <3>4, BuildMaps DEF Create
    <2>4. CASE SrcCheck(p)
      <3>1. /\ Follows(proc[p], [proc[p] EXCEPT !.pc = "srcread", !.at = "db", !.force = FALSE])
            /\ Follows(proc[p], [proc[p] EXCEPT !.pc = "generator", !.at = "list", !.force = FALSE])
        BY <2>0, PcType
      <3> QED
        BY <2>0, <2>4, <3>1, BuildType DEF SrcCheck, TypeOK
    <2>5. CASE SrcRead(p)
      <3>1. CASE Fails(p)
        BY <2>0, <2>5, <2>f, <3>1 DEF SrcRead
      <3>2. CASE name["src"] # 0 /\ ~Fails(p)
        <4> DEFINE f == inode[name["src"]]
                   q == [proc[p] EXCEPT !.pc = "generator", !.img = f.img]
        <4>1. f.head \in Head /\ f.img \in Image
          BY <2>0, <3>2 DEF TypeOK, File
        <4>2. Follows(proc[p], q)
          BY <2>0, <4>1, MapType
        <4>3. Maps(p, q, f.head)
          BY <2>5, <3>2 DEF SrcRead
        <4> HIDE DEF q, f
        <4> QED
          BY <2>0, <2>5, <4>1, <4>2, <4>3, BuildMaps DEF SrcRead, TypeOK
      <3> QED
        BY <2>5, <3>1, <3>2 DEF SrcRead
    <2>6. CASE Generator(p)
      <3>1. Follows(proc[p], [proc[p] EXCEPT !.pc = "select", !.found = FALSE])
        BY <2>0, PcType
      <3>2. \A i \in Inodes : [inode[i] EXCEPT !.head = "dirty", !.sHead = "dirty"] \in File
        BY <1>0 DEF File
      <3>3. proc[p].fd \in Inodes \cup {0}
        BY <2>0 DEF Process
      <3>4. proc[p].fd # 0 => inode' = [inode EXCEPT ![proc[p].fd] =
                                    [inode[proc[p].fd] EXCEPT !.head = "dirty", !.sHead = "dirty"]]
        BY <2>6 DEF Generator
      <3>5. inode' \in [Inodes -> File]
        BY <2>6, <3>2, <3>3, <3>4 DEF Generator, TypeOK
      <3> QED
        BY <2>0, <2>6, <3>1, <3>5, BuildType DEF Generator, TypeOK
    <2>7. CASE Select(p)
      <3> DEFINE s == proc[p].at
                 st == [size |-> SizeNow(s), mtime |-> IF s = "db" THEN proc[p].handler.mtime
                                                       ELSE index[s].mtime]
                 img == [proc[p].img EXCEPT !.file[s] = st]
                 q == [proc[p] EXCEPT !.pc = "merge", !.opened = index[s].gen, !.img = img]
      <3>1. s \in Sources /\ proc[p].img \in Image /\ proc[p].handler \in Handler
        BY <2>0 DEF Process
      <3>2. st \in Stamp /\ index[s].gen \in Nat
        BY <1>0, <3>1 DEF Stamp, Handler
      <3>3. img \in Image
        BY <3>1, <3>2, ImageType
      <3>4. Follows(proc[p], q)
        <4> HIDE DEF img
        <4> QED
          BY <2>0, <3>2, <3>3, MapType
      <3>5. Maps(p, q, "dirty")
        BY <2>7 DEF Select
      <3> HIDE DEF q
      <3> QED
        BY <1>0, <2>0, <2>7, <3>4, <3>5, BuildMaps DEF Select, TypeOK
    <2>8. CASE Merge(p)
      <3>1. CASE Fails(p)
        BY <2>0, <2>8, <2>f, <3>1 DEF Merge
      <3>2. CASE ~Fails(p)
        <4> DEFINE s == proc[p].at
                   g == IF s = "db" THEN index["db"].gen ELSE proc[p].opened
                   img == [proc[p].img EXCEPT !.pkgs[s] = g]
                   b == proc[p].found \/ g \in FileDeps[s]
                   q == [proc[p] EXCEPT !.pc = "provides", !.img = img, !.opened = 0, !.found = b]
        <4>1. s \in Sources /\ proc[p].img \in Image /\ proc[p].opened \in Nat /\ NoStamp \in Stamp
          BY <2>0 DEF Process, NoStamp, Stamp
        <4>2. g \in Nat
          BY <1>0, <4>1 DEF Sources
        <4>3. img \in Image
          BY <4>1, <4>2, ImageType
        <4>4. Follows(proc[p], q)
          <5> HIDE DEF img, b
          <5>1. b \in BOOLEAN
            BY <2>0 DEF b, Process
          <5> QED
            BY <2>0, <4>3, <5>1, MapType
        <4>5. Maps(p, q, "dirty")
          BY <2>8, <3>2 DEF Merge
        <4> HIDE DEF q
        <4> QED
          BY <1>0, <2>0, <2>8, <4>4, <4>5, BuildMaps DEF Merge, TypeOK
      <3> QED
        BY <3>1, <3>2
    <2>9. CASE Provides(p)
      <3> DEFINE img == CollectFileProvides(proc[p])
                 q == [proc[p] EXCEPT !.img = img]
                 r == IF q.at = "db" THEN [q EXCEPT !.pc = "seal", !.at = "list", !.found = FALSE]
                      ELSE IF p \in Root THEN [q EXCEPT !.pc = "srcunlink", !.found = FALSE]
                      ELSE [q EXCEPT !.pc = "select", !.at = "db", !.found = FALSE]
      <3>1. img \in Image
        BY <2>0, CollectType
      <3> HIDE DEF img
      <3>2. q \in Process /\ q.count = proc[p].count /\ q.pending = proc[p].pending
        BY <2>0, <3>1 DEF Process
      <3>3. Maps(p, r, "dirty")
        BY <2>9 DEF Provides, img
      <3> HIDE DEF q
      <3>4. Follows(proc[p], r)
        <4>1. /\ Follows(q, [q EXCEPT !.pc = "seal", !.at = "list", !.found = FALSE])
            /\ Follows(q, [q EXCEPT !.pc = "srcunlink", !.found = FALSE])
            /\ Follows(q, [q EXCEPT !.pc = "select", !.at = "db", !.found = FALSE])
        BY <2>0, <3>2, PcType
      <4> QED
        BY <3>2, <4>1 DEF Follows
      <3> HIDE DEF r
      <3> QED
        BY <1>0, <2>0, <2>9, <3>3, <3>4, BuildMaps DEF Provides, TypeOK
    <2>10. CASE SrcCreate(p)
      <3>1. PICK i \in Opened("src") : /\ name' = [name EXCEPT !["src"] = i]
                                       /\ inode' = [inode EXCEPT ![i].head = "none", ![i].img = Blank]
        BY <2>10 DEF SrcCreate
      <3>2. i \in Inodes
        BY <2>0 DEF Opened, Unused, TypeOK
      <3>3. [inode[i] EXCEPT !.head = "none", !.img = Blank] \in File
        BY <1>0, <3>2, Records DEF File
      <3>4. inode' = [inode EXCEPT ![i] = [inode[i] EXCEPT !.head = "none", !.img = Blank]]
        BY <3>1
      <3>5. inode' \in [Inodes -> File] /\ name' \in [Caches -> Inodes \cup {0}]
        BY <3>1, <3>2, <3>3, <3>4 DEF TypeOK
      <3>6. Follows(proc[p], [proc[p] EXCEPT !.pc = "srcwrite"])
        BY <2>0, PcType
      <3> QED
        BY <2>0, <2>10, <3>5, <3>6, BuildType DEF SrcCreate
    <2>11. CASE SrcWrite(p)
      <3>1. CASE Fails(p)
        BY <2>0, <2>11, <2>f, <3>1 DEF SrcWrite
      <3>2. CASE ~Fails(p)
        <4>1. proc[p].img \in Image
          BY <2>0 DEF Process
        <4>2. \A i \in Inodes : [inode[i] EXCEPT !.head = "dirty", !.img = proc[p].img] \in File
          BY <1>0, <4>1 DEF File
        <4>3. inode' = [inode EXCEPT ![name["src"]] =
                          [inode[name["src"]] EXCEPT !.head = "dirty", !.img = proc[p].img]]
          BY <2>11, <3>2 DEF SrcWrite
        <4>4. inode' \in [Inodes -> File]
          BY <4>2, <4>3 DEF TypeOK
        <4>5. Follows(proc[p], [proc[p] EXCEPT !.pc = "srchead"])
          BY <2>0, PcType
        <4> QED
          BY <2>0, <2>11, <3>2, <4>4, <4>5, BuildType DEF SrcWrite, TypeOK
      <3> QED
        BY <3>1, <3>2
    <2>12. CASE SrcHead(p) \/ SrcSync(p)
      <3>1. CASE Fails(p) /\ SrcHead(p)
        BY <2>0, <2>f, <3>1 DEF SrcHead
      <3>2. CASE ~Fails(p) \/ SrcSync(p)
        <4>1. \A i \in Inodes : Synced(inode[i]) \in File /\ [Synced(inode[i]) EXCEPT !.head = "clean"] \in File
          BY <1>0, SyncedType
        <4>2. \/ inode' = [inode EXCEPT ![name["src"]] = [Synced(inode[name["src"]]) EXCEPT !.head = "clean"]]
              \/ inode' = [inode EXCEPT ![name["src"]] = Synced(inode[name["src"]])]
          BY <2>12, <3>2 DEF SrcHead, SrcSync
        <4>3. inode' \in [Inodes -> File]
          BY <4>1, <4>2 DEF TypeOK
        <4>4. /\ Follows(proc[p], [proc[p] EXCEPT !.pc = "select", !.at = "db"])
              /\ Follows(proc[p], [proc[p] EXCEPT !.pc = "srcsync"])
          BY <2>0, PcType
        <4> QED
          BY <2>0, <2>12, <3>2, <4>3, <4>4, BuildType DEF SrcHead, SrcSync, TypeOK
      <3> QED
        BY <2>12, <3>1, <3>2
    <2>13. CASE Seal(p) \/ Sealed(p)
      <3>1. \A i \in Inodes : /\ [Synced(inode[i]) EXCEPT !.head = "clean"] \in File
                              /\ [inode[i] EXCEPT !.sHead = inode[i].head] \in File
        BY <1>0, SyncedType
      <3>2. \/ inode' = inode
            \/ inode' = [inode EXCEPT ![proc[p].fd] = [Synced(inode[proc[p].fd]) EXCEPT !.head = "clean"]]
            \/ inode' = [inode EXCEPT ![proc[p].fd] =
                            [inode[proc[p].fd] EXCEPT !.sHead = inode[proc[p].fd].head]]
        BY <2>13 DEF Seal, Sealed
      <3>3. inode' \in [Inodes -> File]
        BY <3>1, <3>2 DEF TypeOK
      <3>4. Follows(proc[p], [proc[p] EXCEPT !.pc = "use"]) /\ Follows(proc[p], [proc[p] EXCEPT !.pc = "sealed"])
        BY <2>0, PcType
      <3>5. Goes(p, [proc[p] EXCEPT !.pc = "use"]) \/ Goes(p, [proc[p] EXCEPT !.pc = "sealed"])
        BY <2>13 DEF Seal, Sealed
      <3> QED
        BY <2>0, <2>13, <3>3, <3>4, <3>5, BuildType DEF Seal, Sealed, TypeOK
    <2>14. CASE UnlinkPkg(p) \/ UnlinkSrc(p)
      BY <2>0, <2>2, <2>14 DEF UnlinkPkg, UnlinkSrc
    <2> QED
      BY <1>4, <2>1, <2>3, <2>4, <2>5, <2>6, <2>7, <2>8, <2>9, <2>10, <2>11, <2>12, <2>13, <2>14 DEF Build
  <1>5. ASSUME NEW p \in Procs, UnLock(p) PROVE TypeOK' /\ Counted'
    <2> DEFINE u == UnLocked(proc[p], FALSE)
               r == [u EXCEPT !.pc = "run"]
    <2>1. u \in Process /\ u.count = 0
      BY <1>0, UnLockedType
    <2>2. index' = Released(proc[p].handler, r.handler) /\ Goes(p, r)
      BY <1>5 DEF UnLock
    <2> HIDE DEF u
    <2>3. r \in Process /\ r.count = 0 /\ r.pc = "run"
      BY <2>1 DEF Process, Places
    <2> HIDE DEF r
    <2>4. proc' \in [Procs -> Process] /\ Counted'
      BY <2>2, <2>3, GoesType DEF Goes, Counted, TypeOK
    <2>5. proc[p].handler \in Handler
      BY <1>0 DEF Process
    <2>6. /\ index' \in [Sources -> [gen : Nat, mtime : Nat]]
          /\ \A s \in Sources : index'[s].gen \in 1..MaxGen[s]
      BY <2>2, <2>5, ReleasedType DEF TypeOK
    <2> QED
      BY <1>5, <2>4, <2>6 DEF UnLock, TypeOK
  <1>6. ASSUME NEW p \in Procs, DoInstall(p) PROVE TypeOK' /\ Counted'
    <2>1. /\ index' \in [Sources -> [gen : Nat, mtime : Nat]]
          /\ \A t \in Sources : index'[t].gen \in 1..MaxGen[t]
      BY <1>6, IndexType DEF DoInstall, Sources, TypeOK
    <2>2. proc[p].count = 0 /\ index'["db"].mtime \in Nat
      BY <1>6, <2>1 DEF DoInstall, Counted, Sources
    <2>7. \E o \in Process : Goes(p, o) /\ (o.pc = "close" \/ (o.pc = "use"))
      BY <1>6, <2>2, InstallType
    <2>8. proc' \in [Procs -> Process] /\ Counted'
      BY <2>7, GoesType DEF Goes, Counted, TypeOK
    <2>9. risks' \subseteq Risks
      BY <1>6 DEF DoInstall, TypeOK, Risks
    <2> QED
      BY <1>6, <2>1, <2>8, <2>9 DEF DoInstall, TypeOK
  <1>7. ASSUME NEW p \in Procs, Close(p) \/ Exit(p) \/ Kill(p) PROVE TypeOK' /\ Counted'
    <2>1. PICK o \in Process : Goes(p, o) /\ o.count = 0 /\ o.pc \in {"idle", "exit"}
      BY <1>7, EndKeeps
    <2>2. proc' \in [Procs -> Process] /\ Counted'
      BY <2>1, GoesType DEF Goes, TypeOK, Counted
    <2>3. /\ inode' = Kept(inode, name, proc') \/ inode' = inode
          /\ crashes' = crashes \/ (crashes < MaxCrashes /\ crashes' = crashes + 1)
          /\ index' = index \/ \E h : index' = Released(proc[p].handler, h)
          /\ UNCHANGED <<name, risks>>
      BY <1>7, EndKeeps
    <2>4. inode' \in [Inodes -> File]
      BY <2>3, KeptType DEF TypeOK
    <2>5. crashes' \in 0..MaxCrashes
      BY <2>3, ConstantsOK DEF TypeOK
    <2>6. proc[p].handler \in Handler
      BY <1>0 DEF Process
    <2>7. /\ index' \in [Sources -> [gen : Nat, mtime : Nat]]
          /\ \A s \in Sources : index'[s].gen \in 1..MaxGen[s]
      BY <2>3, <2>6, ReleasedType DEF TypeOK
    <2> QED
      BY <2>2, <2>3, <2>4, <2>5, <2>7 DEF TypeOK
  <1>8. ASSUME PowerLoss PROVE TypeOK' /\ Counted'
    <2>1. proc' \in [Procs -> Process] /\ Counted'
      BY <1>8, Records DEF PowerLoss, Counted, Idle
    <2>2. \A n \in Caches : (IF name[n] = 0 THEN {Fresh} ELSE AfterLoss(inode[name[n]])) \subseteq File
      BY <1>0, Records, LossType DEF TypeOK
    <2>3. inode' \in [Inodes -> File]
      <3>1. PICK fp \in File, fs \in File :
                inode' = [i \in Inodes |-> IF i = name["pkg"] THEN fp
                                           ELSE IF i = name["src"] THEN fs ELSE Fresh]
        BY <1>8, <2>2 DEF PowerLoss, Caches
      <3> QED
        BY <3>1, Records
    <2>4. crashes' \in 0..MaxCrashes
      BY <1>8, ConstantsOK DEF PowerLoss, TypeOK
    <2> QED
      BY <1>8, <2>1, <2>3, <2>4 DEF PowerLoss, TypeOK
  <1>9. ASSUME Foreign PROVE TypeOK' /\ Counted'
    <2>1. /\ index' \in [Sources -> [gen : Nat, mtime : Nat]]
          /\ \A t \in Sources : index'[t].gen \in 1..MaxGen[t]
      BY <1>9, IndexType DEF Foreign, Sources
    <2>2. risks' \subseteq Risks
      BY <1>9 DEF Foreign, TypeOK, Risks
    <2> QED
      BY <1>9, <2>1, <2>2 DEF Foreign, TypeOK, Counted
  <1>10. CASE UNCHANGED vars
    BY <1>10 DEF vars, TypeOK, Counted
  <1> QED
    BY <1>1, <1>2, <1>4, <1>5, <1>6, <1>7, <1>8, <1>9, <1>10 DEF Next, Step

LEMMA InitType == Init => TypeOK /\ Counted
  <1>1. Init => index \in [Sources -> [gen : Nat, mtime : Nat]] /\ \A s \in Sources : index[s].gen \in 1..MaxGen[s]
    BY ConstantsOK DEF Init
  <1>2. Init => /\ name \in [Caches -> Inodes \cup {0}] /\ inode \in [Inodes -> File]
                /\ proc \in [Procs -> Process] /\ crashes \in 0..MaxCrashes /\ risks \subseteq Risks
    <2>1. 0 \in 0..MaxCrashes
      BY ConstantsOK
    <2> QED
      BY Records, <2>1 DEF Init
  <1>3. Init => Counted
    BY DEF Init, Counted, Idle
  <1> QED
    BY <1>1, <1>2, <1>3 DEF TypeOK

\* Every variable keeps its type, and the lock is never counted above one nor below
\* zero, although UnLock is called also when Lock has not counted it, for any
\* processes, index files, crashes and transactions.
THEOREM TypeCorrect == Spec => []TypeOK
  <1>1. Init => TypeOK /\ Counted
    BY InitType
  <1>2. TypeOK /\ Counted /\ [Next]_vars => (TypeOK /\ Counted)'
    BY TypeStep
  <1> QED
    BY <1>1, <1>2, PTL DEF Spec

-----------------------------------------------------------------------------
(* The lock.                                                               *)

\* A build keeps the handler.
LEMMA BuildKeeps ==
    ASSUME TypeOK, NEW p \in Procs, Build(p)
    PROVE  /\ proc' = [proc EXCEPT ![p] = proc'[p]]
           /\ proc'[p].prog = proc[p].prog /\ proc'[p].handler = proc[p].handler
           /\ proc'[p].pc \in Busy
           /\ UNCHANGED <<index, risks>>
  <1>0. proc \in [Procs -> Process] /\ proc[p] \in Process
    BY DEF TypeOK
  <1>a. ASSUME NEW q, Goes(p, q), q.prog = proc[p].prog, q.handler = proc[p].handler,
               q.pc \in Busy, UNCHANGED <<index, risks>>
        PROVE  /\ proc' = [proc EXCEPT ![p] = proc'[p]]
               /\ proc'[p].prog = proc[p].prog /\ proc'[p].handler = proc[p].handler
               /\ proc'[p].pc \in Busy
               /\ UNCHANGED <<index, risks>>
    BY <1>0, <1>a DEF Goes
  <1>b. ASSUME Fails(p), UNCHANGED <<index, risks>>
        PROVE  /\ proc' = [proc EXCEPT ![p] = proc'[p]]
               /\ proc'[p].prog = proc[p].prog /\ proc'[p].handler = proc[p].handler
               /\ proc'[p].pc \in Busy
               /\ UNCHANGED <<index, risks>>
    BY <1>0, <1>b DEF Fails, Goes, Process, Busy, Places
  <1>p. ASSUME NEW pc \in Places \ {"idle", "fetch", "run", "exit"}
        PROVE  /\ [proc[p] EXCEPT !.pc = pc].prog = proc[p].prog
               /\ [proc[p] EXCEPT !.pc = pc].handler = proc[p].handler
               /\ [proc[p] EXCEPT !.pc = pc].pc \in Busy
    BY <1>0, <1>p DEF Process, Busy
  <1>q. {"unlink", "create", "srccheck", "srcread", "generator", "select", "merge", "provides",
         "srcunlink", "srccreate", "srcwrite", "srchead", "srcsync", "seal", "sealed", "use"}
            \subseteq Places \ {"idle", "fetch", "run", "exit"}
    BY DEF Places
  <1>1. CASE Check(p)
    <2> DEFINE q == [proc[p] EXCEPT !.pc = "use", !.fd = name["pkg"], !.img = inode[name["pkg"]].img]
               r == [proc[p] EXCEPT !.pc = IF p \in Root THEN "unlink" ELSE "srccheck"]
    <2>1. q.prog = proc[p].prog /\ q.handler = proc[p].handler /\ q.pc \in Busy
      BY <1>0, <1>q DEF Process, Busy
    <2>2. r.prog = proc[p].prog /\ r.handler = proc[p].handler /\ r.pc \in Busy
      BY <1>p, <1>q
    <2>3. (Goes(p, q) \/ Goes(p, r)) /\ UNCHANGED <<index, risks>>
      BY <1>1 DEF Check
    <2> HIDE DEF q, r
    <2> QED
      BY <1>a, <2>1, <2>2, <2>3
  <1>4. CASE SrcCheck(p)
    <2> DEFINE q == [proc[p] EXCEPT !.pc = "srcread", !.at = "db", !.force = FALSE]
               r == [proc[p] EXCEPT !.pc = "generator", !.at = "list", !.force = FALSE]
    <2>1. /\ q.prog = proc[p].prog /\ q.handler = proc[p].handler /\ q.pc \in Busy
          /\ r.prog = proc[p].prog /\ r.handler = proc[p].handler /\ r.pc \in Busy
      BY <1>0, <1>q DEF Process, Busy
    <2>2. (Goes(p, q) \/ Goes(p, r)) /\ UNCHANGED <<index, risks>>
      BY <1>4 DEF SrcCheck
    <2> HIDE DEF q, r
    <2> QED
      BY <1>a, <2>1, <2>2
  <1>5. CASE SrcRead(p)
    <2> DEFINE q == [proc[p] EXCEPT !.pc = "generator", !.img = inode[name["src"]].img]
    <2>1. q.prog = proc[p].prog /\ q.handler = proc[p].handler /\ q.pc \in Busy
      BY <1>0, <1>q DEF Process, Busy
    <2>2. (Goes(p, q) \/ Fails(p)) /\ UNCHANGED <<index, risks>>
      BY <1>5 DEF SrcRead, Maps
    <2> HIDE DEF q
    <2> QED
      BY <1>a, <1>b, <2>1, <2>2
  <1>8. CASE Merge(p)
    <2> DEFINE g == IF proc[p].at = "db" THEN index["db"].gen ELSE proc[p].opened
               q == [proc[p] EXCEPT !.pc = "provides", !.img.pkgs[proc[p].at] = g, !.opened = 0,
                                    !.found = @ \/ g \in FileDeps[proc[p].at]]
    <2>1. q.prog = proc[p].prog /\ q.handler = proc[p].handler /\ q.pc \in Busy
      BY <1>0, <1>q DEF Process, Busy
    <2>2. (Goes(p, q) \/ Fails(p)) /\ UNCHANGED <<index, risks>>
      BY <1>8 DEF Merge, Maps
    <2> HIDE DEF q
    <2> QED
      BY <1>a, <1>b, <2>1, <2>2
  <1>12. CASE SrcHead(p) \/ SrcSync(p)
    <2> DEFINE q == [proc[p] EXCEPT !.pc = "select", !.at = "db"]
               r == [proc[p] EXCEPT !.pc = "srcsync"]
    <2>1. /\ q.prog = proc[p].prog /\ q.handler = proc[p].handler /\ q.pc \in Busy
          /\ r.prog = proc[p].prog /\ r.handler = proc[p].handler /\ r.pc \in Busy
      BY <1>0, <1>q DEF Process, Busy
    <2>2. (Goes(p, q) \/ Goes(p, r) \/ Fails(p)) /\ UNCHANGED <<index, risks>>
      BY <1>12 DEF SrcHead, SrcSync
    <2> HIDE DEF q, r
    <2> QED
      BY <1>a, <1>b, <2>1, <2>2
  <1>11. CASE SrcWrite(p)
    <2>1. (Goes(p, [proc[p] EXCEPT !.pc = "srchead"]) \/ Fails(p)) /\ UNCHANGED <<index, risks>>
      BY <1>11 DEF SrcWrite
    <2> QED
      BY <1>a, <1>b, <1>p, <1>q, <2>1
  <1> USE <1>0 DEF Goes, Busy, Places
  <1>2. CASE UnlinkPkg(p) \/ UnlinkSrc(p)
    BY <1>2 DEF UnlinkPkg, UnlinkSrc, Unlink, Process
  <1>3. CASE Create(p)
    BY <1>3 DEF Create, Maps, Process
  <1>6. CASE Generator(p)
    BY <1>6 DEF Generator, Process
  <1>7. CASE Select(p)
    BY <1>7 DEF Select, Maps, Process
  <1>9. CASE Provides(p)
    BY <1>9 DEF Provides, Maps, Process
  <1>10. CASE SrcCreate(p)
    BY <1>10 DEF SrcCreate, Process
  <1>13. CASE Seal(p) \/ Sealed(p)
    BY <1>13 DEF Seal, Sealed, Process
  <1> QED
    BY <1>1, <1>2, <1>3, <1>4, <1>5, <1>6, <1>7, <1>8, <1>9, <1>10, <1>11, <1>12, <1>13 DEF Build

LEMMA OpensKeeps ==
    ASSUME TypeOK, NEW p \in Procs, NEW q \in Process, Opens(p, q)
    PROVE  \E r : /\ Goes(p, r) /\ r.pc = "check" /\ r.prog = q.prog
                  /\ r.fd = q.fd /\ r.img = q.img
                  /\ r.handler.write => q.prog # "cache"
                  /\ r.handler = q.handler \/ r.handler.mtime = index["db"].mtime
  <1> DEFINE n == index["db"].mtime
             l == IF q.prog = "cache" THEN LockedRead(q, n) ELSE Locked(q, n)
             r == [l EXCEPT !.pc = "check"]
  <1>0. n \in Nat
    BY DEF TypeOK, Sources
  <1>3. Goes(p, r)
    BY DEF Opens
  <1> HIDE DEF n
  <1>1. /\ l.prog = q.prog /\ l.fd = q.fd /\ l.img = q.img
        /\ l.handler.write => q.prog # "cache"
        /\ l.handler = q.handler \/ l.handler.mtime = n
    <2>1. CASE q.prog = "cache"
      <3>1. l = LockedRead(q, n)
        BY <2>1
      <3> HIDE DEF l
      <3> QED
        BY <1>0, <2>1, <3>1, LockedKeeps
    <2>2. CASE q.prog # "cache"
      <3>1. l = Locked(q, n)
        BY <2>2
      <3> HIDE DEF l
      <3> QED
        BY <1>0, <2>2, <3>1, LockedKeeps
    <2> QED
      BY <2>1, <2>2
  <1>2. l = [q EXCEPT !.handler = l.handler, !.count = l.count]
    BY DEF Locked, LockedRead, Process
  <1> HIDE DEF l
  <1>4. /\ r.pc = "check" /\ r.prog = l.prog /\ r.fd = l.fd /\ r.img = l.img
        /\ r.handler = l.handler
    BY <1>2 DEF Process
  <1> QED
    BY <1>1, <1>3, <1>4 DEF n

LEMMA LockStep == TypeOK /\ Counted /\ LockInv /\ [Next]_vars => LockInv'
  <1> SUFFICES ASSUME TypeOK, Counted, LockInv, [Next]_vars PROVE LockInv'
    OBVIOUS
  <1>0. /\ proc \in [Procs -> Process] /\ \A p \in Procs : proc[p] \in Process
        /\ index \in [Sources -> [gen : Nat, mtime : Nat]] /\ "db" \in Sources /\ "list" \in Sources
    BY DEF TypeOK, Sources
  \* The time that another generation has.
  <1>a. ASSUME NEW s \in Sources,
               index' = [index EXCEPT ![s] = [gen |-> @.gen + 1, mtime |-> @.gen + 1]]
        PROVE  IF s = "db" THEN index'["db"].mtime = index'["db"].gen ELSE index'["db"] = index["db"]
    BY <1>0, <1>a
  \* Steps of one process by which nothing happens to the time of the database, but
  \* a handler may put it back.
  <1>b. ASSUME NEW p \in Procs, NEW r, Goes(p, r), risks' = risks,
               r.prog \in {"update", "install"} => p \in Root,
               r.pc = "fetch" => r.prog = "update",
               r.pc = "run" => r.prog = "install" /\ (r.handler.write => r.pending),
               r.handler.write => /\ p \in Root
                                  /\ r.handler.mtime = index["db"].gen \/ risks # {},
               index'["db"].gen = index["db"].gen,
               index'["db"].mtime = index["db"].gen \/ risks # {}
        PROVE  LockInv'
    <2>1. proc'[p] = r /\ \A o \in Procs \ {p} : proc'[o] = proc[o]
      BY <1>0, <1>b DEF Goes
    <2> QED
      BY <1>b, <2>1 DEF LockInv, MtimeHonest
  <1>1. ASSUME NEW p \in Procs, Begin(p) PROVE LockInv'
    <2>1. PICK prog \in {"cache", "update", "install"}, force \in BOOLEAN : Start(p, prog, force)
      BY <1>1 DEF Begin
    <2> DEFINE q == [Idle EXCEPT !.prog = prog, !.force = force]
               f == [q EXCEPT !.pc = "fetch"]
    <2>2. /\ f.prog = prog /\ f.pc = "fetch" /\ ~f.handler.write
          /\ q.prog = prog /\ q.handler = NoHandler /\ q \in Process
      BY StartType DEF Idle, NoHandler, Programs
    <2>3. \/ Goes(p, f) /\ prog = "update"
          \/ Opens(p, q)
      BY <2>1 DEF Start, Idle
    <2>4. (prog = "cache" \/ p \in Root) /\ UNCHANGED <<index, risks>>
      BY <2>1 DEF Start
    <2> HIDE DEF f, q
    <2>5. CASE Goes(p, f) /\ prog = "update"
      BY <1>b, <2>2, <2>4, <2>5 DEF LockInv, MtimeHonest
    <2>6. CASE Opens(p, q)
      <3>1. PICK r : /\ Goes(p, r) /\ r.pc = "check" /\ r.prog = prog
                     /\ r.handler.write => prog # "cache"
                     /\ r.handler = NoHandler \/ r.handler.mtime = index["db"].mtime
        BY <2>2, <2>6, OpensKeeps
      <3> QED
        BY <1>b, <2>4, <3>1 DEF LockInv, MtimeHonest, NoHandler
    <2> QED
      BY <2>3, <2>5, <2>6
  <1>2. ASSUME NEW p \in Procs, Fetch(p) PROVE LockInv'
    <2>1. /\ Opens(p, proc[p]) /\ index'["db"] = index["db"] /\ risks' = risks
          /\ p \in Root /\ proc[p].prog = "update"
      BY <1>0, <1>2 DEF Fetch, LockInv
    <2>2. PICK r : /\ Goes(p, r) /\ r.pc = "check" /\ r.prog = proc[p].prog
                   /\ r.handler = proc[p].handler \/ r.handler.mtime = index["db"].mtime
      BY <1>0, <2>1, OpensKeeps
    <2> QED
      BY <1>b, <2>1, <2>2 DEF LockInv, MtimeHonest
  <1>3. ASSUME NEW p \in Procs, Build(p) PROVE LockInv'
    BY <1>0, <1>3, BuildKeeps DEF LockInv, MtimeHonest, Busy
  <1>4. ASSUME NEW p \in Procs, UnLock(p) PROVE LockInv'
    <2> DEFINE u == UnLocked(proc[p], FALSE)
               r == [u EXCEPT !.pc = "run"]
    <2>1. /\ index' = Released(proc[p].handler, r.handler) /\ Goes(p, r) /\ risks' = risks
          /\ proc[p].prog = "install"
      BY <1>4 DEF UnLock
    <2>2. /\ u \in Process /\ u.prog = "install"
          /\ u.handler = NoHandler \/ (u.handler = proc[p].handler /\ u.pending)
      BY <1>0, <2>1, UnLockedType
    <2> HIDE DEF u
    <2>3. /\ r.pc = "run" /\ r.prog = "install"
          /\ r.handler = NoHandler \/ (r.handler = proc[p].handler /\ r.pending)
      BY <2>2 DEF Process
    <2> HIDE DEF r
    <2>4. proc[p].handler \in Handler /\ p \in Root
      BY <1>0, <2>1 DEF Process, LockInv
    <2>5. /\ index'["db"].gen = index["db"].gen
          /\ index'["db"].mtime = index["db"].gen \/ risks # {}
      BY <2>1, <2>4, ReleasedKeeps DEF LockInv, MtimeHonest
    <2> QED
      BY <1>b, <2>1, <2>3, <2>4, <2>5 DEF LockInv, NoHandler
  <1>5. ASSUME NEW p \in Procs, DoInstall(p) PROVE LockInv'
    <2>1. p \in Root /\ proc[p].prog = "install" /\ (proc[p].handler.write => proc[p].pending)
      BY <1>5 DEF DoInstall, LockInv
    \* The only other write handlers are of processes that may write.
    <2>2. \A o \in Procs : o # p => ~proc[o].handler.write
      BY <2>1, ConstantsOK DEF LockInv
    <2>3. \/ index' = index /\ risks' = risks
          \/ /\ index'["db"].mtime = index'["db"].gen
             /\ risks' = risks \/ "uncounted" \in risks'
             /\ ~proc[p].pending \/ "uncounted" \in risks'
      BY <1>0, <1>5, <1>a DEF DoInstall
    <2>4. index'["db"].mtime \in Nat
      BY <1>5, InstallTime
    <2>5. proc[p].count = 0
      BY <1>5 DEF DoInstall, Counted
    <2>8. PICK o \in Process :
             /\ Goes(p, o) /\ o.pc \in {"close", "use"} /\ o.prog = "install"
             /\ o.handler = proc[p].handler \/ o.handler.mtime = index'["db"].mtime
      BY <1>5, <2>1, <2>4, <2>5, InstallType
    <2>9. proc'[p] = o /\ \A t \in Procs \ {p} : proc'[t] = proc[t]
      BY <1>0, <2>8 DEF Goes
    <2>10. MtimeHonest'
      BY <2>3 DEF LockInv, MtimeHonest
    <2>11. o.handler.write => o.handler.mtime = index'["db"].gen \/ risks' # {}
      BY <2>1, <2>3, <2>8 DEF LockInv, MtimeHonest
    <2> QED
      BY <2>1, <2>2, <2>8, <2>9, <2>10, <2>11 DEF LockInv
  <1>6. ASSUME NEW p \in Procs, Close(p) \/ Exit(p) \/ Kill(p) PROVE LockInv'
    <2>1. PICK o : /\ Goes(p, o) /\ o.pc \in {"idle", "exit"} /\ o.prog = "none"
                   /\ o.handler = proc[p].handler \/ o.handler = NoHandler
      BY <1>6, EndKeeps
    <2>2. /\ index' = index \/ \E h : index' = Released(proc[p].handler, h)
          /\ risks' = risks
      BY <1>6, EndKeeps
    <2>3. proc[p].handler \in Handler
      BY <1>0 DEF Process
    <2>4. /\ index'["db"].gen = index["db"].gen
          /\ index'["db"].mtime = index["db"].gen \/ risks # {}
      BY <2>2, <2>3, ReleasedKeeps DEF LockInv, MtimeHonest
    <2> QED
      BY <1>b, <2>1, <2>2, <2>4 DEF LockInv, NoHandler
  <1>7. ASSUME PowerLoss PROVE LockInv'
    BY <1>0, <1>7 DEF PowerLoss, LockInv, MtimeHonest, Idle, NoHandler
  <1>8. ASSUME Foreign PROVE LockInv'
    <2>1. /\ proc' = proc /\ index'["db"].mtime = index'["db"].gen
          /\ risks' # {} \/ (risks' = risks /\ \A p \in Procs : ~proc[p].handler.write)
      BY <1>0, <1>8 DEF Foreign
    <2> QED
      BY <2>1 DEF LockInv, MtimeHonest
  <1>9. CASE UNCHANGED vars
    BY <1>9 DEF vars, LockInv, MtimeHonest
  <1> QED
    BY <1>1, <1>2, <1>3, <1>4, <1>5, <1>6, <1>7, <1>8, <1>9 DEF Next, Step

\* The time of the database tells its generation until one of two things has happened:
\* another program ran rpm while apt had a write handler open, or apt itself ran a
\* transaction that changed the database after a lock that was not counted.  Putting
\* back an old time hides nothing else, for any processes of which one may write.
THEOREM Honest == Spec => []MtimeHonest
  <1>1. Init => TypeOK /\ Counted /\ LockInv
    <2>1. Init => LockInv
      BY DEF Init, LockInv, MtimeHonest, Idle, NoHandler, Sources
    <2> QED
      BY <2>1, InitType
  <1>2. TypeOK /\ Counted /\ LockInv /\ [Next]_vars => (TypeOK /\ Counted /\ LockInv)'
    BY TypeStep, LockStep
  <1>3. LockInv => MtimeHonest
    BY DEF LockInv
  <1> QED
    BY <1>1, <1>2, <1>3, PTL DEF Spec

-----------------------------------------------------------------------------
(* Maps.                                                                   *)

LEMMA MapStep == TypeOK /\ Counted /\ MapInv /\ [Next]_vars => MapInv'
  <1> SUFFICES ASSUME TypeOK, Counted, MapInv, [Next]_vars PROVE MapInv'
    OBVIOUS
  <1>0. /\ proc \in [Procs -> Process] /\ name \in [Caches -> Inodes \cup {0}]
        /\ inode \in [Inodes -> File] /\ 0 \notin Inodes
        /\ index \in [Sources -> [gen : Nat, mtime : Nat]] /\ "db" \in Sources /\ "list" \in Sources
        /\ "pkg" \in Caches /\ "src" \in Caches /\ "pkg" # "src"
        /\ \A p, q \in Root : p = q
    BY ConstantsOK DEF TypeOK, Sources, Caches
  <1>r. \A p \in Procs : proc[p] \in Process /\ proc[p].fd \in Inodes \cup {0}
    BY <1>0 DEF Process
  \* Steps that change a process only, and neither its map nor its handler.
  <1>1. ASSUME NEW p \in Procs, NEW q, Goes(p, q), q.fd = proc[p].fd, q.img = proc[p].img,
               q.handler.write => q.handler.mtime # 0,
               UNCHANGED <<name, inode>>, index'["db"].mtime # 0,
               \/ q.pc \in {"use", "run", "close", "idle"}
               \/ q.pc = "check" /\ proc[p].pc = "fetch"
               \/ q.pc = "unlink" /\ proc[p].pc = "check" /\ p \in Root
               \/ q.pc = "srccheck" /\ proc[p].pc = "check"
               \/ q.pc = "generator" /\ proc[p].pc = "srccheck"
               \/ /\ q.pc = "srcread" /\ proc[p].pc = "srccheck"
                  /\ name["src"] # 0 => inode[name["src"]].img.file["db"] = NoStamp
        PROVE  MapInv'
    <2>1. proc'[p] = q /\ \A r \in Procs \ {p} : proc'[r] = proc[r]
      BY <1>0, <1>1 DEF Goes
    <2> QED
      BY <1>0, <1>1, <2>1 DEF MapInv, Building
  \* Steps of a build that change the map of the process, or only its header.
  <1>2. ASSUME NEW p \in Procs, NEW q, Goes(p, q), q.fd = proc[p].fd, q.handler = proc[p].handler,
               proc[p].pc \in {"srccheck", "srcread", "generator", "select", "merge", "provides", "seal"},
               q.pc \in {"generator", "select", "merge", "provides", "seal"} \/ (q.pc = "srcunlink" /\ p \in Root),
               UNCHANGED <<name, index>>,
               q.fd = 0 => inode' = inode,
               q.fd # 0 => /\ inode' = [inode EXCEPT ![q.fd] = inode'[q.fd]]
                           /\ inode'[q.fd].img = q.img
                           /\ inode'[q.fd].head = "clean" => q.img.file["db"] = NoStamp
        PROVE  MapInv'
    <2>1. proc'[p] = q /\ \A r \in Procs \ {p} : proc'[r] = proc[r]
      BY <1>0, <1>2 DEF Goes
    <2>2. \A j \in Inodes : j # q.fd => inode'[j] = inode[j]
      BY <1>0, <1>2
    <2>3. q.fd # 0 => p \in Root /\ \A r \in Procs \ {p} : proc[r].fd # q.fd
      BY <1>0, <1>2 DEF MapInv, Building
    <2>4. q.fd # 0 => name["src"] # q.fd
      BY <1>2 DEF MapInv
    <2> QED
      BY <1>0, <1>r, <1>2, <2>1, <2>2, <2>3, <2>4 DEF MapInv, Building
  \* Steps of the one builder that change the source cache, and no map.
  <1>3. ASSUME NEW p \in Root, NEW q, Goes(p, q), q.fd = proc[p].fd, q.handler = proc[p].handler,
               q.img = proc[p].img, Building(p) \/ proc[p].fd = 0, index' = index,
               proc[p].pc \in {"srcunlink", "srccreate", "srcwrite", "srchead", "srcsync"},
               q.pc \in {"select", "srcwrite", "srchead", "srcsync", "close"}
                  \/ (q.pc = "srccreate" /\ name'["src"] = 0),
               name' = [name EXCEPT !["src"] = name'["src"]],
               name'["src"] # 0 => name'["src"] \in Inodes /\ name'["src"] # name["pkg"],
               \A r \in Procs : proc[r].fd # 0 => /\ name'["src"] # proc[r].fd
                                                  /\ inode'[proc[r].fd].img = inode[proc[r].fd].img
                                                  /\ inode'[proc[r].fd].head = inode[proc[r].fd].head
        PROVE  MapInv'
    <2>1. proc'[p] = q /\ \A r \in Procs \ {p} : proc'[r] = proc[r]
      BY <1>0, <1>3, ConstantsOK DEF Goes
    <2>2. p \in Procs /\ \A r \in Procs \ {p} : r \notin Root
      BY <1>0, <1>3, ConstantsOK
    <2> QED
      BY <1>0, <1>r, <1>3, <2>1, <2>2 DEF MapInv, Building
  <1>4. ASSUME NEW p \in Procs, Fails(p), UNCHANGED <<name, index>>,
               proc[p].pc \in {"srcread", "merge", "srcwrite", "srchead"}
        PROVE  MapInv'
    <2> DEFINE q == [proc[p] EXCEPT !.pc = "close"]
    <2>1. q.fd = proc[p].fd /\ q.img = proc[p].img /\ q.pc = "close" /\ q.handler = proc[p].handler
      BY <1>r DEF Process
    <2>2. Goes(p, q) /\ inode' = inode
      BY <1>4 DEF Fails
    <2> HIDE DEF q
    <2> QED
      BY <1>1, <1>4, <2>1, <2>2 DEF MapInv
  <1>5. ASSUME NEW p \in Procs, Begin(p) PROVE MapInv'
    <2>1. PICK prog \in {"cache", "update", "install"}, force \in BOOLEAN : Start(p, prog, force)
      BY <1>5 DEF Begin
    <2> DEFINE q == [Idle EXCEPT !.prog = prog, !.force = force]
               f == [q EXCEPT !.pc = "fetch"]
    <2>2. /\ f.pc = "fetch" /\ f.fd = 0 /\ f.img = Blank /\ ~f.handler.write
          /\ q.fd = 0 /\ q.img = Blank /\ ~q.handler.write /\ q \in Process
      BY StartType DEF Idle, NoHandler, Programs
    <2>3. (Goes(p, f) \/ Opens(p, q)) /\ UNCHANGED <<index, name, inode>>
      BY <2>1 DEF Start
    <2> HIDE DEF f, q
    <2>4. PICK x : /\ Goes(p, x) /\ x.pc \in {"fetch", "check"} /\ x.fd = 0 /\ x.img = Blank
                   /\ x.handler.write => x.handler.mtime # 0
      <3>1. CASE Goes(p, f)
        BY <2>2, <3>1
      <3>2. CASE Opens(p, q)
        <4>1. PICK r : /\ Goes(p, r) /\ r.pc = "check" /\ r.fd = q.fd /\ r.img = q.img
                       /\ r.handler = q.handler \/ r.handler.mtime = index["db"].mtime
          BY <2>2, <3>2, OpensKeeps
        <4>2. index["db"].mtime # 0
          BY DEF MapInv
        <4>3. r.handler.write => r.handler.mtime # 0
          BY <2>2, <4>1, <4>2
        <4> QED
          BY <2>2, <4>1, <4>3
      <3> QED
        BY <2>3, <3>1, <3>2
    <2>5. proc'[p] = x /\ \A o \in Procs \ {p} : proc'[o] = proc[o]
      BY <1>0, <2>4 DEF Goes
    <2>6. UNCHANGED <<index, name, inode>>
      BY <2>3
    <2> QED
      BY <1>0, <1>r, <2>4, <2>5, <2>6, SMTT(60) DEF MapInv, Building
  <1>6. ASSUME NEW p \in Procs, Fetch(p) PROVE MapInv'
    <2>1. Opens(p, proc[p]) /\ index'["db"] = index["db"] /\ UNCHANGED <<name, inode>> /\ proc[p].pc = "fetch"
      BY <1>0, <1>6 DEF Fetch
    <2>2. PICK r : /\ Goes(p, r) /\ r.pc = "check" /\ r.fd = proc[p].fd /\ r.img = proc[p].img
                   /\ r.handler = proc[p].handler \/ r.handler.mtime = index["db"].mtime
      BY <1>r, <2>1, OpensKeeps
    <2>3. r.handler.write => r.handler.mtime # 0
      BY <2>2 DEF MapInv
    <2> QED
      BY <1>1, <2>1, <2>2, <2>3 DEF MapInv
  <1>7. ASSUME NEW p \in Procs, Check(p) PROVE MapInv'
    <2>1. CASE CheckValidity(p, "pkg")
      <3> DEFINE q == [proc[p] EXCEPT !.pc = "use", !.fd = name["pkg"], !.img = inode[name["pkg"]].img]
      <3>1. /\ q.fd = name["pkg"] /\ q.img = inode[name["pkg"]].img /\ q.pc = "use"
            /\ q.handler = proc[p].handler
        BY <1>r DEF Process
      <3>2. Goes(p, q) /\ UNCHANGED <<index, name, inode>>
        BY <1>7, <2>1 DEF Check
      <3> HIDE DEF q
      <3>3. proc'[p] = q /\ \A r \in Procs \ {p} : proc'[r] = proc[r]
        BY <1>0, <3>2 DEF Goes
      \* What is valid has a stamp of the database, so that nobody is building it.
      <3>4. /\ name["pkg"] # 0 /\ inode[name["pkg"]].head = "clean"
            /\ inode[name["pkg"]].img.file["db"] # NoStamp
        <4>1. /\ name["pkg"] # 0 /\ inode[name["pkg"]].head = "clean"
              /\ inode[name["pkg"]].img.file["db"] = [mtime |-> index["db"].mtime, size |-> SizeNow("db")]
          BY <1>0, <2>1 DEF CheckValidity, Valid, Covers
        <4>2. inode[name["pkg"]].img.file["db"].mtime # NoStamp.mtime
          BY <4>1 DEF NoStamp, MapInv
        <4> QED
          BY <4>1, <4>2
      <3>5. \A r \in Procs : Building(r) => proc[r].fd # name["pkg"]
        BY <3>4 DEF MapInv, Building
      <3> QED
        BY <1>0, <1>r, <3>1, <3>2, <3>3, <3>4, <3>5 DEF MapInv, Building
    <2>2. CASE ~CheckValidity(p, "pkg")
      <3> DEFINE q == [proc[p] EXCEPT !.pc = IF p \in Root THEN "unlink" ELSE "srccheck"]
      <3>1. /\ q.fd = proc[p].fd /\ q.img = proc[p].img /\ q.handler = proc[p].handler
            /\ q.pc = IF p \in Root THEN "unlink" ELSE "srccheck"
        BY <1>r DEF Process
      <3>2. Goes(p, q) /\ UNCHANGED <<index, name, inode>> /\ proc[p].pc = "check"
        BY <1>7, <2>2 DEF Check
      <3> HIDE DEF q
      <3> QED
        BY <1>1, <3>1, <3>2 DEF MapInv
    <2> QED
      BY <2>1, <2>2
  <1>8. ASSUME NEW p \in Procs, UnlinkPkg(p) PROVE MapInv'
    <2> DEFINE q == [proc[p] EXCEPT !.pc = "create"]
    <2>1. q.fd = proc[p].fd /\ q.img = proc[p].img /\ q.handler = proc[p].handler /\ q.pc = "create"
      BY <1>r DEF Process
    <2>2. Goes(p, q) /\ index' = index /\ name' = [name EXCEPT !["pkg"] = 0] /\ proc[p].pc = "unlink"
      BY <1>8 DEF UnlinkPkg, Unlink
    <2> HIDE DEF q
    <2>3. proc'[p] = q /\ \A r \in Procs \ {p} : proc'[r] = proc[r]
      BY <1>0, <2>2 DEF Goes
    <2>4. /\ \A r \in Procs : proc[r].fd # 0 => inode'[proc[r].fd] = inode[proc[r].fd]
          /\ name["src"] # 0 => inode'[name["src"]] = inode[name["src"]]
      <3>1. inode' = Kept(inode, name', proc) /\ name'["src"] = name["src"]
        BY <1>0, <1>8, <2>2 DEF UnlinkPkg, Unlink
      <3> QED
        BY <1>0, <1>r, <3>1 DEF Kept
    <2> QED
      BY <1>0, <1>r, <2>1, <2>2, <2>3, <2>4 DEF MapInv, Building
  <1>9. ASSUME NEW p \in Procs, Create(p) PROVE MapInv'
    <2>1. PICK i \in Opened("pkg") : /\ name' = [name EXCEPT !["pkg"] = i]
                                     /\ Maps(p, [proc[p] EXCEPT !.pc = "srccheck", !.fd = i], "none")
      BY <1>9 DEF Create
    <2>2. i \in Inodes /\ i # name["src"] /\ \A r \in Procs : proc[r].fd # i
      BY <1>0, <1>9, <2>1 DEF Opened, Unused, Create, MapInv
    <2> DEFINE q == [proc[p] EXCEPT !.pc = "srccheck", !.fd = i]
    <2>3. q.fd = i /\ q.img = proc[p].img /\ q.handler = proc[p].handler /\ q.pc = "srccheck"
      BY <1>r DEF Process
    <2>4. Goes(p, q) /\ index' = index
      BY <1>9, <2>1 DEF Create, Maps
    <2>5. inode' = [inode EXCEPT ![i].img = q.img, ![i].head = "none"]
      BY <1>0, <2>1, <2>2, <2>3 DEF Maps
    <2> HIDE DEF q
    <2>6. proc'[p] = q /\ \A r \in Procs \ {p} : proc'[r] = proc[r]
      BY <1>0, <2>4 DEF Goes
    <2>7. /\ inode'[i].img = q.img /\ inode'[i].head = "none"
          /\ \A j \in Inodes \ {i} : inode'[j] = inode[j]
      BY <1>0, <2>2, <2>5 DEF File
    <2>8. proc[p].img = Blank /\ p \in Root
      BY <1>9 DEF Create, MapInv
    <2> QED
      BY <1>0, <1>r, <2>1, <2>2, <2>3, <2>4, <2>6, <2>7, <2>8 DEF MapInv, Building
  <1>10. ASSUME NEW p \in Procs, SrcCheck(p) PROVE MapInv'
    <2> DEFINE q == [proc[p] EXCEPT !.pc = "srcread", !.at = "db", !.force = FALSE]
               r == [proc[p] EXCEPT !.pc = "generator", !.at = "list", !.force = FALSE]
    <2>1. /\ q.fd = proc[p].fd /\ q.img = proc[p].img /\ q.handler = proc[p].handler /\ q.pc = "srcread"
          /\ r.fd = proc[p].fd /\ r.img = proc[p].img /\ r.handler = proc[p].handler /\ r.pc = "generator"
      BY <1>r DEF Process
    <2>2. /\ (Goes(p, q) /\ CheckValidity(p, "src")) \/ Goes(p, r)
          /\ UNCHANGED <<index, name, inode>> /\ proc[p].pc = "srccheck"
      BY <1>10 DEF SrcCheck
    <2>3. CheckValidity(p, "src") => inode[name["src"]].img.file["db"] = NoStamp
      BY <1>0 DEF CheckValidity, Valid, Covers, Sources
    <2> HIDE DEF q, r
    <2> QED
      BY <1>1, <2>1, <2>2, <2>3 DEF MapInv
  <1>11. ASSUME NEW p \in Procs, SrcRead(p) PROVE MapInv'
    <2>1. CASE Fails(p)
      BY <1>4, <1>11, <2>1 DEF SrcRead
    <2>2. CASE name["src"] # 0 /\ ~Fails(p)
      <3> DEFINE f == inode[name["src"]]
                 q == [proc[p] EXCEPT !.pc = "generator", !.img = f.img]
      <3>1. q.fd = proc[p].fd /\ q.img = f.img /\ q.handler = proc[p].handler /\ q.pc = "generator"
        BY <1>r DEF Process
      <3>2. Maps(p, q, f.head) /\ UNCHANGED <<name, index>> /\ proc[p].pc = "srcread"
        BY <1>11, <2>2 DEF SrcRead
      <3>3. q.fd # 0 => f.img.file["db"] = NoStamp
        BY <1>11, <2>2, <3>1, <3>2 DEF MapInv, Building
      <3> HIDE DEF q, f
      <3>4. q.fd = 0 => inode' = inode
        BY <3>2 DEF Maps
      <3>5. q.fd # 0 => inode' = [inode EXCEPT ![q.fd].img = q.img, ![q.fd].head = f.head]
        BY <3>2 DEF Maps
      <3>6. q.fd # 0 => inode' = [inode EXCEPT ![q.fd] = inode'[q.fd]] /\ inode'[q.fd].img = q.img
        BY <1>0, <1>r, <3>1, <3>5 DEF File
      <3> QED
        BY <1>2, <3>1, <3>2, <3>3, <3>4, <3>6 DEF Maps
    <2> QED
      BY <1>11, <2>1, <2>2 DEF SrcRead
  <1>12. ASSUME NEW p \in Procs, Generator(p) PROVE MapInv'
    <2> DEFINE q == [proc[p] EXCEPT !.pc = "select", !.found = FALSE]
    <2>1. q.fd = proc[p].fd /\ q.img = proc[p].img /\ q.handler = proc[p].handler /\ q.pc = "select"
      BY <1>r DEF Process
    <2>2. Goes(p, q) /\ UNCHANGED <<name, index>> /\ proc[p].pc = "generator"
      BY <1>12 DEF Generator
    <2> HIDE DEF q
    <2>3. q.fd = 0 => inode' = inode
      BY <1>12, <2>1 DEF Generator
    <2>4. q.fd # 0 => inode' = [inode EXCEPT ![q.fd].head = "dirty", ![q.fd].sHead = "dirty"]
      BY <1>12, <2>1 DEF Generator
    <2>5. q.fd # 0 => /\ inode' = [inode EXCEPT ![q.fd] = inode'[q.fd]]
                      /\ inode'[q.fd].img = inode[q.fd].img /\ inode'[q.fd].head = "dirty"
      BY <1>0, <1>r, <2>1, <2>4 DEF File
    <2>6. q.fd # 0 => inode[q.fd].img = q.img
      BY <2>1 DEF MapInv
    <2> QED
      BY <1>2, <2>1, <2>2, <2>3, <2>5, <2>6
  \* The steps that leave a dirty header.
  <1>13. ASSUME NEW p \in Procs, NEW q, Maps(p, q, "dirty"), UNCHANGED <<name, index>>,
                q.fd = proc[p].fd, q.handler = proc[p].handler,
                proc[p].pc \in {"select", "merge", "provides"},
                q.pc \in {"select", "merge", "provides", "seal"} \/ (q.pc = "srcunlink" /\ p \in Root)
         PROVE  MapInv'
    <2>1. q.fd = 0 => inode' = inode
      BY <1>13 DEF Maps
    <2>2. q.fd # 0 => inode' = [inode EXCEPT ![q.fd].img = q.img, ![q.fd].head = "dirty"]
      BY <1>13 DEF Maps
    <2>3. q.fd # 0 => /\ inode' = [inode EXCEPT ![q.fd] = inode'[q.fd]]
                      /\ inode'[q.fd].img = q.img /\ inode'[q.fd].head = "dirty"
      BY <1>0, <1>r, <1>13, <2>2 DEF File
    <2> QED
      BY <1>2, <1>13, <2>1, <2>3 DEF Maps
  <1>14. ASSUME NEW p \in Procs, Select(p) \/ Provides(p) PROVE MapInv'
    <2>1. CASE Select(p)
      <3> DEFINE s == proc[p].at
                 q == [proc[p] EXCEPT !.pc = "merge", !.opened = index[s].gen,
                         !.img.file[s] = [size  |-> SizeNow(s),
                                          mtime |-> IF s = "db" THEN proc[p].handler.mtime
                                                    ELSE index[s].mtime]]
      <3>1. q.fd = proc[p].fd /\ q.handler = proc[p].handler /\ q.pc = "merge"
        BY <1>r DEF Process
      <3>2. Maps(p, q, "dirty") /\ UNCHANGED <<name, index>> /\ proc[p].pc = "select"
        BY <2>1 DEF Select
      <3> HIDE DEF q
      <3> QED
        BY <1>13, <3>1, <3>2
    <2>2. CASE Provides(p)
      <3> DEFINE q == [proc[p] EXCEPT !.img = CollectFileProvides(proc[p])]
                 r == IF q.at = "db" THEN [q EXCEPT !.pc = "seal", !.at = "list", !.found = FALSE]
                      ELSE IF p \in Root THEN [q EXCEPT !.pc = "srcunlink", !.found = FALSE]
                      ELSE [q EXCEPT !.pc = "select", !.at = "db", !.found = FALSE]
      <3>1. /\ r.fd = proc[p].fd /\ r.handler = proc[p].handler
            /\ r.pc \in {"seal", "select"} \/ (r.pc = "srcunlink" /\ p \in Root)
        BY <1>r DEF Process
      <3>2. Maps(p, r, "dirty") /\ UNCHANGED <<name, index>> /\ proc[p].pc = "provides"
        BY <2>2 DEF Provides
      <3> HIDE DEF r
      <3> QED
        BY <1>13, <3>1, <3>2
    <2> QED
      BY <1>14, <2>1, <2>2
  <1>15. ASSUME NEW p \in Procs, Merge(p) PROVE MapInv'
    <2> DEFINE g == IF proc[p].at = "db" THEN index["db"].gen ELSE proc[p].opened
               q == [proc[p] EXCEPT !.pc = "provides", !.img.pkgs[proc[p].at] = g, !.opened = 0,
                                    !.found = @ \/ g \in FileDeps[proc[p].at]]
    <2>1. q.fd = proc[p].fd /\ q.handler = proc[p].handler /\ q.pc = "provides"
      BY <1>r DEF Process
    <2>2. (Maps(p, q, "dirty") \/ Fails(p)) /\ UNCHANGED <<name, index>> /\ proc[p].pc = "merge"
      BY <1>15 DEF Merge
    <2> HIDE DEF q
    <2> QED
      BY <1>4, <1>13, <2>1, <2>2
  <1>16. ASSUME NEW p \in Procs, UnlinkSrc(p) PROVE MapInv'
    <2> DEFINE q == [proc[p] EXCEPT !.pc = "srccreate"]
    <2>1. q.fd = proc[p].fd /\ q.img = proc[p].img /\ q.handler = proc[p].handler /\ q.pc = "srccreate"
      BY <1>r DEF Process
    <2>2. Goes(p, q) /\ index' = index /\ name' = [name EXCEPT !["src"] = 0] /\ proc[p].pc = "srcunlink"
      BY <1>16 DEF UnlinkSrc, Unlink
    <2> HIDE DEF q
    <2>3. inode' = Kept(inode, name', proc) /\ name'["src"] = 0
      BY <1>0, <1>16, <2>2 DEF UnlinkSrc, Unlink
    <2>4. \A r \in Procs : proc[r].fd # 0 => inode'[proc[r].fd] = inode[proc[r].fd]
      BY <1>0, <1>r, <2>3 DEF Kept
    <2>5. p \in Root /\ (Building(p) \/ proc[p].fd = 0)
      BY <2>2 DEF MapInv, Building
    <2> QED
      BY <1>0, <1>3, <2>1, <2>2, <2>3, <2>4, <2>5
  <1>17. ASSUME NEW p \in Procs, SrcCreate(p) PROVE MapInv'
    <2>1. PICK i \in Opened("src") : /\ name' = [name EXCEPT !["src"] = i]
                                     /\ inode' = [inode EXCEPT ![i].head = "none", ![i].img = Blank]
      BY <1>17 DEF SrcCreate
    <2>2. i \in Inodes /\ i # name["pkg"] /\ \A r \in Procs : proc[r].fd # i
      BY <1>0, <1>17, <2>1 DEF Opened, Unused, SrcCreate, MapInv
    <2> DEFINE q == [proc[p] EXCEPT !.pc = "srcwrite"]
    <2>3. q.fd = proc[p].fd /\ q.img = proc[p].img /\ q.handler = proc[p].handler /\ q.pc = "srcwrite"
      BY <1>r DEF Process
    <2>4. Goes(p, q) /\ index' = index /\ proc[p].pc = "srccreate"
      BY <1>17 DEF SrcCreate
    <2> HIDE DEF q
    <2>5. p \in Root /\ (Building(p) \/ proc[p].fd = 0)
      BY <2>4 DEF MapInv, Building
    <2>6. name'["src"] = i /\ \A j \in Inodes \ {i} : inode'[j] = inode[j]
      BY <1>0, <2>1, <2>2
    <2>7. \A r \in Procs : proc[r].fd # 0 => inode'[proc[r].fd] = inode[proc[r].fd]
      BY <1>r, <2>2, <2>6
    <2> QED
      BY <1>0, <1>3, <2>1, <2>2, <2>3, <2>4, <2>5, <2>6, <2>7
  \* What is written to the source cache does not reach a map.
  <1>18. ASSUME NEW p \in Procs, NEW q, Goes(p, q), UNCHANGED <<name, index>>,
                q.fd = proc[p].fd, q.img = proc[p].img, q.handler = proc[p].handler,
                proc[p].pc \in {"srcwrite", "srchead", "srcsync"},
                q.pc \in {"select", "srchead", "srcsync"},
                inode' = [inode EXCEPT ![name["src"]] = inode'[name["src"]]]
         PROVE  MapInv'
    <2>1. p \in Root /\ (Building(p) \/ proc[p].fd = 0)
      BY <1>18 DEF MapInv, Building
    <2>2. \A r \in Procs : proc[r].fd # 0 => /\ name["src"] # proc[r].fd
                                             /\ inode'[proc[r].fd] = inode[proc[r].fd]
      BY <1>0, <1>r, <1>18 DEF MapInv
    <2>3. name' = [name EXCEPT !["src"] = name'["src"]] /\ (name["src"] # 0 => name["src"] # name["pkg"])
      BY <1>0, <1>18 DEF MapInv
    <2>4. name'["src"] # 0 => name'["src"] \in Inodes /\ name'["src"] # name["pkg"]
      BY <1>0, <1>18, <2>3
    <2> QED
      BY <1>3, <1>18, <2>1, <2>2, <2>3, <2>4
  <1>19. ASSUME NEW p \in Procs, SrcWrite(p) \/ SrcHead(p) \/ SrcSync(p) PROVE MapInv'
    <2>1. CASE Fails(p) /\ ~SrcSync(p)
      BY <1>4, <1>19, <2>1 DEF SrcWrite, SrcHead
    <2>2. CASE SrcWrite(p) /\ ~Fails(p)
      <3> DEFINE q == [proc[p] EXCEPT !.pc = "srchead"]
      <3>1. q.fd = proc[p].fd /\ q.img = proc[p].img /\ q.handler = proc[p].handler /\ q.pc = "srchead"
        BY <1>r DEF Process
      <3>2. Goes(p, q) /\ UNCHANGED <<name, index>> /\ proc[p].pc = "srcwrite"
        BY <2>2 DEF SrcWrite
      <3>3. inode' = [inode EXCEPT ![name["src"]] = inode'[name["src"]]]
        BY <1>0, <2>2 DEF SrcWrite
      <3> HIDE DEF q
      <3> QED
        BY <1>18, <3>1, <3>2, <3>3
    <2>3. CASE SrcHead(p) /\ ~Fails(p)
      <3> DEFINE q == [proc[p] EXCEPT !.pc = "srcsync"]
      <3>1. q.fd = proc[p].fd /\ q.img = proc[p].img /\ q.handler = proc[p].handler /\ q.pc = "srcsync"
        BY <1>r DEF Process
      <3>2. Goes(p, q) /\ UNCHANGED <<name, index>> /\ proc[p].pc = "srchead"
        BY <2>3 DEF SrcHead
      <3>3. inode' = [inode EXCEPT ![name["src"]] = inode'[name["src"]]]
        BY <1>0, <2>3 DEF SrcHead
      <3> HIDE DEF q
      <3> QED
        BY <1>18, <3>1, <3>2, <3>3
    <2>4. CASE SrcSync(p)
      <3> DEFINE q == [proc[p] EXCEPT !.pc = "select", !.at = "db"]
      <3>1. q.fd = proc[p].fd /\ q.img = proc[p].img /\ q.handler = proc[p].handler /\ q.pc = "select"
        BY <1>r DEF Process
      <3>2. Goes(p, q) /\ UNCHANGED <<name, index>> /\ proc[p].pc = "srcsync"
        BY <2>4 DEF SrcSync
      <3>3. inode' = [inode EXCEPT ![name["src"]] = inode'[name["src"]]]
        BY <1>0, <2>4 DEF SrcSync
      <3> HIDE DEF q
      <3> QED
        BY <1>18, <3>1, <3>2, <3>3
    <2> QED
      BY <1>19, <2>1, <2>2, <2>3, <2>4
  <1>20. ASSUME NEW p \in Procs, Seal(p) PROVE MapInv'
    <2> DEFINE q == [proc[p] EXCEPT !.pc = IF proc[p].fd = 0 THEN "use" ELSE "sealed"]
    <2>1. /\ q.fd = proc[p].fd /\ q.img = proc[p].img /\ q.handler = proc[p].handler
          /\ q.pc = IF proc[p].fd = 0 THEN "use" ELSE "sealed"
      BY <1>r DEF Process
    <2>2. Goes(p, q) /\ UNCHANGED <<name, index>> /\ proc[p].pc = "seal"
      BY <1>20 DEF Seal
    <2> HIDE DEF q
    <2>3. CASE proc[p].fd = 0
      BY <1>1, <1>20, <2>1, <2>2, <2>3 DEF Seal, MapInv
    <2>4. CASE proc[p].fd # 0
      <3>1. inode' = [inode EXCEPT ![proc[p].fd] = [Synced(inode[proc[p].fd]) EXCEPT !.head = "clean"]]
        BY <1>20, <2>4 DEF Seal
      <3>2. [Synced(inode[proc[p].fd]) EXCEPT !.head = "clean"].img = inode[proc[p].fd].img
        BY <1>0, <1>r, <2>4 DEF Synced, File
      <3>3. /\ inode'[proc[p].fd].img = inode[proc[p].fd].img
            /\ \A j \in Inodes \ {proc[p].fd} : inode'[j] = inode[j]
        BY <1>0, <1>r, <2>4, <3>1, <3>2
      <3>4. proc'[p] = q /\ \A r \in Procs \ {p} : proc'[r] = proc[r]
        BY <1>0, <2>2 DEF Goes
      <3>5. /\ p \in Root /\ name["src"] # proc[p].fd
            /\ \A r \in Procs \ {p} : ~Building(r) /\ r \notin Root /\ proc[r].fd # proc[p].fd
        BY <1>0, <2>2, <2>4 DEF MapInv, Building
      <3> QED
        BY <1>0, <1>r, <2>1, <2>2, <2>4, <3>3, <3>4, <3>5 DEF MapInv, Building
    <2> QED
      BY <2>3, <2>4
  <1>21. ASSUME NEW p \in Procs, Sealed(p) PROVE MapInv'
    <2> DEFINE q == [proc[p] EXCEPT !.pc = "use"]
    <2>1. q.fd = proc[p].fd /\ q.img = proc[p].img /\ q.handler = proc[p].handler /\ q.pc = "use"
      BY <1>r DEF Process
    <2>2. Goes(p, q) /\ UNCHANGED <<name, index>>
      BY <1>21 DEF Sealed
    <2> HIDE DEF q
    <2>3. proc'[p] = q /\ \A r \in Procs \ {p} : proc'[r] = proc[r]
      BY <1>0, <2>2 DEF Goes
    <2>4. \A j \in Inodes : inode'[j].img = inode[j].img /\ inode'[j].head = inode[j].head
      BY <1>0, <1>21 DEF Sealed, File
    <2> QED
      BY <1>0, <1>r, <2>1, <2>2, <2>3, <2>4 DEF MapInv, Building
  <1>22. ASSUME NEW p \in Procs, UnLock(p) \/ DoInstall(p) PROVE MapInv'
    <2>1. CASE UnLock(p)
      <3> DEFINE u == UnLocked(proc[p], FALSE)
                 r == [u EXCEPT !.pc = "run"]
      <3>1. /\ index' = Released(proc[p].handler, r.handler) /\ Goes(p, r)
            /\ UNCHANGED <<name, inode>>
        BY <2>1 DEF UnLock
      <3>2. /\ u \in Process /\ u.fd = proc[p].fd /\ u.img = proc[p].img
            /\ u.handler = NoHandler \/ u.handler = proc[p].handler
        BY <1>r, UnLockedType
      <3> HIDE DEF u
      <3>3. /\ r.pc = "run" /\ r.fd = proc[p].fd /\ r.img = proc[p].img
            /\ r.handler = NoHandler \/ r.handler = proc[p].handler
        BY <3>2 DEF Process
      <3> HIDE DEF r
      <3>4. proc[p].handler \in Handler
        BY <1>r DEF Process
      <3>5. index'["db"].mtime # 0
        BY <3>1, <3>4, ReleasedKeeps DEF MapInv
      <3>6. r.handler.write => r.handler.mtime # 0
        BY <3>3 DEF MapInv, NoHandler
      <3> QED
        BY <1>1, <3>1, <3>3, <3>5, <3>6
    <2>2. CASE DoInstall(p)
      <3>1. index'["db"].mtime # 0 /\ index'["db"].mtime \in Nat
        BY <2>2, InstallTime DEF MapInv
      <3>2. UNCHANGED <<name, inode>> /\ proc[p].count = 0
        BY <2>2 DEF DoInstall, Counted
      <3>6. PICK o \in Process :
               /\ Goes(p, o) /\ o.pc \in {"close", "use"} /\ o.fd = proc[p].fd /\ o.img = proc[p].img
               /\ o.handler = proc[p].handler \/ o.handler.mtime = index'["db"].mtime
        BY <2>2, <3>1, <3>2, InstallType
      <3>7. o.handler.write => o.handler.mtime # 0
        BY <3>1, <3>6 DEF MapInv
      <3> QED
        BY <1>1, <3>1, <3>2, <3>6, <3>7
    <2> QED
      BY <1>22, <2>1, <2>2
  <1>23. ASSUME NEW p \in Procs, Close(p) \/ Exit(p) \/ Kill(p) PROVE MapInv'
    <2>1. PICK o : /\ Goes(p, o) /\ o.pc \in {"idle", "exit"} /\ o.fd = 0
                   /\ o.handler = proc[p].handler \/ o.handler = NoHandler
      BY <1>23, EndKeeps
    <2>2. index'["db"].mtime # 0 /\ name' = name
      <3>1. proc[p].handler \in Handler
        BY <1>r DEF Process
      <3>2. index' = index \/ \E h : index' = Released(proc[p].handler, h)
        BY <1>23, EndKeeps
      <3> QED
        BY <1>23, <3>1, <3>2, EndKeeps, ReleasedKeeps DEF MapInv
    <2>3. /\ \A r \in Procs \ {p} : proc[r].fd # 0 => inode'[proc[r].fd] = inode[proc[r].fd]
          /\ name["src"] # 0 => inode'[name["src"]] = inode[name["src"]]
      <3>1. inode' = Kept(inode, name, proc') \/ inode' = inode
        BY <1>23, EndKeeps
      <3>2. \A r \in Procs \ {p} : proc'[r] = proc[r]
        BY <1>0, <2>1 DEF Goes
      <3> QED
        BY <1>0, <1>r, <3>1, <3>2 DEF Kept
    <2>4. proc'[p] = o /\ \A r \in Procs \ {p} : proc'[r] = proc[r]
      BY <1>0, <2>1 DEF Goes
    <2>5. ~Building(p)' /\ \A r \in Procs \ {p} : Building(r)' = Building(r)
      BY <2>1, <2>4 DEF Building
    <2>8. o.handler.write => o.handler.mtime # 0
      BY <2>1 DEF MapInv, NoHandler
    <2>6. ASSUME NEW t \in Procs
          PROVE  /\ proc'[t].handler.write => proc'[t].handler.mtime # 0
                 /\ proc'[t].fd # 0 => /\ proc'[t].fd # name'["src"]
                                       /\ inode'[proc'[t].fd].img = proc'[t].img
                 /\ proc'[t].pc \in {"fetch", "check", "unlink", "create"} =>
                       proc'[t].fd = 0 /\ proc'[t].img = Blank
                 /\ proc'[t].pc \in {"unlink", "create", "srcunlink", "srccreate", "srcwrite",
                                     "srchead", "srcsync", "sealed"} => t \in Root
                 /\ proc'[t].pc = "create" => name'["pkg"] = 0
                 /\ proc'[t].pc = "srccreate" => name'["src"] = 0
                 /\ proc'[t].pc = "srcread" /\ t \in Root /\ name'["src"] # 0 =>
                       inode'[name'["src"]].img.file["db"] = NoStamp
                 /\ proc'[t].pc = "srccheck" => proc'[t].img = Blank
      <3>1. CASE t = p
        BY <3>1, <2>1, <2>4, <2>8
      <3>2. CASE t # p
        BY <1>0, <1>r, <3>2, <2>2, <2>3, <2>4 DEF MapInv
      <3> QED
        BY <3>1, <3>2
    <2>7. ASSUME NEW t \in Procs, Building(t)'
          PROVE  /\ t \in Root
                 /\ inode'[proc'[t].fd].head = "clean" => proc'[t].img.file["db"] = NoStamp
                 /\ \A r \in Procs \ {t} : proc'[r].fd # proc'[t].fd
      <3>1. t # p /\ Building(t) /\ proc'[t] = proc[t] /\ proc[t].fd # 0
        BY <2>4, <2>5, <2>7 DEF Building
      <3>2. inode'[proc[t].fd] = inode[proc[t].fd]
        BY <2>3, <3>1
      <3> QED
        BY <1>0, <2>1, <2>4, <3>1, <3>2 DEF MapInv
    <2> QED
      BY <1>0, <2>2, <2>6, <2>7 DEF MapInv
  <1>24. ASSUME PowerLoss PROVE MapInv'
    <2>1. /\ \A p \in Procs : proc'[p].pc = "idle" /\ proc'[p].fd = 0 /\ ~proc'[p].handler.write
          /\ UNCHANGED <<index, name>>
      BY <1>24 DEF PowerLoss, Idle, NoHandler
    <2>2. \A p \in Procs : ~Building(p)'
      BY <2>1 DEF Building
    <2> QED
      BY <2>1, <2>2 DEF MapInv
  <1>25. ASSUME Foreign PROVE MapInv'
    <2>1. index'["db"].mtime # 0 /\ UNCHANGED <<name, inode, proc>>
      BY <1>0, <1>25 DEF Foreign
    <2> QED
      BY <2>1 DEF MapInv, Building
  <1>26. CASE UNCHANGED vars
    BY <1>26 DEF vars, MapInv, Building
  <1>27. ASSUME NEW p \in Procs, Build(p) PROVE MapInv'
    BY <1>7, <1>8, <1>9, <1>10, <1>11, <1>12, <1>14, <1>15, <1>16, <1>17, <1>19, <1>20, <1>21, <1>27
       DEF Build
  <1> QED
    BY <1>5, <1>6, <1>22, <1>23, <1>24, <1>25, <1>26, <1>27 DEF Next, Step

\* What a program has mapped never changes, for any processes of which one may
\* write, whoever is killed and whatever else rebuilds the caches meanwhile.
THEOREM Stable == Spec => []MapStable
  <1>1. Init => TypeOK /\ Counted /\ MapInv
    <2>1. Init => MapInv
      BY DEF Init, MapInv, Building, Idle, NoHandler, Sources, Caches
    <2> QED
      BY <2>1, InitType
  <1>2. TypeOK /\ Counted /\ MapInv /\ [Next]_vars => (TypeOK /\ Counted /\ MapInv)'
    BY TypeStep, MapStep
  <1>3. MapInv => MapStable
    BY DEF MapInv, MapStable
  <1> QED
    BY <1>1, <1>2, <1>3, PTL DEF Spec
=============================================================================
