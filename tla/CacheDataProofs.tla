-------------------------- MODULE CacheDataProofs ---------------------------
(***************************************************************************)
(* For any processes, index files, kills and power failures: a cache file  *)
(* that CheckValidity accepts is whole, and it is of the index files that  *)
(* are there now.                                                          *)
(*                                                                         *)
(* The argument follows a map through its build.  What a process holds is  *)
(* a function of where it is (Stage); what has reached the disk is clean   *)
(* only when the file and what was synced of it are the same finished map, *)
(* or when it has no stamp of the database and nobody takes it (FileOK);   *)
(* and an inode that nobody refers to is empty.                            *)
(***************************************************************************)
EXTENDS CacheProofs

\* Something has happened that excuses the time of the database.
Excused == risks # {}

\* The following speak of a database of generation g, whose time is excused or not.
\* A time of the database that is not of a generation to come.
Early(t, g, rc) == rc \/ t <= g

\* The packages of the database are there, of its stamp or of a later one.
Dated(img, g, rc) == rc \/ (img.file["db"].mtime <= img.pkgs["db"] /\ img.pkgs["db"] <= g)

\* The package list is not merged, or it is, with its own file provides.
ListNone(img) == img.file["list"] = NoStamp /\ img.pkgs["list"] = 0
ListDone(img) ==
    /\ img.pkgs["list"] # 0 /\ img.pkgs["list"] = img.file["list"].mtime
    /\ img.pkgs["list"] \in FileDeps["list"] => img.deps /\ <<"list", "list">> \in img.prov
NoDb(img) == img.file["db"] = NoStamp /\ img.pkgs["db"] = 0

\* What the two caches hold when they are finished.  A package cache without a
\* stamp of the list is of no use, but it may come to be.
SrcImage(img) == ListDone(img) /\ NoDb(img)
PkgImage(img, g, rc) ==
    img.file["list"] # NoStamp =>
        /\ Whole("pkg", img)
        /\ img.pkgs["list"] = img.file["list"].mtime /\ Dated(img, g, rc)
Finished(n, img, g, rc) == IF n = "src" THEN SrcImage(img) ELSE PkgImage(img, g, rc)

\* A file, and whatever a power failure makes of it.
FileOK(n, f, g, rc) ==
    \/ f.head # "clean" /\ f.sHead # "clean"
    \/ f.sImg = f.img /\ Finished(n, f.img, g, rc)
    \/ n = "pkg" /\ f.img.file["db"] = NoStamp /\ f.sImg.file["db"] = NoStamp

\* Before the source at is merged.
Ready(q) == IF q.at = "list" THEN q.img = Blank
            ELSE NoDb(q.img) /\ (ListNone(q.img) \/ ListDone(q.img))

\* The map of a process in state q.
Stage(q, g, rc) ==
    /\ q.pc = "srcread" => q.img = Blank /\ q.at = "db"
    /\ q.pc = "generator" => Ready(q)
    /\ q.pc = "select" => Ready(q) /\ ~q.found
    /\ q.pc = "merge" =>
          /\ ~q.found
          /\ IF q.at = "list"
             THEN NoDb(q.img) /\ q.opened # 0 /\ q.opened = q.img.file["list"].mtime
             ELSE (ListNone(q.img) \/ ListDone(q.img)) /\ Early(q.img.file["db"].mtime, g, rc)
    /\ q.pc = "provides" =>
          /\ q.found <=> q.img.pkgs[q.at] \in FileDeps[q.at]
          /\ q.img.pkgs[q.at] # 0
          /\ IF q.at = "list"
             THEN NoDb(q.img) /\ q.img.pkgs["list"] = q.img.file["list"].mtime
             ELSE (ListNone(q.img) \/ ListDone(q.img)) /\ Dated(q.img, g, rc)
    /\ q.pc \in {"srcunlink", "srccreate", "srcwrite", "srchead", "srcsync"} =>
          SrcImage(q.img) /\ ~q.found
    /\ q.pc = "seal" => PkgImage(q.img, g, rc)

\* The files that process p is writing.
Writes(p) ==
    /\ Building(p) => inode[proc[p].fd].sHead # "clean" /\ inode[proc[p].fd].sImg = Blank
    /\ proc[p].pc = "srcread" /\ name["src"] # 0 /\ inode[name["src"]].head = "none" =>
          inode[name["src"]].img = Blank
    /\ proc[p].pc \in {"srcwrite", "srchead", "srcsync"} => name["src"] # 0
    /\ proc[p].pc \in {"srcwrite", "srchead"} =>
          inode[name["src"]].head # "clean" /\ inode[name["src"]].sHead # "clean"
    /\ proc[p].pc = "srchead" => inode[name["src"]].img = proc[p].img

DataInv ==
    /\ \A i \in Unused : inode[i] = Fresh
    /\ index["list"].mtime = index["list"].gen
    /\ \A n \in Caches : name[n] # 0 => FileOK(n, inode[name[n]], index["db"].gen, Excused)
    /\ \A p \in Procs : /\ proc[p].pc \in {"idle", "exit"} => proc[p].fd = 0
                        /\ Early(proc[p].handler.mtime, index["db"].gen, Excused)
                        /\ Stage(proc[p], index["db"].gen, Excused)
                        /\ Writes(p)

-----------------------------------------------------------------------------
(* What time, synchronisation and power failures do to files.              *)

\* More generations, and the excuse, leave true what was.
LEMMA Later ==
    ASSUME NEW g \in Nat, NEW h \in Nat, g <= h, NEW r \in BOOLEAN, NEW s \in BOOLEAN, r => s
    PROVE  /\ \A t \in Nat : Early(t, g, r) => Early(t, h, s)
           /\ \A n \in Caches, f \in File : FileOK(n, f, g, r) => FileOK(n, f, h, s)
           /\ \A q \in Process : Stage(q, g, r) => Stage(q, h, s)
  <1>1. \A t \in Nat : Early(t, g, r) => Early(t, h, s)
    BY DEF Early
  <1>2. \A img \in Image : Dated(img, g, r) => Dated(img, h, s)
    <2> SUFFICES ASSUME NEW img \in Image, Dated(img, g, r) PROVE Dated(img, h, s)
      OBVIOUS
    <2>1. img.pkgs["db"] \in Nat /\ img.file["db"].mtime \in Nat
      BY DEF Image, Stamp, Sources
    <2> QED
      BY <2>1 DEF Dated
  <1>3. \A img \in Image : PkgImage(img, g, r) => PkgImage(img, h, s)
    BY <1>2 DEF PkgImage
  <1>4. \A n \in Caches, f \in File : FileOK(n, f, g, r) => FileOK(n, f, h, s)
    BY <1>3 DEF FileOK, Finished, File
  <1>5. \A q \in Process : Stage(q, g, r) => Stage(q, h, s)
    <2> SUFFICES ASSUME NEW q \in Process, Stage(q, g, r) PROVE Stage(q, h, s)
      OBVIOUS
    <2>1. q.img \in Image /\ q.img.file["db"].mtime \in Nat
      BY DEF Process, Image, Stamp, Sources
    <2> QED
      BY <1>1, <1>2, <1>3, <2>1 DEF Stage
  <1> QED
    BY <1>1, <1>4, <1>5

LEMMA FileParts ==
    ASSUME NEW f \in File
    PROVE  /\ f.head \in Head /\ f.sHead \in Head /\ f.img \in Image /\ f.sImg \in Image
           /\ Synced(f).head = f.head /\ Synced(f).img = f.img
           /\ Synced(f).sHead = f.head /\ Synced(f).sImg = f.img
           /\ [f EXCEPT !.sHead = f.head].head = f.head /\ [f EXCEPT !.sHead = f.head].img = f.img
           /\ [f EXCEPT !.sHead = f.head].sHead = f.head /\ [f EXCEPT !.sHead = f.head].sImg = f.sImg
  BY DEF File, Synced

LEMMA SyncOK ==
    ASSUME NEW n \in Caches, NEW f \in File, NEW g, NEW r, FileOK(n, f, g, r)
    PROVE  FileOK(n, Synced(f), g, r) /\ FileOK(n, [f EXCEPT !.sHead = f.head], g, r)
  BY FileParts DEF FileOK

\* An image put together from parts of one is that one.
LEMMA OneImage ==
    ASSUME NEW img \in Image
    PROVE  [file |-> img.file, pkgs |-> img.pkgs, deps |-> img.deps, prov |-> img.prov] = img
  BY DEF Image

\* Any part of what was not synced may be lost.
LEMMA LossOK ==
    ASSUME NEW n \in Caches, NEW f \in File, NEW g, NEW r, FileOK(n, f, g, r),
           NEW e \in AfterLoss(f)
    PROVE  FileOK(n, e, g, r)
  <1>1. PICK h \in {f.head, f.sHead}, x \in {f.img, f.sImg}, y \in {f.img, f.sImg},
             z \in {f.img, f.sImg} :
          \E i \in {[file |-> x.file, pkgs |-> y.pkgs, deps |-> z.deps, prov |-> z.prov]} :
             e = [head |-> h, img |-> i, sHead |-> h, sImg |-> i]
    BY DEF AfterLoss
  <1> DEFINE i == [file |-> x.file, pkgs |-> y.pkgs, deps |-> z.deps, prov |-> z.prov]
  <1>2. e.head = h /\ e.sHead = h /\ e.img = i /\ e.sImg = i /\ i.file = x.file
    BY <1>1
  <1>3. CASE f.head # "clean" /\ f.sHead # "clean"
    BY <1>2, <1>3 DEF FileOK
  <1>4. CASE f.sImg = f.img /\ Finished(n, f.img, g, r)
    <2>1. i = f.img
      BY <1>4, FileParts, OneImage
    <2> QED
      BY <1>2, <1>4, <2>1 DEF FileOK
  <1>5. CASE n = "pkg" /\ f.img.file["db"] = NoStamp /\ f.sImg.file["db"] = NoStamp
    BY <1>2, <1>5 DEF FileOK
  <1> QED
    BY <1>3, <1>4, <1>5 DEF FileOK

\* A file that is not clean, on disk or in memory, may hold anything.
LEMMA DirtyOK ==
    ASSUME NEW n, NEW f, NEW g, NEW r, f.head # "clean", f.sHead # "clean"
    PROVE  FileOK(n, f, g, r)
  BY DEF FileOK

-----------------------------------------------------------------------------
(* The map of a process, from one place to the next.                       *)

\* CollectFileProvides only adds to the provides.
LEMMA CollectedHas ==
    ASSUME NEW img \in Image, NEW from \in SUBSET Sources
    PROVE  /\ Collected(img, from).file = img.file /\ Collected(img, from).pkgs = img.pkgs
           /\ Collected(img, from).deps = img.deps /\ img.prov \subseteq Collected(img, from).prov
           /\ \A s \in from, t \in Sources :
                 img.pkgs[s] # 0 /\ img.pkgs[t] # 0 => <<s, t>> \in Collected(img, from).prov
  <1> DEFINE new == {st \in from \X Sources : img.pkgs[st[1]] # 0 /\ img.pkgs[st[2]] # 0}
             c == [img EXCEPT !.prov = @ \cup new]
  <1>1. /\ c.file = img.file /\ c.pkgs = img.pkgs /\ c.deps = img.deps
        /\ c.prov = img.prov \cup new
    BY DEF Image
  <1>2. \A s \in from, t \in Sources : img.pkgs[s] # 0 /\ img.pkgs[t] # 0 => <<s, t>> \in new
    OBVIOUS
  <1>3. Collected(img, from) = c
    BY DEF Collected
  <1> HIDE DEF new, c
  <1> QED
    BY <1>1, <1>2, <1>3

\* What CollectFileProvides makes of the two sources.
LEMMA CollectDone ==
    ASSUME NEW q \in Process, NEW g, NEW r, Stage(q, g, r), q.pc = "provides"
    PROVE  /\ CollectFileProvides(q).file = q.img.file /\ CollectFileProvides(q).pkgs = q.img.pkgs
           /\ q.at = "list" => SrcImage(CollectFileProvides(q))
           /\ q.at = "db" => PkgImage(CollectFileProvides(q), g, r)
  <1> DEFINE d == [q.img EXCEPT !.deps = TRUE]
             c == CollectFileProvides(q)
  <1>0. /\ q.img \in Image /\ d \in Image /\ q.found \in BOOLEAN /\ q.at \in {"list", "db"}
        /\ d.file = q.img.file /\ d.pkgs = q.img.pkgs /\ d.prov = q.img.prov /\ d.deps = TRUE
        /\ Sources = {"list", "db"} /\ {"list"} \in SUBSET Sources /\ {"db"} \in SUBSET Sources
    BY DEF Process, Image, Sources
  <1>1. CASE q.at = "list"
    <2>1. q.found <=> q.img.pkgs["list"] \in FileDeps["list"]
      BY <1>1 DEF Stage
    <2>2. /\ NoDb(q.img) /\ q.img.pkgs["list"] # 0
          /\ q.img.pkgs["list"] = q.img.file["list"].mtime
      BY <1>1 DEF Stage
    <2>3. CASE q.found
      <3>1. c = Collected(d, {"list"})
        BY <1>1, <2>3 DEF CollectFileProvides
      <3> HIDE DEF d, c
      <3>a. \A s \in {"list"}, t \in Sources :
               d.pkgs[s] # 0 /\ d.pkgs[t] # 0 => <<s, t>> \in c.prov
        BY <1>0, <3>1, CollectedHas
      <3>b. c.file = d.file /\ c.pkgs = d.pkgs /\ c.deps = d.deps
        BY <1>0, <3>1, CollectedHas
      <3>2. /\ c.file = q.img.file /\ c.pkgs = q.img.pkgs /\ c.deps = TRUE
            /\ <<"list", "list">> \in c.prov
        BY <1>0, <2>2, <3>a, <3>b
      <3> QED
        BY <1>1, <2>2, <3>2 DEF SrcImage, ListDone, NoDb, c
    <2>4. CASE ~q.found
      <3>1. c = q.img
        BY <1>1, <2>4 DEF CollectFileProvides
      <3> QED
        BY <1>1, <2>1, <2>2, <2>4, <3>1 DEF SrcImage, ListDone, NoDb
    <2> QED
      BY <2>3, <2>4
  <1>2. CASE q.at = "db"
    <2>1. q.found <=> q.img.pkgs["db"] \in FileDeps["db"]
      BY <1>2 DEF Stage
    <2>2. /\ ListNone(q.img) \/ ListDone(q.img)
          /\ q.img.pkgs["db"] # 0 /\ Dated(q.img, g, r)
      BY <1>2 DEF Stage
    <2>3. /\ c.file = q.img.file /\ c.pkgs = q.img.pkgs
          /\ q.img.pkgs["list"] # 0 =>
                /\ q.found => {"list", "db"} \X {"list", "db"} \subseteq c.prov
                /\ q.img.deps => <<"db", "list">> \in c.prov
                /\ q.img.prov \subseteq c.prov
      <3>1. CASE q.found
        <4>1. c = Collected(d, Sources)
          BY <1>2, <3>1 DEF CollectFileProvides
        <4> HIDE DEF d, c
        <4>2. \A s \in Sources, t \in Sources :
                 d.pkgs[s] # 0 /\ d.pkgs[t] # 0 => <<s, t>> \in c.prov
          BY <1>0, <4>1, CollectedHas
        <4>3. c.file = d.file /\ c.pkgs = d.pkgs /\ d.prov \subseteq c.prov
          BY <1>0, <4>1, CollectedHas
        <4> QED
          BY <1>0, <2>2, <4>2, <4>3
      <3>2. CASE ~q.found /\ q.img.deps
        <4>1. c = Collected(q.img, {"db"})
          BY <1>2, <3>2 DEF CollectFileProvides
        <4> HIDE DEF d, c
        <4> QED
          BY <1>0, <2>2, <3>2, <4>1, CollectedHas
      <3>3. CASE ~q.found /\ ~q.img.deps
        <4>1. c = q.img
          BY <1>2, <3>3 DEF CollectFileProvides
        <4> QED
          BY <3>3, <4>1
      <3> QED
        BY <3>1, <3>2, <3>3
    <2> HIDE DEF c
    <2>4. ASSUME q.img.file["list"] # NoStamp PROVE Whole("pkg", c)
      <3>1. ListDone(q.img) /\ Covers("pkg") = {"list", "db"}
        BY <1>0, <2>2, <2>4 DEF ListNone, Covers
      <3>2. c.pkgs["list"] # 0 /\ c.pkgs["db"] # 0
        BY <2>2, <2>3, <3>1 DEF ListDone
      <3>3. c.pkgs["list"] \in FileDeps["list"] =>
               <<"list", "list">> \in c.prov /\ <<"db", "list">> \in c.prov
        BY <2>3, <3>1 DEF ListDone
      <3>4. c.pkgs["db"] \in FileDeps["db"] =>
               <<"list", "db">> \in c.prov /\ <<"db", "db">> \in c.prov
        BY <2>1, <2>3, <3>1 DEF ListDone
      <3> QED
        BY <3>1, <3>2, <3>3, <3>4 DEF Whole
    <2>5. PkgImage(c, g, r)
      BY <2>2, <2>3, <2>4 DEF PkgImage, ListNone, ListDone, Dated
    <2> QED
      BY <1>2, <2>3, <2>5 DEF c
  <1> QED
    BY <1>0, <1>1, <1>2

\* Select stamps the source, Merge reads it: of the list what was opened, of the
\* database what is there now.
LEMMA SelectStage ==
    ASSUME NEW q \in Process, NEW g \in Nat, NEW r \in BOOLEAN, Stage(q, g, r), q.pc = "select",
           NEW st \in Stamp, NEW n \in Nat \ {0},
           q.at = "list" => st.mtime = n, q.at = "db" => Early(st.mtime, g, r)
    PROVE  Stage([q EXCEPT !.pc = "merge", !.opened = n, !.img.file[q.at] = st], g, r)
  <1> DEFINE e == [q EXCEPT !.pc = "merge", !.opened = n, !.img.file[q.at] = st]
  <1>1. /\ e.pc = "merge" /\ e.opened = n /\ e.at = q.at /\ e.found = q.found
        /\ e.img.pkgs = q.img.pkgs /\ e.img.deps = q.img.deps /\ e.img.prov = q.img.prov
        /\ e.img.file = [q.img.file EXCEPT ![q.at] = st]
    BY DEF Process, Image
  <1>s. SUFFICES Stage(e, g, r)
    OBVIOUS
  <1>2. q.at \in {"list", "db"} /\ q.img.file \in [{"list", "db"} -> Stamp]
    BY DEF Process, Image, Sources
  <1> HIDE DEF e
  <1>3. CASE q.at = "list"
    <2>1. q.img = Blank /\ ~q.found
      BY <1>3 DEF Stage, Ready
    <2>2. NoDb(e.img) /\ e.img.file["list"] = st
      BY <1>1, <1>2, <1>3, <2>1 DEF NoDb, Blank, Sources
    <2> QED
      BY <1>1, <1>3, <2>1, <2>2 DEF Stage
  <1>4. CASE q.at = "db"
    <2>1. (ListNone(q.img) \/ ListDone(q.img)) /\ ~q.found
      BY <1>4 DEF Stage, Ready
    <2>2. (ListNone(e.img) \/ ListDone(e.img)) /\ e.img.file["db"] = st
      BY <1>1, <1>2, <1>4, <2>1 DEF ListNone, ListDone
    <2> QED
      BY <1>1, <1>4, <2>1, <2>2 DEF Stage
  <1> QED
    BY <1>2, <1>3, <1>4

LEMMA MergeStage ==
    ASSUME NEW q \in Process, NEW g \in Nat, NEW r \in BOOLEAN, Stage(q, g, r), q.pc = "merge",
           NEW n \in Nat \ {0}, q.at = "list" => n = q.opened, q.at = "db" => n = g
    PROVE  Stage([q EXCEPT !.pc = "provides", !.img.pkgs[q.at] = n, !.opened = 0,
                           !.found = @ \/ n \in FileDeps[q.at]], g, r)
  <1> DEFINE e == [q EXCEPT !.pc = "provides", !.img.pkgs[q.at] = n, !.opened = 0,
                            !.found = @ \/ n \in FileDeps[q.at]]
  <1>1. /\ e.pc = "provides" /\ e.at = q.at /\ e.found = (q.found \/ n \in FileDeps[q.at])
        /\ e.img.file = q.img.file /\ e.img.deps = q.img.deps /\ e.img.prov = q.img.prov
        /\ e.img.pkgs = [q.img.pkgs EXCEPT ![q.at] = n]
    BY DEF Process, Image
  <1>s. SUFFICES Stage(e, g, r)
    OBVIOUS
  <1>2. /\ q.at \in {"list", "db"} /\ q.img.pkgs \in [{"list", "db"} -> Nat]
        /\ q.img.file["db"].mtime \in Nat /\ ~q.found
    BY DEF Process, Image, Stamp, Sources, Stage
  <1>3. e.img.pkgs[q.at] = n /\ (e.found <=> n \in FileDeps[q.at])
    BY <1>1, <1>2
  <1> HIDE DEF e
  <1>4. CASE q.at = "list"
    <2>1. NoDb(q.img) /\ q.opened = q.img.file["list"].mtime
      BY <1>4 DEF Stage
    <2>2. NoDb(e.img)
      BY <1>1, <1>2, <1>4, <2>1 DEF NoDb
    <2> QED
      BY <1>1, <1>3, <1>4, <2>1, <2>2 DEF Stage
  <1>5. CASE q.at = "db"
    <2>1. (ListNone(q.img) \/ ListDone(q.img)) /\ Early(q.img.file["db"].mtime, g, r)
      BY <1>5 DEF Stage
    <2>2. (ListNone(e.img) \/ ListDone(e.img)) /\ Dated(e.img, g, r)
      BY <1>1, <1>2, <1>3, <1>5, <2>1 DEF ListNone, ListDone, Early, Dated
    <2> QED
      BY <1>1, <1>3, <1>5, <2>2 DEF Stage
  <1> QED
    BY <1>2, <1>4, <1>5

\* Where nothing is asked of a map, it may hold anything.
LEMMA NoStage ==
    ASSUME NEW q, NEW g, NEW r,
           q.pc \notin {"srcread", "generator", "select", "merge", "provides", "srcunlink", "srccreate",
                        "srcwrite", "srchead", "srcsync", "seal"}
    PROVE  Stage(q, g, r)
  BY DEF Stage

-----------------------------------------------------------------------------
(* A step of a process.                                                    *)

\* Nobody but p writes to the source cache, and none builds beside it.
LEMMA Alone ==
    ASSUME TypeOK, MapInv, NEW p \in Root, NEW r \in Procs \ {p}
    PROVE  /\ ~Building(r)
           /\ proc[r].pc \notin {"unlink", "create", "srcunlink", "srccreate", "srcwrite", "srchead",
                                 "srcsync", "sealed"}
  BY ConstantsOK DEF MapInv

\* Processes that do not move keep what they are writing, when nobody touches it.
LEMMA OthersWrite ==
    ASSUME TypeOK, MapInv, DataInv, NEW p \in Root, NEW r \in Procs \ {p}, proc'[r] = proc[r],
           \/ name'["src"] = 0
           \/ inode'[name'["src"]].head # "none" \/ inode'[name'["src"]].img = Blank
           \/ /\ name'["src"] = name["src"]
              /\ inode'[name["src"]].head = inode[name["src"]].head
              /\ inode'[name["src"]].img = inode[name["src"]].img
    PROVE  Writes(r)'
  <1>1. ~Building(r)'
    BY Alone DEF Building
  <1>2. proc[r].pc \notin {"srcwrite", "srchead", "srcsync"}
    BY Alone
  <1>3. Writes(r)
    BY DEF DataInv
  <1> QED
    BY <1>1, <1>2, <1>3 DEF Writes

\* What is to be shown of a step of p to q.
LEMMA Frame ==
    ASSUME TypeOK, TypeOK', DataInv, NEW p \in Procs, NEW q \in Process, Goes(p, q),
           index'["list"].mtime = index'["list"].gen, index["db"].gen <= index'["db"].gen,
           risks \subseteq risks',
           q.pc \in {"idle", "exit"} => q.fd = 0,
           Early(q.handler.mtime, index'["db"].gen, Excused'), Stage(q, index'["db"].gen, Excused'),
           Writes(p)', \A r \in Procs \ {p} : Writes(r)',
           \A i \in Unused' : inode'[i] = Fresh,
           \A n \in Caches : name'[n] # 0 =>
               FileOK(n, inode'[name'[n]], index["db"].gen, Excused)
    PROVE  DataInv'
  <1> DEFINE g == index["db"].gen
             h == index'["db"].gen
  <1>1. /\ g \in Nat /\ h \in Nat /\ g <= h /\ Excused \in BOOLEAN /\ Excused' \in BOOLEAN
        /\ Excused => Excused'
    BY DEF TypeOK, Sources, Excused
  <1>2. \A n \in Caches : name'[n] # 0 => inode'[name'[n]] \in File
    BY DEF TypeOK
  <1>3. \A r \in Procs : proc[r] \in Process /\ proc[r].handler.mtime \in Nat
    BY DEF TypeOK, Process, Handler
  <1>4. proc'[p] = q /\ \A r \in Procs \ {p} : proc'[r] = proc[r]
    BY DEF Goes, TypeOK
  <1> HIDE DEF g, h
  <1>5. \A n \in Caches : name'[n] # 0 => FileOK(n, inode'[name'[n]], h, Excused')
    BY <1>1, <1>2, Later DEF g
  <1>6. ASSUME NEW r \in Procs \ {p}
        PROVE  /\ proc[r].pc \in {"idle", "exit"} => proc[r].fd = 0
               /\ Early(proc[r].handler.mtime, h, Excused') /\ Stage(proc[r], h, Excused')
    <2>1. /\ proc[r].pc \in {"idle", "exit"} => proc[r].fd = 0
          /\ Early(proc[r].handler.mtime, g, Excused) /\ Stage(proc[r], g, Excused)
      BY DEF DataInv, g
    <2> QED
      BY <1>1, <1>3, <2>1, Later
  <1>7. \A r \in Procs : /\ proc'[r].pc \in {"idle", "exit"} => proc'[r].fd = 0
                         /\ Early(proc'[r].handler.mtime, h, Excused') /\ Stage(proc'[r], h, Excused')
                         /\ Writes(r)'
    BY <1>4, <1>6 DEF h
  <1> QED
    BY <1>5, <1>7 DEF DataInv, h

\* A step of a build leaves the index files and the handler alone.
LEMMA BuildFrame ==
    ASSUME TypeOK, TypeOK', DataInv, NEW p \in Procs, NEW q \in Process, Goes(p, q),
           UNCHANGED <<index, risks>>, q.handler = proc[p].handler, q.pc \notin {"idle", "exit"},
           Stage(q, index["db"].gen, Excused),
           Writes(p)', \A r \in Procs \ {p} : Writes(r)',
           \A i \in Unused' : inode'[i] = Fresh,
           \A n \in Caches : name'[n] # 0 =>
               FileOK(n, inode'[name'[n]], index["db"].gen, Excused)
    PROVE  DataInv'
  <1>1. index["db"].gen \in Nat
    BY DEF TypeOK, Sources
  <1>2. Early(q.handler.mtime, index["db"].gen, Excused) /\ index["list"].mtime = index["list"].gen
    BY DEF DataInv
  <1>3. Excused' = Excused
    BY DEF Excused
  <1> QED
    BY <1>1, <1>2, <1>3, Frame

\* Steps that touch no file.
LEMMA Still ==
    ASSUME TypeOK, DataInv, NEW p \in Procs, NEW q, Goes(p, q), UNCHANGED <<name, inode>>,
           q.fd = proc[p].fd \/ proc[p].fd = 0
    PROVE  /\ \A r \in Procs \ {p} : Writes(r)'
           /\ \A i \in Unused' : inode'[i] = Fresh
           /\ \A n \in Caches : name'[n] # 0 =>
                 FileOK(n, inode'[name'[n]], index["db"].gen, Excused)
  <1>1. proc'[p] = q /\ \A r \in Procs \ {p} : proc'[r] = proc[r]
    BY DEF Goes, TypeOK
  <1>2. \A r \in Procs \ {p} : Writes(r)'
    BY <1>1 DEF DataInv, Writes, Building
  <1>3. \A i \in Unused' : i \in Unused
    BY <1>1, ConstantsOK DEF Unused
  <1> QED
    BY <1>2, <1>3 DEF DataInv

\* Steps that touch only the file of p.
LEMMA OwnFile ==
    ASSUME TypeOK, MapInv, DataInv, NEW p \in Root, NEW q, Goes(p, q), UNCHANGED <<name, index, risks>>,
           q.fd = proc[p].fd, q.fd # 0, NEW f \in File, inode' = [inode EXCEPT ![q.fd] = f],
           name["pkg"] = q.fd => FileOK("pkg", f, index["db"].gen, Excused),
           q.pc \in {"generator", "select", "merge", "provides", "srcunlink", "seal"} =>
               f.sHead # "clean" /\ f.sImg = Blank,
           q.pc \in {"generator", "select", "merge", "provides", "srcunlink", "seal", "sealed", "use"}
    PROVE  /\ Writes(p)' /\ \A r \in Procs \ {p} : Writes(r)'
           /\ \A i \in Unused' : inode'[i] = Fresh
           /\ \A n \in Caches : name'[n] # 0 =>
                 FileOK(n, inode'[name'[n]], index["db"].gen, Excused)
  <1>0. p \in Procs /\ q.fd \in Inodes /\ q.fd # name["src"]
    BY ConstantsOK DEF TypeOK, Process, MapInv
  <1>1. proc'[p] = q /\ \A r \in Procs \ {p} : proc'[r] = proc[r]
    BY <1>0 DEF Goes, TypeOK
  <1>2. inode'[q.fd] = f /\ \A i \in Inodes \ {q.fd} : inode'[i] = inode[i]
    BY <1>0 DEF TypeOK
  <1>3. Writes(p)'
    BY <1>1, <1>2 DEF Writes, Building
  <1>4. name["src"] # 0 => inode'[name["src"]] = inode[name["src"]]
    BY <1>0, <1>2 DEF TypeOK, Caches
  <1>5. \A r \in Procs \ {p} : Writes(r)'
    BY <1>0, <1>1, <1>4, OthersWrite
  <1>6. \A i \in Unused' : i \in Unused /\ i # q.fd
    BY <1>0, <1>1 DEF Unused
  <1>7. \A i \in Unused' : inode'[i] = Fresh
    BY <1>2, <1>6 DEF DataInv, Unused
  <1>8. \A n \in Caches : name[n] # 0 => FileOK(n, inode'[name[n]], index["db"].gen, Excused)
    BY <1>0, <1>2, <1>4 DEF DataInv, Caches, TypeOK
  <1> QED
    BY <1>3, <1>5, <1>7, <1>8

\* Steps that touch only the source cache.
LEMMA SrcFile ==
    ASSUME TypeOK, MapInv, DataInv, NEW p \in Root, NEW q, Goes(p, q), UNCHANGED <<name, index, risks>>,
           q.fd = proc[p].fd, proc[p].pc \in {"srcwrite", "srchead", "srcsync"},
           q.pc \in {"srchead", "srcsync", "select"}, name["src"] # 0,
           NEW f \in File, inode' = [inode EXCEPT ![name["src"]] = f],
           FileOK("src", f, index["db"].gen, Excused),
           f.head # "none" \/ (f.head = inode[name["src"]].head /\ f.img = inode[name["src"]].img),
           q.pc = "srchead" => f.head # "clean" /\ f.sHead # "clean" /\ f.img = q.img
    PROVE  /\ Writes(p)' /\ \A r \in Procs \ {p} : Writes(r)'
           /\ \A i \in Unused' : inode'[i] = Fresh
           /\ \A n \in Caches : name'[n] # 0 =>
                 FileOK(n, inode'[name'[n]], index["db"].gen, Excused)
  <1>0. /\ p \in Procs /\ name["src"] \in Inodes /\ name["src"] # name["pkg"]
        /\ q.fd # 0 => q.fd \in Inodes \ {name["src"]}
    BY ConstantsOK DEF TypeOK, Process, MapInv, Caches
  <1>1. proc'[p] = q /\ \A r \in Procs \ {p} : proc'[r] = proc[r]
    BY <1>0 DEF Goes, TypeOK
  <1>2. inode'[name["src"]] = f /\ \A i \in Inodes \ {name["src"]} : inode'[i] = inode[i]
    BY <1>0 DEF TypeOK
  <1>3. Writes(p)'
    <2>1. Building(p)' => Building(p) /\ inode'[q.fd] = inode[q.fd]
      BY <1>0, <1>1, <1>2 DEF Building
    <2> QED
      BY <1>0, <1>1, <1>2, <2>1 DEF DataInv, Writes
  <1>4. \A r \in Procs \ {p} : Writes(r)'
    BY <1>0, <1>1, <1>2, OthersWrite
  <1>5. \A i \in Unused' : i \in Unused /\ i # name["src"]
    BY <1>0, <1>1 DEF Unused, Caches
  <1>6. \A i \in Unused' : inode'[i] = Fresh
    BY <1>2, <1>5 DEF DataInv, Unused
  <1>7. \A n \in Caches : name[n] # 0 => FileOK(n, inode'[name[n]], index["db"].gen, Excused)
    BY <1>0, <1>2 DEF DataInv, Caches, TypeOK
  <1> QED
    BY <1>3, <1>4, <1>6, <1>7

-----------------------------------------------------------------------------
(* The steps of a build.                                                   *)

\* Where a build that goes wrong leads.
LEMMA FailsData ==
    ASSUME TypeOK, TypeOK', DataInv, NEW p \in Procs, Fails(p), UNCHANGED <<index, name, risks>>
    PROVE  DataInv'
  <1> DEFINE q == [proc[p] EXCEPT !.pc = "close"]
  <1>1. proc[p] \in Process /\ proc \in [Procs -> Process]
    BY DEF TypeOK
  <1>2. q.pc = "close" /\ q.fd = proc[p].fd /\ q.handler = proc[p].handler /\ q \in Process
    BY <1>1 DEF Process, Places
  <1>3. Goes(p, q) /\ UNCHANGED <<index, name, inode, risks>>
    BY DEF Fails
  <1> HIDE DEF q
  <1>4. proc'[p] = q
    BY <1>1, <1>3 DEF Goes
  <1>5. Writes(p)' /\ Stage(q, index["db"].gen, Excused)
    BY <1>2, <1>4, NoStage DEF Writes, Building
  <1> QED
    BY <1>2, <1>3, <1>5, Still, BuildFrame

\* Steps that change the map of p, and the header of its file if it has one.
LEMMA MapsData ==
    ASSUME TypeOK, TypeOK', MapInv, DataInv, NEW p \in Procs, NEW q, NEW head \in Head,
           Maps(p, q, head), UNCHANGED <<index, name, risks>>, q \in Process,
           q.fd = proc[p].fd, q.handler = proc[p].handler, Stage(q, index["db"].gen, Excused),
           proc[p].pc \in {"srcread", "select", "merge", "provides"},
           q.pc \in {"generator", "select", "merge", "provides", "srcunlink", "seal"},
           head # "clean" \/ q.img.file["db"] = NoStamp
    PROVE  DataInv'
  <1>0. Goes(p, q) /\ q.pc \notin {"idle", "exit"}
    BY DEF Maps
  <1>1. proc'[p] = q
    BY <1>0 DEF Goes, TypeOK
  <1>2. CASE q.fd = 0
    <2>1. inode' = inode
      BY <1>2 DEF Maps
    <2>2. Writes(p)'
      BY <1>1, <1>2 DEF Writes, Building
    <2> QED
      BY <1>0, <2>1, <2>2, Still, BuildFrame
  <1>3. CASE q.fd # 0
    <2> DEFINE f == [inode[q.fd] EXCEPT !.img = q.img, !.head = head]
    <2>1. q.fd \in Inodes /\ inode[q.fd] \in File
      BY <1>3 DEF Process, TypeOK
    <2>2. /\ f \in File /\ f.head = head /\ f.img = q.img
          /\ f.sHead = inode[q.fd].sHead /\ f.sImg = inode[q.fd].sImg
      BY <2>1 DEF File, Process
    <2>3. inode' = [inode EXCEPT ![q.fd] = f]
      BY <1>3, <2>1 DEF Maps, File, TypeOK
    <2>4. Building(p) /\ p \in Root
      BY <1>3 DEF Building, MapInv
    <2>5. inode[q.fd].sHead # "clean" /\ inode[q.fd].sImg = Blank
      BY <2>4 DEF DataInv, Writes
    <2> HIDE DEF f
    <2>6. FileOK("pkg", f, index["db"].gen, Excused)
      <3>1. Blank.file["db"] = NoStamp
        BY DEF Blank, Sources
      <3> QED
        BY <2>2, <2>5, <3>1 DEF FileOK
    <2>7. /\ Writes(p)' /\ \A r \in Procs \ {p} : Writes(r)'
          /\ \A i \in Unused' : inode'[i] = Fresh
          /\ \A n \in Caches : name'[n] # 0 =>
                FileOK(n, inode'[name'[n]], index["db"].gen, Excused)
      BY <1>0, <1>3, <2>2, <2>3, <2>4, <2>5, <2>6, OwnFile
    <2> QED
      BY <1>0, <2>7, BuildFrame
  <1> QED
    BY <1>2, <1>3

LEMMA UnlinkData ==
    ASSUME TypeOK, TypeOK', MapInv, DataInv, NEW p \in Procs, UnlinkPkg(p) \/ UnlinkSrc(p)
    PROVE  DataInv'
  <1>1. PICK pc \in {"unlink", "srcunlink"}, next \in {"create", "srccreate"}, n \in Caches :
           /\ Unlink(p, pc, n, next)
           /\ next = IF pc = "unlink" THEN "create" ELSE "srccreate"
           /\ n = IF pc = "unlink" THEN "pkg" ELSE "src"
    BY DEF UnlinkPkg, UnlinkSrc, Caches
  <1> DEFINE q == [proc[p] EXCEPT !.pc = next]
  <1>2. /\ q.pc = next /\ q.fd = proc[p].fd /\ q.img = proc[p].img /\ q.found = proc[p].found
        /\ q.handler = proc[p].handler
    BY DEF TypeOK, Process
  <1>3. /\ Goes(p, q) /\ UNCHANGED <<index, risks>> /\ proc[p].pc = pc
        /\ name' = [name EXCEPT ![n] = 0] /\ inode' = Kept(inode, name', proc)
    BY <1>1 DEF Unlink
  <1> HIDE DEF q
  <1>4. proc'[p] = q /\ \A r \in Procs \ {p} : proc'[r] = proc[r]
    BY <1>3 DEF Goes, TypeOK
  <1>5. q \in Process /\ p \in Root
    BY <1>3, <1>4 DEF TypeOK, MapInv
  <1>6. \A i \in Inodes : \/ i \in Unused' /\ inode'[i] = Fresh
                          \/ i \notin Unused' /\ inode'[i] = inode[i]
    <2>1. ASSUME NEW i \in Inodes
          PROVE  i \in Unused' <=> /\ \A c \in Caches : name'[c] # i
                                   /\ \A r \in Procs : proc[r].fd # i
      BY <1>2, <1>4 DEF Unused
    <2> QED
      BY <1>3, <2>1 DEF Kept
  <1>7. \A c \in Caches : name'[c] # 0 => /\ name'[c] = name[c]
                                          /\ inode'[name[c]] = inode[name[c]]
    <2>1. name'[n] = 0 /\ \A c \in Caches \ {n} : name'[c] = name[c]
      BY <1>3 DEF TypeOK
    <2> QED
      BY <1>6, <2>1 DEF TypeOK, Unused
  <1>8. \A r \in Procs : proc[r].fd # 0 => inode'[proc[r].fd] = inode[proc[r].fd]
    BY <1>2, <1>4, <1>6 DEF TypeOK, Process, Unused
  <1>9. Stage(q, index["db"].gen, Excused)
    BY <1>1, <1>2, <1>3 DEF DataInv, Stage
  <1>10. Writes(p)'
    <2>1. Building(p)' => Building(p)
      BY <1>1, <1>2, <1>3, <1>4 DEF Building
    <2> QED
      BY <1>1, <1>2, <1>4, <1>8, <2>1 DEF DataInv, Writes, Building
  <1>11. \A r \in Procs \ {p} : Writes(r)'
    BY <1>4, <1>5, <1>7, OthersWrite DEF Caches
  <1>12. \A c \in Caches : name'[c] # 0 => FileOK(c, inode'[name'[c]], index["db"].gen, Excused)
    BY <1>7 DEF DataInv
  <1> QED
    BY <1>1, <1>2, <1>3, <1>5, <1>6, <1>9, <1>10, <1>11, <1>12, BuildFrame DEF Unused

\* The files that are created are new.
LEMMA CreateData ==
    ASSUME TypeOK, TypeOK', MapInv, DataInv, NEW p \in Procs, Create(p) \/ SrcCreate(p)
    PROVE  DataInv'
  <1>0. proc[p] \in Process /\ p \in Root /\ name \in [Caches -> Inodes \cup {0}]
    BY DEF TypeOK, MapInv, Create, SrcCreate
  <1>n. \A n \in Caches : name[n] = 0 => \A i \in Opened(n) : i \in Unused /\ inode[i] = Fresh
    BY DEF Opened, DataInv
  <1>f. /\ \A g, r, n : FileOK(n, Fresh, g, r)
        /\ Fresh \in File /\ Fresh.img = Blank /\ Fresh.sImg = Blank
        /\ Fresh.head = "none" /\ Fresh.sHead = "none"
    BY Records DEF Fresh, FileOK
  <1>e. \A f \in File : f.img = Blank /\ f.head = "none" =>
           /\ [f EXCEPT !.img = Blank, !.head = "none"] = f
           /\ [f EXCEPT !.head = "none", !.img = Blank] = f
    BY DEF File
  <1>1. CASE Create(p)
    <2>1. PICK i \in Opened("pkg") : /\ name' = [name EXCEPT !["pkg"] = i]
                                     /\ Maps(p, [proc[p] EXCEPT !.pc = "srccheck", !.fd = i], "none")
      BY <1>1 DEF Create
    <2> DEFINE q == [proc[p] EXCEPT !.pc = "srccheck", !.fd = i]
    <2>2. name["pkg"] = 0 /\ proc[p].fd = 0 /\ proc[p].img = Blank
      BY <1>1 DEF Create, MapInv
    <2>3. i \in Inodes /\ i # 0 /\ i \in Unused /\ inode[i] = Fresh
      BY <1>n, <2>1, <2>2, ConstantsOK DEF Caches, Unused
    <2>4. q.pc = "srccheck" /\ q.fd = i /\ q.img = Blank /\ q.handler = proc[p].handler
      BY <1>0, <2>2 DEF Process
    <2>5. Goes(p, q) /\ UNCHANGED <<index, risks>>
      BY <1>1, <2>1 DEF Create, Maps
    <2>6. inode' = inode
      <3>1. inode' = [inode EXCEPT ![i].img = Blank, ![i].head = "none"]
        BY <2>1, <2>3, <2>4 DEF Maps
      <3>2. [Fresh EXCEPT !.img = Blank, !.head = "none"] = Fresh
        BY <1>f, <1>e
      <3>3. inode' = [inode EXCEPT ![i] = [Fresh EXCEPT !.img = Blank, !.head = "none"]]
        BY <2>3, <3>1 DEF TypeOK
      <3> QED
        BY <2>3, <3>2, <3>3 DEF TypeOK
    <2> HIDE DEF q
    <2>7. proc'[p] = q /\ \A r \in Procs \ {p} : proc'[r] = proc[r]
      BY <2>5 DEF Goes, TypeOK
    <2>8. name'["pkg"] = i /\ name'["src"] = name["src"]
      BY <1>0, <2>1 DEF Caches
    <2>9. Writes(p)' /\ Stage(q, index["db"].gen, Excused)
      BY <1>f, <2>3, <2>4, <2>6, <2>7, NoStage DEF Writes
    <2>10. \A r \in Procs \ {p} : Writes(r)'
      BY <1>0, <2>6, <2>7, <2>8, OthersWrite
    <2>11. \A j \in Unused' : j \in Unused
      BY <2>2, <2>7, <2>8, ConstantsOK DEF Unused, Caches
    <2>12. \A n \in Caches : name'[n] # 0 => FileOK(n, inode'[name'[n]], index["db"].gen, Excused)
      BY <1>f, <2>3, <2>6, <2>8 DEF DataInv, Caches
    <2>13. q \in Process
      BY <2>7 DEF TypeOK
    <2> QED
      BY <2>4, <2>5, <2>6, <2>9, <2>10, <2>11, <2>12, <2>13, BuildFrame DEF DataInv
  <1>2. CASE SrcCreate(p)
    <2>1. PICK i \in Opened("src") : /\ name' = [name EXCEPT !["src"] = i]
                                     /\ inode' = [inode EXCEPT ![i].head = "none", ![i].img = Blank]
      BY <1>2 DEF SrcCreate
    <2> DEFINE q == [proc[p] EXCEPT !.pc = "srcwrite"]
    <2>2. name["src"] = 0 /\ proc[p].pc = "srccreate"
      BY <1>2 DEF SrcCreate, MapInv
    <2>3. i \in Inodes /\ i # 0 /\ i \in Unused /\ inode[i] = Fresh
      BY <1>n, <2>1, <2>2, ConstantsOK DEF Caches, Unused
    <2>4. /\ q.pc = "srcwrite" /\ q.fd = proc[p].fd /\ q.img = proc[p].img
          /\ q.handler = proc[p].handler /\ q.found = proc[p].found
      BY <1>0 DEF Process
    <2>5. Goes(p, q) /\ UNCHANGED <<index, risks>>
      BY <1>2 DEF SrcCreate
    <2>6. inode' = inode
      <3>2. [Fresh EXCEPT !.head = "none", !.img = Blank] = Fresh
        BY <1>f, <1>e
      <3>3. inode' = [inode EXCEPT ![i] = [Fresh EXCEPT !.head = "none", !.img = Blank]]
        BY <2>1, <2>3 DEF TypeOK
      <3> QED
        BY <2>3, <3>2, <3>3 DEF TypeOK
    <2> HIDE DEF q
    <2>7. proc'[p] = q /\ \A r \in Procs \ {p} : proc'[r] = proc[r]
      BY <2>5 DEF Goes, TypeOK
    <2>8. name'["src"] = i /\ name'["pkg"] = name["pkg"]
      BY <1>0, <2>1 DEF Caches
    <2>9. Writes(p)'
      <3>1. Building(p)' => Building(p)
        BY <2>2, <2>4, <2>7 DEF Building
      <3> QED
        BY <1>f, <2>3, <2>4, <2>6, <2>7, <2>8, <3>1 DEF DataInv, Writes
    <2>10. Stage(q, index["db"].gen, Excused)
      BY <2>2, <2>4 DEF DataInv, Stage
    <2>11. \A r \in Procs \ {p} : Writes(r)'
      BY <1>0, <1>f, <2>3, <2>6, <2>7, <2>8, OthersWrite
    <2>12. \A j \in Unused' : j \in Unused
      BY <2>2, <2>4, <2>7, <2>8, ConstantsOK DEF Unused, Caches
    <2>13. \A n \in Caches : name'[n] # 0 => FileOK(n, inode'[name'[n]], index["db"].gen, Excused)
      BY <1>f, <2>3, <2>6, <2>8 DEF DataInv, Caches
    <2>14. q \in Process
      BY <2>7 DEF TypeOK
    <2> QED
      BY <2>4, <2>5, <2>6, <2>9, <2>10, <2>11, <2>12, <2>13, <2>14, BuildFrame DEF DataInv
  <1> QED
    BY <1>1, <1>2

\* The checks of the two caches, and the source cache that is read.
LEMMA CheckData ==
    ASSUME TypeOK, TypeOK', MapInv, DataInv, NEW p \in Procs, Check(p) \/ SrcCheck(p) \/ SrcRead(p)
    PROVE  DataInv'
  <1>0. proc[p] \in Process /\ name \in [Caches -> Inodes \cup {0}] /\ proc \in [Procs -> Process]
    BY DEF TypeOK
  <1>q. ASSUME NEW q, Goes(p, q) PROVE proc'[p] = q /\ q \in Process
    BY <1>0, <1>q DEF Goes, TypeOK
  <1>1. CASE Check(p)
    <2> DEFINE q == [proc[p] EXCEPT !.pc = "use", !.fd = name["pkg"], !.img = inode[name["pkg"]].img]
               r == [proc[p] EXCEPT !.pc = IF p \in Root THEN "unlink" ELSE "srccheck"]
    <2>1. proc[p].fd = 0
      BY <1>1 DEF Check, MapInv
    <2>2. /\ q.pc = "use" /\ q.handler = proc[p].handler
          /\ r.pc \in {"unlink", "srccheck"} /\ r.fd = 0 /\ r.handler = proc[p].handler
      BY <1>0, <2>1 DEF Process
    <2>3. UNCHANGED <<index, name, inode, risks>> /\ (Goes(p, q) \/ Goes(p, r))
      BY <1>1 DEF Check
    <2> HIDE DEF q, r
    <2>4. ASSUME NEW t, Goes(p, t), t \in {q, r} PROVE DataInv'
      <3>1. /\ t.pc \in {"use", "unlink", "srccheck"} /\ t.handler = proc[p].handler
            /\ t.pc = "srccheck" => t.fd = 0
        BY <2>2, <2>4
      <3>2. Writes(p)' /\ Stage(t, index["db"].gen, Excused)
        BY <1>q, <2>4, <3>1, NoStage DEF Writes, Building
      <3>3. t \in Process
        BY <1>q, <2>4
      <3> QED
        BY <2>1, <2>3, <2>4, <3>1, <3>2, <3>3, Still, BuildFrame
    <2> QED
      BY <2>3, <2>4
  <1>2. CASE SrcCheck(p)
    <2> DEFINE q == [proc[p] EXCEPT !.pc = "srcread", !.at = "db", !.force = FALSE]
               r == [proc[p] EXCEPT !.pc = "generator", !.at = "list", !.force = FALSE]
    <2>1. proc[p].img = Blank /\ proc[p].pc = "srccheck"
      BY <1>2 DEF SrcCheck, MapInv
    <2>2. /\ q.pc = "srcread" /\ q.at = "db" /\ q.img = Blank /\ q.fd = proc[p].fd
          /\ q.handler = proc[p].handler
          /\ r.pc = "generator" /\ r.at = "list" /\ r.img = Blank /\ r.fd = proc[p].fd
          /\ r.handler = proc[p].handler
      BY <1>0, <2>1 DEF Process
    <2>3. /\ UNCHANGED <<index, name, inode, risks>>
          /\ \/ Goes(p, q) /\ CheckValidity(p, "src")
             \/ Goes(p, r)
      BY <1>2 DEF SrcCheck
    <2> HIDE DEF q, r
    <2>4. ASSUME NEW t, Goes(p, t), (t = q /\ CheckValidity(p, "src")) \/ t = r PROVE DataInv'
      <3>1. t \in Process /\ t.fd = proc[p].fd /\ t.handler = proc[p].handler
            /\ t.pc \notin {"idle", "exit"}
        BY <1>q, <2>2, <2>4
      <3>2. Stage(t, index["db"].gen, Excused)
        BY <2>2, <2>4 DEF Stage, Ready
      <3>3. t.pc = "srcread" => inode[name["src"]].head = "clean"
        BY <2>2, <2>4 DEF CheckValidity, Valid
      <3>4. Building(p)' => Building(p)
        BY <1>q, <2>1, <2>2, <2>4, <3>1 DEF Building
      <3>5. Writes(p)'
        BY <1>q, <2>2, <2>3, <2>4, <3>1, <3>3, <3>4 DEF DataInv, Writes
      <3> QED
        BY <2>3, <2>4, <3>1, <3>2, <3>5, Still, BuildFrame
    <2> QED
      BY <2>3, <2>4
  <1>3. CASE SrcRead(p)
    <2>1. CASE Fails(p)
      BY <1>3, <2>1, FailsData DEF SrcRead
    <2>2. CASE ~Fails(p)
      <3> DEFINE f == inode[name["src"]]
                 q == [proc[p] EXCEPT !.pc = "generator", !.img = f.img]
      <3>1. /\ name["src"] # 0 /\ f.head # "dirty" /\ Maps(p, q, f.head) /\ proc[p].pc = "srcread"
            /\ UNCHANGED <<index, name, risks>>
        BY <1>3, <2>2 DEF SrcRead
      <3>2. f \in File /\ f.head \in Head /\ f.img \in Image
        BY <1>0, <3>1 DEF TypeOK, File, Caches
      <3>3. /\ q.pc = "generator" /\ q.img = f.img /\ q.at = proc[p].at /\ q.fd = proc[p].fd
            /\ q.handler = proc[p].handler
        BY <1>0 DEF Process
      <3>4. proc[p].at = "db"
        BY <3>1 DEF DataInv, Stage
      <3>5. NoDb(f.img) /\ (ListNone(f.img) \/ ListDone(f.img))
        <4>1. CASE f.head = "none"
          <5>1. f.img = Blank
            BY <3>1, <4>1 DEF DataInv, Writes
          <5> QED
            BY <5>1 DEF NoDb, ListNone, Blank, Sources
        <4>2. CASE f.head = "clean"
          <5>1. FileOK("src", f, index["db"].gen, Excused)
            BY <3>1 DEF DataInv, Caches
          <5> QED
            BY <4>2, <5>1 DEF FileOK, Finished, SrcImage
        <4> QED
          BY <3>1, <3>2, <4>1, <4>2 DEF Head
      <3> HIDE DEF f, q
      <3>6. Stage(q, index["db"].gen, Excused)
        BY <3>3, <3>4, <3>5 DEF Stage, Ready
      <3>7. q.img.file["db"] = NoStamp
        BY <3>3, <3>5 DEF NoDb
      <3>8. q \in Process
        BY <1>q, <3>1 DEF Maps
      <3> QED
        BY <3>1, <3>2, <3>3, <3>6, <3>7, <3>8, MapsData
    <2> QED
      BY <2>1, <2>2
  <1> QED
    BY <1>1, <1>2, <1>3

\* The constructor of the generator, and the destructor.
LEMMA HeaderData ==
    ASSUME TypeOK, TypeOK', MapInv, DataInv, NEW p \in Procs, Generator(p) \/ Seal(p) \/ Sealed(p)
    PROVE  DataInv'
  <1> DEFINE i == proc[p].fd
  <1>0. /\ proc[p] \in Process /\ proc \in [Procs -> Process]
        /\ i # 0 => i \in Inodes /\ inode[i] \in File /\ inode[i].img = proc[p].img
    BY DEF TypeOK, Process, MapInv
  <1>q. ASSUME NEW q, Goes(p, q) PROVE proc'[p] = q /\ q \in Process
    BY <1>0, <1>q DEF Goes, TypeOK
  <1>1. PICK q : /\ Goes(p, q) /\ q.fd = i /\ q.handler = proc[p].handler
                 /\ q.pc = IF proc[p].pc = "generator" THEN "select"
                           ELSE IF proc[p].pc = "seal" /\ i # 0 THEN "sealed" ELSE "use"
                 /\ proc[p].pc = "generator" =>
                       ~q.found /\ q.img = proc[p].img /\ q.at = proc[p].at
    <2>1. CASE Generator(p)
      <3> DEFINE q == [proc[p] EXCEPT !.pc = "select", !.found = FALSE]
      <3>1. /\ q.fd = i /\ q.handler = proc[p].handler /\ q.pc = "select"
            /\ ~q.found /\ q.img = proc[p].img /\ q.at = proc[p].at
        BY <1>0 DEF Process
      <3>2. Goes(p, q) /\ proc[p].pc = "generator"
        BY <2>1 DEF Generator
      <3> HIDE DEF q
      <3> QED
        BY <3>1, <3>2
    <2>2. CASE Seal(p)
      <3> DEFINE q == [proc[p] EXCEPT !.pc = IF proc[p].fd = 0 THEN "use" ELSE "sealed"]
      <3>1. /\ q.fd = i /\ q.handler = proc[p].handler
            /\ q.pc = IF i # 0 THEN "sealed" ELSE "use"
        BY <1>0 DEF Process
      <3>2. Goes(p, q) /\ proc[p].pc = "seal"
        BY <2>2 DEF Seal
      <3> HIDE DEF q
      <3> QED
        BY <3>1, <3>2
    <2>3. CASE Sealed(p)
      <3> DEFINE q == [proc[p] EXCEPT !.pc = "use"]
      <3>1. q.fd = i /\ q.handler = proc[p].handler /\ q.pc = "use"
        BY <1>0 DEF Process
      <3>2. Goes(p, q) /\ proc[p].pc = "sealed"
        BY <2>3 DEF Sealed
      <3> HIDE DEF q
      <3> QED
        BY <3>1, <3>2
    <2> QED
      BY <2>1, <2>2, <2>3
  <1>2. UNCHANGED <<index, name, risks>> /\ proc[p].pc \in {"generator", "seal", "sealed"}
    BY DEF Generator, Seal, Sealed
  <1>3. q \in Process /\ proc'[p] = q /\ q.pc \notin {"idle", "exit"}
    BY <1>1, <1>q
  <1>4. Stage(q, index["db"].gen, Excused)
    <2>1. CASE proc[p].pc = "generator"
      <3>1. Ready(proc[p])
        BY <2>1 DEF DataInv, Stage
      <3>2. q.pc = "select" /\ ~q.found /\ q.img = proc[p].img /\ q.at = proc[p].at
        BY <1>1, <2>1
      <3> QED
        BY <3>1, <3>2 DEF Stage, Ready
    <2>2. CASE proc[p].pc # "generator"
      <3>1. q.pc \in {"sealed", "use"}
        BY <1>1, <2>2
      <3> QED
        BY <3>1, NoStage
    <2> QED
      BY <2>1, <2>2
  <1>5. CASE i = 0
    <2>1. inode' = inode
      <3>1. 0 \notin Inodes
        BY ConstantsOK
      <3>2. CASE Sealed(p)
        <4>1. inode' = [inode EXCEPT ![i] = [inode[i] EXCEPT !.sHead = inode[i].head]]
          BY <3>2 DEF Sealed
        <4> QED
          BY <1>5, <3>1, <4>1 DEF TypeOK
      <3> QED
        BY <1>5, <3>2 DEF Generator, Seal
    <2>2. Writes(p)'
      BY <1>1, <1>2, <1>3, <1>5 DEF Writes, Building
    <2> QED
      BY <1>1, <1>2, <1>3, <1>4, <2>1, <2>2, Still, BuildFrame
  <1>6. CASE i # 0
    <2> DEFINE f == inode'[i]
    <2>1. f \in File /\ i \in Inodes /\ p \in Root
      BY <1>0, <1>2, <1>6 DEF TypeOK, MapInv, Building
    <2>2. inode' = [inode EXCEPT ![i] = f]
      BY <1>0, <1>6 DEF Generator, Seal, Sealed, TypeOK
    <2>3. CASE Generator(p)
      <3>1. f = [inode[i] EXCEPT !.head = "dirty", !.sHead = "dirty"]
        BY <1>0, <1>6, <2>3 DEF Generator, TypeOK
      <3>2. f.head = "dirty" /\ f.sHead = "dirty" /\ f.sImg = inode[i].sImg
        BY <1>0, <1>6, <3>1 DEF File
      <3>3. inode[i].sImg = Blank /\ q.pc = "select"
        BY <1>1, <1>6, <2>3 DEF Generator, DataInv, Writes, Building
      <3>4. FileOK("pkg", f, index["db"].gen, Excused)
        BY <3>2, DirtyOK
      <3> HIDE DEF f
      <3>5. /\ Writes(p)' /\ \A r \in Procs \ {p} : Writes(r)'
            /\ \A j \in Unused' : inode'[j] = Fresh
            /\ \A n \in Caches : name'[n] # 0 => FileOK(n, inode'[name'[n]], index["db"].gen, Excused)
        BY <1>1, <1>2, <1>6, <2>1, <2>2, <3>2, <3>3, <3>4, OwnFile
      <3> QED
        BY <1>1, <1>2, <1>3, <1>4, <3>5, BuildFrame
    <2>4. CASE Seal(p)
      <3>1. f = [Synced(inode[i]) EXCEPT !.head = "clean"]
        BY <1>0, <1>6, <2>4 DEF Seal, TypeOK
      <3>2. f.head = "clean" /\ f.img = proc[p].img /\ f.sImg = proc[p].img
        BY <1>0, <1>6, <3>1 DEF File, Synced
      <3>3. PkgImage(proc[p].img, index["db"].gen, Excused) /\ q.pc = "sealed"
        BY <1>1, <1>6, <2>4 DEF Seal, DataInv, Stage
      <3>4. FileOK("pkg", f, index["db"].gen, Excused)
        BY <3>2, <3>3 DEF FileOK, Finished
      <3> HIDE DEF f
      <3>5. /\ Writes(p)' /\ \A r \in Procs \ {p} : Writes(r)'
            /\ \A j \in Unused' : inode'[j] = Fresh
            /\ \A n \in Caches : name'[n] # 0 => FileOK(n, inode'[name'[n]], index["db"].gen, Excused)
        BY <1>1, <1>2, <1>6, <2>1, <2>2, <3>3, <3>4, OwnFile
      <3> QED
        BY <1>1, <1>2, <1>3, <1>4, <3>5, BuildFrame
    <2>5. CASE Sealed(p)
      <3>1. f = [inode[i] EXCEPT !.sHead = inode[i].head]
        BY <1>0, <1>6, <2>5 DEF Sealed, TypeOK
      <3>2. name["pkg"] = i => FileOK("pkg", f, index["db"].gen, Excused)
        <4>1. name["pkg"] = i => FileOK("pkg", inode[i], index["db"].gen, Excused)
          BY <1>6 DEF DataInv, Caches
        <4> QED
          BY <1>0, <1>6, <3>1, <4>1, SyncOK DEF Caches
      <3>3. q.pc = "use"
        BY <1>1, <2>5 DEF Sealed
      <3> HIDE DEF f
      <3>4. /\ Writes(p)' /\ \A r \in Procs \ {p} : Writes(r)'
            /\ \A j \in Unused' : inode'[j] = Fresh
            /\ \A n \in Caches : name'[n] # 0 => FileOK(n, inode'[name'[n]], index["db"].gen, Excused)
        BY <1>1, <1>2, <1>6, <2>1, <2>2, <3>2, <3>3, OwnFile
      <3> QED
        BY <1>1, <1>2, <1>3, <1>4, <3>4, BuildFrame
    <2> QED
      BY <2>3, <2>4, <2>5
  <1> QED
    BY <1>5, <1>6

\* A source is stamped, merged, and its files are matched with the dependencies.
LEMMA MergeData ==
    ASSUME TypeOK, TypeOK', LockInv, MapInv, DataInv, NEW p \in Procs,
           Select(p) \/ Merge(p) \/ Provides(p)
    PROVE  DataInv'
  <1> DEFINE s == proc[p].at
             g == index["db"].gen
  <1>g. \A t \in Sources : /\ index[t].gen \in Nat \ {0} /\ index[t].mtime \in Nat
                            /\ SizeNow(t) \in Nat
    <2> SUFFICES ASSUME NEW t \in Sources
                 PROVE  /\ index[t].gen \in Nat \ {0} /\ index[t].mtime \in Nat
                        /\ SizeNow(t) \in Nat
      OBVIOUS
    <2>1. MaxGen[t] \in Nat /\ index[t].gen \in 1..MaxGen[t] /\ SizeOf[t] \in [1..MaxGen[t] -> Nat]
      BY ConstantsOK DEF TypeOK
    <2> QED
      BY <2>1 DEF TypeOK, SizeNow
  <1>0. /\ proc[p] \in Process /\ proc \in [Procs -> Process] /\ s \in {"list", "db"}
        /\ g \in Nat \ {0} /\ index["list"].gen \in Nat \ {0} /\ Excused \in BOOLEAN
        /\ index["list"].mtime = index["list"].gen /\ "dirty" \in Head
        /\ \A t \in Sources : index[t].mtime \in Nat /\ SizeNow(t) \in Nat
        /\ proc[p].handler.mtime \in Nat /\ proc[p].opened \in Nat
    BY <1>g DEF TypeOK, Process, Handler, Sources, DataInv, Head, Excused
  <1>q. ASSUME NEW q, Goes(p, q) PROVE proc'[p] = q /\ q \in Process
    BY <1>0, <1>q DEF Goes, TypeOK
  <1>s. Stage(proc[p], g, Excused) /\ Early(proc[p].handler.mtime, g, Excused)
    BY DEF DataInv
  <1>1. CASE Select(p)
    <2> DEFINE st == [size  |-> SizeNow(s),
                      mtime |-> IF s = "db" THEN proc[p].handler.mtime ELSE index[s].mtime]
               q == [proc[p] EXCEPT !.pc = "merge", !.opened = index[s].gen, !.img.file[s] = st]
    <2>1. st \in Stamp /\ index[s].gen \in Nat \ {0}
      BY <1>0 DEF Stamp, Sources
    <2>2. (s = "list" => st.mtime = index[s].gen) /\ (s = "db" => Early(st.mtime, g, Excused))
      BY <1>0, <1>s
    <2>3. proc[p].pc = "select" /\ Maps(p, q, "dirty") /\ UNCHANGED <<index, name, risks>>
      BY <1>1 DEF Select
    <2>4. q.pc = "merge" /\ q.fd = proc[p].fd /\ q.handler = proc[p].handler
      BY <1>0 DEF Process
    <2>5. Stage(q, g, Excused)
      <3> HIDE DEF st
      <3> QED
        BY <1>0, <1>s, <2>1, <2>2, <2>3, SelectStage
    <2> HIDE DEF q
    <2>6. q \in Process
      BY <1>q, <2>3 DEF Maps
    <2> QED
      BY <1>0, <2>3, <2>4, <2>5, <2>6, MapsData
  <1>2. CASE Merge(p)
    <2> DEFINE n == IF s = "db" THEN g ELSE proc[p].opened
               q == [proc[p] EXCEPT !.pc = "provides", !.img.pkgs[s] = n, !.opened = 0,
                                    !.found = @ \/ n \in FileDeps[s]]
    <2>1. proc[p].pc = "merge" /\ UNCHANGED <<index, name, risks>> /\ (Maps(p, q, "dirty") \/ Fails(p))
      BY <1>2 DEF Merge
    <2>2. n \in Nat \ {0} /\ (s = "list" => n = proc[p].opened) /\ (s = "db" => n = g)
      BY <1>0, <1>s, <2>1 DEF Stage
    <2>3. q.pc = "provides" /\ q.fd = proc[p].fd /\ q.handler = proc[p].handler
      BY <1>0 DEF Process
    <2>4. Stage(q, g, Excused)
      <3> HIDE DEF n
      <3> QED
        BY <1>0, <1>s, <2>1, <2>2, MergeStage
    <2> HIDE DEF q
    <2>5. CASE Maps(p, q, "dirty")
      <3>1. q \in Process
        BY <1>q, <2>5 DEF Maps
      <3> QED
        BY <1>0, <2>1, <2>3, <2>4, <2>5, <3>1, MapsData
    <2> QED
      BY <2>1, <2>5, FailsData
  <1>3. CASE Provides(p)
    <2> DEFINE c == CollectFileProvides(proc[p])
               e == [proc[p] EXCEPT !.img = c]
               q == IF e.at = "db" THEN [e EXCEPT !.pc = "seal", !.at = "list", !.found = FALSE]
                    ELSE IF p \in Root THEN [e EXCEPT !.pc = "srcunlink", !.found = FALSE]
                    ELSE [e EXCEPT !.pc = "select", !.at = "db", !.found = FALSE]
    <2>1. proc[p].pc = "provides" /\ UNCHANGED <<index, name, risks>> /\ Maps(p, q, "dirty")
      BY <1>3 DEF Provides
    <2>2. /\ s = "list" => SrcImage(c)
          /\ s = "db" => PkgImage(c, g, Excused)
      BY <1>0, <1>s, <2>1, CollectDone
    <2>3. /\ q.fd = proc[p].fd /\ q.handler = proc[p].handler /\ q.img = c
          /\ s = "db" => q.pc = "seal"
          /\ s = "list" => /\ ~q.found
                           /\ q.pc = "srcunlink" \/ (q.pc = "select" /\ q.at = "db")
      BY <1>0 DEF Process
    <2> HIDE DEF c, q
    <2>4. Stage(q, g, Excused)
      BY <1>0, <2>2, <2>3 DEF Stage, Ready, SrcImage
    <2>5. q \in Process
      BY <1>q, <2>1 DEF Maps
    <2> QED
      BY <1>0, <2>1, <2>3, <2>4, <2>5, MapsData
  <1> QED
    BY <1>1, <1>2, <1>3

\* The source cache is written, synced, and made clean.
LEMMA SrcData ==
    ASSUME TypeOK, TypeOK', MapInv, DataInv, NEW p \in Procs, SrcWrite(p) \/ SrcHead(p) \/ SrcSync(p)
    PROVE  DataInv'
  <1> DEFINE i == name["src"]
             f == inode'[i]
  <1>0. /\ proc[p] \in Process /\ proc \in [Procs -> Process] /\ p \in Root
        /\ i # 0 /\ i \in Inodes /\ inode[i] \in File /\ inode'[i] \in File
        /\ FileOK("src", inode[i], index["db"].gen, Excused)
    BY DEF TypeOK, MapInv, DataInv, Writes, SrcWrite, SrcHead, SrcSync, Caches
  <1>q. ASSUME NEW q, Goes(p, q) PROVE proc'[p] = q /\ q \in Process
    BY <1>0, <1>q DEF Goes, TypeOK
  <1>1. SrcImage(proc[p].img) /\ ~proc[p].found
    BY DEF DataInv, Stage, SrcWrite, SrcHead, SrcSync
  <1>2. UNCHANGED <<index, name, risks>> /\ proc[p].pc \in {"srcwrite", "srchead", "srcsync"}
    BY DEF SrcWrite, SrcHead, SrcSync
  <1>3. ASSUME NEW q, Goes(p, q), q.fd = proc[p].fd, q.handler = proc[p].handler,
               q.img = proc[p].img, q.found = proc[p].found,
               q.pc \in {"srchead", "srcsync"} \/ (q.pc = "select" /\ q.at = "db"),
               inode' = [inode EXCEPT ![i] = f],
               FileOK("src", f, index["db"].gen, Excused),
               f.head # "none" \/ (f.head = inode[i].head /\ f.img = inode[i].img),
               q.pc = "srchead" => f.head # "clean" /\ f.sHead # "clean" /\ f.img = q.img
        PROVE  DataInv'
    <2> HIDE DEF f
    <2>1. Stage(q, index["db"].gen, Excused)
      BY <1>1, <1>3 DEF Stage, Ready, SrcImage
    <2>2. f \in File
      BY <1>0 DEF f
    <2>3. /\ Writes(p)' /\ \A r \in Procs \ {p} : Writes(r)'
          /\ \A j \in Unused' : inode'[j] = Fresh
          /\ \A n \in Caches : name'[n] # 0 =>
                FileOK(n, inode'[name'[n]], index["db"].gen, Excused)
      BY <1>0, <1>2, <1>3, <2>2, SrcFile
    <2>4. q \in Process /\ q.pc \notin {"idle", "exit"}
      BY <1>3, <1>q
    <2> QED
      BY <1>2, <1>3, <2>1, <2>3, <2>4, BuildFrame
  <1>4. CASE Fails(p) /\ ~SrcSync(p)
    BY <1>2, <1>4, FailsData
  <1>5. CASE SrcWrite(p) /\ ~Fails(p)
    <2> DEFINE q == [proc[p] EXCEPT !.pc = "srchead"]
    <2>1. /\ q.fd = proc[p].fd /\ q.handler = proc[p].handler /\ q.img = proc[p].img
          /\ q.found = proc[p].found /\ q.pc = "srchead"
      BY <1>0 DEF Process
    <2>2. /\ Goes(p, q) /\ proc[p].pc = "srcwrite"
          /\ inode' = [inode EXCEPT ![i].head = "dirty", ![i].img = proc[p].img]
      BY <1>5 DEF SrcWrite
    <2>3. /\ inode' = [inode EXCEPT ![i] = f] /\ f.head = "dirty" /\ f.sHead = inode[i].sHead
          /\ f.img = proc[p].img
      BY <1>0, <2>2 DEF TypeOK, File
    <2>4. f.sHead # "clean"
      BY <2>2, <2>3 DEF DataInv, Writes
    <2>5. FileOK("src", f, index["db"].gen, Excused)
      BY <2>3, <2>4, DirtyOK
    <2> HIDE DEF f, q
    <2> QED
      BY <1>3, <2>1, <2>2, <2>3, <2>4, <2>5
  <1>6. CASE SrcHead(p) /\ ~Fails(p)
    <2> DEFINE q == [proc[p] EXCEPT !.pc = "srcsync"]
    <2>1. /\ q.fd = proc[p].fd /\ q.handler = proc[p].handler /\ q.img = proc[p].img
          /\ q.found = proc[p].found /\ q.pc = "srcsync"
      BY <1>0 DEF Process
    <2>2. /\ Goes(p, q) /\ proc[p].pc = "srchead"
          /\ inode' = [inode EXCEPT ![i] = [Synced(inode[i]) EXCEPT !.head = "clean"]]
      BY <1>6 DEF SrcHead
    <2>3. /\ inode' = [inode EXCEPT ![i] = f] /\ f.head = "clean" /\ f.img = inode[i].img
          /\ f.sImg = inode[i].img
      BY <1>0, <2>2 DEF TypeOK, File, Synced
    <2>4. inode[i].img = proc[p].img
      BY <2>2 DEF DataInv, Writes
    <2>5. FileOK("src", f, index["db"].gen, Excused)
      BY <1>1, <2>3, <2>4 DEF FileOK, Finished
    <2> HIDE DEF f, q
    <2> QED
      BY <1>3, <2>1, <2>2, <2>3, <2>5
  <1>7. CASE SrcSync(p)
    <2> DEFINE q == [proc[p] EXCEPT !.pc = "select", !.at = "db"]
    <2>1. /\ q.fd = proc[p].fd /\ q.handler = proc[p].handler /\ q.img = proc[p].img
          /\ q.found = proc[p].found /\ q.pc = "select" /\ q.at = "db"
      BY <1>0 DEF Process
    <2>2. Goes(p, q) /\ inode' = [inode EXCEPT ![i] = Synced(inode[i])]
      BY <1>7 DEF SrcSync
    <2>3. inode' = [inode EXCEPT ![i] = f] /\ f = Synced(inode[i])
      BY <1>0, <2>2 DEF TypeOK
    <2>4. f.head = inode[i].head /\ f.img = inode[i].img
      BY <1>0, <2>3, FileParts
    <2>5. FileOK("src", f, index["db"].gen, Excused)
      <3>1. "src" \in Caches /\ inode[i] \in File /\ FileOK("src", inode[i], index["db"].gen, Excused)
        BY <1>0 DEF Caches
      <3>2. FileOK("src", Synced(inode[i]), index["db"].gen, Excused)
        <4> HIDE DEF i
        <4> QED
          BY <3>1, SyncOK
      <3> QED
        BY <2>3, <3>2
    <2> HIDE DEF f, q
    <2> QED
      BY <1>3, <2>1, <2>2, <2>3, <2>4, <2>5
  <1> QED
    BY <1>4, <1>5, <1>6, <1>7

-----------------------------------------------------------------------------
(* The rest of a session, and what happens to the files.                   *)

\* A step of a session changes the handler and perhaps an index file, and may be what
\* excuses the time of the database from then on.
LEMMA SessionFrame ==
    ASSUME TypeOK, TypeOK', DataInv, NEW p \in Procs, NEW q \in Process, Goes(p, q),
           UNCHANGED <<name, inode>>, risks \subseteq risks',
           index'["list"].mtime = index'["list"].gen, index["db"].gen <= index'["db"].gen,
           q.fd = proc[p].fd, q.pc \in {"fetch", "check", "run", "use", "close"},
           Early(q.handler.mtime, index'["db"].gen, Excused')
    PROVE  DataInv'
  <1>1. proc'[p] = q
    BY DEF Goes, TypeOK
  <1>2. Writes(p)' /\ Stage(q, index'["db"].gen, Excused')
    BY <1>1, NoStage DEF Writes, Building
  <1> QED
    BY <1>2, Still, Frame

LEMMA SessionData ==
    ASSUME TypeOK, TypeOK', Counted, LockInv, MapInv, DataInv, NEW p \in Procs,
           Begin(p) \/ Fetch(p) \/ UnLock(p) \/ DoInstall(p)
    PROVE  DataInv'
  <1>0. /\ proc[p] \in Process /\ proc \in [Procs -> Process]
        /\ index \in [Sources -> [gen : Nat, mtime : Nat]]
        /\ Excused \in BOOLEAN /\ Excused' \in BOOLEAN
        /\ "list" \in Sources /\ "db" \in Sources
        /\ index["list"].mtime = index["list"].gen
        /\ index["db"].mtime = index["db"].gen \/ Excused
        /\ proc[p].handler \in Handler
    BY DEF TypeOK, DataInv, LockInv, MtimeHonest, Sources, Excused, Process
  <1>1. PICK q : /\ Goes(p, q) /\ q.fd = proc[p].fd
                 /\ q.pc \in {"fetch", "check", "run", "use", "close"}
                 /\ \/ q.handler.mtime \in {0, index["db"].mtime, index'["db"].mtime}
                    \/ q.handler = proc[p].handler
    <2>1. CASE Begin(p)
      <3>1. PICK prog \in {"cache", "update", "install"}, force \in BOOLEAN : Start(p, prog, force)
        BY <2>1 DEF Begin
      <3> DEFINE q == [Idle EXCEPT !.prog = prog, !.force = force]
                 f == [q EXCEPT !.pc = "fetch"]
      <3>2. /\ f.pc = "fetch" /\ f.fd = 0 /\ f.handler.mtime = 0
            /\ q.fd = 0 /\ q.handler.mtime = 0 /\ q \in Process
        BY StartType DEF Idle, NoHandler, Programs
      <3>3. (Goes(p, f) \/ Opens(p, q)) /\ proc[p].fd = 0
        BY <3>1 DEF Start, DataInv
      <3> HIDE DEF f, q
      <3>4. CASE Opens(p, q)
        <4>1. PICK r : /\ Goes(p, r) /\ r.pc = "check" /\ r.fd = q.fd
                       /\ r.handler = q.handler \/ r.handler.mtime = index["db"].mtime
          BY <3>2, <3>4, OpensKeeps
        <4>2. r.handler.mtime \in {0, index["db"].mtime}
          BY <3>2, <4>1
        <4> QED
          BY <3>2, <3>3, <4>1, <4>2
      <3> QED
        BY <3>2, <3>3, <3>4
    <2>2. CASE Fetch(p)
      <3>1. Opens(p, proc[p])
        BY <2>2 DEF Fetch
      <3>2. PICK r : /\ Goes(p, r) /\ r.pc = "check" /\ r.fd = proc[p].fd
                     /\ r.handler = proc[p].handler \/ r.handler.mtime = index["db"].mtime
        BY <1>0, <3>1, OpensKeeps
      <3> QED
        BY <3>2
    <2>3. CASE UnLock(p)
      <3> DEFINE u == UnLocked(proc[p], FALSE)
                 r == [u EXCEPT !.pc = "run"]
      <3>1. Goes(p, r)
        BY <2>3 DEF UnLock
      <3>2. /\ u \in Process /\ u.fd = proc[p].fd
            /\ u.handler = NoHandler \/ u.handler = proc[p].handler
        BY <1>0, UnLockedType
      <3> HIDE DEF u
      <3>3. /\ r.pc = "run" /\ r.fd = proc[p].fd
            /\ r.handler.mtime = 0 \/ r.handler = proc[p].handler
        BY <3>2 DEF Process, NoHandler
      <3> HIDE DEF r
      <3> QED
        BY <3>1, <3>3
    <2>4. CASE DoInstall(p)
      <3>1. proc[p].count = 0 /\ index'["db"].mtime \in Nat
        BY <2>4, InstallTime DEF DoInstall, Counted
      <3>2. PICK o \in Process :
               /\ Goes(p, o) /\ o.pc \in {"close", "use"} /\ o.fd = proc[p].fd
               /\ o.handler = proc[p].handler \/ o.handler.mtime = index'["db"].mtime
        BY <2>4, <3>1, InstallType
      <3> QED
        BY <3>2
    <2> QED
      BY <2>1, <2>2, <2>3, <2>4
  <1>2. UNCHANGED <<name, inode>> /\ risks \subseteq risks' /\ (Excused => Excused')
    <2>1. CASE DoInstall(p)
      BY <2>1 DEF DoInstall, Excused
    <2>2. CASE ~DoInstall(p)
      BY <2>2 DEF Begin, Start, Fetch, UnLock, Excused
    <2> QED
      BY <2>1, <2>2
  <1>3. /\ index'["list"].mtime = index'["list"].gen /\ index["db"].gen <= index'["db"].gen
        /\ index["db"].gen \in Nat /\ index'["db"].gen \in Nat
        /\ index'["db"].mtime = index'["db"].gen \/ Excused \/ index'["db"].mtime = proc[p].handler.mtime
    <2>1. index["db"].gen \in Nat /\ index'["db"].gen \in Nat
      BY <1>0 DEF TypeOK
    <2>2. CASE Begin(p)
      <3>1. index' = index
        BY <2>2 DEF Begin, Start
      <3> QED
        BY <1>0, <2>1, <3>1
    <2>5. CASE Fetch(p)
      <3>1. \/ index' = index
            \/ index' = [index EXCEPT !["list"] = [gen |-> @.gen + 1, mtime |-> @.gen + 1]]
        BY <2>5 DEF Fetch
      <3>2. index'["db"] = index["db"] /\ index'["list"].mtime = index'["list"].gen
        BY <1>0, <3>1
      <3> QED
        BY <1>0, <2>1, <3>2
    <2>3. CASE UnLock(p)
      <3>1. PICK h : index' = Released(proc[p].handler, h)
        BY <2>3 DEF UnLock
      <3>2. /\ index'["db"].gen = index["db"].gen /\ index'["list"] = index["list"]
            /\ \/ index'["db"].mtime = index["db"].mtime
               \/ index'["db"].mtime = proc[p].handler.mtime
        BY <1>0, <3>1, ReleasedKeeps
      <3> QED
        BY <1>0, <2>1, <3>2
    <2>4. CASE DoInstall(p)
      <3>1. \/ index' = index
            \/ index' = [index EXCEPT !["db"] = [gen |-> @.gen + 1, mtime |-> @.gen + 1]]
        BY <2>4 DEF DoInstall
      <3> QED
        BY <1>0, <2>1, <3>1
    <2> QED
      BY <2>2, <2>3, <2>4, <2>5
  <1>4. Early(proc[p].handler.mtime, index'["db"].gen, Excused')
    <2>1. Early(proc[p].handler.mtime, index["db"].gen, Excused) /\ proc[p].handler.mtime \in Nat
      BY <1>0 DEF DataInv, Process, Handler
    <2> QED
      BY <1>0, <1>2, <1>3, <2>1, Later
  <1>5. Early(q.handler.mtime, index'["db"].gen, Excused')
    BY <1>0, <1>1, <1>2, <1>3, <1>4 DEF Early
  <1>6. q \in Process
    BY <1>0, <1>1 DEF Goes, TypeOK
  <1> QED
    BY <1>1, <1>2, <1>3, <1>5, <1>6, SessionFrame

\* A process ends, in order or not, and nobody refers to its file any more.
LEMMA EndData ==
    ASSUME TypeOK, TypeOK', DataInv, NEW p \in Procs, Close(p) \/ Exit(p) \/ Kill(p)
    PROVE  DataInv'
  <1>0. /\ index["db"].gen \in Nat /\ index["list"].mtime = index["list"].gen
        /\ proc[p].handler \in Handler /\ proc[p].handler.mtime \in Nat
        /\ Early(proc[p].handler.mtime, index["db"].gen, Excused)
    BY DEF TypeOK, DataInv, Sources, Process, Handler
  <1>1. PICK o \in Process : /\ Goes(p, o) /\ o.pc \in {"idle", "exit"} /\ o.fd = 0
                             /\ o.handler = proc[p].handler \/ o.handler = NoHandler
    BY EndKeeps
  <1>2. /\ UNCHANGED <<name, risks>>
        /\ index'["list"].mtime = index'["list"].gen /\ index'["db"].gen = index["db"].gen
    <2>1. index' = index \/ \E h : index' = Released(proc[p].handler, h)
      BY EndKeeps
    <2> QED
      BY <1>0, <2>1, EndKeeps, ReleasedKeeps
  <1>3. proc'[p] = o /\ \A r \in Procs \ {p} : proc'[r] = proc[r]
    BY <1>1 DEF TypeOK, Goes
  <1>4. \A i \in Unused' : inode'[i] = Fresh
    <2>1. CASE Close(p) \/ Kill(p)
      <3>1. inode' = Kept(inode, name, proc')
        BY <2>1 DEF Close, Kill
      <3> QED
        BY <1>2, <3>1 DEF Unused, Kept
    <2>2. CASE Exit(p)
      <3>1. inode' = inode /\ proc[p].fd = 0
        BY <2>2 DEF Exit, DataInv
      <3> QED
        BY <1>2, <1>3, <3>1, ConstantsOK DEF Unused, DataInv
    <2> QED
      BY <2>1, <2>2
  <1>5. \A i \in Inodes : (\E n \in Caches : name[n] = i) \/ (\E r \in Procs : proc'[r].fd = i) =>
                             inode'[i] = inode[i]
    BY EndKeeps DEF Kept
  <1>6. \A n \in Caches : name[n] # 0 => inode'[name[n]] = inode[name[n]]
    BY <1>5 DEF TypeOK
  <1>7. ASSUME NEW r \in Procs \ {p} PROVE Writes(r)'
    <2>1. proc[r].fd # 0 => inode'[proc[r].fd] = inode[proc[r].fd]
      BY <1>3, <1>5 DEF TypeOK, Process
    <2>2. name["src"] # 0 => inode'[name["src"]] = inode[name["src"]]
      BY <1>6 DEF Caches
    <2>3. Writes(r)
      BY DEF DataInv
    <2> QED
      BY <1>2, <1>3, <2>1, <2>2, <2>3 DEF Writes, Building
  <1>8. Writes(p)' /\ Stage(o, index'["db"].gen, Excused')
    BY <1>1, <1>3, NoStage DEF Writes, Building
  <1>9. \A n \in Caches : name'[n] # 0 => FileOK(n, inode'[name'[n]], index["db"].gen, Excused)
    BY <1>2, <1>6 DEF DataInv
  <1>10. Early(o.handler.mtime, index'["db"].gen, Excused') /\ index["db"].gen <= index'["db"].gen
    <2>1. Excused' = Excused
      BY <1>2 DEF Excused
    <2> QED
      BY <1>0, <1>1, <1>2, <2>1 DEF Early, NoHandler
  <1> QED
    BY <1>1, <1>2, <1>4, <1>7, <1>8, <1>9, <1>10, Frame

LEMMA PowerData ==
    ASSUME TypeOK, TypeOK', MapInv, DataInv, PowerLoss
    PROVE  DataInv'
  <1>1. /\ \A p \in Procs : proc'[p] = Idle
        /\ UNCHANGED <<index, name, risks>>
        /\ Idle.pc = "idle" /\ Idle.fd = 0 /\ Idle.handler.mtime = 0
    BY DEF PowerLoss, Idle, NoHandler
  <1>2. \A p \in Procs : /\ Early(proc'[p].handler.mtime, index["db"].gen, Excused)
                         /\ Stage(proc'[p], index["db"].gen, Excused) /\ Writes(p)'
    <2>1. index["db"].gen \in Nat
      BY DEF TypeOK, Sources
    <2> QED
      BY <1>1, <2>1, NoStage DEF Early, Writes, Building
  <1>3. PICK fp \in IF name["pkg"] = 0 THEN {Fresh} ELSE AfterLoss(inode[name["pkg"]]),
             fs \in IF name["src"] = 0 THEN {Fresh} ELSE AfterLoss(inode[name["src"]]) :
          inode' = [i \in Inodes |-> IF i = name["pkg"] THEN fp
                                     ELSE IF i = name["src"] THEN fs ELSE Fresh]
    BY DEF PowerLoss
  <1>4. \A i \in Unused' : inode'[i] = Fresh
    BY <1>1, <1>3 DEF Unused, Caches
  <1>5. ASSUME name["pkg"] # 0
        PROVE  FileOK("pkg", inode'[name["pkg"]], index["db"].gen, Excused)
    <2>1. /\ name["pkg"] \in Inodes /\ inode[name["pkg"]] \in File /\ "pkg" \in Caches
          /\ FileOK("pkg", inode[name["pkg"]], index["db"].gen, Excused)
      BY <1>5 DEF TypeOK, DataInv, Caches
    <2>2. inode'[name["pkg"]] = fp /\ fp \in AfterLoss(inode[name["pkg"]])
      BY <1>3, <1>5, <2>1
    <2> QED
      BY <2>1, <2>2, LossOK
  <1>6. ASSUME name["src"] # 0
        PROVE  FileOK("src", inode'[name["src"]], index["db"].gen, Excused)
    <2>1. /\ name["src"] \in Inodes /\ inode[name["src"]] \in File /\ "src" \in Caches
          /\ FileOK("src", inode[name["src"]], index["db"].gen, Excused)
          /\ name["src"] # name["pkg"]
      BY <1>6 DEF TypeOK, DataInv, Caches, MapInv
    <2>2. inode'[name["src"]] = fs /\ fs \in AfterLoss(inode[name["src"]])
      BY <1>3, <1>6, <2>1
    <2> QED
      BY <2>1, <2>2, LossOK
  <1>7. Excused' = Excused
    BY <1>1 DEF Excused
  <1> QED
    BY <1>1, <1>2, <1>4, <1>5, <1>6, <1>7 DEF DataInv, Caches

LEMMA ForeignData ==
    ASSUME TypeOK, TypeOK', DataInv, Foreign
    PROVE  DataInv'
  <1> DEFINE g == index["db"].gen
             h == index'["db"].gen
  <1>1. /\ UNCHANGED <<name, inode, proc>> /\ (Excused => Excused')
        /\ index'["list"] = index["list"] /\ h = g + 1
    BY DEF Foreign, TypeOK, Sources, Excused
  <1>2. g \in Nat /\ h \in Nat /\ g <= h /\ Excused \in BOOLEAN /\ Excused' \in BOOLEAN
    BY <1>1 DEF TypeOK, Sources, Excused
  <1>3. \A n \in Caches : name[n] # 0 => inode[name[n]] \in File
    BY DEF TypeOK
  <1>4. \A p \in Procs : proc[p] \in Process /\ proc[p].handler.mtime \in Nat
    BY DEF TypeOK, Process, Handler
  <1>5. /\ \A n \in Caches : name[n] # 0 => FileOK(n, inode[name[n]], g, Excused)
        /\ \A p \in Procs : Early(proc[p].handler.mtime, g, Excused) /\ Stage(proc[p], g, Excused)
    BY DEF DataInv
  <1> HIDE DEF g, h
  <1>6. /\ \A n \in Caches : name[n] # 0 => FileOK(n, inode[name[n]], h, Excused')
        /\ \A p \in Procs : Early(proc[p].handler.mtime, h, Excused') /\ Stage(proc[p], h, Excused')
    BY <1>1, <1>2, <1>3, <1>4, <1>5, Later
  <1>7. \A p \in Procs : Writes(p)'
    BY <1>1 DEF DataInv, Writes, Building
  <1>8. /\ \A n \in Caches : name'[n] # 0 => FileOK(n, inode'[name'[n]], h, Excused')
        /\ \A p \in Procs : /\ proc'[p].pc \in {"idle", "exit"} => proc'[p].fd = 0
                            /\ Early(proc'[p].handler.mtime, h, Excused') /\ Stage(proc'[p], h, Excused')
    BY <1>1, <1>6 DEF DataInv
  <1>9. /\ index'["list"].mtime = index'["list"].gen
        /\ \A i \in Unused' : inode'[i] = Fresh
    BY <1>1 DEF DataInv, Unused
  <1> QED
    BY <1>7, <1>8, <1>9 DEF DataInv, h

LEMMA DataStep == TypeOK /\ Counted /\ LockInv /\ MapInv /\ DataInv /\ [Next]_vars => DataInv'
  <1> SUFFICES ASSUME TypeOK, Counted, LockInv, MapInv, DataInv, [Next]_vars PROVE DataInv'
    OBVIOUS
  <1>1. TypeOK'
    BY TypeStep
  <1>2. ASSUME NEW p \in Procs, Build(p) PROVE DataInv'
    BY <1>1, <1>2, CheckData, UnlinkData, CreateData, HeaderData, MergeData, SrcData DEF Build
  <1>3. ASSUME NEW p \in Procs, Step(p) PROVE DataInv'
    BY <1>1, <1>2, <1>3, SessionData, EndData DEF Step
  <1>4. CASE UNCHANGED vars
    BY <1>4 DEF vars, DataInv, Writes, Building, Unused, Excused
  <1> QED
    BY <1>1, <1>3, <1>4, PowerData, ForeignData DEF Next

LEMMA DataInit == Init => DataInv
  <1> SUFFICES ASSUME Init PROVE DataInv
    OBVIOUS
  <1>1. /\ \A p \in Procs : proc[p] = Idle
        /\ Idle.pc = "idle" /\ Idle.fd = 0 /\ Idle.handler.mtime = 0
        /\ index["db"].gen = 1 /\ index["list"].mtime = index["list"].gen
        /\ \A n \in Caches : name[n] = 0
        /\ \A i \in Inodes : inode[i] = Fresh
    BY DEF Init, Idle, NoHandler, Sources
  <1>2. \A p \in Procs : /\ Early(proc[p].handler.mtime, index["db"].gen, Excused)
                         /\ Stage(proc[p], index["db"].gen, Excused) /\ Writes(p)
    BY <1>1, NoStage DEF Early, Writes, Building
  <1> QED
    BY <1>1, <1>2 DEF DataInv, Unused

\* All of it together.
Inv == TypeOK /\ Counted /\ LockInv /\ MapInv /\ DataInv

LEMMA Invariant == Spec => []Inv
  <1>1. Init => Inv
    <2>1. Init => LockInv
      BY DEF Init, LockInv, MtimeHonest, Idle, NoHandler, Sources
    <2>2. Init => MapInv
      BY DEF Init, MapInv, Building, Idle, NoHandler, Sources, Caches
    <2> QED
      BY <2>1, <2>2, InitType, DataInit DEF Inv
  <1>2. Inv /\ [Next]_vars => Inv'
    BY TypeStep, LockStep, MapStep, DataStep DEF Inv
  <1> QED
    BY <1>1, <1>2, PTL DEF Spec

\* A cache file with a clean header and a stamp of all that it covers is whole,
\* for any processes, index files, and file dependencies: whatever was killed, full
\* or without power while it was written, the dirty flag and the order of the
\* writes and syncs of pkgcachegen.cc never leave half a map that CheckValidity
\* would take, and its two ways to collect file provides leave none out.
THEOREM Clean == Spec => []CleanIsWhole
  <1>1. Inv => CleanIsWhole
    <2> SUFFICES ASSUME Inv, NEW n \in Caches
                 PROVE  \E f \in {IF name[n] = 0 THEN Fresh ELSE inode[name[n]]} :
                           f.head = "clean" /\ (\A s \in Covers(n) : f.img.file[s] # NoStamp) =>
                              Whole(n, f.img)
      BY DEF CleanIsWhole
    <2> DEFINE f == IF name[n] = 0 THEN Fresh ELSE inode[name[n]]
    <2>1. SUFFICES ASSUME f.head = "clean", \A s \in Covers(n) : f.img.file[s] # NoStamp
                   PROVE  Whole(n, f.img)
      OBVIOUS
    <2>2. name[n] # 0 /\ f = inode[name[n]]
      BY <2>1 DEF Fresh
    <2>3. FileOK(n, f, index["db"].gen, Excused)
      BY <2>2 DEF Inv, DataInv
    <2> HIDE DEF f
    <2>4. CASE n = "pkg"
      <3>1. f.img.file["list"] # NoStamp /\ f.img.file["db"] # NoStamp
        BY <2>1, <2>4 DEF Covers, Sources
      <3> QED
        BY <2>1, <2>3, <2>4, <3>1 DEF FileOK, Finished, PkgImage
    <2>5. CASE n = "src"
      BY <2>1, <2>3, <2>5 DEF FileOK, Finished, SrcImage, ListDone, Whole, Covers
    <2> QED
      BY <2>4, <2>5 DEF Caches
  <1> QED
    BY <1>1, Invariant, PTL

\* A cache that CheckValidity accepts has the packages that the index files have
\* now, for any number of sessions, generations and sizes; those of the database
\* only until another program has run rpm under an open write handler, or apt itself
\* has changed the database after a lock that was not counted.
THEOREM Stale == Spec => []NeverStale
  <1>1. Inv => NeverStale
    <2> SUFFICES ASSUME Inv, NEW n \in Caches, name[n] # 0,
                        Valid(n, inode[name[n]].head, inode[name[n]].img),
                        NEW s \in Covers(n)
                 PROVE  inode[name[n]].img.pkgs[s] = index[s].gen \/ (s = "db" /\ Excused)
      BY DEF NeverStale, Excused
    <2> DEFINE f == inode[name[n]]
    <2>1. /\ f.head = "clean" /\ FileOK(n, f, index["db"].gen, Excused)
          /\ \A t \in Covers(n) : f.img.file[t].mtime = index[t].mtime
      <3>1. FileOK(n, f, index["db"].gen, Excused)
        BY DEF Inv, DataInv
      <3>2. ASSUME NEW t \in Covers(n) PROVE f.img.file[t].mtime = index[t].mtime
        <4>1. f.img.file[t] = [mtime |-> index[t].mtime, size |-> SizeNow(t)]
          BY DEF Valid
        <4> HIDE DEF f
        <4> QED
          BY <4>1
      <3>3. f.head = "clean"
        BY DEF Valid
      <3> HIDE DEF f
      <3> QED
        BY <3>1, <3>2, <3>3
    <2>2. /\ index["list"].mtime = index["list"].gen /\ index["db"].mtime # 0
          /\ index["db"].mtime = index["db"].gen \/ Excused
          /\ index["list"].gen # 0
      <3>1. index["list"].gen \in 1..MaxGen["list"] /\ MaxGen["list"] \in Nat
        BY ConstantsOK DEF Inv, TypeOK, Sources
      <3> QED
        BY <3>1 DEF Inv, DataInv, MapInv, LockInv, MtimeHonest, Excused
    <2>3. f \in File /\ f.img.pkgs["db"] \in Nat /\ index["db"].gen \in Nat
      BY DEF Inv, TypeOK, File, Image, Sources
    <2> HIDE DEF f
    <2>4. CASE n = "pkg"
      <3>1. /\ Covers(n) = {"list", "db"} /\ s \in {"list", "db"}
            /\ f.img.file["list"].mtime = index["list"].gen
            /\ f.img.file["db"].mtime = index["db"].mtime
        BY <2>1, <2>2, <2>4 DEF Covers, Sources
      <3>2. f.img.file["list"] # NoStamp /\ f.img.file["db"] # NoStamp
        BY <2>2, <3>1 DEF NoStamp
      <3>3. f.img.pkgs["list"] = index["list"].gen /\ Dated(f.img, index["db"].gen, Excused)
        BY <2>1, <2>4, <3>1, <3>2 DEF FileOK, Finished, PkgImage
      <3>4. f.img.pkgs["db"] = index["db"].gen \/ Excused
        BY <2>2, <2>3, <3>1, <3>3 DEF Dated
      <3> QED
        BY <3>1, <3>3, <3>4 DEF f
    <2>5. CASE n = "src"
      <3>1. s = "list" /\ f.img.file["list"].mtime = index["list"].gen
        BY <2>1, <2>2, <2>5 DEF Covers
      <3>2. f.img.pkgs["list"] = f.img.file["list"].mtime
        BY <2>1, <2>5 DEF FileOK, Finished, SrcImage, ListDone
      <3> QED
        BY <3>1, <3>2 DEF f
    <2> QED
      BY <2>4, <2>5 DEF Caches
  <1> QED
    BY <1>1, Invariant, PTL

=============================================================================
