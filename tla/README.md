# A formal model of apt-rpm

This directory holds TLA+ modules that model the parts of apt-rpm in which
control is hard: the fetcher with its workers and method processes, the http
method's pipeline, the dependency cache with its resolver and the commands of
apt-shell, a commit over several discs, and the cache files with the rpm
database. TLC checks them on small instances; TLAPS proves the most important
invariants for every value of the constants.

All source paths below are relative to the repository.

- [1. The system](#1-the-system)
- [2. The modules](#2-the-modules)
- [3. The runs: what is checked, with which bounds](#3-the-runs)
- [4. Fairness](#4-fairness)
- [5. The proofs](#5-the-proofs)
- [6. Where the code and its documents disagree](#6-where-the-code-and-its-documents-disagree)
- [7. What is not modelled](#7-what-is-not-modelled)
- [8. Plan](#8-plan)
- [9. Running](#9-running)

## 1. The system

apt-rpm is one process with child processes. `apt-get`, `apt-shell` and
`apt-cache` are thin programs over the library in `apt-pkg/`. A typical
installation goes through these parts, in this order:

    sources.list, indexes --> cache files --> pkgCache --> pkgDepCache <--> resolver
                                                              |
                    package manager <-- order list <-- marks  |
                         |                                    v
                        rpm             pkgAcquire (queues, workers) <--pipes--> methods --> servers

There are no threads. Concurrency comes from the method processes, the servers
behind them, and from two programs that use the same files. Within the APT
process, difficulty comes from handlers that call one another back and change
lists while those are being walked.

### 1.1 Fetch scheduler (`apt-pkg/acquire.cc`)

- **State.** `Items` (what is to be fetched), a list of `Queue`s named
  `Access` or `Access:Host`, one `MethodConfig` per access method, the counter
  `ToFetch`, the flag `Running`. Each `Queue` has a linked list of `QItem`s (URI,
  owner, worker), a worker, `PipeDepth` and `MaxPipeDepth`.
- **Operations.** `Enqueue` and `Dequeue` (called by the items), `Run` (the select
  loop), `Shutdown`; inside a queue `Startup`, `Shutdown`, `FindItem`, `ItemDone`,
  `Cycle`.
- **Interactions.** An answer runs `Queue::ItemDone`, which dequeues and refills the
  pipe (`Cycle`), and then the item's `Done` or `Failed`, which may enqueue another
  URI, in the same or a new queue, which cycles again and may start a worker.
- **Hard.** Two counters are changed by nested handlers. An answer is matched to
  an item by URI and worker only, while several items may have the same URI, and
  redirects change an item's URI. `Run` may be called again on what a failed or
  cancelled `Run` left, with pointers to workers that no longer exist. A method
  may die at any moment.
- **Correct when** the counters are what a recount gives; every item being fetched
  has one request or one answer outstanding; an answer reaches its item; nothing
  stalls; `Run` ends; and a `Run` that says `Continue` has fetched everything.

### 1.2 Workers (`apt-pkg/acquire-worker.cc`)

- **State.** The child process and its pipes, `OutQueue`, `MessageQueue`,
  `CurrentItem`.
- **Operations.** `Start` (fork, capabilities, configuration), `RunMessages` with a
  handler per code (103, 200, 201, 400, 401, 403, 404), `QueueItem`, `InFdReady`,
  `OutFdReady`, `MethodFailure`, and the destructor, which waits for the process.
- **Hard.** `CurrentItem` is a pointer into a list whose entries are deleted. A
  write may fail while answers are still unread.
- **Correct when** `CurrentItem` never outlives its entry, the configuration is sent
  before the first request, and the destructor returns.

### 1.3 Method engine (`apt-pkg/acquire-method.cc`)

- **State.** `Messages` (read and not handled), `Queue` of requests with
  `QueueBack`, and, inside a question, a private list of messages.
- **Operations.** `Run`, `URIStart`, `URIDone`, `Fail`, `Redirect`, `MediaFail` (insert
  a disc) and `NeedAuth` (ask for a password).
- **Hard.** The two questions are synchronous: while they wait for 603 or 604, other
  messages come in, several in one read, and must be put aside in order.
- **Correct when** each request is answered once, in order; each question gets the
  answer that was given to it; and every question returns.

### 1.4 http (`methods/http.cc`) and the other methods

- **State.** One `ServerState` (host, connection, `Persistent`, `Pipeline`,
  `Location`), buffers, `FailCounter`, the `Redirected` lists, the pending errors.
- **Operations.** `Loop` and its phases, `Fetch`, which sends what the pipeline
  allows and is also called whenever a request arrives, and `Go`, which serves
  all descriptors during a transfer.
- **Hard.** A response carries no name. That it belongs to the head of the queue is
  only true while the requests on the connection are the first ones of the queue.
  Connections end with responses outstanding; redirects move the head to the end
  of the queue; new requests arrive in the middle.
- **Correct when** a response is taken for the request it answers; no request is
  lost; a request goes to its own host; all are answered.
- The other methods (`cdrom`, `file`, `copy`, `ftp`, `gzip`, `gpg`, `rsh`) answer a
  request before they read the next.

### 1.5 Items (`apt-pkg/acquire-item.cc`)

Each item is a chain of requests: Release file, index, decompression, checks of
size and checksum, rename into `lists/`; archives with a list of alternative
sources. **Hard:** failure in the middle leaves files of two generations.

### 1.6 Dependency cache (`apt-pkg/depcache.cc`)

- **State.** A `StateCache` per package (candidate, version to be installed, mode,
  flags, three bits that say which dependencies hold), a byte of bits per
  dependency with the bits of its or-group, and seven totals.
- **Operations.** `MarkKeep`, `MarkDelete`, `MarkInstall` (recursive with `AutoInst`),
  `SetReInstall`, `SetCandidateVersion`, `State::Save` and `Restore`, `Init`.
- **Interactions.** The resolver, `apt-get`, `apt-shell` and scripts call the marks in
  any order; everything they decide on (`BrokenCount() == 0`) is read from the
  cached bits and totals.
- **Hard.** All of it is incremental: `RemoveSizes`, `RemoveStates`, change, `AddStates`,
  `Update`, `AddSizes`, and `Update` only looks at the reverse dependencies of the
  package and of what it provides. A change outside such a pair, or a dependency
  not looked at, is wrong for ever. `MarkInstall` runs through cycles and may come
  back to a package whose loop is still running.
- **Correct when** bits and totals equal a full computation, and the version to be
  installed is the one that the mode says.

### 1.7 Resolver and commands (`algorithms.cc`, `cmdline/apt-shell.cc`)

- **State.** Flags and a signed short of score for each package, over a dependency
  cache; the list of `ResolveByKeep`; the `AutoRestore` of a command.
- **Operations.** `MakeScores`, `Resolve`, `ResolveByKeep`, `InstallProtect`,
  `RemoveDepends`; `pkgFixBroken`, `pkgAllUpgrade`, `pkgDistUpgrade`,
  `pkgMinimizeUpgrade`; the commands install, remove, keep, upgrade, dist-upgrade.
- **Hard.** The loops end by counters and by flags, one of which is cleared where it
  should be added; `ResolveByKeep` starts again after each repair; a session works
  on what earlier commands have marked, on hold or not.
- **Correct when** what the user named is still so when the command offers its
  result; an upgrade removes nothing; no internal error is met; every command ends.

### 1.8 Ordering and package manager (`orderlist.cc`, `packagemanager.cc`, `rpm/rpmpm.cc`)

- **State.** The order list with its flags, the names of the files, the items of the
  fetcher that are idle or failed, the disc in the drive.
- **Operations.** `InstallPackages` with its loop over discs, `GetArchives`,
  `FixMissing`, `OrderInstall`, `DoInstall`, and the three runs of rpm or the one
  transaction that `Go` ends in.
- **Hard.** The list is made anew for every disc, and stops at the first package that
  has no file; archives and transactions fail; what failed or was missing must reach
  the end of a loop that goes on.
- **Correct when** a commit that reports success has made every change; nothing is
  handed to rpm twice; and it ends.

### 1.9 Cache files and the rpm database (`pkgcachegen.cc`, `cachefile.cc`, `contrib/mmap.cc`, `rpm/rpmsystem.cc`, `rpm/rpmhandler.cc`)

- **State.** Two cache files, `pkgcache.bin` and `srcpkgcache.bin`, each with a dirty
  flag that is cleared after the contents are synced; the counters of the lock and
  the handler of the rpm database, with the time that it puts back.
- **Operations.** `CheckValidity`, `pkgMakeStatusCache`, the generator; `LockRead`,
  `Lock`, `UnLock`; opening and closing of `pkgCacheFile`; rpm's own changes.
- **Hard.** Validity is decided from time and size of index files that change at other
  moments than they are looked at; one process maps what another replaces; crashes
  between writes; the time of the database is put back under which rpm may run.
- **Correct when** a file that can be accepted is whole and up to date, maps do not
  change, and putting back a time hides no transaction.

### 1.10 The rest

Policy and pins, sources, records, cleaning, configuration, errors, strings,
files, hashes; the other command line programs; readers of package lists; Lua, Python and the repository tools; the
deb back end inherited from APT. These are sequential. `PROJECT.json` lists each
with what is modelled of it.

The hazards, each at the line where it bites and with the properties that would
catch it, are in `PROJECT.json` under `hazards`.

## 2. The modules

| module | what it is |
| --- | --- |
| `Acquire`, `MCAcquire` | the scheduler, its workers and, as seen by them, the methods |
| `AcquireProofs`, `AcquireFlowProofs`, `AcquireLineProofs` | theorems about `Acquire` |
| `MethodPromise` | what the scheduler relies on: requests are answered once and in order |
| `AcqMethod`, `MCAcqMethod` | the conversation of one worker with the message engine of its method; implements `MethodPromise` |
| `MethodProofs` | theorems about `AcqMethod`, among them that it implements `MethodPromise` |
| `HttpPipeline`, `MCHttpPipeline` | the http method and its servers |
| `HttpProofs` | theorems about `HttpPipeline` |
| `DepCache`, `MCDepCache` | the dependency cache and its operations |
| `DepCacheProofs` | theorems about `DepCacheInstall` and so about `DepCache` |
| `DepCacheInstall` | `MarkInstall(Pkg, AutoInst = true)`; the dependency cache with all its operations (`AutoSpec`) |
| `Resolver` | `pkgProblemResolver`, operators |
| `AptShell` | the commands of a session over one dependency cache |
| `OrderList` | `pkgOrderList`, operators |
| `PackageManager`, `MCAptShell` | a commit: fetching, discs, ordering, rpm; composed with `AptShell` |
| `CacheFiles`, `MCCacheFiles` | cache files, rpm database and lock, processes that share them |
| `CacheProofs`, `CacheDataProofs` | theorems about `CacheFiles` |

`DepCache` is extended by `DepCacheInstall`, this by `Resolver`, which both `AptShell`
and `OrderList` extend; `PackageManager` joins the two, so that one run goes from a
command of the user through resolver, marks, fetching and ordering to what rpm is
given, on one memory.

The methods appear at three depths. `Acquire` has many of them, each a queue of
requests of which the head is answered (which is `MethodPromise`). `AcqMethod` has
one, with the unread pipe, the message lists and the questions, and is shown to
implement `MethodPromise`. `HttpPipeline` has one again, with the connection
behind it, and its own checks that nothing is lost (`NothingLost`), since http
answers out of order after a redirect. `PackageManager` has a whole run of the
fetcher as one step: some archives arrive, some fail, some wait for another disc.

### 2.1 `Acquire`

The C++ handlers call one another, so the memory of the APT process is one record
`st` and each C++ method is an operator from such a record to the next (`Cycle`,
`Startup`, `Enqueue`, `Dequeue`, `ItemDone`, `FindItem`, `WorkerItemDone`, with the
names of the code). An action applies a handler with all it calls.

| in the code | in the model |
| --- | --- |
| `QItem` in the list `Queue::Items` | `st.entry[item]`, ordered by `pos` |
| `Item::Status` | `st.stat` |
| `PipeDepth`, `MaxPipeDepth`, `ToFetch` | `st.depth`, `st.maxd`, `st.toFetch` |
| `Queue::Workers` | `st.worker`: none, live, or dead (its pipes are closed) |
| `QItem::Worker` | `entry.worker`; `stale` after the worker was deleted |
| `OutQueue` and the pipe | `st.out` |
| the pipe back and `MessageQueue` | `inp` |
| `pkgAcqMethod::Queue` | `meth` |
| the error stack | `st.err` |

Three decisions deserve a word. A QItem may point to a worker that was deleted;
whether the worker of the next `Run` gets the same address is a choice (`reuse`
in `RunStart`), since `FindItem` compares addresses. `GetConfig` may fail for an
access method, once, and leaves its configuration linked: the choice `ok` in
`Enqueue`. An item is queued at most once, because all item classes enqueue their
next URI after `ItemDone` dequeued the last one; `QueueCounter` is then 1.

Actions: `Construct` (an item's constructor), `RunStart`, `RunFinish`, `RunAbort`,
`RunCancel` (only while something is to be fetched: the loop tests `ToFetch` before it
asks the display), `Shutdown`; `URIDone`, `URIFailure`, `URIStart`, `Redirect`, `MethodFailure`
of a worker; `MethodRead`, `MethodStart`, `MethodAnswer`, `MethodRedirect`, `MethodDie`
of a process.

### 2.2 `AcqMethod` and `MethodPromise`

A pipe gives a reader all that was written, so one read may bring several
messages, and one write may take only part of `OutQueue` (`OutFdReady` takes any
prefix). `Handle` treats one message at the front of `Messages`, as `Run` does;
`WaitRead` is one turn of the loop of `MediaFail` and `NeedAuth`: wait, read,
look at the front of `MyMessages`, put it aside or return with the rest appended
to `Messages`. `Eager` distinguishes the methods that answer in `Fetch` from http.
`Close` is the worker's destructor; it makes writes of the method fail, and it is
what `MethodExits` is about. A refusal and a consent are the same to the method
(`LookupFail` is true of no message; section 6).

### 2.3 `HttpPipeline`

`m` is the memory of the method: the queue with `back` for `QueueBack`, the server's
fields, the phase `at` of `Loop`. A response is a head and perhaps a body in the
sequence `in` (socket and buffer). `Fetch` is called where the code calls it: after a
new connection, on reuse, and in `Receive`, at any phase, because `Go` reads
commands from APT during transfers. The server (`Serve`, `ServerCloses`) answers in
order, with any of five kinds of response, with or without a body, announces
`close` or not, may be cut off in the middle of a body and may close at any time.

`err` is an error that stays in `_error` when a body is thrown away and its reading
fails; the next request is failed for it. `clean` becomes FALSE once something
was left on a connection that stays in use (a head that does not parse, a file
that cannot be written): from then on the code reads the rest of a response as a
head, and no claim about attribution is made until the next connection.
`LoneRedirects = FALSE` restricts the servers: a request that is alone in the queue
is not redirected to the same host. With TRUE, section 6 has what happens.
A response is a redirect, an error or contents: 100 Continue and 401, after which the
code asks for a password, are left out.
An item's list of visited URIs is forgotten when it is answered, which cannot be
told from keeping it: a finished request does not come back.

### 2.4 `DepCache` and `DepCacheInstall`

The archive is a set of constants: packages, versions, dependencies in or-groups
(`Depends`), what each matches directly or by a provided name (`Direct`, `Indirect`),
what is installed, the state of each package in the rpm database. The state is
one record `cache` (`pkg`, `dep`, `count`) and the copy `saved` of
`pkgDepCache::State`.

`CheckDep`, `DependencyState`, `GroupOrs`, `VersionState`, `VerState`, `Sizes` and `States`
are the functions of the same meaning in the code. `Change` is the frame that all
marks share: remove the package's sizes and states, change it, add them again,
recompute the dependencies in `Stale` and the packages in `Touched`. The counters
move once for each dependency in the code; `NewCounts` has the sum. `Rebuild` is the
full `Update(OpProgress)`, against which the cache is compared.

`DepCacheInstall` has the recursion with its depth limit: `Within` is a recursive function
of the levels that are left, each a function of package and state. `Installed` marks
the package and walks the or-groups of the version in order, on the state that the
previous ones left; `Satisfied` is one of them, with the level below as parameter.
`AutoSpec` is `DepCache!Spec` with this operation as the action `InstallAuto`.

### 2.5 `Resolver` and `AptShell`

The resolver is a record `fix`: the cache `c`, the flags, the scores, and where its
loops are. `MakeScores` is `BaseScores`, `Inherited`, `AlongProvides`, in signed shorts
(`Short`). `Resolve` of the code is `Prepare` and then `Investigate` for each package in
order of score, pass by pass; within it `Scan` walks or-groups, `TryTargets` what a
broken dependency matches (`ChangeSelf` when the package itself is to change),
`ApplyKills` the kill list. `KeepStep` is one turn of
`ResolveByKeep`. In `AptShell` each of them is a step, with nothing between two steps,
so that a loop in the code is a loop of states.

A session is `Request` or `Upgrade` (the user speaks), `CheckDeps`, `Begin`, a `NameStep`
for each name (`TryToInstall`), the resolver, and `Confirm` or `Decline`. `saved` is the
`AutoRestore`. `Unrequested` is the code's condition for asking; `GiveUp` is a command
that ends with an error and restores.

Abstractions: options are at their defaults except `--fix-broken` and
`APT::Remove-Depends`; scripts do nothing; `qsort` keeps the order of equal elements as
in the GNU library; the kill list has room. rpm selects every package for
installation, so only `RPM::Hold` holds.

### 2.6 `OrderList` and `PackageManager`

An ordering is a record `o` with the flags of each package and, during a pass, the
lists under construction and the function of each role. `OrderUnpack` has the four
passes, each a `DoRun`; `Forward` and `Backward` say which dependencies each of
`DepUnPackCrit`, `DepUnPackPreD`, `DepUnPackPre`, `DepUnPackDep`, `DepConfigure` and
`DepRemove` looks at, `Follow` what is visited because of one; `Earlier` is
`OrderCompareA`; `PutOff` flags with `After` what has no file yet.

The variable `pm` is the state of `InstallPackages`: the order list with its flags, the
file names, what the drive holds, which items are idle, and, as history, what each
transaction was given, from which list (`dropped` counts those that `FixMissing` threw
away) and whether it succeeded (`rounds`). Actions: `Commit`
(`GetArchives`), `Fetch` (a run of `pkgAcquire`: archives of other discs stay idle, and
at most `MaxFailures` archives in all cannot be had), `Abort`, `FixMissing`, `Swap` (the next disc,
or the collection of all under Copy-All), `DoInstall` (`OrderInstall`, then `Go`).

Decisions: the disc in the drive is preferred in one run of the fetcher only, since
`DonePreferredURI` stays set; a transaction is done in whole or not at all, and what
rpm checks in it is not modelled (between discs the code passes `--nodeps`,
`cmdline/apt-shell.cc:581`, and nothing takes it back); the flags that only dpkg needs,
`ConfigureAll` among them, are left out; the session ends with its commit.

### 2.7 `CacheFiles`

There is one package list and one rpm database, each with a generation (`gen`, what
it contains) and a time. A cache file is an image (`img`: the stamps of its index
files, which packages it has, and which files of one source were matched with the
file dependencies of another) with a header that is dirty or clean, and what of
both is on the disk after a power loss (`sImg`, `sHead`). Names point to inodes:
a process that has a file mapped keeps its inode when another unlinks the name.

The program counter of a process is a place in `pkgCacheFile::BuildCaches` and
`pkgMakeStatusCache`: `check`, `unlink`, `create`, `srccheck`, `srcread`, `generator`,
`select`, `merge`, `provides`, `srcunlink`, ..., `seal`, `sealed`, `use`, `run`, `close`. Each
system call that another process or a crash can separate is an action of its own.
`apt-get update` fetches lists before it opens the caches; `install` gives the lock
back and runs rpm, takes the lock again while media are left, and so on; `apt-cache`
may not write and builds in memory.

The lock is `handler` (the open database, with the time it found), `count` and
`pending`, an error that the program goes on with. `Locked` and `UnLocked` are
`rpmSystem::Lock` and `UnLock` with all their returns: `Lock` opens a write handler
and then returns without counting it while an error is pending; `UnLock` of a lock
that was not counted is an error, and the handler stays; the callers look at
neither. `DoInstall` may fail, with media left or not. When a program ends with a
handler open, `Exit` is `~rpmSystem`, which closes it and puts its time back. `risks`
is history: what has happened by which the time of the database may lie (`race`:
another program ran rpm under a write handler; `uncounted`: apt itself did, since its
lock was not counted).

`Foreign` is another program that runs rpm. `Kill` ends a process; `PowerLoss` ends all
and leaves of each file any mixture of synced and unsynced header and image.

Abstractions: the options in `OptionsHash` do not change; rpm is 4.1 or later; two
changes of an index do not fall into one second; rename and unlink are durable at
once, and `fsync` does not fail (the code ignores what `Sync` returns before it
writes the clean header of the source cache, `apt-pkg/pkgcachegen.cc:917`: where it
fails, `CleanIsWhole` rests on the disk). `Provides` has no failure of its own; it would
end as one of `Merge` does. At most one process may write to the cache directory: the code keeps no
two apart (no lock is held while caches are built, and the cache file is opened
without `O_EXCL`), so what two do to each other is not claimed.

## 3. The runs

`expect: pass` runs explore their whole state space.

| run | bounds | shows |
| --- | --- | --- |
| `acquire_core` | 3 items on queues http (depth 2) and cdrom (1), 3 URIs, a second URI per item, 1 Run, deaths, one preferred URI | type invariant, `CurrentItem`, one request each, no stall, the right owner, preferred URIs first |
| `acquire_runs` | 2 items, one on each of 2 queues (http, cdrom), 2 URIs, 1 retry with either URI, 2 Runs, 1 redirect, deaths, cancels, `Shutdown` between, fairness | requests and answers match, counters are exact, success is complete, every Run ends |
| `method` | 6 requests; methods with depth 4 or 1, with and without configuration, eager or not; 2 questions each; the worker may go at any time; fairness | nothing lost or overtaken; questions match; configuration first; `MethodPromise` implemented; all answered; the process ends |
| `method_hang` | 4 requests, 2 outstanding, 1 question | violation, section 6 |
| `depcache` | 4 packages, 7 versions, 10 dependencies; installing with and without `AutoInst`, selecting any of three candidates, one of which drops a name, purging, reinstalling, save and restore; unpacked and half-configured packages, an ignored dependency | totals are exact, and so are bits but for dependencies on a dropped name; the version to be installed is known |
| `http_pipeline` | 3 requests, 2 hosts, pipeline of 2, 5 kinds of response, full disk, fairness | attribution, nothing lost, right host, never waits for what was not asked, all answered |
| `http_redirect` | 2 requests, 1 host | violation, section 6 |
| `apt_shell` | 12 packages, 14 versions, 16 dependencies; 2 commands of at most 2 names, then a commit; 2 discs and the net, all 4 settings of Copy-All and `--fix-missing`, 1 archive that fails, any transaction may fail; fairness | requests kept, upgrade gentle, no internal error, names complete, one list is installed when it says so, handed once, commands and commits end |
| `shell_hold` | the same archive, other names | violation, section 6 |
| `commit_missing` | the same archive, no Copy-All and `--fix-missing` | violation, section 6 |
| `cache_files` | 1 list and 1 database of 2 generations each, 2 processes of which one may write, 4 inodes, 1 kill or power loss, other rpm programs, any transaction may fail or leave media | what can be accepted is whole; maps are stable; the cache is up to date and the time of the database honest until a lock was not counted |
| `lock_uncounted` | 1 process, 2 generations, no crash, no other program | violation, section 6 |

### Why these bounds

- **Acquire.** What can go wrong is a matter of two items that compete: for a pipe
  that has room for one (cdrom) or for fewer than there are (http with depth 2 and
  three items), for one URI (`hx` is shared), or for the first place (preferred
  URIs). Three items give a pair and one that waits. Two Runs meet everything that
  the first leaves. There an item on each queue, a retry and a redirect are enough: what is
  left is an entry with a stale worker and a counter, on a queue whose worker is gone
  (http) or lives on (cdrom); and an item that fails or is redirected may come behind the
  other one, on the queue with room for one, where it waits until that is answered and
  the pipe is refilled. The items' choices are
  complete: any URI, any final status.
- **AcqMethod.** A question has to meet messages of each of four kinds: read before,
  read with the acknowledgement before or after it, and still in the pipe. Four
  outstanding requests and any split of the reads give each of them; six requests
  make refills happen in the middle. Two questions each let a stray answer to the
  first be taken by the second.
- **HttpPipeline.** Two requests on a connection, one to be sent next: three. Two of
  them share the first host; redirects lead to it or away. `PipelineDepth` 1 lets
  `Fetch` have two outstanding: its loop counts from -1.
- **DepCache.** The archive has one of each: a dependency by version, by name, by a
  provided name, an or-group that mixes them, one that is not critical, a conflict
  with a name that the package itself provides, an obsoletes, a package that is
  installed and can be upgraded, one that is new and one that exists only as a
  name. Versions have distinct sizes, so that no two wrong sums agree. `Selectable`
  has the other version of an installed package and both versions of one that provides
  a name with one of them only. `SaveMarks` bounds what may be marked when the state is
  saved; in the run nothing is, as in `AutoRestore` at the start of a session.
- **AptShell, PackageManager.** The archive of `MCAptShell` (drawn in the module) is
  made of what the resolver has branches for: an upgrade that is held back by what is
  installed, an obsoletes, an or-group between them, two packages that exclude each
  other under a provided name, a circle of new packages, one that is broken from
  the start and one that cannot be had with the upgrade. Two commands are what it
  takes for one to work on the marks of another. Two discs are the least on which a
  list is made anew; one archive that fails meets each of them. Only without Copy-All and
  with `--fix-missing` is a list thrown away after a transaction.
- **CacheFiles.** All generations have one size, so that only the time tells them
  apart. The first list and the second database have dependencies on files, so that
  both ways to collect provides, and the change from one to the other, occur. One
  process that writes and one that does not are all that the code copes with. One
  crash hits every point, including the rebuild after a list was replaced.

### What the properties say

- `CountersExact` (Acquire): `ToFetch` is the number of queued items and each
  `PipeDepth` the number of its items being fetched, and no pipe is overfull. The
  first holds unless an error is pending: `Dequeue` refuses an item that is
  fetching with an error, and `Shutdown` deletes it all the same.
- `OneRequestEach`: requests outstanding, answers on the way and items being fetched
  are in one-to-one correspondence (after a failed Run, a request may be missing,
  never doubled). `MessagesMatch`: an answer always names an item that its worker
  waits for, over all Runs.
- `NeverStalls`, `RightOwner` and `RunEnds` are claimed while all earlier
  Runs have succeeded. After one that failed or was cancelled, items stay `Fetching`
  and are never sent again. `apt-get update` does call `Run` a second time without
  looking at the first result (`cmdline/apt-get.cc:964`, `:991`): after a failure the
  pending error ends that Run at its first turn; after a cancel it would wait, but the
  text display of apt-get never cancels.
- `SuccessIsComplete`, `PreferredFirst`: action properties, over all Runs.
- `RightOwner` and `OneRequestEach` are claimed of methods that follow no redirect,
  which is every method but http (`MaxHops = 0`, in `acquire_core`). Redirected to one
  URI of one queue, two items are answered in the order of the list, not of the
  requests, and both properties are false. The code has no promise on that; both items
  get a file of the same URI, in each other's place. That every answer still finds
  an item, `MessagesMatch`, is claimed with redirects.
- `NothingLost` (AcqMethod): what was answered followed by what is anywhere between
  (`Unanswered`: the queue, then the messages put aside, unread or still in `OutQueue`)
  is the sequence that was sent. `OneAckEach`: questions under way and
  acknowledgements under way make one while the method waits, none otherwise.
- `Attributed`, `Asked` (HttpPipeline) and that a request is sent once to a connection
  (`RightHost`) are claimed while `clean`. Once something was misread, a redirect may be
  taken for the answer to a request that is still unanswered; that request then moves
  behind `QueueBack` and goes out again on the same connection. Four requests to
  one host are the fewest that show it. That a request goes only to the host of its
  URI is claimed always.
- `DepFresh`, `CountersExact` (DepCache): equal to a full computation. `TargetKnown`: the
  version to be installed is none, the current or the candidate. That it is the one
  which the mode says (`apt-pkg/depcache.h:30-33`) is false after
  `SetCandidateVersion`, which may leave a package marked `Install` for the version that
  is already there.
- `DepFresh` leaves out the dependencies on a name that has been dropped (`Dropped`):
  one that some version of a package provides and neither its candidate nor its
  installed version does. `Update` follows what the new candidate provides and not what
  the old one did (`apt-pkg/depcache.cc:640`), so in the run, when `t2` is selected, the
  dependencies on `mta` keep the bits that `t1` gave them. All other dependencies are
  fresh then too, or-groups and packages agree with their dependencies, and a dropped
  name is fresh again when a version that provides it is selected.
- `RequestsKept`: whatever the resolver removed or kept to make the rest fit, what the
  user named is as named when the result is offered. It fails when `Protected` is lost
  anywhere in the nested loops, or a score reorders what was pinned.
- `UpgradeGentle`: from a sound selection in which nothing on hold is marked, an
  upgrade breaks, installs and removes nothing, and leaves earlier marks. Both
  conditions are needed: without the second it is the finding of `shell_hold`.
- `NamesComplete`: naming a package whose dependencies candidates can meet without
  excluding anything (`Installable`) leaves it whole, through circles and or-groups.
  It is not true in general, and the code does not say so: the resolver is there.
- `SuccessIsInstalled`: replaying what rpm was given (`System`) yields the selection.
  It is false when `FixMissing` throws the list away after a transaction, which takes
  Copy-All off and `--fix-missing` (`commit_missing`). `ListIsInstalled`, which `apt_shell`
  checks with every setting, leaves out just these commits.
- `HandedOnce`: no version is in two transactions of a commit, whatever lists were made; a
  removal is in one transaction of a list. A new list has no flags of what is done and
  `FixMissing` leaves removals in the selection, so that a removal of the first round is
  handed over again with it (`apt-pkg/packagemanager.cc:109-110`): TLC finds that as well
  when the condition on the list is dropped.
- `CleanIsWhole`: no file that `CheckValidity` can ever accept lacks packages or the
  matching of file dependencies, whatever crashed; `NeverStale`: what it accepts now is
  what the index files contain now.
- `MtimeHonest` and `NeverStale` are claimed while `risks` is empty: until another program
  changed the database under an open write handler (`MayRace = FALSE` in the run) or
  apt did, with a lock that was not counted. Without the second condition
  (`NoChangeHidden`) it is the finding of `lock_uncounted`.

Every property has a mutant in `PROJECT.json`: the definition with a plausible
mistake, with which TLC finds the property violated. The mutants stand in the
modules next to what they change.

### Deadlock

TLC checks for deadlock in all runs. A program that is through stutters
(`Stop`, `Finished`, `Quit`, `Leave`); in `AcqMethod` the select loop pulses while the
worker exists, so that a wait for ever is found by `AskEnds` and not as a deadlock.

## 4. Fairness

- `Acquire!FairSpec`: the select loop of `Run` serves each readable descriptor and tests
  `ToFetch` and the error stack on every turn: a message of some worker is taken, a
  death is noticed, and `Run` returns when it may. The methods are processes of their
  own that bound their waits by timeouts: of those with a request, one goes on. Which
  queue or method is served is not said, so fairness does not hide a queue that
  starves, and APT's turns do not stand for those of the methods. Deaths and cancels are
  never due.
- `AcqMethod!FairSpec`: weak fairness of each handler: descriptors that are readable
  or writable are served in every turn of the two loops. `Close` is due only when
  everything is answered (Run's end). A method need not ask.
- `HttpPipeline!FairSpec`: APT writes what it has (`Receive`), the method runs (`Loop`).
  Nothing is asked of servers: `NoHeader` and `NoData` are the timeouts. Redirects
  range over a finite set of URIs; on an infinite one, a server could lead on for
  ever (the code stops at a URI it has seen, not after a number of hops).
- `AptShell!Runs`, `PackageManager!InstallRuns`: one thread runs a command or a commit.
  Both are weak fairness of the program's steps, written without `ENABLED`: either
  the program is at the prompt again and again, or it takes steps for ever. Between
  prompts a step is always possible, or TLC would report a deadlock. The user
  need not speak, but answers a confirmation and inserts a disc when asked.
- `CacheFiles` has no fairness: processes may stop anywhere, and only safety is claimed.

## 5. The proofs

TLAPS checks all theorems for any finite set of items and any queues, URIs, pipe
depths and numbers of Runs (`Acquire!ConstantsOK`, `NoneIsNoEntry`), for any archive
that is well formed (`DepCache!GraphOK`: dependencies belong to their version, direct
matches are of the target, indirect ones provide it) and finite, and for any depth of
`AutoInst` (`DepCacheInstall!DepthOK`; `TotalsOK`: finitely many
packages, sizes that are numbers, and a package to be unpacked again is of some
version, since the list parsers set `CurrentVer` with that state), for any processes, inodes and
generations (`CacheFiles!ConstantsOK`, with at most one process that may write), for any
kinds of methods, requests and questions (`AcqMethod!ConstantsOK`), and for any
requests, URIs, hosts and servers (`HttpPipeline!ConstantsOK`). TLC evaluates these
assumptions in the runs. Strengthened invariants were checked by TLC before they
were proved.

### `AcquireProofs`: `TypeCorrect`, `Counters`, `CurrentItems`

`CountersExact` is not inductive: that `PipeDepth` falls by one in `ItemDone` is right
only if the item it is for was being fetched, and `Cycle` adds what it picks. The
invariant `Inv` adds, as predicates on the memory (`Good`):

- `WorkerOK`: an entry has a worker, current or stale, only if its item is
  `Fetching`, and an item that is `Fetching` is queued. So `FindItem`, which wants a
  worker, returns items that are being fetched.
- `OrderOK`: positions in a queue are distinct and not beyond the tail. So the order
  of `Cycle`'s search is total, the ranks of idle items are 0, 1, ..., and `Cycle`
  picks exactly the first `Room` of them (`PicksRanked`: the ranks are an injection
  of the picked items into `0..k-1`, and so onto it).
- `MaxdOK`, `BornOK`, `CurrentOK`, and the two counters.

There is a lemma per C++ method (`CycleGood`, `StartWorkersGood`, `StartupGood`,
`ItemDoneGood`, `EnqueueGood`, `OwnerGood`): a good memory is left good. Then a lemma
per action, `StepInv`, and the theorems.

### `AcquireFlowProofs`: `NoStall`, `CompleteRuns`, `PreferredServed`

`NeverStalls` and `SuccessIsComplete` are about what lies on a queue's line, its requests
and the answers to them (`Load`), which no handler looks at. The invariant `FlowInv`
relates it to what the handlers do keep:

- `Tallied`: without an error, `Load` never exceeds `PipeDepth`, and equals it as long as
  all Runs were complete and the method lives. `RunFinish` sees `ToFetch` = 0; then
  nothing is queued, `PipeDepth` is 0 by `Counters`, and so the line is empty.
- `FedBut`: while a Run goes on without an error, a queue with items has one that is being
  fetched. In the middle of a handler this is false of the queue that an answer was
  taken from or that an item entered; the second parameter names the queues that the
  `Cycle` to come makes up for. `CycleFlow` discharges it, since of the idle items one is
  ahead of all others (`FirstPicked`) and an empty pipe has room.
- `Wired`, `Rested`, `Staffed`, `WaitOK`: nothing is on a line without a living worker; a queue
  without one has nothing half fetched; while Run is on every queue has one; what
  is on a list waits or is fetched.

An answer is a chain of handlers (`Answered`): the item leaves, its queue is cycled, its
owner enqueues the next URI, which may open a queue, start a worker and cycle that.
Each link is a relation between two memories with a lemma (`LeftFlow`, `CycleFlow`,
`OpenedFlow`, `EnteredFlow`), and the action's lemma composes them. `PreferredServed` uses
the same chain: `CycleServed` is about one `Cycle` (ranks grow along `Ahead`, so a
preferred item is picked before any other), and a second `Cycle` in the same step is
only of a queue that was empty.

### `AcquireLineProofs`: `MessagesFound`, `OneRequest`, `AnswersOwned`

A message carries a URI, not an item. These theorems are about the line of a queue as
a sequence: the messages on their way to the worker, then the requests with the
method, then those in the pipe (`LineAt`). What each action does to it is a relation
on sequences, proved once (`LineBegun`, `LineRedirected`, `LineDied`, `LineTaken`,
`LineLonger`, and `ReadLine` for the pipe, which leaves it as it is).

- `MessagesFound`, with redirects. By `NameInv`, each place of a line can be labelled
  with an item that its worker waits for (`Chained`). The first place of a label has
  the URI of its item, the next one the URI that the message before it leads to, and
  nothing follows a final answer or a request. The label need not be the item whose
  file the method writes: after a redirect to the URI of another item, `FindItem`
  returns that one, and the two exchange labels.
- `OneRequest` and `AnswersOwned` assume `MaxHops = 0`, and are false without it (section
  4). `LineInv` says that held places have distinct items, which are being fetched; that
  of two items with one URI the first in the list is the first on the line; that an
  item which waits stands behind those being fetched that have its URI; and, while all
  Runs were complete and the method lives, that every item being fetched has a place.
  When the method died, what is left of that is `Passed`: of the items of one URI, those
  before one with an answer have theirs. `Plain`: no message is a redirect. `FindItem`,
  the first of the list with that URI, is then the item of the first place.

### `DepCacheProofs`: `Freshness`, `Targets`, `TypeCorrect`, `Counters`, `NothingBroken`, `UpdateIdle`

`Freshness` says that the incremental update looks at enough: after any sequence of
`MarkKeep`, `MarkDelete`, `MarkInstall` with and without `AutoInst`, `SetReInstall`,
`SetCandidateVersion`, `Save` and `Restore`, for any archive and any selections, all bits
are what a full computation gives, but for dependencies on a dropped name (`Dropped`,
section 3). The invariant `GoodInv` adds to `DepFresh` the shape of
the state and `TargetKnown`: were a package to be installed in a version that is
neither current nor candidate, `Update` would not follow what that version
provides. Both are also needed of the saved copy. `NotStale` is the core: a dependency
outside `Stale` is judged as before, because the versions it can match have not
changed. `ChangeGood` lifts it to or-groups and packages.

`Targets`, `TypeCorrect` and `Counters` need no condition: whatever is selected, `RemoveStates` and
`RemoveSizes` take out of the totals what `AddStates` and `AddSizes` put in.

- The totals of a full count are sums over all packages, folds of the community modules
  and so recursive functions on sets. That such a function exists for any finite set,
  and gives the same whichever element is taken first, is proved by a smallest
  counterexample: of the sets without it, one of least cardinality (`AddsExist`,
  `AddsTotal`). From that, `TotalChange`: to change one summand changes the sum by the
  difference. `TotalBound`: a sum of zeros and ones is at most the number of packages.
- `SoundInv` adds the shape of the state and `Planned`: what is marked `Install` has an
  install version, and a package that is kept and is installed has one. `AddSizes` reads
  the size of that version without a test, so its sum is defined only because of
  this. `ChangeSound` shows that one change keeps the counts, and there is a lemma for
  each operation. The saved copy satisfies the same.

All six theorems are about `AutoSpec`, so `MarkInstall` may go on to the dependencies. The
argument for that is once and for all: a set of states that no mark of a single package
leaves (`Closed`) is not left by `AutoInstall` either (`AutoKept`). It goes by the levels
that are left, and at each level over the or-groups and over the packages that one of
them marks or deletes; each of these folds exists and stays in the set (`FoldExists`,
`FoldKept`), in whatever order it takes its elements. The sets are the states that are
`Sound`, and those that are also `Good`; they must be typed, since `Within` is a function
on `Cache`, and that the counters are numbers is part of `Sound`. So the inductive
invariant `WholeInv` is the two together.

`NothingBroken` is what `apt-get` and `apt-shell` take `BrokenCount() == 0` to say. It
joins the two invariants: the counter is the number of packages whose bits say that they
are broken (`SoundInv`), and the bits are what the dependencies give (`GoodInv`); then
`FreshServed` reads from the bits of or-groups that each critical one has a member that
holds, and that no conflict is met. `UpdateIdle` joins the same two: state, bits and
counters together are what `Update(OpProgress)` would compute. Both speak of states in
which no name is dropped.

### `CacheProofs`: `TypeCorrect`, `Honest`, `Stable`

- `TypeCorrect` carries `Counted` along: the lock is not counted wherever one is taken, at
  the start, after the lists were fetched and after a transaction. `Lock` adds or does
  not, and `UnLock` is called in either case, so the counter stays between zero and one
  only because `UnLock` tests it.
- `Honest` (`MtimeHonest`) rests on `LockInv`: a process in `run`, where rpm changes the
  database, has a write handler only with an error pending, which is the `uncounted` of
  `risks`; and the time that a write handler would put back, at `Close` or at `Exit`, is
  that of the generation that is there, unless `risks` says otherwise. At most one
  process writes, so no other process has a write handler when apt runs its transaction.
- `Stable` (`MapStable`) rests on `MapInv`: the process that builds is the only one
  that has the inode under construction, and no other can take it, because
  its header is not clean or it has no stamp of the database yet; both names
  never point to one inode; and a file that is opened to be written has no name,
  since it was unlinked.

### `CacheDataProofs`: `Clean`, `Stale`

What a cache file contains depends on all that its builder did since it opened the
index files, so `CleanIsWhole` needs the whole build as an invariant (`DataInv`):

- `Stage` says, for each place a process can be at, what its image has by then: nothing
  at first, the stamp of an index file before its packages, these before what they
  provide, and at `seal` a finished package cache (`PkgImage`).
- `FileOK` says of a named file what a power failure may make of it. Either its header
  is not clean, neither in memory nor on disc; or what was synced is what is in
  memory, and that is finished; or it has no stamp of the database, so that nobody
  takes it for a package cache. This is what the order of the two `Sync` calls and
  the header is for. `LossOK`: any mixture of old and new parts keeps it.
- `Writes` says of the file a process is writing that what was synced of it is empty or
  not clean. With `MapInv` no other process touches it meanwhile.

`Stale` follows from `Clean` and from what `Honest` says of times: a stamp that equals
the present time of an index file is of its present generation (`Dated`, `Early`).

### `MethodProofs`: `Typed`, `Order`, `Acknowledged`, `Prepared`, `Implements`

`Order` and `Acknowledged` are about subsequences of what is on the line. `Select` is a
recursive function; what it does with an appended element, a tail and a
concatenation (`SelectAppend`, `SelectConcat`, ...) is proved by taking the least
position where the claim fails, since an induction rule with a predicate cannot be
instantiated. The invariant adds `Aside` (`MyMessages` is empty outside of a question, so
that what is read comes behind what was read before) and `Configured` (until a
method that asked for the configuration has applied it, nothing has happened and
the configuration is the first of all messages). `Moves` is the core: every step
sends one request behind all others, answers the first one, ends the conversation,
or leaves `Unanswered` as it is, although `WaitRead` takes an acknowledgement out of
the middle of the line. `Order` and the refinement `Implements` both rest on it.

### `HttpProofs`: `Typed`, `Conserved`, `Aligned`, `SentOnce`, `OwnHost`, `Awaited`

Responses carry no name, so that a response is attributed rightly is a fact about
positions (`Position`): while the connection is clean, the first e requests of the
queue are those whose responses are in the buffer or being read, in order (`Places`);
the next ones are those in `out`; all of them are for this host; and `QueueBack` is the
one behind them (`Rest`, `BackAt`). Each step keeps it: `Fetch` extends `out` by what
stands behind `QueueBack` (`Visited` and `Due` are intervals of the queue), a redirect
takes the head to the end, where it is behind `QueueBack`, and a new connection starts
from the head. `Position` is claimed while the next response will be read from this
connection (`Live`); `Once` says what `RightHost` needs when it is not. The steps of a
transfer share two lemmas each: what they do to the queue (`Effect`), and that the
order is kept (`Onward`).

`Aligned`, `SentOnce` and `Awaited` assume `~LoneRedirects`. This is exactly the
disagreement of the run `http_redirect`: with a redirect of a request that is alone in
the queue, `QueueBack` is set from a cleared link and they are false. `Conserved` and
`OwnHost` hold for all servers.

### Only model-checked

- Liveness (`RunEnds`, `AskEnds`, `AllAnswered`, `MethodExits`, `CommandEnds`,
  `InstallEnds`): outside the prover.
- `Resolver`, `AptShell`, `OrderList` and `PackageManager`: their recursion (`Scan`, `Visit`,
  `KeepAll`, ...) is RECURSIVE, which the prover does not read, and what it computes
  needs an induction over data. What they do to the dependency cache are marks, and
  `AutoInstall`, of which `DepCacheProofs` speaks, but that they do nothing else is not
  stated as a theorem. So
  `RequestsKept`, `UpgradeGentle`, `NoInternalError`, `NamesComplete`, `ListIsInstalled`
  and `HandedOnce` are checked by `apt_shell` alone.

## 6. Where the code and its documents disagree

- **A question may never return** (`method_hang`). `MediaFail` and `NeedAuth` wait for
  input before each look at the next message. When one read brings a 600 and then
  the 603, the second stays in `MyMessages` and the method waits for more. The
  comment at `apt-pkg/acquire-method.cc:242` and `doc/method.sgml` promise that other
  messages are read until the acknowledgement comes. It takes a method that
  pipelines and asks, which is http with a password.
- **A redirect alone in the queue** (`http_redirect`). `pkgAcqMethod::Redirect` moves
  the head to the end of the queue, and sets `QueueBack` from a link that it has
  just cleared when the head is the only one (`apt-pkg/acquire-method.cc:540-544`).
  On an open connection to the same host the request is then not sent again; the
  next request that arrives is, and its response is taken for the first one's.
- **An upgrade that breaks** (`shell_hold`). `pkgAllUpgrade` protects every package that
  is marked, among them those that were marked to go with a held one, and then
  `ProcessCache` keeps the held one (`apt-pkg/algorithms.cc:451`). `ResolveByKeep` may not
  touch what is protected and reports success with broken packages, which apt-shell
  calls an internal error (`cmdline/apt-shell.cc:1084`) but does not test.
- **Missing archives after a swap of discs** (`commit_missing`). The program refuses
  `--fix-missing` together with media swapping (`cmdline/apt-shell.cc:568`) by a look at
  the items that are idle now. On the last disc none is. `FixMissing` then keeps what
  was installed from the first disc already, computes with the versions of before
  the commit, and reports success (`apt-pkg/packagemanager.cc:103`). The new list has
  no flags of what is done either, and a removal of the first round is handed to rpm
  again.
- **A transaction under apt's own handler** (`lock_uncounted`). A write handler puts back
  the time that the database had, on the ground that apt changes nothing in it
  (`apt-pkg/rpm/rpmhandler.cc:745`); so the lock is given back before each transaction and
  taken again while media are left (`cmdline/apt-get.cc:523`, `:543`). When a transaction
  failed, an error is pending, and `rpmSystem::Lock` opens the handler but does not count
  it (`apt-pkg/rpm/rpmsystem.cc:97-102`). The next `UnLock` says "Not locked" (`:112`) and
  frees nothing; the next transaction runs under the handler, and `~rpmSystem` puts the
  time of before over it. A cache of before is then taken for valid, if the number of
  packages is the same.

Further observations, which no document contradicts or which are conditions of a
property:

- **A refusal is not heard.** `Worker::MediaChange` and `Worker::Authenticate` answer a
  refusal with the field `Failed: true` (`apt-pkg/acquire-worker.cc:417`, `:444`); `MediaFail`
  and `NeedAuth` look for `Fail` (`apt-pkg/acquire-method.cc:273`, `:326`), which
  `doc/method.sgml:210` and `:309` also name. The method takes the refusal for consent.
  For a disc, it tries again and asks again; for a password, it goes on with empty
  ones. The model has it as it is (`LookupFail`); no run is spent on it, since the two
  names differ in every answer and no order of steps matters.
- `DepFresh` when a candidate is selected that provides less, and the mode after
  `SetCandidateVersion` (section 3).
- The flag `After` reaches a package from what it needs only if that is visited first
  (`apt-pkg/orderlist.cc:976`; the comment at `:46` says that it is inherited). A
  package may go to rpm one disc before what it pre-depends on.
- The comment at `apt-pkg/pkgcachegen.cc:902` says that the source cache is written
  without the file provides. When a package list has file dependencies, it has them;
  `CleanIsWhole` holds because the generator collects them again.
- A change by another program while apt-get has its write handler open is hidden when
  the handler puts the old time back (`apt-pkg/rpm/rpmhandler.cc`).
- `apt-cache` opens `srcpkgcache.bin` by name after it was found valid; a file that has
  been replaced meanwhile may be empty (`apt-pkg/pkgcachegen.cc:828-832`), and the
  program goes on with the packages that are installed only.
- `pkgRPMExtPM::Process` ignores the results of its three runs of rpm; with it
  `ListIsInstalled` is false (it is the mutant `Fails_Ext`).

## 7. What is not modelled

- **Of the fetcher.** Byte counters and the progress display; logging; the text of
  messages; `Bump`, `Clean` and `SetFds`. The index items
  (`pkgAcqIndex`, `pkgAcqIndexRel`): their chains of download, decompression, check and
  rename are sequential for each item; `Acquire` has their choices, not their files.
- **Of the methods.** Of http: resuming, hashing, proxies, encodings, the passwords. The
  control connection of ftp, the mounts of cdrom, the child of gpg: each answers one
  request before it reads the next, which is `AcqMethod` with `Eager`.
- **Of the dependency cache and resolver.** The automatic flags (`Flag::Auto`), which
  nothing else in it reads; the policy with its pins, whose result, a candidate, is a
  constant; `pkgSimulate`, which prints. Scores that overflow take more
  dependencies than an instance has; the model keeps the width all the same.
- **Of a commit.** What rpm decides within a transaction; scripts; names of packages
  that may be installed twice; a session that goes on after a commit.
- **Of the cache files.** `MergeList`, the hash tables and the growth of the map: their
  result, the archive, is a constant of `DepCache`; `pkgMakeOnlyStatusCache`. Two
  processes that build at once: the code does not keep them apart.
- **Left out for good.** Readers of package lists and headers, records, cleaning,
  configuration and utilities, the parsing of command lines, presentation, Lua, Python
  (a quarter of the source, generated by SWIG), repository tools, the deb back end:
  sequential code whose result, where it matters, is a constant of a module. Most of
  the source is of this kind, so the map covers a small part of its lines and most of
  its control.

## 8. Plan

What is left, in order of importance:

1. `IndexItems`: the item classes as state machines over the files of `partial/` and
   `lists/`, with the choice of an item in `Acquire` as their abstraction.
   Properties: what is in `lists/` was verified against one Release file; a failed
   item leaves the old file.
2. A session that goes on after a commit; automatic flags in `DepCache`; the question
   of `NeedAuth` and `AuthList` in `HttpPipeline`; pins as an algorithm.

## 9. Running

    tlc -workers 2 -config AcquireCore.cfg MCAcquire
    tlc -workers 2 -config AptShell.cfg MCAptShell
    tlapm HttpProofs.tla

`PROJECT.json` lists the runs with their modules and configurations, the map from
definitions to source lines, the mutants, the hazards and the theorems.
