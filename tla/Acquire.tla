------------------------------- MODULE Acquire -------------------------------
(***************************************************************************)
(* The fetch scheduler of apt-pkg: pkgAcquire, its queues and its workers  *)
(* (apt-pkg/acquire.cc, apt-pkg/acquire-worker.cc), together with the      *)
(* method processes the workers talk to over a pair of pipes.              *)
(*                                                                         *)
(* One APT process runs a select loop.  Each queue has at most one worker, *)
(* and the worker has one method process.  The loop's handlers call one    *)
(* another (an answer completes an item, which refills the pipe, whose     *)
(* owner enqueues its next URI, which may start another queue ...), so the *)
(* memory of the APT process is one record st and every C++ method is an   *)
(* operator from such a record to the next; an action applies the handler  *)
(* as a whole.                                                             *)
(*                                                                         *)
(* Abstractions.  A linked list Queue::Items is the set of items whose     *)
(* entry names the queue, ordered by arrival (field pos: a list that only  *)
(* grows at its tail).  An item sits in at most one queue, once: every     *)
(* item class enqueues its next URI only after ItemDone dequeued it, so    *)
(* QueueCounter is 1 for a queued item and 0 otherwise.  A worker's        *)
(* OutQueue and its pipe to the method are one sequence, and so are the    *)
(* pipe from the method and the worker's MessageQueue.  What an item does  *)
(* with its answer (finish, or enqueue another URI) is a choice; the item  *)
(* classes are modelled in their own modules.                              *)
(***************************************************************************)
EXTENDS Integers, FiniteSets, Sequences

CONSTANTS Items,         \* pkgAcquire::Item objects
          Queues,        \* queue names, Access or Access:Host
          Accesses,      \* access methods, one MethodConfig each
          URIs,
          AccessOf,      \* [Queues -> Accesses]
          QueueOf,       \* [URIs -> Queues]: QueueName
          FirstURI,      \* [Items -> URIs]: the URI of the constructor
          Pipe,          \* [Queues -> Nat \ {0}]: 10 with Pipeline, else 1
          NeedsCleanup,  \* queues whose worker outlives Run
          PreferredQ,    \* queues whose method has a preferred URI
          PreferredURI,  \* the URIs that carry the preferred prefix
          Retries,       \* how many further URIs an item may enqueue
          MaxHops,       \* how many redirects a method follows per request
          MaxRuns,       \* how many times the program calls Run
          MayCancel,     \* may Log->Pulse report a user cancel
          MayShutdown,   \* may the program empty the fetcher between Runs
          None

ASSUME ConstantsOK ==
    /\ IsFiniteSet(Items)
    /\ AccessOf \in [Queues -> Accesses]
    /\ QueueOf \in [URIs -> Queues]
    /\ FirstURI \in [Items -> URIs]
    /\ MaxRuns \in Nat /\ Retries \in Nat /\ MaxHops \in Nat
    /\ Pipe \in [Queues -> Nat \ {0}]
    /\ NeedsCleanup \subseteq Queues /\ PreferredQ \subseteq Queues
    /\ PreferredURI \subseteq URIs
    /\ MayCancel \in BOOLEAN /\ MayShutdown \in BOOLEAN
    /\ None \notin Items

VARIABLES st,     \* the memory of the APT process
          meth,   \* [Queues -> Seq(Request)]: pkgAcqMethod::Queue of the process
          alive,  \* queues whose method process is running
          inp,    \* [Queues -> Seq(Message)]: from the method, unhandled
          results \* what the Runs that ended returned, in order

vars == <<st, meth, alive, inp, results>>

Entry == [queue : Queues, uri : URIs, pos : Nat,
          worker : {"none", "current", "stale"}]
ASSUME NoneIsNoEntry == None \notin Entry

Stat == {"Idle", "Fetching", "Done", "Error"}
Request == [uri : URIs, file : Items, begun : BOOLEAN, hops : Nat]
Message == [kind : {"start", "done", "fail", "redirect"},
            uri : URIs, file : Items, to : URIs]

Memory == [entry : [Items -> Entry \cup {None}],
           stat : [Items -> Stat],
           born : SUBSET Items,
           left : [Items -> Nat],
           tail : [Queues -> Nat],
           depth : [Queues -> Int],
           maxd : [Queues -> Nat \ {0}],
           worker : [Queues -> {"none", "live", "dead"}],
           current : [Queues -> Items \cup {None}],
           out : [Queues -> Seq(Request)],
           conf : SUBSET Accesses,
           created : SUBSET Queues,
           pref : SUBSET Queues,
           toFetch : Int,
           err : BOOLEAN,
           running : BOOLEAN]

TypeOK ==
    /\ st \in Memory
    /\ meth \in [Queues -> Seq(Request)]
    /\ alive \in SUBSET Queues
    /\ inp \in [Queues -> Seq(Message)]
    /\ results \in Seq({"Continue", "Failed", "Cancelled"})

-----------------------------------------------------------------------------
(* The queues as sets of items.                                            *)

Queued(s) == {it \in Items : s.entry[it] # None}
QItems(s, q) == {it \in Queued(s) : s.entry[it].queue = q}
Idle(s, q) == {it \in QItems(s, q) : s.stat[it] = "Idle"}
Fetching(s, q) == {it \in QItems(s, q) : s.stat[it] = "Fetching"}

\* Where Queue::Enqueue links a new QItem: behind every other.
NextPos(s, q) == IF QItems(s, q) = {} THEN 0 ELSE s.tail[q] + 1

(***************************************************************************)
(* Queue::Cycle sends idle items while PipeDepth < MaxPipeDepth, those     *)
(* with the preferred prefix in a first pass.  To a worker whose pipes are *)
(* closed QueueItem fails after the first item was marked, and the loop    *)
(* stops there.                                                            *)
(***************************************************************************)
Ahead_OnePass(s, q, a, b) == s.entry[a].pos < s.entry[b].pos   \* mutant: no first pass

Ahead(s, q, a, b) ==
    LET A == s.entry[a]  B == s.entry[b]
        pa == A.uri \in PreferredURI  pb == B.uri \in PreferredURI
    IN  IF q \in s.pref /\ pa # pb THEN pa ELSE A.pos < B.pos

Rank(s, q, it) == Cardinality({b \in Idle(s, q) : Ahead(s, q, b, it)})

Room(s, q) ==
    LET r == s.maxd[q] - s.depth[q]
    IN  CASE s.worker[q] = "none" \/ s.depth[q] < 0 -> 0
          [] s.worker[q] = "dead" -> IF r > 0 THEN 1 ELSE 0
          [] OTHER -> r

Picks(s, q) == {it \in Idle(s, q) : Rank(s, q, it) < Room(s, q)}

PreferredIdle(s, q) == {it \in Idle(s, q) : s.entry[it].uri \in PreferredURI}

\* Worker::QueueItem for each picked item, in order.
Requests(s, q) ==
    IF s.worker[q] = "dead" THEN << >>
    ELSE [n \in 1..Cardinality(Picks(s, q)) |->
            LET it == CHOOSE it \in Picks(s, q) : Rank(s, q, it) = n - 1
            IN  [uri |-> s.entry[it].uri, file |-> it, begun |-> FALSE, hops |-> 0]]

\* The status of the items a Cycle picked.
Mark_Idle(s, picked) == s.stat   \* mutant: the status is not set

Mark(s, picked) == [it \in Items |-> IF it \in picked THEN "Fetching" ELSE s.stat[it]]

\* Queue::Cycle on every queue of Qs (they do not touch one another).
Cycle(s, Qs) ==
    LET picked == UNION {Picks(s, q) : q \in Qs}
        broken == \E q \in Qs : /\ QItems(s, q) # {} /\ s.worker[q] # "none"
                                /\ s.depth[q] < 0
        passed == {q \in Qs : /\ QItems(s, q) # {}
                              /\ Cardinality(PreferredIdle(s, q)) < Room(s, q)}
    IN  [s EXCEPT
           !.entry = [it \in Items |->
                        IF it \in picked
                        THEN [s.entry[it] EXCEPT !.worker = "current"]
                        ELSE s.entry[it]],
           !.stat = Mark(s, picked),
           !.depth = [q \in Queues |->
                        IF q \in Qs THEN s.depth[q] + Cardinality(Picks(s, q))
                        ELSE s.depth[q]],
           !.out = [q \in Queues |->
                      IF q \in Qs THEN s.out[q] \o Requests(s, q) ELSE s.out[q]],
           !.pref = s.pref \ passed,
           !.err = s.err \/ broken]

(***************************************************************************)
(* Queue::Startup on every queue of Qs.  In a queue without a worker       *)
(* Worker::Start succeeds for the queues in up; it fails for the others    *)
(* (no driver, no pipe, no capabilities), which leaves a worker without    *)
(* pipes and an error.  A QItem that still points to a deleted worker may  *)
(* or may not compare equal to the new one: the queues in reuse are those  *)
(* whose worker was allocated at the old address.                          *)
(***************************************************************************)
NewDepth_Off(q) == Pipe[q] - 1   \* mutant: one less than the method was promised

NewDepth(q) == Pipe[q]

StartWorkers(s, fresh, up, reuse) ==
    [s EXCEPT
       !.worker = [q \in Queues |->
                     IF q \notin fresh THEN s.worker[q]
                     ELSE IF q \in up THEN "live" ELSE "dead"],
       !.maxd = [q \in Queues |->
                   IF q \in fresh \cap up THEN NewDepth(q) ELSE s.maxd[q]],
       !.entry = [it \in Items |->
                    IF /\ s.entry[it] # None
                       /\ s.entry[it].queue \in fresh \cap reuse
                       /\ s.entry[it].worker = "stale"
                    THEN [s.entry[it] EXCEPT !.worker = "current"]
                    ELSE s.entry[it]],
       !.err = s.err \/ ~(fresh \subseteq up)]

Startup(s, Qs, up, reuse) ==
    LET fresh == {q \in Qs : s.worker[q] = "none"}
    IN  Cycle(StartWorkers(s, fresh, up, reuse), Qs \ (fresh \ up))

(***************************************************************************)
(* pkgAcquire::Enqueue.  GetConfig starts a throw-away worker the first    *)
(* time an access method is named; when that fails (ok is FALSE) Enqueue   *)
(* returns without queueing, but the MethodConfig stays linked.  A queue   *)
(* created while Run is on is started at once; it is still empty, so the   *)
(* Cycle that ends Startup has nothing to do.                              *)
(***************************************************************************)
Enqueue(s, it, u, ok, up) ==
    LET q == QueueOf[u]
        new == q \notin s.created
        s0 == [s EXCEPT !.conf = @ \cup {AccessOf[q]}, !.created = @ \cup {q}]
        s1 == IF new /\ s.running THEN StartWorkers(s0, {q}, up, {}) ELSE s0
        s2 == [s1 EXCEPT
                 !.stat[it] = "Idle",
                 !.entry[it] = [queue |-> q, uri |-> u, pos |-> NextPos(s1, q),
                                worker |-> "none"],
                 !.tail[q] = NextPos(s1, q),
                 !.toFetch = @ + 1]
    IN  IF AccessOf[q] \notin s.conf /\ ~ok
        THEN [s EXCEPT !.conf = @ \cup {AccessOf[q]}, !.err = TRUE]
        ELSE IF QItems(s2, q) = {it} THEN Cycle(s2, {q}) ELSE s2

\* Mutant: ToFetch is not lowered.
Dequeue_Keep(s, it) ==
    IF s.stat[it] = "Fetching" THEN [s EXCEPT !.err = @ \/ s.created # {}]
    ELSE [s EXCEPT !.entry[it] = None]

\* pkgAcquire::Dequeue with Queue::Dequeue on every queue.
Dequeue(s, it) ==
    IF s.stat[it] = "Fetching"
    THEN [s EXCEPT !.err = @ \/ s.created # {}]
    ELSE IF s.entry[it] = None THEN s
         ELSE [s EXCEPT !.entry[it] = None, !.toFetch = @ - 1]

\* Mutant: the queue is not cycled after an item left it.
ItemDone_NoCycle(s, q, it) ==
    Dequeue([s EXCEPT !.depth[q] = @ - 1,
                      !.stat[it] = IF @ = "Fetching" THEN "Done" ELSE @], it)

\* Queue::ItemDone.
ItemDone(s, q, it) ==
    LET s1 == [s EXCEPT !.depth[q] = @ - 1,
                        !.stat[it] = IF @ = "Fetching" THEN "Done" ELSE @]
    IN  Cycle(Dequeue(s1, it), {q})

\* Queue::FindItem: the items it can return are the first of these.
Matches(s, q, u) ==
    {it \in QItems(s, q) : s.entry[it].uri = u /\ s.entry[it].worker = "current"}

\* Mutant: the newest match instead of the first.
FindItem_Last(s, q, u) ==
    IF Matches(s, q, u) = {} THEN None
    ELSE CHOOSE it \in Matches(s, q, u) :
           \A o \in Matches(s, q, u) : s.entry[it].pos >= s.entry[o].pos

FindItem(s, q, u) ==
    IF Matches(s, q, u) = {} THEN None
    ELSE CHOOSE it \in Matches(s, q, u) :
           \A o \in Matches(s, q, u) : s.entry[it].pos <= s.entry[o].pos

-----------------------------------------------------------------------------
(* The program that owns the fetcher, and pkgAcquire::Run.                 *)

Init ==
    /\ st = [entry |-> [it \in Items |-> None],
             stat |-> [it \in Items |-> "Idle"],
             born |-> {},
             left |-> [it \in Items |-> Retries],
             tail |-> [q \in Queues |-> 0],
             depth |-> [q \in Queues |-> 0],
             maxd |-> [q \in Queues |-> 1],
             worker |-> [q \in Queues |-> "none"],
             current |-> [q \in Queues |-> None],
             out |-> [q \in Queues |-> << >>],
             conf |-> {}, created |-> {}, pref |-> PreferredQ,
             toFetch |-> 0, err |-> FALSE, running |-> FALSE]
    /\ meth = [q \in Queues |-> << >>]
    /\ alive = {}
    /\ inp = [q \in Queues |-> << >>]
    /\ results = << >>

\* An item's constructor: pkgAcquire::Add and Enqueue of its first URI.
Construct(it) ==
    /\ ~st.running
    /\ it \notin st.born
    /\ \E ok \in BOOLEAN :
         st' = Enqueue([st EXCEPT !.born = @ \cup {it}], it, FirstURI[it], ok, {})
    /\ UNCHANGED <<meth, alive, inp, results>>

\* The processes of the workers that a Startup brought up.
Spawned(s, t) == {q \in Queues : s.worker[q] = "none" /\ t.worker[q] = "live"}

\* pkgAcquire::Run up to its loop.
RunStart ==
    /\ ~st.running
    /\ Len(results) < MaxRuns
    /\ \E up \in SUBSET st.created, reuse \in SUBSET st.created :
         st' = Startup([st EXCEPT !.running = TRUE], st.created, up, reuse)
    /\ alive' = alive \cup Spawned(st, st')
    /\ UNCHANGED <<meth, inp, results>>

\* The end of Run: Queue::Shutdown(false) on every queue, and the result.
RunEnd(cancelled) ==
    LET gone == {q \in st.created : q \notin NeedsCleanup}
    IN  /\ st' = [st EXCEPT
                    !.running = FALSE,
                    !.worker = [q \in Queues |->
                                  IF q \in gone THEN "none" ELSE st.worker[q]],
                    !.current = [q \in Queues |->
                                  IF q \in gone THEN None ELSE st.current[q]],
                    !.out = [q \in Queues |->
                                  IF q \in gone THEN << >> ELSE st.out[q]],
                    !.entry = [it \in Items |->
                                 IF /\ st.entry[it] # None
                                    /\ st.entry[it].queue \in gone
                                    /\ st.entry[it].worker = "current"
                                 THEN [st.entry[it] EXCEPT !.worker = "stale"]
                                 ELSE st.entry[it]]]
        /\ meth' = [q \in Queues |-> IF q \in gone THEN << >> ELSE meth[q]]
        /\ inp' = [q \in Queues |-> IF q \in gone THEN << >> ELSE inp[q]]
        /\ alive' = alive \ gone
        /\ results' = Append(results, CASE st.err -> "Failed"
                                         [] cancelled -> "Cancelled"
                                         [] OTHER -> "Continue")

\* Mutant: the loop stops with one item to go.
RunFinish_Early == st.running /\ st.toFetch <= 1 /\ RunEnd(FALSE)

\* Nothing is left to fetch.
RunFinish == st.running /\ st.toFetch <= 0 /\ RunEnd(FALSE)
\* An error was pushed while the descriptors were served.
RunAbort == st.running /\ st.err /\ RunEnd(FALSE)
\* Log->Pulse returned false.
RunCancel == st.running /\ MayCancel /\ st.toFetch > 0 /\ RunEnd(TRUE)

\* pkgAcquire::Shutdown: delete the items (Remove dequeues each) and then the
\* queues with their workers.  The program fills the fetcher again after it.
Shutdown ==
    /\ ~st.running
    /\ MayShutdown
    /\ results # << >> /\ Len(results) < MaxRuns
    /\ st.born # {}
    /\ LET refused == {it \in st.born : st.stat[it] = "Fetching"}
       IN  st' = [st EXCEPT
                    !.toFetch = @ - Cardinality(Queued(st) \ refused),
                    !.err = @ \/ (refused # {} /\ st.created # {}),
                    !.born = {},
                    !.entry = [it \in Items |-> None],
                    !.stat = [it \in Items |-> "Idle"],
                    !.left = [it \in Items |-> Retries],
                    !.created = {},
                    !.worker = [q \in Queues |-> "none"],
                    !.current = [q \in Queues |-> None],
                    !.out = [q \in Queues |-> << >>],
                    !.tail = [q \in Queues |-> 0],
                    !.depth = [q \in Queues |-> 0],
                    !.maxd = [q \in Queues |-> 1]]
    /\ meth' = [q \in Queues |-> << >>]
    /\ inp' = [q \in Queues |-> << >>]
    /\ alive' = {}
    /\ UNCHANGED results

-----------------------------------------------------------------------------
(* Worker::RunMessages, one message at a time.                             *)

\* What the owner's Done or Failed leaves: final statuses, or another URI.
Owner(s, it, finals, u, ok, up) ==
    IF u = None THEN {[s EXCEPT !.stat[it] = f] : f \in finals}
    ELSE {Enqueue([s EXCEPT !.left[it] = @ - 1], it, u, ok, up)}

Take(q) ==
    /\ st.running
    /\ st.worker[q] = "live"
    /\ inp[q] # << >>
    /\ inp' = [inp EXCEPT ![q] = Tail(@)]
    /\ UNCHANGED <<meth, results>>

\* Worker::ItemDone.
WorkerItemDone_Not(s, q) == s   \* mutant: CurrentItem is kept

WorkerItemDone(s, q) == [s EXCEPT !.current[q] = None]

\* 201 URI Done and 400 URI Failure.
Answer(q, kind, finals) ==
    /\ Take(q)
    /\ Head(inp[q]).kind = kind
    /\ \E it \in {FindItem(st, q, Head(inp[q]).uri)} :
         \/ it = None /\ st' = [st EXCEPT !.err = TRUE]
         \/ /\ it # None
            /\ \E done \in {ItemDone(st, q, it)},
                  u \in (IF st.left[it] > 0 THEN URIs ELSE {}) \cup {None} :
                 \E ok \in (IF u = None THEN {TRUE} ELSE BOOLEAN),
                    up \in (IF u = None THEN {{}} ELSE {{}, Queues}) :
                   \E s \in Owner(done, it, finals, u, ok, up) :
                     st' = WorkerItemDone(s, q)
    /\ alive' = alive \cup Spawned(st, st')

\* Item::Done ends well or finds a bad size or checksum.
URIDone(q) == Answer(q, "done", {"Done", "Error"})
\* Item::Failed: an error, a transient failure of local media, or (an
\* unsigned repository's release file) an accepted absence.
URIFailure(q) == Answer(q, "fail", {"Error", "Idle", "Done"})

\* 200 URI Start.
URIStart(q) ==
    LET m == Head(inp[q])
        it == FindItem(st, q, m.uri)
    IN  /\ Take(q)
        /\ m.kind = "start"
        /\ st' = IF it = None THEN [st EXCEPT !.err = TRUE]
                 ELSE [st EXCEPT !.current[q] = it, !.stat[it] = "Fetching"]
        /\ UNCHANGED alive

\* Mutant: the new URI is not noted.
Redirect_Ignored(q) ==
    Take(q) /\ Head(inp[q]).kind = "redirect" /\ UNCHANGED <<st, alive>>

\* 103 Redirect.
Redirect(q) ==
    LET m == Head(inp[q])
        it == FindItem(st, q, m.uri)
    IN  /\ Take(q)
        /\ m.kind = "redirect"
        /\ st' = IF it = None THEN [st EXCEPT !.err = TRUE]
                 ELSE [st EXCEPT !.entry[it].uri = m.to]
        /\ UNCHANGED alive

\* Worker::MethodFailure: end of file with nothing unread, or a write that
\* failed with answers still unread.  The items keep their status and the
\* queue its PipeDepth.
MethodFailure(q) ==
    /\ st.running
    /\ st.worker[q] = "live"
    /\ q \notin alive
    /\ inp[q] = << >> \/ st.out[q] # << >>
    /\ st' = [st EXCEPT !.worker[q] = "dead", !.out[q] = << >>, !.err = TRUE]
    /\ inp' = [inp EXCEPT ![q] = << >>]
    /\ UNCHANGED <<meth, alive, results>>

-----------------------------------------------------------------------------
(* The method process (pkgAcqMethod).  It answers the head of its queue.   *)

Say(q, kind, to) ==
    LET r == Head(meth[q])
    IN  inp' = [inp EXCEPT ![q] =
                  Append(@, [kind |-> kind, uri |-> r.uri, file |-> r.file, to |-> to])]

\* Message 600: append the request to the method's queue.
MethodRead(q) ==
    /\ q \in alive
    /\ st.out[q] # << >>
    /\ meth' = [meth EXCEPT ![q] = Append(@, Head(st.out[q]))]
    /\ st' = [st EXCEPT !.out[q] = Tail(@)]
    /\ UNCHANGED <<alive, inp, results>>

MethodStart(q) ==
    /\ q \in alive
    /\ meth[q] # << >>
    /\ ~Head(meth[q]).begun
    /\ Say(q, "start", Head(meth[q]).uri)
    /\ meth' = [meth EXCEPT ![q][1].begun = TRUE]
    /\ UNCHANGED <<st, alive, results>>

\* pkgAcqMethod::URIDone and Fail: answer the head and drop it.
MethodAnswer(q) ==
    /\ q \in alive
    /\ meth[q] # << >>
    /\ \E kind \in {"done", "fail"} : Say(q, kind, Head(meth[q]).uri)
    /\ meth' = [meth EXCEPT ![q] = Tail(@)]
    /\ UNCHANGED <<st, alive, results>>

\* pkgAcqMethod::Redirect: the head takes its new URI to the end.
MethodRedirect(q) ==
    /\ q \in alive
    /\ meth[q] # << >>
    /\ Head(meth[q]).hops < MaxHops
    /\ \E u \in URIs \ {Head(meth[q]).uri} :
         /\ Say(q, "redirect", u)
         /\ meth' = [meth EXCEPT ![q] =
                       Append(Tail(@), [uri |-> u, file |-> Head(@).file,
                                        begun |-> Head(@).begun, hops |-> Head(@).hops + 1])]
    /\ UNCHANGED <<st, alive, results>>

\* The process dies with whatever it held.
MethodDie(q) ==
    /\ q \in alive
    /\ alive' = alive \ {q}
    /\ meth' = [meth EXCEPT ![q] = << >>]
    /\ UNCHANGED <<st, inp, results>>

\* The program is through with the fetcher.
Stop ==
    /\ ~st.running
    /\ Len(results) = MaxRuns
    /\ UNCHANGED vars

APT(q) == URIDone(q) \/ URIFailure(q) \/ URIStart(q) \/ Redirect(q) \/ MethodFailure(q)
Method(q) == MethodRead(q) \/ MethodStart(q) \/ MethodAnswer(q) \/ MethodRedirect(q)

Next ==
    \/ \E it \in Items : Construct(it)
    \/ RunStart \/ RunFinish \/ RunAbort \/ RunCancel \/ Shutdown
    \/ \E q \in Queues : APT(q) \/ Method(q) \/ MethodDie(q)
    \/ Stop

Spec == Init /\ [][Next]_vars

(***************************************************************************)
(* Fairness.  The select loop serves every readable descriptor and tests   *)
(* ToFetch and the error stack on every turn, so of the messages that wait *)
(* some are taken (a step that takes one shortens inp), a dead method is   *)
(* noticed, and the loop ends when it may.  The methods are processes of   *)
(* their own and bound every wait for a peer by a timeout, so of those     *)
(* that have a request one answers.  Deaths and cancels are never due.     *)
(***************************************************************************)
FairSpec ==
    /\ Spec
    /\ WF_vars(RunFinish \/ RunAbort)
    /\ WF_inp(\E q \in Queues : Take(q))
    /\ WF_vars(\E q \in Queues : MethodFailure(q))
    /\ WF_vars(\E q \in Queues : Method(q))

-----------------------------------------------------------------------------
(* Properties.                                                             *)

\* Every earlier Run fetched all it had.
Clean == \A n \in DOMAIN results : results[n] = "Continue"

\* The loop's counter and the queues' pipe counters (ToFetch, PipeDepth) are
\* what a recount gives: ToFetch is the number of queued items, so Run neither
\* hangs nor stops early, and PipeDepth the number of items being fetched,
\* never beyond what the method was promised.
CountersExact ==
    /\ st.err \/ st.toFetch = Cardinality(Queued(st))
    /\ \A q \in Queues : /\ st.depth[q] = Cardinality(Fetching(st, q))
                         /\ st.depth[q] <= st.maxd[q]

\* Worker::CurrentItem, which Pulse and the progress display dereference,
\* never outlives its QItem.
CurrentItemAlive ==
    \A q \in Queues : st.current[q] # None => st.current[q] \in QItems(st, q)

\* What is between a queue and its method, oldest first: unhandled messages,
\* then requests.  An item is held by a request or by an answer.
Line(q) == inp[q] \o (meth[q] \o st.out[q])
Held(q) == {n \in DOMAIN Line(q) : n > Len(inp[q]) \/ Line(q)[n].kind \in {"done", "fail"}}

\* Every item being fetched has exactly one request with its method or one
\* answer on the way, and nothing else has: no request is lost or sent twice
\* by the refills of Cycle, Enqueue, Startup and ItemDone.
OneRequestEach ==
    \A q \in Queues :
      LET files == {Line(q)[n].file : n \in Held(q)}
      IN  /\ \A m, n \in Held(q) : Line(q)[m].file = Line(q)[n].file => m = n
          /\ files \subseteq Fetching(st, q)
          /\ (Clean /\ q \in alive /\ st.worker[q] = "live") => files = Fetching(st, q)

\* While Run has items left and no error, each queue with items waits for
\* an answer: no refill was missed that only a further event could make up.
NeverStalls ==
    (st.running /\ ~st.err /\ Clean) =>
      \A q \in Queues :
        QItems(st, q) # {} =>
          \/ st.out[q] # << >> \/ meth[q] # << >> \/ inp[q] # << >>
          \/ q \notin alive

\* A method's message always names an item of its worker: the "invalid
\* message" errors of RunMessages mean a foreign method, never a lost item.
MessagesMatch ==
    \A q \in Queues :
      inp[q] # << >> => FindItem(st, q, Head(inp[q]).uri) # None

\* The item that FindItem hands an answer to is the one whose request the
\* method answered (the message's Filename is its DestFile).
RightOwner ==
    (st.running /\ Clean) =>
      \A q \in Queues :
        (st.worker[q] = "live" /\ inp[q] # << >>) =>
          FindItem(st, q, Head(inp[q]).uri) = Head(inp[q]).file

\* A Run that reports success left nothing queued, no item half fetched and
\* no method busy.
SuccessIsComplete ==
    [][(st.running /\ ~st'.running /\ results'[Len(results')] = "Continue") =>
         /\ Queued(st') = {}
         /\ \A it \in Items : st'.stat[it] # "Fetching"
         /\ \A q \in Queues : Held(q) = {}]_vars

\* The items a preferred-URI method is asked for come first: as long as the
\* first pass of its queue is not over, no other URI is sent before those waiting.
PreferredFirst ==
    [][\A q \in PreferredQ :
         (q \in st.pref /\ st.running') =>
           \A it \in Fetching(st', q) \ Fetching(st, q) :
             \/ st'.entry[it].uri \in PreferredURI
             \/ PreferredIdle(st, q) \cap PreferredIdle(st', q) = {}]_vars

\* Every Run ends that follows none but complete ones.
RunEnds == st.running /\ Clean ~> ~st.running
=============================================================================
