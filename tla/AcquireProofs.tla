--------------------------- MODULE AcquireProofs ---------------------------
(***************************************************************************)
(* Theorems about Acquire, for any sets of items, queues and URIs, any     *)
(* pipe depths and any number of Runs.                                     *)
(***************************************************************************)
EXTENDS Acquire, FiniteSetTheorems, WellFoundedInduction, TLAPS

(***************************************************************************)
(* The inductive invariant, as predicates on the memory of the process, so *)
(* that each handler operator has a lemma of its own.                      *)
(***************************************************************************)
\* PipeDepth is the number of items being fetched.
DepthOK(s) ==
    \A q \in Queues : s.depth[q] = Cardinality(Fetching(s, q)) /\ s.depth[q] <= s.maxd[q]
\* MaxPipeDepth is the constructor's 1 or what the method was promised.
MaxdOK(s) == \A q \in Queues : s.maxd[q] \in {1, Pipe[q]}
\* An item handed to a worker, and only such an item, is being fetched.
WorkerOK(s) ==
    \A it \in Items :
      /\ s.stat[it] = "Fetching" => s.entry[it] # None
      /\ (s.entry[it] # None /\ s.entry[it].worker # "none") => s.stat[it] = "Fetching"
\* The list order of a queue is total, and its tail is the latest.
OrderOK(s) ==
    \A x \in Items : s.entry[x] # None =>
      /\ s.entry[x].queue \in s.created
      /\ s.entry[x].pos <= s.tail[s.entry[x].queue]
      /\ \A y \in Items :
           (y # x /\ s.entry[y] # None /\ s.entry[y].queue = s.entry[x].queue)
             => s.entry[x].pos # s.entry[y].pos
\* ToFetch is the number of queued items.
ToFetchOK(s) == s.err \/ s.toFetch = Cardinality(Queued(s))

\* Only items the fetcher knows are queued.
BornOK(s) == Queued(s) \subseteq s.born

Good(s) == /\ s \in Memory
           /\ DepthOK(s) /\ MaxdOK(s) /\ WorkerOK(s) /\ OrderOK(s)
           /\ ToFetchOK(s) /\ BornOK(s)

\* c differs from s in neither the lists nor what else the owners see.
Kept(s, c) ==
    /\ Queued(c) = Queued(s) /\ \A q : QItems(c, q) = QItems(s, q)
    /\ c.current = s.current /\ c.created = s.created /\ c.born = s.born
    /\ c.left = s.left /\ c.worker = s.worker

-----------------------------------------------------------------------------
(* What Cycle picks.                                                       *)

\* The subsets of Items that Acquire counts are finite.
LEMMA Finite ==
    ASSUME NEW s, NEW q
    PROVE  /\ IsFiniteSet(Items) /\ IsFiniteSet(Queued(s)) /\ IsFiniteSet(QItems(s, q))
           /\ IsFiniteSet(Idle(s, q)) /\ IsFiniteSet(Fetching(s, q))
           /\ IsFiniteSet(Picks(s, q)) /\ IsFiniteSet(PreferredIdle(s, q))
           /\ \A it : IsFiniteSet({b \in Idle(s, q) : Ahead(s, q, b, it)})
<1>1. IsFiniteSet(Items)  BY ConstantsOK DEF ConstantsOK
<1>2. \A T \in SUBSET Items : IsFiniteSet(T)  BY <1>1, FS_Subset
<1>3. /\ Queued(s) \subseteq Items /\ QItems(s, q) \subseteq Items
      /\ Idle(s, q) \subseteq Items /\ Fetching(s, q) \subseteq Items
      /\ Picks(s, q) \subseteq Items /\ PreferredIdle(s, q) \subseteq Items
      /\ \A it : {b \in Idle(s, q) : Ahead(s, q, b, it)} \subseteq Items
  BY DEF Queued, QItems, Idle, Fetching, Picks, PreferredIdle
<1> QED  BY <1>1, <1>2, <1>3

\* Ranks are natural numbers.
LEMMA RankNat ==
    ASSUME NEW s, NEW q, NEW it
    PROVE  Rank(s, q, it) \in Nat
BY Finite, FS_CardinalityType DEF Rank

\* In a good memory the order of Cycle's search is strict and total on the
\* idle items of a queue, so ranks grow along it.
LEMMA RankGrows ==
    ASSUME NEW s, Good(s), NEW q \in Queues,
           NEW x \in Idle(s, q), NEW y \in Idle(s, q), x # y
    PROVE  \/ Ahead(s, q, x, y) /\ Rank(s, q, x) < Rank(s, q, y)
           \/ Ahead(s, q, y, x) /\ Rank(s, q, y) < Rank(s, q, x)
<1> DEFINE B(z) == {b \in Idle(s, q) : Ahead(s, q, b, z)}
<1>1. \A z \in Idle(s, q) : /\ z \in Items /\ s.entry[z] # None /\ s.entry[z].queue = q
                            /\ s.entry[z].pos \in Nat
  BY DEF Good, Memory, Entry, Idle, QItems, Queued
<1>2. \A z, w \in Idle(s, q) : z # w => s.entry[z].pos # s.entry[w].pos
  BY <1>1 DEF Good, OrderOK
<1>3. Ahead(s, q, x, y) \/ Ahead(s, q, y, x)
  BY <1>1, <1>2 DEF Ahead
<1>4. \A z \in Idle(s, q) : ~Ahead(s, q, z, z)
  BY <1>1 DEF Ahead
<1>5. \A u, v, w \in Idle(s, q) : Ahead(s, q, u, v) /\ Ahead(s, q, v, w) => Ahead(s, q, u, w)
  BY <1>1 DEF Ahead
<1>6. ASSUME NEW z \in Idle(s, q), NEW w \in Idle(s, q), Ahead(s, q, z, w)
      PROVE  Rank(s, q, z) < Rank(s, q, w)
  <2>1. B(z) \subseteq B(w)  BY <1>5, <1>6
  <2>2. z \in B(w) /\ z \notin B(z)  BY <1>4, <1>6
  <2>3. IsFiniteSet(B(w)) /\ IsFiniteSet(B(z))  BY Finite
  <2>4. Cardinality(B(z)) <= Cardinality(B(w)) /\ Cardinality(B(z)) # Cardinality(B(w))
    BY <2>1, <2>2, <2>3, FS_Subset
  <2>5. Cardinality(B(z)) \in Nat /\ Cardinality(B(w)) \in Nat  BY <2>3, FS_CardinalityType
  <2>6. Rank(s, q, z) = Cardinality(B(z)) /\ Rank(s, q, w) = Cardinality(B(w))  BY DEF Rank
  <2> QED  BY <2>4, <2>5, <2>6
<1> QED  BY <1>3, <1>6

\* Room is an integer, and nothing is picked without room.
LEMMA RoomInt ==
    ASSUME NEW s \in Memory, NEW q \in Queues
    PROVE  /\ Room(s, q) \in Int
           /\ Room(s, q) > 0 => /\ s.depth[q] + Room(s, q) <= s.maxd[q]
                                /\ s.worker[q] # "none"
           /\ Room(s, q) <= 0 => Picks(s, q) = {}
<1>1. s.depth[q] \in Int /\ s.maxd[q] \in Nat  BY DEF Memory
<1>2. Room(s, q) \in Int /\ (Room(s, q) > 0 => s.depth[q] + Room(s, q) <= s.maxd[q] /\ s.worker[q] # "none")
  BY <1>1 DEF Room
<1>3. Room(s, q) <= 0 => Picks(s, q) = {}  BY <1>2, RankNat DEF Picks
<1> QED  BY <1>2, <1>3

\* The picked items take the ranks 0 .. k-1, so there are as many as there is
\* room for, and Requests finds one for each of its positions.
LEMMA PicksRanked ==
    ASSUME NEW s, Good(s), NEW q \in Queues
    PROVE  LET k == Cardinality(Picks(s, q))
           IN  /\ k \in Nat
               /\ k <= Room(s, q) \/ k = 0
               /\ \A it \in Picks(s, q) : Rank(s, q, it) < k
               /\ \A n \in 1..k : \E it \in Picks(s, q) : Rank(s, q, it) = n - 1
<1> DEFINE P == Picks(s, q)
           k == Cardinality(P)
           f == [it \in P |-> Rank(s, q, it)]
<1>1. IsFiniteSet(P) /\ k \in Nat  BY Finite, FS_CardinalityType
<1>2. Room(s, q) \in Int /\ P \subseteq Idle(s, q)  BY RoomInt DEF Good, Picks
<1>3. \A x, y \in P : x # y => f[x] # f[y]
  BY <1>2, RankGrows, RankNat
<1>4. ASSUME NEW x \in P PROVE Rank(s, q, x) < k
  <2> DEFINE B == {b \in Idle(s, q) : Ahead(s, q, b, x)}
  <2>1. B \subseteq P \ {x}
    <3> SUFFICES ASSUME NEW b \in B PROVE b \in P \ {x}  OBVIOUS
    <3>1. s.entry[x].pos \in Nat /\ ~Ahead(s, q, x, x)
      BY <1>2 DEF Good, Memory, Entry, Idle, QItems, Queued, Ahead
    <3>2. b # x /\ b \in Idle(s, q) /\ x \in Idle(s, q)  BY <3>1, <1>2
    <3>3. s.entry[b].pos \in Nat /\ ~Ahead(s, q, x, b)
      BY <3>2 DEF Good, Memory, Entry, Idle, QItems, Queued, Ahead
    <3>4. Rank(s, q, b) < Rank(s, q, x)  BY <3>2, <3>3, RankGrows
    <3> QED  BY <3>2, <3>4, <1>2, RankNat DEF Picks
  <2>2. IsFiniteSet(P \ {x}) /\ Cardinality(P \ {x}) = k - 1
    BY <1>1, <1>4, FS_RemoveElement
  <2>3. Cardinality(B) <= k - 1  BY <2>1, <2>2, FS_Subset
  <2>4. Cardinality(B) = Rank(s, q, x)  BY DEF Rank
  <2> QED  BY <2>3, <2>4, <1>1, RankNat
<1>5. f \in Injection(P, 0..(k - 1))
  BY <1>3, <1>4, RankNat, <1>1 DEF Injection, IsInjective
<1>6. IsFiniteSet(0..(k-1)) /\ Cardinality(0..(k-1)) = k
  BY <1>1, FS_Interval
<1>7. f \in Surjection(P, 0..(k - 1))  BY <1>5, <1>6, FS_Injection
<1>8. \A n \in 1..k : \E it \in P : Rank(s, q, it) = n - 1
  <2>1. \A t \in 0..(k - 1) : \E it \in P : f[it] = t  BY <1>7 DEF Surjection
  <2> SUFFICES ASSUME NEW n \in 1..k PROVE \E it \in P : Rank(s, q, it) = n - 1  OBVIOUS
  <2>2. n - 1 \in 0..(k - 1)  BY <1>1
  <2>3. PICK it \in P : f[it] = n - 1  BY <2>1, <2>2
  <2> QED  BY <2>3
<1>9. k <= Room(s, q) \/ k = 0
  <2> SUFFICES ASSUME k > 0 PROVE k <= Room(s, q)  BY <1>1
  <2>1. PICK x \in P : Rank(s, q, x) = k - 1  BY <1>8, <1>1
  <2> QED  BY <2>1, <1>1, <1>2 DEF Picks
<1> QED  BY <1>1, <1>4, <1>8, <1>9

-----------------------------------------------------------------------------
(* The handler operators preserve a good memory.                           *)

Picked(s, Qs) == UNION {Picks(s, q) : q \in Qs}

\* Pointing an entry to another worker changes nothing else of it.
LEMMA WithWorker ==
    ASSUME NEW e \in Entry, NEW w \in {"none", "current", "stale"},
           NEW d, d = [e EXCEPT !.worker = w]
    PROVE  /\ d \in Entry /\ d # None
           /\ d.queue = e.queue /\ d.pos = e.pos /\ d.uri = e.uri /\ d.worker = w
BY NoneIsNoEntry DEF Entry

\* c is s after Cycle on the queues of Qs, field by field.
Cycled(s, Qs, c) ==
    /\ c.entry = [it \in Items |->
                     IF it \in Picked(s, Qs)
                     THEN [s.entry[it] EXCEPT !.worker = "current"]
                     ELSE s.entry[it]]
    /\ c.stat = [it \in Items |->
                    IF it \in Picked(s, Qs) THEN "Fetching" ELSE s.stat[it]]
    /\ c.depth = [q \in Queues |->
                     IF q \in Qs THEN s.depth[q] + Cardinality(Picks(s, q)) ELSE s.depth[q]]
    /\ c.out = [q \in Queues |->
                   IF q \in Qs THEN s.out[q] \o Requests(s, q) ELSE s.out[q]]
    /\ c.pref \subseteq s.pref
    /\ c.err \in BOOLEAN /\ (s.err => c.err)
    /\ c.born = s.born /\ c.left = s.left /\ c.tail = s.tail
    /\ c.maxd = s.maxd /\ c.worker = s.worker /\ c.current = s.current
    /\ c.conf = s.conf /\ c.created = s.created
    /\ c.toFetch = s.toFetch /\ c.running = s.running
    /\ c = [s EXCEPT !.entry = c.entry, !.stat = c.stat, !.depth = c.depth,
                     !.out = c.out, !.pref = c.pref, !.err = c.err]

\* Cycle touches the items it picks and nothing of the other fields.
LEMMA CycleFields ==
    ASSUME NEW s \in Memory, NEW Qs
    PROVE  Cycled(s, Qs, Cycle(s, Qs))
<1> DEFINE c == Cycle(s, Qs)
<1>1. c.entry = [it \in Items |->
                   IF it \in Picked(s, Qs)
                   THEN [s.entry[it] EXCEPT !.worker = "current"]
                   ELSE s.entry[it]]
  BY DEF Cycle, Memory, Picked
<1>2. c.stat = [it \in Items |-> IF it \in Picked(s, Qs) THEN "Fetching" ELSE s.stat[it]]
  BY DEF Cycle, Memory, Mark, Picked
<1>3. c.depth = [q \in Queues |->
                   IF q \in Qs THEN s.depth[q] + Cardinality(Picks(s, q)) ELSE s.depth[q]]
  BY DEF Cycle, Memory
<1>4. c.out = [q \in Queues |->
                 IF q \in Qs THEN s.out[q] \o Requests(s, q) ELSE s.out[q]]
  BY DEF Cycle, Memory
<1>5. /\ c.pref \subseteq s.pref
      /\ c.err \in BOOLEAN /\ (s.err => c.err)
  BY DEF Cycle, Memory
<1>6. /\ c.born = s.born /\ c.left = s.left /\ c.tail = s.tail
      /\ c.maxd = s.maxd /\ c.worker = s.worker /\ c.current = s.current
      /\ c.conf = s.conf /\ c.created = s.created
      /\ c.toFetch = s.toFetch /\ c.running = s.running
  BY DEF Cycle, Memory
<1>7. c = [s EXCEPT !.entry = c.entry, !.stat = c.stat, !.depth = c.depth,
                      !.out = c.out, !.pref = c.pref, !.err = c.err]
  <2>1. \A a, b, d, o, p, e :
          LET r == [s EXCEPT !.entry = a, !.stat = b, !.depth = d, !.out = o, !.pref = p, !.err = e]
          IN  /\ r.entry = a /\ r.stat = b /\ r.depth = d
              /\ r.out = o /\ r.pref = p /\ r.err = e
    BY DEF Memory
  <2>2. PICK a, b, d, o, p, e :
          c = [s EXCEPT !.entry = a, !.stat = b, !.depth = d, !.out = o, !.pref = p, !.err = e]
    BY Zenon DEF Cycle
  <2> HIDE DEF c
  <2> QED  BY <2>1, <2>2
<1> HIDE DEF c
<1>8. Cycled(s, Qs, c)
  BY <1>1, <1>2, <1>3, <1>4, <1>5, <1>6, <1>7 DEF Cycled
<1> QED  BY <1>8 DEF c

\* The requests that Cycle sends are requests.
LEMMA RequestsType ==
    ASSUME NEW s, Good(s), NEW q \in Queues
    PROVE  Requests(s, q) \in Seq(Request)
<1>1. Cardinality(Picks(s, q)) \in Nat
  BY PicksRanked
<1>2. ASSUME NEW n \in 1..Cardinality(Picks(s, q))
      PROVE  [uri |-> s.entry[CHOOSE it \in Picks(s, q) : Rank(s, q, it) = n - 1].uri,
              file |-> CHOOSE it \in Picks(s, q) : Rank(s, q, it) = n - 1,
              begun |-> FALSE, hops |-> 0] \in Request
  <2> DEFINE it == CHOOSE it \in Picks(s, q) : Rank(s, q, it) = n - 1
  <2>1. it \in Picks(s, q)  BY PicksRanked
  <2>2. it \in Items /\ s.entry[it] \in Entry
    BY <2>1 DEF Picks, Idle, QItems, Queued, Good, Memory
  <2> HIDE DEF it
  <2>3. [uri |-> s.entry[it].uri, file |-> it, begun |-> FALSE, hops |-> 0] \in Request
    BY <2>2 DEF Request, Entry
  <2> QED  BY <2>3 DEF it
<1>3. CASE s.worker[q] = "dead"  BY <1>3 DEF Requests
<1>4. CASE s.worker[q] # "dead"
  <2>1. Requests(s, q) \in [1..Cardinality(Picks(s, q)) -> Request]
    BY <1>2, <1>4 DEF Requests
  <2> QED  BY <2>1, <1>1
<1> QED  BY <1>3, <1>4

\* Queue::Cycle marks exactly as many items as it adds to PipeDepth, within
\* MaxPipeDepth, and touches neither ToFetch nor the lists.
LEMMA CycleGood ==
    ASSUME NEW s, Good(s), NEW Qs \in SUBSET Queues, NEW c, c = Cycle(s, Qs)
    PROVE  Good(c) /\ Kept(s, c)
<1>0. s \in Memory /\ Cycled(s, Qs, c)  BY CycleFields DEF Good
<1>1. \A it \in Picked(s, Qs) :
        /\ it \in Items /\ s.entry[it] \in Entry /\ s.entry[it] # None /\ s.stat[it] = "Idle"
        /\ \E q \in Qs : it \in Picks(s, q)
  BY <1>0 DEF Picked, Picks, Idle, QItems, Queued, Memory
<1>2. \A it \in Items :
        /\ s.entry[it] = None => c.entry[it] = None
        /\ s.entry[it] # None => /\ c.entry[it] # None /\ c.entry[it] \in Entry
                                 /\ c.entry[it].queue = s.entry[it].queue
                                 /\ c.entry[it].pos = s.entry[it].pos
                                 /\ c.entry[it].worker =
                                      IF it \in Picked(s, Qs) THEN "current" ELSE s.entry[it].worker
        /\ c.stat[it] = IF it \in Picked(s, Qs) THEN "Fetching" ELSE s.stat[it]
  <2> TAKE it \in Items
  <2>1. /\ c.entry[it] = IF it \in Picked(s, Qs) THEN [s.entry[it] EXCEPT !.worker = "current"]
                         ELSE s.entry[it]
        /\ c.stat[it] = IF it \in Picked(s, Qs) THEN "Fetching" ELSE s.stat[it]
    BY <1>0 DEF Cycled
  <2>2. CASE it \in Picked(s, Qs)
    <3>1. s.entry[it] \in Entry /\ s.entry[it] # None  BY <1>1, <2>2
    <3>2. c.entry[it] = [s.entry[it] EXCEPT !.worker = "current"]  BY <2>1, <2>2
    <3> QED  BY <2>1, <2>2, <3>1, <3>2, WithWorker
  <2>3. CASE it \notin Picked(s, Qs)
    <3>1. c.entry[it] = s.entry[it] /\ s.entry[it] \in Entry \cup {None}
      BY <1>0, <2>1, <2>3 DEF Memory
    <3> QED  BY <2>1, <2>3, <3>1
  <2> QED  BY <2>2, <2>3
<1>3. c \in Memory
  <2>1. \A it \in Items : c.entry[it] \in Entry \cup {None}
    BY <1>2
  <2>2. c.entry \in [Items -> Entry \cup {None}]
    BY <1>0, <2>1 DEF Cycled
  <2>3. c.stat \in [Items -> Stat]
    BY <1>0 DEF Memory, Stat, Cycled
  <2>4. c.depth \in [Queues -> Int]
    BY <1>0, PicksRanked DEF Memory, Cycled
  <2>5. c.out \in [Queues -> Seq(Request)]
    BY <1>0, RequestsType DEF Memory, Cycled
  <2>6. /\ c.born \in SUBSET Items /\ c.left \in [Items -> Nat] /\ c.tail \in [Queues -> Nat]
        /\ c.maxd \in [Queues -> Nat \ {0}] /\ c.worker \in [Queues -> {"none", "live", "dead"}]
        /\ c.current \in [Queues -> Items \cup {None}] /\ c.conf \in SUBSET Accesses
        /\ c.created \in SUBSET Queues /\ c.pref \in SUBSET Queues /\ c.toFetch \in Int
        /\ c.err \in BOOLEAN /\ c.running \in BOOLEAN
    BY <1>0 DEF Memory, Cycled
  <2>7. [s EXCEPT !.entry = c.entry, !.stat = c.stat, !.depth = c.depth,
                  !.out = c.out, !.pref = c.pref, !.err = c.err] \in Memory
    BY <1>0, <2>2, <2>3, <2>4, <2>5, <2>6 DEF Memory
  <2> QED  BY <1>0, <2>7 DEF Cycled
<1>4. Kept(s, c)
  BY <1>0, <1>2 DEF Kept, Queued, QItems, Cycled
<1>5. DepthOK(c)
  <2> SUFFICES ASSUME NEW q \in Queues
               PROVE  c.depth[q] = Cardinality(Fetching(c, q)) /\ c.depth[q] <= c.maxd[q]
    BY DEF DepthOK
  <2>1. s.depth[q] = Cardinality(Fetching(s, q)) /\ s.depth[q] <= s.maxd[q]
    BY DEF Good, DepthOK
  <2>2. c.maxd = s.maxd  BY <1>0 DEF Cycled
  <2>3. \A it \in Picked(s, Qs) : it \in QItems(s, q) => q \in Qs /\ it \in Picks(s, q)
    BY DEF Picked, Picks, Idle, QItems
  <2>4. CASE q \notin Qs
    <3>1. Fetching(c, q) = Fetching(s, q)
      BY <1>2, <1>4, <2>3, <2>4 DEF Fetching, Kept, QItems, Queued
    <3>2. c.depth[q] = s.depth[q]  BY <1>0, <2>4 DEF Cycled
    <3> QED  BY <3>1, <3>2, <2>1, <2>2
  <2>5. CASE q \in Qs
    <3>1. Picks(s, q) \subseteq QItems(s, q) /\ Picks(s, q) \subseteq Picked(s, Qs)
      BY <2>5 DEF Picks, Idle, Picked
    <3>2. Fetching(c, q) = Fetching(s, q) \cup Picks(s, q)
      BY <1>2, <1>4, <2>3, <3>1 DEF Fetching, Kept, QItems, Queued
    <3>3. Fetching(s, q) \cap Picks(s, q) = {}
      BY DEF Fetching, Picks, Idle
    <3>4. Cardinality(Fetching(c, q)) = Cardinality(Fetching(s, q)) + Cardinality(Picks(s, q))
      <4>1. Cardinality(Fetching(s, q)) \in Nat /\ Cardinality(Picks(s, q)) \in Nat
        BY Finite, FS_CardinalityType
      <4>2. IsFiniteSet(Fetching(s, q)) /\ IsFiniteSet(Picks(s, q))  BY Finite
      <4>3. Cardinality(Fetching(s, q) \cup Picks(s, q)) =
              Cardinality(Fetching(s, q)) + Cardinality(Picks(s, q))
              - Cardinality(Fetching(s, q) \cap Picks(s, q))
        BY <4>2, FS_Union
      <4>4. Cardinality(Fetching(s, q) \cap Picks(s, q)) = 0  BY <3>3, FS_EmptySet
      <4> QED  BY <3>2, <4>1, <4>3, <4>4
    <3>5. c.depth[q] = s.depth[q] + Cardinality(Picks(s, q))
      <4>1. c.depth = [p \in Queues |-> IF p \in Qs THEN s.depth[p] + Cardinality(Picks(s, p))
                                        ELSE s.depth[p]]
        BY <1>0 DEF Cycled
      <4> QED  BY <4>1, <2>5
    <3>6. s.depth[q] \in Int /\ s.maxd[q] \in Int  BY <1>0 DEF Memory
    <3>7. c.depth[q] <= s.maxd[q]
      <4> DEFINE k == Cardinality(Picks(s, q))
      <4>1. k \in Nat /\ (k <= Room(s, q) \/ k = 0)  BY PicksRanked
      <4>2. Room(s, q) \in Int /\ (Room(s, q) > 0 => s.depth[q] + Room(s, q) <= s.maxd[q])
        BY <1>0, RoomInt
      <4> HIDE DEF k
      <4>3. s.depth[q] + k <= s.maxd[q]  BY <4>1, <4>2, <3>6, <2>1
      <4> QED  BY <4>3, <3>5 DEF k
    <3> QED  BY <3>4, <3>5, <3>7, <2>1, <2>2
  <2> QED  BY <2>4, <2>5
<1>6. MaxdOK(c)  BY <1>0 DEF Good, MaxdOK, Cycled
<1>7. WorkerOK(c)  BY <1>1, <1>2 DEF Good, WorkerOK
<1>8. OrderOK(c)
  <2>1. c.created = s.created /\ c.tail = s.tail  BY <1>0 DEF Cycled
  <2> QED  BY <1>2, <2>1 DEF Good, OrderOK
<1>9. ToFetchOK(c) /\ BornOK(c)
  BY <1>0, <1>4 DEF Good, ToFetchOK, BornOK, Kept, Cycled
<1> QED  BY <1>3, <1>4, <1>5, <1>6, <1>7, <1>8, <1>9 DEF Good

\* Starting workers raises MaxPipeDepth at most to what the method promised,
\* never below what is being fetched.
LEMMA StartWorkersGood ==
    ASSUME NEW s, Good(s), NEW fresh \in SUBSET Queues, NEW up, NEW reuse,
           NEW c, c = StartWorkers(s, fresh, up, reuse)
    PROVE  /\ Good(c)
           /\ Queued(c) = Queued(s) /\ \A q : QItems(c, q) = QItems(s, q)
           /\ c.current = s.current /\ c.created = s.created /\ c.born = s.born
           /\ c.left = s.left
<1>0. s \in Memory  BY DEF Good
<1> DEFINE W == [q \in Queues |-> IF q \notin fresh THEN s.worker[q]
                                 ELSE IF q \in up THEN "live" ELSE "dead"]
           M == [q \in Queues |-> IF q \in fresh \cap up THEN Pipe[q] ELSE s.maxd[q]]
           revived(it) == /\ s.entry[it] # None
                          /\ s.entry[it].queue \in fresh \cap reuse
                          /\ s.entry[it].worker = "stale"
           E == [it \in Items |-> IF revived(it) THEN [s.entry[it] EXCEPT !.worker = "current"]
                                  ELSE s.entry[it]]
           x == s.err \/ ~(fresh \subseteq up)
<1>1. c = [s EXCEPT !.worker = W, !.maxd = M, !.entry = E, !.err = x]
  BY Zenon DEF StartWorkers, NewDepth
<1>2. \A it \in Items :
        /\ s.entry[it] = None => E[it] = None
        /\ s.entry[it] # None =>
             /\ E[it] # None /\ E[it] \in Entry
             /\ E[it].queue = s.entry[it].queue /\ E[it].pos = s.entry[it].pos
             /\ E[it].worker = "none" <=> s.entry[it].worker = "none"
  <2> TAKE it \in Items
  <2>1. CASE revived(it)
    <3>1. s.entry[it] \in Entry /\ E[it] = [s.entry[it] EXCEPT !.worker = "current"]
      BY <1>0, <2>1 DEF Memory
    <3> HIDE DEF E
    <3> QED  BY <2>1, <3>1, WithWorker
  <2>2. CASE ~revived(it)
    <3>1. s.entry[it] \in Entry \cup {None} /\ E[it] = s.entry[it]
      BY <1>0, <2>2 DEF Memory
    <3> HIDE DEF E
    <3> QED  BY <3>1
  <2> QED  BY <2>1, <2>2
<1>3. E \in [Items -> Entry \cup {None}]
  <2>1. \A it \in Items : E[it] \in Entry \cup {None}  BY <1>2
  <2> QED  BY <2>1
<1>4. W \in [Queues -> {"none", "live", "dead"}] /\ M \in [Queues -> Nat \ {0}] /\ x \in BOOLEAN
  BY <1>0, ConstantsOK DEF Memory, ConstantsOK
<1>5. \A q \in Queues : M[q] \in {1, Pipe[q]} /\ s.maxd[q] <= M[q]
  BY <1>0, ConstantsOK DEF Good, MaxdOK, Memory, ConstantsOK
<1>6. s.err => x  OBVIOUS
<1> HIDE DEF W, M, E, x
<1>7. c \in Memory  BY <1>0, <1>1, <1>3, <1>4 DEF Memory
<1>8. /\ c.entry = E /\ c.maxd = M /\ c.err = x
      /\ c.stat = s.stat /\ c.depth = s.depth /\ c.tail = s.tail /\ c.created = s.created
      /\ c.born = s.born /\ c.left = s.left /\ c.current = s.current /\ c.toFetch = s.toFetch
  BY <1>0, <1>1 DEF Memory
<1>9. Queued(c) = Queued(s) /\ \A q : QItems(c, q) = QItems(s, q) /\ Fetching(c, q) = Fetching(s, q)
  BY <1>2, <1>8 DEF Queued, QItems, Fetching
<1>10. DepthOK(c) /\ MaxdOK(c)
  <2>1. \A q \in Queues : s.depth[q] \in Int /\ s.maxd[q] \in Int /\ M[q] \in Int
    BY <1>0, <1>4 DEF Memory
  <2> QED  BY <1>5, <1>8, <1>9, <2>1 DEF Good, DepthOK, MaxdOK
<1>11. WorkerOK(c) /\ OrderOK(c)
  BY <1>2, <1>8 DEF Good, WorkerOK, OrderOK
<1>12. ToFetchOK(c) /\ BornOK(c)
  BY <1>6, <1>8, <1>9 DEF Good, ToFetchOK, BornOK
<1> QED  BY <1>7, <1>8, <1>9, <1>10, <1>11, <1>12 DEF Good

\* FindItem finds an item of the queue that is being fetched, or none.
LEMMA FindItemFetching ==
    ASSUME NEW s, Good(s), NEW q \in Queues, NEW u, NEW it, it = FindItem(s, q, u), it # None
    PROVE  it \in Items /\ it \in Fetching(s, q) /\ s.entry[it] \in Entry /\ s.entry[it].uri = u
<1> DEFINE M == Matches(s, q, u)
           Ps == {s.entry[m].pos : m \in M}
<1>1. M # {}  BY DEF FindItem
<1>2. \A m \in M : /\ m \in QItems(s, q) /\ m \in Items /\ s.entry[m] # None
                    /\ s.entry[m] \in Entry /\ s.entry[m].pos \in Nat
                    /\ s.entry[m].worker = "current" /\ s.entry[m].uri = u
  BY DEF Matches, QItems, Queued, Good, Memory, Entry
<1>3. Ps \subseteq Nat /\ Ps # {}  BY <1>1, <1>2
<1>4. PICK n \in Ps : \A k \in Ps : n <= k
  <2> DEFINE R == OpToRel(<, Nat)
  <2>1. IsWellFoundedOn(R, Nat)  BY NatLessThanWellFounded
  <2>2. \A k, l \in Nat : k < l => <<k, l>> \in R  BY DEF OpToRel
  <2> HIDE DEF Ps, R
  <2>3. PICK n \in Ps : \A k \in Ps : ~(<<k, n>> \in R)  BY <1>3, <2>1, WFMin
  <2>4. ASSUME NEW k \in Ps PROVE n <= k
    <3>1. n \in Nat /\ k \in Nat  BY <1>3, <2>4
    <3>2. ~(k < n)  BY <2>2, <2>3, <3>1
    <3> QED  BY <3>1, <3>2
  <2> QED  BY <2>4
<1>5. PICK m \in M : \A o \in M : s.entry[m].pos <= s.entry[o].pos  BY <1>4
<1>6. it \in M  BY <1>1, <1>5 DEF FindItem
<1> QED  BY <1>2, <1>6 DEF Fetching, Good, WorkerOK

\* t has the workers, pipes and flags of s.
Beside(s, t) ==
    /\ t.maxd = s.maxd /\ t.worker = s.worker /\ t.out = s.out
    /\ t.pref = s.pref /\ t.running = s.running

\* d is s after the item it, which was being fetched, left the queue q.
Left(s, q, it, d) ==
    /\ \A p \in Queues : d.depth[p] = IF p = q THEN s.depth[q] - 1 ELSE s.depth[p]
    /\ \A x \in Items : /\ d.stat[x] = IF x = it THEN "Done" ELSE s.stat[x]
                        /\ d.entry[x] = IF x = it THEN None ELSE s.entry[x]
    /\ Beside(s, d) /\ d.err = s.err /\ d.created = s.created

\* c is s after Queue::ItemDone: the item leaves, then the queue is cycled.
Finished(s, q, it, c) == \E d : Good(d) /\ Left(s, q, it, d) /\ c = Cycle(d, {q})

\* Queue::ItemDone takes its item off the list and one off PipeDepth and
\* ToFetch; the Cycle behind it refills the pipe.
LEMMA ItemDoneSteps ==
    ASSUME NEW s, Good(s), NEW q \in Queues, NEW it \in Fetching(s, q),
           NEW c, c = ItemDone(s, q, it)
    PROVE  /\ Good(c)
           /\ Queued(c) = Queued(s) \ {it}
           /\ \A p : QItems(c, p) = QItems(s, p) \ {it}
           /\ c.current = s.current /\ c.created = s.created /\ c.born = s.born
           /\ c.left = s.left /\ c.worker = s.worker
           /\ Finished(s, q, it, c)
<1>0. s \in Memory  BY DEF Good
<1>1. it \in Items /\ it \in Queued(s) /\ s.entry[it] # None /\ s.entry[it].queue = q
      /\ s.stat[it] = "Fetching"
  BY DEF Fetching, QItems, Queued
<1> DEFINE s1 == [s EXCEPT !.depth[q] = @ - 1,
                           !.stat[it] = IF @ = "Fetching" THEN "Done" ELSE @]
           D == [s.depth EXCEPT ![q] = @ - 1]
           S == [s.stat EXCEPT ![it] = "Done"]
           E == [s.entry EXCEPT ![it] = None]
           d == [s EXCEPT !.depth = D, !.stat = S, !.entry = E, !.toFetch = s.toFetch - 1]
<1>2. Dequeue(s1, it) = d
  <2>1. s1 = [s EXCEPT !.depth = D, !.stat = S]  BY <1>0, <1>1 DEF Memory
  <2>2. s1.stat[it] = "Done" /\ s1.entry = s.entry /\ s1.toFetch = s.toFetch
    BY <1>0, <1>1, <2>1 DEF Memory
  <2>3. Dequeue(s1, it) = [s1 EXCEPT !.entry[it] = None, !.toFetch = @ - 1]
    BY <1>1, <2>2 DEF Dequeue
  <2> HIDE DEF s1, D, S
  <2>4. [s1 EXCEPT !.entry[it] = None, !.toFetch = @ - 1]
          = [s1 EXCEPT !.entry = E, !.toFetch = s.toFetch - 1]
    BY <2>2
  <2> QED  BY <1>0, <2>1, <2>3, <2>4 DEF Memory
<1>3. c = Cycle(d, {q})
  BY <1>2, Zenon DEF ItemDone
<1>4. /\ D \in [Queues -> Int] /\ S \in [Items -> Stat] /\ E \in [Items -> Entry \cup {None}]
      /\ s.toFetch - 1 \in Int
  <2>1. /\ s.depth \in [Queues -> Int] /\ s.depth[q] - 1 \in Int /\ s.toFetch - 1 \in Int
        /\ s.stat \in [Items -> Stat] /\ s.entry \in [Items -> Entry \cup {None}]
    BY <1>0 DEF Memory
  <2>2. "Done" \in Stat  BY DEF Stat
  <2> QED  BY <2>1, <2>2
<1>5. /\ \A p \in Queues : D[p] = IF p = q THEN s.depth[q] - 1 ELSE s.depth[p]
      /\ \A x \in Items : /\ S[x] = IF x = it THEN "Done" ELSE s.stat[x]
                          /\ E[x] = IF x = it THEN None ELSE s.entry[x]
  <2>1. s.depth \in [Queues -> Int] /\ s.stat \in [Items -> Stat]
        /\ s.entry \in [Items -> Entry \cup {None}]
    BY <1>0 DEF Memory
  <2> QED  BY <2>1
<1>6. d \in Memory  BY <1>0, <1>4 DEF Memory
<1>7. /\ d.depth = D /\ d.stat = S /\ d.entry = E /\ d.toFetch = s.toFetch - 1
      /\ d.maxd = s.maxd /\ d.tail = s.tail /\ d.created = s.created /\ d.born = s.born
      /\ d.left = s.left /\ d.worker = s.worker /\ d.current = s.current /\ d.err = s.err
      /\ Beside(s, d)
  BY <1>0 DEF Memory, Beside
<1> HIDE DEF D, S, E, d
<1>8. /\ Queued(d) = Queued(s) \ {it}
      /\ \A p : QItems(d, p) = QItems(s, p) \ {it}
      /\ \A p : Fetching(d, p) = Fetching(s, p) \ {it}
  <2>1. Queued(d) = Queued(s) \ {it}  BY <1>1, <1>5, <1>7 DEF Queued
  <2>2. \A p : QItems(d, p) = QItems(s, p) \ {it}
    BY <1>5, <1>7, <2>1 DEF Queued, QItems
  <2>3. \A p : Fetching(d, p) = Fetching(s, p) \ {it}
    BY <1>5, <1>7, <2>2 DEF Queued, QItems, Fetching
  <2> QED  BY <2>1, <2>2, <2>3
<1>9. DepthOK(d)
  <2> SUFFICES ASSUME NEW p \in Queues
               PROVE  d.depth[p] = Cardinality(Fetching(d, p)) /\ d.depth[p] <= d.maxd[p]
    BY DEF DepthOK
  <2>1. s.depth[p] \in Int /\ s.maxd[p] \in Int /\ s.depth[p] <= s.maxd[p]
        /\ s.depth[p] = Cardinality(Fetching(s, p))
    BY <1>0 DEF Memory, Good, DepthOK
  <2>2. CASE p = q
    <3>1. it \in Fetching(s, p) /\ IsFiniteSet(Fetching(s, p))  BY <2>2, Finite
    <3>2. Cardinality(Fetching(s, p) \ {it}) = Cardinality(Fetching(s, p)) - 1
      BY <3>1, FS_RemoveElement
    <3>3. d.depth[p] = s.depth[p] - 1 /\ d.maxd[p] = s.maxd[p]  BY <1>5, <1>7, <2>2
    <3>4. Cardinality(Fetching(d, p)) = s.depth[p] - 1  BY <1>8, <2>1, <3>2
    <3> QED  BY <2>1, <3>3, <3>4
  <2>3. CASE p # q
    <3>1. it \notin Fetching(s, p)  BY <1>1, <2>3 DEF Fetching, QItems
    <3>2. Fetching(s, p) \ {it} = Fetching(s, p)  BY <3>1
    <3> QED  BY <1>5, <1>7, <1>8, <2>1, <2>3, <3>2
  <2> QED  BY <2>2, <2>3
<1>10. MaxdOK(d) /\ WorkerOK(d) /\ OrderOK(d) /\ BornOK(d)
  BY <1>1, <1>5, <1>7, <1>8 DEF Good, MaxdOK, WorkerOK, OrderOK, BornOK
<1>11. ToFetchOK(d)
  <2>1. Cardinality(Queued(s) \ {it}) = Cardinality(Queued(s)) - 1
    BY <1>1, Finite, FS_RemoveElement
  <2> QED  BY <1>7, <1>8, <2>1 DEF Good, ToFetchOK
<1>12. Good(d)  BY <1>6, <1>9, <1>10, <1>11 DEF Good
<1>13. Good(c) /\ Kept(d, c)  BY <1>3, <1>12, CycleGood
<1>14. Left(s, q, it, d)  BY <1>5, <1>7 DEF Left
<1>15. Finished(s, q, it, c)  BY <1>3, <1>12, <1>14 DEF Finished
<1> QED  BY <1>7, <1>8, <1>13, <1>15 DEF Kept

\* The same without the steps.
LEMMA ItemDoneGood ==
    ASSUME NEW s, Good(s), NEW q \in Queues, NEW it \in Fetching(s, q),
           NEW c, c = ItemDone(s, q, it)
    PROVE  /\ Good(c)
           /\ Queued(c) = Queued(s) \ {it}
           /\ \A p : QItems(c, p) = QItems(s, p) \ {it}
           /\ c.current = s.current /\ c.created = s.created /\ c.born = s.born
           /\ c.left = s.left /\ c.worker = s.worker
BY ItemDoneSteps

\* Queue::Startup for every queue.
LEMMA StartupGood ==
    ASSUME NEW s, Good(s), NEW Qs \in SUBSET Queues, NEW up, NEW reuse,
           NEW c, c = Startup(s, Qs, up, reuse)
    PROVE  /\ Good(c)
           /\ \A q : QItems(c, q) = QItems(s, q)
           /\ c.current = s.current
<1> DEFINE fresh == {q \in Qs : s.worker[q] = "none"}
           w == StartWorkers(s, fresh, up, reuse)
<1>1. Good(w) /\ (\A q : QItems(w, q) = QItems(s, q)) /\ w.current = s.current
  BY StartWorkersGood
<1>2. c = Cycle(w, Qs \ (fresh \ up))  BY DEF Startup
<1> HIDE DEF w, fresh
<1>3. Qs \ (fresh \ up) \in SUBSET Queues  OBVIOUS
<1>4. Good(c) /\ Kept(w, c)  BY <1>1, <1>2, <1>3, CycleGood
<1> QED  BY <1>1, <1>4 DEF Kept

\* c is s after Enqueue found no configuration for the access method.
Refused(s, c) ==
    /\ Beside(s, c) /\ c.err = TRUE /\ c.created = s.created
    /\ c.entry = s.entry /\ c.stat = s.stat /\ c.depth = s.depth

\* w is s with the queue q on the list of queues.
Named(s, q, w) ==
    /\ Beside(s, w) /\ w.err = s.err /\ w.created = s.created \cup {q}
    /\ w.entry = s.entry /\ w.stat = s.stat /\ w.depth = s.depth

\* r is s with the queue q on the list, and with its worker when Run is on.
Opened(s, q, up, r) ==
    \E w : /\ Good(w) /\ Named(s, q, w)
           /\ IF q \notin s.created /\ s.running THEN r = StartWorkers(w, {q}, up, {})
                                                ELSE r = w

\* d is r with the item it at the end of the queue q.
Entered(r, it, q, u, d) ==
    /\ Beside(r, d) /\ d.err = r.err /\ d.created = r.created /\ d.depth = r.depth
    /\ \A x \in Items : /\ d.stat[x] = IF x = it THEN "Idle" ELSE r.stat[x]
                        /\ x # it => d.entry[x] = r.entry[x]
    /\ d.entry[it] \in Entry
    /\ d.entry[it].queue = q /\ d.entry[it].uri = u /\ d.entry[it].worker = "none"
    /\ \A x \in QItems(r, q) : r.entry[x].pos < d.entry[it].pos

\* c is s after Enqueue: the queue is opened, the item enters, and the queue
\* is cycled when it holds nothing else.
Accepted(s, it, q, u, up, c) ==
    \E r, d : /\ Good(r) /\ Opened(s, q, up, r) /\ r.entry[it] = None
              /\ Good(d) /\ Entered(r, it, q, u, d)
              /\ IF QItems(r, q) = {} THEN c = Cycle(d, {q}) ELSE c = d

\* pkgAcquire::Enqueue adds its item to the end of one list and one to
\* ToFetch, or (the method cannot be configured) only pushes an error.
LEMMA EnqueueSteps ==
    ASSUME NEW s, Good(s), NEW it \in s.born, s.entry[it] = None,
           NEW u \in URIs, NEW ok, NEW up, NEW c, c = Enqueue(s, it, u, ok, up)
    PROVE  /\ Good(c)
           /\ \A q : QItems(s, q) \subseteq QItems(c, q)
           /\ c.current = s.current
           /\ Refused(s, c) \/ Accepted(s, it, QueueOf[u], u, up, c)
<1>0. s \in Memory /\ it \in Items /\ QueueOf[u] \in Queues /\ AccessOf[QueueOf[u]] \in Accesses
  BY ConstantsOK DEF Good, Memory, ConstantsOK
<1> DEFINE q == QueueOf[u]
           s0 == [s EXCEPT !.conf = @ \cup {AccessOf[q]}, !.created = @ \cup {q}]
           s1 == IF q \notin s.created /\ s.running THEN StartWorkers(s0, {q}, up, {}) ELSE s0
           s2 == [s1 EXCEPT
                    !.stat[it] = "Idle",
                    !.entry[it] = [queue |-> q, uri |-> u, pos |-> NextPos(s1, q),
                                   worker |-> "none"],
                    !.tail[q] = NextPos(s1, q),
                    !.toFetch = @ + 1]
           f == [s EXCEPT !.conf = @ \cup {AccessOf[q]}, !.err = TRUE]
<1>1. \/ c = f
      \/ c = IF QItems(s2, q) = {it} THEN Cycle(s2, {q}) ELSE s2
  BY Zenon DEF Enqueue
<1>2. ASSUME c = f
      PROVE  /\ Good(c) /\ (\A p : QItems(c, p) = QItems(s, p)) /\ c.current = s.current
             /\ Refused(s, c)
  <2>1. c \in Memory
    <3>1. s.conf \cup {AccessOf[q]} \in SUBSET Accesses  BY <1>0 DEF Memory
    <3>2. c = [s EXCEPT !.conf = s.conf \cup {AccessOf[q]}, !.err = TRUE]
      BY <1>0, <1>2 DEF Memory
    <3> HIDE DEF f, q
    <3>3. [s EXCEPT !.conf = s.conf \cup {AccessOf[q]}, !.err = TRUE] \in Memory
      BY <1>0, <3>1 DEF Memory
    <3> QED  BY <3>2, <3>3
  <2>2. /\ c.entry = s.entry /\ c.stat = s.stat /\ c.depth = s.depth /\ c.maxd = s.maxd
        /\ c.tail = s.tail /\ c.created = s.created /\ c.born = s.born /\ c.err = TRUE
        /\ c.current = s.current /\ Beside(s, c)
    BY <1>0, <1>2 DEF Memory, Beside
  <2> HIDE DEF f
  <2>3. /\ Queued(c) = Queued(s)
        /\ \A p : QItems(c, p) = QItems(s, p) /\ Fetching(c, p) = Fetching(s, p)
    BY <2>2 DEF Queued, QItems, Fetching
  <2> QED
    BY <2>1, <2>2, <2>3 DEF Good, DepthOK, MaxdOK, WorkerOK, OrderOK, ToFetchOK, BornOK, Refused
<1>3. /\ Good(s1) /\ q \in s1.created /\ it \in s1.born /\ s1.entry[it] = None
      /\ \A p : QItems(s1, p) = QItems(s, p)
      /\ s1.current = s.current
      /\ Opened(s, q, up, s1)
  <2>1. s0 \in Memory  BY <1>0 DEF Memory
  <2>2. /\ s0.entry = s.entry /\ s0.stat = s.stat /\ s0.depth = s.depth /\ s0.maxd = s.maxd
        /\ s0.tail = s.tail /\ s0.created = s.created \cup {q} /\ s0.born = s.born
        /\ s0.err = s.err /\ s0.toFetch = s.toFetch /\ s0.current = s.current
        /\ Beside(s, s0)
    BY <1>0 DEF Memory, Beside
  <2>0. s1 = IF q \notin s.created /\ s.running THEN StartWorkers(s0, {q}, up, {}) ELSE s0
    OBVIOUS
  <2> HIDE DEF s0
  <2>3. /\ Queued(s0) = Queued(s)
        /\ \A p : QItems(s0, p) = QItems(s, p) /\ Fetching(s0, p) = Fetching(s, p)
    BY <2>2 DEF Queued, QItems, Fetching
  <2>4. Good(s0)
    BY <2>1, <2>2, <2>3 DEF Good, DepthOK, MaxdOK, WorkerOK, OrderOK, ToFetchOK, BornOK
  <2>7. Opened(s, q, up, s1)
    <3> HIDE DEF s1
    <3>1. Named(s, q, s0)  BY <2>2 DEF Named
    <3> QED  BY <2>0, <2>4, <3>1 DEF Opened
  <2>5. CASE s1 = s0  BY <2>2, <2>3, <2>4, <2>5, <2>7
  <2>6. CASE s1 = StartWorkers(s0, {q}, up, {})
    <3>1. /\ Good(s1) /\ Queued(s1) = Queued(s0) /\ \A p : QItems(s1, p) = QItems(s0, p)
          /\ s1.current = s0.current /\ s1.created = s0.created /\ s1.born = s0.born
      BY <1>0, <2>4, <2>6, StartWorkersGood
    <3> HIDE DEF s1
    <3>2. s1.entry[it] = None
      BY <1>0, <2>2, <3>1 DEF Queued
    <3> QED  BY <2>2, <2>3, <2>7, <3>1, <3>2
  <2> QED  BY <2>5, <2>6
<1> HIDE DEF f, s1
<1>4. s1 \in Memory  BY <1>3 DEF Good
<1>5. /\ NextPos(s1, q) \in Nat
      /\ \A x \in QItems(s1, q) : s1.entry[x].pos < NextPos(s1, q)
  <2>1. s1.tail[q] \in Nat  BY <1>0, <1>4 DEF Memory
  <2>2. \A x \in QItems(s1, q) : s1.entry[x].pos \in Nat /\ s1.entry[x].pos <= s1.tail[q]
    BY <1>3, <1>4 DEF Good, OrderOK, QItems, Queued, Memory, Entry
  <2> QED  BY <2>1, <2>2 DEF NextPos
<1> DEFINE e == [queue |-> q, uri |-> u, pos |-> NextPos(s1, q), worker |-> "none"]
           n == NextPos(s1, q)
           E == [s1.entry EXCEPT ![it] = e]
           S == [s1.stat EXCEPT ![it] = "Idle"]
           T == [s1.tail EXCEPT ![q] = n]
<1>6. e \in Entry /\ e # None /\ e.queue = q /\ e.pos = n /\ e.worker = "none" /\ e.uri = u
  BY <1>0, <1>5, NoneIsNoEntry DEF Entry
<1>7. s2 = [s1 EXCEPT !.stat = S, !.entry = E, !.tail = T, !.toFetch = s1.toFetch + 1]
  BY <1>4 DEF Memory
<1> HIDE DEF e, n, s2
<1>8. /\ E \in [Items -> Entry \cup {None}] /\ S \in [Items -> Stat] /\ T \in [Queues -> Nat]
      /\ s1.toFetch + 1 \in Int
      /\ \A x \in Items : /\ E[x] = IF x = it THEN e ELSE s1.entry[x]
                          /\ S[x] = IF x = it THEN "Idle" ELSE s1.stat[x]
      /\ \A p \in Queues : T[p] = IF p = q THEN n ELSE s1.tail[p]
  <2>1. /\ s1.entry \in [Items -> Entry \cup {None}] /\ s1.stat \in [Items -> Stat]
        /\ s1.tail \in [Queues -> Nat] /\ s1.toFetch \in Int
    BY <1>4 DEF Memory
  <2>2. n \in Nat /\ "Idle" \in Stat  BY <1>5 DEF n, Stat
  <2>3. E \in [Items -> Entry \cup {None}] /\ S \in [Items -> Stat] /\ T \in [Queues -> Nat]
    BY <2>1, <2>2, <1>6
  <2>4. \A x \in Items : E[x] = IF x = it THEN e ELSE s1.entry[x]  BY <2>1
  <2>5. \A x \in Items : S[x] = IF x = it THEN "Idle" ELSE s1.stat[x]  BY <2>1
  <2>6. \A p \in Queues : T[p] = IF p = q THEN n ELSE s1.tail[p]  BY <2>1
  <2> HIDE DEF E, S, T
  <2> QED  BY <2>1, <2>3, <2>4, <2>5, <2>6
<1> HIDE DEF E, S, T
<1>9. s2 \in Memory  BY <1>4, <1>7, <1>8 DEF Memory
<1>10. /\ s2.stat = S /\ s2.entry = E /\ s2.tail = T /\ s2.toFetch = s1.toFetch + 1
       /\ s2.depth = s1.depth /\ s2.maxd = s1.maxd /\ s2.created = s1.created
       /\ s2.born = s1.born /\ s2.err = s1.err /\ s2.current = s1.current
       /\ Beside(s1, s2)
  BY <1>4, <1>7 DEF Memory, Beside
<1>11. /\ Queued(s2) = Queued(s1) \cup {it} /\ it \notin Queued(s1)
       /\ QItems(s2, q) = QItems(s1, q) \cup {it}
       /\ \A p : p # q => QItems(s2, p) = QItems(s1, p)
       /\ \A p : Fetching(s2, p) = Fetching(s1, p)
  <2>1. Queued(s2) = Queued(s1) \cup {it} /\ it \notin Queued(s1)
    BY <1>0, <1>3, <1>6, <1>8, <1>10 DEF Queued
  <2>2. QItems(s2, q) = QItems(s1, q) \cup {it} /\ \A p : p # q => QItems(s2, p) = QItems(s1, p)
    BY <1>0, <1>6, <1>8, <1>10, <2>1 DEF Queued, QItems
  <2>3. \A p : Fetching(s2, p) = Fetching(s1, p)
    BY <1>0, <1>8, <1>10, <2>1, <2>2 DEF Queued, QItems, Fetching
  <2> QED  BY <2>1, <2>2, <2>3
<1>12. DepthOK(s2) /\ MaxdOK(s2) /\ BornOK(s2)
  BY <1>3, <1>10, <1>11 DEF Good, DepthOK, MaxdOK, BornOK
<1>13. WorkerOK(s2)
  BY <1>3, <1>6, <1>8, <1>10 DEF Good, WorkerOK
<1>14. OrderOK(s2)
  <2>1. \A x \in Items : s1.entry[x] # None /\ s1.entry[x].queue = q =>
          /\ s1.entry[x].pos < n /\ s1.entry[x].pos \in Nat
    BY <1>4, <1>5 DEF n, QItems, Queued, Memory, Entry
  <2>2. n \in Nat  BY <1>5 DEF n
  <2>3. \A x \in Items : s2.entry[x] # None =>
          s2.entry[x].queue \in s2.created /\ s2.entry[x].pos <= s2.tail[s2.entry[x].queue]
    <3> SUFFICES ASSUME NEW x \in Items, s2.entry[x] # None
                 PROVE  s2.entry[x].queue \in s2.created
                        /\ s2.entry[x].pos <= s2.tail[s2.entry[x].queue]
      OBVIOUS
    <3>1. CASE x = it  BY <1>0, <1>3, <1>6, <1>8, <1>10, <2>2, <3>1
    <3>2. CASE x # it
      <4>1. s1.entry[x] # None /\ s2.entry[x] = s1.entry[x] /\ s1.entry[x].queue \in Queues
        BY <1>4, <1>8, <1>10, <3>2 DEF Memory, Entry
      <4> QED  BY <1>3, <1>8, <1>10, <2>1, <2>2, <4>1 DEF Good, OrderOK
    <3> QED  BY <3>1, <3>2
  <2>4. \A x, y \in Items :
          (y # x /\ s2.entry[x] # None /\ s2.entry[y] # None
           /\ s2.entry[y].queue = s2.entry[x].queue) => s2.entry[x].pos # s2.entry[y].pos
    BY <1>3, <1>6, <1>8, <1>10, <2>1, <2>2 DEF Good, OrderOK
  <2> QED  BY <2>3, <2>4 DEF OrderOK
<1>15. ToFetchOK(s2)
  <2>1. Cardinality(Queued(s2)) = Cardinality(Queued(s1)) + 1
    BY <1>11, Finite, FS_AddElement
  <2> QED  BY <1>3, <1>10, <2>1 DEF Good, ToFetchOK
<1>16. Good(s2)  BY <1>9, <1>12, <1>13, <1>14, <1>15 DEF Good
<1>17. Entered(s1, it, q, u, s2)
  BY <1>0, <1>5, <1>6, <1>8, <1>10 DEF Entered, n
<1>18. ASSUME c = IF QItems(s2, q) = {it} THEN Cycle(s2, {q}) ELSE s2
       PROVE  /\ Good(c)
              /\ \A p : QItems(s, p) \subseteq QItems(c, p)
              /\ c.current = s.current
              /\ IF QItems(s1, q) = {} THEN c = Cycle(s2, {q}) ELSE c = s2
  <2>1. QItems(s2, q) = {it} <=> QItems(s1, q) = {}
    BY <1>11 DEF QItems
  <2>2. CASE QItems(s1, q) # {}  BY <1>3, <1>10, <1>11, <1>16, <1>18, <2>1, <2>2
  <2>3. CASE QItems(s1, q) = {}
    <3>1. c = Cycle(s2, {q})  BY <1>18, <2>1, <2>3
    <3>2. Good(c) /\ Kept(s2, c)  BY <1>0, <1>16, <3>1, CycleGood
    <3> QED  BY <1>3, <1>10, <1>11, <2>3, <3>1, <3>2 DEF Kept
  <2> QED  BY <2>2, <2>3
<1>19. CASE c = f  BY <1>2, <1>19
<1>20. CASE c = IF QItems(s2, q) = {it} THEN Cycle(s2, {q}) ELSE s2
  <2>1. Accepted(s, it, q, u, up, c)
    <3> HIDE DEF q
    <3> QED  BY <1>3, <1>16, <1>17, <1>18, <1>20 DEF Accepted
  <2> QED  BY <1>18, <1>20, <2>1
<1> QED  BY <1>1, <1>19, <1>20

\* The same without the steps.
LEMMA EnqueueGood ==
    ASSUME NEW s, Good(s), NEW it \in s.born, s.entry[it] = None,
           NEW u \in URIs, NEW ok, NEW up, NEW c, c = Enqueue(s, it, u, ok, up)
    PROVE  /\ Good(c)
           /\ \A q : QItems(s, q) \subseteq QItems(c, q)
           /\ c.current = s.current
BY EnqueueSteps

-----------------------------------------------------------------------------
(* The handlers' remaining changes leave the lists and counters alone.     *)

\* t differs from s at most in what the counters and lists do not depend on.
Alike(s, t) ==
    /\ t.depth = s.depth /\ t.maxd = s.maxd /\ t.tail = s.tail /\ t.created = s.created
    /\ t.toFetch = s.toFetch /\ s.born \subseteq t.born /\ (s.err => t.err)
    /\ \A x \in Items :
         /\ s.entry[x] = None => t.entry[x] = None /\ t.stat[x] # "Fetching"
         /\ s.entry[x] # None => /\ t.entry[x] # None
                                 /\ t.entry[x].queue = s.entry[x].queue
                                 /\ t.entry[x].pos = s.entry[x].pos
                                 /\ (t.entry[x].worker = "none") <=> (s.entry[x].worker = "none")
                                 /\ t.stat[x] = s.stat[x]

\* Good depends on few fields: states that agree on them are good together.
LEMMA AlikeGood ==
    ASSUME NEW s, Good(s), NEW t \in Memory, Alike(s, t)
    PROVE  Good(t) /\ \A q : QItems(t, q) = QItems(s, q)
<1>1. Queued(t) = Queued(s)  BY DEF Alike, Queued
<1>2. \A q : QItems(t, q) = QItems(s, q)  BY <1>1 DEF Alike, QItems, Queued
<1>3. \A q : Fetching(t, q) = Fetching(s, q)  BY <1>2 DEF Alike, Fetching, QItems, Queued
<1>4. DepthOK(t) /\ MaxdOK(t)  BY <1>3 DEF Alike, Good, DepthOK, MaxdOK
<1>5. WorkerOK(t)  BY DEF Alike, Good, WorkerOK
<1>6. OrderOK(t)  BY DEF Alike, Good, OrderOK
<1>7. ToFetchOK(t) /\ BornOK(t)  BY <1>1 DEF Alike, Good, ToFetchOK, BornOK
<1> QED  BY <1>2, <1>4, <1>5, <1>6, <1>7 DEF Good

\* t has the list items of s and maybe more, and the same CurrentItems.
Grown(s, t) == t.current = s.current /\ \A q : QItems(s, q) \subseteq QItems(t, q)

\* What an item's owner does once the item left its queue.
LEMMA OwnerGood ==
    ASSUME NEW s, Good(s), NEW it \in s.born, s.entry[it] = None,
           NEW finals, "Fetching" \notin finals, finals \subseteq Stat,
           NEW u, u # None => u \in URIs /\ s.left[it] > 0,
           NEW ok, NEW up, NEW t, t \in Owner(s, it, finals, u, ok, up)
    PROVE  Good(t) /\ Grown(s, t)
<1>0. s \in Memory /\ it \in Items  BY DEF Good, Memory
<1>1. CASE u = None
  <2>1. PICK x \in finals : t = [s EXCEPT !.stat[it] = x]  BY <1>1 DEF Owner
  <2> DEFINE S == [s.stat EXCEPT ![it] = x]
  <2>2. S \in [Items -> Stat]  BY <1>0 DEF Memory, Stat
  <2>3. \A y \in Items : S[y] = IF y = it THEN x ELSE s.stat[y]  BY <1>0 DEF Memory
  <2>4. t = [s EXCEPT !.stat = S]  BY <1>0, <2>1 DEF Memory
  <2> HIDE DEF S
  <2>5. t \in Memory  BY <1>0, <2>2, <2>4 DEF Memory
  <2>6. /\ t.stat = S /\ t.entry = s.entry /\ t.depth = s.depth /\ t.maxd = s.maxd
        /\ t.tail = s.tail /\ t.created = s.created /\ t.toFetch = s.toFetch
        /\ t.born = s.born /\ t.err = s.err /\ t.current = s.current
    BY <1>0, <2>4 DEF Memory
  <2>7. Alike(s, t)  BY <2>3, <2>6 DEF Alike, Good, WorkerOK
  <2> QED  BY <2>5, <2>6, <2>7, AlikeGood DEF Grown
<1>2. CASE u # None
  <2> DEFINE w == [s EXCEPT !.left[it] = @ - 1]
             L == [s.left EXCEPT ![it] = @ - 1]
  <2>1. t = Enqueue(w, it, u, ok, up)  BY <1>2 DEF Owner
  <2>2. L \in [Items -> Nat]
    <3>1. s.left \in [Items -> Nat] /\ s.left[it] > 0  BY <1>0, <1>2 DEF Memory
    <3> QED  BY <1>0, <3>1
  <2>3. w = [s EXCEPT !.left = L]  BY <1>0 DEF Memory
  <2> HIDE DEF L, w
  <2>4. w \in Memory  BY <1>0, <2>2, <2>3 DEF Memory
  <2>5. /\ w.stat = s.stat /\ w.entry = s.entry /\ w.depth = s.depth /\ w.maxd = s.maxd
        /\ w.tail = s.tail /\ w.created = s.created /\ w.toFetch = s.toFetch
        /\ w.born = s.born /\ w.err = s.err /\ w.current = s.current
    BY <1>0, <2>3 DEF Memory
  <2>6. Alike(s, w)  BY <2>5 DEF Alike, Good, WorkerOK
  <2>7. Good(w) /\ \A q : QItems(w, q) = QItems(s, q)  BY <2>4, <2>6, AlikeGood
  <2>8. it \in w.born /\ w.entry[it] = None /\ u \in URIs  BY <1>2, <2>5
  <2>9. /\ Good(t)
        /\ \A q : QItems(w, q) \subseteq QItems(t, q)
        /\ t.current = w.current
    BY <2>1, <2>7, <2>8, EnqueueGood
  <2> QED  BY <2>5, <2>7, <2>9 DEF Grown
<1> QED  BY <1>1, <1>2

-----------------------------------------------------------------------------
(* The invariant and its steps.                                            *)

CurrentOK(s) == \A q \in Queues : s.current[q] # None => s.current[q] \in QItems(s, q)

Inv == TypeOK /\ Good(st) /\ CurrentOK(st)

\* No queue, no item, no worker: every counter is zero.
LEMMA InitInv == Init => Inv
<1> SUFFICES ASSUME Init PROVE Inv  OBVIOUS
<1>1. TypeOK
  <2>1. st \in Memory  BY ConstantsOK DEF Init, Memory, Stat, ConstantsOK
  <2>2. << >> \in Seq(Request) /\ << >> \in Seq(Message)
        /\ << >> \in Seq({"Continue", "Failed", "Cancelled"})
    OBVIOUS
  <2> QED  BY <2>1, <2>2 DEF Init, TypeOK
<1>2. /\ \A x \in Items : st.entry[x] = None /\ st.stat[x] = "Idle"
      /\ \A q \in Queues : st.depth[q] = 0 /\ st.maxd[q] = 1 /\ st.current[q] = None
      /\ st.toFetch = 0
  BY DEF Init
<1>3. Queued(st) = {} /\ \A q : Fetching(st, q) = {}
  BY <1>2 DEF Queued, QItems, Fetching
<1>4. Cardinality({}) = 0  BY FS_EmptySet
<1>5. st \in Memory  BY <1>1 DEF TypeOK
<1>6. DepthOK(st) /\ MaxdOK(st)  BY <1>2, <1>3, <1>4 DEF DepthOK, MaxdOK
<1>7. WorkerOK(st) /\ OrderOK(st)  BY <1>2 DEF WorkerOK, OrderOK
<1>8. ToFetchOK(st) /\ BornOK(st)  BY <1>2, <1>3, <1>4 DEF ToFetchOK, BornOK
<1>9. Good(st)  BY <1>5, <1>6, <1>7, <1>8 DEF Good
<1> QED  BY <1>1, <1>2, <1>9 DEF Inv, CurrentOK

\* An item enters: Enqueue raises ToFetch and may start nothing yet.
LEMMA ConstructInv == ASSUME Inv, NEW it \in Items, Construct(it) PROVE Inv'
<1> DEFINE B == st.born \cup {it}
           s == [st EXCEPT !.born = @ \cup {it}]
<1>1. PICK ok \in BOOLEAN : st' = Enqueue(s, it, FirstURI[it], ok, {})
  BY DEF Construct
<1>2. st \in Memory /\ Good(st)  BY DEF Inv, Good
<1>3. s \in Memory  BY <1>2 DEF Memory
<1>4. /\ s.stat = st.stat /\ s.entry = st.entry /\ s.depth = st.depth /\ s.maxd = st.maxd
      /\ s.tail = st.tail /\ s.created = st.created /\ s.toFetch = st.toFetch
      /\ s.born = B /\ s.err = st.err /\ s.current = st.current
  BY <1>2 DEF Memory
<1> HIDE DEF s
<1>5. Alike(st, s)  BY <1>2, <1>4 DEF Alike, Good, WorkerOK
<1>6. Good(s) /\ \A q : QItems(s, q) = QItems(st, q)  BY <1>2, <1>3, <1>5, AlikeGood
<1>7. s.entry[it] = None /\ it \in s.born
  BY <1>2, <1>4 DEF Construct, Good, BornOK, Queued
<1>8. FirstURI[it] \in URIs  BY ConstantsOK DEF ConstantsOK
<1>9. Good(st') /\ (\A q : QItems(s, q) \subseteq QItems(st', q)) /\ st'.current = s.current
  BY <1>1, <1>6, <1>7, <1>8, EnqueueGood
<1>10. CurrentOK(st')  BY <1>4, <1>6, <1>9 DEF Inv, CurrentOK
<1>11. TypeOK'  BY <1>9 DEF Inv, TypeOK, Construct, Good
<1> QED  BY <1>9, <1>10, <1>11 DEF Inv

\* Run starts every queue; Startup fills the pipes of the new workers.
LEMMA RunStartInv == ASSUME Inv, RunStart PROVE Inv'
<1> DEFINE s == [st EXCEPT !.running = TRUE]
<1>1. PICK up \in SUBSET st.created, reuse \in SUBSET st.created :
        st' = Startup(s, st.created, up, reuse)
  BY DEF RunStart
<1>2. st \in Memory /\ Good(st)  BY DEF Inv, Good
<1>3. s \in Memory  BY <1>2 DEF Memory
<1>4. /\ s.stat = st.stat /\ s.entry = st.entry /\ s.depth = st.depth /\ s.maxd = st.maxd
      /\ s.tail = st.tail /\ s.created = st.created /\ s.toFetch = st.toFetch
      /\ s.born = st.born /\ s.err = st.err /\ s.current = st.current
      /\ st.created \in SUBSET Queues
  BY <1>2 DEF Memory
<1> HIDE DEF s
<1>5. Alike(st, s)  BY <1>2, <1>4 DEF Alike, Good, WorkerOK
<1>6. Good(s) /\ \A q : QItems(s, q) = QItems(st, q)  BY <1>2, <1>3, <1>5, AlikeGood
<1>7. Good(st') /\ (\A q : QItems(st', q) = QItems(s, q)) /\ st'.current = s.current
  BY <1>1, <1>4, <1>6, StartupGood
<1>8. CurrentOK(st')  BY <1>4, <1>6, <1>7 DEF Inv, CurrentOK
<1>9. alive' \in SUBSET Queues  BY DEF Inv, TypeOK, RunStart, Spawned
<1>10. TypeOK'  BY <1>7, <1>9 DEF Inv, TypeOK, RunStart, Good
<1> QED  BY <1>7, <1>8, <1>10 DEF Inv

\* Run ends: queues whose method needs no cleanup lose their workers.
LEMMA RunEndInv == ASSUME Inv, NEW cancelled \in BOOLEAN, RunEnd(cancelled) PROVE Inv'
<1>2. st \in Memory /\ Good(st) /\ CurrentOK(st) /\ TypeOK  BY DEF Inv, Good
<1> DEFINE gone == {q \in st.created : q \notin NeedsCleanup}
           W == [q \in Queues |-> IF q \in gone THEN "none" ELSE st.worker[q]]
           C == [q \in Queues |-> IF q \in gone THEN None ELSE st.current[q]]
           O == [q \in Queues |-> IF q \in gone THEN << >> ELSE st.out[q]]
           left(it) == /\ st.entry[it] # None
                       /\ st.entry[it].queue \in gone
                       /\ st.entry[it].worker = "current"
           E == [it \in Items |-> IF left(it) THEN [st.entry[it] EXCEPT !.worker = "stale"]
                                  ELSE st.entry[it]]
<1>3. st' = [st EXCEPT !.running = FALSE, !.worker = W, !.current = C, !.out = O, !.entry = E]
  BY Zenon DEF RunEnd
<1>4. W \in [Queues -> {"none", "live", "dead"}] /\ C \in [Queues -> Items \cup {None}]
  BY <1>2 DEF Memory
<1>5. O \in [Queues -> Seq(Request)]
  <2>1. << >> \in Seq(Request)  OBVIOUS
  <2> QED  BY <1>2, <2>1 DEF Memory
<1>6. \A it \in Items :
        /\ E[it] \in Entry \cup {None}
        /\ st.entry[it] = None => E[it] = None
        /\ st.entry[it] # None =>
             /\ E[it] # None
             /\ E[it].queue = st.entry[it].queue /\ E[it].pos = st.entry[it].pos
             /\ (E[it].worker = "none") <=> (st.entry[it].worker = "none")
  <2> TAKE it \in Items
  <2>1. CASE left(it)
    <3>1. st.entry[it] \in Entry /\ E[it] = [st.entry[it] EXCEPT !.worker = "stale"]
      BY <1>2, <2>1 DEF Memory
    <3> HIDE DEF E
    <3> QED  BY <2>1, <3>1, WithWorker
  <2>2. CASE ~left(it)
    <3>1. st.entry[it] \in Entry \cup {None} /\ E[it] = st.entry[it]
      BY <1>2, <2>2 DEF Memory
    <3> HIDE DEF E
    <3> QED  BY <3>1
  <2> QED  BY <2>1, <2>2
<1>7. E \in [Items -> Entry \cup {None}]  BY <1>6
<1>8. \A q \in Queues : C[q] = None \/ C[q] = st.current[q]  OBVIOUS
<1> HIDE DEF W, C, O, E
<1>9. st' \in Memory  BY <1>2, <1>3, <1>4, <1>5, <1>7 DEF Memory
<1>10. /\ st'.stat = st.stat /\ st'.entry = E /\ st'.depth = st.depth /\ st'.maxd = st.maxd
       /\ st'.tail = st.tail /\ st'.created = st.created /\ st'.toFetch = st.toFetch
       /\ st'.born = st.born /\ st'.err = st.err /\ st'.current = C
  BY <1>2, <1>3 DEF Memory
<1>11. Alike(st, st')  BY <1>2, <1>6, <1>10 DEF Alike, Good, WorkerOK
<1>12. Good(st') /\ \A q : QItems(st', q) = QItems(st, q)  BY <1>2, <1>9, <1>11, AlikeGood
<1>13. CurrentOK(st')  BY <1>2, <1>8, <1>10, <1>12 DEF CurrentOK
<1>14. TypeOK'
  <2>1. << >> \in Seq(Request) /\ << >> \in Seq(Message)  OBVIOUS
  <2>2. meth' \in [Queues -> Seq(Request)] /\ inp' \in [Queues -> Seq(Message)]
    BY <1>2, <2>1 DEF TypeOK, RunEnd
  <2>3. alive' \in SUBSET Queues  BY <1>2 DEF TypeOK, RunEnd
  <2>4. results' \in Seq({"Continue", "Failed", "Cancelled"})
    BY <1>2 DEF TypeOK, RunEnd
  <2> QED  BY <1>9, <2>2, <2>3, <2>4 DEF TypeOK
<1> QED  BY <1>12, <1>13, <1>14 DEF Inv

\* pkgAcquire::Shutdown deletes the items; each leaves its queues.
LEMMA ShutdownInv == ASSUME Inv, Shutdown PROVE Inv'
<1>1. st \in Memory /\ Good(st) /\ TypeOK  BY DEF Inv, Good
<1> DEFINE refused == {it \in st.born : st.stat[it] = "Fetching"}
           n == st.toFetch - Cardinality(Queued(st) \ refused)
           x == st.err \/ (refused # {} /\ st.created # {})
<1>2. n \in Int
  <2>1. Queued(st) \ refused \subseteq Items  BY DEF Queued
  <2>2. IsFiniteSet(Queued(st) \ refused)  BY <2>1, Finite, FS_Subset
  <2> QED  BY <1>1, <2>2, FS_CardinalityType DEF Memory
<1>3. x \in BOOLEAN  BY <1>1 DEF Memory
<1>4. x \/ n = 0
  <2>1. CASE refused # {}
    <3>1. PICK it \in refused : TRUE  BY <2>1
    <3>2. it \in Items /\ st.stat[it] = "Fetching"  BY <1>1, <3>1 DEF Memory
    <3>3. st.entry[it] # None /\ st.entry[it].queue \in st.created
      BY <1>1, <3>2 DEF Good, WorkerOK, OrderOK
    <3> QED  BY <2>1, <3>3
  <2>2. CASE refused = {}
    <3>1. Queued(st) \ refused = Queued(st)  BY <2>2
    <3>2. st.err \/ st.toFetch = Cardinality(Queued(st))  BY <1>1 DEF Good, ToFetchOK
    <3>3. st.toFetch \in Int  BY <1>1 DEF Memory
    <3>4. n = st.toFetch - Cardinality(Queued(st))  BY <3>1
    <3>5. st.err => x  OBVIOUS
    <3> HIDE DEF n, x, refused
    <3> QED  BY <3>2, <3>3, <3>4, <3>5
  <2> QED  BY <2>1, <2>2
<1>5. st' = [st EXCEPT
               !.toFetch = n, !.err = x, !.born = {},
               !.entry = [it \in Items |-> None], !.stat = [it \in Items |-> "Idle"],
               !.left = [it \in Items |-> Retries], !.created = {},
               !.worker = [q \in Queues |-> "none"], !.current = [q \in Queues |-> None],
               !.out = [q \in Queues |-> << >>], !.tail = [q \in Queues |-> 0],
               !.depth = [q \in Queues |-> 0], !.maxd = [q \in Queues |-> 1]]
  BY <1>1 DEF Shutdown, Memory
<1> HIDE DEF n, x
<1>6. st' \in Memory
  <2>1. [q \in Queues |-> << >>] \in [Queues -> Seq(Request)]  OBVIOUS
  <2>2. [it \in Items |-> Retries] \in [Items -> Nat]  BY ConstantsOK DEF ConstantsOK
  <2>3. /\ [it \in Items |-> None] \in [Items -> Entry \cup {None}]
        /\ [it \in Items |-> "Idle"] \in [Items -> Stat]
        /\ [q \in Queues |-> "none"] \in [Queues -> {"none", "live", "dead"}]
        /\ [q \in Queues |-> None] \in [Queues -> Items \cup {None}]
        /\ [q \in Queues |-> 0] \in [Queues -> Nat] /\ [q \in Queues |-> 0] \in [Queues -> Int]
        /\ [q \in Queues |-> 1] \in [Queues -> Nat \ {0}]
    BY DEF Stat
  <2> QED  BY <1>1, <1>2, <1>3, <1>5, <2>1, <2>2, <2>3 DEF Memory
<1>7. /\ \A it \in Items : st'.entry[it] = None /\ st'.stat[it] = "Idle"
      /\ \A q \in Queues : st'.depth[q] = 0 /\ st'.maxd[q] = 1 /\ st'.current[q] = None
      /\ st'.toFetch = n /\ st'.err = x
  BY <1>1, <1>5 DEF Memory
<1>8. Queued(st') = {} /\ \A q : Fetching(st', q) = {}
  BY <1>7 DEF Queued, QItems, Fetching
<1>9. Cardinality({}) = 0  BY FS_EmptySet
<1>10. Good(st')
  BY <1>4, <1>6, <1>7, <1>8, <1>9
  DEF Good, DepthOK, MaxdOK, WorkerOK, OrderOK, ToFetchOK, BornOK
<1>11. TypeOK'
  <2>1. [q \in Queues |-> << >>] \in [Queues -> Seq(Request)]
        /\ [q \in Queues |-> << >>] \in [Queues -> Seq(Message)]
    OBVIOUS
  <2> QED  BY <1>1, <1>6, <2>1 DEF TypeOK, Shutdown
<1> QED  BY <1>7, <1>10, <1>11 DEF Inv, CurrentOK

\* The message queues after one message was handled.
LEMMA TakeType ==
    ASSUME TypeOK, NEW q \in Queues, Take(q)
    PROVE  /\ inp' \in [Queues -> Seq(Message)] /\ meth' \in [Queues -> Seq(Request)]
           /\ results' \in Seq({"Continue", "Failed", "Cancelled"})
           /\ Head(inp[q]) \in Message
<1>1. inp[q] \in Seq(Message) /\ inp[q] # << >>  BY DEF TypeOK, Take
<1>2. Tail(inp[q]) \in Seq(Message) /\ Head(inp[q]) \in Message  BY <1>1
<1> QED  BY <1>2 DEF TypeOK, Take

\* 201 and 400: ItemDone, then the owner dequeues, or queues another URI.
LEMMA AnswerInv ==
    ASSUME Inv, NEW q \in Queues, NEW kind, NEW finals \in SUBSET {"Done", "Error", "Idle"},
           Answer(q, kind, finals)
    PROVE  Inv'
<1>1. st \in Memory /\ Good(st) /\ CurrentOK(st) /\ TypeOK /\ Take(q)
  BY DEF Inv, Good, Answer
<1> DEFINE m == Head(inp[q])
           it == FindItem(st, q, m.uri)
<1>2. Good(st') /\ CurrentOK(st')
  <2>1. CASE it = None
    <3>1. st' = [st EXCEPT !.err = TRUE]  BY <2>1 DEF Answer
    <3>2. st' \in Memory  BY <1>1, <3>1 DEF Memory
    <3>3. /\ st'.stat = st.stat /\ st'.entry = st.entry /\ st'.depth = st.depth
          /\ st'.maxd = st.maxd /\ st'.tail = st.tail /\ st'.created = st.created
          /\ st'.toFetch = st.toFetch /\ st'.born = st.born /\ st'.err = TRUE
          /\ st'.current = st.current
      BY <1>1, <3>1 DEF Memory
    <3>4. Alike(st, st')  BY <1>1, <3>3 DEF Alike, Good, WorkerOK
    <3>5. Good(st') /\ \A p : QItems(st', p) = QItems(st, p)  BY <1>1, <3>2, <3>4, AlikeGood
    <3> QED  BY <1>1, <3>3, <3>5 DEF CurrentOK
  <2>2. CASE it # None
    <3> DEFINE done == ItemDone(st, q, it)
    <3>1. PICK u \in (IF st.left[it] > 0 THEN URIs ELSE {}) \cup {None},
               ok \in BOOLEAN, up \in {{}, Queues} :
            \E s \in Owner(done, it, finals, u, ok, up) : st' = WorkerItemDone(s, q)
      BY <2>2 DEF Answer
    <3>2. PICK s \in Owner(done, it, finals, u, ok, up) : st' = WorkerItemDone(s, q)
      BY <3>1
    <3>3. it \in Fetching(st, q) /\ it \in Items  BY <1>1, <2>2, FindItemFetching
    <3> HIDE DEF it
    <3>4. /\ Good(done) /\ Queued(done) = Queued(st) \ {it}
          /\ \A p : QItems(done, p) = QItems(st, p) \ {it}
          /\ done.current = st.current /\ done.born = st.born /\ done.left = st.left
      BY <1>1, <3>3, ItemDoneGood
    <3>5. it \in done.born /\ done.entry[it] = None
      BY <1>1, <3>3, <3>4 DEF Queued, Good, BornOK, Fetching, QItems
    <3>6. u # None => u \in URIs /\ done.left[it] > 0  BY <3>1, <3>4
    <3> HIDE DEF done
    <3>7. /\ Good(s) /\ s.current = done.current
          /\ \A p : QItems(done, p) \subseteq QItems(s, p)
      <4>1. Good(done) /\ it \in done.born /\ done.entry[it] = None  BY <3>4, <3>5
      <4>2. "Fetching" \notin finals /\ finals \subseteq Stat  BY DEF Stat
      <4>3. s \in Owner(done, it, finals, u, ok, up)  BY <3>2
      <4>4. Good(s) /\ Grown(done, s)  BY <3>6, <4>1, <4>2, <4>3, OwnerGood
      <4> QED  BY <4>4 DEF Grown
    <3> DEFINE C == [s.current EXCEPT ![q] = None]
    <3>8. st' = [s EXCEPT !.current = C]  BY <3>2 DEF WorkerItemDone
    <3>9. s \in Memory  BY <3>7 DEF Good
    <3>10. s.current \in [Queues -> Items \cup {None}]  BY <3>9 DEF Memory
    <3>11. C \in [Queues -> Items \cup {None}] /\ C[q] = None
           /\ \A p \in Queues : p # q => C[p] = s.current[p]
      BY <3>10
    <3> HIDE DEF C
    <3>12. st' \in Memory  BY <3>8, <3>9, <3>11 DEF Memory
    <3>13. /\ st'.stat = s.stat /\ st'.entry = s.entry /\ st'.depth = s.depth
           /\ st'.maxd = s.maxd /\ st'.tail = s.tail /\ st'.created = s.created
           /\ st'.toFetch = s.toFetch /\ st'.born = s.born /\ st'.err = s.err
           /\ st'.current = C
      BY <3>8, <3>9 DEF Memory
    <3>14. Alike(s, st')  BY <3>7, <3>13 DEF Alike, Good, WorkerOK
    <3>15. Good(st') /\ \A p : QItems(st', p) = QItems(s, p)
      BY <3>7, <3>12, <3>14, AlikeGood
    <3>16. CurrentOK(st')
      <4> SUFFICES ASSUME NEW p \in Queues, st'.current[p] # None
                   PROVE  st'.current[p] \in QItems(st', p)
        BY DEF CurrentOK
      <4>1. p # q /\ st'.current[p] = st.current[p]  BY <3>4, <3>7, <3>11, <3>13
      <4>2. st.current[p] \in QItems(st, p)  BY <1>1, <4>1 DEF CurrentOK
      <4>3. it \notin QItems(st, p)  BY <3>3, <4>1 DEF Fetching, QItems
      <4> QED  BY <3>4, <3>7, <3>15, <4>1, <4>2, <4>3
    <3> QED  BY <3>15, <3>16
  <2> QED  BY <2>1, <2>2
<1>3. alive' \in SUBSET Queues  BY <1>1 DEF Answer, TypeOK, Spawned
<1>4. TypeOK'  BY <1>1, <1>2, <1>3, TakeType DEF TypeOK, Good
<1> QED  BY <1>2, <1>4 DEF Inv

\* 200 makes the item that FindItem finds the current one of its worker.
LEMMA URIStartInv == ASSUME Inv, NEW q \in Queues, URIStart(q) PROVE Inv'
<1>1. st \in Memory /\ Good(st) /\ CurrentOK(st) /\ TypeOK /\ Take(q) /\ alive' = alive
  BY DEF Inv, Good, URIStart
<1> DEFINE it == FindItem(st, q, Head(inp[q]).uri)
<1>2. Good(st') /\ CurrentOK(st')
  <2>1. CASE it = None
    <3>1. st' = [st EXCEPT !.err = TRUE]  BY <2>1 DEF URIStart
    <3>2. st' \in Memory  BY <1>1, <3>1 DEF Memory
    <3>3. /\ st'.stat = st.stat /\ st'.entry = st.entry /\ st'.depth = st.depth
          /\ st'.maxd = st.maxd /\ st'.tail = st.tail /\ st'.created = st.created
          /\ st'.toFetch = st.toFetch /\ st'.born = st.born /\ st'.err = TRUE
          /\ st'.current = st.current
      BY <1>1, <3>1 DEF Memory
    <3>4. Alike(st, st')  BY <1>1, <3>3 DEF Alike, Good, WorkerOK
    <3>5. Good(st') /\ \A p : QItems(st', p) = QItems(st, p)  BY <1>1, <3>2, <3>4, AlikeGood
    <3> QED  BY <1>1, <3>3, <3>5 DEF CurrentOK
  <2>2. CASE it # None
    <3>1. it \in Items /\ it \in Fetching(st, q)  BY <1>1, <2>2, FindItemFetching
    <3>2. it \in QItems(st, q) /\ st.stat[it] = "Fetching"  BY <3>1 DEF Fetching
    <3>3. st' = [st EXCEPT !.current[q] = it, !.stat[it] = "Fetching"]
      BY <2>2 DEF URIStart
    <3> HIDE DEF it
    <3> DEFINE C == [st.current EXCEPT ![q] = it]
               S == [st.stat EXCEPT ![it] = "Fetching"]
    <3>4. st' = [st EXCEPT !.current = C, !.stat = S]  BY <1>1, <3>3 DEF Memory
    <3>5. st.current \in [Queues -> Items \cup {None}] /\ st.stat \in [Items -> Stat]
          /\ "Fetching" \in Stat
      BY <1>1 DEF Memory, Stat
    <3>6. C \in [Queues -> Items \cup {None}] /\ S \in [Items -> Stat]
      BY <3>1, <3>5
    <3>7. \A p \in Queues : C[p] = IF p = q THEN it ELSE st.current[p]  BY <3>5
    <3>8. S = st.stat  BY <3>1, <3>2, <3>5
    <3> HIDE DEF C, S
    <3>9. st' \in Memory  BY <1>1, <3>4, <3>6 DEF Memory
    <3>10. /\ st'.stat = st.stat /\ st'.entry = st.entry /\ st'.depth = st.depth
           /\ st'.maxd = st.maxd /\ st'.tail = st.tail /\ st'.created = st.created
           /\ st'.toFetch = st.toFetch /\ st'.born = st.born /\ st'.err = st.err
           /\ st'.current = C
      BY <1>1, <3>4, <3>8 DEF Memory
    <3>11. Alike(st, st')  BY <1>1, <3>10 DEF Alike, Good, WorkerOK
    <3>12. Good(st') /\ \A p : QItems(st', p) = QItems(st, p)
      BY <1>1, <3>9, <3>11, AlikeGood
    <3> QED  BY <1>1, <3>2, <3>7, <3>10, <3>12 DEF CurrentOK
  <2> QED  BY <2>1, <2>2
<1>3. TypeOK'  BY <1>1, <1>2, TakeType DEF TypeOK, Good
<1> QED  BY <1>2, <1>3 DEF Inv

\* 103 changes the URI of an item and clears CurrentItem.
LEMMA RedirectInv == ASSUME Inv, NEW q \in Queues, Redirect(q) PROVE Inv'
<1>1. st \in Memory /\ Good(st) /\ CurrentOK(st) /\ TypeOK /\ Take(q) /\ alive' = alive
  BY DEF Inv, Good, Redirect
<1> DEFINE m == Head(inp[q])
           it == FindItem(st, q, m.uri)
<1>2. Good(st') /\ CurrentOK(st')
  <2>1. CASE it = None
    <3>1. st' = [st EXCEPT !.err = TRUE]  BY <2>1 DEF Redirect
    <3>2. st' \in Memory  BY <1>1, <3>1 DEF Memory
    <3>3. /\ st'.stat = st.stat /\ st'.entry = st.entry /\ st'.depth = st.depth
          /\ st'.maxd = st.maxd /\ st'.tail = st.tail /\ st'.created = st.created
          /\ st'.toFetch = st.toFetch /\ st'.born = st.born /\ st'.err = TRUE
          /\ st'.current = st.current
      BY <1>1, <3>1 DEF Memory
    <3>4. Alike(st, st')  BY <1>1, <3>3 DEF Alike, Good, WorkerOK
    <3>5. Good(st') /\ \A p : QItems(st', p) = QItems(st, p)  BY <1>1, <3>2, <3>4, AlikeGood
    <3> QED  BY <1>1, <3>3, <3>5 DEF CurrentOK
  <2>2. CASE it # None
    <3>1. it \in Items /\ st.entry[it] \in Entry  BY <1>1, <2>2, FindItemFetching
    <3>2. m.to \in URIs  BY <1>1, TakeType DEF Message
    <3>3. st' = [st EXCEPT !.entry[it].uri = m.to]  BY <2>2 DEF Redirect
    <3> HIDE DEF it, m
    <3> DEFINE e == [st.entry[it] EXCEPT !.uri = m.to]
               E == [st.entry EXCEPT ![it] = e]
    <3>4. /\ e \in Entry /\ e # None /\ e.queue = st.entry[it].queue
          /\ e.pos = st.entry[it].pos /\ e.worker = st.entry[it].worker
      BY <3>1, <3>2, NoneIsNoEntry DEF Entry
    <3>5. st' = [st EXCEPT !.entry = E]  BY <1>1, <3>3 DEF Memory
    <3> HIDE DEF e
    <3>6. st.entry \in [Items -> Entry \cup {None}]  BY <1>1 DEF Memory
    <3>7. E \in [Items -> Entry \cup {None}]  BY <3>4, <3>6
    <3>8. \A x \in Items : E[x] = IF x = it THEN e ELSE st.entry[x]  BY <3>6
    <3> HIDE DEF E
    <3>9. st' \in Memory  BY <1>1, <3>5, <3>7 DEF Memory
    <3>10. /\ st'.stat = st.stat /\ st'.entry = E /\ st'.depth = st.depth
           /\ st'.maxd = st.maxd /\ st'.tail = st.tail /\ st'.created = st.created
           /\ st'.toFetch = st.toFetch /\ st'.born = st.born /\ st'.err = st.err
           /\ st'.current = st.current
      BY <1>1, <3>5 DEF Memory
    <3>11. st.entry[it] # None  BY <3>1, NoneIsNoEntry
    <3>12. Alike(st, st')  BY <1>1, <3>4, <3>8, <3>10, <3>11 DEF Alike, Good, WorkerOK
    <3>13. Good(st') /\ \A p : QItems(st', p) = QItems(st, p)
      BY <1>1, <3>9, <3>12, AlikeGood
    <3> QED  BY <1>1, <3>10, <3>13 DEF CurrentOK
  <2> QED  BY <2>1, <2>2
<1>3. TypeOK'  BY <1>1, <1>2, TakeType DEF TypeOK, Good
<1> QED  BY <1>2, <1>3 DEF Inv

\* The method died: the worker goes, the items keep their status.
LEMMA MethodFailureInv == ASSUME Inv, NEW q \in Queues, MethodFailure(q) PROVE Inv'
<1>1. st \in Memory /\ Good(st) /\ CurrentOK(st) /\ TypeOK  BY DEF Inv, Good
<1> DEFINE W == [st.worker EXCEPT ![q] = "dead"]
           O == [st.out EXCEPT ![q] = << >>]
<1>2. st' = [st EXCEPT !.worker = W, !.out = O, !.err = TRUE]
  BY <1>1 DEF MethodFailure, Memory
<1>3. W \in [Queues -> {"none", "live", "dead"}] /\ O \in [Queues -> Seq(Request)]
  <2>1. /\ st.worker \in [Queues -> {"none", "live", "dead"}]
        /\ st.out \in [Queues -> Seq(Request)] /\ << >> \in Seq(Request)
    BY <1>1 DEF Memory
  <2> QED  BY <2>1
<1> HIDE DEF W, O
<1>4. st' \in Memory  BY <1>1, <1>2, <1>3 DEF Memory
<1>5. /\ st'.stat = st.stat /\ st'.entry = st.entry /\ st'.depth = st.depth
      /\ st'.maxd = st.maxd /\ st'.tail = st.tail /\ st'.created = st.created
      /\ st'.toFetch = st.toFetch /\ st'.born = st.born /\ st'.err = TRUE
      /\ st'.current = st.current
  BY <1>1, <1>2 DEF Memory
<1>6. Alike(st, st')  BY <1>1, <1>5 DEF Alike, Good, WorkerOK
<1>7. Good(st') /\ \A p : QItems(st', p) = QItems(st, p)  BY <1>1, <1>4, <1>6, AlikeGood
<1>8. CurrentOK(st')  BY <1>1, <1>5, <1>7 DEF CurrentOK
<1>9. TypeOK'
  <2>1. << >> \in Seq(Message)  OBVIOUS
  <2> QED  BY <1>1, <1>4, <2>1 DEF TypeOK, MethodFailure
<1> QED  BY <1>7, <1>8, <1>9 DEF Inv

\* The method takes what the worker wrote; the items are not concerned.
LEMMA MethodReadInv == ASSUME Inv, NEW q \in Queues, MethodRead(q) PROVE Inv'
<1>1. st \in Memory /\ Good(st) /\ CurrentOK(st) /\ TypeOK  BY DEF Inv, Good
<1>2. /\ st.out \in [Queues -> Seq(Request)] /\ st.out[q] # << >>
      /\ meth \in [Queues -> Seq(Request)]
  BY <1>1 DEF Memory, TypeOK, MethodRead
<1>3. Head(st.out[q]) \in Request /\ Tail(st.out[q]) \in Seq(Request)  BY <1>2
<1>4. meth' \in [Queues -> Seq(Request)]
  <2>1. Append(meth[q], Head(st.out[q])) \in Seq(Request)  BY <1>2, <1>3
  <2> QED  BY <1>2, <2>1 DEF MethodRead
<1> DEFINE O == [st.out EXCEPT ![q] = Tail(@)]
<1>5. st' = [st EXCEPT !.out = O]  BY <1>1 DEF MethodRead, Memory
<1>6. O \in [Queues -> Seq(Request)]  BY <1>2, <1>3
<1> HIDE DEF O
<1>7. st' \in Memory  BY <1>1, <1>5, <1>6 DEF Memory
<1>8. /\ st'.stat = st.stat /\ st'.entry = st.entry /\ st'.depth = st.depth
      /\ st'.maxd = st.maxd /\ st'.tail = st.tail /\ st'.created = st.created
      /\ st'.toFetch = st.toFetch /\ st'.born = st.born /\ st'.err = st.err
      /\ st'.current = st.current
  BY <1>1, <1>5 DEF Memory
<1>9. Alike(st, st')  BY <1>1, <1>8 DEF Alike, Good, WorkerOK
<1>10. Good(st') /\ \A p : QItems(st', p) = QItems(st, p)  BY <1>1, <1>7, <1>9, AlikeGood
<1>11. CurrentOK(st')  BY <1>1, <1>8, <1>10 DEF CurrentOK
<1>12. TypeOK'  BY <1>1, <1>4, <1>7 DEF TypeOK, MethodRead
<1> QED  BY <1>10, <1>11, <1>12 DEF Inv

\* A message of a method is well formed.
LEMMA SayType ==
    ASSUME TypeOK, NEW q \in Queues, meth[q] # << >>,
           NEW kind \in {"start", "done", "fail", "redirect"}, NEW to \in URIs,
           Say(q, kind, to)
    PROVE  inp' \in [Queues -> Seq(Message)]
<1>1. Head(meth[q]) \in Request  BY DEF TypeOK
<1> DEFINE m == [kind |-> kind, uri |-> Head(meth[q]).uri, file |-> Head(meth[q]).file,
                 to |-> to]
<1>2. m \in Message  BY <1>1 DEF Request, Message
<1>3. inp' = [inp EXCEPT ![q] = Append(@, m)]  BY DEF Say
<1> HIDE DEF m
<1>4. Append(inp[q], m) \in Seq(Message)  BY <1>2 DEF TypeOK
<1> QED  BY <1>3, <1>4 DEF TypeOK

\* What a method says changes none of the items.
LEMMA MethodInv ==
    ASSUME Inv, NEW q \in Queues,
           MethodStart(q) \/ MethodAnswer(q) \/ MethodRedirect(q) \/ MethodDie(q)
    PROVE  Inv'
<1>1. TypeOK /\ Good(st) /\ CurrentOK(st)  BY DEF Inv
<1>2. st' = st /\ results' = results
  BY DEF MethodStart, MethodAnswer, MethodRedirect, MethodDie
<1>3. alive' \in SUBSET Queues
  BY <1>1 DEF TypeOK, MethodStart, MethodAnswer, MethodRedirect, MethodDie
<1>4. meth' \in [Queues -> Seq(Request)] /\ inp' \in [Queues -> Seq(Message)]
  <2>0. meth \in [Queues -> Seq(Request)] /\ inp \in [Queues -> Seq(Message)]
    BY <1>1 DEF TypeOK
  <2>1. CASE MethodStart(q)
    <3>1. meth[q] # << >> /\ Head(meth[q]) \in Request /\ meth[q] \in Seq(Request)
      BY <2>0, <2>1 DEF MethodStart
    <3>2. Head(meth[q]).uri \in URIs  BY <3>1 DEF Request
    <3>3. Say(q, "start", Head(meth[q]).uri)  BY <2>1 DEF MethodStart
    <3>4. inp' \in [Queues -> Seq(Message)]  BY <1>1, <3>1, <3>2, <3>3, SayType
    <3> DEFINE r == [meth[q][1] EXCEPT !.begun = TRUE]
    <3>5. r \in Request /\ 1 \in DOMAIN meth[q]
      <4>1. meth[q][1] \in Request /\ 1 \in DOMAIN meth[q]  BY <3>1
      <4>2. r \in Request  BY <4>1 DEF Request
      <4> QED  BY <4>1, <4>2
    <3>6. [meth[q] EXCEPT ![1] = r] \in Seq(Request)
      <4> HIDE DEF r
      <4> QED  BY <3>1, <3>5
    <3>7. meth' = [meth EXCEPT ![q] = [meth[q] EXCEPT ![1] = r]]
      BY <2>1 DEF MethodStart
    <3> HIDE DEF r
    <3>8. meth' \in [Queues -> Seq(Request)]  BY <2>0, <3>6, <3>7
    <3> QED  BY <3>4, <3>8
  <2>2. CASE MethodAnswer(q)
    <3>1. meth[q] # << >> /\ Head(meth[q]) \in Request /\ Tail(meth[q]) \in Seq(Request)
      BY <2>0, <2>2 DEF MethodAnswer
    <3>2. Head(meth[q]).uri \in URIs  BY <3>1 DEF Request
    <3>3. PICK kind \in {"done", "fail"} : Say(q, kind, Head(meth[q]).uri)
      BY <2>2 DEF MethodAnswer
    <3>4. inp' \in [Queues -> Seq(Message)]  BY <1>1, <3>1, <3>2, <3>3, SayType
    <3>5. meth' \in [Queues -> Seq(Request)]  BY <2>0, <2>2, <3>1 DEF MethodAnswer
    <3> QED  BY <3>4, <3>5
  <2>3. CASE MethodRedirect(q)
    <3>0. meth[q] # << >>  BY <2>3 DEF MethodRedirect
    <3>1. Head(meth[q]) \in Request /\ Tail(meth[q]) \in Seq(Request)
      BY <2>0, <3>0
    <3>2. PICK u \in URIs \ {Head(meth[q]).uri} :
            /\ Say(q, "redirect", u)
            /\ meth' = [meth EXCEPT ![q] =
                          Append(Tail(@), [uri |-> u, file |-> Head(@).file,
                                           begun |-> Head(@).begun, hops |-> Head(@).hops + 1])]
      BY <2>3 DEF MethodRedirect
    <3>3. inp' \in [Queues -> Seq(Message)]  BY <1>1, <3>0, <3>2, SayType
    <3> DEFINE h == Head(meth[q])
               r == [uri |-> u, file |-> h.file, begun |-> h.begun, hops |-> h.hops + 1]
    <3>4. r \in Request
      <4> HIDE DEF h
      <4> QED  BY <3>1 DEF Request, h
    <3>5. meth' = [meth EXCEPT ![q] = Append(Tail(meth[q]), r)]  BY <3>2
    <3> HIDE DEF r
    <3>6. Append(Tail(meth[q]), r) \in Seq(Request)  BY <3>1, <3>4
    <3> QED  BY <2>0, <3>3, <3>5, <3>6
  <2>4. CASE MethodDie(q)
    <3>1. << >> \in Seq(Request)  OBVIOUS
    <3> QED  BY <2>0, <2>4, <3>1 DEF MethodDie
  <2> QED  BY <2>1, <2>2, <2>3, <2>4
<1> QED  BY <1>1, <1>2, <1>3, <1>4 DEF Inv, TypeOK

\* One case per action.
LEMMA StepInv == Inv /\ [Next]_vars => Inv'
<1> SUFFICES ASSUME Inv, [Next]_vars PROVE Inv'  OBVIOUS
<1>1. ASSUME NEW it \in Items, Construct(it) PROVE Inv'  BY <1>1, ConstructInv
<1>2. CASE RunStart  BY <1>2, RunStartInv
<1>3. CASE RunFinish  BY <1>3, RunEndInv DEF RunFinish
<1>4. CASE RunAbort  BY <1>4, RunEndInv DEF RunAbort
<1>5. CASE RunCancel  BY <1>5, RunEndInv DEF RunCancel
<1>6. CASE Shutdown  BY <1>6, ShutdownInv
<1>7. ASSUME NEW q \in Queues, APT(q) PROVE Inv'
  <2>1. CASE URIDone(q)  BY <2>1, AnswerInv DEF URIDone
  <2>2. CASE URIFailure(q)  BY <2>2, AnswerInv DEF URIFailure
  <2>3. CASE URIStart(q)  BY <2>3, URIStartInv
  <2>4. CASE Redirect(q)  BY <2>4, RedirectInv
  <2>5. CASE MethodFailure(q)  BY <2>5, MethodFailureInv
  <2> QED  BY <1>7, <2>1, <2>2, <2>3, <2>4, <2>5 DEF APT
<1>8. ASSUME NEW q \in Queues, Method(q) \/ MethodDie(q) PROVE Inv'
  BY <1>8, MethodReadInv, MethodInv DEF Method
<1>9. CASE UNCHANGED vars \/ Stop
  BY <1>9 DEF vars, Stop, Inv, TypeOK
<1> QED  BY <1>1, <1>2, <1>3, <1>4, <1>5, <1>6, <1>7, <1>8, <1>9 DEF Next

\* The invariant is inductive.
LEMMA Invariance == Spec => []Inv
BY InitInv, StepInv, PTL DEF Spec

-----------------------------------------------------------------------------
(* The theorems.                                                           *)

\* The fetcher's memory and pipes keep their types in every behaviour.
THEOREM TypeCorrect == Spec => []TypeOK
<1>1. Inv => TypeOK  BY DEF Inv
<1> QED  BY <1>1, Invariance, PTL

\* ToFetch and PipeDepth are exact in every behaviour: whatever the answers,
\* failures, redirects, deaths, cancels and restarts, Queue::ItemDone,
\* Queue::Cycle, Queue::Enqueue, Queue::Dequeue and Queue::Startup between
\* them count each item once.
THEOREM Counters == Spec => []CountersExact
<1>1. Inv => CountersExact  BY DEF Inv, Good, DepthOK, ToFetchOK, CountersExact
<1> QED  BY <1>1, Invariance, PTL

\* A worker's CurrentItem is on its queue's list in every behaviour, so
\* pkgAcquire::Worker::Pulse never follows a pointer to a deleted QItem.
THEOREM CurrentItems == Spec => []CurrentItemAlive
<1>1. Inv => CurrentItemAlive  BY DEF Inv, CurrentOK, CurrentItemAlive
<1> QED  BY <1>1, Invariance, PTL
=============================================================================
