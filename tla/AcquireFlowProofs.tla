--------------------------- MODULE AcquireFlowProofs ---------------------------
(***************************************************************************)
(* Theorems about the work that is on its way between the queues of        *)
(* Acquire and their methods: no queue with items is left without a        *)
(* request while Run is on, a Run that reports success left nothing        *)
(* behind, and the first pass of Cycle goes to the preferred items.        *)
(***************************************************************************)
EXTENDS AcquireProofs, SequenceTheorems

-----------------------------------------------------------------------------
(* The handlers as steps on the memory of the process.                     *)

\* t has the lists, pipes and counters of s.
Same(s, t) ==
    /\ Beside(s, t) /\ t.depth = s.depth /\ t.created = s.created /\ t.entry = s.entry
    /\ (s.err => t.err) /\ t.err \in BOOLEAN
    /\ \A x \in Queued(s) : t.stat[x] = s.stat[x]

\* t is s after what an item's owner does with its answer.
Owned(s, it, t) ==
    \/ Same(s, t)
    \/ \E u, up, f : u \in URIs /\ Accepted(s, it, QueueOf[u], u, up, f) /\ Good(f) /\ Same(f, t)

\* t is s after the answer of the item it of the queue q.
Answered(s, q, it, t) ==
    \E c, b : Finished(s, q, it, c) /\ Good(c) /\ Same(c, b) /\ Good(b) /\ Owned(b, it, t)

\* The memory s becomes t when an item's owner takes its answer, u the URI it enqueues.
Handed(s, it, u, up, t) ==
    \/ Same(s, t)
    \/ \E b, f : /\ Same(s, b) /\ Good(b) /\ u \in URIs
                 /\ Accepted(b, it, QueueOf[u], u, up, f) /\ Good(f) /\ t = f

\* The lists are the same sets.
LEMMA SameSets ==
    ASSUME NEW s, NEW t, Same(s, t)
    PROVE  /\ Queued(t) = Queued(s)
           /\ \A q : /\ QItems(t, q) = QItems(s, q) /\ Idle(t, q) = Idle(s, q)
                     /\ Fetching(t, q) = Fetching(s, q) /\ PreferredIdle(t, q) = PreferredIdle(s, q)
<1>1. Queued(t) = Queued(s)  BY DEF Same, Queued
<1>2. \A q : QItems(t, q) = QItems(s, q)  BY <1>1 DEF Same, QItems
<1>3. \A q : Idle(t, q) = Idle(s, q) /\ Fetching(t, q) = Fetching(s, q)
  BY <1>2 DEF Same, Idle, Fetching, QItems
<1>4. \A q : PreferredIdle(t, q) = PreferredIdle(s, q)  BY <1>3 DEF Same, PreferredIdle
<1> QED  BY <1>1, <1>2, <1>3, <1>4

\* Steps of this kind compose.
LEMMA SameTwice ==
    ASSUME NEW s, NEW t, NEW r, Same(s, t), Same(t, r)
    PROVE  Same(s, r)
BY SameSets DEF Same, Beside

\* The owner's part of an answer.
LEMMA OwnerDoes ==
    ASSUME NEW s, Good(s), NEW it \in s.born, s.entry[it] = None,
           NEW finals, "Fetching" \notin finals, finals \subseteq Stat,
           NEW u, u # None => u \in URIs /\ s.left[it] > 0,
           NEW ok, NEW up, NEW t, t \in Owner(s, it, finals, u, ok, up)
    PROVE  Handed(s, it, u, up, t)
<1>1. s \in Memory /\ it \in Items  BY DEF Good, Memory
<1>2. CASE u = None
  <2>1. PICK x \in finals : t = [s EXCEPT !.stat[it] = x]  BY <1>2 DEF Owner
  <2>2. /\ t.entry = s.entry /\ t.depth = s.depth /\ t.maxd = s.maxd
        /\ t.created = s.created /\ t.err = s.err /\ t.worker = s.worker /\ t.out = s.out
        /\ t.pref = s.pref /\ t.running = s.running /\ t.err \in BOOLEAN
        /\ \A y \in Items : y # it => t.stat[y] = s.stat[y]
    BY <1>1, <2>1 DEF Memory
  <2>3. Same(s, t)  BY <2>2 DEF Same, Beside, Queued
  <2> QED  BY <2>3 DEF Handed
<1>3. CASE u # None
  <2> DEFINE w == [s EXCEPT !.left[it] = @ - 1]
             L == [s.left EXCEPT ![it] = @ - 1]
  <2>1. t = Enqueue(w, it, u, ok, up)  BY <1>3 DEF Owner
  <2>2. L \in [Items -> Nat]
    <3>1. s.left \in [Items -> Nat] /\ s.left[it] > 0  BY <1>1, <1>3 DEF Memory
    <3> QED  BY <1>1, <3>1
  <2>3. w = [s EXCEPT !.left = L]  BY <1>1 DEF Memory
  <2> HIDE DEF L, w
  <2>4. w \in Memory  BY <1>1, <2>2, <2>3 DEF Memory
  <2>5. /\ w.stat = s.stat /\ w.entry = s.entry /\ w.depth = s.depth /\ w.maxd = s.maxd
        /\ w.tail = s.tail /\ w.created = s.created /\ w.toFetch = s.toFetch
        /\ w.born = s.born /\ w.err = s.err /\ w.worker = s.worker /\ w.out = s.out
        /\ w.pref = s.pref /\ w.running = s.running /\ s.err \in BOOLEAN
    BY <1>1, <2>3 DEF Memory
  <2>6. Alike(s, w)  BY <2>5 DEF Alike, Good, WorkerOK
  <2>7. Good(w)  BY <2>4, <2>6, AlikeGood
  <2>8. it \in w.born /\ w.entry[it] = None /\ u \in URIs  BY <1>3, <2>5
  <2>9. Good(t) /\ (Refused(w, t) \/ Accepted(w, it, QueueOf[u], u, up, t))
    BY <2>1, <2>7, <2>8, EnqueueSteps
  <2>10. Same(s, w)  BY <2>5 DEF Same, Beside
  <2>11. CASE Refused(w, t)
    <3>1. Same(w, t)  BY <2>11 DEF Same, Refused
    <3>2. Same(s, t)  BY <2>10, <3>1, SameTwice
    <3> QED  BY <3>2 DEF Handed
  <2>12. CASE Accepted(w, it, QueueOf[u], u, up, t)
    BY <2>7, <2>8, <2>9, <2>10, <2>12 DEF Handed
  <2> QED  BY <2>9, <2>11, <2>12
<1> QED  BY <1>2, <1>3

\* 201 and 400 as steps.
LEMMA AnswerDoes ==
    ASSUME Inv, NEW q \in Queues, NEW kind, NEW finals \in SUBSET {"Done", "Error", "Idle"},
           Answer(q, kind, finals), NEW it, it = FindItem(st, q, Head(inp[q]).uri)
    PROVE  \/ it = None /\ Same(st, st') /\ st'.err = TRUE
           \/ it \in Fetching(st, q) /\ Answered(st, q, it, st')
<1>1. st \in Memory /\ Good(st)  BY DEF Inv, Good
<1>2. CASE it = None
  <2>1. st' = [st EXCEPT !.err = TRUE]  BY <1>2 DEF Answer
  <2>2. /\ st'.entry = st.entry /\ st'.stat = st.stat /\ st'.depth = st.depth
        /\ st'.maxd = st.maxd /\ st'.created = st.created /\ st'.err = TRUE
        /\ st'.worker = st.worker /\ st'.out = st.out /\ st'.pref = st.pref
        /\ st'.running = st.running
    BY <1>1, <2>1 DEF Memory
  <2> QED  BY <1>2, <2>2 DEF Same, Beside
<1>3. CASE it # None
  <2> DEFINE done == ItemDone(st, q, it)
  <2>1. PICK u \in (IF st.left[it] > 0 THEN URIs ELSE {}) \cup {None},
             ok \in BOOLEAN, up \in {{}, Queues} :
          \E s \in Owner(done, it, finals, u, ok, up) : st' = WorkerItemDone(s, q)
    BY <1>3 DEF Answer
  <2>2. PICK s \in Owner(done, it, finals, u, ok, up) : st' = WorkerItemDone(s, q)
    BY <2>1
  <2>3. it \in Fetching(st, q) /\ it \in Items  BY <1>1, <1>3, FindItemFetching
  <2>4. /\ Good(done) /\ Queued(done) = Queued(st) \ {it}
        /\ done.born = st.born /\ done.left = st.left /\ Finished(st, q, it, done)
    BY <1>1, <2>3, ItemDoneSteps
  <2>5. it \in done.born /\ done.entry[it] = None
    BY <1>1, <2>3, <2>4 DEF Queued, Good, BornOK, Fetching, QItems
  <2>6. u # None => u \in URIs /\ done.left[it] > 0  BY <2>1, <2>4
  <2> HIDE DEF done
  <2>7. "Fetching" \notin finals /\ finals \subseteq Stat  BY DEF Stat
  <2>8. Good(s) /\ Handed(done, it, u, up, s)
    <3>1. Good(s)  BY <2>2, <2>4, <2>5, <2>6, <2>7, OwnerGood
    <3>2. Handed(done, it, u, up, s)  BY <2>2, <2>4, <2>5, <2>6, <2>7, OwnerDoes
    <3> QED  BY <3>1, <3>2
  <2>9. s \in Memory  BY <2>8 DEF Good
  <2>10. /\ st'.entry = s.entry /\ st'.stat = s.stat /\ st'.depth = s.depth
         /\ st'.maxd = s.maxd /\ st'.created = s.created /\ st'.err = s.err
         /\ st'.worker = s.worker /\ st'.out = s.out /\ st'.pref = s.pref
         /\ st'.running = s.running /\ s.err \in BOOLEAN
    BY <2>2, <2>9 DEF WorkerItemDone, Memory
  <2>11. Same(s, st')  BY <2>10 DEF Same, Beside
  <2>12. done \in Memory  BY <2>4 DEF Good
  <2>13. Same(done, done)  BY <2>12 DEF Same, Beside, Memory
  <2>14. CASE Same(done, s)
    <3>1. Same(done, st')  BY <2>11, <2>14, SameTwice
    <3> QED  BY <2>3, <2>4, <2>13, <3>1 DEF Answered, Owned
  <2>15. CASE \E b, f : /\ Same(done, b) /\ Good(b) /\ u \in URIs
                        /\ Accepted(b, it, QueueOf[u], u, up, f) /\ Good(f) /\ s = f
    <3>1. PICK b, f : /\ Same(done, b) /\ Good(b) /\ u \in URIs
                      /\ Accepted(b, it, QueueOf[u], u, up, f) /\ Good(f) /\ s = f
      BY <2>15
    <3>2. Owned(b, it, st')  BY <2>11, <3>1 DEF Owned
    <3> QED  BY <2>3, <2>4, <3>1, <3>2 DEF Answered
  <2> QED  BY <2>8, <2>14, <2>15 DEF Handed
<1> QED  BY <1>2, <1>3

\* r is s after Startup gave the queues of fresh a worker each.
Started(s, fresh, up, r) ==
    /\ \A q \in Queues : r.worker[q] = IF q \notin fresh THEN s.worker[q]
                                       ELSE IF q \in up THEN "live" ELSE "dead"
    /\ \A x \in Items : (r.entry[x] = None) <=> (s.entry[x] = None)
    /\ \A x \in Queued(s) :
         /\ r.entry[x].queue = s.entry[x].queue /\ r.entry[x].uri = s.entry[x].uri
         /\ r.entry[x].pos = s.entry[x].pos
         /\ r.entry[x].worker = s.entry[x].worker
            \/ (s.entry[x].worker = "stale" /\ r.entry[x].worker = "current")
    /\ r.stat = s.stat /\ r.depth = s.depth /\ r.out = s.out /\ r.pref = s.pref
    /\ r.running = s.running /\ r.created = s.created
    /\ (s.err => r.err) /\ (fresh \subseteq up \/ r.err) /\ r.err \in BOOLEAN
    /\ \A q \in Queues \ fresh : r.maxd[q] = s.maxd[q]

\* What StartWorkers leaves, field by field.
LEMMA StartDoes ==
    ASSUME NEW s \in Memory, NEW fresh \in SUBSET Queues, NEW up, NEW reuse,
           NEW r, r = StartWorkers(s, fresh, up, reuse)
    PROVE  Started(s, fresh, up, r)
<1> DEFINE W == [q \in Queues |-> IF q \notin fresh THEN s.worker[q]
                                 ELSE IF q \in up THEN "live" ELSE "dead"]
           M == [q \in Queues |-> IF q \in fresh \cap up THEN Pipe[q] ELSE s.maxd[q]]
           revived(it) == /\ s.entry[it] # None
                          /\ s.entry[it].queue \in fresh \cap reuse
                          /\ s.entry[it].worker = "stale"
           E == [it \in Items |-> IF revived(it) THEN [s.entry[it] EXCEPT !.worker = "current"]
                                  ELSE s.entry[it]]
           x == s.err \/ ~(fresh \subseteq up)
<1>1. r = [s EXCEPT !.worker = W, !.maxd = M, !.entry = E, !.err = x]
  BY Zenon DEF StartWorkers, NewDepth
<1>2. \A it \in Items :
        /\ s.entry[it] = None => E[it] = None
        /\ s.entry[it] # None =>
             /\ E[it] # None
             /\ E[it].queue = s.entry[it].queue /\ E[it].pos = s.entry[it].pos
             /\ E[it].uri = s.entry[it].uri
             /\ E[it].worker = s.entry[it].worker
                \/ (s.entry[it].worker = "stale" /\ E[it].worker = "current")
  <2> TAKE it \in Items
  <2>1. CASE revived(it)
    <3>1. s.entry[it] \in Entry /\ E[it] = [s.entry[it] EXCEPT !.worker = "current"]
      BY <2>1 DEF Memory
    <3> HIDE DEF E
    <3> QED  BY <2>1, <3>1, WithWorker
  <2>2. CASE ~revived(it)
    <3>1. E[it] = s.entry[it]  BY <2>2
    <3> HIDE DEF E
    <3> QED  BY <3>1
  <2> QED  BY <2>1, <2>2
<1>3. x \in BOOLEAN /\ (s.err => x) /\ (fresh \subseteq up \/ x)  BY DEF Memory
<1>4. \A q \in Queues \ fresh : M[q] = s.maxd[q]  OBVIOUS
<1>5. \A q \in Queues : W[q] = IF q \notin fresh THEN s.worker[q]
                               ELSE IF q \in up THEN "live" ELSE "dead"
  OBVIOUS
<1> HIDE DEF W, M, E, x
<1>6. /\ r.worker = W /\ r.maxd = M /\ r.entry = E /\ r.err = x
      /\ r.stat = s.stat /\ r.depth = s.depth /\ r.out = s.out /\ r.pref = s.pref
      /\ r.running = s.running /\ r.created = s.created
  BY <1>1 DEF Memory
<1> QED  BY <1>2, <1>3, <1>4, <1>5, <1>6 DEF Started, Queued

\* The lists are the same sets.
LEMMA StartSets ==
    ASSUME NEW s, NEW fresh, NEW up, NEW r, Started(s, fresh, up, r)
    PROVE  /\ Queued(r) = Queued(s)
           /\ \A q : /\ QItems(r, q) = QItems(s, q) /\ Idle(r, q) = Idle(s, q)
                     /\ Fetching(r, q) = Fetching(s, q) /\ PreferredIdle(r, q) = PreferredIdle(s, q)
<1>1. Queued(r) = Queued(s)  BY DEF Started, Queued
<1>2. \A q : QItems(r, q) = QItems(s, q)  BY <1>1 DEF Started, QItems
<1>3. \A q : Idle(r, q) = Idle(s, q) /\ Fetching(r, q) = Fetching(s, q)
  BY <1>2 DEF Started, Idle, Fetching
<1>4. \A q : PreferredIdle(r, q) = PreferredIdle(s, q)
  BY <1>3 DEF Started, PreferredIdle, Idle, QItems
<1> QED  BY <1>1, <1>2, <1>3, <1>4

\* The lists after an item left.
LEMMA LeftSets ==
    ASSUME NEW s, Good(s), NEW q \in Queues, NEW it \in Fetching(s, q), NEW d, Left(s, q, it, d)
    PROVE  /\ Queued(d) = Queued(s) \ {it}
           /\ \A p : /\ QItems(d, p) = QItems(s, p) \ {it} /\ Idle(d, p) = Idle(s, p)
                     /\ Fetching(d, p) = Fetching(s, p) \ {it}
                     /\ PreferredIdle(d, p) = PreferredIdle(s, p)
<1>1. it \in Items /\ s.stat[it] = "Fetching"  BY DEF Fetching, QItems, Queued
<1>2. Queued(d) = Queued(s) \ {it}  BY <1>1 DEF Left, Queued
<1>3. \A p : QItems(d, p) = QItems(s, p) \ {it}  BY <1>2 DEF Left, QItems, Queued
<1>4. \A p : Idle(d, p) = Idle(s, p) /\ Fetching(d, p) = Fetching(s, p) \ {it}
  BY <1>1, <1>3 DEF Left, Idle, Fetching, QItems, Queued
<1>5. \A p : PreferredIdle(d, p) = PreferredIdle(s, p)
  BY <1>1, <1>4 DEF Left, PreferredIdle, Idle, QItems, Queued
<1> QED  BY <1>2, <1>3, <1>4, <1>5

\* The lists after an item entered.
LEMMA EnteredSets ==
    ASSUME NEW r, NEW it \in Items, r.entry[it] = None, NEW q, NEW u, NEW d, Entered(r, it, q, u, d)
    PROVE  /\ Queued(d) = Queued(r) \cup {it} /\ it \notin Queued(r)
           /\ QItems(d, q) = QItems(r, q) \cup {it} /\ Idle(d, q) = Idle(r, q) \cup {it}
           /\ \A p : p # q => QItems(d, p) = QItems(r, p) /\ Idle(d, p) = Idle(r, p)
           /\ \A p : Fetching(d, p) = Fetching(r, p)
<1>1. d.entry[it] # None  BY NoneIsNoEntry DEF Entered
<1>2. Queued(d) = Queued(r) \cup {it} /\ it \notin Queued(r)
  BY <1>1 DEF Queued, Entered
<1>3. /\ QItems(d, q) = QItems(r, q) \cup {it}
      /\ \A p : p # q => QItems(d, p) = QItems(r, p)
      /\ \A p : it \notin QItems(r, p)
  BY <1>2 DEF QItems, Entered, Queued
<1>4. \A x \in Items : d.stat[x] = IF x = it THEN "Idle" ELSE r.stat[x]  BY DEF Entered
<1>5. /\ Idle(d, q) = Idle(r, q) \cup {it}
      /\ \A p : p # q => Idle(d, p) = Idle(r, p)
  BY <1>3, <1>4 DEF Idle, QItems, Queued
<1>6. \A p : Fetching(d, p) = Fetching(r, p)
  <2> SUFFICES ASSUME NEW p PROVE Fetching(d, p) = Fetching(r, p)  OBVIOUS
  <2>1. CASE p = q  BY <1>3, <1>4, <2>1 DEF Fetching, QItems, Queued
  <2>2. CASE p # q  BY <1>3, <1>4, <2>2 DEF Fetching, QItems, Queued
  <2> QED  BY <2>1, <2>2
<1> QED  BY <1>2, <1>3, <1>5, <1>6

\* The lists after a Cycle.
LEMMA CycleSets ==
    ASSUME NEW s, Good(s), NEW Qs \in SUBSET Queues, NEW c, c = Cycle(s, Qs), NEW q \in Queues
    PROVE  /\ QItems(c, q) = QItems(s, q) /\ Queued(c) = Queued(s)
           /\ Fetching(c, q) = IF q \in Qs THEN Fetching(s, q) \cup Picks(s, q) ELSE Fetching(s, q)
           /\ Idle(c, q) = IF q \in Qs THEN Idle(s, q) \ Picks(s, q) ELSE Idle(s, q)
<1>1. s \in Memory /\ Cycled(s, Qs, c) /\ Kept(s, c)  BY CycleFields, CycleGood DEF Good
<1>2. \A p \in Qs : Picks(s, p) \subseteq QItems(s, p) /\ Picks(s, p) \subseteq Items
  BY DEF Picks, Idle, QItems, Queued
<1>3. \A x \in QItems(s, q) : x \in Picked(s, Qs) <=> q \in Qs /\ x \in Picks(s, q)
  <2>1. \A p \in Qs, x \in QItems(s, q) : x \in Picks(s, p) => p = q
    BY <1>2 DEF QItems
  <2> QED  BY <2>1 DEF Picked
<1>4. \A x \in Items : c.stat[x] = IF x \in Picked(s, Qs) THEN "Fetching" ELSE s.stat[x]
  BY <1>1 DEF Cycled
<1>5. QItems(c, q) = QItems(s, q) /\ Queued(c) = Queued(s) /\ QItems(s, q) \subseteq Items
  BY <1>1 DEF Kept, QItems, Queued
<1>6. \A x \in Picks(s, q) : x \in QItems(s, q) /\ s.stat[x] = "Idle"  BY DEF Picks, Idle
<1>7. Fetching(c, q) = IF q \in Qs THEN Fetching(s, q) \cup Picks(s, q) ELSE Fetching(s, q)
  BY <1>3, <1>4, <1>5, <1>6 DEF Fetching
<1>8. Idle(c, q) = IF q \in Qs THEN Idle(s, q) \ Picks(s, q) ELSE Idle(s, q)
  BY <1>3, <1>4, <1>5, <1>6 DEF Idle
<1> QED  BY <1>5, <1>7, <1>8

-----------------------------------------------------------------------------
(* Counting the answers of a sequence of messages.                         *)

Final(m) == m.kind \in {"done", "fail"}
Finals(i) == {n \in 1..Len(i) : Final(i[n])}
Answers(i) == Cardinality(Finals(i))

\* It is a natural number, no more than there are messages.
LEMMA AnswersNat ==
    ASSUME NEW i \in Seq(Message)
    PROVE  /\ Answers(i) \in Nat /\ IsFiniteSet(Finals(i))
           /\ i = << >> => Answers(i) = 0
           /\ Answers(i) = 0 => Finals(i) = {}
<1>1. Finals(i) \subseteq 1..Len(i) /\ Len(i) \in Nat  BY DEF Finals
<1>2. IsFiniteSet(Finals(i))
  <2>1. IsFiniteSet(1..Len(i))  BY <1>1, FS_Interval
  <2> QED  BY <1>1, <2>1, FS_Subset
<1>3. Answers(i) \in Nat  BY <1>2, FS_CardinalityType DEF Answers
<1>4. ASSUME i = << >> PROVE Answers(i) = 0
  <2>1. Finals(i) = {}  BY <1>4 DEF Finals
  <2> QED  BY <2>1, FS_EmptySet DEF Answers
<1>5. Answers(i) = 0 => Finals(i) = {}  BY <1>2, FS_EmptySet DEF Answers
<1> QED  BY <1>2, <1>3, <1>4, <1>5

\* A message at the end.
LEMMA AnswersAppend ==
    ASSUME NEW i \in Seq(Message), NEW m \in Message
    PROVE  Answers(Append(i, m)) = Answers(i) + IF Final(m) THEN 1 ELSE 0
<1> DEFINE j == Append(i, m)
           k == Len(i) + 1
<1>1. /\ Len(j) = k /\ Len(i) \in Nat /\ j[k] = m
      /\ \A n \in 1..Len(i) : j[n] = i[n]
  OBVIOUS
<1> HIDE DEF j
<1>2. 1..Len(j) = 1..Len(i) \cup {k} /\ k \notin 1..Len(i)  BY <1>1
<1>3. Finals(j) = IF Final(m) THEN Finals(i) \cup {k} ELSE Finals(i)
  BY <1>1, <1>2 DEF Finals
<1>4. k \notin Finals(i) /\ IsFiniteSet(Finals(i)) /\ Answers(i) \in Nat
  BY <1>2, AnswersNat DEF Finals
<1>5. Cardinality(Finals(i) \cup {k}) = Answers(i) + 1
  BY <1>4, FS_AddElement DEF Answers
<1> QED  BY <1>3, <1>4, <1>5 DEF Answers, j

\* A message at the front.
LEMMA AnswersTail ==
    ASSUME NEW i \in Seq(Message), i # << >>
    PROVE  Answers(i) = Answers(Tail(i)) + IF Final(Head(i)) THEN 1 ELSE 0
<1> DEFINE j == Tail(i)
           F == Finals(i) \ {1}
           f == [n \in Finals(j) |-> n + 1]
<1>1. /\ Len(j) = Len(i) - 1 /\ Len(i) \in Nat \ {0} /\ j \in Seq(Message) /\ Head(i) = i[1]
      /\ \A n \in 1..Len(j) : j[n] = i[n + 1]
  OBVIOUS
<1> HIDE DEF j
<1>2. \A n \in Finals(j) : f[n] \in F
  BY <1>1 DEF Finals
<1>3. ASSUME NEW x \in F PROVE \E n \in Finals(j) : f[n] = x
  <2>1. x \in 1..Len(i) /\ x # 1 /\ Final(i[x])  BY <1>3 DEF Finals
  <2>2. x - 1 \in 1..Len(j) /\ j[x - 1] = i[x] /\ (x - 1) + 1 = x  BY <1>1, <2>1
  <2>3. x - 1 \in Finals(j)  BY <2>1, <2>2 DEF Finals
  <2> QED  BY <2>2, <2>3
<1>4. \A m, n \in Finals(j) : f[m] = f[n] => m = n
  BY <1>1 DEF Finals
<1>5. f \in Bijection(Finals(j), F)
  BY <1>2, <1>3, <1>4 DEF Bijection, Injection, IsInjective, Surjection
<1>6. IsFiniteSet(Finals(j)) /\ IsFiniteSet(Finals(i)) /\ Answers(i) \in Nat  BY <1>1, AnswersNat
<1>7. IsFiniteSet(F)  BY <1>6, FS_Subset
<1>8. ExistsBijection(Finals(j), F)  BY <1>5 DEF ExistsBijection
<1> HIDE DEF f
<1>9. Cardinality(F) = Answers(j)
  <2>1. Cardinality(Finals(j)) = Cardinality(F)  BY <1>6, <1>7, <1>8, FS_Bijection
  <2> QED  BY <2>1 DEF Answers
<1>10. 1 \in Finals(i) <=> Final(Head(i))  BY <1>1 DEF Finals
<1>11. CASE 1 \in Finals(i)
  <2>1. Cardinality(F) = Cardinality(Finals(i)) - 1  BY <1>6, <1>11, FS_RemoveElement
  <2> QED  BY <1>6, <1>9, <1>10, <1>11, <2>1 DEF Answers, j
<1>12. CASE 1 \notin Finals(i)
  <2>1. F = Finals(i)  BY <1>12
  <2>2. Answers(i) = Answers(j)  BY <1>9, <2>1 DEF Answers
  <2> QED  BY <1>6, <1>10, <1>12, <2>2 DEF j
<1> QED  BY <1>11, <1>12

-----------------------------------------------------------------------------
(* The invariant, on a memory s, the messages I and the requests M of the  *)
(* methods, the set L of live workers whose method is gone, the queues     *)
(* calm of a program whose Runs were complete so far (all or none).        *)

\* Nothing is on its way but between a live worker and its method.
Wired(s, I, M, L) ==
    \A q \in Queues :
      /\ s.worker[q] # "live" => s.out[q] = << >> /\ I[q] = << >> /\ M[q] = << >>
      /\ q \in L => M[q] = << >>
      /\ s.worker[q] = "dead" => s.err
      /\ q \notin s.created => s.worker[q] = "none"
\* A queue without a worker has nothing half fetched.
Rested(s, calm) ==
    \A q \in calm : s.worker[q] = "none" => Fetching(s, q) = {}
\* What is on a list waits or is being fetched.
WaitOK(s) == \A x \in Queued(s) : s.stat[x] \in {"Idle", "Fetching"}
\* The requests and answers on the way are as many as the items being fetched.
Load(s, I, M, q) == Answers(I[q]) + (Len(M[q]) + Len(s.out[q]))
Tallied(s, I, M, L, calm) ==
    s.err \/ \A q \in Queues :
               /\ Load(s, I, M, q) <= s.depth[q]
               /\ (q \in calm \ L /\ s.worker[q] = "live") => Load(s, I, M, q) = s.depth[q]
\* While Run is on every queue has a worker.
Staffed(s) == s.running => \A q \in s.created : s.worker[q] # "none"
\* While Run is on, a queue with items has one being fetched; X are the queues
\* that are about to be cycled.
FedBut(s, X) ==
    (s.running /\ ~s.err) =>
      \A q \in Queues \ X : QItems(s, q) # {} => Fetching(s, q) # {}

Typed(I, M) == I \in [Queues -> Seq(Message)] /\ M \in [Queues -> Seq(Request)]
Flow(s, I, M, L, calm) ==
    Wired(s, I, M, L) /\ Rested(s, calm) /\ WaitOK(s) /\ Tallied(s, I, M, L, calm)
Flows(s, I, M, L, calm, X) == Flow(s, I, M, L, calm) /\ Staffed(s) /\ FedBut(s, X)

\* A step that touches neither lists nor pipes.
LEMMA SameFlow ==
    ASSUME NEW s, Good(s), NEW t, Same(s, t), NEW I, NEW M, NEW L, NEW calm, NEW X,
           Flows(s, I, M, L, calm, X)
    PROVE  Flows(t, I, M, L, calm, X)
<1>1. /\ t.worker = s.worker /\ t.out = s.out /\ t.running = s.running
      /\ t.depth = s.depth /\ t.created = s.created /\ (s.err => t.err)
      /\ \A x \in Queued(s) : t.stat[x] = s.stat[x]
  BY DEF Same, Beside
<1>2. Wired(t, I, M, L)  BY <1>1 DEF Flows, Flow, Wired
<1>3. Rested(t, calm)  BY <1>1, SameSets DEF Flows, Flow, Rested
<1>4. WaitOK(t)  BY <1>1, SameSets DEF Flows, Flow, WaitOK
<1>5. Tallied(t, I, M, L, calm)  BY <1>1 DEF Flows, Flow, Tallied, Load
<1>6. Staffed(t) /\ FedBut(t, X)  BY <1>1, SameSets DEF Flows, Staffed, FedBut
<1> QED  BY <1>2, <1>3, <1>4, <1>5, <1>6 DEF Flows, Flow

\* The starting of workers.
LEMMA StartFlow ==
    ASSUME NEW s, Good(s), NEW fresh \in SUBSET Queues, NEW up, NEW r, Started(s, fresh, up, r),
           NEW I, NEW M, Typed(I, M), NEW L, NEW calm \in SUBSET Queues, NEW X,
           Flow(s, I, M, L, calm), FedBut(s, X),
           fresh \subseteq s.created, \A q \in fresh : s.worker[q] = "none",
           s.running => \A q \in s.created : s.worker[q] = "none" => q \in fresh
    PROVE  Flows(r, I, M, L, calm, X)
<1>1. /\ r.out = s.out /\ r.running = s.running /\ r.stat = s.stat
      /\ r.depth = s.depth /\ r.created = s.created /\ (s.err => r.err)
      /\ fresh \subseteq up \/ r.err
      /\ \A q \in Queues : r.worker[q] = IF q \notin fresh THEN s.worker[q]
                                         ELSE IF q \in up THEN "live" ELSE "dead"
  BY DEF Started
<1>2. Wired(r, I, M, L)  BY <1>1 DEF Flow, Wired
<1>3. Rested(r, calm)  BY <1>1, StartSets DEF Flow, Rested
<1>4. WaitOK(r)  BY <1>1, StartSets DEF Flow, WaitOK
<1>5. Tallied(r, I, M, L, calm)
  <2> SUFFICES ASSUME ~r.err, NEW q \in Queues
               PROVE  /\ Load(r, I, M, q) <= r.depth[q]
                      /\ (q \in calm \ L /\ r.worker[q] = "live") => Load(r, I, M, q) = r.depth[q]
    BY DEF Tallied
  <2>1. /\ Load(s, I, M, q) <= s.depth[q]
        /\ (q \in calm \ L /\ s.worker[q] = "live") => Load(s, I, M, q) = s.depth[q]
    BY <1>1 DEF Flow, Tallied
  <2>2. Load(r, I, M, q) = Load(s, I, M, q)  BY <1>1 DEF Load
  <2>3. CASE q \notin fresh  BY <1>1, <2>1, <2>2, <2>3
  <2>4. CASE q \in fresh
    <3>1. s.out[q] = << >> /\ I[q] = << >> /\ M[q] = << >>  BY <2>4 DEF Flow, Wired
    <3>2. Answers(I[q]) = 0  BY <3>1, AnswersNat DEF Typed
    <3>3. Load(s, I, M, q) = 0  BY <3>1, <3>2 DEF Load
    <3>4. q \in calm => s.depth[q] = 0
      BY <2>4, FS_EmptySet DEF Flow, Rested, Good, DepthOK
    <3> QED  BY <1>1, <2>1, <2>2, <3>3, <3>4
  <2> QED  BY <2>3, <2>4
<1>6. Staffed(r)
  <2>1. s.created \subseteq Queues  BY DEF Good, Memory
  <2> QED  BY <1>1, <2>1 DEF Staffed
<1>7. FedBut(r, X)  BY <1>1, StartSets DEF FedBut
<1> QED  BY <1>2, <1>3, <1>4, <1>5, <1>6, <1>7 DEF Flows, Flow

\* An item that nothing is ahead of is picked.
LEMMA FirstPicked ==
    ASSUME NEW s, Good(s), NEW q \in Queues, Idle(s, q) # {}, Room(s, q) > 0
    PROVE  Picks(s, q) # {}
<1> DEFINE Rs == {Rank(s, q, x) : x \in Idle(s, q)}
<1>1. Rs \subseteq Nat /\ Rs # {}  BY RankNat
<1>2. PICK n \in Rs : \A k \in Rs : n <= k
  <2> DEFINE R == OpToRel(<, Nat)
  <2>1. IsWellFoundedOn(R, Nat)  BY NatLessThanWellFounded
  <2>2. \A k, l \in Nat : k < l => <<k, l>> \in R  BY DEF OpToRel
  <2> HIDE DEF Rs, R
  <2>3. PICK n \in Rs : \A k \in Rs : ~(<<k, n>> \in R)  BY <1>1, <2>1, WFMin
  <2>4. ASSUME NEW k \in Rs PROVE n <= k
    <3>1. n \in Nat /\ k \in Nat  BY <1>1, <2>4
    <3>2. ~(k < n)  BY <2>2, <2>3, <3>1
    <3> QED  BY <3>1, <3>2
  <2> QED  BY <2>4
<1>3. PICK x \in Idle(s, q) : Rank(s, q, x) = n  BY <1>2
<1> DEFINE B == {b \in Idle(s, q) : Ahead(s, q, b, x)}
<1>4. B = {}
  <2> SUFFICES ASSUME NEW b \in B PROVE FALSE  OBVIOUS
  <2>1. s.entry[x].pos \in Nat /\ s.entry[b].pos \in Nat
    BY DEF Good, Memory, Entry, Idle, QItems, Queued
  <2>2. b # x /\ ~Ahead(s, q, x, b)  BY <2>1 DEF Ahead
  <2>3. Rank(s, q, b) < Rank(s, q, x)  BY <2>2, RankGrows
  <2>4. Rank(s, q, x) <= Rank(s, q, b)  BY <1>2, <1>3
  <2> QED  BY <2>3, <2>4, RankNat
<1>5. Rank(s, q, x) = 0  BY <1>4, FS_EmptySet DEF Rank
<1>6. x \in Picks(s, q)  BY <1>5 DEF Picks
<1> QED  BY <1>6

\* Cycle sends one request for every item it marks, and where there is an idle
\* item and none is being fetched, it marks one.
LEMMA CycleFlow ==
    ASSUME NEW s, Good(s), NEW Qs \in SUBSET Queues, NEW c, c = Cycle(s, Qs),
           NEW I, NEW M, Typed(I, M), NEW L, NEW calm \in SUBSET Queues, NEW X,
           Flows(s, I, M, L, calm, X)
    PROVE  Flows(c, I, M, L, calm, X \ Qs)
<1>1. s \in Memory  BY DEF Good
<1>2. /\ s \in Memory /\ Cycled(s, Qs, c)
      /\ c.worker = s.worker /\ c.running = s.running /\ c.created = s.created
      /\ (s.err => c.err)
  <2>1. Cycled(s, Qs, c)  BY <1>1, CycleFields
  <2> QED  BY <1>1, <2>1 DEF Cycled
<1>3. \A q \in Queues : s.worker[q] # "live" => c.out[q] = s.out[q] \/ s.worker[q] = "dead"
  <2> SUFFICES ASSUME NEW q \in Queues, s.worker[q] = "none" PROVE c.out[q] = s.out[q]
    BY <1>2 DEF Memory
  <2>1. Room(s, q) = 0  BY DEF Room
  <2>2. Picks(s, q) = {}  BY <1>2, <2>1, RoomInt
  <2>3. Cardinality(Picks(s, q)) = 0  BY <2>2, FS_EmptySet
  <2>4. Requests(s, q) = << >>  BY <2>3 DEF Requests
  <2>5. s.out[q] \in Seq(Request)  BY <1>2 DEF Memory
  <2>6. s.out[q] \o << >> = s.out[q]  BY <2>5
  <2> QED  BY <1>2, <2>4, <2>6 DEF Cycled
<1>4. ASSUME NEW q \in Queues, s.worker[q] = "dead" PROVE c.out[q] = << >>
  <2>1. s.out[q] = << >> /\ Requests(s, q) = << >>  BY <1>4 DEF Flows, Flow, Wired, Requests
  <2>2. << >> \o << >> = << >>  OBVIOUS
  <2> QED  BY <1>2, <2>1, <2>2 DEF Cycled
<1>5. Wired(c, I, M, L)  BY <1>2, <1>3, <1>4 DEF Flows, Flow, Wired
<1>6. \A q \in Queues : s.worker[q] = "none" => Fetching(c, q) = Fetching(s, q)
  <2> SUFFICES ASSUME NEW q \in Queues, s.worker[q] = "none" PROVE Fetching(c, q) = Fetching(s, q)
    OBVIOUS
  <2>1. Room(s, q) = 0  BY DEF Room
  <2>2. Picks(s, q) = {}  BY <1>2, <2>1, RoomInt
  <2> QED  BY <2>2, CycleSets
<1>7. Rested(c, calm)  BY <1>2, <1>6 DEF Flows, Flow, Rested
<1>8. WaitOK(c)
  <2>1. Queued(c) = Queued(s)  BY <1>2, CycleGood DEF Kept
  <2> QED  BY <1>2, <2>1 DEF Flows, Flow, WaitOK, Cycled, Queued
<1>9. Tallied(c, I, M, L, calm)
  <2> SUFFICES ASSUME ~c.err, NEW q \in Queues
               PROVE  /\ Load(c, I, M, q) <= c.depth[q]
                      /\ (q \in calm \ L /\ c.worker[q] = "live") => Load(c, I, M, q) = c.depth[q]
    BY DEF Tallied
  <2>1. /\ Load(s, I, M, q) <= s.depth[q]
        /\ (q \in calm \ L /\ s.worker[q] = "live") => Load(s, I, M, q) = s.depth[q]
        /\ s.worker[q] # "dead"
    BY <1>2 DEF Flows, Flow, Tallied, Wired
  <2>2. CASE q \notin Qs
    <3>1. c.out[q] = s.out[q] /\ c.depth[q] = s.depth[q]  BY <1>2, <2>2 DEF Cycled
    <3> QED  BY <1>2, <2>1, <3>1 DEF Load
  <2>3. CASE q \in Qs
    <3> DEFINE k == Cardinality(Picks(s, q))
    <3>1. k \in Nat  BY PicksRanked
    <3>2. Requests(s, q) \in Seq(Request) /\ s.out[q] \in Seq(Request)
      BY <1>2, RequestsType DEF Memory
    <3>3. Len(Requests(s, q)) = k  BY <2>1, <3>1 DEF Requests
    <3>4. c.out[q] = s.out[q] \o Requests(s, q) /\ c.depth[q] = s.depth[q] + k
      <4>1. c.out = [p \in Queues |-> IF p \in Qs THEN s.out[p] \o Requests(s, p) ELSE s.out[p]]
        BY <1>2 DEF Cycled
      <4>2. c.depth = [p \in Queues |-> IF p \in Qs THEN s.depth[p] + Cardinality(Picks(s, p))
                                        ELSE s.depth[p]]
        BY <1>2 DEF Cycled
      <4> QED  BY <2>3, <4>1, <4>2
    <3>5. Len(c.out[q]) = Len(s.out[q]) + k
      <4>1. \A a, b \in Seq(Request) : Len(a \o b) = Len(a) + Len(b)  OBVIOUS
      <4> HIDE DEF k
      <4> QED  BY <3>2, <3>3, <3>4, <4>1
    <3>6. /\ Answers(I[q]) \in Nat /\ Len(M[q]) \in Nat /\ Len(s.out[q]) \in Nat
          /\ s.depth[q] \in Int
      BY <1>2, <3>2, AnswersNat DEF Typed, Memory
    <3> HIDE DEF k
    <3>7. Load(c, I, M, q) = Load(s, I, M, q) + k /\ Load(s, I, M, q) \in Nat
      <4> DEFINE a == Answers(I[q])  b == Len(M[q])  o == Len(s.out[q])
      <4>1. Load(s, I, M, q) = a + (b + o) /\ Load(c, I, M, q) = a + (b + (o + k))
        BY <3>5 DEF Load
      <4>2. a \in Nat /\ b \in Nat /\ o \in Nat  BY <3>6
      <4> HIDE DEF a, b, o
      <4> QED  BY <3>1, <4>1, <4>2
    <3> QED  BY <1>2, <2>1, <3>1, <3>4, <3>6, <3>7
  <2> QED  BY <2>2, <2>3
<1>10. Staffed(c)  BY <1>2 DEF Flows, Staffed
<1>11. FedBut(c, X \ Qs)
  <2> SUFFICES ASSUME c.running, ~c.err, NEW q \in Queues \ (X \ Qs), QItems(c, q) # {}
               PROVE  Fetching(c, q) # {}
    BY DEF FedBut
  <2>1. s.running /\ ~s.err /\ QItems(s, q) # {} /\ s.worker[q] # "dead"
    BY <1>2, CycleSets DEF Flows, Flow, Wired
  <2>2. CASE q \notin Qs
    <3>1. Fetching(s, q) # {}  BY <2>1, <2>2 DEF Flows, FedBut
    <3> QED  BY <3>1, CycleSets
  <2>3. CASE q \in Qs
    <3> SUFFICES ASSUME Fetching(s, q) = {} PROVE Picks(s, q) # {}
      BY <2>3, CycleSets
    <3>1. PICK x \in QItems(s, q) : TRUE  BY <2>1
    <3>2. q \in s.created  BY <3>1 DEF Good, OrderOK, QItems, Queued
    <3>3. s.worker[q] = "live"  BY <1>2, <2>1, <3>2 DEF Flows, Staffed, Memory
    <3>4. s.stat[x] # "Fetching"  BY <3>1 DEF Fetching
    <3>5. x \in Idle(s, q)  BY <3>1, <3>4 DEF Flows, Flow, WaitOK, Idle, QItems
    <3>6. s.depth[q] = 0  BY FS_EmptySet DEF Good, DepthOK
    <3>7. Room(s, q) = s.maxd[q] - s.depth[q] /\ s.maxd[q] \in Nat \ {0}
      BY <1>2, <3>3, <3>6 DEF Room, Memory
    <3> QED  BY <3>5, <3>6, <3>7, FirstPicked
  <2> QED  BY <2>2, <2>3
<1> QED  BY <1>5, <1>7, <1>8, <1>9, <1>10, <1>11 DEF Flows, Flow

\* An answer is taken from the pipe and its item leaves; its queue is about to
\* be cycled.
LEMMA LeftFlow ==
    ASSUME NEW s, Good(s), NEW q \in Queues, NEW it \in Fetching(s, q), NEW d, Left(s, q, it, d),
           NEW I, NEW M, Typed(I, M), NEW L, NEW calm \in SUBSET Queues,
           Flows(s, I, M, L, calm, {}), s.worker[q] = "live", I[q] # << >>, Final(Head(I[q]))
    PROVE  Flows(d, [I EXCEPT ![q] = Tail(@)], M, L, calm, {q})
<1> DEFINE J == [I EXCEPT ![q] = Tail(@)]
<1>1. /\ d.worker = s.worker /\ d.out = s.out /\ d.running = s.running
      /\ d.created = s.created /\ d.err = s.err
      /\ \A p \in Queues : d.depth[p] = IF p = q THEN s.depth[q] - 1 ELSE s.depth[p]
      /\ \A x \in Items : d.stat[x] = IF x = it THEN "Done" ELSE s.stat[x]
  BY DEF Left, Beside
<1>2. J[q] = Tail(I[q]) /\ \A p \in Queues : p # q => J[p] = I[p]
  BY DEF Typed
<1> HIDE DEF J
<1>3. Wired(d, J, M, L)  BY <1>1, <1>2 DEF Flows, Flow, Wired
<1>4. Rested(d, calm)  BY <1>1, LeftSets DEF Flows, Flow, Rested
<1>5. WaitOK(d)
  <2>1. Queued(d) = Queued(s) \ {it}  BY LeftSets
  <2> QED  BY <1>1, <2>1 DEF Flows, Flow, WaitOK, Queued
<1>6. Tallied(d, J, M, L, calm)
  <2> SUFFICES ASSUME ~d.err, NEW p \in Queues
               PROVE  /\ Load(d, J, M, p) <= d.depth[p]
                      /\ (p \in calm \ L /\ d.worker[p] = "live") => Load(d, J, M, p) = d.depth[p]
    BY DEF Tallied
  <2>1. /\ Load(s, I, M, p) <= s.depth[p]
        /\ (p \in calm \ L /\ s.worker[p] = "live") => Load(s, I, M, p) = s.depth[p]
    BY <1>1 DEF Flows, Flow, Tallied
  <2>2. CASE p # q  BY <1>1, <1>2, <2>1, <2>2 DEF Load
  <2>3. CASE p = q
    <3>1. I[q] \in Seq(Message)  BY DEF Typed
    <3>2. Answers(I[q]) = Answers(J[q]) + 1  BY <1>2, <3>1, AnswersTail
    <3>3. /\ Answers(J[q]) \in Nat /\ Len(M[q]) \in Nat /\ Len(s.out[q]) \in Nat /\ s.depth[q] \in Int
      <4>1. J[q] \in Seq(Message)  BY <1>2, <3>1
      <4>2. M[q] \in Seq(Request) /\ s.out[q] \in Seq(Request) /\ s.depth[q] \in Int
        BY DEF Typed, Good, Memory
      <4> QED  BY <4>1, <4>2, AnswersNat
    <3>4. Load(d, J, M, q) = Load(s, I, M, q) - 1 /\ Load(s, I, M, q) \in Nat
      <4> DEFINE a == Answers(J[q])  b == Len(M[q])  o == Len(s.out[q])
      <4>1. Load(s, I, M, q) = (a + 1) + (b + o) /\ Load(d, J, M, q) = a + (b + o)
        BY <1>1, <3>2 DEF Load
      <4>2. a \in Nat /\ b \in Nat /\ o \in Nat  BY <3>3
      <4> HIDE DEF a, b, o
      <4> QED  BY <4>1, <4>2
    <3> QED  BY <1>1, <2>1, <2>3, <3>3, <3>4
  <2> QED  BY <2>2, <2>3
<1>7. Staffed(d)  BY <1>1 DEF Flows, Staffed
<1>8. FedBut(d, {q})
  <2> SUFFICES ASSUME d.running, ~d.err, NEW p \in Queues \ {q}, QItems(d, p) # {}
               PROVE  Fetching(d, p) # {}
    BY DEF FedBut
  <2>1. QItems(s, p) # {} /\ it \notin Fetching(s, p)
    <3>1. QItems(d, p) = QItems(s, p) \ {it}  BY LeftSets
    <3>2. it \notin QItems(s, p)  BY DEF Fetching, QItems
    <3> QED  BY <3>1, <3>2 DEF Fetching
  <2>2. Fetching(s, p) # {}  BY <1>1, <2>1 DEF Flows, FedBut
  <2> QED  BY <2>1, <2>2, LeftSets
<1> QED  BY <1>3, <1>4, <1>5, <1>6, <1>7, <1>8 DEF Flows, Flow, J

\* An item is put at the end of a queue, which is about to be cycled when it
\* held none.
LEMMA EnteredFlow ==
    ASSUME NEW r, Good(r), NEW it \in Items, r.entry[it] = None, NEW q \in Queues, NEW u,
           NEW d, Entered(r, it, q, u, d),
           NEW I, NEW M, NEW L, NEW calm \in SUBSET Queues, Flows(r, I, M, L, calm, {})
    PROVE  Flows(d, I, M, L, calm, IF QItems(r, q) = {} THEN {q} ELSE {})
<1>1. /\ d.worker = r.worker /\ d.out = r.out /\ d.running = r.running
      /\ d.created = r.created /\ d.err = r.err /\ d.depth = r.depth
      /\ \A x \in Items : d.stat[x] = IF x = it THEN "Idle" ELSE r.stat[x]
  BY DEF Entered, Beside
<1>2. Wired(d, I, M, L)  BY <1>1 DEF Flows, Flow, Wired
<1>3. Rested(d, calm)  BY <1>1, EnteredSets DEF Flows, Flow, Rested
<1>4. WaitOK(d)
  <2>1. Queued(d) = Queued(r) \cup {it} /\ Queued(d) \subseteq Items  BY EnteredSets DEF Queued
  <2> QED  BY <1>1, <2>1 DEF Flows, Flow, WaitOK
<1>5. Tallied(d, I, M, L, calm)  BY <1>1 DEF Flows, Flow, Tallied, Load
<1>6. Staffed(d)  BY <1>1 DEF Flows, Staffed
<1>7. FedBut(d, IF QItems(r, q) = {} THEN {q} ELSE {})
  <2> SUFFICES ASSUME d.running, ~d.err, NEW p \in Queues, QItems(d, p) # {},
                      p # q \/ QItems(r, q) # {}
               PROVE  Fetching(d, p) # {}
    BY DEF FedBut
  <2>1. QItems(r, p) # {}  BY EnteredSets
  <2>2. Fetching(r, p) # {}  BY <1>1, <2>1 DEF Flows, FedBut
  <2> QED  BY <2>2, EnteredSets
<1> QED  BY <1>2, <1>3, <1>4, <1>5, <1>6, <1>7 DEF Flows, Flow

\* A queue is put on the list of queues, with its worker when Run is on.
LEMMA OpenedFlow ==
    ASSUME NEW s, Good(s), NEW q \in Queues, NEW up, NEW r, Opened(s, q, up, r),
           NEW I, NEW M, Typed(I, M), NEW L, NEW calm \in SUBSET Queues, Flows(s, I, M, L, calm, {})
    PROVE  Flows(r, I, M, L, calm, {})
<1>1. PICK w : /\ Good(w) /\ Named(s, q, w)
               /\ IF q \notin s.created /\ s.running THEN r = StartWorkers(w, {q}, up, {})
                                                    ELSE r = w
  BY DEF Opened
<1>2. /\ w.worker = s.worker /\ w.out = s.out /\ w.running = s.running
      /\ w.created = s.created \cup {q} /\ w.err = s.err /\ w.depth = s.depth
      /\ w.stat = s.stat /\ w.entry = s.entry /\ w.pref = s.pref /\ w.maxd = s.maxd
  BY <1>1 DEF Named, Beside
<1>3. Queued(w) = Queued(s) /\ \A p : QItems(w, p) = QItems(s, p) /\ Fetching(w, p) = Fetching(s, p)
  BY <1>2 DEF Queued, QItems, Fetching
<1>4. Flow(w, I, M, L, calm)
  <2>1. Wired(w, I, M, L)  BY <1>2 DEF Flows, Flow, Wired
  <2>2. Rested(w, calm) /\ WaitOK(w)  BY <1>2, <1>3 DEF Flows, Flow, Rested, WaitOK
  <2>3. Tallied(w, I, M, L, calm)  BY <1>2 DEF Flows, Flow, Tallied, Load
  <2> QED  BY <2>1, <2>2, <2>3 DEF Flow
<1>5. FedBut(w, {})  BY <1>2, <1>3 DEF Flows, FedBut
<1>6. CASE q \notin s.created /\ s.running
  <2>1. r = StartWorkers(w, {q}, up, {}) /\ w \in Memory  BY <1>1, <1>6 DEF Good
  <2>2. Started(w, {q}, up, r)  BY <2>1, StartDoes
  <2>3. w.worker[q] = "none"  BY <1>2, <1>6 DEF Flows, Flow, Wired
  <2>4. \A p \in w.created : w.worker[p] = "none" => p \in {q}
    BY <1>2, <1>6 DEF Flows, Staffed
  <2>5. {q} \in SUBSET Queues /\ {q} \subseteq w.created /\ \A p \in {q} : w.worker[p] = "none"
    BY <1>2, <2>3
  <2> QED  BY <1>1, <1>4, <1>5, <2>2, <2>4, <2>5, StartFlow
<1>7. CASE ~(q \notin s.created /\ s.running)
  <2>1. r = w  BY <1>1, <1>7
  <2>2. Staffed(w)  BY <1>2, <1>7 DEF Flows, Staffed
  <2> QED  BY <1>4, <1>5, <2>1, <2>2 DEF Flows
<1> QED  BY <1>6, <1>7

\* pkgAcquire::Enqueue.
LEMMA AcceptedFlow ==
    ASSUME NEW s, Good(s), NEW it \in Items, NEW q \in Queues, NEW u, NEW up, NEW c,
           Accepted(s, it, q, u, up, c),
           NEW I, NEW M, Typed(I, M), NEW L, NEW calm \in SUBSET Queues, Flows(s, I, M, L, calm, {})
    PROVE  Flows(c, I, M, L, calm, {})
<1>1. PICK r, d : /\ Good(r) /\ Opened(s, q, up, r) /\ r.entry[it] = None
                  /\ Good(d) /\ Entered(r, it, q, u, d)
                  /\ IF QItems(r, q) = {} THEN c = Cycle(d, {q}) ELSE c = d
  BY DEF Accepted
<1>2. Flows(r, I, M, L, calm, {})  BY <1>1, OpenedFlow
<1>3. Flows(d, I, M, L, calm, IF QItems(r, q) = {} THEN {q} ELSE {})  BY <1>1, <1>2, EnteredFlow
<1>4. CASE QItems(r, q) = {}
  <2>1. Flows(d, I, M, L, calm, {q}) /\ c = Cycle(d, {q})  BY <1>1, <1>3, <1>4
  <2>2. Flows(c, I, M, L, calm, {q} \ {q})  BY <1>1, <2>1, CycleFlow
  <2>3. {q} \ {q} = {}  OBVIOUS
  <2> QED  BY <2>2, <2>3
<1>5. CASE QItems(r, q) # {}  BY <1>1, <1>3, <1>5
<1> QED  BY <1>4, <1>5

\* 201 and 400 for an item that FindItem found.
LEMMA AnsweredFlow ==
    ASSUME NEW s, Good(s), NEW q \in Queues, NEW it \in Fetching(s, q), NEW t, Answered(s, q, it, t),
           NEW I, NEW M, Typed(I, M), NEW L, NEW calm \in SUBSET Queues,
           Flows(s, I, M, L, calm, {}), s.worker[q] = "live", I[q] # << >>, Final(Head(I[q]))
    PROVE  Flows(t, [I EXCEPT ![q] = Tail(@)], M, L, calm, {})
<1> DEFINE J == [I EXCEPT ![q] = Tail(@)]
<1>1. it \in Items /\ \A u \in URIs : QueueOf[u] \in Queues
  BY ConstantsOK DEF Fetching, QItems, Queued, ConstantsOK
<1>2. Typed(J, M)
  <2>1. I[q] \in Seq(Message) /\ Tail(I[q]) \in Seq(Message)  BY DEF Typed
  <2> QED  BY <2>1 DEF Typed
<1>3. PICK c, b : Finished(s, q, it, c) /\ Good(c) /\ Same(c, b) /\ Good(b) /\ Owned(b, it, t)
  BY DEF Answered
<1>4. PICK d : Good(d) /\ Left(s, q, it, d) /\ c = Cycle(d, {q})  BY <1>3 DEF Finished
<1>5. Flows(d, J, M, L, calm, {q})  BY <1>4, LeftFlow
<1> HIDE DEF J
<1>6. Flows(c, J, M, L, calm, {})
  <2>1. Flows(c, J, M, L, calm, {q} \ {q})  BY <1>2, <1>4, <1>5, CycleFlow
  <2>2. {q} \ {q} = {}  OBVIOUS
  <2> QED  BY <2>1, <2>2
<1>7. Flows(b, J, M, L, calm, {})  BY <1>3, <1>6, SameFlow
<1>8. CASE Same(b, t)  BY <1>3, <1>7, <1>8, SameFlow DEF J
<1>9. CASE \E u, up, f : /\ u \in URIs /\ Accepted(b, it, QueueOf[u], u, up, f)
                        /\ Good(f) /\ Same(f, t)
  <2>1. PICK u, up, f : u \in URIs /\ Accepted(b, it, QueueOf[u], u, up, f) /\ Good(f) /\ Same(f, t)
    BY <1>9
  <2>2. Flows(f, J, M, L, calm, {})  BY <1>1, <1>2, <1>3, <1>7, <2>1, AcceptedFlow
  <2> QED  BY <2>1, <2>2, SameFlow DEF J
<1> QED  BY <1>3, <1>8, <1>9 DEF Owned

-----------------------------------------------------------------------------
(* The workers.  A handler starts workers and ends none; those it starts   *)
(* come with their method.                                                 *)

Live(s) == {q \in Queues : s.worker[q] = "live"}

\* Workers of s that t has, too.
Manned(s, t) == \A q \in Queues : s.worker[q] # "none" => t.worker[q] = s.worker[q]

\* Enqueue keeps the workers.
LEMMA AcceptedManned ==
    ASSUME NEW s, Good(s), NEW it, NEW q \in Queues, NEW u, NEW up, NEW c,
           Accepted(s, it, q, u, up, c),
           \A p \in Queues : p \notin s.created => s.worker[p] = "none"
    PROVE  Manned(s, c)
<1>1. PICK r, d : /\ Good(r) /\ Opened(s, q, up, r) /\ r.entry[it] = None
                  /\ Good(d) /\ Entered(r, it, q, u, d)
                  /\ IF QItems(r, q) = {} THEN c = Cycle(d, {q}) ELSE c = d
  BY DEF Accepted
<1>2. PICK w : /\ Good(w) /\ Named(s, q, w)
               /\ IF q \notin s.created /\ s.running THEN r = StartWorkers(w, {q}, up, {})
                                                    ELSE r = w
  BY <1>1 DEF Opened
<1>3. w.worker = s.worker /\ d.worker = r.worker  BY <1>1, <1>2 DEF Named, Entered, Beside
<1>4. Manned(s, r)
  <2>1. CASE q \notin s.created /\ s.running
    <3>1. r = StartWorkers(w, {q}, up, {}) /\ w \in Memory  BY <1>2, <2>1 DEF Good
    <3>2. Started(w, {q}, up, r)  BY <3>1, StartDoes
    <3>3. s.worker[q] = "none"  BY <2>1
    <3> QED  BY <1>3, <3>2, <3>3 DEF Manned, Started
  <2>2. CASE ~(q \notin s.created /\ s.running)
    BY <1>2, <1>3, <2>2 DEF Manned
  <2> QED  BY <2>1, <2>2
<1>5. c.worker = d.worker
  <2>1. CASE QItems(r, q) = {}
    <3>1. c = Cycle(d, {q}) /\ d \in Memory  BY <1>1, <2>1 DEF Good
    <3>2. Cycled(d, {q}, c)  BY <3>1, CycleFields
    <3> QED  BY <3>2 DEF Cycled
  <2>2. CASE QItems(r, q) # {}  BY <1>1, <2>2
  <2> QED  BY <2>1, <2>2
<1> QED  BY <1>3, <1>4, <1>5 DEF Manned

\* So does an answer.
LEMMA AnsweredManned ==
    ASSUME NEW s, Good(s), NEW q \in Queues, NEW it, NEW t, Answered(s, q, it, t),
           \A p \in Queues : p \notin s.created => s.worker[p] = "none"
    PROVE  Manned(s, t)
<1>1. PICK c, b : Finished(s, q, it, c) /\ Good(c) /\ Same(c, b) /\ Good(b) /\ Owned(b, it, t)
  BY DEF Answered
<1>2. PICK d : Good(d) /\ Left(s, q, it, d) /\ c = Cycle(d, {q})  BY <1>1 DEF Finished
<1>3. d.worker = s.worker /\ d.created = s.created  BY <1>2 DEF Left, Beside
<1>4. Cycled(d, {q}, c)  BY <1>2, CycleFields DEF Good
<1>5. c.worker = s.worker /\ c.created = s.created /\ (s.err => c.err)
  BY <1>2, <1>3, <1>4 DEF Cycled, Left
<1>6. b.worker = s.worker /\ b.created = s.created /\ (s.err => b.err)
  BY <1>1, <1>5 DEF Same, Beside
<1>7. CASE Same(b, t)  BY <1>6, <1>7 DEF Same, Beside, Manned
<1>8. CASE \E u, up, f : /\ u \in URIs /\ Accepted(b, it, QueueOf[u], u, up, f)
                        /\ Good(f) /\ Same(f, t)
  <2>1. PICK u, up, f : u \in URIs /\ Accepted(b, it, QueueOf[u], u, up, f) /\ Good(f) /\ Same(f, t)
    BY <1>8
  <2>2. QueueOf[u] \in Queues  BY <2>1, ConstantsOK DEF ConstantsOK
  <2>3. \A p \in Queues : p \notin b.created => b.worker[p] = "none"  BY <1>6
  <2>4. Manned(b, f)  BY <1>1, <2>1, <2>2, <2>3, AcceptedManned
  <2> QED  BY <1>6, <2>1, <2>4 DEF Manned, Same, Beside
<1> QED  BY <1>1, <1>7, <1>8 DEF Owned

-----------------------------------------------------------------------------
(* The invariant and its steps.                                            *)

Calm == IF Clean THEN Queues ELSE {}
Lost == Live(st) \ alive
FlowInv == /\ alive \subseteq Live(st)
           /\ Flows(st, inp, meth, Lost, Calm, {})

\* What the invariants say together.
LEMMA FlowFacts ==
    ASSUME Inv, FlowInv
    PROVE  /\ st \in Memory /\ Good(st) /\ Typed(inp, meth)
           /\ Calm \in SUBSET Queues
           /\ \A q \in Queues : q \notin st.created => st.worker[q] = "none"
           /\ \A q \in Queues : inp[q] \in Seq(Message) /\ meth[q] \in Seq(Request)
                                /\ st.out[q] \in Seq(Request)
BY DEF Inv, Good, TypeOK, Typed, Memory, Calm, FlowInv, Flows, Flow, Wired

\* A handler that keeps the workers leaves the same workers without a method.
LEMMA HandlerLost ==
    ASSUME Inv, Inv', FlowInv, Manned(st, st'), alive' = alive \cup Spawned(st, st')
    PROVE  Lost' = Lost /\ (alive \subseteq Live(st))'
<1>1. \A q \in Queues : st.worker[q] \in {"none", "live", "dead"}
  BY DEF Inv, Good, Memory
<1>2. Live(st') = Live(st) \cup Spawned(st, st') /\ Live(st) \cap Spawned(st, st') = {}
  BY <1>1 DEF Live, Spawned, Manned
<1>3. Lost' = Live(st') \ alive'  BY DEF Lost
<1> QED  BY <1>2, <1>3 DEF Lost, FlowInv

\* The lengths of a queue's line are natural numbers.
LEMMA LoadNat ==
    ASSUME NEW s \in Memory, NEW I, NEW M, Typed(I, M), NEW q \in Queues
    PROVE  /\ Load(s, I, M, q) \in Nat
           /\ Answers(I[q]) \in Nat /\ Len(M[q]) \in Nat /\ Len(s.out[q]) \in Nat
<1>1. I[q] \in Seq(Message) /\ M[q] \in Seq(Request) /\ s.out[q] \in Seq(Request)
  BY DEF Typed, Memory
<1>2. Len(M[q]) \in Nat /\ Len(s.out[q]) \in Nat  BY <1>1
<1>3. Answers(I[q]) \in Nat  BY <1>1, AnswersNat
<1>4. \A a, b, o \in Nat : a + (b + o) \in Nat  OBVIOUS
<1> QED  BY <1>2, <1>3, <1>4 DEF Load

\* t has the lists, workers and counters of s.
Steady(s, t) ==
    /\ t.worker = s.worker /\ t.running = s.running /\ t.created = s.created
    /\ t.depth = s.depth /\ (s.err => t.err) /\ t.stat = s.stat
    /\ Queued(t) = Queued(s)
    /\ \A p \in Queues : QItems(t, p) = QItems(s, p) /\ Fetching(t, p) = Fetching(s, p)

\* What lies on the lines of the other queues.
Aside(s, I, M, t, J, N, q) ==
    \A p \in Queues \ {q} : J[p] = I[p] /\ N[p] = M[p] /\ t.out[p] = s.out[p]

\* A step that moves work along the line of the queue q and keeps the lists.
LEMMA LineFlow ==
    ASSUME NEW s \in Memory, NEW t \in Memory, NEW q \in Queues,
           NEW I, NEW M, NEW J, NEW N, Typed(I, M), Typed(J, N),
           NEW L, NEW K, NEW calm \in SUBSET Queues, Flows(s, I, M, L, calm, {}),
           Steady(s, t), K \in {L, L \cup {q}}, Aside(s, I, M, t, J, N, q),
           s.worker[q] = "live", q \in K => N[q] = << >>,
           \/ Load(t, J, N, q) = Load(s, I, M, q)
           \/ q \in K /\ Load(t, J, N, q) <= Load(s, I, M, q)
    PROVE  Flows(t, J, N, K, calm, {})
<1>1. Wired(t, J, N, K)  BY DEF Flows, Flow, Wired, Steady, Aside
<1>2. Rested(t, calm) /\ WaitOK(t)  BY DEF Flows, Flow, Rested, WaitOK, Steady
<1>3. Tallied(t, J, N, K, calm)
  <2> SUFFICES ASSUME ~t.err, NEW p \in Queues
               PROVE  /\ Load(t, J, N, p) <= t.depth[p]
                      /\ (p \in calm \ K /\ t.worker[p] = "live") => Load(t, J, N, p) = t.depth[p]
    BY DEF Tallied, Steady
  <2>1. /\ Load(s, I, M, p) <= s.depth[p]
        /\ (p \in calm \ L /\ s.worker[p] = "live") => Load(s, I, M, p) = s.depth[p]
    BY DEF Flows, Flow, Tallied, Steady
  <2>2. CASE p # q
    <3>1. Load(t, J, N, p) = Load(s, I, M, p)  BY <2>2 DEF Load, Aside
    <3> QED  BY <2>1, <2>2, <3>1 DEF Steady
  <2>3. CASE p = q
    <3>1. Load(t, J, N, q) \in Nat /\ Load(s, I, M, q) \in Nat /\ s.depth[q] \in Int
      BY LoadNat DEF Memory
    <3> QED  BY <2>1, <2>3, <3>1 DEF Steady
  <2> QED  BY <2>2, <2>3
<1>4. Staffed(t) /\ FedBut(t, {})  BY DEF Flows, Staffed, FedBut, Steady
<1> QED  BY <1>1, <1>2, <1>3, <1>4 DEF Flows, Flow

\* A message of a live worker is taken from the pipe after an error.
LEMMA DropFlow ==
    ASSUME NEW t, t.err = TRUE, NEW q \in Queues, t.worker[q] = "live", NEW I, NEW M, NEW J,
           \A p \in Queues \ {q} : J[p] = I[p],
           NEW L, NEW calm, Flows(t, I, M, L, calm, {})
    PROVE  Flows(t, J, M, L, calm, {})
<1>1. Wired(t, J, M, L)  BY DEF Flows, Flow, Wired
<1>2. Tallied(t, J, M, L, calm)  BY DEF Tallied
<1> QED  BY <1>1, <1>2 DEF Flows, Flow

\* 201 and 400.
LEMMA AnswerFlow ==
    ASSUME Inv, Inv', FlowInv, NEW q \in Queues, NEW kind \in {"done", "fail"},
           NEW finals \in SUBSET {"Done", "Error", "Idle"}, Answer(q, kind, finals)
    PROVE  FlowInv'
<1> DEFINE it == FindItem(st, q, Head(inp[q]).uri)
<1>1. \/ it = None /\ Same(st, st') /\ st'.err = TRUE
      \/ it \in Fetching(st, q) /\ Answered(st, q, it, st')
  BY AnswerDoes
<1> HIDE DEF it
<1>2. /\ Good(st) /\ Typed(inp, meth) /\ Calm \in SUBSET Queues
      /\ inp[q] # << >> /\ st.worker[q] = "live" /\ Final(Head(inp[q]))
      /\ inp' = [inp EXCEPT ![q] = Tail(@)] /\ meth' = meth /\ Calm' = Calm
      /\ alive' = alive \cup Spawned(st, st')
      /\ \A p \in Queues : p \notin st.created => st.worker[p] = "none"
      /\ Flows(st, inp, meth, Lost, Calm, {})
  BY FlowFacts DEF Answer, Take, Final, FlowInv, Calm, Clean
<1>3. CASE it = None /\ Same(st, st') /\ st'.err = TRUE
  <2>1. Manned(st, st')  BY <1>3 DEF Same, Beside, Manned
  <2>2. Lost' = Lost /\ (alive \subseteq Live(st))'  BY <1>2, <2>1, HandlerLost
  <2>3. Flows(st', inp, meth, Lost, Calm, {})  BY <1>2, <1>3, SameFlow
  <2>4. /\ \A p \in Queues \ {q} : inp'[p] = inp[p]
        /\ st'.worker[q] = "live"
    BY <1>2, <1>3 DEF Same, Beside, Typed
  <2>5. Flows(st', inp', meth, Lost, Calm, {})
    BY <1>3, <2>3, <2>4, DropFlow
  <2> QED  BY <1>2, <2>2, <2>5 DEF FlowInv
<1>4. CASE it \in Fetching(st, q) /\ Answered(st, q, it, st')
  <2>1. Manned(st, st')  BY <1>2, <1>4, AnsweredManned
  <2>2. Lost' = Lost /\ (alive \subseteq Live(st))'  BY <1>2, <2>1, HandlerLost
  <2>3. Flows(st', [inp EXCEPT ![q] = Tail(@)], meth, Lost, Calm, {})
    BY <1>2, <1>4, AnsweredFlow
  <2> QED  BY <1>2, <2>2, <2>3 DEF FlowInv
<1> QED  BY <1>1, <1>3, <1>4

\* 200 and 103 move no item from one list or status to another.
LEMMA NewsDoes ==
    ASSUME Inv, NEW q \in Queues, URIStart(q) \/ Redirect(q)
    PROVE  Steady(st, st') /\ st'.out = st.out
<1> DEFINE it == FindItem(st, q, Head(inp[q]).uri)
<1>1. st \in Memory /\ Good(st) /\ inp[q] # << >> /\ inp[q] \in Seq(Message)
  BY DEF Inv, Good, TypeOK, URIStart, Redirect, Take
<1>2. /\ st'.worker = st.worker /\ st'.running = st.running /\ st'.created = st.created
      /\ st'.depth = st.depth /\ (st.err => st'.err) /\ st'.stat = st.stat /\ st'.out = st.out
      /\ \A x \in Items : /\ (st'.entry[x] = None) <=> (st.entry[x] = None)
                          /\ st.entry[x] # None => st'.entry[x].queue = st.entry[x].queue
  <2>1. CASE it = None
    <3>1. st' = [st EXCEPT !.err = TRUE]  BY <2>1 DEF URIStart, Redirect
    <3> QED  BY <1>1, <3>1 DEF Memory
  <2>2. CASE it # None
    <3>1. it \in Items /\ st.stat[it] = "Fetching" /\ st.entry[it] \in Entry
      BY <1>1, <2>2, FindItemFetching DEF Fetching
    <3>2. CASE URIStart(q)
      <4>1. st' = [st EXCEPT !.current[q] = it, !.stat[it] = "Fetching"]
        BY <2>2, <3>2 DEF URIStart
      <4> HIDE DEF it
      <4>2. st'.stat = [st.stat EXCEPT ![it] = "Fetching"]  BY <1>1, <4>1 DEF Memory
      <4>3. st'.stat = st.stat  BY <1>1, <3>1, <4>2 DEF Memory
      <4> QED  BY <1>1, <4>1, <4>3 DEF Memory
    <3>3. CASE Redirect(q)
      <4> DEFINE to == Head(inp[q]).to
      <4>1. st' = [st EXCEPT !.entry[it].uri = to]  BY <2>2, <3>3 DEF Redirect
      <4>2. to \in URIs
        <5>1. Head(inp[q]) \in Message  BY <1>1
        <5> QED  BY <5>1 DEF Message
      <4> HIDE DEF it, to
      <4> DEFINE e == [st.entry[it] EXCEPT !.uri = to]
      <4>3. e \in Entry /\ e # None /\ e.queue = st.entry[it].queue /\ st.entry[it] # None
        BY <3>1, <4>2, NoneIsNoEntry DEF Entry
      <4>4. st'.entry = [st.entry EXCEPT ![it] = e]  BY <1>1, <4>1 DEF Memory
      <4> HIDE DEF e
      <4>5. \A x \in Items : st'.entry[x] = IF x = it THEN e ELSE st.entry[x]
        BY <1>1, <4>4 DEF Memory
      <4>6. /\ st'.worker = st.worker /\ st'.running = st.running /\ st'.created = st.created
            /\ st'.depth = st.depth /\ st'.err = st.err /\ st'.stat = st.stat /\ st'.out = st.out
        BY <1>1, <4>1 DEF Memory
      <4> QED  BY <4>3, <4>5, <4>6
    <3> QED  BY <3>2, <3>3
  <2> QED  BY <2>1, <2>2
<1>3. /\ Queued(st') = Queued(st)
      /\ \A p \in Queues : QItems(st', p) = QItems(st, p) /\ Fetching(st', p) = Fetching(st, p)
  <2>1. Queued(st') = Queued(st)  BY <1>2 DEF Queued
  <2>2. \A p : QItems(st', p) = QItems(st, p)  BY <1>2, <2>1 DEF QItems, Queued
  <2> QED  BY <1>2, <2>1, <2>2 DEF Fetching
<1> QED  BY <1>2, <1>3 DEF Steady

\* 200 and 103 answer nothing.
LEMMA NewsFlow ==
    ASSUME Inv, Inv', FlowInv, NEW q \in Queues, URIStart(q) \/ Redirect(q)
    PROVE  FlowInv'
<1>1. /\ st \in Memory /\ Good(st) /\ Typed(inp, meth) /\ Calm \in SUBSET Queues
      /\ inp[q] # << >> /\ st.worker[q] = "live" /\ ~Final(Head(inp[q]))
      /\ inp' = [inp EXCEPT ![q] = Tail(@)] /\ meth' = meth /\ Calm' = Calm
      /\ alive' = alive /\ inp[q] \in Seq(Message)
      /\ Flows(st, inp, meth, Lost, Calm, {})
  BY FlowFacts DEF URIStart, Redirect, Take, Final, FlowInv, Calm, Clean
<1>2. st' \in Memory /\ Typed(inp', meth')
  BY DEF Inv, TypeOK, Typed
<1>3. Steady(st, st') /\ st'.out = st.out  BY NewsDoes
<1>4. Lost' = Lost /\ alive' \subseteq Live(st')
  BY <1>1, <1>3 DEF Lost, Live, FlowInv, Steady
<1>5. Load(st', inp', meth', q) = Load(st, inp, meth, q)
  <2>1. inp'[q] = Tail(inp[q])  BY <1>1 DEF Typed
  <2>2. Answers(inp[q]) = Answers(Tail(inp[q])) + 0  BY <1>1, AnswersTail
  <2>3. Tail(inp[q]) \in Seq(Message)  BY <1>1
  <2>4. Answers(Tail(inp[q])) \in Nat  BY <2>3, AnswersNat
  <2>5. Answers(inp[q]) = Answers(Tail(inp[q]))  BY <2>2, <2>4
  <2> QED  BY <1>1, <1>3, <2>1, <2>5 DEF Load
<1>6. /\ Aside(st, inp, meth, st', inp', meth', q)
      /\ q \in Lost => meth'[q] = << >>
  BY <1>1, <1>3 DEF Typed, Flows, Flow, Wired, Aside
<1>7. Flows(st', inp', meth', Lost, Calm, {})
  BY <1>1, <1>2, <1>3, <1>5, <1>6, LineFlow
<1> QED  BY <1>1, <1>4, <1>7 DEF FlowInv

\* The worker learns that its method died.
LEMMA FailureFlow ==
    ASSUME Inv, Inv', FlowInv, NEW q \in Queues, MethodFailure(q)
    PROVE  FlowInv'
<1>1. /\ st \in Memory /\ Good(st) /\ Typed(inp, meth) /\ Calm \in SUBSET Queues
      /\ Calm' = Calm /\ Flows(st, inp, meth, Lost, Calm, {})
      /\ alive' = alive /\ meth' = meth /\ inp' = [inp EXCEPT ![q] = << >>]
      /\ st.worker[q] = "live" /\ q \notin alive
  BY FlowFacts DEF MethodFailure, FlowInv, Calm, Clean
<1>2. /\ st'.worker = [st.worker EXCEPT ![q] = "dead"]
      /\ st'.out = [st.out EXCEPT ![q] = << >>] /\ st'.err = TRUE
      /\ st'.running = st.running /\ st'.created = st.created /\ st'.depth = st.depth
      /\ st'.stat = st.stat /\ st'.entry = st.entry
  BY <1>1 DEF MethodFailure, Memory
<1>3. \A p \in Queues : /\ st'.worker[p] = IF p = q THEN "dead" ELSE st.worker[p]
                        /\ st'.out[p] = IF p = q THEN << >> ELSE st.out[p]
                        /\ inp'[p] = IF p = q THEN << >> ELSE inp[p]
  BY <1>1, <1>2 DEF Memory, Typed
<1>4. Lost' = Lost \ {q} /\ q \in Lost /\ alive' \subseteq Live(st')
  BY <1>1, <1>3 DEF Lost, Live, FlowInv
<1>5. meth[q] = << >>  BY <1>1, <1>4 DEF Flows, Flow, Wired
<1>6. Wired(st', inp', meth', Lost')
  BY <1>1, <1>2, <1>3, <1>4, <1>5 DEF Flows, Flow, Wired
<1>7. /\ Queued(st') = Queued(st)
      /\ \A p : QItems(st', p) = QItems(st, p) /\ Fetching(st', p) = Fetching(st, p)
  BY <1>2 DEF Queued, QItems, Fetching
<1>8. Rested(st', Calm') /\ WaitOK(st')
  BY <1>1, <1>2, <1>3, <1>7 DEF Flows, Flow, Rested, WaitOK
<1>9. Tallied(st', inp', meth', Lost', Calm') /\ FedBut(st', {})
  BY <1>2 DEF Tallied, FedBut
<1>10. Staffed(st')
  <2>1. st.created \subseteq Queues  BY <1>1 DEF Memory
  <2> QED  BY <1>1, <1>2, <1>3, <2>1 DEF Flows, Staffed
<1> QED  BY <1>4, <1>6, <1>8, <1>9, <1>10 DEF FlowInv, Flows, Flow

\* The lengths of sequences that change by an element.
LEMMA Lengths ==
    ASSUME NEW S, NEW s \in Seq(S), NEW e \in S
    PROVE  /\ Len(s) \in Nat
           /\ s # << >> => Len(Tail(s)) = Len(s) - 1 /\ Len(Append(Tail(s), e)) = Len(s)
           /\ Len(Append(s, e)) = Len(s) + 1
           /\ s # << >> => Len([s EXCEPT ![1] = e]) = Len(s)
<1>1. Len(s) \in Nat /\ Len(Append(s, e)) = Len(s) + 1  OBVIOUS
<1>2. ASSUME s # << >> PROVE Len(Tail(s)) = Len(s) - 1 /\ Len(Append(Tail(s), e)) = Len(s)
  <2>1. Tail(s) \in Seq(S) /\ Len(Tail(s)) = Len(s) - 1  BY <1>2
  <2>2. Len(Append(Tail(s), e)) = Len(Tail(s)) + 1  BY <2>1
  <2> QED  BY <1>1, <2>1, <2>2
<1>3. s # << >> => Len([s EXCEPT ![1] = e]) = Len(s)
  <2>1. s # << >> => 1 \in 1..Len(s)  OBVIOUS
  <2> QED  BY <2>1, ExceptSeq
<1> QED  BY <1>1, <1>2, <1>3

\* The method's steps keep the requests and answers of its queue together.
LEMMA MethodFlow ==
    ASSUME Inv, Inv', FlowInv, NEW q \in Queues, Method(q)
    PROVE  FlowInv'
<1>1. /\ st \in Memory /\ Typed(inp, meth) /\ Calm \in SUBSET Queues
      /\ inp[q] \in Seq(Message) /\ meth[q] \in Seq(Request) /\ st.out[q] \in Seq(Request)
      /\ Calm' = Calm /\ alive' = alive /\ q \in alive /\ st.worker[q] = "live"
      /\ Flows(st, inp, meth, Lost, Calm, {}) /\ q \notin Lost
  <2>1. results' = results /\ alive' = alive /\ q \in alive
    BY DEF Method, MethodRead, MethodStart, MethodAnswer, MethodRedirect
  <2> QED  BY <2>1, FlowFacts DEF FlowInv, Calm, Clean, Lost, Live
<1>2. st' \in Memory /\ Typed(inp', meth')  BY DEF Inv, TypeOK, Typed
<1>3. /\ Steady(st, st') /\ st'.worker = st.worker
      /\ Aside(st, inp, meth, st', inp', meth', q)
      /\ Load(st', inp', meth', q) = Load(st, inp, meth, q)
  <2> DEFINE a == Answers(inp[q])  b == Len(meth[q])  o == Len(st.out[q])
  <2>1. a \in Nat /\ b \in Nat /\ o \in Nat  BY <1>1, LoadNat
  <2>2. CASE MethodRead(q)
    <3>1. /\ st.out[q] # << >> /\ meth' = [meth EXCEPT ![q] = Append(@, Head(st.out[q]))]
          /\ st' = [st EXCEPT !.out[q] = Tail(@)] /\ inp' = inp
      BY <2>2 DEF MethodRead
    <3>2. /\ st'.out = [st.out EXCEPT ![q] = Tail(@)]
          /\ st'.worker = st.worker /\ st'.running = st.running /\ st'.created = st.created
          /\ st'.depth = st.depth /\ st'.err = st.err /\ st'.stat = st.stat
          /\ st'.entry = st.entry
      BY <1>1, <3>1 DEF Memory
    <3>3. Steady(st, st')  BY <3>2 DEF Steady, Queued, QItems, Fetching
    <3>4. Aside(st, inp, meth, st', inp', meth', q)
      BY <1>1, <3>1, <3>2 DEF Aside, Typed, Memory
    <3>5. st'.out[q] = Tail(st.out[q]) /\ meth'[q] = Append(meth[q], Head(st.out[q]))
      BY <1>1, <3>1, <3>2 DEF Typed, Memory
    <3>6. Len(st'.out[q]) = o - 1 /\ Len(meth'[q]) = b + 1
      <4>1. Head(st.out[q]) \in Request  BY <1>1, <3>1
      <4>2. Len(Tail(st.out[q])) = o - 1  BY <1>1, <3>1, <4>1, Lengths
      <4>3. Len(Append(meth[q], Head(st.out[q]))) = b + 1  BY <1>1, <4>1, Lengths
      <4> QED  BY <3>5, <4>2, <4>3
    <3>7. Load(st', inp', meth', q) = a + ((b + 1) + (o - 1)) /\ Load(st, inp, meth, q) = a + (b + o)
      BY <3>1, <3>6 DEF Load
    <3> HIDE DEF a, b, o
    <3> QED  BY <2>1, <3>2, <3>3, <3>4, <3>7
  <2>3. CASE MethodStart(q) \/ MethodAnswer(q) \/ MethodRedirect(q)
    <3>1. st' = st /\ meth[q] # << >>  BY <2>3 DEF MethodStart, MethodAnswer, MethodRedirect
    <3>2. Steady(st, st')  BY <3>1 DEF Steady
    <3>3. PICK kind \in {"start", "done", "fail", "redirect"}, to \in URIs :
            /\ Say(q, kind, to)
            /\ Len(meth'[q]) = (IF kind \in {"done", "fail"} THEN b - 1 ELSE b)
            /\ \A p \in Queues \ {q} : meth'[p] = meth[p]
      <4>1. Head(meth[q]) \in Request  BY <1>1, <3>1
      <4>2. Head(meth[q]).uri \in URIs  BY <4>1 DEF Request
      <4>3. CASE MethodStart(q)
        <5> DEFINE r == [meth[q][1] EXCEPT !.begun = TRUE]
        <5>1. meth' = [meth EXCEPT ![q] = [meth[q] EXCEPT ![1] = r]] /\ Say(q, "start", Head(meth[q]).uri)
          BY <4>3 DEF MethodStart
        <5> HIDE DEF r
        <5>2. meth'[q] = [meth[q] EXCEPT ![1] = r] /\ \A p \in Queues \ {q} : meth'[p] = meth[p]
          BY <1>1, <5>1 DEF Typed
        <5>3. Len(meth'[q]) = b
          <6>1. meth[q][1] \in Request  BY <1>1, <3>1
          <6>2. r \in Request  BY <6>1 DEF r, Request
          <6>3. Len([meth[q] EXCEPT ![1] = r]) = Len(meth[q])  BY <1>1, <3>1, <6>2, Lengths
          <6> QED  BY <5>2, <6>3
        <5> QED  BY <4>2, <5>1, <5>2, <5>3
      <4>4. CASE MethodAnswer(q)
        <5>1. PICK kind \in {"done", "fail"} : Say(q, kind, Head(meth[q]).uri)
          BY <4>4 DEF MethodAnswer
        <5>2. meth'[q] = Tail(meth[q]) /\ \A p \in Queues \ {q} : meth'[p] = meth[p]
          BY <1>1, <4>4 DEF MethodAnswer, Typed
        <5>3. Len(meth'[q]) = b - 1  BY <1>1, <3>1, <5>2
        <5> QED  BY <4>2, <5>1, <5>2, <5>3
      <4>5. CASE MethodRedirect(q)
        <5>1. PICK u \in URIs \ {Head(meth[q]).uri} :
                /\ Say(q, "redirect", u)
                /\ meth' = [meth EXCEPT ![q] =
                              Append(Tail(@), [uri |-> u, file |-> Head(@).file,
                                               begun |-> Head(@).begun, hops |-> Head(@).hops + 1])]
          BY <4>5 DEF MethodRedirect
        <5> DEFINE r == [uri |-> u, file |-> Head(meth[q]).file,
                         begun |-> Head(meth[q]).begun, hops |-> Head(meth[q]).hops + 1]
        <5>2. meth' = [meth EXCEPT ![q] = Append(Tail(meth[q]), r)]  BY <5>1
        <5> HIDE DEF r
        <5>3. meth'[q] = Append(Tail(meth[q]), r) /\ \A p \in Queues \ {q} : meth'[p] = meth[p]
          BY <1>1, <5>2 DEF Typed
        <5>4. Len(meth'[q]) = b
          <6>1. r \in Request
            <7> DEFINE h == Head(meth[q])
            <7>1. r = [uri |-> u, file |-> h.file, begun |-> h.begun, hops |-> h.hops + 1]
              BY DEF r
            <7> HIDE DEF h
            <7> QED  BY <4>1, <7>1 DEF Request, h
          <6>2. Len(Append(Tail(meth[q]), r)) = Len(meth[q])  BY <1>1, <3>1, <6>1, Lengths
          <6> QED  BY <5>3, <6>2
        <5> QED  BY <5>1, <5>3, <5>4
      <4> QED  BY <2>3, <4>3, <4>4, <4>5
    <3> DEFINE m == [kind |-> kind, uri |-> Head(meth[q]).uri, file |-> Head(meth[q]).file,
                     to |-> to]
    <3>4. m \in Message /\ (Final(m) <=> kind \in {"done", "fail"})
      <4>1. Head(meth[q]) \in Request  BY <1>1, <3>1
      <4> QED  BY <4>1 DEF Request, Message, Final
    <3>5. inp' = [inp EXCEPT ![q] = Append(@, m)]  BY <3>3 DEF Say
    <3> HIDE DEF m
    <3>6. inp'[q] = Append(inp[q], m) /\ \A p \in Queues \ {q} : inp'[p] = inp[p]
      BY <1>1, <3>5 DEF Typed
    <3>7. Answers(inp'[q]) = a + IF Final(m) THEN 1 ELSE 0
      <4>1. Answers(Append(inp[q], m)) = a + IF Final(m) THEN 1 ELSE 0
        BY <1>1, <3>4, AnswersAppend
      <4>2. inp'[q] = Append(inp[q], m)  BY <3>6
      <4>3. Answers(inp'[q]) = Answers(Append(inp[q], m))  BY <4>2
      <4> HIDE DEF a
      <4> QED  BY <4>1, <4>3
    <3>8. Aside(st, inp, meth, st', inp', meth', q)  BY <3>1, <3>3, <3>6 DEF Aside
    <3>9. /\ Load(st', inp', meth', q) = Answers(inp'[q]) + (Len(meth'[q]) + o)
          /\ Load(st, inp, meth, q) = a + (b + o)
      BY <3>1 DEF Load
    <3>10. Load(st', inp', meth', q) = Load(st, inp, meth, q)
      <4>1. CASE kind \in {"done", "fail"}
        <5>1. Answers(inp'[q]) = a + 1  BY <3>4, <3>7, <4>1
        <5>2. Len(meth'[q]) = b - 1  BY <3>3, <4>1
        <5>3. Load(st', inp', meth', q) = (a + 1) + ((b - 1) + o)  BY <3>9, <5>1, <5>2
        <5> HIDE DEF a, b, o
        <5> QED  BY <2>1, <3>9, <5>3
      <4>2. CASE kind \notin {"done", "fail"}
        <5>1. ~Final(m)  BY <3>4, <4>2
        <5>2. Answers(inp'[q]) = a + 0  BY <3>7, <5>1
        <5>3. Len(meth'[q]) = b  BY <3>3, <4>2
        <5>4. Load(st', inp', meth', q) = (a + 0) + (b + o)  BY <3>9, <5>2, <5>3
        <5> HIDE DEF a, b, o
        <5> QED  BY <2>1, <3>9, <5>4
      <4> QED  BY <4>1, <4>2
    <3> QED  BY <3>1, <3>2, <3>8, <3>10
  <2> QED  BY <2>2, <2>3 DEF Method
<1>4. Lost' = Lost /\ (alive' \subseteq Live(st'))
  BY <1>1, <1>3 DEF Lost, Live, FlowInv
<1>5. Flows(st', inp', meth', Lost, Calm, {})
  BY <1>1, <1>2, <1>3, LineFlow
<1> QED  BY <1>1, <1>4, <1>5 DEF FlowInv

\* A method dies: what it held is lost.
LEMMA DieFlow ==
    ASSUME Inv, Inv', FlowInv, NEW q \in Queues, MethodDie(q)
    PROVE  FlowInv'
<1>1. /\ st \in Memory /\ Typed(inp, meth) /\ Calm \in SUBSET Queues
      /\ Calm' = Calm /\ alive' = alive \ {q} /\ q \in alive /\ st.worker[q] = "live"
      /\ st' = st /\ inp' = inp /\ meth' = [meth EXCEPT ![q] = << >>]
      /\ Flows(st, inp, meth, Lost, Calm, {})
  BY FlowFacts DEF MethodDie, FlowInv, Calm, Clean, Live
<1>2. Typed(inp', meth')  BY DEF Inv, TypeOK, Typed
<1>3. meth'[q] = << >> /\ \A p \in Queues \ {q} : meth'[p] = meth[p]
  BY <1>1 DEF Typed
<1>4. Lost' = Lost \cup {q} /\ alive' \subseteq Live(st')
  BY <1>1 DEF Lost, Live, FlowInv
<1>5. Load(st, inp, meth', q) <= Load(st, inp, meth, q)
  <2> DEFINE a == Answers(inp[q])  b == Len(meth[q])  o == Len(st.out[q])
  <2>1. a \in Nat /\ b \in Nat /\ o \in Nat  BY <1>1, LoadNat
  <2>2. Load(st, inp, meth', q) = a + (0 + o) /\ Load(st, inp, meth, q) = a + (b + o)
    BY <1>3 DEF Load
  <2> HIDE DEF a, b, o
  <2> QED  BY <2>1, <2>2
<1>6. Steady(st, st) /\ Aside(st, inp, meth, st, inp, meth', q)  BY <1>3 DEF Steady, Aside
<1>7. Flows(st, inp, meth', Lost \cup {q}, Calm, {})
  BY <1>1, <1>2, <1>3, <1>5, <1>6, LineFlow
<1> QED  BY <1>1, <1>4, <1>7 DEF FlowInv

\* An item enters while no Run is on: no worker is started.
LEMMA ConstructFlow ==
    ASSUME Inv, Inv', FlowInv, NEW it \in Items, Construct(it)
    PROVE  FlowInv'
<1> DEFINE s == [st EXCEPT !.born = @ \cup {it}]
<1>1. PICK ok \in BOOLEAN : st' = Enqueue(s, it, FirstURI[it], ok, {})
  BY DEF Construct
<1>2. /\ st \in Memory /\ Good(st) /\ Typed(inp, meth) /\ Calm \in SUBSET Queues
      /\ ~st.running /\ meth' = meth /\ alive' = alive /\ inp' = inp /\ Calm' = Calm
      /\ Flows(st, inp, meth, Lost, Calm, {})
  BY FlowFacts DEF Construct, FlowInv, Calm, Clean
<1>3. s \in Memory  BY <1>2 DEF Memory
<1>4. /\ s.stat = st.stat /\ s.entry = st.entry /\ s.depth = st.depth /\ s.maxd = st.maxd
      /\ s.tail = st.tail /\ s.created = st.created /\ s.toFetch = st.toFetch
      /\ s.born = st.born \cup {it} /\ s.err = st.err /\ s.current = st.current
      /\ s.worker = st.worker /\ s.out = st.out /\ s.pref = st.pref /\ s.running = st.running
      /\ s.err \in BOOLEAN
  BY <1>2 DEF Memory
<1> HIDE DEF s
<1>5. Same(st, s)  BY <1>4 DEF Same, Beside
<1>6. Good(s)
  <2>1. Alike(st, s)  BY <1>2, <1>4 DEF Alike, Good, WorkerOK
  <2> QED  BY <1>2, <1>3, <2>1, AlikeGood
<1>7. Flows(s, inp, meth, Lost, Calm, {})  BY <1>2, <1>5, SameFlow
<1>8. s.entry[it] = None /\ it \in s.born
  BY <1>2, <1>4 DEF Construct, Good, BornOK, Queued
<1> DEFINE u == FirstURI[it]
           q == QueueOf[u]
<1>9. u \in URIs /\ q \in Queues  BY ConstantsOK DEF ConstantsOK
<1>10. Refused(s, st') \/ Accepted(s, it, q, u, {}, st')
  BY <1>1, <1>6, <1>8, <1>9, EnqueueSteps
<1> HIDE DEF u, q
<1>11. CASE Refused(s, st')
  <2>1. Same(s, st') /\ st'.worker = st.worker  BY <1>4, <1>11 DEF Refused, Same, Beside
  <2>2. Flows(st', inp, meth, Lost, Calm, {})  BY <1>6, <1>7, <2>1, SameFlow
  <2>3. Lost' = Lost /\ alive' \subseteq Live(st')  BY <1>2, <2>1 DEF Lost, Live, FlowInv
  <2> QED  BY <1>2, <2>2, <2>3 DEF FlowInv
<1>12. CASE Accepted(s, it, q, u, {}, st')
  <2>1. Flows(st', inp, meth, Lost, Calm, {})
    BY <1>2, <1>6, <1>7, <1>9, <1>12, AcceptedFlow
  <2>2. st'.worker = st.worker
    <3>1. PICK r, d : /\ Good(r) /\ Opened(s, q, {}, r) /\ r.entry[it] = None
                      /\ Good(d) /\ Entered(r, it, q, u, d)
                      /\ IF QItems(r, q) = {} THEN st' = Cycle(d, {q}) ELSE st' = d
      BY <1>12 DEF Accepted
    <3>2. PICK w : Good(w) /\ Named(s, q, w) /\ r = w
      BY <1>2, <1>4, <3>1 DEF Opened
    <3>3. d.worker = st.worker  BY <1>4, <3>1, <3>2 DEF Named, Entered, Beside
    <3>4. Cycle(d, {q}).worker = d.worker
      <4>1. Cycled(d, {q}, Cycle(d, {q}))  BY <3>1, CycleFields DEF Good
      <4> QED  BY <4>1 DEF Cycled
    <3> QED  BY <3>1, <3>3, <3>4
  <2>3. Lost' = Lost /\ alive' \subseteq Live(st')  BY <1>2, <2>2 DEF Lost, Live, FlowInv
  <2> QED  BY <1>2, <2>1, <2>3 DEF FlowInv
<1> QED  BY <1>10, <1>11, <1>12

\* RunStart as steps: Run is on, the workers start, every queue with a worker
\* that works is cycled.
LEMMA RunStartDoes ==
    ASSUME Inv, RunStart
    PROVE  \E s, w, fresh, up :
             /\ s = [st EXCEPT !.running = TRUE] /\ Good(s) /\ Good(w)
             /\ fresh = {q \in st.created : st.worker[q] = "none"}
             /\ Started(s, fresh, up, w)
             /\ st' = Cycle(w, st.created \ (fresh \ up))
             /\ s.worker = st.worker /\ s.out = st.out /\ s.err = st.err /\ s.pref = st.pref
             /\ s.created = st.created /\ s.depth = st.depth /\ s.stat = st.stat
             /\ s.entry = st.entry /\ s.running = TRUE
<1> DEFINE s == [st EXCEPT !.running = TRUE]
           fresh == {q \in st.created : st.worker[q] = "none"}
<1>1. PICK up \in SUBSET st.created, reuse \in SUBSET st.created :
        st' = Startup(s, st.created, up, reuse)
  BY DEF RunStart
<1>2. st \in Memory /\ Good(st)  BY DEF Inv, Good
<1>3. s \in Memory  BY <1>2 DEF Memory
<1>4. /\ s.stat = st.stat /\ s.entry = st.entry /\ s.depth = st.depth /\ s.maxd = st.maxd
      /\ s.tail = st.tail /\ s.created = st.created /\ s.toFetch = st.toFetch
      /\ s.born = st.born /\ s.err = st.err /\ s.current = st.current
      /\ s.worker = st.worker /\ s.out = st.out /\ s.running = TRUE /\ s.pref = st.pref
      /\ st.created \in SUBSET Queues
  BY <1>2 DEF Memory
<1>5. Good(s)
  <2> HIDE DEF s
  <2>1. Alike(st, s)  BY <1>2, <1>4 DEF Alike, Good, WorkerOK
  <2> QED  BY <1>2, <1>3, <2>1, AlikeGood
<1> DEFINE w == StartWorkers(s, fresh, up, reuse)
<1>6. st' = Cycle(w, st.created \ (fresh \ up))
  <2>1. fresh = {q \in st.created : s.worker[q] = "none"}  BY <1>4
  <2> HIDE DEF s, fresh
  <2> QED  BY <1>1, <2>1 DEF Startup
<1>7. fresh \in SUBSET Queues  BY <1>4
<1> HIDE DEF fresh
<1>8. Good(w) /\ Started(s, fresh, up, w)
  <2> HIDE DEF s
  <2> QED  BY <1>3, <1>5, <1>7, StartWorkersGood, StartDoes
<1> HIDE DEF w
<1> QED  BY <1>4, <1>5, <1>6, <1>8 DEF fresh

\* Run starts.
LEMMA RunStartFlow ==
    ASSUME Inv, Inv', FlowInv, RunStart
    PROVE  FlowInv'
<1>1. /\ st \in Memory /\ Good(st) /\ Typed(inp, meth) /\ Calm \in SUBSET Queues
      /\ meth' = meth /\ inp' = inp /\ Calm' = Calm /\ alive' = alive \cup Spawned(st, st')
      /\ Flows(st, inp, meth, Lost, Calm, {}) /\ st.created \subseteq Queues
  BY FlowFacts DEF RunStart, FlowInv, Calm, Clean, Memory
<1>2. PICK s, w, fresh, up :
        /\ Good(s) /\ Good(w)
        /\ fresh = {q \in st.created : st.worker[q] = "none"}
        /\ Started(s, fresh, up, w)
        /\ st' = Cycle(w, st.created \ (fresh \ up))
        /\ s.worker = st.worker /\ s.out = st.out /\ s.err = st.err /\ s.pref = st.pref
        /\ s.created = st.created /\ s.depth = st.depth /\ s.stat = st.stat
        /\ s.entry = st.entry /\ s.running = TRUE
  BY RunStartDoes
<1>3. Queued(s) = Queued(st) /\ \A q : QItems(s, q) = QItems(st, q) /\ Fetching(s, q) = Fetching(st, q)
  BY <1>2 DEF Queued, QItems, Fetching
<1>4. Flow(s, inp, meth, Lost, Calm)
  <2>1. Wired(s, inp, meth, Lost)  BY <1>1, <1>2 DEF Flows, Flow, Wired
  <2>2. Rested(s, Calm) /\ WaitOK(s)  BY <1>1, <1>2, <1>3 DEF Flows, Flow, Rested, WaitOK
  <2>3. Tallied(s, inp, meth, Lost, Calm)  BY <1>1, <1>2 DEF Flows, Flow, Tallied, Load
  <2> QED  BY <2>1, <2>2, <2>3 DEF Flow
<1>5. /\ fresh \in SUBSET Queues /\ fresh \subseteq s.created
      /\ \A q \in fresh : s.worker[q] = "none"
      /\ \A q \in s.created : s.worker[q] = "none" => q \in fresh
  BY <1>1, <1>2
<1>6. FedBut(s, Queues)  BY DEF FedBut
<1>7. Flows(w, inp, meth, Lost, Calm, Queues)
  BY <1>1, <1>2, <1>4, <1>5, <1>6, StartFlow
<1> DEFINE Qs == st.created \ (fresh \ up)
<1>8. Qs \in SUBSET Queues /\ st' = Cycle(w, Qs)  BY <1>1, <1>2
<1> HIDE DEF Qs
<1>9. Flows(st', inp, meth, Lost, Calm, Queues \ Qs)
  BY <1>1, <1>2, <1>7, <1>8, CycleFlow
<1>10. Cycled(w, Qs, st')
  <2>1. w \in Memory  BY <1>2 DEF Good
  <2> QED  BY <1>8, <2>1, CycleFields
<1>11. FedBut(st', {})
  <2> SUFFICES ASSUME st'.running, ~st'.err, NEW q \in Queues, QItems(st', q) # {}
               PROVE  Fetching(st', q) # {}
    BY DEF FedBut
  <2>1. ~w.err  BY <1>10 DEF Cycled
  <2>2. fresh \subseteq up  BY <1>2, <2>1 DEF Started
  <2>3. st'.created = st.created  BY <1>2, <1>10 DEF Cycled, Started
  <2>4. q \in st'.created  BY DEF Inv, Good, OrderOK, QItems, Queued
  <2>5. q \in Qs  BY <2>2, <2>3, <2>4 DEF Qs
  <2> QED  BY <1>9, <2>5 DEF Flows, FedBut
<1>12. Manned(st, st')
  <2>1. st'.worker = w.worker  BY <1>10 DEF Cycled
  <2>2. \A q \in Queues : w.worker[q] = IF q \notin fresh THEN st.worker[q]
                                        ELSE IF q \in up THEN "live" ELSE "dead"
    BY <1>2 DEF Started
  <2>3. \A q \in fresh : st.worker[q] = "none"  BY <1>2
  <2> QED  BY <2>1, <2>2, <2>3 DEF Manned
<1>13. Lost' = Lost /\ (alive \subseteq Live(st))'  BY <1>1, <1>12, HandlerLost
<1> QED  BY <1>1, <1>9, <1>11, <1>13 DEF FlowInv, Flows

\* What a Run that ends adds to the results.
LEMMA RunEndResult ==
    ASSUME Inv, NEW cancelled \in BOOLEAN, RunEnd(cancelled)
    PROVE  /\ Len(results') = Len(results) + 1
           /\ results'[Len(results')] = "Continue" => ~st.err /\ ~cancelled
           /\ Clean' => Clean /\ results'[Len(results')] = "Continue"
<1> DEFINE x == CASE st.err -> "Failed" [] cancelled -> "Cancelled" [] OTHER -> "Continue"
<1>1. results' = Append(results, x)  BY DEF RunEnd
<1>2. x = "Continue" => ~st.err /\ ~cancelled  OBVIOUS
<1>3. results \in Seq({"Continue", "Failed", "Cancelled"}) /\ st.err \in BOOLEAN
  BY DEF Inv, TypeOK, Good, Memory
<1>4. x \in {"Continue", "Failed", "Cancelled"}  BY <1>3
<1> HIDE DEF x
<1> DEFINE n == Len(results)
<1>5. n \in Nat /\ Len(results') = n + 1 /\ results'[n + 1] = x
      /\ \A k \in 1..n : results'[k] = results[k]
  BY <1>1, <1>3, <1>4
<1>6. DOMAIN results = 1..n /\ DOMAIN results' = 1..(n + 1)  BY <1>1, <1>3, <1>4
<1>7. Clean' => Clean /\ results'[n + 1] = "Continue"
  <2> SUFFICES ASSUME Clean' PROVE Clean /\ results'[n + 1] = "Continue"  OBVIOUS
  <2>1. \A k \in 1..(n + 1) : results'[k] = "Continue"  BY <1>6 DEF Clean
  <2> HIDE DEF n
  <2>2. \A k \in 1..n : results[k] = "Continue"  BY <1>5, <2>1
  <2>3. results'[n + 1] = "Continue"  BY <1>5, <2>1
  <2> QED  BY <1>6, <2>2, <2>3 DEF Clean
<1> QED  BY <1>2, <1>5, <1>7

\* Nothing is queued when a Run reports success.
LEMMA SuccessIsEmpty ==
    ASSUME Inv, NEW cancelled \in BOOLEAN, RunEnd(cancelled),
           st.err \/ cancelled \/ st.toFetch <= 0,
           results'[Len(results')] = "Continue"
    PROVE  ~st.err /\ Queued(st) = {}
<1>1. ~st.err /\ ~cancelled  BY RunEndResult
<1>2. st.toFetch = Cardinality(Queued(st)) /\ st.toFetch <= 0
  BY <1>1 DEF Inv, Good, ToFetchOK
<1>3. IsFiniteSet(Queued(st))  BY Finite
<1>4. Cardinality(Queued(st)) \in Nat  BY <1>3, FS_CardinalityType
<1>5. Cardinality(Queued(st)) = 0  BY <1>2, <1>4
<1> QED  BY <1>1, <1>3, <1>5, FS_EmptySet

\* The lines after a Run, gone the queues that give their workers up.
Ended(gone) ==
    /\ gone = {q \in st.created : q \notin NeedsCleanup}
    /\ \A q \in Queues :
         /\ st'.worker[q] = IF q \in gone THEN "none" ELSE st.worker[q]
         /\ st'.out[q] = IF q \in gone THEN << >> ELSE st.out[q]
         /\ meth'[q] = IF q \in gone THEN << >> ELSE meth[q]
         /\ inp'[q] = IF q \in gone THEN << >> ELSE inp[q]
    /\ alive' = alive \ gone
    /\ st'.created = st.created /\ st'.err = st.err /\ st'.running = FALSE
    /\ st'.depth = st.depth /\ st'.stat = st.stat
    /\ \A x \in Items : /\ (st'.entry[x] = None) <=> (st.entry[x] = None)
                        /\ st.entry[x] # None => st'.entry[x].queue = st.entry[x].queue
                        /\ st.entry[x].queue \notin gone => st'.entry[x] = st.entry[x]

LEMMA RunEndDoes ==
    ASSUME Inv, NEW cancelled \in BOOLEAN, RunEnd(cancelled)
    PROVE  \E gone \in SUBSET st.created : Ended(gone)
<1>1. st \in Memory  BY DEF Inv, Good
<1> DEFINE gone == {q \in st.created : q \notin NeedsCleanup}
           W == [q \in Queues |-> IF q \in gone THEN "none" ELSE st.worker[q]]
           C == [q \in Queues |-> IF q \in gone THEN None ELSE st.current[q]]
           O == [q \in Queues |-> IF q \in gone THEN << >> ELSE st.out[q]]
           left(it) == /\ st.entry[it] # None
                       /\ st.entry[it].queue \in gone
                       /\ st.entry[it].worker = "current"
           E == [it \in Items |-> IF left(it) THEN [st.entry[it] EXCEPT !.worker = "stale"]
                                  ELSE st.entry[it]]
<1>2. st' = [st EXCEPT !.running = FALSE, !.worker = W, !.current = C, !.out = O, !.entry = E]
  BY Zenon DEF RunEnd
<1>3. /\ meth' = [q \in Queues |-> IF q \in gone THEN << >> ELSE meth[q]]
      /\ inp' = [q \in Queues |-> IF q \in gone THEN << >> ELSE inp[q]]
      /\ alive' = alive \ gone
  BY DEF RunEnd
<1>4. \A q \in Queues : /\ W[q] = IF q \in gone THEN "none" ELSE st.worker[q]
                        /\ O[q] = IF q \in gone THEN << >> ELSE st.out[q]
  OBVIOUS
<1>5. \A it \in Items : /\ (E[it] = None) <=> (st.entry[it] = None)
                        /\ st.entry[it] # None => E[it].queue = st.entry[it].queue
                        /\ st.entry[it].queue \notin gone => E[it] = st.entry[it]
  <2> TAKE it \in Items
  <2>1. CASE left(it)
    <3>1. st.entry[it] \in Entry /\ E[it] = [st.entry[it] EXCEPT !.worker = "stale"]
      BY <1>1, <2>1 DEF Memory
    <3> HIDE DEF E
    <3> QED  BY <2>1, <3>1, WithWorker
  <2>2. CASE ~left(it)
    <3>1. E[it] = st.entry[it]  BY <2>2
    <3> HIDE DEF E
    <3> QED  BY <3>1
  <2> QED  BY <2>1, <2>2
<1> HIDE DEF W, C, O, E
<1>6. /\ st'.worker = W /\ st'.out = O /\ st'.entry = E /\ st'.running = FALSE
      /\ st'.created = st.created /\ st'.err = st.err
      /\ st'.depth = st.depth /\ st'.stat = st.stat
  BY <1>1, <1>2 DEF Memory
<1>7. gone \in SUBSET st.created /\ gone = {q \in st.created : q \notin NeedsCleanup}  OBVIOUS
<1> HIDE DEF gone
<1>8. \A q \in Queues : /\ meth'[q] = IF q \in gone THEN << >> ELSE meth[q]
                        /\ inp'[q] = IF q \in gone THEN << >> ELSE inp[q]
  BY <1>3
<1>9. Ended(gone)  BY <1>3, <1>4, <1>5, <1>6, <1>7, <1>8 DEF Ended
<1> QED  BY <1>7, <1>9

\* Run ends.
LEMMA RunEndFlow ==
    ASSUME Inv, Inv', FlowInv, NEW cancelled \in BOOLEAN, RunEnd(cancelled),
           st.err \/ cancelled \/ st.toFetch <= 0
    PROVE  FlowInv'
<1>1. PICK gone \in SUBSET st.created : Ended(gone)  BY RunEndDoes
<1>2. /\ \A q \in Queues :
         /\ st'.worker[q] = IF q \in gone THEN "none" ELSE st.worker[q]
         /\ st'.out[q] = IF q \in gone THEN << >> ELSE st.out[q]
         /\ meth'[q] = IF q \in gone THEN << >> ELSE meth[q]
         /\ inp'[q] = IF q \in gone THEN << >> ELSE inp[q]
      /\ alive' = alive \ gone
      /\ st'.created = st.created /\ st'.err = st.err /\ st'.running = FALSE
      /\ st'.depth = st.depth /\ st'.stat = st.stat
      /\ \A x \in Items : /\ (st'.entry[x] = None) <=> (st.entry[x] = None)
                          /\ st.entry[x] # None => st'.entry[x].queue = st.entry[x].queue
  BY <1>1 DEF Ended
<1>3. /\ st \in Memory /\ Good(st) /\ Typed(inp, meth) /\ Calm \in SUBSET Queues
      /\ Flows(st, inp, meth, Lost, Calm, {})
  BY FlowFacts DEF FlowInv
<1>4. /\ Queued(st') = Queued(st)
      /\ \A q : QItems(st', q) = QItems(st, q) /\ Fetching(st', q) = Fetching(st, q)
  <2>1. Queued(st') = Queued(st)  BY <1>2 DEF Queued
  <2>2. \A q : QItems(st', q) = QItems(st, q)  BY <1>2, <2>1 DEF QItems, Queued
  <2> QED  BY <1>2, <2>1, <2>2 DEF Fetching
<1>5. Lost' = Lost \ gone /\ alive' \subseteq Live(st')
  BY <1>2 DEF Lost, Live, FlowInv
<1>6. Calm' \subseteq Calm /\ (Calm' # {} => Queued(st) = {})
  <2>1. Clean' => Clean /\ results'[Len(results')] = "Continue"  BY RunEndResult
  <2>2. Clean' => Queued(st) = {}  BY <2>1, SuccessIsEmpty
  <2> QED  BY <2>1, <2>2 DEF Calm
<1>7. Wired(st', inp', meth', Lost')
  BY <1>2, <1>3, <1>5 DEF Flows, Flow, Wired
<1>8. Rested(st', Calm') /\ WaitOK(st')
  BY <1>2, <1>3, <1>4, <1>6 DEF Flows, Flow, Rested, WaitOK, Fetching, QItems
<1>9. Tallied(st', inp', meth', Lost', Calm')
  <2> SUFFICES ASSUME ~st'.err, NEW q \in Queues
               PROVE  /\ Load(st', inp', meth', q) <= st'.depth[q]
                      /\ (q \in Calm' \ Lost' /\ st'.worker[q] = "live")
                           => Load(st', inp', meth', q) = st'.depth[q]
    BY DEF Tallied
  <2>1. /\ Load(st, inp, meth, q) <= st.depth[q]
        /\ (q \in Calm \ Lost /\ st.worker[q] = "live") => Load(st, inp, meth, q) = st.depth[q]
    BY <1>2, <1>3 DEF Flows, Flow, Tallied
  <2>2. CASE q \in gone
    <3>1. st'.out[q] = << >> /\ meth'[q] = << >> /\ inp'[q] = << >> /\ st'.worker[q] = "none"
      BY <1>2, <2>2
    <3>2. Answers(inp'[q]) = 0
      <4>1. inp'[q] \in Seq(Message)  BY <3>1
      <4> QED  BY <3>1, <4>1, AnswersNat
    <3>3. Load(st', inp', meth', q) = 0  BY <3>1, <3>2 DEF Load
    <3>4. Load(st, inp, meth, q) \in Nat /\ st.depth[q] \in Int  BY <1>3, LoadNat DEF Memory
    <3> QED  BY <1>2, <2>1, <3>1, <3>3, <3>4
  <2>3. CASE q \notin gone
    <3>1. Load(st', inp', meth', q) = Load(st, inp, meth, q)  BY <1>2, <2>3 DEF Load
    <3> QED  BY <1>2, <1>5, <1>6, <2>1, <2>3, <3>1
  <2> QED  BY <2>2, <2>3
<1>10. Staffed(st') /\ FedBut(st', {})  BY <1>2 DEF Staffed, FedBut
<1> QED  BY <1>5, <1>7, <1>8, <1>9, <1>10 DEF FlowInv, Flows, Flow

\* Nothing queued, nothing on its way, no worker.
LEMMA EmptyFlow ==
    ASSUME NEW s \in Memory, NEW I, NEW M, NEW calm \in SUBSET Queues,
           \A x \in Items : s.entry[x] = None,
           \A q \in Queues : /\ s.worker[q] = "none" /\ s.depth[q] = 0 /\ s.out[q] = << >>
                             /\ I[q] = << >> /\ M[q] = << >>,
           s.running = FALSE
    PROVE  Flows(s, I, M, {}, calm, {})
<1>1. Queued(s) = {} /\ \A q : QItems(s, q) = {} /\ Fetching(s, q) = {}
  BY DEF Queued, QItems, Fetching
<1>2. \A q \in Queues : Load(s, I, M, q) = 0
  <2> SUFFICES ASSUME NEW q \in Queues PROVE Load(s, I, M, q) = 0  OBVIOUS
  <2>1. << >> \in Seq(Message) /\ Len(<< >>) = 0  OBVIOUS
  <2>2. Answers(<< >>) = 0  BY <2>1, AnswersNat
  <2>3. s.out[q] = << >> /\ I[q] = << >> /\ M[q] = << >>  OBVIOUS
  <2>4. Load(s, I, M, q) = 0 + (0 + 0)  BY <2>1, <2>2, <2>3 DEF Load
  <2> QED  BY <2>4
<1>3. Wired(s, I, M, {})  BY DEF Wired
<1>4. Rested(s, calm) /\ WaitOK(s) /\ Staffed(s) /\ FedBut(s, {})
  BY <1>1 DEF Rested, WaitOK, Staffed, FedBut
<1>5. Tallied(s, I, M, {}, calm)  BY <1>2 DEF Tallied
<1> QED  BY <1>3, <1>4, <1>5 DEF Flows, Flow

\* pkgAcquire::Shutdown leaves nothing.
LEMMA ShutdownDoes ==
    ASSUME Inv, Shutdown
    PROVE  /\ \A x \in Items : st'.entry[x] = None
           /\ \A q \in Queues : /\ st'.worker[q] = "none" /\ st'.depth[q] = 0 /\ st'.out[q] = << >>
                                /\ inp'[q] = << >> /\ meth'[q] = << >>
           /\ alive' = {} /\ st'.running = FALSE
<1>1. st \in Memory  BY DEF Inv, Good
<1> DEFINE refused == {it \in st.born : st.stat[it] = "Fetching"}
           n == st.toFetch - Cardinality(Queued(st) \ refused)
           x == st.err \/ (refused # {} /\ st.created # {})
<1>2. st' = [st EXCEPT
               !.toFetch = n, !.err = x, !.born = {},
               !.entry = [it \in Items |-> None], !.stat = [it \in Items |-> "Idle"],
               !.left = [it \in Items |-> Retries], !.created = {},
               !.worker = [q \in Queues |-> "none"], !.current = [q \in Queues |-> None],
               !.out = [q \in Queues |-> << >>], !.tail = [q \in Queues |-> 0],
               !.depth = [q \in Queues |-> 0], !.maxd = [q \in Queues |-> 1]]
  BY <1>1 DEF Shutdown, Memory
<1> HIDE DEF n, x
<1>3. /\ st'.entry = [it \in Items |-> None] /\ st'.worker = [q \in Queues |-> "none"]
      /\ st'.depth = [q \in Queues |-> 0] /\ st'.out = [q \in Queues |-> << >>]
      /\ st'.running = st.running
  BY <1>1, <1>2 DEF Memory
<1>4. /\ inp' = [q \in Queues |-> << >>] /\ meth' = [q \in Queues |-> << >>] /\ alive' = {}
      /\ st.running = FALSE
  BY <1>1 DEF Shutdown, Memory
<1> QED  BY <1>3, <1>4

\* pkgAcquire::Shutdown.
LEMMA ShutdownFlow == ASSUME Inv, Inv', FlowInv, Shutdown PROVE FlowInv'
<1>1. st \in Memory /\ st' \in Memory  BY DEF Inv, Good
<1>2. /\ \A x \in Items : st'.entry[x] = None
      /\ \A q \in Queues : /\ st'.worker[q] = "none" /\ st'.depth[q] = 0 /\ st'.out[q] = << >>
                           /\ inp'[q] = << >> /\ meth'[q] = << >>
      /\ alive' = {} /\ st'.running = FALSE
  BY ShutdownDoes
<1>3. Calm' \in SUBSET Queues  BY DEF Calm
<1>4. Live(st') = {}  BY <1>2 DEF Live
<1>5. Lost' = {}  BY <1>4 DEF Lost
<1>6. Flows(st', inp', meth', {}, Calm', {})  BY <1>1, <1>2, <1>3, EmptyFlow
<1> QED  BY <1>2, <1>5, <1>6 DEF FlowInv

LEMMA InitFlow == ASSUME Inv, Init PROVE FlowInv
<1>1. st \in Memory  BY DEF Inv, Good
<1>2. /\ \A x \in Items : st.entry[x] = None
      /\ \A q \in Queues : /\ st.worker[q] = "none" /\ st.depth[q] = 0 /\ st.out[q] = << >>
                           /\ inp[q] = << >> /\ meth[q] = << >>
      /\ alive = {} /\ st.running = FALSE
  BY DEF Init
<1>3. Calm \in SUBSET Queues  BY DEF Calm
<1>4. Lost = {}  BY <1>2 DEF Lost, Live
<1>5. Flows(st, inp, meth, {}, Calm, {})  BY <1>1, <1>2, <1>3, EmptyFlow
<1> QED  BY <1>2, <1>4, <1>5 DEF FlowInv

\* One case per action.
LEMMA StepFlow == ASSUME Inv, Inv', FlowInv, [Next]_vars PROVE FlowInv'
<1>1. ASSUME NEW it \in Items, Construct(it) PROVE FlowInv'  BY <1>1, ConstructFlow
<1>2. CASE RunStart  BY <1>2, RunStartFlow
<1>3. CASE RunFinish  BY <1>3, RunEndFlow DEF RunFinish
<1>4. CASE RunAbort  BY <1>4, RunEndFlow DEF RunAbort
<1>5. CASE RunCancel  BY <1>5, RunEndFlow DEF RunCancel
<1>6. CASE Shutdown  BY <1>6, ShutdownFlow
<1>7. ASSUME NEW q \in Queues, APT(q) PROVE FlowInv'
  <2>1. CASE URIDone(q)  BY <2>1, AnswerFlow DEF URIDone
  <2>2. CASE URIFailure(q)  BY <2>2, AnswerFlow DEF URIFailure
  <2>3. CASE URIStart(q) \/ Redirect(q)  BY <2>3, NewsFlow
  <2>4. CASE MethodFailure(q)  BY <2>4, FailureFlow
  <2> QED  BY <1>7, <2>1, <2>2, <2>3, <2>4 DEF APT
<1>8. ASSUME NEW q \in Queues, Method(q) \/ MethodDie(q) PROVE FlowInv'
  BY <1>8, MethodFlow, DieFlow
<1>9. CASE UNCHANGED vars \/ Stop
  <2>1. st' = st /\ meth' = meth /\ alive' = alive /\ inp' = inp /\ results' = results
    BY <1>9 DEF vars, Stop
  <2> QED  BY <2>1 DEF FlowInv, Lost, Calm, Clean
<1> QED  BY <1>1, <1>2, <1>3, <1>4, <1>5, <1>6, <1>7, <1>8, <1>9 DEF Next

\* The invariant is inductive.
LEMMA FlowAlways == Spec => [](Inv /\ FlowInv)
<1>1. Init => Inv /\ FlowInv  BY InitInv, InitFlow
<1>2. (Inv /\ FlowInv) /\ [Next]_vars => (Inv /\ FlowInv)'  BY StepInv, StepFlow
<1> QED  BY <1>1, <1>2, PTL DEF Spec


-----------------------------------------------------------------------------
(* The end of a Run.                                                       *)

\* An answer keeps Run on: neither Enqueue ...
LEMMA AcceptedRuns ==
    ASSUME NEW s, NEW it, NEW q \in Queues, NEW u, NEW up, NEW c, Accepted(s, it, q, u, up, c)
    PROVE  c.running = s.running
<1>1. PICK r, d : /\ Good(r) /\ Opened(s, q, up, r) /\ r.entry[it] = None
                  /\ Good(d) /\ Entered(r, it, q, u, d)
                  /\ IF QItems(r, q) = {} THEN c = Cycle(d, {q}) ELSE c = d
  BY DEF Accepted
<1>2. PICK w : /\ Good(w) /\ Named(s, q, w)
               /\ IF q \notin s.created /\ s.running THEN r = StartWorkers(w, {q}, up, {})
                                                    ELSE r = w
  BY <1>1 DEF Opened
<1>3. w.running = s.running /\ d.running = r.running  BY <1>1, <1>2 DEF Named, Entered, Beside
<1>4. r.running = w.running
  <2>1. CASE r = StartWorkers(w, {q}, up, {})
    <3>1. w \in Memory  BY <1>2 DEF Good
    <3>2. Started(w, {q}, up, r)  BY <2>1, <3>1, StartDoes
    <3> QED  BY <3>2 DEF Started
  <2>2. CASE r = w  BY <2>2
  <2> QED  BY <1>2, <2>1, <2>2
<1>5. c.running = d.running
  <2>1. CASE c = Cycle(d, {q})
    <3>1. d \in Memory  BY <1>1 DEF Good
    <3>2. Cycled(d, {q}, c)  BY <2>1, <3>1, CycleFields
    <3> QED  BY <3>2 DEF Cycled
  <2>2. CASE c = d  BY <2>2
  <2> QED  BY <1>1, <2>1, <2>2
<1> QED  BY <1>3, <1>4, <1>5

\* ... nor what goes before it.
LEMMA AnsweredRuns ==
    ASSUME NEW s, NEW q \in Queues, NEW it, NEW t, Answered(s, q, it, t)
    PROVE  t.running = s.running
<1>1. PICK c, b : Finished(s, q, it, c) /\ Good(c) /\ Same(c, b) /\ Good(b) /\ Owned(b, it, t)
  BY DEF Answered
<1>2. PICK d : Good(d) /\ Left(s, q, it, d) /\ c = Cycle(d, {q})  BY <1>1 DEF Finished
<1>3. Cycled(d, {q}, c)  BY <1>2, CycleFields DEF Good
<1>4. b.running = s.running  BY <1>1, <1>2, <1>3 DEF Left, Same, Beside, Cycled
<1>5. CASE Same(b, t)  BY <1>4, <1>5 DEF Same, Beside
<1>6. CASE \E u, up, f : /\ u \in URIs /\ Accepted(b, it, QueueOf[u], u, up, f)
                        /\ Good(f) /\ Same(f, t)
  <2>1. PICK u, up, f : u \in URIs /\ Accepted(b, it, QueueOf[u], u, up, f) /\ Good(f) /\ Same(f, t)
    BY <1>6
  <2>2. QueueOf[u] \in Queues  BY <2>1, ConstantsOK DEF ConstantsOK
  <2>3. f.running = b.running  BY <2>1, <2>2, AcceptedRuns
  <2> QED  BY <1>4, <2>1, <2>3 DEF Same, Beside
<1> QED  BY <1>1, <1>5, <1>6 DEF Owned

\* Run returns from its loop in three places.
LEMMA RunReturns ==
    ASSUME Inv, [Next]_vars, st.running = TRUE, st'.running = FALSE
    PROVE  RunFinish \/ RunAbort \/ RunCancel
<1>1. st \in Memory  BY DEF Inv, Good
<1>2. ASSUME NEW q \in Queues, NEW kind, NEW finals \in SUBSET {"Done", "Error", "Idle"},
             Answer(q, kind, finals)
      PROVE  FALSE
  <2> DEFINE it == FindItem(st, q, Head(inp[q]).uri)
  <2>1. \/ it = None /\ Same(st, st')
        \/ it \in Fetching(st, q) /\ Answered(st, q, it, st')
    BY <1>2, AnswerDoes
  <2> HIDE DEF it
  <2>2. CASE Same(st, st')  BY <2>2 DEF Same, Beside
  <2>3. CASE Answered(st, q, it, st')
    <3>1. st'.running = st.running  BY <2>3, AnsweredRuns
    <3> QED  BY <3>1
  <2> QED  BY <2>1, <2>2, <2>3
<1>3. ASSUME NEW q \in Queues, APT(q) PROVE FALSE
  <2>1. CASE URIDone(q)  BY <1>2, <2>1 DEF URIDone
  <2>2. CASE URIFailure(q)  BY <1>2, <2>2 DEF URIFailure
  <2>3. CASE URIStart(q)  BY <1>1, <2>3 DEF URIStart, Memory
  <2>4. CASE Redirect(q)  BY <1>1, <2>4 DEF Redirect, Memory
  <2>5. CASE MethodFailure(q)  BY <1>1, <2>5 DEF MethodFailure, Memory
  <2> QED  BY <1>3, <2>1, <2>2, <2>3, <2>4, <2>5 DEF APT
<1>4. ASSUME NEW q \in Queues, Method(q) \/ MethodDie(q) PROVE FALSE
  BY <1>1, <1>4 DEF Method, MethodRead, MethodStart, MethodAnswer, MethodRedirect, MethodDie, Memory
<1>5. CASE UNCHANGED vars \/ Stop  BY <1>5 DEF vars, Stop
<1>6. ~(\E it \in Items : Construct(it)) /\ ~RunStart /\ ~Shutdown
  BY DEF Construct, RunStart, Shutdown
<1> QED  BY <1>3, <1>4, <1>5, <1>6 DEF Next

\* A line with no answer and no request holds nothing.
LEMMA IdleLine ==
    ASSUME NEW i \in Seq(Message), NEW m, m = << >>, NEW o, o = << >>, Answers(i) = 0
    PROVE  {n \in DOMAIN (i \o (m \o o)) :
              n > Len(i) \/ (i \o (m \o o))[n].kind \in {"done", "fail"}} = {}
<1>1. Finals(i) = {}  BY AnswersNat
<1>2. << >> \o << >> = << >> /\ i \o << >> = i  OBVIOUS
<1>3. i \o (m \o o) = i  BY <1>2
<1>4. DOMAIN i = 1..Len(i) /\ Len(i) \in Nat  OBVIOUS
<1> QED  BY <1>1, <1>3, <1>4 DEF Finals, Final

\* When a Run reports success, nothing was on its way, and nothing is queued after it.
LEMMA RunLeavesNothing ==
    ASSUME Inv, Inv', FlowInv, NEW cancelled \in BOOLEAN, RunEnd(cancelled),
           st.err \/ cancelled \/ st.toFetch <= 0,
           results'[Len(results')] = "Continue"
    PROVE  /\ Queued(st') = {}
           /\ \A it \in Items : st'.stat[it] # "Fetching"
           /\ \A q \in Queues : Held(q) = {}
<1>1. \A x \in Items : (st'.entry[x] = None) <=> (st.entry[x] = None)
  BY RunEndDoes DEF Ended
<1>2. ~st.err /\ Queued(st) = {}  BY SuccessIsEmpty
<1>3. Queued(st') = {}  BY <1>1, <1>2 DEF Queued
<1>4. Good(st')  BY DEF Inv
<1>5. \A it \in Items : st'.stat[it] # "Fetching"  BY <1>3, <1>4 DEF Good, WorkerOK, Queued
<1>6. st \in Memory /\ Good(st) /\ Typed(inp, meth)  BY FlowFacts
<1>7. ASSUME NEW q \in Queues PROVE Held(q) = {}
  <2>1. Fetching(st, q) = {}  BY <1>2 DEF Fetching, QItems
  <2>2. st.depth[q] = 0  BY <1>6, <2>1, FS_EmptySet DEF Good, DepthOK
  <2>3. Load(st, inp, meth, q) <= 0
    BY <1>2, <2>2 DEF FlowInv, Flows, Flow, Tallied
  <2>4. Answers(inp[q]) = 0 /\ Len(meth[q]) = 0 /\ Len(st.out[q]) = 0
    <3>1. /\ Answers(inp[q]) \in Nat /\ Len(meth[q]) \in Nat /\ Len(st.out[q]) \in Nat
      BY <1>6, LoadNat
    <3>2. \A a, b, o \in Nat : a + (b + o) <= 0 => a = 0 /\ b = 0 /\ o = 0  OBVIOUS
    <3> QED  BY <2>3, <3>1, <3>2 DEF Load
  <2>5. inp[q] \in Seq(Message) /\ meth[q] \in Seq(Request) /\ st.out[q] \in Seq(Request)
    BY <1>6 DEF Typed, Memory
  <2>6. meth[q] = << >> /\ st.out[q] = << >>  BY <2>4, <2>5, EmptySeq
  <2>7. {n \in DOMAIN (inp[q] \o (meth[q] \o st.out[q])) :
           n > Len(inp[q])
           \/ (inp[q] \o (meth[q] \o st.out[q]))[n].kind \in {"done", "fail"}} = {}
    BY <2>4, <2>5, <2>6, IdleLine
  <2> QED  BY <2>7 DEF Held, Line
<1> QED  BY <1>3, <1>5, <1>7

-----------------------------------------------------------------------------
(* The first pass of Cycle.                                                *)

\* From s to t the preferred items of the queue q go first.
Served(s, t, q) ==
    \A x \in Fetching(t, q) \ Fetching(s, q) :
      t.entry[x].uri \in PreferredURI \/ PreferredIdle(s, q) \cap PreferredIdle(t, q) = {}

\* t has the lists of s.
Keeps(s, t) ==
    /\ Queued(t) = Queued(s)
    /\ \A q : /\ QItems(t, q) = QItems(s, q) /\ Fetching(t, q) = Fetching(s, q)
              /\ PreferredIdle(t, q) = PreferredIdle(s, q)
    /\ \A x \in Queued(s) : t.entry[x].uri = s.entry[x].uri

LEMMA ServedKeeps ==
    ASSUME NEW s, NEW b, NEW t, NEW q
    PROVE  /\ Served(s, b, q) /\ Keeps(b, t) => Served(s, t, q)
           /\ Keeps(s, b) /\ Served(b, t, q) => Served(s, t, q)
<1>1. Fetching(b, q) \subseteq Queued(b)  BY DEF Fetching, QItems
<1> QED  BY <1>1 DEF Served, Keeps

LEMMA SameKeeps == ASSUME NEW s, NEW t, Same(s, t) PROVE Keeps(s, t)
BY SameSets DEF Same, Keeps

LEMMA StartKeeps ==
    ASSUME NEW s, NEW fresh, NEW up, NEW t, Started(s, fresh, up, t) PROVE Keeps(s, t)
<1>1. \A x \in Queued(s) : t.entry[x].uri = s.entry[x].uri  BY DEF Started
<1> QED  BY <1>1, StartSets DEF Keeps

\* While its first pass is not over Cycle picks an item with another URI only
\* when it picks all preferred ones.
LEMMA CycleServed ==
    ASSUME NEW s, Good(s), NEW Qs \in SUBSET Queues, NEW c, c = Cycle(s, Qs),
           NEW q \in s.pref, q \in Queues
    PROVE  Served(s, c, q)
<1> SUFFICES ASSUME NEW x \in Fetching(c, q) \ Fetching(s, q),
                    c.entry[x].uri \notin PreferredURI,
                    NEW y \in PreferredIdle(s, q) \cap PreferredIdle(c, q)
             PROVE  FALSE
  BY DEF Served
<1>1. q \in Qs /\ x \in Picks(s, q)  BY CycleSets
<1>2. x \in Idle(s, q) /\ Rank(s, q, x) < Room(s, q)  BY <1>1 DEF Picks
<1>3. s.entry[x].uri \notin PreferredURI
  <2>1. s \in Memory /\ Cycled(s, Qs, c)  BY CycleFields DEF Good
  <2>2. x \in Items /\ s.entry[x] \in Entry  BY <1>2, <2>1 DEF Memory, Idle, QItems, Queued
  <2>3. c.entry[x] = s.entry[x] \/ c.entry[x] = [s.entry[x] EXCEPT !.worker = "current"]
    BY <2>1, <2>2 DEF Cycled
  <2>4. c.entry[x].uri = s.entry[x].uri
    <3>1. CASE c.entry[x] = s.entry[x]  BY <3>1
    <3>2. CASE c.entry[x] = [s.entry[x] EXCEPT !.worker = "current"]
      BY <2>2, <3>2, WithWorker
    <3> QED  BY <2>3, <3>1, <3>2
  <2> QED  BY <2>4
<1>4. y \in Idle(s, q) /\ s.entry[y].uri \in PreferredURI /\ y \in Idle(c, q)
  BY DEF PreferredIdle
<1>5. x # y /\ ~Ahead(s, q, x, y)  BY <1>3, <1>4 DEF Ahead
<1>6. Rank(s, q, y) < Rank(s, q, x)  BY <1>2, <1>4, <1>5, RankGrows
<1>7. Rank(s, q, y) < Room(s, q)
  <2>1. Room(s, q) \in Int  BY RoomInt DEF Good
  <2> QED  BY <1>2, <1>6, <2>1, RankNat
<1>8. y \in Picks(s, q)  BY <1>4, <1>7 DEF Picks
<1> QED  BY <1>1, <1>4, <1>8, CycleSets

\* Enqueue of another URI of the item it cycles a queue that is else empty.
LEMMA AcceptedServed ==
    ASSUME NEW s, NEW b, NEW it \in Items, NEW q \in Queues, NEW u, NEW up, NEW c,
           Accepted(b, it, q, u, up, c), NEW p \in Queues,
           Served(s, b, p), it \notin PreferredIdle(s, p), QItems(s, p) \ {it} \subseteq QItems(b, p)
    PROVE  Served(s, c, p)
<1>1. PICK r, d : /\ Good(r) /\ Opened(b, q, up, r) /\ r.entry[it] = None
                  /\ Good(d) /\ Entered(r, it, q, u, d)
                  /\ IF QItems(r, q) = {} THEN c = Cycle(d, {q}) ELSE c = d
  BY DEF Accepted
<1>2. PICK w : /\ Good(w) /\ Named(b, q, w)
               /\ IF q \notin b.created /\ b.running THEN r = StartWorkers(w, {q}, up, {})
                                                    ELSE r = w
  BY <1>1 DEF Opened
<1>3. Keeps(b, w)
  <2>1. w.entry = b.entry /\ w.stat = b.stat  BY <1>2 DEF Named
  <2> QED  BY <2>1 DEF Keeps, Queued, QItems, Fetching, Idle, PreferredIdle
<1>4. Keeps(w, r)
  <2>1. CASE r = StartWorkers(w, {q}, up, {})
    <3>1. w \in Memory  BY <1>2 DEF Good
    <3>2. Started(w, {q}, up, r)  BY <2>1, <3>1, StartDoes
    <3> QED  BY <3>2, StartKeeps
  <2>2. CASE r = w  BY <2>2 DEF Keeps
  <2> QED  BY <1>2, <2>1, <2>2
<1>5. Served(s, r, p) /\ QItems(r, p) = QItems(b, p)
  BY <1>3, <1>4, ServedKeeps DEF Keeps
<1>6. Served(s, d, p)
  <2>1. /\ Queued(d) = Queued(r) \cup {it} /\ it \notin Queued(r)
        /\ Fetching(d, p) = Fetching(r, p) /\ Idle(d, p) \subseteq Idle(r, p) \cup {it}
    BY <1>1, EnteredSets
  <2>2. \A x \in Items : x # it => d.entry[x] = r.entry[x]  BY <1>1 DEF Entered
  <2>3. PreferredIdle(d, p) \subseteq PreferredIdle(r, p) \cup {it}
    <3>1. Idle(d, p) \subseteq Items  BY DEF Idle, QItems, Queued
    <3> QED  BY <2>1, <2>2, <3>1 DEF PreferredIdle
  <2>4. \A x \in Fetching(d, p) : d.entry[x] = r.entry[x]
    <3>1. \A x \in Fetching(r, p) : x \in Queued(r) /\ x \in Items  BY DEF Fetching, QItems, Queued
    <3> QED  BY <2>1, <2>2, <3>1
  <2> QED  BY <1>5, <2>1, <2>3, <2>4 DEF Served
<1>7. CASE QItems(r, q) # {}  BY <1>1, <1>6, <1>7
<1>8. CASE QItems(r, q) = {}
  <2>1. c = Cycle(d, {q})  BY <1>1, <1>8
  <2>2. CASE p = q
    <3>1. QItems(s, p) \subseteq {it}  BY <1>5, <1>8, <2>2
    <3>2. PreferredIdle(s, p) = {}  BY <3>1 DEF PreferredIdle, Idle
    <3> QED  BY <3>2 DEF Served
  <2>3. CASE p # q
    <3>1. Fetching(c, p) = Fetching(d, p) /\ Idle(c, p) = Idle(d, p)
      BY <1>1, <2>1, <2>3, CycleSets
    <3>2. Cycled(d, {q}, c) /\ d \in Memory  BY <1>1, <2>1, CycleFields DEF Good
    <3>3. \A x \in Items : /\ d.entry[x] \in Entry \cup {None}
                           /\ d.entry[x] # None => c.entry[x].uri = d.entry[x].uri
      <4> SUFFICES ASSUME NEW x \in Items
                   PROVE  /\ d.entry[x] \in Entry \cup {None}
                          /\ d.entry[x] # None => c.entry[x].uri = d.entry[x].uri
        OBVIOUS
      <4>1. d.entry[x] \in Entry \cup {None}  BY <3>2 DEF Memory
      <4>2. c.entry[x] = d.entry[x] \/ c.entry[x] = [d.entry[x] EXCEPT !.worker = "current"]
        BY <3>2 DEF Cycled
      <4>3. CASE c.entry[x] = d.entry[x]  BY <4>1, <4>3
      <4>4. CASE c.entry[x] = [d.entry[x] EXCEPT !.worker = "current"] /\ d.entry[x] # None
        BY <4>1, <4>4, WithWorker
      <4> QED  BY <4>1, <4>2, <4>3, <4>4
    <3>4. \A x \in Fetching(d, p) \cup Idle(d, p) : x \in Items /\ d.entry[x] # None
      BY DEF Fetching, Idle, QItems, Queued
    <3>5. PreferredIdle(c, p) = PreferredIdle(d, p)  BY <3>1, <3>3, <3>4 DEF PreferredIdle
    <3> QED  BY <1>6, <3>1, <3>3, <3>4, <3>5 DEF Served
  <2> QED  BY <2>2, <2>3
<1> QED  BY <1>7, <1>8

\* An answer refills the pipe of its queue, preferred items first.
LEMMA AnsweredServed ==
    ASSUME NEW s, Good(s), NEW q \in Queues, NEW it \in Fetching(s, q), NEW t,
           Answered(s, q, it, t), NEW p \in s.pref, p \in Queues
    PROVE  Served(s, t, p)
<1>1. PICK c, b : Finished(s, q, it, c) /\ Good(c) /\ Same(c, b) /\ Good(b) /\ Owned(b, it, t)
  BY DEF Answered
<1>2. PICK d : Good(d) /\ Left(s, q, it, d) /\ c = Cycle(d, {q})  BY <1>1 DEF Finished
<1>3. d.pref = s.pref  BY <1>2 DEF Left, Beside
<1>4. Served(d, c, p)  BY <1>2, <1>3, CycleServed
<1>5. /\ QItems(d, p) = QItems(s, p) \ {it} /\ Fetching(d, p) = Fetching(s, p) \ {it}
      /\ PreferredIdle(d, p) = PreferredIdle(s, p)
  BY <1>2, LeftSets
<1>6. Served(s, c, p)  BY <1>4, <1>5 DEF Served
<1>7. Keeps(c, b)  BY <1>1, SameKeeps
<1>8. Served(s, b, p)  BY <1>6, <1>7, ServedKeeps
<1>9. QItems(c, p) = QItems(d, p)  BY <1>2, CycleSets
<1>10. QItems(s, p) \ {it} \subseteq QItems(b, p)  BY <1>5, <1>7, <1>9 DEF Keeps
<1>11. it \in Items /\ it \notin PreferredIdle(s, p)
  BY DEF PreferredIdle, Idle, Fetching, QItems, Queued
<1>12. CASE Same(b, t)
  <2>1. Keeps(b, t)  BY <1>12, SameKeeps
  <2> QED  BY <1>8, <2>1, ServedKeeps
<1>13. CASE \E u, up, f : /\ u \in URIs /\ Accepted(b, it, QueueOf[u], u, up, f)
                        /\ Good(f) /\ Same(f, t)
  <2>1. PICK u, up, f : u \in URIs /\ Accepted(b, it, QueueOf[u], u, up, f) /\ Good(f) /\ Same(f, t)
    BY <1>13
  <2>2. QueueOf[u] \in Queues  BY <2>1, ConstantsOK DEF ConstantsOK
  <2>3. Served(s, f, p)  BY <1>8, <1>10, <1>11, <2>1, <2>2, AcceptedServed
  <2>4. Keeps(f, t)  BY <2>1, SameKeeps
  <2> QED  BY <2>3, <2>4, ServedKeeps
<1> QED  BY <1>1, <1>12, <1>13 DEF Owned

\* A step that moves no item between the statuses.
LEMMA StillServed ==
    ASSUME NEW s, NEW t, NEW q, Fetching(t, q) = Fetching(s, q)
    PROVE  Served(s, t, q)
BY DEF Served

\* Construct and the ends of Run leave the fetcher outside Run.
LEMMA OutsideRun ==
    ASSUME Inv, Inv', NEW it \in Items, Construct(it)
    PROVE  ~st'.running
<1> DEFINE s == [st EXCEPT !.born = @ \cup {it}]
<1>1. PICK ok \in BOOLEAN : st' = Enqueue(s, it, FirstURI[it], ok, {})
  BY DEF Construct
<1>2. st \in Memory /\ Good(st) /\ st.running = FALSE  BY DEF Inv, Good, Memory, Construct
<1>3. /\ s.running = FALSE /\ s.created = st.created /\ s.stat = st.stat /\ s.entry = st.entry
      /\ s.depth = st.depth /\ s.maxd = st.maxd /\ s.tail = st.tail
      /\ s.toFetch = st.toFetch /\ s.err = st.err /\ s.born = st.born \cup {it}
  BY <1>2 DEF Memory
<1>4. s \in Memory  BY <1>2 DEF Memory
<1>5. FirstURI[it] \in URIs /\ QueueOf[FirstURI[it]] \in Queues  BY ConstantsOK DEF ConstantsOK
<1>6. st.entry[it] = None
  BY <1>2 DEF Construct, Good, BornOK, Queued
<1>7. Good(s)
  <2> HIDE DEF s
  <2> QED  BY <1>2, <1>3, <1>4
      DEF Good, DepthOK, MaxdOK, WorkerOK, OrderOK, ToFetchOK, BornOK, Fetching, QItems, Queued
<1> HIDE DEF s
<1>8. Refused(s, st') \/ Accepted(s, it, QueueOf[FirstURI[it]], FirstURI[it], {}, st')
  BY <1>1, <1>3, <1>5, <1>6, <1>7, EnqueueSteps
<1>9. st'.running = s.running
  BY <1>5, <1>8, AcceptedRuns DEF Refused, Beside
<1> QED  BY <1>3, <1>9

\* A start of Run fills the pipes, preferred items first.
LEMMA RunStartServed ==
    ASSUME Inv, RunStart, NEW q \in st.pref, q \in Queues
    PROVE  Served(st, st', q)
<1>1. st \in Memory /\ st.created \subseteq Queues  BY DEF Inv, Good, Memory
<1>2. PICK s, w, fresh, up :
        /\ Good(w) /\ Started(s, fresh, up, w)
        /\ st' = Cycle(w, st.created \ (fresh \ up))
        /\ s.pref = st.pref /\ s.stat = st.stat /\ s.entry = st.entry
  BY RunStartDoes
<1>3. Keeps(st, s)  BY <1>2 DEF Keeps, Queued, QItems, Fetching, Idle, PreferredIdle
<1>4. Keeps(s, w) /\ w.pref = st.pref  BY <1>2, StartKeeps DEF Started
<1>5. Served(w, st', q)
  <2> DEFINE Qs == st.created \ (fresh \ up)
  <2>1. Qs \in SUBSET Queues /\ st' = Cycle(w, Qs)  BY <1>1, <1>2
  <2> HIDE DEF Qs
  <2> QED  BY <1>2, <1>4, <2>1, CycleServed
<1> QED  BY <1>3, <1>4, <1>5, ServedKeeps

\* Every step serves the preferred items first.
LEMMA StepServed ==
    ASSUME Inv, Inv', FlowInv, [Next]_vars, st'.running, NEW q \in st.pref, q \in Queues
    PROVE  Served(st, st', q)
<1>1. st \in Memory /\ st' \in Memory /\ Good(st)  BY DEF Inv, Good
<1>2. ASSUME NEW it \in Items, Construct(it) PROVE FALSE  BY <1>2, OutsideRun
<1>3. CASE RunStart  BY <1>3, RunStartServed
<1>4. ASSUME RunFinish \/ RunAbort \/ RunCancel PROVE FALSE
  <2>1. PICK cancelled \in BOOLEAN : RunEnd(cancelled)
    BY <1>4 DEF RunFinish, RunAbort, RunCancel
  <2> QED  BY <2>1, RunEndDoes DEF Ended
<1>5. ASSUME Shutdown PROVE FALSE  BY <1>5, ShutdownDoes
<1>6. ASSUME NEW p \in Queues, NEW kind, NEW finals \in SUBSET {"Done", "Error", "Idle"},
             Answer(p, kind, finals)
      PROVE  Served(st, st', q)
  <2> DEFINE it == FindItem(st, p, Head(inp[p]).uri)
  <2>1. \/ it = None /\ Same(st, st')
        \/ it \in Fetching(st, p) /\ Answered(st, p, it, st')
    BY <1>6, AnswerDoes
  <2> HIDE DEF it
  <2>2. CASE Same(st, st')
    <3>1. Fetching(st', q) = Fetching(st, q)  BY <2>2, SameSets
    <3> QED  BY <3>1, StillServed
  <2>3. CASE it \in Fetching(st, p) /\ Answered(st, p, it, st')
    BY <1>1, <2>3, AnsweredServed
  <2> QED  BY <2>1, <2>2, <2>3
<1>7. ASSUME NEW p \in Queues, URIStart(p) \/ Redirect(p) PROVE Served(st, st', q)
  <2>1. Steady(st, st')  BY <1>7, NewsDoes
  <2>2. Fetching(st', q) = Fetching(st, q)  BY <2>1 DEF Steady
  <2> QED  BY <2>2, StillServed
<1>8. ASSUME st'.entry = st.entry /\ st'.stat = st.stat PROVE Served(st, st', q)
  <2>1. Fetching(st', q) = Fetching(st, q)  BY <1>8 DEF Fetching, QItems, Queued
  <2> QED  BY <2>1, StillServed
<1>9. ASSUME NEW p \in Queues, APT(p) PROVE Served(st, st', q)
  <2>1. CASE URIDone(p)  BY <1>6, <2>1 DEF URIDone
  <2>2. CASE URIFailure(p)  BY <1>6, <2>2 DEF URIFailure
  <2>3. CASE MethodFailure(p)
    <3>1. st'.entry = st.entry /\ st'.stat = st.stat  BY <1>1, <2>3 DEF MethodFailure, Memory
    <3> QED  BY <1>8, <3>1
  <2> QED  BY <1>7, <1>9, <2>1, <2>2, <2>3 DEF APT
<1>10. ASSUME NEW p \in Queues, Method(p) \/ MethodDie(p) PROVE Served(st, st', q)
  <2>1. st'.entry = st.entry /\ st'.stat = st.stat
    BY <1>1, <1>10 DEF Method, MethodRead, MethodStart, MethodAnswer, MethodRedirect, MethodDie, Memory
  <2> QED  BY <1>8, <2>1
<1>11. CASE UNCHANGED vars \/ Stop
  <2>1. st' = st  BY <1>11 DEF vars, Stop
  <2> QED  BY <1>8, <2>1
<1> QED  BY <1>2, <1>3, <1>4, <1>5, <1>9, <1>10, <1>11 DEF Next

-----------------------------------------------------------------------------
(* The theorems.                                                           *)

\* With items left and no error, every queue with items has something on its
\* way in every behaviour in which its method lives: Queue::Cycle, called by
\* Queue::ItemDone, Queue::Startup and pkgAcquire::Enqueue, misses no refill
\* that only a further event could make up for.
THEOREM NoStall == Spec => []NeverStalls
<1>1. Inv /\ FlowInv => NeverStalls
  <2> SUFFICES ASSUME Inv, FlowInv, st.running, ~st.err, Clean, NEW q \in Queues,
                      QItems(st, q) # {}, q \in alive,
                      st.out[q] = << >>, meth[q] = << >>, inp[q] = << >>
               PROVE  FALSE
    BY DEF NeverStalls
  <2>1. st \in Memory /\ Good(st) /\ Flows(st, inp, meth, Lost, Calm, {})
    BY FlowFacts DEF FlowInv
  <2>2. PICK x \in QItems(st, q) : TRUE  OBVIOUS
  <2>3. q \in st.created  BY <2>1, <2>2 DEF Good, OrderOK, QItems, Queued
  <2>4. st.worker[q] = "live"  BY <2>1, <2>3 DEF Flows, Flow, Staffed, Wired, Memory
  <2>5. Fetching(st, q) # {}  BY <2>1 DEF Flows, FedBut
  <2>6. st.depth[q] # 0
    <3>1. IsFiniteSet(Fetching(st, q))  BY Finite
    <3>2. Cardinality(Fetching(st, q)) # 0  BY <2>5, <3>1, FS_EmptySet
    <3> QED  BY <2>1, <3>2 DEF Good, DepthOK
  <2>7. q \in Calm \ Lost  BY DEF Calm, Lost
  <2>8. Load(st, inp, meth, q) = st.depth[q]  BY <2>1, <2>4, <2>7 DEF Flows, Flow, Tallied
  <2>9. Load(st, inp, meth, q) = 0
    <3>1. << >> \in Seq(Message) /\ Len(<< >>) = 0  OBVIOUS
    <3>2. Answers(<< >>) = 0  BY <3>1, AnswersNat
    <3>3. Load(st, inp, meth, q) = 0 + (0 + 0)  BY <3>1, <3>2 DEF Load
    <3> QED  BY <3>3
  <2> QED  BY <2>6, <2>8, <2>9
<1> QED  BY <1>1, FlowAlways, PTL

\* A Run that reports success left nothing queued, no item half fetched and no
\* method busy, in every behaviour: the counter ToFetch that ends the loop of
\* pkgAcquire::Run does not reach 0 early, whatever was on its way.
THEOREM CompleteRuns == Spec => SuccessIsComplete
<1> DEFINE done == (st.running /\ ~st'.running /\ results'[Len(results')] = "Continue") =>
                     /\ Queued(st') = {}
                     /\ \A it \in Items : st'.stat[it] # "Fetching"
                     /\ \A q \in Queues : Held(q) = {}
<1>1. Inv /\ FlowInv /\ Inv' /\ [Next]_vars => [done]_vars
  <2> SUFFICES ASSUME Inv, FlowInv, Inv', [Next]_vars,
                      st.running, ~st'.running, results'[Len(results')] = "Continue"
               PROVE  /\ Queued(st') = {}
                      /\ \A it \in Items : st'.stat[it] # "Fetching"
                      /\ \A q \in Queues : Held(q) = {}
    OBVIOUS
  <2>1. st.running = TRUE /\ st'.running = FALSE  BY DEF Inv, Good, Memory
  <2>2. RunFinish \/ RunAbort \/ RunCancel  BY <2>1, RunReturns
  <2>3. CASE RunFinish  BY <2>3, RunLeavesNothing DEF RunFinish
  <2>4. CASE RunAbort  BY <2>4, RunLeavesNothing DEF RunAbort
  <2>5. CASE RunCancel  BY <2>5, RunLeavesNothing DEF RunCancel
  <2> QED  BY <2>2, <2>3, <2>4, <2>5
<1> QED  BY <1>1, FlowAlways, PTL DEF Spec, SuccessIsComplete

\* As long as the first pass of a queue is not over, no other URI is sent
\* before those with the preferred prefix that wait, in every behaviour.
THEOREM PreferredServed == Spec => PreferredFirst
<1> DEFINE first == \A q \in PreferredQ :
                      (q \in st.pref /\ st.running') =>
                        \A it \in Fetching(st', q) \ Fetching(st, q) :
                          \/ st'.entry[it].uri \in PreferredURI
                          \/ PreferredIdle(st, q) \cap PreferredIdle(st', q) = {}
<1>1. Inv /\ FlowInv /\ Inv' /\ [Next]_vars => [first]_vars
  <2> SUFFICES ASSUME Inv, FlowInv, Inv', [Next]_vars, NEW q \in PreferredQ, q \in st.pref, st'.running
               PROVE  Served(st, st', q)
    BY DEF Served
  <2>1. q \in Queues  BY ConstantsOK DEF ConstantsOK
  <2> QED  BY <2>1, StepServed
<1> QED  BY <1>1, FlowAlways, PTL DEF Spec, PreferredFirst
=============================================================================
