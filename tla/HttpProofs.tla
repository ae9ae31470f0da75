---------------------------- MODULE HttpProofs -----------------------------
(***************************************************************************)
(* Theorems about HttpPipeline, for any number of requests, any depth of   *)
(* the pipeline and any servers: no request is lost, and the positional    *)
(* correspondence between the queue, the requests on the connection and    *)
(* the responses in the buffer, which QueueBack keeps, holds as long as    *)
(* nothing was misread on the connection.                                  *)
(***************************************************************************)
EXTENDS HttpPipeline, FiniteSetTheorems, WellFoundedInduction, SequenceTheorems, TLAPS

-----------------------------------------------------------------------------
(* Sets and sequences.                                                     *)

\* A set of numbers from 1 to n that holds all the smaller ones is an interval.
LEMMA DownSet ==
    ASSUME NEW n \in Nat, NEW D, D \subseteq 1..n, \A i \in D : \A j \in 1..i : j \in D
    PROVE  \E k \in 0..n : D = 1..k /\ Cardinality(D) = k
<1> DEFINE T == {k \in Nat : \A i \in D : i <= k}
           R == OpToRel(<, Nat)
<1>0. IsWellFoundedOn(R, Nat)
  BY NatLessThanWellFounded
<1>1. \A x, y \in Nat : x < y => <<x, y>> \in R
  BY DEF OpToRel
<1>2. T \subseteq Nat /\ n \in T /\ T # {}
  OBVIOUS
<1>3. \A k \in Nat : k \in T <=> \A i \in D : i <= k
  OBVIOUS
<1> HIDE DEF T, R
<1>4. PICK k \in T : \A y \in T : ~(<<y, k>> \in R)
  BY <1>0, <1>2, WFMin
<1>5. k \in Nat /\ ~(n < k)
  BY <1>1, <1>2, <1>4
<1>6. k # 0 => k \in D
  <2> SUFFICES ASSUME k # 0, k \notin D PROVE FALSE
    OBVIOUS
  <2>1. k - 1 \in Nat /\ k - 1 < k /\ \A i \in D : i <= k - 1
    BY <1>3, <1>4, <1>5
  <2> QED
    BY <1>1, <1>3, <1>4, <1>5, <2>1
<1>7. D = 1..k
  <2>1. \A i \in D : i \in 1..k
    BY <1>3, <1>4, <1>5
  <2>2. \A j \in 1..k : j \in D
    BY <1>5, <1>6
  <2> QED
    BY <2>1, <2>2
<1>8. Cardinality(1..k) = k
  BY <1>5, FS_Interval
<1> QED
  BY <1>5, <1>7, <1>8

\* An interval within the positions of a sequence has its length.
LEMMA Interval ==
    ASSUME NEW i \in Nat, NEW k \in Nat
    PROVE  Cardinality(i..k) = IF i <= k THEN k - i + 1 ELSE 0
BY FS_Interval

\* The elements of a part of a sequence.
LEMMA Part ==
    ASSUME NEW S, NEW s \in Seq(S), NEW i \in Nat \ {0}, NEW k \in 0..Len(s)
    PROVE  /\ SubSeq(s, i, k) \in Seq(S)
           /\ Len(SubSeq(s, i, k)) = IF i <= k THEN k - i + 1 ELSE 0
           /\ \A n \in 1..Len(SubSeq(s, i, k)) : SubSeq(s, i, k)[n] = s[i + n - 1]
<1>1. Len(s) \in Nat
  BY LenProperties
<1>2. \A n \in i..k : s[n] \in S
  BY <1>1, ElementOfSeq
<1>3. i \in Int /\ k \in Int
  BY <1>1
<1>4. /\ SubSeq(s, i, k) \in Seq(S)
      /\ Len(SubSeq(s, i, k)) = IF i <= k THEN k - i + 1 ELSE 0
      /\ \A n \in 1..k - i + 1 : SubSeq(s, i, k)[n] = s[i + n - 1]
  BY <1>2, <1>3, SubSeqProperties
<1>5. \A n \in 1..Len(SubSeq(s, i, k)) : n \in 1..k - i + 1
  BY <1>3, <1>4
<1> QED
  BY <1>4, <1>5

\* The elements of a tail, by their places.
LEMMA TailOf ==
    ASSUME NEW S, NEW s \in Seq(S), s # << >>
    PROVE  /\ Tail(s) \in Seq(S) /\ Len(Tail(s)) = Len(s) - 1 /\ Len(s) \in Nat \ {0}
           /\ s[1] \in S /\ DOMAIN s = 1..Len(s) /\ DOMAIN Tail(s) = 1..(Len(s) - 1)
           /\ \A n \in 1..(Len(s) - 1) : Tail(s)[n] = s[n + 1] /\ Tail(s)[n] \in S
<1>1. Len(s) \in Nat \ {0}
  BY EmptySeq
<1>2. Tail(s) \in Seq(S) /\ Len(Tail(s)) = Len(s) - 1
      /\ \A n \in 1..(Len(s) - 1) : Tail(s)[n] = s[n + 1]
  BY HeadTailProperties
<1>3. 1 \in 1..Len(s)
  BY <1>1
<1>4. s[1] \in S
  BY <1>3, ElementOfSeq
<1>5. DOMAIN s = 1..Len(s) /\ DOMAIN Tail(s) = 1..(Len(s) - 1)
  BY <1>2, LenProperties
<1>6. \A n \in 1..(Len(s) - 1) : Tail(s)[n] \in S
  BY <1>2, ElementOfSeq
<1> QED
  BY <1>1, <1>2, <1>4, <1>5, <1>6

-----------------------------------------------------------------------------
(* The memory of the method, and Fetch.                                    *)

\* QueueBack stands at place b of the queue, or behind its end.
BackAt(s, b) == s.back = IF b \in DOMAIN s.queue THEN s.queue[b].file ELSE 0

Distinct(q) == \A a, b \in 1..Len(q) : q[a].file = q[b].file => a = b

\* The first e requests of the queue are accounted for by the responses that
\* the method has; those that follow, up to QueueBack, are the unanswered ones.
Rest(s, e) ==
    /\ e + Len(s.out) <= Len(s.queue)
    /\ \A n \in 1..Len(s.out) : s.out[n] = s.queue[e + n]
    /\ \A n \in 1..(e + Len(s.out)) : Same(s, n)
    /\ BackAt(s, e + Len(s.out) + 1)

\* The sequences of a memory and their elements.
LEMMA Fields ==
    ASSUME NEW s \in Memory
    PROVE  /\ s.queue \in Seq(FetchItem) /\ Len(s.queue) \in Nat /\ DOMAIN s.queue = 1..Len(s.queue)
           /\ s.out \in Seq(FetchItem) /\ Len(s.out) \in Nat /\ DOMAIN s.out = 1..Len(s.out)
           /\ \A n \in 1..Len(s.queue) : /\ s.queue[n] \in FetchItem
                                         /\ s.queue[n].file \in Items /\ s.queue[n].uri \in URIs
           /\ \A n \in 1..Len(s.out) : s.out[n] \in FetchItem
           /\ s.back \in Items \cup {0}
<1>1. s.queue \in Seq(FetchItem) /\ s.out \in Seq(FetchItem) /\ s.back \in Items \cup {0}
  BY DEF Memory
<1>2. /\ Len(s.queue) \in Nat /\ DOMAIN s.queue = 1..Len(s.queue)
      /\ Len(s.out) \in Nat /\ DOMAIN s.out = 1..Len(s.out)
  BY <1>1, LenProperties
<1>3. /\ \A n \in 1..Len(s.queue) : s.queue[n] \in FetchItem
      /\ \A n \in 1..Len(s.out) : s.out[n] \in FetchItem
  BY <1>1, ElementOfSeq
<1> QED
  BY <1>1, <1>2, <1>3 DEF FetchItem

LEMMA LimitIs == ASSUME NEW s \in Memory PROVE Limit(s) \in Nat \ {0}
BY ConstantsOK DEF Limit

\* Fetch goes through an initial part of the queue, all of it for the server.
LEMMA VisitedIs ==
    ASSUME NEW s \in Memory
    PROVE  \E k \in 0..Len(s.queue) :
              /\ Visited(s) = 1..k /\ Cardinality(Visited(s)) = k
              /\ \A n \in 1..k : Same(s, n)
              /\ Len(s.queue) > 0 /\ Same(s, 1) => k > 0
<1>1. Len(s.queue) \in Nat /\ DOMAIN s.queue = 1..Len(s.queue)
  BY Fields
<1>2. Limit(s) \in Nat \ {0}
  BY LimitIs
<1> DEFINE D == Visited(s)
<1>3. D \subseteq 1..Len(s.queue)
  BY <1>1 DEF Visited
<1>4. ASSUME NEW i \in D, NEW j \in 1..i PROVE j \in D
  <2>1. i \in 1..Len(s.queue) /\ i <= Limit(s) /\ \A k \in 1..i : Same(s, k)
    BY <1>1 DEF Visited
  <2>2. j \in 1..Len(s.queue) /\ j <= Limit(s) /\ \A k \in 1..j : k \in 1..i
    BY <1>1, <1>2, <2>1
  <2> QED
    BY <1>1, <2>1, <2>2 DEF Visited
<1>5. PICK k \in 0..Len(s.queue) : D = 1..k /\ Cardinality(D) = k
  <2> HIDE DEF D
  <2> QED
    BY <1>1, <1>3, <1>4, DownSet
<1>6. \A n \in 1..k : Same(s, n)
  <2> TAKE n \in 1..k
  <2>1. n \in Visited(s) /\ n \in 1..n
    BY <1>5
  <2> QED
    BY <2>1 DEF Visited
<1>7. ASSUME Len(s.queue) > 0, Same(s, 1) PROVE k > 0
  <2>1. 1 \in DOMAIN s.queue /\ 1 <= Limit(s) /\ \A i \in 1..1 : i = 1
    BY <1>1, <1>2, <1>7
  <2>2. 1 \in D
    BY <1>7, <2>1 DEF Visited
  <2> QED
    BY <1>5, <2>2
<1> QED
  BY <1>5, <1>6, <1>7

\* What Fetch leaves alone, and what it does at most to the other fields.
LEMMA FetchKeeps ==
    ASSUME NEW s \in Memory
    PROVE  /\ Fetch(s) \in Memory /\ Fetch(s).queue = s.queue /\ Fetch(s).host = s.host
           /\ Fetch(s).fd = s.fd /\ Fetch(s).at = s.at /\ Fetch(s).next = s.next
           /\ \A n \in DOMAIN Fetch(s).out :
                 \/ n \in DOMAIN s.out /\ Fetch(s).out[n] = s.out[n]
                 \/ HostOf[Fetch(s).out[n].uri] = s.host
           /\ s.queue = << >> \/ ~Same(s, 1) => Fetch(s).out = s.out
<1>1. CASE s.host = None
  BY <1>1 DEF Fetch
<1>2. CASE s.host # None
  <2>1. PICK k \in 0..Len(s.queue) : /\ Visited(s) = 1..k /\ Cardinality(Visited(s)) = k
                                     /\ \A n \in 1..k : Same(s, n)
    BY VisitedIs
  <2>2. k \in Nat /\ IsFiniteSet(1..k) /\ Due(s) \subseteq 1..k
    BY <2>1, Fields, FS_Interval DEF Due
  <2>3. PICK d \in 0..k : Cardinality(Due(s)) = d /\ (d = 0 => Due(s) = {})
    BY <2>1, <2>2, FS_Subset, FS_CardinalityType, FS_EmptySet
  <2> DEFINE part == SubSeq(s.queue, k - d + 1, k)
             back == IF Due(s) = {} THEN s.back
                     ELSE IF k < Len(s.queue) THEN s.queue[k + 1].file ELSE 0
  <2>4. Fetch(s) = [s EXCEPT !.choke = Choke(s), !.out = s.out \o part, !.back = back]
    BY <1>2, <2>1, <2>3 DEF Fetch
  <2>5. /\ part \in Seq(FetchItem) /\ Len(part) = d
        /\ \A n \in 1..d : part[n] = s.queue[k - d + n] /\ Same(s, k - d + n)
    <3>1. k - d + 1 \in Nat \ {0} /\ k \in 0..Len(s.queue) /\ s.queue \in Seq(FetchItem)
      BY <2>1, <2>3, Fields
    <3>2. /\ part \in Seq(FetchItem)
          /\ Len(part) = IF k - d + 1 <= k THEN k - (k - d + 1) + 1 ELSE 0
          /\ \A n \in 1..Len(part) : part[n] = s.queue[k - d + 1 + n - 1]
      BY <3>1, Part
    <3>3. Len(part) = d
      BY <2>2, <2>3, <3>2
    <3>4. \A n \in 1..d : k - d + 1 + n - 1 = k - d + n /\ k - d + n \in 1..k
      BY <2>2, <2>3
    <3> QED
      BY <2>1, <3>2, <3>3, <3>4
  <2> HIDE DEF part
  <2>6. /\ s.out \o part \in Seq(FetchItem) /\ DOMAIN (s.out \o part) = 1..(Len(s.out) + d)
        /\ \A n \in 1..(Len(s.out) + d) :
              (s.out \o part)[n] = IF n <= Len(s.out) THEN s.out[n] ELSE part[n - Len(s.out)]
    <3>1. s.out \in Seq(FetchItem) /\ part \in Seq(FetchItem) /\ Len(part) = d
      BY <2>5, Fields
    <3>2. /\ s.out \o part \in Seq(FetchItem) /\ Len(s.out \o part) = Len(s.out) + d
          /\ \A n \in 1..(Len(s.out) + d) :
                (s.out \o part)[n] = IF n <= Len(s.out) THEN s.out[n] ELSE part[n - Len(s.out)]
      BY <3>1, ConcatProperties
    <3>3. DOMAIN (s.out \o part) = 1..Len(s.out \o part)
      BY <3>2, LenProperties
    <3> QED
      BY <3>2, <3>3
  <2>7. back \in Items \cup {0}
    BY <2>1, Fields
  <2>8. Choke(s) \in BOOLEAN
    BY DEF Choke, Memory
  <2> HIDE DEF back
  <2>9. /\ Fetch(s) \in Memory /\ Fetch(s).queue = s.queue /\ Fetch(s).host = s.host
        /\ Fetch(s).fd = s.fd /\ Fetch(s).at = s.at /\ Fetch(s).next = s.next
        /\ Fetch(s).out = s.out \o part
    BY <2>4, <2>6, <2>7, <2>8 DEF Memory
  <2>10. ASSUME NEW n \in DOMAIN (s.out \o part)
         PROVE  \/ n \in DOMAIN s.out /\ (s.out \o part)[n] = s.out[n]
                \/ HostOf[(s.out \o part)[n].uri] = s.host
    <3>1. CASE n <= Len(s.out)
      BY <2>6, <3>1, Fields
    <3>2. CASE ~(n <= Len(s.out))
      <4>1. n - Len(s.out) \in 1..d /\ (s.out \o part)[n] = part[n - Len(s.out)]
        BY <2>3, <2>6, <3>2, Fields
      <4> QED
        BY <2>5, <4>1 DEF Same
    <3> QED
      BY <3>1, <3>2
  <2>11. ASSUME s.queue = << >> \/ ~Same(s, 1) PROVE s.out \o part = s.out
    <3>1. k = 0
      <4>1. CASE s.queue = << >>
        BY <2>1, <4>1
      <4>2. CASE ~Same(s, 1)
        BY <2>1, <2>2, <4>2
      <4> QED
        BY <2>11, <4>1, <4>2
    <3>2. d = 0
      BY <2>3, <3>1
    <3>3. part = << >>
      BY <2>5, <3>2, EmptySeq
    <3> QED
      BY <3>3, Fields, ConcatEmptySeq
  <2> QED
    BY <2>9, <2>10, <2>11
<1> QED
  BY <1>1, <1>2

\* While QueueBack is the place up to which everything was sent, Fetch sends
\* the requests from there on, and QueueBack follows.
LEMMA FetchRest ==
    ASSUME NEW s \in Memory, Distinct(s.queue), NEW e \in Nat, Rest(s, e)
    PROVE  /\ Rest(Fetch(s), e)
           /\ s.host # None /\ s.queue # << >> /\ Same(s, 1) => e + Len(Fetch(s).out) > 0
<1>1. CASE s.host = None
  BY <1>1 DEF Fetch
<1>2. CASE s.host # None
  <2>1. PICK k \in 0..Len(s.queue) : /\ Visited(s) = 1..k /\ Cardinality(Visited(s)) = k
                                     /\ \A n \in 1..k : Same(s, n)
                                     /\ Len(s.queue) > 0 /\ Same(s, 1) => k > 0
    BY VisitedIs
  <2> DEFINE b == e + Len(s.out) + 1
  <2>2. /\ Len(s.queue) \in Nat /\ DOMAIN s.queue = 1..Len(s.queue) /\ Len(s.out) \in Nat
        /\ k \in Nat /\ k <= Len(s.queue) /\ b \in Nat \ {0} /\ b <= Len(s.queue) + 1
        /\ \A n \in 1..Len(s.queue) : s.queue[n].file # 0
    BY <2>1, Fields, ConstantsOK DEF Rest, Items
  <2>3. Due(s) = b..k
    <3>1. ASSUME NEW n \in 1..k, b <= n PROVE n \in Due(s)
      <4>1. b \in DOMAIN s.queue /\ s.queue[b].file = s.back /\ b \in 1..n
        BY <2>2, <3>1 DEF Rest, BackAt
      <4> QED
        BY <2>1, <4>1 DEF Due
    <3>2. ASSUME NEW n \in Due(s) PROVE n \in 1..k /\ b <= n
      <4>1. n \in 1..k /\ \E j \in 1..n : s.queue[j].file = s.back
        BY <2>1, <3>2 DEF Due
      <4>2. PICK j \in 1..n : s.queue[j].file = s.back
        BY <4>1
      <4>3. j \in 1..Len(s.queue) /\ s.back # 0
        BY <2>2, <4>1, <4>2
      <4>4. b \in 1..Len(s.queue) /\ s.queue[b].file = s.back
        BY <2>2, <4>3 DEF Rest, BackAt
      <4>5. j = b
        BY <4>2, <4>3, <4>4 DEF Distinct
      <4> QED
        BY <4>1, <4>2, <4>5, <2>2
    <3>3. \A n \in b..k : n \in 1..k /\ b <= n
      BY <2>2
    <3>4. \A n \in 1..k : b <= n => n \in b..k
      BY <2>2
    <3> HIDE DEF b
    <3>5. Due(s) \subseteq b..k
      BY <3>2, <3>4
    <3>6. b..k \subseteq Due(s)
      BY <3>1, <3>3
    <3> QED
      BY <3>5, <3>6
  <2> HIDE DEF b
  <2>4. Cardinality(b..k) = IF b <= k THEN k - b + 1 ELSE 0
    BY <2>2, Interval
  <2>5. CASE b <= k
    <3>1. k - Cardinality(Due(s)) + 1 = b /\ Due(s) # {}
      <4>1. Cardinality(Due(s)) = k - b + 1 /\ k - (k - b + 1) + 1 = b /\ b \in b..k
        BY <2>2, <2>3, <2>4, <2>5
      <4> QED
        BY <2>3, <4>1
    <3> DEFINE part == SubSeq(s.queue, b, k)
               back == IF k < Len(s.queue) THEN s.queue[k + 1].file ELSE 0
    <3>2. Fetch(s) = [s EXCEPT !.choke = Choke(s), !.out = s.out \o part, !.back = back]
      BY <1>2, <2>1, <3>1 DEF Fetch
    <3>3. /\ part \in Seq(FetchItem) /\ Len(part) = k - b + 1
          /\ \A n \in 1..Len(part) : part[n] = s.queue[b + n - 1]
      <4>1. s.queue \in Seq(FetchItem) /\ b \in Nat \ {0} /\ k \in 0..Len(s.queue)
        BY <2>1, <2>2, Fields
      <4> QED
        BY <2>5, <4>1, Part
    <3> HIDE DEF part
    <3>4. /\ Len(s.out \o part) = Len(s.out) + (k - b + 1)
          /\ \A n \in 1..(Len(s.out) + (k - b + 1)) :
                (s.out \o part)[n] = IF n <= Len(s.out) THEN s.out[n] ELSE part[n - Len(s.out)]
      <4>1. s.out \in Seq(FetchItem)
        BY Fields
      <4>2. /\ Len(s.out \o part) = Len(s.out) + Len(part)
            /\ \A n \in 1..(Len(s.out) + Len(part)) :
                  (s.out \o part)[n] = IF n <= Len(s.out) THEN s.out[n] ELSE part[n - Len(s.out)]
        BY <3>3, <4>1, ConcatProperties
      <4> QED
        BY <3>3, <4>2
    <3>5. e + Len(s.out \o part) = k
      BY <2>2, <3>4 DEF b
    <3>6. ASSUME NEW n \in 1..Len(s.out \o part) PROVE (s.out \o part)[n] = s.queue[e + n]
      <4>1. CASE n <= Len(s.out)
        BY <2>2, <3>4, <3>6, <4>1 DEF Rest
      <4>2. CASE ~(n <= Len(s.out))
        <5>0. k - b + 1 \in Nat /\ b = e + Len(s.out) + 1 /\ b \in Nat
          BY <2>2, <2>5 DEF b
        <5>1. PICK l \in Nat, j \in Nat : l = Len(s.out) /\ j = k - b + 1
          BY <2>2, <5>0
        <5>2. n \in 1..(l + j)
          BY <3>4, <3>6, <5>1
        <5>3. ~(n <= l)
          BY <4>2, <5>1
        <5>4. n - l \in 1..j /\ n \in Nat
          BY <5>2, <5>3
        <5>5. (s.out \o part)[n] = part[n - l] /\ part[n - l] = s.queue[b + (n - l) - 1]
          BY <3>3, <3>4, <5>1, <5>2, <5>3, <5>4
        <5>6. b + (n - l) - 1 = e + n
          <6>1. \A x, y, z \in Nat : (x + y + 1) + (z - y) - 1 = x + z
            OBVIOUS
          <6>2. b = e + l + 1
            BY <5>0, <5>1
          <6>3. n \in Nat
            BY <5>4
          <6>4. (e + l + 1) + (n - l) - 1 = e + n
            BY <6>1, <6>3
          <6> QED
            BY <6>2, <6>4
        <5> QED
          BY <5>5, <5>6
      <4> QED
        BY <4>1, <4>2
    <3>7. back = IF k + 1 \in DOMAIN s.queue THEN s.queue[k + 1].file ELSE 0
      BY <2>2
    <3> HIDE DEF back
    <3>8. /\ Fetch(s).out = s.out \o part /\ Fetch(s).back = back
          /\ Fetch(s).queue = s.queue /\ Fetch(s).host = s.host
      BY <3>2 DEF Memory
    <3>9. \A n \in 1..k : Same(Fetch(s), n)
      BY <2>1, <3>8 DEF Same
    <3>10. BackAt(Fetch(s), k + 1)
      BY <3>7, <3>8 DEF BackAt
    <3>11. e + Len(Fetch(s).out) = k
      BY <3>5, <3>8
    <3>12. \A n \in 1..Len(Fetch(s).out) : Fetch(s).out[n] = Fetch(s).queue[e + n]
      BY <3>6, <3>8
    <3>13. k <= Len(Fetch(s).queue) /\ k > 0
      BY <2>2, <2>5, <3>8
    <3> QED
      BY <3>9, <3>10, <3>11, <3>12, <3>13 DEF Rest
  <2>6. CASE ~(b <= k)
    <3>1. Cardinality(Due(s)) = 0 /\ Due(s) = {}
      BY <2>2, <2>3, <2>4, <2>6
    <3>2. SubSeq(s.queue, k - 0 + 1, k) = << >>
      BY <2>2, SubSeqEmpty
    <3>3. s.out \o << >> = s.out
      BY Fields, ConcatEmptySeq
    <3>4. /\ Fetch(s).out = s.out /\ Fetch(s).back = s.back
          /\ Fetch(s).queue = s.queue /\ Fetch(s).host = s.host
      BY <1>2, <2>1, <3>1, <3>2, <3>3 DEF Fetch, Memory
    <3>5. Rest(Fetch(s), e)
      BY <3>4 DEF Rest, BackAt, Same
    <3>6. s.queue # << >> /\ Same(s, 1) => k > 0
      BY <2>1, <2>2, Fields, EmptySeq
    <3> QED
      BY <2>2, <2>6, <3>4, <3>5, <3>6 DEF b
  <2> QED
    BY <2>2, <2>5, <2>6
<1> QED
  BY <1>1, <1>2

-----------------------------------------------------------------------------
(* What becomes of a memory when the head leaves the queue or goes to its  *)
(* end, and when other fields change.                                      *)

\* t differs from s neither in the queue nor in what is unanswered.
Alike(s, t) ==
    t.queue = s.queue /\ t.back = s.back /\ t.out = s.out /\ t.host = s.host

\* In t the head of the queue of s is gone, to the end or altogether.
Shifted(s, t) ==
    /\ t.out = s.out /\ t.host = s.host
    /\ Len(s.queue) - 1 <= Len(t.queue)
    /\ \A n \in 1..(Len(s.queue) - 1) : t.queue[n] = s.queue[n + 1]
    /\ \A b \in 2..(Len(s.queue) + 1) : BackAt(s, b) => BackAt(t, b - 1)

LEMMA TopIs ==
    ASSUME NEW s \in Memory
    PROVE  Top(s) \in Memory /\ Alike(s, Top(s)) /\ Top(s).at = "top" /\ Top(s).fd = s.fd
<1>1. 0 \in 0..1 /\ "top" \in {"top", "headers", "data", "drop", "moving"}
  OBVIOUS
<1>2. Top(s) \in Memory
  BY <1>1, Zenon DEF Top, Memory
<1>3. Alike(s, Top(s)) /\ Top(s).at = "top" /\ Top(s).fd = s.fd
  BY DEF Top, Memory, Alike
<1> QED
  BY <1>2, <1>3

LEMMA CloseIs ==
    ASSUME NEW s \in Memory
    PROVE  /\ Close(s) \in Memory /\ Alike(s, Close(s)) /\ Close(s).fd = FALSE
           /\ Close(s).at = s.at /\ Close(s).next = s.next /\ Close(s).keep = s.keep
BY DEF Close, Memory, Alike

LEMMA PoppedIs ==
    ASSUME NEW s \in Memory, s.queue # << >>
    PROVE  /\ Popped(s) \in Memory /\ Popped(s).queue = Tail(s.queue)
           /\ Popped(s).out = s.out /\ Popped(s).host = s.host /\ Popped(s).fd = s.fd
           /\ Popped(s).at = s.at /\ Popped(s).next = s.next
           /\ Distinct(s.queue) => Shifted(s, Popped(s))
<1>1. /\ s.queue \in Seq(FetchItem) /\ Len(s.queue) \in Nat \ {0} /\ DOMAIN s.queue = 1..Len(s.queue)
      /\ Tail(s.queue) \in Seq(FetchItem) /\ Len(Tail(s.queue)) = Len(s.queue) - 1
      /\ DOMAIN Tail(s.queue) = 1..(Len(s.queue) - 1)
      /\ \A n \in 1..(Len(s.queue) - 1) : Tail(s.queue)[n] = s.queue[n + 1]
  BY Fields, TailOf
<1>2. \A n \in 1..Len(s.queue) : s.queue[n].file \in Items
  BY Fields
<1> DEFINE back == IF s.back # HeadFile(s) THEN s.back
                   ELSE IF Len(s.queue) > 1 THEN s.queue[2].file ELSE 0
<1>3. back \in Items \cup {0}
  BY <1>1, <1>2, Fields
<1>4. HeadFile(s) \in Items
  BY <1>1, <1>2 DEF HeadFile
<1> HIDE DEF back
<1> DEFINE seen == [s.seen EXCEPT ![HeadFile(s)] = {}]
           stop == s.stop \ {HeadFile(s)}
<1>5. /\ seen \in [Items -> SUBSET URIs] /\ stop \in SUBSET Items
      /\ Popped(s) = [s EXCEPT !.queue = Tail(s.queue), !.seen = seen, !.stop = stop, !.back = back]
  <2>1. s.seen \in [Items -> SUBSET URIs] /\ s.stop \in SUBSET Items
    BY DEF Memory
  <2> QED
    BY <2>1 DEF Popped, back
<1> HIDE DEF seen, stop
<1>6. /\ Popped(s) \in Memory /\ Popped(s).queue = Tail(s.queue) /\ Popped(s).back = back
      /\ Popped(s).out = s.out /\ Popped(s).host = s.host /\ Popped(s).fd = s.fd
      /\ Popped(s).at = s.at /\ Popped(s).next = s.next
  BY <1>1, <1>3, <1>4, <1>5 DEF Memory
<1>7. ASSUME Distinct(s.queue), NEW b \in 2..(Len(s.queue) + 1), BackAt(s, b)
      PROVE  BackAt(Popped(s), b - 1)
  <2>1. b \in Nat /\ 1 \in 1..Len(s.queue) /\ b # 1 /\ ~(0 \in Items)
    BY <1>1, <1>7, ConstantsOK DEF Items
  <2>2. s.back # HeadFile(s)
    BY <1>1, <1>4, <1>7, <2>1 DEF Distinct, BackAt, HeadFile
  <2>3. back = s.back
    BY <2>2 DEF back
  <2>4. CASE b \in 1..Len(s.queue)
    <3>1. b - 1 \in 1..(Len(s.queue) - 1) /\ (b - 1) + 1 = b
      BY <1>1, <1>7, <2>4
    <3>2. Tail(s.queue)[b - 1] = s.queue[b]
      BY <1>1, <3>1
    <3> QED
      BY <1>1, <1>6, <1>7, <2>3, <2>4, <3>1, <3>2 DEF BackAt
  <2>5. CASE b \notin 1..Len(s.queue)
    <3>1. b - 1 \notin 1..(Len(s.queue) - 1)
      BY <1>1, <1>7, <2>1, <2>5
    <3> QED
      BY <1>1, <1>6, <1>7, <2>3, <2>5, <3>1 DEF BackAt
  <2> QED
    BY <2>4, <2>5
<1>8. Distinct(s.queue) => Shifted(s, Popped(s))
  BY <1>1, <1>6, <1>7 DEF Shifted
<1> QED
  BY <1>6, <1>8

LEMMA FailedIs ==
    ASSUME NEW s \in Memory, s.queue # << >>
    PROVE  /\ Failed(s) \in Memory /\ Failed(s).queue = Tail(s.queue)
           /\ Failed(s).out = s.out /\ Failed(s).host = s.host /\ Failed(s).fd = s.fd
           /\ Failed(s).at = s.at /\ Failed(s).next = s.next
           /\ Distinct(s.queue) => Shifted(s, Failed(s))
<1>1. /\ Popped(s) \in Memory /\ Popped(s).queue = Tail(s.queue)
      /\ Popped(s).out = s.out /\ Popped(s).host = s.host /\ Popped(s).fd = s.fd
      /\ Popped(s).at = s.at /\ Popped(s).next = s.next
      /\ Distinct(s.queue) => Shifted(s, Popped(s))
  BY PoppedIs
<1>2. Failed(s) \in Memory /\ Alike(Popped(s), Failed(s)) /\ Failed(s).fd = Popped(s).fd
      /\ Failed(s).at = Popped(s).at /\ Failed(s).next = Popped(s).next
  BY <1>1 DEF Failed, Memory, Alike
<1> QED
  BY <1>1, <1>2 DEF Alike, Shifted, BackAt

LEMMA RedirectIs ==
    ASSUME NEW s \in Memory, s.queue # << >>, NEW u \in URIs
    PROVE  /\ Redirect(s, u) \in Memory
           /\ Redirect(s, u).queue = Append(Tail(s.queue), [file |-> HeadFile(s), uri |-> u])
           /\ Redirect(s, u).out = s.out /\ Redirect(s, u).host = s.host
           /\ Redirect(s, u).fd = s.fd
           /\ Distinct(s.queue) /\ Len(s.queue) > 1 => Shifted(s, Redirect(s, u))
           /\ Len(s.queue) = 1 => Redirect(s, u).queue = <<[file |-> HeadFile(s), uri |-> u]>>
<1> DEFINE x == [file |-> HeadFile(s), uri |-> u]
           q == Append(Tail(s.queue), x)
           back == IF s.back = 0 /\ Len(s.queue) > 1 THEN HeadFile(s) ELSE s.back
<1>1. /\ s.queue \in Seq(FetchItem) /\ Len(s.queue) \in Nat \ {0} /\ DOMAIN s.queue = 1..Len(s.queue)
      /\ Tail(s.queue) \in Seq(FetchItem) /\ Len(Tail(s.queue)) = Len(s.queue) - 1
      /\ \A n \in 1..(Len(s.queue) - 1) : Tail(s.queue)[n] = s.queue[n + 1]
  BY Fields, TailOf
<1>2. HeadFile(s) \in Items /\ x \in FetchItem /\ x.file = HeadFile(s)
  BY <1>1, Fields DEF HeadFile, FetchItem
<1> HIDE DEF x
<1>3. /\ q \in Seq(FetchItem) /\ Len(q) = Len(s.queue) /\ DOMAIN q = 1..Len(s.queue)
      /\ \A n \in 1..(Len(s.queue) - 1) : q[n] = s.queue[n + 1]
      /\ q[Len(s.queue)] = x
  <2>1. /\ q \in Seq(FetchItem) /\ Len(q) = Len(Tail(s.queue)) + 1
        /\ \A n \in 1..Len(Tail(s.queue)) : q[n] = Tail(s.queue)[n]
        /\ q[Len(Tail(s.queue)) + 1] = x
    BY <1>1, <1>2, AppendProperties
  <2>2. DOMAIN q = 1..Len(q)
    BY <2>1, LenProperties
  <2> QED
    BY <1>1, <2>1, <2>2
<1>4. back \in Items \cup {0}
  BY <1>2, Fields
<1>5. Redirect(s, u) = [s EXCEPT !.queue = q, !.back = back]
  BY DEF Redirect, x
<1> HIDE DEF back, q
<1>6. /\ Redirect(s, u) \in Memory /\ Redirect(s, u).queue = q /\ Redirect(s, u).back = back
      /\ Redirect(s, u).out = s.out /\ Redirect(s, u).host = s.host
      /\ Redirect(s, u).fd = s.fd
  BY <1>3, <1>4, <1>5 DEF Memory
<1>7. ASSUME Distinct(s.queue), Len(s.queue) > 1,
             NEW b \in 2..(Len(s.queue) + 1), BackAt(s, b)
      PROVE  BackAt(Redirect(s, u), b - 1)
  <2>1. b \in Nat /\ ~(0 \in Items)
    BY <1>1, <1>7, ConstantsOK DEF Items
  <2>2. CASE b \in 1..Len(s.queue)
    <3>1. b - 1 \in 1..(Len(s.queue) - 1) /\ (b - 1) + 1 = b /\ b - 1 \in 1..Len(s.queue)
      BY <1>1, <1>7, <2>2
    <3>2. s.back = s.queue[b].file /\ s.back # 0
      BY <1>1, <1>7, <2>1, <2>2, Fields DEF BackAt
    <3>3. back = s.queue[b].file /\ q[b - 1] = s.queue[b]
      BY <1>3, <3>1, <3>2 DEF back
    <3> QED
      BY <1>3, <1>6, <3>1, <3>3 DEF BackAt
  <2>3. CASE b \notin 1..Len(s.queue)
    <3>1. b - 1 = Len(s.queue) /\ b - 1 \in 1..Len(s.queue)
      BY <1>1, <1>7, <2>1, <2>3
    <3>2. s.back = 0
      BY <1>1, <1>7, <2>3 DEF BackAt
    <3>3. back = HeadFile(s)
      BY <1>7, <3>2 DEF back
    <3> QED
      BY <1>2, <1>3, <1>6, <3>1, <3>3 DEF BackAt
  <2> QED
    BY <2>2, <2>3
<1>8. Distinct(s.queue) /\ Len(s.queue) > 1 => Shifted(s, Redirect(s, u))
  <2>1. Len(s.queue) - 1 <= Len(q)
    BY <1>1, <1>3
  <2> QED
    BY <1>3, <1>6, <1>7, <2>1 DEF Shifted
<1>9. Len(s.queue) = 1 => q = <<x>>
  <2> SUFFICES ASSUME Len(s.queue) = 1 PROVE q = <<x>>
    OBVIOUS
  <2>1. <<x>> \in Seq(FetchItem) /\ Len(<<x>>) = 1 /\ <<x>>[1] = x
    BY <1>2
  <2>2. Len(q) = 1 /\ q[1] = x /\ q \in Seq(FetchItem)
    BY <1>3
  <2>3. \A n \in 1..Len(q) : q[n] = <<x>>[n]
    BY <2>1, <2>2
  <2> QED
    BY <2>1, <2>2, <2>3, SeqEqual
<1> QED
  BY <1>6, <1>8, <1>9 DEF q, x

-----------------------------------------------------------------------------
(* The responses that the method has, and their places in the queue.       *)

InBody(s) == s.at \in {"data", "drop", "moving"}

\* Heads and bodies follow each other as the server sent them: a body that is
\* missing, at the end, means that the connection is closed.
Shape(s, i, u) ==
    /\ i = << >> => ~(InBody(s) /\ u)
    /\ i # << >> => (i[1].part = "body" <=> InBody(s))
    /\ i # << >> /\ u => ~(i[Len(i)].part = "head" /\ i[Len(i)].body)
    /\ \A n \in 1..(Len(i) - 1) : i[n + 1].part = "body" <=> i[n].part = "head" /\ i[n].body
    /\ \A n \in 1..Len(i) : i[n].part = "head" => /\ i[n].says = "ok" => i[n].body
                                                  /\ i[n].says = "ims" => ~i[n].body

\* The requests of the queue whose response the method has begun to read.
Cur(s) == IF s.at \in {"data", "moving"} THEN 1 ELSE 0

\* The request at place n is not the last of the queue, or it is redirected to
\* another host.
Elsewhere(s, n, u) == n < Len(s.queue) \/ (u # None /\ HostOf[u] # s.host)

\* p says which place of the queue each unit of i is for; 0 is the request
\* that failed before its body was read.
Places(s, i, p) ==
    /\ p[0] = Cur(s)
    /\ \A n \in 1..Len(i) : p[n] = p[n - 1] + (IF i[n].part = "head" THEN 1 ELSE 0)
    /\ \A k, n \in 0..Len(i) : k <= n => p[k] <= p[n]
    /\ \A n \in 1..Len(i) : p[n] # 0 => p[n] <= Len(s.queue) /\ i[n].file = s.queue[p[n]].file
    /\ \A n \in 1..Len(i) :
          i[n].part = "head" /\ i[n].says = "moved" => Elsewhere(s, p[n], i[n].to)
    /\ s.at = "moving" => Elsewhere(s, 1, s.next)

\* The queue, the responses and the unanswered requests stand in line.
InLine(s, i) ==
    \E p \in [0..Len(i) -> Nat] : Places(s, i, p) /\ Rest(s, p[Len(i)])

\* A memory that looks the same is in line as well.
LEMMA AlikeInLine ==
    ASSUME NEW s, NEW t, NEW i, Alike(s, t), Cur(t) = Cur(s), InLine(s, i),
           t.at = "moving" => s.at = "moving" /\ t.next = s.next
    PROVE  InLine(t, i)
<1>1. PICK p \in [0..Len(i) -> Nat] : Places(s, i, p) /\ Rest(s, p[Len(i)])
  BY DEF InLine
<1>2. t.queue = s.queue /\ t.back = s.back /\ t.out = s.out /\ t.host = s.host
  BY DEF Alike
<1>3. Places(t, i, p)
  BY <1>1, <1>2 DEF Places, Elsewhere
<1>4. Rest(t, p[Len(i)])
  BY <1>1, <1>2 DEF Rest, BackAt, Same
<1> QED
  BY <1>1, <1>3, <1>4 DEF InLine

\* The next unit is read, and the head of the queue is what it is for.
LEMMA ReadOn ==
    ASSUME NEW s \in Memory, NEW t, NEW i \in Seq(Unit), i # << >>, Alike(s, t),
           InLine(s, i), Cur(t) = Cur(s) + (IF i[1].part = "head" THEN 1 ELSE 0),
           t.at = "moving" => Elsewhere(t, 1, t.next)
    PROVE  InLine(t, Tail(i))
<1>1. PICK p \in [0..Len(i) -> Nat] : Places(s, i, p) /\ Rest(s, p[Len(i)])
  BY DEF InLine
<1>2. /\ Len(i) \in Nat \ {0} /\ Len(Tail(i)) = Len(i) - 1 /\ 1 \in 1..Len(i)
      /\ \A n \in 1..(Len(i) - 1) : Tail(i)[n] = i[n + 1]
  BY TailOf
<1>3. t.queue = s.queue /\ t.back = s.back /\ t.out = s.out /\ t.host = s.host
  BY DEF Alike
<1>4. p[1] = Cur(t) /\ \A n \in 0..Len(i) : p[n] \in Nat
  <2>1. p[1] = p[1 - 1] + (IF i[1].part = "head" THEN 1 ELSE 0) /\ p[0] = Cur(s)
    BY <1>1, <1>2 DEF Places
  <2>2. 1 - 1 = 0
    OBVIOUS
  <2> QED
    BY <1>1, <2>1, <2>2
<1> DEFINE q == [n \in 0..(Len(i) - 1) |-> p[n + 1]]
<1>5. q \in [0..Len(Tail(i)) -> Nat] /\ q[0] = p[1] /\ q[Len(Tail(i))] = p[Len(i)]
      /\ \A n \in 0..(Len(i) - 1) : q[n] = p[n + 1]
  BY <1>2, <1>4
<1> HIDE DEF q
<1>6. Places(t, Tail(i), q)
  <2>1. ASSUME NEW n \in 1..Len(Tail(i))
        PROVE  /\ n + 1 \in 1..Len(i) /\ n - 1 \in 0..(Len(i) - 1) /\ n \in 0..(Len(i) - 1)
               /\ q[n] = p[n + 1] /\ q[n - 1] = p[n] /\ (n + 1) - 1 = n
               /\ Tail(i)[n] = i[n + 1]
    <3>1. /\ n \in 1..(Len(i) - 1) /\ n + 1 \in 1..Len(i) /\ n - 1 \in 0..(Len(i) - 1)
          /\ n \in 0..(Len(i) - 1) /\ (n + 1) - 1 = n /\ (n - 1) + 1 = n
      BY <1>2
    <3> QED
      BY <1>2, <1>5, <3>1
  <2>2. \A n \in 1..Len(Tail(i)) : q[n] = q[n - 1] + (IF Tail(i)[n].part = "head" THEN 1 ELSE 0)
    BY <1>1, <2>1 DEF Places
  <2>3. \A k, n \in 0..Len(Tail(i)) : k <= n => q[k] <= q[n]
    <3> SUFFICES ASSUME NEW k \in 0..Len(Tail(i)), NEW n \in 0..Len(Tail(i)), k <= n
                 PROVE  q[k] <= q[n]
      OBVIOUS
    <3>1. /\ k + 1 \in 0..Len(i) /\ n + 1 \in 0..Len(i) /\ k + 1 <= n + 1
          /\ k \in 0..(Len(i) - 1) /\ n \in 0..(Len(i) - 1)
      BY <1>2
    <3> QED
      BY <1>1, <1>5, <3>1 DEF Places
  <2>4. \A n \in 1..Len(Tail(i)) :
           q[n] # 0 => q[n] <= Len(t.queue) /\ Tail(i)[n].file = t.queue[q[n]].file
    BY <1>1, <1>3, <2>1 DEF Places
  <2>5. \A n \in 1..Len(Tail(i)) :
           Tail(i)[n].part = "head" /\ Tail(i)[n].says = "moved" => Elsewhere(t, q[n], Tail(i)[n].to)
    BY <1>1, <1>3, <2>1 DEF Places, Elsewhere
  <2> QED
    BY <1>4, <1>5, <2>2, <2>3, <2>4, <2>5 DEF Places
<1>7. Rest(t, p[Len(i)])
  BY <1>1, <1>3 DEF Rest, BackAt, Same
<1> QED
  BY <1>5, <1>6, <1>7 DEF InLine

\* The next unit is read, and the head of the queue leaves it or goes to its end.
LEMMA ReadAndShift ==
    ASSUME NEW s \in Memory, NEW t, NEW i \in Seq(Unit), i # << >>, Shifted(s, t),
           InLine(s, i), Cur(s) + (IF i[1].part = "head" THEN 1 ELSE 0) = 1, Cur(t) = 0,
           t.at # "moving", Len(t.queue) \in Nat
    PROVE  InLine(t, Tail(i))
<1>1. PICK p \in [0..Len(i) -> Nat] : Places(s, i, p) /\ Rest(s, p[Len(i)])
  BY DEF InLine
<1>2. /\ Len(i) \in Nat \ {0} /\ Len(Tail(i)) = Len(i) - 1 /\ 1 \in 1..Len(i)
      /\ 1 \in 0..Len(i) /\ Len(i) \in 0..Len(i)
      /\ \A n \in 1..(Len(i) - 1) : Tail(i)[n] = i[n + 1]
  BY TailOf
<1>3. p[1] = 1 /\ \A n \in 1..Len(i) : p[n] \in Nat \ {0}
  <2>1. p[1] = 1
    BY <1>1, <1>2 DEF Places
  <2>2. \A n \in 1..Len(i) : n \in 0..Len(i) /\ 1 <= n
    BY <1>2
  <2>3. \A n \in 1..Len(i) : p[n] \in Nat /\ p[1] <= p[n]
    BY <1>1, <1>2, <2>2 DEF Places
  <2> QED
    BY <2>1, <2>3
<1>4. Len(s.queue) \in Nat /\ Len(s.out) \in Nat /\ t.out = s.out /\ t.host = s.host
      /\ Len(s.queue) - 1 <= Len(t.queue) /\ DOMAIN s.queue = 1..Len(s.queue)
      /\ \A n \in 1..(Len(s.queue) - 1) : t.queue[n] = s.queue[n + 1]
  BY Fields DEF Shifted
<1> DEFINE q == [n \in 0..(Len(i) - 1) |-> p[n + 1] - 1]
<1>5. q \in [0..Len(Tail(i)) -> Nat] /\ q[0] = 0 /\ q[Len(Tail(i))] = p[Len(i)] - 1
      /\ \A n \in 0..(Len(i) - 1) : q[n] = p[n + 1] - 1
  BY <1>2, <1>3
<1> HIDE DEF q
<1>6. Places(t, Tail(i), q)
  <2>1. ASSUME NEW n \in 1..Len(Tail(i))
        PROVE  /\ n + 1 \in 1..Len(i) /\ n - 1 \in 0..(Len(i) - 1) /\ n \in 0..(Len(i) - 1)
               /\ n \in 1..Len(i) /\ (n + 1) - 1 = n
               /\ q[n] = p[n + 1] - 1 /\ q[n - 1] = p[n] - 1
               /\ Tail(i)[n] = i[n + 1]
               /\ p[n + 1] \in Nat \ {0} /\ p[n] \in Nat \ {0}
    <3>1. /\ n \in 1..(Len(i) - 1) /\ n + 1 \in 1..Len(i) /\ n - 1 \in 0..(Len(i) - 1)
          /\ n \in 0..(Len(i) - 1) /\ (n + 1) - 1 = n /\ (n - 1) + 1 = n /\ n \in 1..Len(i)
      BY <1>2
    <3> QED
      BY <1>2, <1>3, <1>5, <3>1
  <2>2. \A n \in 1..Len(Tail(i)) : q[n] = q[n - 1] + (IF Tail(i)[n].part = "head" THEN 1 ELSE 0)
    <3> TAKE n \in 1..Len(Tail(i))
    <3>1. p[n + 1] = p[n] + (IF Tail(i)[n].part = "head" THEN 1 ELSE 0)
      BY <1>1, <2>1 DEF Places
    <3> QED
      BY <2>1, <3>1
  <2>3. \A k, n \in 0..Len(Tail(i)) : k <= n => q[k] <= q[n]
    <3> SUFFICES ASSUME NEW k \in 0..Len(Tail(i)), NEW n \in 0..Len(Tail(i)), k <= n
                 PROVE  q[k] <= q[n]
      OBVIOUS
    <3>1. /\ k + 1 \in 0..Len(i) /\ n + 1 \in 0..Len(i) /\ k + 1 <= n + 1
          /\ k \in 0..(Len(i) - 1) /\ n \in 0..(Len(i) - 1)
      BY <1>2
    <3>2. p[k + 1] <= p[n + 1]
      BY <1>1, <3>1 DEF Places
    <3>3. PICK a \in Nat, b \in Nat : a = p[k + 1] /\ b = p[n + 1]
      BY <1>1, <3>1
    <3>4. q[k] = a - 1 /\ q[n] = b - 1
      BY <1>5, <3>1, <3>3
    <3>5. a <= b
      BY <3>2, <3>3
    <3> QED
      BY <3>4, <3>5
  <2>4. \A n \in 1..Len(Tail(i)) :
           q[n] # 0 => q[n] <= Len(t.queue) /\ Tail(i)[n].file = t.queue[q[n]].file
    <3> SUFFICES ASSUME NEW n \in 1..Len(Tail(i)), q[n] # 0
                 PROVE  q[n] <= Len(t.queue) /\ Tail(i)[n].file = t.queue[q[n]].file
      OBVIOUS
    <3>1. p[n + 1] <= Len(s.queue) /\ i[n + 1].file = s.queue[p[n + 1]].file
      BY <1>1, <2>1 DEF Places
    <3>2. PICK a \in Nat \ {0} : a = p[n + 1]
      BY <2>1
    <3>3. q[n] = a - 1 /\ a <= Len(s.queue)
      BY <2>1, <3>2, <3>1
    <3>4. q[n] \in 1..(Len(s.queue) - 1) /\ q[n] + 1 = a
      BY <1>4, <3>3
    <3>5. q[n] \in 1..(Len(s.queue) - 1) /\ q[n] + 1 = p[n + 1]
      BY <3>2, <3>4
    <3>6. t.queue[q[n]] = s.queue[p[n + 1]]
      BY <1>4, <3>5
    <3>7. q[n] <= Len(t.queue)
      BY <1>4, <3>5
    <3> QED
      BY <2>1, <3>1, <3>6, <3>7
  <2>5. \A n \in 1..Len(Tail(i)) :
           Tail(i)[n].part = "head" /\ Tail(i)[n].says = "moved" => Elsewhere(t, q[n], Tail(i)[n].to)
    <3> SUFFICES ASSUME NEW n \in 1..Len(Tail(i)),
                        Tail(i)[n].part = "head", Tail(i)[n].says = "moved"
                 PROVE  Elsewhere(t, q[n], Tail(i)[n].to)
      OBVIOUS
    <3>1. Elsewhere(s, p[n + 1], Tail(i)[n].to)
      BY <1>1, <2>1 DEF Places
    <3>2. PICK a \in Nat \ {0} : a = p[n + 1]
      BY <2>1
    <3>3. q[n] = a - 1
      BY <2>1, <3>2
    <3>4. p[n + 1] < Len(s.queue) => q[n] < Len(t.queue)
      BY <1>4, <3>2, <3>3
    <3> QED
      BY <1>4, <3>1, <3>4 DEF Elsewhere
  <2> QED
    BY <1>5, <2>2, <2>3, <2>4, <2>5 DEF Places
<1>7. Rest(t, p[Len(i)] - 1)
  <2>1. PICK e \in Nat \ {0} : e = p[Len(i)]
    BY <1>2, <1>3
  <2>2. /\ e + Len(s.out) <= Len(s.queue)
        /\ \A n \in 1..Len(s.out) : s.out[n] = s.queue[e + n]
        /\ \A n \in 1..(e + Len(s.out)) : Same(s, n)
        /\ BackAt(s, e + Len(s.out) + 1)
    BY <1>1, <2>1 DEF Rest
  <2>3. (e - 1) + Len(t.out) <= Len(t.queue)
    BY <1>4, <2>2
  <2>4. \A n \in 1..Len(t.out) : t.out[n] = t.queue[(e - 1) + n]
    <3> SUFFICES ASSUME NEW n \in 1..Len(s.out) PROVE s.out[n] = t.queue[(e - 1) + n]
      BY <1>4
    <3>1. (e - 1) + n \in 1..(Len(s.queue) - 1) /\ ((e - 1) + n) + 1 = e + n
      BY <1>4, <2>2
    <3> QED
      BY <1>4, <2>2, <3>1
  <2>5. \A n \in 1..((e - 1) + Len(t.out)) : Same(t, n)
    <3> SUFFICES ASSUME NEW n \in 1..((e - 1) + Len(s.out)) PROVE Same(t, n)
      BY <1>4
    <3>1. n \in 1..(Len(s.queue) - 1) /\ n + 1 \in 1..(e + Len(s.out))
      BY <1>4, <2>2
    <3> QED
      BY <1>4, <2>2, <3>1 DEF Same
  <2>6. BackAt(t, (e - 1) + Len(t.out) + 1)
    <3>1. e + Len(s.out) + 1 \in 2..(Len(s.queue) + 1)
      BY <1>4, <2>2
    <3>2. (e + Len(s.out) + 1) - 1 = (e - 1) + Len(s.out) + 1
      BY <1>4
    <3>3. \A b \in 2..(Len(s.queue) + 1) : BackAt(s, b) => BackAt(t, b - 1)
      BY DEF Shifted
    <3>4. BackAt(t, (e + Len(s.out) + 1) - 1)
      BY <2>2, <3>1, <3>3
    <3> QED
      BY <1>4, <3>2, <3>4
  <2> QED
    BY <2>1, <2>3, <2>4, <2>5, <2>6 DEF Rest
<1> QED
  BY <1>5, <1>6, <1>7 DEF InLine

\* Fetch keeps the line, and sends the head if nothing is under way.
LEMMA FetchInLine ==
    ASSUME NEW s \in Memory, Distinct(s.queue), NEW i \in Seq(Unit), InLine(s, i)
    PROVE  /\ InLine(Fetch(s), i)
           /\ s.host # None /\ s.queue # << >> /\ Same(s, 1) /\ Cur(s) = 0 =>
                 i # << >> \/ Fetch(s).out # << >>
<1>1. PICK p \in [0..Len(i) -> Nat] : Places(s, i, p) /\ Rest(s, p[Len(i)])
  BY DEF InLine
<1>2. Len(i) \in Nat
  BY LenProperties
<1>3. PICK e \in Nat : e = p[Len(i)]
  BY <1>1, <1>2
<1>4. /\ Rest(Fetch(s), e)
      /\ s.host # None /\ s.queue # << >> /\ Same(s, 1) => e + Len(Fetch(s).out) > 0
  BY <1>1, <1>3, FetchRest
<1>5. /\ Fetch(s).queue = s.queue /\ Fetch(s).host = s.host /\ Fetch(s).at = s.at
      /\ Fetch(s).next = s.next
  BY FetchKeeps
<1>6. Places(Fetch(s), i, p)
  BY <1>1, <1>5 DEF Places, Elsewhere, Cur
<1>7. ASSUME s.host # None, s.queue # << >>, Same(s, 1), Cur(s) = 0, i = << >>
      PROVE  Fetch(s).out # << >>
  <2>1. e = 0
    BY <1>1, <1>3, <1>7, EmptySeq DEF Places
  <2>2. Len(Fetch(s).out) # 0
    BY <1>4, <1>7, <2>1
  <2> QED
    BY <2>2, EmptySeq
<1> QED
  BY <1>1, <1>3, <1>4, <1>6, <1>7 DEF InLine

\* A request is queued behind the others.
LEMMA ArriveInLine ==
    ASSUME NEW s \in Memory, NEW t, NEW i \in Seq(Unit), NEW x \in FetchItem, InLine(s, i),
           t.queue = Append(s.queue, x), t.back = (IF s.back = 0 THEN x.file ELSE s.back),
           t.out = s.out, t.host = s.host, t.at = s.at, t.next = s.next
    PROVE  InLine(t, i)
<1>1. PICK p \in [0..Len(i) -> Nat] : Places(s, i, p) /\ Rest(s, p[Len(i)])
  BY DEF InLine
<1>2. /\ Len(s.queue) \in Nat /\ DOMAIN s.queue = 1..Len(s.queue) /\ Len(s.out) \in Nat
      /\ \A n \in 1..Len(s.queue) : s.queue[n].file \in Items
      /\ s.queue \in Seq(FetchItem)
  BY Fields
<1>3. /\ Len(t.queue) = Len(s.queue) + 1 /\ t.queue[Len(s.queue) + 1] = x
      /\ \A n \in 1..Len(s.queue) : t.queue[n] = s.queue[n]
      /\ DOMAIN t.queue = 1..(Len(s.queue) + 1)
  <2>1. /\ t.queue \in Seq(FetchItem) /\ Len(t.queue) = Len(s.queue) + 1
        /\ t.queue[Len(s.queue) + 1] = x /\ \A n \in 1..Len(s.queue) : t.queue[n] = s.queue[n]
    BY <1>2, AppendProperties
  <2> QED
    BY <2>1, LenProperties
<1>4. Len(i) \in Nat /\ ~(0 \in Items)
  BY LenProperties, ConstantsOK DEF Items
<1>5. Places(t, i, p)
  <2>1. ASSUME NEW n \in 1..Len(i), p[n] # 0
        PROVE  p[n] <= Len(t.queue) /\ i[n].file = t.queue[p[n]].file
    <3>1. p[n] \in Nat /\ p[n] <= Len(s.queue) /\ i[n].file = s.queue[p[n]].file
      BY <1>1, <1>4, <2>1 DEF Places
    <3>2. p[n] \in 1..Len(s.queue)
      BY <1>2, <2>1, <3>1
    <3> QED
      BY <1>2, <1>3, <3>1, <3>2
  <2>2. ASSUME NEW n \in Nat, NEW u, Elsewhere(s, n, u) PROVE Elsewhere(t, n, u)
    BY <1>2, <1>3, <2>2 DEF Elsewhere
  <2>3. ASSUME NEW n \in 1..Len(i), i[n].part = "head", i[n].says = "moved"
        PROVE  Elsewhere(t, p[n], i[n].to)
    <3>1. Elsewhere(s, p[n], i[n].to) /\ p[n] \in Nat
      BY <1>1, <1>4, <2>3 DEF Places
    <3> QED
      BY <2>2, <3>1
  <2>4. t.at = "moving" => Elsewhere(t, 1, t.next)
    BY <1>1, <2>2 DEF Places
  <2> QED
    BY <1>1, <2>1, <2>3, <2>4 DEF Places, Cur
<1>6. Rest(t, p[Len(i)])
  <2>1. PICK e \in Nat : e = p[Len(i)]
    BY <1>1, <1>4
  <2>2. /\ e + Len(s.out) <= Len(s.queue)
        /\ \A n \in 1..Len(s.out) : s.out[n] = s.queue[e + n]
        /\ \A n \in 1..(e + Len(s.out)) : Same(s, n)
        /\ BackAt(s, e + Len(s.out) + 1)
    BY <1>1, <2>1 DEF Rest
  <2>3. e + Len(t.out) <= Len(t.queue)
    BY <1>2, <1>3, <2>2
  <2>4. ASSUME NEW n \in 1..Len(t.out) PROVE t.out[n] = t.queue[e + n]
    <3>1. e + n \in 1..Len(s.queue)
      BY <1>2, <2>2, <2>4
    <3> QED
      BY <1>3, <2>2, <3>1
  <2>5. ASSUME NEW n \in 1..(e + Len(t.out)) PROVE Same(t, n)
    <3>1. n \in 1..Len(s.queue) /\ Same(s, n)
      BY <1>2, <2>2, <2>5
    <3> QED
      BY <1>3, <3>1 DEF Same
  <2>6. BackAt(t, e + Len(t.out) + 1)
    <3>1. PICK b \in Nat \ {0} : b = e + Len(s.out) + 1
      BY <1>2
    <3>2. b <= Len(s.queue) + 1 /\ BackAt(s, b)
      BY <1>2, <2>2, <3>1
    <3>3. CASE b <= Len(s.queue)
      <4>1. b \in 1..Len(s.queue)
        BY <1>2, <3>1, <3>3
      <4>2. s.back = s.queue[b].file /\ s.back # 0
        BY <1>2, <1>4, <3>2, <4>1 DEF BackAt
      <4>3. b \in DOMAIN t.queue /\ t.queue[b] = s.queue[b]
        BY <1>2, <1>3, <4>1
      <4> QED
        BY <3>1, <4>2, <4>3 DEF BackAt
    <3>4. CASE ~(b <= Len(s.queue))
      <4>1. b = Len(s.queue) + 1 /\ b \notin 1..Len(s.queue) /\ b \in 1..(Len(s.queue) + 1)
        BY <1>2, <3>1, <3>2, <3>4
      <4>2. s.back = 0
        BY <1>2, <3>2, <4>1 DEF BackAt
      <4> QED
        BY <1>3, <3>1, <4>1, <4>2 DEF BackAt
    <3> QED
      BY <3>3, <3>4
  <2> QED
    BY <2>1, <2>3, <2>4, <2>5, <2>6 DEF Rest
<1> QED
  BY <1>1, <1>5, <1>6 DEF InLine

\* The server answers the first of the unanswered requests.
LEMMA ServeInLine ==
    ASSUME NEW s \in Memory, NEW t, NEW i \in Seq(Unit), NEW j \in Seq(Unit), InLine(s, i),
           Distinct(s.queue), s.out # << >>,
           t.queue = s.queue, t.back = s.back, t.out = Tail(s.out), t.host = s.host,
           t.at = s.at, t.next = s.next,
           Len(j) \in (Len(i) + 1)..(Len(i) + 2), \A n \in 1..Len(i) : j[n] = i[n],
           \A n \in (Len(i) + 1)..Len(j) :
              /\ j[n].file = s.out[1].file
              /\ j[n].part = "head" <=> n = Len(i) + 1,
           j[Len(i) + 1].says = "moved" =>
              \/ \E n \in 1..(Len(s.queue) - 1) : s.queue[n] = s.out[1]
              \/ j[Len(i) + 1].to # None /\ HostOf[j[Len(i) + 1].to] # HostOf[s.out[1].uri]
    PROVE  InLine(t, j)
<1>1. PICK p \in [0..Len(i) -> Nat] : Places(s, i, p) /\ Rest(s, p[Len(i)])
  BY DEF InLine
<1>2. /\ Len(s.queue) \in Nat /\ DOMAIN s.queue = 1..Len(s.queue)
      /\ Len(s.out) \in Nat \ {0} /\ Len(t.out) = Len(s.out) - 1
      /\ \A n \in 1..(Len(s.out) - 1) : t.out[n] = s.out[n + 1]
  BY Fields, TailOf
<1>3. Len(i) \in Nat /\ Len(j) \in Nat
  BY LenProperties
<1>4. PICK l \in Nat : l = Len(i)
  BY <1>3
<1>5. PICK e \in Nat : e = p[l]
  BY <1>1, <1>4
<1>6. /\ e + Len(s.out) <= Len(s.queue)
      /\ \A n \in 1..Len(s.out) : s.out[n] = s.queue[e + n]
      /\ \A n \in 1..(e + Len(s.out)) : Same(s, n)
      /\ BackAt(s, e + Len(s.out) + 1)
  BY <1>1, <1>4, <1>5 DEF Rest
<1>7. e + 1 \in 1..Len(s.queue) /\ s.out[1] = s.queue[e + 1] /\ Same(s, e + 1)
  BY <1>2, <1>6
<1>8. /\ l + 1 \in 1..Len(j) /\ Len(j) \in (l + 1)..(l + 2)
      /\ \A n \in 1..Len(j) : /\ n <= l => n \in 1..l /\ j[n] = i[n]
                              /\ ~(n <= l) => n \in (l + 1)..Len(j)
      /\ \A n \in (l + 1)..Len(j) : /\ n = l + 1 \/ n = l + 2
                                    /\ j[n].file = s.queue[e + 1].file
                                    /\ j[n].part = "head" <=> n = l + 1
  <2>1. Len(j) \in (l + 1)..(l + 2) /\ l + 1 \in 1..Len(j)
    BY <1>3, <1>4
  <2>2. ASSUME NEW n \in 1..Len(j)
        PROVE  /\ n <= l => n \in 1..l /\ j[n] = i[n]
               /\ ~(n <= l) => n \in (l + 1)..Len(j)
    <3>1. n \in Nat \ {0} /\ n <= Len(j)
      BY <1>3
    <3>2. n <= l => n \in 1..l
      BY <3>1
    <3>3. ~(n <= l) => n \in (l + 1)..Len(j)
      BY <1>3, <3>1
    <3> QED
      BY <1>4, <3>2, <3>3
  <2>3. ASSUME NEW n \in (l + 1)..Len(j)
        PROVE  /\ n = l + 1 \/ n = l + 2
               /\ j[n].file = s.queue[e + 1].file
               /\ j[n].part = "head" <=> n = l + 1
    <3>1. n = l + 1 \/ n = l + 2
      BY <1>3, <2>1
    <3>2. j[n].file = s.out[1].file /\ (j[n].part = "head" <=> n = l + 1)
      BY <1>4
    <3> QED
      BY <1>7, <3>1, <3>2
  <2> QED
    BY <2>1, <2>2, <2>3
<1> DEFINE q == [n \in 0..Len(j) |-> IF n <= l THEN p[n] ELSE e + 1]
<1>9. /\ q \in [0..Len(j) -> Nat] /\ q[0] = p[0] /\ q[Len(j)] = e + 1
      /\ \A n \in 0..Len(j) : q[n] = IF n <= l THEN p[n] ELSE e + 1
  <2>1. \A n \in 0..Len(j) : n <= l => p[n] \in Nat
    <3>1. \A n \in 0..Len(j) : n <= l => n \in 0..l
      BY <1>3
    <3>2. \A n \in 0..l : p[n] \in Nat
      BY <1>1, <1>4
    <3> QED
      BY <3>1, <3>2
  <2>2. 0 \in 0..Len(j) /\ Len(j) \in 0..Len(j) /\ ~(Len(j) <= l)
    BY <1>4, <1>8
  <2> QED
    BY <2>1, <2>2
<1> HIDE DEF q
<1>10. Places(t, j, q)
  <2>1. ASSUME NEW n \in 1..Len(j)
        PROVE  /\ q[n] = q[n - 1] + (IF j[n].part = "head" THEN 1 ELSE 0)
               /\ q[n] # 0 => q[n] <= Len(t.queue) /\ j[n].file = t.queue[q[n]].file
               /\ j[n].part = "head" /\ j[n].says = "moved" => Elsewhere(t, q[n], j[n].to)
    <3>1. n \in 0..Len(j) /\ n - 1 \in 0..Len(j) /\ n \in Nat
      BY <1>3
    <3>2. CASE n <= l
      <4>1. n \in 1..l /\ j[n] = i[n] /\ n - 1 <= l /\ q[n] = p[n] /\ q[n - 1] = p[n - 1]
        BY <1>8, <1>9, <3>1, <3>2
      <4> QED
        BY <1>1, <1>4, <4>1 DEF Places, Elsewhere
    <3>3. CASE n = l + 1
      <4>1. n \in (l + 1)..Len(j) /\ q[n] = e + 1 /\ q[n - 1] = e /\ n - 1 = l
        BY <1>4, <1>5, <1>8, <1>9, <3>1, <3>3
      <4>2. /\ q[n] = q[n - 1] + (IF j[n].part = "head" THEN 1 ELSE 0)
            /\ q[n] <= Len(t.queue) /\ j[n].file = t.queue[q[n]].file
        BY <1>7, <1>8, <3>3, <4>1
      <4>3. ASSUME j[n].says = "moved" PROVE Elsewhere(t, q[n], j[n].to)
        <5>1. CASE \E k \in 1..(Len(s.queue) - 1) : s.queue[k] = s.out[1]
          <6>1. PICK k \in 1..(Len(s.queue) - 1) : s.queue[k] = s.queue[e + 1]
            BY <1>7, <5>1
          <6>2. k \in 1..Len(s.queue) /\ k < Len(s.queue)
            BY <1>2
          <6>3. k = e + 1
            BY <1>7, <6>1, <6>2 DEF Distinct
          <6> QED
            BY <4>1, <6>2, <6>3 DEF Elsewhere
        <5>2. CASE j[n].to # None /\ HostOf[j[n].to] # HostOf[s.out[1].uri]
          BY <1>7, <5>2 DEF Elsewhere, Same
        <5> QED
          BY <1>4, <3>3, <4>3, <5>1, <5>2
      <4> QED
        BY <4>2, <4>3
    <3>4. CASE n = l + 2
      <4>1. /\ n \in (l + 1)..Len(j) /\ q[n] = e + 1 /\ q[n - 1] = e + 1 /\ j[n].part # "head"
            /\ j[n].file = s.queue[e + 1].file
        BY <1>8, <1>9, <3>1, <3>4
      <4> QED
        BY <1>7, <4>1
    <3> QED
      BY <1>8, <3>2, <3>3, <3>4
  <2>2. \A k, n \in 0..Len(j) : k <= n => q[k] <= q[n]
    <3> SUFFICES ASSUME NEW k \in 0..Len(j), NEW n \in 0..Len(j), k <= n PROVE q[k] <= q[n]
      OBVIOUS
    <3>1. \A a \in 0..l : p[a] <= e /\ p[a] \in Nat
      <4>1. \A a \in 0..l : a <= l /\ l \in 0..l
        OBVIOUS
      <4>2. \A a, b \in 0..l : a <= b => p[a] <= p[b]
        BY <1>1, <1>4 DEF Places
      <4>3. \A a \in 0..l : p[a] \in Nat
        BY <1>1, <1>4
      <4> QED
        BY <1>5, <4>1, <4>2, <4>3
    <3>2. CASE n <= l
      <4>1. k \in 0..l /\ n \in 0..l
        BY <1>3, <3>2
      <4> QED
        BY <1>1, <1>4, <1>9, <4>1 DEF Places
    <3>3. CASE ~(n <= l)
      <4>1. q[n] = e + 1
        BY <1>9, <3>3
      <4>2. CASE k <= l
        <5>1. q[k] = p[k] /\ k \in 0..l
          BY <1>9, <4>2
        <5>2. p[k] <= e /\ p[k] \in Nat
          BY <3>1, <5>1
        <5> QED
          BY <4>1, <5>1, <5>2
      <4>3. CASE ~(k <= l)
        BY <1>9, <4>1, <4>3
      <4> QED
        BY <4>2, <4>3
    <3> QED
      BY <3>2, <3>3
  <2>3. q[0] = Cur(t) /\ (t.at = "moving" => Elsewhere(t, 1, t.next))
    BY <1>1, <1>9 DEF Places, Cur, Elsewhere
  <2> QED
    BY <2>1, <2>2, <2>3 DEF Places
<1>11. Rest(t, e + 1)
  <2>1. (e + 1) + Len(t.out) = e + Len(s.out) /\ (e + 1) + Len(t.out) + 1 = e + Len(s.out) + 1
    <3>1. PICK o \in Nat : o = Len(t.out)
      <4>1. Len(t.out) \in Nat
        BY <1>2
      <4> QED
        BY <4>1
    <3>2. o + 1 = Len(s.out)
      BY <1>2, <3>1
    <3>3. (e + 1) + o = e + (o + 1)
      OBVIOUS
    <3> QED
      BY <3>1, <3>3, <3>2
  <2>2. ASSUME NEW n \in 1..Len(t.out) PROVE t.out[n] = t.queue[(e + 1) + n]
    <3>1. n \in 1..(Len(s.out) - 1) /\ n + 1 \in 1..Len(s.out) /\ e + (n + 1) = (e + 1) + n
      BY <1>2
    <3> QED
      BY <1>2, <1>6, <3>1
  <2>3. BackAt(t, e + Len(s.out) + 1) /\ \A n \in 1..(e + Len(s.out)) : Same(t, n)
    BY <1>6 DEF BackAt, Same
  <2> QED
    BY <1>6, <2>1, <2>2, <2>3 DEF Rest
<1> QED
  BY <1>9, <1>10, <1>11 DEF InLine

-----------------------------------------------------------------------------
(* The shape of the responses.                                             *)

LEMMA ShapeRead ==
    ASSUME NEW s, NEW t, NEW i \in Seq(Unit), i # << >>, NEW u, Shape(s, i, u),
           InBody(t) <=> i[1].part = "head" /\ i[1].body
    PROVE  Shape(t, Tail(i), u)
<1>1. /\ Len(i) \in Nat \ {0} /\ Len(Tail(i)) = Len(i) - 1 /\ Tail(i) \in Seq(Unit)
      /\ \A n \in 1..(Len(i) - 1) : Tail(i)[n] = i[n + 1]
  BY TailOf
<1>2. /\ i # << >> /\ u => ~(i[Len(i)].part = "head" /\ i[Len(i)].body)
      /\ \A n \in 1..(Len(i) - 1) : i[n + 1].part = "body" <=> i[n].part = "head" /\ i[n].body
      /\ \A n \in 1..Len(i) : i[n].part = "head" => /\ i[n].says = "ok" => i[n].body
                                                    /\ i[n].says = "ims" => ~i[n].body
  BY DEF Shape
<1>3. ASSUME Tail(i) = << >> PROVE ~(InBody(t) /\ u)
  <2>1. Len(i) = 1
    BY <1>1, <1>3, EmptySeq
  <2> QED
    BY <1>2, <2>1
<1>4. ASSUME Tail(i) # << >>
      PROVE  /\ Tail(i)[1].part = "body" <=> InBody(t)
             /\ u => ~(Tail(i)[Len(Tail(i))].part = "head" /\ Tail(i)[Len(Tail(i))].body)
  <2>1. Len(i) - 1 \in Nat \ {0}
    BY <1>1, <1>4, EmptySeq
  <2>2. 1 \in 1..(Len(i) - 1) /\ Len(i) - 1 \in 1..(Len(i) - 1) /\ (Len(i) - 1) + 1 = Len(i)
        /\ 1 + 1 = 2
    BY <1>1, <2>1
  <2>3. Tail(i)[1] = i[1 + 1] /\ Tail(i)[Len(Tail(i))] = i[Len(i)]
    BY <1>1, <2>2
  <2> QED
    BY <1>2, <2>2, <2>3
<1>5. \A n \in 1..(Len(Tail(i)) - 1) :
         Tail(i)[n + 1].part = "body" <=> Tail(i)[n].part = "head" /\ Tail(i)[n].body
  <2> TAKE n \in 1..(Len(Tail(i)) - 1)
  <2>1. n \in 1..(Len(i) - 1) /\ n + 1 \in 1..(Len(i) - 1)
    BY <1>1
  <2> QED
    BY <1>1, <1>2, <2>1
<1>6. \A n \in 1..Len(Tail(i)) :
         Tail(i)[n].part = "head" => /\ Tail(i)[n].says = "ok" => Tail(i)[n].body
                                     /\ Tail(i)[n].says = "ims" => ~Tail(i)[n].body
  <2> TAKE n \in 1..Len(Tail(i))
  <2>1. n \in 1..(Len(i) - 1) /\ n + 1 \in 1..Len(i)
    BY <1>1
  <2> QED
    BY <1>1, <1>2, <2>1
<1> QED
  BY <1>3, <1>4, <1>5, <1>6 DEF Shape

LEMMA ShapeServe ==
    ASSUME NEW s, NEW t, NEW i \in Seq(Unit), NEW j \in Seq(Unit), NEW u, Shape(s, i, TRUE),
           InBody(t) <=> InBody(s),
           Len(j) \in (Len(i) + 1)..(Len(i) + 2), \A n \in 1..Len(i) : j[n] = i[n],
           j[Len(i) + 1].part = "head",
           j[Len(i) + 1].says = "ok" => j[Len(i) + 1].body,
           j[Len(i) + 1].says = "ims" => ~j[Len(i) + 1].body,
           Len(j) = Len(i) + 2 => j[Len(i) + 1].body /\ j[Len(i) + 2].part = "body",
           Len(j) = Len(i) + 1 => ~(j[Len(i) + 1].body /\ u)
    PROVE  Shape(t, j, u)
<1>1. Len(i) \in Nat /\ Len(j) \in Nat
  BY LenProperties
<1>2. PICK l \in Nat : l = Len(i)
  BY <1>1
<1>3. Len(j) = l + 1 \/ Len(j) = l + 2
  BY <1>1, <1>2
<1>4. /\ j[l + 1].part = "head"
      /\ Len(j) = l + 2 => j[l + 1].body /\ j[l + 2].part = "body"
      /\ Len(j) = l + 1 => ~(j[l + 1].body /\ u)
  BY <1>2
<1>5. j # << >>
  BY <1>1, <1>3, EmptySeq
<1>6. j[1].part = "body" <=> InBody(t)
  <2>1. CASE l = 0
    <3>1. i = << >>
      BY <1>2, <2>1, EmptySeq
    <3>2. ~InBody(t)
      BY <3>1 DEF Shape
    <3> QED
      BY <1>4, <2>1, <3>2
  <2>2. CASE l # 0
    <3>1. i # << >> /\ 1 \in 1..Len(i)
      BY <1>2, <2>2, EmptySeq
    <3> QED
      BY <3>1 DEF Shape
  <2> QED
    BY <2>1, <2>2
<1>7. u => ~(j[Len(j)].part = "head" /\ j[Len(j)].body)
  BY <1>2, <1>3, <1>4
<1>8. ASSUME NEW n \in 1..(Len(j) - 1)
      PROVE  j[n + 1].part = "body" <=> j[n].part = "head" /\ j[n].body
  <2>1. n <= l - 1 \/ n = l \/ n = l + 1
    BY <1>3
  <2>2. CASE n <= l - 1
    <3>1. n \in 1..(Len(i) - 1) /\ n \in 1..Len(i) /\ n + 1 \in 1..Len(i)
      BY <1>2, <2>2
    <3> QED
      BY <3>1 DEF Shape
  <2>3. CASE n = l
    <3>1. i # << >> /\ n \in 1..Len(i) /\ n = Len(i)
      BY <1>2, <2>3, EmptySeq
    <3>2. ~(i[n].part = "head" /\ i[n].body)
      BY <3>1 DEF Shape
    <3> QED
      BY <1>4, <2>3, <3>1, <3>2
  <2>4. CASE n = l + 1
    <3>1. Len(j) = l + 2 /\ n + 1 = l + 2
      BY <1>3, <2>4
    <3> QED
      BY <1>2, <1>4, <2>4, <3>1
  <2> QED
    BY <2>1, <2>2, <2>3, <2>4
<1>9. ASSUME NEW n \in 1..Len(j), j[n].part = "head"
      PROVE  /\ j[n].says = "ok" => j[n].body
             /\ j[n].says = "ims" => ~j[n].body
  <2>1. CASE n <= l
    <3>1. n \in 1..Len(i)
      BY <1>2, <2>1
    <3> QED
      BY <1>9, <3>1 DEF Shape
  <2>2. CASE ~(n <= l)
    <3>1. n = l + 1 \/ (n = l + 2 /\ Len(j) = l + 2)
      BY <1>1, <1>3, <2>2
    <3>2. n = l + 1
      BY <1>4, <1>9, <3>1
    <3> QED
      BY <1>2, <3>2
  <2> QED
    BY <2>1, <2>2
<1> QED
  BY <1>5, <1>6, <1>7, <1>8, <1>9 DEF Shape

-----------------------------------------------------------------------------
(* The requests, queued or answered.                                       *)

\* k requests came; those of d were answered, and q holds the others.
Lot(q, d, k) ==
    /\ Distinct(q)
    /\ \A n \in 1..Len(q) : q[n].file \notin d
    /\ \A x : x \in 1..k <=> x \in d \/ \E n \in 1..Len(q) : q[n].file = x

LEMMA NothingLostIs ==
    ASSUME m \in Memory
    PROVE  NothingLost <=> Lot(m.queue, done, sent)
<1>1. DOMAIN m.queue = 1..Len(m.queue)
  BY Fields
<1>2. /\ DOMAIN Files(m.queue) = 1..Len(m.queue)
      /\ \A n \in 1..Len(m.queue) : Files(m.queue)[n] = m.queue[n].file
  BY <1>1 DEF Files
<1>3. IsInjective(Files(m.queue)) <=> Distinct(m.queue)
  BY <1>2 DEF IsInjective, Distinct
<1>4. \A x : x \in Range(Files(m.queue)) <=> \E n \in 1..Len(m.queue) : m.queue[n].file = x
  BY <1>2 DEF Range
<1>5. Range(Files(m.queue)) \cap done = {} <=> \A n \in 1..Len(m.queue) : m.queue[n].file \notin done
  BY <1>4
<1>6. Range(Files(m.queue)) \cup done = 1..sent
      <=> \A x : x \in 1..sent <=> x \in done \/ \E n \in 1..Len(m.queue) : m.queue[n].file = x
  BY <1>4
<1> QED
  BY <1>3, <1>5, <1>6 DEF NothingLost, Lot

LEMMA LotGone ==
    ASSUME NEW q \in Seq(FetchItem), q # << >>, NEW d, NEW k, Lot(q, d, k)
    PROVE  Lot(Tail(q), d \cup {q[1].file}, k)
<1>1. /\ Len(q) \in Nat \ {0} /\ Len(Tail(q)) = Len(q) - 1
      /\ \A n \in 1..(Len(q) - 1) : Tail(q)[n] = q[n + 1]
  BY TailOf
<1>2. \A n \in 1..(Len(q) - 1) : n + 1 \in 1..Len(q) /\ n + 1 # 1
  BY <1>1
<1>3. 1 \in 1..Len(q) /\ \A n \in 1..Len(q) : n # 1 => n - 1 \in 1..(Len(q) - 1) /\ (n - 1) + 1 = n
  BY <1>1
<1>4. Distinct(Tail(q))
  <2> SUFFICES ASSUME NEW a \in 1..(Len(q) - 1), NEW b \in 1..(Len(q) - 1),
                      Tail(q)[a].file = Tail(q)[b].file
               PROVE  a = b
    BY <1>1 DEF Distinct
  <2>1. a + 1 = b + 1
    BY <1>1, <1>2 DEF Lot, Distinct
  <2> QED
    BY <2>1
<1>5. \A n \in 1..(Len(q) - 1) : Tail(q)[n].file \notin d \cup {q[1].file}
  BY <1>1, <1>2, <1>3 DEF Lot, Distinct
<1>6. ASSUME NEW x
      PROVE  (\E n \in 1..Len(q) : q[n].file = x)
             <=> x = q[1].file \/ \E n \in 1..(Len(q) - 1) : Tail(q)[n].file = x
  BY <1>1, <1>2, <1>3
<1>7. \A x : x \in 1..k <=> \/ x \in d \cup {q[1].file}
                            \/ \E n \in 1..(Len(q) - 1) : Tail(q)[n].file = x
  BY <1>6 DEF Lot
<1> QED
  BY <1>1, <1>4, <1>5, <1>7 DEF Lot

LEMMA LotArrived ==
    ASSUME NEW q \in Seq(FetchItem), NEW d, NEW k \in Nat, Lot(q, d, k),
           NEW x \in FetchItem, x.file = k + 1
    PROVE  Lot(Append(q, x), d, k + 1)
<1>1. /\ Len(q) \in Nat /\ Len(Append(q, x)) = Len(q) + 1 /\ Append(q, x)[Len(q) + 1] = x
      /\ \A n \in 1..Len(q) : Append(q, x)[n] = q[n]
  BY AppendProperties, LenProperties
<1>2. \A n \in 1..(Len(q) + 1) : n \in 1..Len(q) \/ n = Len(q) + 1
  BY <1>1
<1>3. \A n \in 1..Len(q) : n \in 1..(Len(q) + 1)
  BY <1>1
<1>4. Len(q) + 1 \in 1..(Len(q) + 1)
  BY <1>1
<1>5. k + 1 \notin 1..k /\ \A y : y \in 1..(k + 1) <=> y \in 1..k \/ y = k + 1
  OBVIOUS
<1>6. k + 1 \notin d /\ \A n \in 1..Len(q) : q[n].file # k + 1
  BY <1>5 DEF Lot
<1>7. Distinct(Append(q, x))
  BY <1>1, <1>2, <1>6 DEF Lot, Distinct
<1>8. \A n \in 1..(Len(q) + 1) : Append(q, x)[n].file \notin d
  BY <1>1, <1>2, <1>6 DEF Lot
<1>9. ASSUME NEW y
      PROVE  (\E n \in 1..(Len(q) + 1) : Append(q, x)[n].file = y)
             <=> y = k + 1 \/ \E n \in 1..Len(q) : q[n].file = y
  BY <1>1, <1>2, <1>3, <1>4
<1>10. \A y : y \in 1..(k + 1) <=> y \in d \/ \E n \in 1..(Len(q) + 1) : Append(q, x)[n].file = y
  BY <1>5, <1>9 DEF Lot
<1> QED
  BY <1>1, <1>7, <1>8, <1>10 DEF Lot

LEMMA LotTurned ==
    ASSUME NEW q \in Seq(FetchItem), q # << >>, NEW d, NEW k, Lot(q, d, k),
           NEW x \in FetchItem, x.file = q[1].file
    PROVE  Lot(Append(Tail(q), x), d, k)
<1> DEFINE t == Tail(q)
<1>1. Lot(t, d \cup {x.file}, k) /\ t \in Seq(FetchItem)
  BY LotGone, TailOf
<1>2. x.file \notin d
  <2>1. 1 \in 1..Len(q)
    BY TailOf
  <2> QED
    BY <2>1 DEF Lot
<1> HIDE DEF t
<1>3. /\ Len(t) \in Nat /\ Len(Append(t, x)) = Len(t) + 1 /\ Append(t, x)[Len(t) + 1] = x
      /\ \A n \in 1..Len(t) : Append(t, x)[n] = t[n]
  BY <1>1, AppendProperties, LenProperties
<1>4. \A n \in 1..(Len(t) + 1) : n \in 1..Len(t) \/ n = Len(t) + 1
  BY <1>3
<1>5. Len(t) + 1 \in 1..(Len(t) + 1) /\ \A n \in 1..Len(t) : n \in 1..(Len(t) + 1)
  BY <1>3
<1>6. \A n \in 1..Len(t) : t[n].file # x.file
  BY <1>1 DEF Lot
<1>7. Distinct(Append(t, x))
  BY <1>1, <1>3, <1>4, <1>6 DEF Lot, Distinct
<1>8. \A n \in 1..(Len(t) + 1) : Append(t, x)[n].file \notin d
  BY <1>1, <1>2, <1>3, <1>4 DEF Lot
<1>9. ASSUME NEW y
      PROVE  (\E n \in 1..(Len(t) + 1) : Append(t, x)[n].file = y)
             <=> y = x.file \/ \E n \in 1..Len(t) : t[n].file = y
  BY <1>3, <1>4, <1>5
<1>10. \A y : y \in 1..k <=> y \in d \/ \E n \in 1..(Len(t) + 1) : Append(t, x)[n].file = y
  BY <1>1, <1>9 DEF Lot
<1>11. Lot(Append(t, x), d, k)
  BY <1>3, <1>7, <1>8, <1>10 DEF Lot
<1> QED
  BY <1>11 DEF t

-----------------------------------------------------------------------------
(* The invariant.                                                          *)

\* The head of the queue is for the server while its response is awaited or read.
Busy == /\ m.at \in {"headers", "data", "moving"} => m.queue # << >> /\ Same(m, 1)
        /\ m.at = "moving" => m.next # None

HostsRight == m.fd => \A n \in DOMAIN m.out : HostOf[m.out[n].uri] = m.host

Base == TypeOK /\ Busy /\ HostsRight /\ NothingLost

\* The connection is one that the next response will be read from.
Live(s) == s.at # "top" \/ (s.fd /\ (s.queue = << >> \/ Same(s, 1)))

Ordered(s, i, u, o) ==
    Shape(s, i, u) /\ InLine(s, i) /\ (s.at = "headers" => i # << >> \/ o # << >>)

Position == Live(m) /\ clean => Ordered(m, in, up, m.out)
Once == m.fd /\ clean => IsInjective(Files(m.out))

\* What a step may do to the queue.
Kept == m'.queue = m.queue /\ done' = done
Gone == m.queue # << >> /\ m'.queue = Tail(m.queue) /\ done' = done \cup {HeadFile(m)}
Turned == /\ m.queue # << >> /\ done' = done
          /\ \E u \in URIs :
                m'.queue = Append(Tail(m.queue), [file |-> HeadFile(m), uri |-> u])

\* What the steps of a transfer have in common.
Effect ==
    /\ TypeOK' /\ (Kept \/ Gone \/ Turned) /\ sent' = sent
    /\ m'.out = m.out /\ m'.host = m.host /\ (m'.fd => m.fd) /\ (clean' => clean)
    /\ Busy' /\ (Base => Distinct(m.queue))

Onward == Live(m') /\ clean' /\ Ordered(m, in, up, m.out) => Ordered(m', in', up', m'.out)

LEMMA BaseIs ==
    ASSUME Base
    PROVE  /\ m \in Memory /\ in \in Seq(Unit) /\ {up, clean} \subseteq BOOLEAN
           /\ sent \in 0..N /\ done \in SUBSET Items
           /\ Distinct(m.queue) /\ Lot(m.queue, done, sent)
<1>1. m \in Memory
  BY DEF Base, TypeOK
<1>2. Lot(m.queue, done, sent)
  BY <1>1, NothingLostIs DEF Base
<1> QED
  BY <1>2 DEF Base, TypeOK, Lot

\* The first unit.
LEMMA FirstUnit ==
    ASSUME Base, in # << >>
    PROVE  /\ in[1] \in Unit /\ in[1].part \in {"head", "body"} /\ in[1].body \in BOOLEAN
           /\ in[1].keep \in BOOLEAN /\ in[1].to \in URIs \cup {None}
           /\ 1 \in 1..Len(in) /\ Tail(in) \in Seq(Unit)
<1>1. in \in Seq(Unit)
  BY BaseIs
<1>2. in[1] \in Unit /\ Tail(in) \in Seq(Unit) /\ 1 \in 1..Len(in)
  BY <1>1, TailOf
<1> QED
  BY <1>2 DEF Unit

LEMMA NotedIs ==
    ASSUME Base, in # << >>
    PROVE  /\ Noted \in Memory /\ Alike(m, Noted) /\ Noted.fd = m.fd /\ Noted.at = m.at
           /\ Noted.next = (IF in[1].to = None THEN m.next ELSE in[1].to)
<1>1. m \in Memory /\ in[1].keep \in BOOLEAN /\ in[1].to \in URIs \cup {None}
  BY BaseIs, FirstUnit
<1> DEFINE next == IF in[1].to = None THEN m.next ELSE in[1].to
<1>2. next \in URIs \cup {None}
  BY <1>1 DEF Memory
<1>3. Noted = [m EXCEPT !.keep = in[1].keep, !.next = next]
  BY DEF Noted
<1> HIDE DEF next
<1>4. /\ Noted \in Memory /\ Alike(m, Noted) /\ Noted.fd = m.fd /\ Noted.at = m.at
      /\ Noted.next = next
  BY <1>1, <1>2, <1>3 DEF Memory, Alike
<1> QED
  BY <1>4 DEF next

\* The head fails or is answered, and the method is at the top of its loop.
LEMMA GoneIs ==
    ASSUME NEW s \in Memory, s.queue # << >>
    PROVE  /\ Top(Failed(s)) \in Memory /\ Top(Failed(s)).queue = Tail(s.queue)
           /\ Top(Failed(s)).out = s.out /\ Top(Failed(s)).host = s.host
           /\ Top(Failed(s)).fd = s.fd /\ Top(Failed(s)).at = "top"
           /\ Distinct(s.queue) => Shifted(s, Top(Failed(s)))
           /\ Top(Popped(s)) \in Memory /\ Top(Popped(s)).queue = Tail(s.queue)
           /\ Top(Popped(s)).out = s.out /\ Top(Popped(s)).host = s.host
           /\ Top(Popped(s)).fd = s.fd /\ Top(Popped(s)).at = "top"
           /\ Distinct(s.queue) => Shifted(s, Top(Popped(s)))
<1>1. /\ Failed(s) \in Memory /\ Failed(s).queue = Tail(s.queue)
      /\ Failed(s).out = s.out /\ Failed(s).host = s.host /\ Failed(s).fd = s.fd
      /\ Distinct(s.queue) => Shifted(s, Failed(s))
  BY FailedIs
<1>2. /\ Popped(s) \in Memory /\ Popped(s).queue = Tail(s.queue)
      /\ Popped(s).out = s.out /\ Popped(s).host = s.host /\ Popped(s).fd = s.fd
      /\ Distinct(s.queue) => Shifted(s, Popped(s))
  BY PoppedIs
<1>3. ASSUME NEW t \in Memory, t.queue = Tail(s.queue), t.out = s.out, t.host = s.host,
             t.fd = s.fd, Distinct(s.queue) => Shifted(s, t)
      PROVE  /\ Top(t) \in Memory /\ Top(t).queue = Tail(s.queue) /\ Top(t).out = s.out
             /\ Top(t).host = s.host /\ Top(t).fd = s.fd /\ Top(t).at = "top"
             /\ Distinct(s.queue) => Shifted(s, Top(t))
  <2>1. Top(t) \in Memory /\ Alike(t, Top(t)) /\ Top(t).at = "top" /\ Top(t).fd = t.fd
    BY TopIs
  <2> QED
    BY <1>3, <2>1 DEF Alike, Shifted, BackAt
<1> QED
  BY <1>1, <1>2, <1>3

\* A redirect is followed.
LEMMA FollowIs ==
    ASSUME NEW s \in Memory, s.queue # << >>, s.next # None, Follow(s)
    PROVE  /\ m' \in Memory /\ m'.out = s.out /\ m'.host = s.host
           /\ m'.fd = s.fd /\ m'.at = "top"
           /\ \/ m'.queue = Tail(s.queue) /\ done' = done \cup {HeadFile(s)}
              \/ /\ m'.queue = Append(Tail(s.queue), [file |-> HeadFile(s), uri |-> s.next])
                 /\ s.next \in URIs /\ done' = done
           /\ Distinct(s.queue) /\ Elsewhere(s, 1, s.next) => Shifted(s, m') \/ ~Live(m')
<1> DEFINE f == HeadFile(s)
           v == s.queue[1].uri
<1>1. CASE Loops(s)
  <2>1. m' = Top(Failed(s)) /\ done' = done \cup {HeadFile(s)}
    BY <1>1 DEF Follow, Report
  <2> QED
    BY <2>1, GoneIs
<1>2. CASE ~Loops(s)
  <2> DEFINE seen == [s.seen EXCEPT ![f] = @ \cup {v}]
             stop == IF v \in s.seen[f] THEN s.stop \cup {f} ELSE s.stop
             r == [s EXCEPT !.seen = seen, !.stop = stop]
  <2>1. f \in Items /\ v \in URIs /\ s.next \in URIs
    <3>1. 1 \in 1..Len(s.queue)
      BY Fields, EmptySeq
    <3> QED
      BY <3>1, Fields DEF HeadFile, Memory
  <2>2. seen \in [Items -> SUBSET URIs] /\ stop \in SUBSET Items
    <3>1. s.seen \in [Items -> SUBSET URIs] /\ s.stop \in SUBSET Items
      BY DEF Memory
    <3> QED
      BY <2>1, <3>1
  <2>3. m' = Top(Redirect(r, s.next)) /\ done' = done
    BY <1>2 DEF Follow, Memory
  <2> HIDE DEF seen, stop
  <2>4. r \in Memory /\ Alike(s, r) /\ r.fd = s.fd
    BY <2>2 DEF Memory, Alike
  <2> HIDE DEF r
  <2>5. r.queue = s.queue /\ r.queue # << >> /\ HeadFile(r) = HeadFile(s)
    BY <2>4 DEF Alike, HeadFile
  <2> DEFINE t == Redirect(r, s.next)
  <2>6. /\ t \in Memory
        /\ t.queue = Append(Tail(s.queue), [file |-> HeadFile(s), uri |-> s.next])
        /\ t.out = s.out /\ t.host = s.host /\ t.fd = s.fd
        /\ Distinct(s.queue) /\ Len(s.queue) > 1 => Shifted(r, t)
        /\ Len(s.queue) = 1 => t.queue = <<[file |-> HeadFile(s), uri |-> s.next]>>
    BY <2>1, <2>4, <2>5, RedirectIs DEF Alike
  <2> HIDE DEF t
  <2>7. /\ Top(t) \in Memory /\ Alike(t, Top(t)) /\ Top(t).at = "top" /\ Top(t).fd = t.fd
        /\ m' = Top(t)
    BY <2>3, <2>6, TopIs DEF t
  <2>8. ASSUME Distinct(s.queue), Len(s.queue) > 1 PROVE Shifted(s, m')
    BY <2>4, <2>6, <2>7, <2>8 DEF Alike, Shifted, BackAt
  <2>9. ASSUME Len(s.queue) = 1, HostOf[s.next] # s.host PROVE ~Live(m')
    <3>1. m'.queue = <<[file |-> HeadFile(s), uri |-> s.next]>> /\ m'.host = s.host /\ m'.at = "top"
      BY <2>6, <2>7, <2>9 DEF Alike
    <3>2. m'.queue # << >> /\ m'.queue[1].uri = s.next
      BY <3>1
    <3> QED
      BY <2>9, <3>1, <3>2 DEF Live, Same
  <2>10. Len(s.queue) \in Nat \ {0}
    BY Fields, EmptySeq
  <2>11. Distinct(s.queue) /\ Elsewhere(s, 1, s.next) => Shifted(s, m') \/ ~Live(m')
    <3>0. \A l \in Nat \ {0} : l > 1 \/ l = 1
      OBVIOUS
    <3>1. Len(s.queue) > 1 \/ Len(s.queue) = 1
      BY <2>10, <3>0
    <3>2. Len(s.queue) = 1 => ~(1 < Len(s.queue))
      OBVIOUS
    <3> QED
      BY <2>8, <2>9, <3>1, <3>2, Zenon DEF Elsewhere
  <2> QED
    BY <2>1, <2>3, <2>6, <2>7, <2>11 DEF Alike
<1> QED
  BY <1>1, <1>2

-----------------------------------------------------------------------------
(* The steps of a transfer.                                                *)

LEMMA EffectOf ==
    ASSUME Base, m' \in Memory, in' \in Seq(Unit), up' \in BOOLEAN, clean' \in BOOLEAN,
           sent' = sent, Kept \/ Gone \/ Turned, m'.out = m.out, m'.host = m.host,
           m'.fd => m.fd, clean' => clean,
           m'.at \in {"headers", "data", "moving"} =>
              /\ m.at \in {"headers", "data", "moving"} /\ m'.queue = m.queue
              /\ m'.at = "moving" => m'.next # None
    PROVE  Effect
<1>1. /\ m \in Memory /\ sent \in 0..N /\ done \in SUBSET Items /\ Distinct(m.queue)
  BY BaseIs
<1>2. done' \in SUBSET Items
  <2>1. CASE Kept \/ Turned
    BY <1>1, <2>1 DEF Kept, Turned
  <2>2. CASE Gone
    <3>1. 1 \in 1..Len(m.queue)
      BY <1>1, <2>2, Fields, EmptySeq DEF Gone
    <3>2. HeadFile(m) \in Items
      BY <1>1, <3>1, Fields DEF HeadFile
    <3> QED
      BY <1>1, <2>2, <3>2 DEF Gone
  <2> QED
    BY <2>1, <2>2
<1>3. TypeOK'
  BY <1>1, <1>2 DEF TypeOK
<1>4. Busy'
  BY DEF Base, Busy, Same
<1> QED
  BY <1>1, <1>3, <1>4 DEF Effect

\* A head in front: the head of the queue is known, and for the server.
LEMMA HeadFirst ==
    ASSUME Base, NEW says, Response(says)
    PROVE  /\ m.at = "headers" /\ m.queue # << >> /\ in # << >> /\ in[1].part = "head"
           /\ in[1].says = says /\ Cur(m) = 0 /\ ~InBody(m)
BY DEF Base, Busy, Response, Cur, InBody

LEMMA BodyFollowsDoes == Base /\ BodyFollows => Effect /\ Onward
<1> SUFFICES ASSUME Base, BodyFollows PROVE Effect /\ Onward
  OBVIOUS
<1>1. /\ m.at = "headers" /\ m.queue # << >> /\ in # << >> /\ in[1].part = "head"
      /\ in[1].says = "ok" /\ Cur(m) = 0 /\ in' = Tail(in)
  BY HeadFirst DEF BodyFollows, Read
<1>2. /\ Noted \in Memory /\ Alike(m, Noted) /\ Noted.fd = m.fd
  BY <1>1, NotedIs
<1>3. m' = [Noted EXCEPT !.at = "data"] /\ UNCHANGED <<up, sent, clean, done>>
  BY DEF BodyFollows
<1>4. m' \in Memory /\ Alike(m, m') /\ m'.fd = m.fd /\ m'.at = "data"
  BY <1>2, <1>3 DEF Memory, Alike
<1>5. in' \in Seq(Unit) /\ m \in Memory /\ in \in Seq(Unit) /\ 1 \in 1..Len(in)
      /\ {up, clean} \subseteq BOOLEAN
  BY <1>1, BaseIs, FirstUnit
<1>6. Effect
  BY <1>1, <1>3, <1>4, <1>5, EffectOf DEF Alike, Kept
<1>7. ASSUME Ordered(m, in, up, m.out) PROVE Ordered(m', in', up', m'.out)
  <2>1. Shape(m', Tail(in), up)
    <3>1. in[1].body
      BY <1>1, <1>5, <1>7 DEF Ordered, Shape
    <3>2. InBody(m') <=> in[1].part = "head" /\ in[1].body
      BY <1>1, <1>4, <3>1 DEF InBody
    <3> QED
      BY <1>1, <1>5, <1>7, <3>2, ShapeRead DEF Ordered
  <2>2. InLine(m', Tail(in))
    <3>1. Cur(m') = Cur(m) + (IF in[1].part = "head" THEN 1 ELSE 0) /\ m'.at # "moving"
      BY <1>1, <1>4 DEF Cur
    <3> QED
      BY <1>1, <1>4, <1>5, <1>7, <3>1, ReadOn DEF Ordered
  <2> QED
    BY <1>1, <1>3, <1>4, <2>1, <2>2 DEF Ordered
<1> QED
  BY <1>6, <1>7 DEF Onward

LEMMA FileFailsDoes == Base /\ FileFails => Effect /\ Onward
<1> SUFFICES ASSUME Base, FileFails PROVE Effect /\ Onward
  OBVIOUS
<1>1. /\ m.at = "headers" /\ m.queue # << >> /\ in # << >> /\ in' = Tail(in)
  BY HeadFirst DEF FileFails, Read
<1>2. /\ Noted \in Memory /\ Alike(m, Noted) /\ Noted.queue # << >>
  BY <1>1, NotedIs DEF Alike
<1>3. /\ Failed(Noted) \in Memory /\ Failed(Noted).queue = Tail(m.queue)
      /\ Failed(Noted).out = m.out /\ Failed(Noted).host = m.host
  BY <1>2, FailedIs DEF Alike
<1>4. /\ m' = Top(Close(Failed(Noted))) /\ done' = done \cup {HeadFile(m)}
      /\ UNCHANGED <<up, sent, clean>>
  BY DEF FileFails, Report
<1>5. /\ Close(Failed(Noted)) \in Memory /\ Alike(Failed(Noted), Close(Failed(Noted)))
      /\ Close(Failed(Noted)).fd = FALSE
  BY <1>3, CloseIs
<1>6. /\ m' \in Memory /\ m'.queue = Tail(m.queue) /\ m'.out = m.out /\ m'.host = m.host
      /\ m'.fd = FALSE /\ m'.at = "top"
  BY <1>3, <1>4, <1>5, TopIs DEF Alike
<1>7. in' \in Seq(Unit) /\ {up, clean} \subseteq BOOLEAN
  BY <1>1, BaseIs, FirstUnit
<1>8. Effect
  BY <1>1, <1>4, <1>6, <1>7, EffectOf DEF Gone
<1> QED
  BY <1>6, <1>8 DEF Onward, Live

LEMMA NotModifiedDoes == Base /\ NotModified => Effect /\ Onward
<1> SUFFICES ASSUME Base, NotModified PROVE Effect /\ Onward
  OBVIOUS
<1>1. /\ m.at = "headers" /\ m.queue # << >> /\ in # << >> /\ in[1].part = "head"
      /\ in[1].says = "ims" /\ Cur(m) = 0 /\ in' = Tail(in)
  BY HeadFirst DEF NotModified, Read
<1>2. /\ Noted \in Memory /\ Alike(m, Noted) /\ Noted.queue # << >> /\ Noted.fd = m.fd
  BY <1>1, NotedIs DEF Alike
<1>3. /\ m' = Top(Popped(Noted)) /\ done' = done \cup {HeadFile(m)}
      /\ UNCHANGED <<up, sent, clean>>
  BY DEF NotModified, Report
<1>4. /\ m' \in Memory /\ m'.queue = Tail(m.queue) /\ m'.out = m.out /\ m'.host = m.host
      /\ m'.fd = m.fd /\ m'.at = "top" /\ (Distinct(m.queue) => Shifted(Noted, m'))
  BY <1>2, <1>3, GoneIs DEF Alike
<1>5. in' \in Seq(Unit) /\ m \in Memory /\ in \in Seq(Unit) /\ 1 \in 1..Len(in)
      /\ {up, clean} \subseteq BOOLEAN /\ Distinct(m.queue)
  BY <1>1, BaseIs, FirstUnit
<1>6. Effect
  BY <1>1, <1>3, <1>4, <1>5, EffectOf DEF Gone
<1>7. ASSUME Ordered(m, in, up, m.out) PROVE Ordered(m', in', up', m'.out)
  <2>1. Shape(m', Tail(in), up)
    <3>1. ~in[1].body
      BY <1>1, <1>5, <1>7 DEF Ordered, Shape
    <3>2. InBody(m') <=> in[1].part = "head" /\ in[1].body
      BY <1>1, <1>4, <3>1 DEF InBody
    <3> QED
      BY <1>1, <1>5, <1>7, <3>2, ShapeRead DEF Ordered
  <2>2. InLine(m', Tail(in))
    <3>1. Cur(m) + (IF in[1].part = "head" THEN 1 ELSE 0) = 1 /\ Cur(m') = 0 /\ m'.at # "moving"
      BY <1>1, <1>4 DEF Cur
    <3>2. Shifted(m, m')
      BY <1>2, <1>4, <1>5 DEF Alike, Shifted, BackAt
    <3>3. Len(m'.queue) \in Nat
      BY <1>4, Fields
    <3> QED
      BY <1>1, <1>5, <1>7, <3>1, <3>2, <3>3, ReadAndShift DEF Ordered
  <2> QED
    BY <1>1, <1>3, <1>4, <2>1, <2>2 DEF Ordered
<1> QED
  BY <1>6, <1>7 DEF Onward

\* A unit is read, and the head of the queue goes with it.
LEMMA GoneOnward ==
    ASSUME Base, in # << >>, in' = Tail(in), up' = up, m' \in Memory, Shifted(m, m'),
           m'.at \in {"top", "drop"}, Cur(m) + (IF in[1].part = "head" THEN 1 ELSE 0) = 1,
           m'.at = "drop" <=> in[1].part = "head" /\ in[1].body
    PROVE  Onward
<1> SUFFICES ASSUME Ordered(m, in, up, m.out) PROVE Ordered(m', in', up', m'.out)
  BY DEF Onward
<1>1. m \in Memory /\ in \in Seq(Unit)
  BY BaseIs
<1>2. Shape(m', Tail(in), up)
  <2>1. InBody(m') <=> in[1].part = "head" /\ in[1].body
    BY DEF InBody
  <2> QED
    BY <1>1, <2>1, ShapeRead DEF Ordered
<1>3. InLine(m', Tail(in))
  <2>1. Cur(m') = 0 /\ m'.at # "moving" /\ m'.at # "headers"
    BY DEF Cur
  <2>2. Len(m'.queue) \in Nat
    BY Fields
  <2> QED
    BY <1>1, <2>1, <2>2, ReadAndShift DEF Ordered
<1> QED
  BY <1>2, <1>3 DEF Ordered

LEMMA NotFoundDoes == Base /\ NotFound => Effect /\ Onward
<1> SUFFICES ASSUME Base, NotFound PROVE Effect /\ Onward
  OBVIOUS
<1>1. /\ m.at = "headers" /\ m.queue # << >> /\ in # << >> /\ in[1].part = "head"
      /\ Cur(m) = 0 /\ in' = Tail(in)
  BY HeadFirst DEF NotFound, Read
<1>2. /\ Noted \in Memory /\ Alike(m, Noted) /\ Noted.queue # << >> /\ Noted.fd = m.fd
  BY <1>1, NotedIs DEF Alike
<1>3. /\ m' = IF in[1].body THEN [Failed(Noted) EXCEPT !.at = "drop"] ELSE Top(Failed(Noted))
      /\ done' = done \cup {HeadFile(m)} /\ UNCHANGED <<up, sent, clean>>
  BY DEF NotFound, Report
<1>4. /\ m' \in Memory /\ m'.queue = Tail(m.queue) /\ m'.out = m.out /\ m'.host = m.host
      /\ m'.fd = m.fd /\ m'.at = (IF in[1].body THEN "drop" ELSE "top")
      /\ (Distinct(m.queue) => Shifted(Noted, m'))
  <2>1. CASE in[1].body
    <3>1. /\ Failed(Noted) \in Memory /\ Failed(Noted).queue = Tail(m.queue)
          /\ Failed(Noted).out = m.out /\ Failed(Noted).host = m.host /\ Failed(Noted).fd = m.fd
          /\ (Distinct(m.queue) => Shifted(Noted, Failed(Noted)))
      BY <1>2, FailedIs DEF Alike
    <3>2. m' \in Memory /\ Alike(Failed(Noted), m') /\ m'.fd = Failed(Noted).fd /\ m'.at = "drop"
      BY <1>3, <2>1, <3>1 DEF Memory, Alike
    <3> QED
      BY <2>1, <3>1, <3>2 DEF Alike, Shifted, BackAt
  <2>2. CASE ~in[1].body
    BY <1>2, <1>3, <2>2, GoneIs DEF Alike
  <2> QED
    BY <2>1, <2>2
<1>5. in' \in Seq(Unit) /\ {up, clean} \subseteq BOOLEAN /\ Distinct(m.queue) /\ in[1].body \in BOOLEAN
  BY <1>1, BaseIs, FirstUnit
<1>6. m'.at \in {"top", "drop"} /\ (m'.at = "drop" <=> in[1].part = "head" /\ in[1].body)
  BY <1>1, <1>4
<1>7. Effect
  BY <1>1, <1>3, <1>4, <1>5, <1>6, EffectOf DEF Gone
<1>8. Shifted(m, m')
  BY <1>2, <1>4, <1>5 DEF Alike, Shifted, BackAt
<1> QED
  BY <1>1, <1>3, <1>4, <1>6, <1>7, <1>8, GoneOnward

\* The place of the head of the queue while it is redirected.
LEMMA HeadElsewhere ==
    ASSUME Base, in # << >>, in[1].part = "head", in[1].says = "moved", Cur(m) = 0,
           InLine(m, in)
    PROVE  Elsewhere(m, 1, Noted.next)
<1>1. PICK p \in [0..Len(in) -> Nat] : Places(m, in, p)
  BY DEF InLine
<1>2. 1 \in 1..Len(in)
  BY FirstUnit
<1>3. p[1] = 1
  <2>1. p[1] = p[1 - 1] + 1 /\ p[0] = 0 /\ 1 - 1 = 0
    BY <1>1, <1>2 DEF Places
  <2> QED
    BY <2>1
<1>4. Elsewhere(m, 1, in[1].to)
  BY <1>1, <1>2, <1>3 DEF Places
<1>5. Noted.next = (IF in[1].to = None THEN m.next ELSE in[1].to)
  BY NotedIs
<1> QED
  BY <1>4, <1>5 DEF Elsewhere

LEMMA MovedDoes == Base /\ Moved => Effect /\ Onward
<1> SUFFICES ASSUME Base, Moved PROVE Effect /\ Onward
  OBVIOUS
<1>1. /\ m.at = "headers" /\ m.queue # << >> /\ in # << >> /\ in[1].part = "head"
      /\ in[1].says = "moved" /\ Cur(m) = 0 /\ in' = Tail(in) /\ UNCHANGED <<up, sent>>
  BY HeadFirst DEF Moved, Read
<1>2. /\ Noted \in Memory /\ Alike(m, Noted) /\ Noted.queue # << >> /\ Noted.fd = m.fd
  BY <1>1, NotedIs DEF Alike
<1>3. /\ in' \in Seq(Unit) /\ {up, clean} \subseteq BOOLEAN /\ Distinct(m.queue)
      /\ in[1].body \in BOOLEAN /\ m \in Memory /\ in \in Seq(Unit)
  BY <1>1, BaseIs, FirstUnit
<1>4. CASE Noted.next = None
  <2>1. /\ done' = done \cup {HeadFile(m)} /\ m' = Top(Failed(Noted))
        /\ clean' = (clean /\ ~in[1].body)
    BY <1>4 DEF Moved, Report
  <2>2. /\ m' \in Memory /\ m'.queue = Tail(m.queue) /\ m'.out = m.out /\ m'.host = m.host
        /\ m'.fd = m.fd /\ m'.at = "top" /\ Shifted(Noted, m')
    BY <1>2, <1>3, <2>1, GoneIs DEF Alike
  <2>3. Effect
    BY <1>1, <1>3, <2>1, <2>2, EffectOf DEF Gone
  <2>4. Shifted(m, m')
    BY <1>2, <2>2 DEF Alike, Shifted, BackAt
  <2>5. ASSUME clean' PROVE Onward
    <3>1. ~in[1].body /\ m'.at \in {"top", "drop"} /\ m'.at # "drop"
      BY <2>1, <2>2, <2>5
    <3> QED
      BY <1>1, <2>2, <2>4, <3>1, GoneOnward
  <2> QED
    BY <2>3, <2>5 DEF Onward
<1>5. CASE Noted.next # None /\ in[1].body
  <2>1. m' = [Noted EXCEPT !.at = "moving"] /\ UNCHANGED <<done, clean>>
    BY <1>5 DEF Moved
  <2>2. m' \in Memory /\ Alike(m, m') /\ m'.fd = m.fd /\ m'.at = "moving" /\ m'.next = Noted.next
    BY <1>2, <2>1 DEF Memory, Alike
  <2>3. Effect
    BY <1>1, <1>3, <1>5, <2>1, <2>2, EffectOf DEF Kept, Alike
  <2>4. ASSUME Ordered(m, in, up, m.out) PROVE Ordered(m', in', up', m'.out)
    <3>1. Shape(m', Tail(in), up)
      <4>1. InBody(m') <=> in[1].part = "head" /\ in[1].body
        BY <1>1, <1>5, <2>2 DEF InBody
      <4> QED
        BY <1>1, <1>3, <2>4, <4>1, ShapeRead DEF Ordered
    <3>2. InLine(m', Tail(in))
      <4>1. Cur(m') = Cur(m) + (IF in[1].part = "head" THEN 1 ELSE 0)
        BY <1>1, <2>2 DEF Cur
      <4>2. Elsewhere(m', 1, m'.next)
        <5>1. Elsewhere(m, 1, Noted.next)
          BY <1>1, <2>4, HeadElsewhere DEF Ordered
        <5> QED
          BY <2>2, <5>1 DEF Elsewhere, Alike
      <4> QED
        BY <1>1, <1>3, <2>2, <2>4, <4>1, <4>2, ReadOn DEF Ordered
    <3> QED
      BY <1>1, <2>1, <2>2, <3>1, <3>2 DEF Ordered
  <2> QED
    BY <2>3, <2>4 DEF Onward
<1>6. CASE Noted.next # None /\ ~in[1].body
  <2>1. Follow(Noted) /\ clean' = clean
    BY <1>6 DEF Moved
  <2>2. /\ m' \in Memory /\ m'.out = m.out /\ m'.host = m.host
        /\ m'.fd = m.fd /\ m'.at = "top" /\ (Gone \/ Turned)
        /\ Elsewhere(Noted, 1, Noted.next) => Shifted(Noted, m') \/ ~Live(m')
    <3>1. HeadFile(Noted) = HeadFile(m) /\ Noted.queue = m.queue /\ Noted.out = m.out
          /\ Noted.host = m.host
      BY <1>2 DEF Alike, HeadFile
    <3>2. /\ m' \in Memory /\ m'.out = Noted.out /\ m'.host = Noted.host
          /\ m'.fd = Noted.fd /\ m'.at = "top"
          /\ \/ m'.queue = Tail(Noted.queue) /\ done' = done \cup {HeadFile(Noted)}
             \/ /\ m'.queue = Append(Tail(Noted.queue), [file |-> HeadFile(Noted), uri |-> Noted.next])
                /\ Noted.next \in URIs /\ done' = done
          /\ Distinct(Noted.queue) /\ Elsewhere(Noted, 1, Noted.next) => Shifted(Noted, m') \/ ~Live(m')
      BY <1>2, <1>6, <2>1, FollowIs
    <3>3. Gone \/ Turned
      BY <1>1, <3>1, <3>2 DEF Gone, Turned
    <3> QED
      BY <1>2, <1>3, <3>1, <3>2, <3>3
  <2>3. Effect
    BY <1>1, <1>3, <2>1, <2>2, EffectOf
  <2>4. ASSUME Live(m'), Ordered(m, in, up, m.out) PROVE Onward
    <3>1. Elsewhere(m, 1, Noted.next)
      BY <1>1, <2>4, HeadElsewhere DEF Ordered
    <3>2. Shifted(Noted, m')
      BY <1>2, <2>2, <2>4, <3>1 DEF Elsewhere, Alike
    <3>3. Shifted(m, m')
      BY <1>2, <3>2 DEF Alike, Shifted, BackAt
    <3> QED
      BY <1>1, <1>6, <2>2, <3>3, GoneOnward
  <2> QED
    BY <2>3, <2>4 DEF Onward
<1> QED
  BY <1>4, <1>5, <1>6

LEMMA BadHeaderDoes == Base /\ BadHeader => Effect /\ Onward
<1> SUFFICES ASSUME Base, BadHeader PROVE Effect /\ Onward
  OBVIOUS
<1>1. /\ m.at = "headers" /\ m.queue # << >> /\ in # << >> /\ in' = Tail(in)
      /\ done' = done \cup {HeadFile(m)} /\ clean' = FALSE /\ UNCHANGED <<up, sent>>
  BY DEF BadHeader, Read, Report, Base, Busy
<1>2. m \in Memory /\ {up, clean} \subseteq BOOLEAN /\ in' \in Seq(Unit)
  BY <1>1, BaseIs, FirstUnit
<1>3. m' = Top(Failed(m)) \/ m' = [Failed(m) EXCEPT !.at = "top"]
  BY DEF BadHeader
<1>4. /\ m' \in Memory /\ m'.queue = Tail(m.queue) /\ m'.out = m.out /\ m'.host = m.host
      /\ m'.fd = m.fd /\ m'.at = "top"
  <2>1. CASE m' = Top(Failed(m))
    BY <1>1, <1>2, <2>1, GoneIs
  <2>2. CASE m' = [Failed(m) EXCEPT !.at = "top"]
    <3>1. /\ Failed(m) \in Memory /\ Failed(m).queue = Tail(m.queue)
          /\ Failed(m).out = m.out /\ Failed(m).host = m.host /\ Failed(m).fd = m.fd
      BY <1>1, <1>2, FailedIs
    <3> QED
      BY <2>2, <3>1 DEF Memory
  <2> QED
    BY <1>3, <2>1, <2>2
<1>5. Effect
  BY <1>1, <1>2, <1>4, EffectOf DEF Gone
<1> QED
  BY <1>1, <1>5 DEF Onward

LEMMA SwallowedDoes == Base /\ Swallowed => Effect /\ Onward
<1> SUFFICES ASSUME Base, Swallowed PROVE Effect /\ Onward
  OBVIOUS
<1>1. /\ m.at = "headers" /\ in # << >> /\ in' = Tail(in) /\ clean' = FALSE
      /\ UNCHANGED <<m, up, sent, done>>
  BY DEF Swallowed, Read
<1>2. m \in Memory /\ {up, clean} \subseteq BOOLEAN /\ in' \in Seq(Unit)
  BY <1>1, BaseIs, FirstUnit
<1>3. Effect
  BY <1>1, <1>2, EffectOf DEF Kept
<1> QED
  BY <1>1, <1>3 DEF Onward

LEMMA NoHeaderDoes == Base /\ NoHeader => Effect /\ Onward
<1> SUFFICES ASSUME Base, NoHeader PROVE Effect /\ Onward
  OBVIOUS
<1> DEFINE s == [Close(m) EXCEPT !.pipe = FALSE, !.err = FALSE]
<1>1. /\ m.at = "headers" /\ m.queue # << >> /\ UNCHANGED <<in, up, sent, clean>>
  BY DEF NoHeader, Base, Busy
<1>2. m \in Memory /\ in \in Seq(Unit) /\ {up, clean} \subseteq BOOLEAN
  BY BaseIs
<1>3. s \in Memory /\ Alike(m, s) /\ s.fd = FALSE /\ s.tries = m.tries
  <2>1. Close(m) \in Memory /\ Alike(m, Close(m)) /\ Close(m).fd = FALSE
    BY <1>2, CloseIs
  <2>2. Close(m).tries = m.tries
    BY <1>2 DEF Close, Memory
  <2> QED
    BY <2>1, <2>2 DEF Memory, Alike
<1>4. \/ GivesUp(m.tries) /\ Report(m) /\ m' = Top(Failed(s))
      \/ ~GivesUp(m.tries) /\ m' = [s EXCEPT !.tries = m.tries + 1, !.at = "top"] /\ done' = done
  BY <1>3 DEF NoHeader
<1> HIDE DEF s
<1>5. /\ m' \in Memory /\ m'.out = m.out /\ m'.host = m.host /\ m'.fd = FALSE /\ m'.at = "top"
      /\ (Gone \/ Kept)
  <2>1. CASE Report(m) /\ m' = Top(Failed(s))
    BY <1>1, <1>3, <2>1, GoneIs DEF Alike, Gone, Report
  <2>2. CASE ~GivesUp(m.tries) /\ m' = [s EXCEPT !.tries = m.tries + 1, !.at = "top"] /\ done' = done
    <3>1. m.tries \in 0..1
      BY <1>2 DEF Memory
    <3>2. m.tries + 1 \in 0..1
      BY <2>2, <3>1 DEF GivesUp
    <3> QED
      BY <1>3, <2>2, <3>2 DEF Memory, Alike, Kept
  <2> QED
    BY <1>4, <2>1, <2>2
<1>6. Effect
  BY <1>1, <1>2, <1>5, EffectOf
<1> QED
  BY <1>5, <1>6 DEF Onward, Live

LEMMA HungUpDoes == Base /\ HungUp => Effect /\ Onward
<1> SUFFICES ASSUME Base, HungUp PROVE Effect /\ Onward
  OBVIOUS
<1>1. /\ m.at = "headers" /\ m' = Close(m) /\ UNCHANGED <<in, up, sent, clean, done>>
  BY DEF HungUp
<1>2. m \in Memory /\ in \in Seq(Unit) /\ {up, clean} \subseteq BOOLEAN
  BY BaseIs
<1>3. m' \in Memory /\ Alike(m, m') /\ m'.fd = FALSE /\ m'.at = m.at
  BY <1>1, <1>2, CloseIs
<1>4. Effect
  BY <1>1, <1>2, <1>3, EffectOf DEF Alike, Kept
<1>5. ASSUME Ordered(m, in, up, m.out) PROVE Ordered(m', in', up', m'.out)
  <2>1. Shape(m', in, up)
    BY <1>3, <1>5 DEF Ordered, Shape, InBody
  <2>2. InLine(m', in)
    BY <1>1, <1>3, <1>5, AlikeInLine DEF Ordered, Cur
  <2> QED
    BY <1>1, <1>3, <1>5, <2>1, <2>2 DEF Ordered, Alike
<1> QED
  BY <1>4, <1>5 DEF Onward

LEMMA RunDataDoes == Base /\ RunData => Effect /\ Onward
<1> SUFFICES ASSUME Base, RunData PROVE Effect /\ Onward
  OBVIOUS
<1>1. /\ m.at \in {"data", "drop", "moving"} /\ in # << >> /\ in' = Tail(in)
      /\ AfterData(m, TRUE) /\ UNCHANGED <<up, sent, clean>>
  BY DEF RunData, Read
<1>2. /\ in' \in Seq(Unit) /\ {up, clean} \subseteq BOOLEAN /\ Distinct(m.queue)
      /\ m \in Memory /\ in \in Seq(Unit) /\ in[1].part \in {"head", "body"}
  BY <1>1, BaseIs, FirstUnit
<1>3. Ordered(m, in, up, m.out) => in[1].part = "body"
  BY <1>1 DEF Ordered, Shape, InBody
<1>4. CASE m.at = "data"
  <2>1. done' = done \cup {HeadFile(m)} /\ m' = Top(Popped(m)) /\ m.queue # << >>
    BY <1>1, <1>4 DEF AfterData, Report, Base, Busy
  <2>2. /\ m' \in Memory /\ m'.queue = Tail(m.queue) /\ m'.out = m.out /\ m'.host = m.host
        /\ m'.fd = m.fd /\ m'.at = "top" /\ Shifted(m, m')
    BY <1>2, <2>1, GoneIs
  <2>3. Effect
    BY <1>1, <1>2, <2>1, <2>2, EffectOf DEF Gone
  <2>4. Ordered(m, in, up, m.out) => Onward
    <3>1. Cur(m) = 1
      BY <1>4 DEF Cur
    <3> QED
      BY <1>1, <1>3, <2>2, <3>1, GoneOnward
  <2> QED
    BY <2>3, <2>4 DEF Onward
<1>5. CASE m.at = "drop"
  <2>1. done' = done /\ m' = Top([m EXCEPT !.err = m.err])
    BY <1>1, <1>2, <1>5 DEF AfterData, Memory
  <2>2. [m EXCEPT !.err = m.err] = m
    BY <1>2 DEF Memory
  <2>3. m' \in Memory /\ Alike(m, m') /\ m'.at = "top" /\ m'.fd = m.fd
    BY <1>2, <2>1, <2>2, TopIs
  <2>4. Effect
    BY <1>1, <1>2, <2>1, <2>3, EffectOf DEF Alike, Kept
  <2>5. ASSUME Ordered(m, in, up, m.out) PROVE Ordered(m', in', up', m'.out)
    <3>1. Shape(m', Tail(in), up)
      <4>1. InBody(m') <=> in[1].part = "head" /\ in[1].body
        BY <1>3, <2>3, <2>5 DEF InBody
      <4> QED
        BY <1>1, <1>2, <2>5, <4>1, ShapeRead DEF Ordered
    <3>2. InLine(m', Tail(in))
      <4>1. Cur(m') = Cur(m) + (IF in[1].part = "head" THEN 1 ELSE 0) /\ m'.at # "moving"
        BY <1>3, <1>5, <2>3, <2>5 DEF Cur
      <4> QED
        BY <1>1, <1>2, <2>3, <2>5, <4>1, ReadOn DEF Ordered
    <3> QED
      BY <1>1, <2>3, <3>1, <3>2 DEF Ordered
  <2> QED
    BY <2>4, <2>5 DEF Onward
<1>6. CASE m.at = "moving"
  <2>1. m.queue # << >> /\ m.next # None /\ Cur(m) = 1
    BY <1>6 DEF Base, Busy, Cur
  <2>2. [m EXCEPT !.err = @ \/ ~TRUE] = m
    BY <1>2 DEF Memory
  <2>3. Follow(m)
    BY <1>1, <1>6, <2>2 DEF AfterData
  <2>4. /\ m' \in Memory /\ m'.out = m.out /\ m'.host = m.host /\ m'.fd = m.fd /\ m'.at = "top"
        /\ (Gone \/ Turned)
        /\ Elsewhere(m, 1, m.next) => Shifted(m, m') \/ ~Live(m')
    <3>1. /\ m' \in Memory /\ m'.out = m.out /\ m'.host = m.host
          /\ m'.fd = m.fd /\ m'.at = "top"
          /\ \/ m'.queue = Tail(m.queue) /\ done' = done \cup {HeadFile(m)}
             \/ /\ m'.queue = Append(Tail(m.queue), [file |-> HeadFile(m), uri |-> m.next])
                /\ m.next \in URIs /\ done' = done
          /\ Distinct(m.queue) /\ Elsewhere(m, 1, m.next) => Shifted(m, m') \/ ~Live(m')
      BY <1>2, <2>1, <2>3, FollowIs
    <3>2. Gone \/ Turned
      BY <2>1, <3>1 DEF Gone, Turned
    <3> QED
      BY <1>2, <3>1, <3>2
  <2>5. Effect
    BY <1>1, <1>2, <2>4, EffectOf
  <2>6. ASSUME Live(m'), Ordered(m, in, up, m.out) PROVE Onward
    <3>1. Elsewhere(m, 1, m.next)
      BY <1>6, <2>6 DEF Ordered, InLine, Places
    <3>2. Shifted(m, m')
      BY <2>4, <2>6, <3>1
    <3> QED
      BY <1>1, <1>3, <2>1, <2>4, <2>6, <3>2, GoneOnward
  <2> QED
    BY <2>5, <2>6 DEF Onward
<1> QED
  BY <1>1, <1>4, <1>5, <1>6

LEMMA NoDataDoes == Base /\ NoData => Effect /\ Onward
<1> SUFFICES ASSUME Base, NoData PROVE Effect /\ Onward
  OBVIOUS
<1> DEFINE c == Close(m)
<1>1. /\ m.at \in {"data", "drop", "moving"} /\ in = << >>
      /\ AfterData(c, FALSE) /\ UNCHANGED <<in, up, sent, clean>>
  BY DEF NoData
<1>2. /\ {up, clean} \subseteq BOOLEAN /\ Distinct(m.queue) /\ m \in Memory /\ in \in Seq(Unit)
  BY BaseIs
<1>3. c \in Memory /\ Alike(m, c) /\ c.fd = FALSE /\ c.next = m.next
  BY <1>2, CloseIs
<1> HIDE DEF c
<1>4. HeadFile(c) = HeadFile(m) /\ c.queue = m.queue /\ c.out = m.out /\ c.host = m.host
  BY <1>3 DEF Alike, HeadFile
<1>5. /\ m' \in Memory /\ m'.out = m.out /\ m'.host = m.host /\ m'.fd = FALSE /\ m'.at = "top"
      /\ (Kept \/ Gone \/ Turned)
  <2>1. CASE m.at = "data"
    <3>1. done' = done \cup {HeadFile(c)} /\ m' = Top(Failed(c)) /\ m.queue # << >>
      BY <1>1, <2>1 DEF AfterData, Report, Base, Busy
    <3> QED
      BY <1>3, <1>4, <3>1, GoneIs DEF Gone
  <2>2. CASE m.at = "drop"
    <3>1. done' = done /\ m' = Top([c EXCEPT !.err = TRUE])
      BY <1>1, <1>3, <2>2 DEF AfterData, Memory
    <3>2. /\ [c EXCEPT !.err = TRUE] \in Memory /\ Alike(c, [c EXCEPT !.err = TRUE])
          /\ [c EXCEPT !.err = TRUE].fd = c.fd
      BY <1>3 DEF Memory, Alike
    <3> QED
      BY <1>3, <1>4, <3>1, <3>2, TopIs DEF Alike, Kept
  <2>3. CASE m.at = "moving"
    <3> DEFINE e == [c EXCEPT !.err = TRUE]
    <3>1. Follow(e) /\ m.queue # << >> /\ m.next # None
      BY <1>1, <1>3, <2>3 DEF AfterData, Base, Busy, Memory
    <3>2. e \in Memory /\ Alike(c, e) /\ e.fd = FALSE /\ e.next = m.next
      BY <1>3 DEF Memory, Alike
    <3> HIDE DEF e
    <3>3. e.queue = m.queue /\ HeadFile(e) = HeadFile(m) /\ e.out = m.out /\ e.host = m.host
      BY <1>4, <3>2 DEF Alike, HeadFile
    <3>4. /\ m' \in Memory /\ m'.out = e.out /\ m'.host = e.host
          /\ m'.fd = e.fd /\ m'.at = "top"
          /\ \/ m'.queue = Tail(e.queue) /\ done' = done \cup {HeadFile(e)}
             \/ /\ m'.queue = Append(Tail(e.queue), [file |-> HeadFile(e), uri |-> e.next])
                /\ e.next \in URIs /\ done' = done
      BY <3>1, <3>2, <3>3, FollowIs
    <3>5. Gone \/ Turned
      BY <3>1, <3>2, <3>3, <3>4 DEF Gone, Turned
    <3> QED
      BY <3>2, <3>3, <3>4, <3>5
  <2> QED
    BY <1>1, <2>1, <2>2, <2>3
<1>6. Effect
  BY <1>1, <1>2, <1>5, EffectOf
<1> QED
  BY <1>5, <1>6 DEF Onward, Live

LEMMA WriteErrorDoes == Base /\ WriteError => Effect /\ Onward
<1> SUFFICES ASSUME Base, WriteError PROVE Effect /\ Onward
  OBVIOUS
<1>1. /\ done' = done \cup {HeadFile(m)} /\ m' = Top(Failed(m)) /\ m.queue # << >>
      /\ clean' = FALSE /\ UNCHANGED <<in, up, sent>>
  BY DEF WriteError, AfterData, Report, Base, Busy
<1>2. /\ {up, clean} \subseteq BOOLEAN /\ m \in Memory /\ in \in Seq(Unit)
  BY BaseIs
<1>3. /\ m' \in Memory /\ m'.queue = Tail(m.queue) /\ m'.out = m.out /\ m'.host = m.host
      /\ m'.fd = m.fd /\ m'.at = "top"
  BY <1>1, <1>2, GoneIs
<1>4. Effect
  BY <1>1, <1>2, <1>3, EffectOf DEF Gone
<1> QED
  BY <1>1, <1>4 DEF Onward

LEMMA TransferDoes == Base /\ Transfer => Effect /\ Onward
BY BodyFollowsDoes, FileFailsDoes, NotModifiedDoes, NotFoundDoes, MovedDoes, BadHeaderDoes,
   SwallowedDoes, NoHeaderDoes, HungUpDoes, RunDataDoes, NoDataDoes, WriteErrorDoes
   DEF Transfer

-----------------------------------------------------------------------------
(* The other steps.                                                        *)

LEMMA LostIs == m \in Memory => (NothingLost <=> Lot(m.queue, done, sent))
BY NothingLostIs

\* A line has every request at most once among the unanswered ones.
LEMMA OutOnce ==
    ASSUME NEW s \in Memory, NEW i \in Seq(Unit), InLine(s, i), Distinct(s.queue)
    PROVE  IsInjective(Files(s.out))
<1>1. PICK p \in [0..Len(i) -> Nat] : Rest(s, p[Len(i)])
  BY DEF InLine
<1>2. Len(i) \in Nat
  BY LenProperties
<1>3. PICK e \in Nat : e = p[Len(i)]
  BY <1>1, <1>2
<1>4. /\ Len(s.out) \in Nat /\ DOMAIN s.out = 1..Len(s.out) /\ Len(s.queue) \in Nat
      /\ e + Len(s.out) <= Len(s.queue)
      /\ \A n \in 1..Len(s.out) : s.out[n] = s.queue[e + n]
  BY <1>1, <1>3, Fields DEF Rest
<1>5. ASSUME NEW a \in 1..Len(s.out), NEW b \in 1..Len(s.out), s.out[a].file = s.out[b].file
      PROVE  a = b
  <2>1. e + a \in 1..Len(s.queue) /\ e + b \in 1..Len(s.queue)
    BY <1>4
  <2>2. e + a = e + b
    BY <1>4, <1>5, <2>1 DEF Distinct
  <2> QED
    BY <2>2
<1> QED
  BY <1>4, <1>5 DEF IsInjective, Files

\* The two halves of the invariant; the second needs servers that do not
\* redirect the last request of the queue on its host.
Inv == Base /\ (~LoneRedirects => Position /\ Once)

\* A step to a state in line sends nothing twice.
LEMMA OnceNow ==
    ASSUME m' \in Memory, in' \in Seq(Unit), Distinct(m'.queue),
           Ordered(m', in', up', m'.out)
    PROVE  IsInjective(Files(m'.out))
BY OutOnce DEF Ordered

LEMMA TransferStep == Inv /\ Transfer => Inv'
<1> SUFFICES ASSUME Inv, Transfer PROVE Inv'
  OBVIOUS
<1>1. Base /\ Effect /\ Onward
  BY TransferDoes DEF Inv
<1>2. m \in Memory /\ Distinct(m.queue) /\ Lot(m.queue, done, sent) /\ m' \in Memory
  BY <1>1, BaseIs DEF Effect, TypeOK
<1>3. Lot(m'.queue, done', sent')
  <2>0. m.queue \in Seq(FetchItem) /\ sent' = sent
    BY <1>1, <1>2, Fields DEF Effect
  <2>1. CASE Kept
    BY <1>2, <2>0, <2>1 DEF Kept
  <2>2. CASE Gone
    BY <1>2, <2>0, <2>2, LotGone DEF Gone, HeadFile
  <2>3. CASE Turned
    <3>1. PICK u \in URIs : m'.queue = Append(Tail(m.queue), [file |-> HeadFile(m), uri |-> u])
      BY <2>3 DEF Turned
    <3> DEFINE x == [file |-> HeadFile(m), uri |-> u]
    <3>2. m.queue # << >> /\ done' = done
      BY <2>3 DEF Turned
    <3>3. 1 \in 1..Len(m.queue)
      BY <1>2, <3>2, Fields, EmptySeq
    <3>4. x \in FetchItem /\ x.file = m.queue[1].file
      BY <1>2, <3>3, Fields DEF FetchItem, HeadFile
    <3> HIDE DEF x
    <3>5. m'.queue = Append(Tail(m.queue), x)
      BY <3>1 DEF x
    <3> QED
      BY <1>2, <2>0, <3>2, <3>4, <3>5, LotTurned
  <2> QED
    BY <1>1, <2>1, <2>2, <2>3 DEF Effect
<1>4. NothingLost'
  <2>1. (m \in Memory => (NothingLost <=> Lot(m.queue, done, sent)))'
    BY LostIs, PTL
  <2> QED
    BY <1>2, <1>3, <2>1
<1>5. HostsRight'
  BY <1>1 DEF Effect, Base, HostsRight
<1>6. ASSUME ~LoneRedirects PROVE Position' /\ Once'
  <2>1. m.at # "top"
    BY DEF Transfer, BodyFollows, FileFails, Swallowed, NotModified, NotFound, Moved, BadHeader,
           NoHeader, HungUp, RunData, NoData, WriteError, Response
  <2>2. clean => Ordered(m, in, up, m.out)
    BY <1>6, <2>1 DEF Inv, Position, Live
  <2>3. Position'
    BY <1>1, <2>2 DEF Position, Onward, Effect
  <2>4. Once'
    BY <1>1, <1>6 DEF Inv, Once, Effect
  <2> QED
    BY <2>3, <2>4
<1> QED
  BY <1>1, <1>4, <1>5, <1>6 DEF Inv, Base, Effect

LEMMA ReceiveStep == Inv /\ Receive => Inv'
<1> SUFFICES ASSUME Inv, Receive PROVE Inv'
  OBVIOUS
<1> DEFINE x == [file |-> sent + 1, uri |-> FirstURI[sent + 1]]
           q == Append(m.queue, x)
           back == IF m.back = 0 THEN x.file ELSE m.back
           t == [m EXCEPT !.queue = q, !.back = back]
<1>1. /\ Base /\ m \in Memory /\ in \in Seq(Unit) /\ {up, clean} \subseteq BOOLEAN
      /\ done \in SUBSET Items /\ Lot(m.queue, done, sent) /\ m.queue \in Seq(FetchItem)
  BY BaseIs, Fields DEF Inv
<1>2. sent \in Nat /\ sent + 1 \in Items /\ sent' = sent + 1 /\ UNCHANGED <<in, up, clean, done>>
  BY <1>1, BaseIs, ConstantsOK DEF Receive, Items
<1>3. x \in FetchItem /\ x.file = sent + 1
  BY <1>2, ConstantsOK DEF FetchItem, Items
<1>4. m' = Fetch(t)
  BY DEF Receive
<1> HIDE DEF x
<1>5. /\ q \in Seq(FetchItem) /\ Len(m.queue) \in Nat /\ Len(q) = Len(m.queue) + 1
      /\ \A n \in 1..Len(m.queue) : q[n] = m.queue[n]
  BY <1>1, <1>3, AppendProperties, LenProperties
<1>6. Lot(q, done, sent') /\ Distinct(q)
  <2>1. Lot(q, done, sent + 1)
    BY <1>1, <1>2, <1>3, LotArrived
  <2> QED
    BY <1>2, <2>1 DEF Lot
<1>7. back \in Items \cup {0}
  BY <1>1, <1>2, <1>3, Fields
<1>8. q # << >>
  BY <1>5, EmptySeq
<1>9. m.queue # << >> => q[1] = m.queue[1]
  <2>1. m.queue # << >> => 1 \in 1..Len(m.queue)
    BY <1>1, EmptySeq
  <2> QED
    BY <1>5, <2>1
<1>10. /\ t \in Memory /\ t.queue = q /\ t.back = back /\ t.out = m.out /\ t.host = m.host
       /\ t.fd = m.fd /\ t.at = m.at /\ t.next = m.next
  BY <1>1, <1>5, <1>7 DEF Memory
<1>11. t.back = (IF m.back = 0 THEN x.file ELSE m.back)
  BY <1>10
<1> HIDE DEF t, back
<1>12. /\ m' \in Memory /\ m'.queue = q /\ m'.host = m.host /\ m'.fd = m.fd /\ m'.at = m.at
       /\ m'.next = m.next
       /\ \A n \in DOMAIN m'.out : \/ n \in DOMAIN m.out /\ m'.out[n] = m.out[n]
                                   \/ HostOf[m'.out[n].uri] = m.host
       /\ ~Same(t, 1) => m'.out = m.out
  BY <1>4, <1>10, FetchKeeps
<1>13. Busy'
  BY <1>1, <1>8, <1>9, <1>12 DEF Base, Busy, Same
<1>14. HostsRight'
  BY <1>1, <1>12 DEF Base, HostsRight
<1>15. NothingLost'
  <2>1. (m \in Memory => (NothingLost <=> Lot(m.queue, done, sent)))'
    BY LostIs, PTL
  <2> QED
    BY <1>2, <1>6, <1>12, <2>1
<1>16. TypeOK'
  <2>1. sent' \in 0..N
    BY <1>2, ConstantsOK DEF Items
  <2> QED
    BY <1>1, <1>2, <1>12, <2>1 DEF TypeOK
<1>17. ASSUME ~LoneRedirects PROVE Position' /\ Once'
  <2>1. CASE Live(m) /\ clean
    <3>1. Shape(m, in, up) /\ InLine(m, in) /\ (m.at = "headers" => in # << >> \/ m.out # << >>)
      BY <1>17, <2>1 DEF Inv, Position, Ordered
    <3>2. InLine(t, in)
      BY <1>1, <1>3, <1>10, <1>11, <3>1, ArriveInLine
    <3>3. /\ InLine(m', in)
          /\ t.host # None /\ Same(t, 1) /\ Cur(t) = 0 => in # << >> \/ m'.out # << >>
      BY <1>1, <1>4, <1>6, <1>8, <1>10, <3>2, FetchInLine
    <3>4. ASSUME m.at = "headers" PROVE in # << >> \/ m'.out # << >>
      <4>1. Same(m, 1) /\ m.queue # << >>
        BY <1>1, <3>4 DEF Base, Busy
      <4>2. Same(t, 1) /\ Cur(t) = 0
        BY <1>9, <1>10, <3>4, <4>1 DEF Same, Cur
      <4>3. t.host # None
        <5>1. m.queue[1].uri \in URIs
          BY <1>1, <4>1, Fields, EmptySeq
        <5>2. HostOf[m.queue[1].uri] \in Hosts
          BY <5>1, ConstantsOK
        <5> QED
          BY <1>10, <4>1, <5>2, ConstantsOK DEF Same
      <4> QED
        BY <3>3, <4>2, <4>3
    <3>5. Shape(m', in, up)
      BY <1>12, <3>1 DEF Shape, InBody
    <3>6. Ordered(m', in', up', m'.out)
      BY <1>2, <1>12, <3>3, <3>4, <3>5 DEF Ordered
    <3> QED
      BY <1>1, <1>2, <1>6, <1>12, <3>6, OnceNow DEF Position, Once
  <2>2. CASE ~(Live(m) /\ clean)
    <3>1. Live(m') => Live(m)
      BY <1>8, <1>9, <1>12 DEF Live, Same
    <3>2. Position'
      BY <1>2, <2>2, <3>1 DEF Position
    <3>3. ASSUME m.fd, clean PROVE m'.out = m.out
      <4>1. ~Live(m)
        BY <2>2, <3>3
      <4>2. m.queue # << >> /\ ~Same(m, 1)
        BY <3>3, <4>1 DEF Live
      <4>3. ~Same(t, 1)
        BY <1>9, <1>10, <4>2 DEF Same
      <4> QED
        BY <1>12, <4>3
    <3>4. Once'
      BY <1>2, <1>12, <1>17, <3>3 DEF Inv, Once
    <3> QED
      BY <3>2, <3>4
  <2> QED
    BY <2>1, <2>2
<1> QED
  BY <1>13, <1>14, <1>15, <1>16, <1>17 DEF Inv, Base


\* The memory with the server of the queue's head.
LEMMA ChosenIs ==
    ASSUME m \in Memory, m.queue # << >>
    PROVE  /\ Chosen \in Memory /\ Chosen.queue = m.queue /\ Chosen.out = m.out
           /\ Chosen.at = m.at /\ Chosen.host = HostOf[m.queue[1].uri]
           /\ Chosen.host # None /\ Same(Chosen, 1)
           /\ Chosen.fd => Chosen = m
<1> DEFINE h == HostOf[m.queue[1].uri]
<1>1. m.queue[1].uri \in URIs
  BY Fields, EmptySeq
<1>2. h \in Hosts /\ h # None
  BY <1>1, ConstantsOK
<1> HIDE DEF h
<1>3. CASE m.host # h
  <2>1. Chosen = [m EXCEPT !.host = h, !.fd = FALSE, !.pipe = TRUE, !.next = None]
    BY <1>3 DEF Chosen, h
  <2>2. /\ Chosen \in Memory /\ Chosen.queue = m.queue /\ Chosen.out = m.out
        /\ Chosen.at = m.at /\ Chosen.host = h /\ Chosen.fd = FALSE
    BY <1>2, <2>1 DEF Memory
  <2> QED
    BY <1>2, <2>2 DEF Same, h
<1>4. CASE m.host = h /\ m.keep
  <2>1. Chosen = m
    BY <1>4 DEF Chosen, h
  <2> QED
    BY <1>2, <1>4, <2>1 DEF Same, h
<1>5. CASE m.host = h /\ ~m.keep
  <2>1. Chosen = Close(m)
    BY <1>5 DEF Chosen, h
  <2>2. Chosen \in Memory /\ Alike(m, Chosen) /\ Chosen.fd = FALSE /\ Chosen.at = m.at
    BY <2>1, CloseIs
  <2> QED
    BY <1>2, <1>5, <2>2 DEF Alike, Same, h
<1> QED
  BY <1>3, <1>4, <1>5

\* What a step that leaves the queue alone has to show besides the line.
LEMMA BaseKept ==
    ASSUME Base, m' \in Memory, in' \in Seq(Unit), up' \in BOOLEAN, clean' \in BOOLEAN,
           m'.queue = m.queue, UNCHANGED <<sent, done>>, Busy', HostsRight'
    PROVE  Base'
<1>1. Lot(m.queue, done, sent) /\ sent \in 0..N /\ done \in SUBSET Items
  BY BaseIs
<1>2. NothingLost'
  <2>1. (m \in Memory => (NothingLost <=> Lot(m.queue, done, sent)))'
    BY LostIs, PTL
  <2> QED
    BY <1>1, <2>1
<1> QED
  BY <1>1, <1>2 DEF Base, TypeOK

LEMMA ReuseStep == Inv /\ Reuse => Inv'
<1> SUFFICES ASSUME Inv, Reuse PROVE Inv'
  OBVIOUS
<1>1. /\ m.at = "top" /\ m.queue # << >> /\ Chosen.fd /\ UNCHANGED <<in, up, sent, clean, done>>
      /\ Base /\ m \in Memory /\ in \in Seq(Unit) /\ {up, clean} \subseteq BOOLEAN
      /\ Distinct(m.queue)
  BY BaseIs DEF Inv, Reuse
<1>2. Chosen = m /\ m.fd /\ m.host # None /\ Same(m, 1)
  BY <1>1, ChosenIs
<1>3. m' = [Fetch(m) EXCEPT !.at = "headers"]
  BY <1>2 DEF Reuse
<1> DEFINE t == Fetch(m)
<1>4. /\ t \in Memory /\ t.queue = m.queue /\ t.host = m.host /\ t.fd = m.fd
      /\ \A n \in DOMAIN t.out : \/ n \in DOMAIN m.out /\ t.out[n] = m.out[n]
                                 \/ HostOf[t.out[n].uri] = m.host
      /\ t.at = "top"
  BY <1>1, FetchKeeps
<1>5. InLine(m, in) => InLine(t, in) /\ (in # << >> \/ t.out # << >>)
  BY <1>1, <1>2, FetchInLine DEF Cur
<1> HIDE DEF t
<1>6. m' \in Memory /\ Alike(t, m') /\ m'.at = "headers" /\ m'.fd = t.fd
  BY <1>3, <1>4 DEF t, Memory, Alike
<1>7. m'.queue = m.queue /\ m'.host = m.host /\ m'.out = t.out /\ m'.fd = m.fd
  BY <1>4, <1>6 DEF Alike
<1>8. Busy'
  BY <1>1, <1>2, <1>6, <1>7 DEF Busy, Same
<1>9. HostsRight'
  BY <1>1, <1>4, <1>7 DEF Base, HostsRight
<1>10. Base'
  BY <1>1, <1>6, <1>7, <1>8, <1>9, BaseKept
<1>11. ASSUME ~LoneRedirects PROVE Position' /\ Once'
  <2>1. CASE clean
    <3>1. Ordered(m, in, up, m.out)
      BY <1>2, <1>11, <2>1 DEF Inv, Position, Live
    <3>2. Shape(m', in, up)
      BY <1>1, <1>6, <3>1 DEF Ordered, Shape, InBody
    <3>3. InLine(m', in)
      BY <1>4, <1>5, <1>6, <3>1, AlikeInLine DEF Ordered, Cur
    <3>4. Ordered(m', in', up', m'.out)
      BY <1>1, <1>5, <1>7, <3>1, <3>2, <3>3 DEF Ordered
    <3> QED
      BY <1>1, <1>6, <1>7, <3>4, OnceNow DEF Position, Once
  <2>2. CASE ~clean
    BY <1>1, <2>2 DEF Position, Once
  <2> QED
    BY <2>1, <2>2
<1> QED
  BY <1>10, <1>11 DEF Inv

LEMMA ConnectStep == Inv /\ Connect => Inv'
<1> SUFFICES ASSUME Inv, Connect PROVE Inv'
  OBVIOUS
<1>1. /\ m.queue # << >> /\ in' = << >> /\ up' = TRUE /\ clean' = TRUE /\ UNCHANGED <<sent, done>>
      /\ Base /\ m \in Memory /\ Distinct(m.queue) /\ m.at = "top"
  BY BaseIs DEF Inv, Connect
<1>2. /\ Chosen \in Memory /\ Chosen.queue = m.queue /\ Chosen.at = "top"
      /\ Chosen.host = HostOf[m.queue[1].uri] /\ Chosen.host # None
  BY <1>1, ChosenIs
<1> DEFINE r == Reset(Chosen)
           s == [r EXCEPT !.fd = TRUE, !.keep = TRUE, !.out = << >>]
           t == Fetch(s)
<1>3. m' = [t EXCEPT !.at = "headers"]
  BY DEF Connect
<1>4. Len(m.queue) \in Nat \ {0} /\ DOMAIN m.queue = 1..Len(m.queue) /\ m.queue[1].file \in Items
  BY <1>1, Fields, EmptySeq
<1>5. /\ s \in Memory /\ s.queue = m.queue /\ s.at = "top" /\ s.host = Chosen.host
      /\ s.fd = TRUE /\ s.out = << >> /\ s.back = m.queue[1].file
  <2>1. HeadFile(Chosen) = m.queue[1].file
    BY <1>2 DEF HeadFile
  <2>2. /\ r \in Memory /\ r.queue = m.queue /\ r.at = "top" /\ r.host = Chosen.host
        /\ r.back = m.queue[1].file
    BY <1>2, <1>4, <2>1 DEF Reset, Memory
  <2> HIDE DEF r
  <2>3. << >> \in Seq(FetchItem)
    OBVIOUS
  <2> QED
    BY <2>2, <2>3 DEF Memory
<1> HIDE DEF s
<1>6. Same(s, 1)
  BY <1>2, <1>5 DEF Same
<1>7. /\ t \in Memory /\ t.queue = m.queue /\ t.host = s.host /\ t.fd = TRUE /\ t.at = "top"
      /\ \A n \in DOMAIN t.out : \/ n \in DOMAIN s.out
                                 \/ HostOf[t.out[n].uri] = s.host
  BY <1>5, FetchKeeps
<1>8. InLine(s, << >>)
  <2> DEFINE p == [n \in 0..0 |-> 0]
  <2>1. Len(<< >>) = 0 /\ p \in [0..Len(<< >>) -> Nat] /\ p[0] = 0
    OBVIOUS
  <2>2. Places(s, << >>, p)
    BY <1>5, <2>1 DEF Places, Cur
  <2>3. Rest(s, 0)
    <3>1. BackAt(s, 0 + Len(s.out) + 1)
      BY <1>4, <1>5 DEF BackAt
    <3>2. Len(s.out) = 0 /\ 0 + Len(s.out) <= Len(s.queue)
      BY <1>4, <1>5
    <3> QED
      BY <3>1, <3>2 DEF Rest
  <2> QED
    BY <2>1, <2>2, <2>3 DEF InLine
<1>9. << >> \in Seq(Unit)
  OBVIOUS
<1>10. InLine(t, << >>) /\ t.out # << >>
  BY <1>1, <1>2, <1>5, <1>6, <1>8, <1>9, FetchInLine DEF Cur
<1> HIDE DEF t
<1>11. m' \in Memory /\ Alike(t, m') /\ m'.at = "headers" /\ m'.fd = TRUE
  BY <1>3, <1>7 DEF Memory, Alike
<1>12. m'.queue = m.queue /\ m'.host = Chosen.host /\ m'.out = t.out
  BY <1>5, <1>7, <1>11 DEF Alike
<1>13. Busy'
  BY <1>1, <1>2, <1>11, <1>12 DEF Busy, Same
<1>14. HostsRight'
  <2>1. DOMAIN s.out = {}
    BY <1>5
  <2> QED
    BY <1>5, <1>7, <1>12, <2>1 DEF HostsRight
<1>15. Base'
  BY <1>1, <1>9, <1>11, <1>12, <1>13, <1>14, BaseKept
<1>16. Position' /\ Once'
  <2>1. Shape(m', << >>, TRUE)
    BY <1>11 DEF Shape, InBody
  <2>2. InLine(m', << >>)
    BY <1>7, <1>10, <1>11, AlikeInLine DEF Cur
  <2>3. Ordered(m', in', up', m'.out)
    BY <1>1, <1>10, <1>12, <2>1, <2>2 DEF Ordered
  <2> QED
    BY <1>1, <1>9, <1>11, <1>12, <2>3, OnceNow DEF Position, Once
<1> QED
  BY <1>15, <1>16 DEF Inv

LEMMA ConnectFailsStep == Inv /\ ConnectFails => Inv'
<1> SUFFICES ASSUME Inv, ConnectFails PROVE Inv'
  OBVIOUS
<1>1. /\ m.queue # << >> /\ m.at = "top" /\ UNCHANGED <<in, up, sent, clean>>
      /\ done' = done \cup {HeadFile(m)}
      /\ Base /\ m \in Memory /\ in \in Seq(Unit) /\ {up, clean} \subseteq BOOLEAN
  BY BaseIs DEF Inv, ConnectFails, Report
<1>2. Chosen \in Memory /\ Chosen.queue = m.queue /\ Chosen.at = "top"
  BY <1>1, ChosenIs
<1>3. /\ 1 \in 1..Len(m.queue) /\ m.queue[1].file \in Items /\ HeadFile(m) = m.queue[1].file
      /\ m.queue \in Seq(FetchItem)
  BY <1>1, Fields, EmptySeq DEF HeadFile
<1> DEFINE s == Reset(Chosen)
<1>4. s \in Memory /\ s.queue = m.queue /\ s.at = "top"
  BY <1>2, <1>3 DEF Reset, HeadFile, Memory
<1> HIDE DEF s
<1>5. /\ Failed(s) \in Memory /\ Failed(s).queue = Tail(m.queue) /\ Failed(s).at = "top"
  BY <1>1, <1>4, FailedIs
<1>6. m' = [Failed(s) EXCEPT !.host = None, !.fd = FALSE]
  BY DEF ConnectFails, s
<1>7. m' \in Memory /\ m'.queue = Tail(m.queue) /\ m'.at = "top" /\ m'.fd = FALSE
  BY <1>5, <1>6 DEF Memory
<1>8. NothingLost'
  <2>1. (m \in Memory => (NothingLost <=> Lot(m.queue, done, sent)))'
    BY LostIs, PTL
  <2>2. Lot(Tail(m.queue), done', sent)
    BY <1>1, <1>3, BaseIs, LotGone
  <2> QED
    BY <1>1, <1>7, <2>1, <2>2
<1>9. TypeOK' /\ Busy' /\ HostsRight'
  BY <1>1, <1>3, <1>7, BaseIs DEF TypeOK, Busy, HostsRight
<1>10. Position' /\ Once'
  BY <1>7 DEF Position, Once, Live
<1> QED
  BY <1>8, <1>9, <1>10 DEF Inv, Base

LEMMA ServerClosesStep == Inv /\ ServerCloses => Inv'
<1> SUFFICES ASSUME Inv, ServerCloses PROVE Inv'
  OBVIOUS
<1>1. /\ up' = FALSE /\ UNCHANGED <<m, in, sent, clean, done>> /\ Base
      /\ m \in Memory /\ in \in Seq(Unit) /\ {up, clean} \subseteq BOOLEAN
  BY BaseIs DEF Inv, ServerCloses
<1>2. Base'
  BY <1>1, BaseKept DEF Base, Busy, HostsRight, Same
<1>3. ASSUME ~LoneRedirects PROVE Position' /\ Once'
  <2>1. Shape(m, in, up) => Shape(m, in, FALSE)
    BY DEF Shape
  <2>2. Ordered(m, in, up, m.out) => Ordered(m', in', up', m'.out)
    BY <1>1, <2>1 DEF Ordered
  <2> QED
    BY <1>1, <1>3, <2>2 DEF Inv, Position, Once
<1> QED
  BY <1>2, <1>3 DEF Inv

\* What the server adds to the connection.
Answer(b, keep, whole, says, to) ==
    LET head == [part |-> "head", file |-> m.out[1].file, body |-> b,
                 keep |-> keep, says |-> says, to |-> to]
    IN  /\ says = "ok" => b
        /\ says = "ims" => ~b
        /\ ~b => whole
        /\ in' = in \o (IF b /\ whole THEN <<head, [head EXCEPT !.part = "body"]>>
                        ELSE <<head>>)
        /\ up' = (keep /\ whole)

LEMMA Served ==
    ASSUME Serve
    PROVE  \E b, keep, whole \in BOOLEAN, says \in Says, to \in URIs \cup {None} :
              Answer(b, keep, whole, says, to) /\ (says = "moved" => to \in Targets(m.out[1]))
<1>1. PICK says \in Says, b \in BOOLEAN, keep \in BOOLEAN, whole \in BOOLEAN :
           \E to \in IF says = "moved" THEN Targets(m.out[1]) ELSE {None} :
              Answer(b, keep, whole, says, to)
  BY DEF Serve, Answer
<1>2. PICK to \in IF says = "moved" THEN Targets(m.out[1]) ELSE {None} :
              Answer(b, keep, whole, says, to)
  BY <1>1
<1>3. to \in URIs \cup {None} /\ (says = "moved" => to \in Targets(m.out[1]))
  BY ConstantsOK DEF Targets
<1> QED
  BY <1>2, <1>3

LEMMA ServeStep == Inv /\ Serve => Inv'
<1> SUFFICES ASSUME Inv, Serve PROVE Inv'
  OBVIOUS
<1>1. /\ m.fd /\ up /\ m.out # << >> /\ m' = [m EXCEPT !.out = Tail(m.out)]
      /\ UNCHANGED <<sent, clean, done>> /\ Base
      /\ m \in Memory /\ in \in Seq(Unit) /\ {up, clean} \subseteq BOOLEAN /\ Distinct(m.queue)
  BY BaseIs DEF Inv, Serve
<1>2. PICK b \in BOOLEAN, keep \in BOOLEAN, whole \in BOOLEAN, says \in Says, to \in URIs \cup {None} :
          Answer(b, keep, whole, says, to) /\ (says = "moved" => to \in Targets(m.out[1]))
  BY Served
<1> DEFINE head == [part |-> "head", file |-> m.out[1].file, body |-> b,
                    keep |-> keep, says |-> says, to |-> to]
           rest == [head EXCEPT !.part = "body"]
           new == IF b /\ whole THEN <<head, rest>> ELSE <<head>>
<1>3. /\ m.out \in Seq(FetchItem) /\ Tail(m.out) \in Seq(FetchItem) /\ m.out[1] \in FetchItem
      /\ DOMAIN m.out = 1..Len(m.out) /\ Len(m.out) \in Nat \ {0}
      /\ DOMAIN Tail(m.out) = 1..(Len(m.out) - 1)
      /\ \A n \in 1..(Len(m.out) - 1) : Tail(m.out)[n] = m.out[n + 1]
  BY <1>1, Fields, TailOf
<1>4. /\ head \in Unit /\ rest \in Unit /\ head.part = "head" /\ rest.part = "body"
      /\ \A x \in {head, rest} : /\ x.file = m.out[1].file /\ x.body = b
                                 /\ x.says = says /\ x.to = to
  BY <1>3 DEF Unit, FetchItem
<1>5. /\ in' = in \o new /\ up' = (keep /\ whole)
      /\ says = "ok" => b
      /\ says = "ims" => ~b
  BY <1>2 DEF Answer
<1> HIDE DEF head, rest
<1>6. /\ new \in Seq(Unit) /\ Len(new) = (IF b /\ whole THEN 2 ELSE 1) /\ new[1] = head
      /\ Len(new) = 2 => new[2] = rest
  BY <1>4
<1> HIDE DEF new
<1>7. PICK l \in Nat : l = Len(in)
  BY <1>1, LenProperties
<1>8. /\ in' \in Seq(Unit) /\ Len(in') = l + Len(new)
      /\ \A n \in 1..(l + Len(new)) : in'[n] = IF n <= l THEN in[n] ELSE new[n - l]
  BY <1>1, <1>5, <1>6, <1>7, ConcatProperties
<1>9. /\ Len(in') = (IF b /\ whole THEN l + 2 ELSE l + 1)
      /\ \A n \in 1..l : in'[n] = in[n]
      /\ in'[l + 1] = head /\ (b /\ whole => in'[l + 2] = rest)
  <2>1. Len(in') = (IF b /\ whole THEN l + 2 ELSE l + 1)
    BY <1>6, <1>8
  <2>2. \A n \in 1..l : n \in 1..(l + Len(new)) /\ n <= l
    BY <1>6
  <2>3. l + 1 \in 1..(l + Len(new)) /\ ~(l + 1 <= l) /\ (l + 1) - l = 1
    BY <1>6
  <2>4. b /\ whole => l + 2 \in 1..(l + Len(new)) /\ ~(l + 2 <= l) /\ (l + 2) - l = 2 /\ Len(new) = 2
    BY <1>6
  <2> QED
    BY <1>6, <1>8, <2>1, <2>2, <2>3, <2>4
<1>10. /\ m' \in Memory /\ m'.queue = m.queue /\ m'.back = m.back /\ m'.out = Tail(m.out)
       /\ m'.host = m.host /\ m'.at = m.at /\ m'.next = m.next /\ m'.fd = m.fd
  BY <1>1, <1>3 DEF Memory
<1>11. Busy'
  BY <1>1, <1>10 DEF Base, Busy, Same
<1>12. ASSUME NEW n \in 1..(Len(m.out) - 1)
       PROVE  n + 1 \in 1..Len(m.out) /\ Tail(m.out)[n] = m.out[n + 1]
  BY <1>3
<1>13. HostsRight'
  BY <1>1, <1>3, <1>10, <1>12 DEF Base, HostsRight
<1>14. up' \in BOOLEAN /\ clean' \in BOOLEAN
  BY <1>1, <1>5
<1>15. Base'
  BY <1>1, <1>8, <1>10, <1>11, <1>13, <1>14, BaseKept
<1>16. ASSUME ~LoneRedirects PROVE Position'
  <2> SUFFICES ASSUME Live(m), clean PROVE Ordered(m', in', up', m'.out)
    BY <1>1, <1>10 DEF Position, Live, Same
  <2>1. Shape(m, in, TRUE) /\ InLine(m, in)
    <3>1. up = TRUE
      BY <1>1
    <3> QED
      BY <1>16, <3>1 DEF Inv, Position, Ordered
  <2>2. /\ Len(in') \in (Len(in) + 1)..(Len(in) + 2)
        /\ \A n \in 1..Len(in) : in'[n] = in[n]
        /\ Len(in') = Len(in) + 2 => b /\ whole
        /\ Len(in') = Len(in) + 1 => ~(b /\ whole)
    BY <1>7, <1>9
  <2>3. ASSUME NEW n \in (Len(in) + 1)..Len(in')
        PROVE  /\ in'[n].file = m.out[1].file /\ in'[n].body = b
               /\ in'[n].says = says /\ in'[n].to = to
               /\ in'[n].part = IF n = Len(in) + 1 THEN "head" ELSE "body"
    <3>1. n = l + 1 \/ (n = l + 2 /\ b /\ whole /\ n # l + 1)
      BY <1>7, <1>9, <2>2
    <3> QED
      BY <1>4, <1>7, <1>9, <3>1
  <2>4. Shape(m', in', up')
    <3>1. InBody(m') <=> InBody(m)
      BY <1>10 DEF InBody
    <3>2. /\ in'[Len(in) + 1].part = "head"
          /\ in'[Len(in) + 1].says = "ok" => in'[Len(in) + 1].body
          /\ in'[Len(in) + 1].says = "ims" => ~in'[Len(in) + 1].body
      BY <1>4, <1>5, <1>7, <1>9
    <3>3. Len(in') = Len(in) + 2 => in'[Len(in) + 1].body /\ in'[Len(in) + 2].part = "body"
      BY <1>4, <1>7, <1>9, <2>2
    <3>4. Len(in') = Len(in) + 1 => ~(in'[Len(in) + 1].body /\ up')
      BY <1>4, <1>5, <1>7, <1>9, <2>2
    <3> QED
      BY <1>1, <1>8, <2>1, <2>2, <3>1, <3>2, <3>3, <3>4, ShapeServe
  <2>5. InLine(m', in')
    <3>1. \A n \in (Len(in) + 1)..Len(in') :
             /\ in'[n].file = m.out[1].file
             /\ in'[n].part = "head" <=> n = Len(in) + 1
      BY <2>3
    <3>2. in'[Len(in) + 1].says = "moved" =>
              \/ \E n \in 1..(Len(m.queue) - 1) : m.queue[n] = m.out[1]
              \/ in'[Len(in) + 1].to # None /\ HostOf[in'[Len(in) + 1].to] # HostOf[m.out[1].uri]
      <4>1. in'[Len(in) + 1] = head
        BY <1>7, <1>9
      <4>2. head.says = says /\ head.to = to
        BY <1>4
      <4>3. ASSUME says = "moved", ~(\E n \in 1..(Len(m.queue) - 1) : m.queue[n] = m.out[1])
            PROVE  to # None /\ HostOf[to] # HostOf[m.out[1].uri]
        <5>1. to \in {v \in NewURIs : HostOf[v] # HostOf[m.out[1].uri]}
          BY <1>2, <1>16, <4>3 DEF Targets
        <5> QED
          BY <5>1, ConstantsOK
      <4> QED
        BY <4>1, <4>2, <4>3
    <3> QED
      BY <1>1, <1>8, <1>10, <2>1, <2>2, <3>1, <3>2, ServeInLine
  <2>6. in' # << >>
    BY <1>8, <1>9, EmptySeq
  <2> QED
    BY <2>4, <2>5, <2>6 DEF Ordered
<1>17. ASSUME ~LoneRedirects PROVE Once'
  <2> SUFFICES ASSUME clean, IsInjective(Files(m.out)) PROVE IsInjective(Files(Tail(m.out)))
    BY <1>1, <1>10, <1>17 DEF Inv, Once
  <2>1. \A a, c \in 1..Len(m.out) : m.out[a].file = m.out[c].file => a = c
    BY <1>3 DEF IsInjective, Files
  <2>2. ASSUME NEW a \in 1..(Len(m.out) - 1), NEW c \in 1..(Len(m.out) - 1),
               Tail(m.out)[a].file = Tail(m.out)[c].file
        PROVE  a = c
    <3>1. a + 1 = c + 1
      BY <1>12, <2>1, <2>2
    <3> QED
      BY <3>1
  <2> QED
    BY <1>3, <2>2 DEF IsInjective, Files
<1> QED
  BY <1>15, <1>16, <1>17 DEF Inv

-----------------------------------------------------------------------------
(* The theorems.                                                           *)

LEMMA InvInit == Init => Inv
<1> SUFFICES ASSUME Init PROVE Inv
  OBVIOUS
<1>1. /\ m.queue = << >> /\ m.fd = FALSE /\ m.at = "top" /\ sent = 0 /\ done = {}
      /\ in = << >> /\ up = FALSE /\ clean = TRUE
  BY DEF Init
<1>2. m \in Memory
  <2>1. << >> \in Seq(FetchItem) /\ [i \in Items |-> {}] \in [Items -> SUBSET URIs]
    OBVIOUS
  <2> QED
    BY <2>1 DEF Init, Memory
<1>3. << >> \in Seq(Unit) /\ 0 \in 0..N
  BY ConstantsOK
<1>4. TypeOK /\ Busy /\ HostsRight
  BY <1>1, <1>2, <1>3 DEF TypeOK, Busy, HostsRight
<1>5. Lot(m.queue, done, sent)
  BY <1>1 DEF Lot, Distinct
<1>6. NothingLost
  BY <1>2, <1>5, LostIs
<1>7. Position /\ Once
  BY <1>1 DEF Position, Once, Live
<1> QED
  BY <1>4, <1>6, <1>7 DEF Inv, Base

LEMMA InvStep == Inv /\ [Next]_vars => Inv'
<1> SUFFICES ASSUME Inv, [Next]_vars PROVE Inv'
  OBVIOUS
<1>1. CASE Receive
  BY <1>1, ReceiveStep
<1>2. CASE Reuse
  BY <1>2, ReuseStep
<1>3. CASE Connect
  BY <1>3, ConnectStep
<1>4. CASE ConnectFails
  BY <1>4, ConnectFailsStep
<1>5. CASE Transfer
  BY <1>5, TransferStep
<1>6. CASE Serve
  BY <1>6, ServeStep
<1>7. CASE ServerCloses
  BY <1>7, ServerClosesStep
<1>8. CASE UNCHANGED vars
  <2>1. /\ m' = m /\ in' = in /\ up' = up /\ sent' = sent /\ clean' = clean /\ done' = done
    BY <1>8 DEF vars
  <2>2. Base'
    BY <2>1, BaseIs, BaseKept DEF Inv, Base, Busy, HostsRight, Same
  <2>3. (Position => Position') /\ (Once => Once')
    BY <2>1 DEF Position, Once, Ordered
  <2> QED
    BY <2>2, <2>3 DEF Inv
<1> QED
  BY <1>1, <1>2, <1>3, <1>4, <1>5, <1>6, <1>7, <1>8 DEF Next, Loop, Finished

LEMMA Invariant == Spec => []Inv
BY InvInit, InvStep, PTL DEF Spec

\* The memory of the method, the buffers and the counters keep their types,
\* whatever the servers answer: in particular QueueBack names a request or none
\* after every way in which the head leaves the queue (URIDone, Fail, Redirect).
THEOREM Typed == Spec => []TypeOK
<1>1. Inv => TypeOK
  BY DEF Inv, Base
<1> QED
  BY <1>1, Invariant, PTL

\* Every request that APT sent is queued or answered, and never both or twice:
\* of connections that end and are made again, redirects that put the head
\* behind the others, and requests that come in the middle of a transfer, none
\* makes HttpMethod::Loop lose one or answer it again.
THEOREM Conserved == Spec => []NothingLost
<1>1. Inv => NothingLost
  BY DEF Inv, Base
<1> QED
  BY <1>1, Invariant, PTL

\* What the invariant says of a response in front of the buffer.
LEMMA FirstIsHead ==
    ASSUME Inv, ~LoneRedirects, clean, in # << >>, m.at \in {"headers", "data", "moving"}
    PROVE  in[1].file = HeadFile(m)
<1>1. Shape(m, in, up) /\ InLine(m, in) /\ Base
  BY DEF Inv, Position, Live, Ordered
<1>2. PICK p \in [0..Len(in) -> Nat] : Places(m, in, p)
  BY <1>1 DEF InLine
<1>3. 1 \in 1..Len(in) /\ in[1].part \in {"head", "body"}
  BY <1>1, FirstUnit
<1>4. in[1].part = "body" <=> m.at # "headers"
  BY <1>1 DEF Shape, InBody
<1>5. p[1] = p[1 - 1] + (IF in[1].part = "head" THEN 1 ELSE 0) /\ 1 - 1 = 0 /\ p[0] = Cur(m)
  BY <1>2, <1>3 DEF Places
<1>6. p[1] = 1
  BY <1>3, <1>4, <1>5 DEF Cur
<1> QED
  BY <1>2, <1>3, <1>6 DEF Places, HeadFile

\* With any number of requests on the connection, a response is taken for the
\* answer to the request that it answers, as long as everything on the
\* connection was read to its end.  It is not so when a server may redirect the
\* last request of the queue on its own host: Redirect then leaves QueueBack at
\* the end of the queue, and the request that it has just queued is not sent.
THEOREM Aligned == ASSUME ~LoneRedirects PROVE Spec => []Attributed
<1>1. Inv => Attributed
  BY FirstIsHead DEF Attributed
<1> QED
  BY <1>1, Invariant, PTL

\* No request goes to a host that is not its own, and none twice to a
\* connection that was read to its end: what HttpMethod::Fetch sends, from
\* QueueBack on, is what it has not sent yet.
THEOREM SentOnce == ASSUME ~LoneRedirects PROVE Spec => []RightHost
<1>1. Inv => RightHost
  BY DEF Inv, Base, HostsRight, Once, RightHost
<1> QED
  BY <1>1, Invariant, PTL

\* The half of it that holds for all servers: no request goes to a host that is
\* not its own.
THEOREM OwnHost == Spec => []HostsRight
<1>1. Inv => HostsRight
  BY DEF Inv, Base
<1> QED
  BY <1>1, Invariant, PTL

\* HttpMethod::Loop never waits for the head of a response to a request that it
\* has not sent on this connection.
THEOREM Awaited == ASSUME ~LoneRedirects PROVE Spec => []Asked
<1>1. Inv => Asked
  <2> SUFFICES ASSUME Inv, m.at = "headers", in = << >>, clean, up
               PROVE  m.out # << >> /\ m.out[1].file = HeadFile(m)
    BY DEF Asked
  <2>1. InLine(m, in) /\ Base /\ m.out # << >>
    BY DEF Inv, Position, Live, Ordered
  <2>2. PICK p \in [0..Len(in) -> Nat] : Places(m, in, p) /\ Rest(m, p[Len(in)])
    BY <2>1 DEF InLine
  <2>3. Len(in) = 0 /\ p[0] = 0
    BY <2>2 DEF Places, Cur
  <2>4. m \in Memory
    BY <2>1, BaseIs
  <2>5. 1 \in 1..Len(m.out)
    BY <2>1, <2>4, Fields, EmptySeq
  <2>6. m.out[1] = m.queue[0 + 1] /\ 0 + 1 = 1
    BY <2>2, <2>3, <2>5 DEF Rest
  <2> QED
    BY <2>1, <2>6 DEF HeadFile
<1> QED
  BY <1>1, Invariant, PTL
=============================================================================
