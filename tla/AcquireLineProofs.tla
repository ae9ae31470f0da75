--------------------------- MODULE AcquireLineProofs ---------------------------
(***************************************************************************)
(* Theorems about which request and which answer belong to which item of   *)
(* Acquire.  A queue and its method talk through pipes, and a message names *)
(* its item by a URI only, which several items may share; what is on its   *)
(* way between them is one line, the messages first, then the requests.    *)
(*                                                                         *)
(* With a method that follows no redirect every item being fetched has one *)
(* place on the line, an answer finds the item that was asked for, and     *)
(* nothing else.  With redirects an answer may reach another item of the   *)
(* same URI; then the names on the line change hands, and still every      *)
(* message finds an item.                                                  *)
(***************************************************************************)
EXTENDS AcquireFlowProofs

-----------------------------------------------------------------------------
(* The line.  Its first k places are messages.                             *)

LineAt(s, I, M, q) == I[q] \o (M[q] \o s.out[q])

\* The place n is held for an item: a request, or an answer.
HeldAt(k, l, n) == n > k \/ Final(l[n])

Work == Message \cup Request

\* Two sequences in a row.
LEMMA TwoParts ==
    ASSUME NEW S, NEW a \in Seq(S), NEW b \in Seq(S)
    PROVE  /\ Len(a) \in Nat /\ Len(b) \in Nat
           /\ a \o b \in Seq(S) /\ Len(a \o b) = Len(a) + Len(b)
           /\ \A n \in 1..(Len(a) + Len(b)) :
                (a \o b)[n] = IF n <= Len(a) THEN a[n] ELSE b[n - Len(a)]
BY ConcatProperties, LenProperties

\* Three sequences in a row.
LEMMA ThreeParts ==
    ASSUME NEW S, NEW a \in Seq(S), NEW b \in Seq(S), NEW c \in Seq(S)
    PROVE  LET k == Len(a)  j == Len(b)  o == Len(c)  l == a \o (b \o c)
           IN  /\ k \in Nat /\ j \in Nat /\ o \in Nat /\ l \in Seq(S) /\ Len(l) = k + (j + o)
               /\ \A n \in 1..k : l[n] = a[n]
               /\ \A n \in (k + 1)..(k + j) : l[n] = b[n - k]
               /\ \A n \in (k + j + 1)..(k + (j + o)) : l[n] = c[n - (k + j)]
<1> DEFINE k == Len(a)  j == Len(b)  o == Len(c)
<1>1. PICK d : d = b \o c  OBVIOUS
<1>2. /\ j \in Nat /\ o \in Nat /\ d \in Seq(S) /\ Len(d) = j + o
      /\ \A n \in 1..(j + o) : d[n] = IF n <= j THEN b[n] ELSE c[n - j]
  BY <1>1, TwoParts
<1>3. PICK l : l = a \o d  OBVIOUS
<1>4. /\ k \in Nat /\ l \in Seq(S) /\ Len(l) = k + (j + o)
      /\ \A n \in 1..(k + (j + o)) : l[n] = IF n <= k THEN a[n] ELSE d[n - k]
  <2>1. d \in Seq(S)  BY <1>2
  <2>2. /\ k \in Nat /\ l \in Seq(S) /\ Len(l) = k + Len(d)
        /\ \A n \in 1..(k + Len(d)) : l[n] = IF n <= k THEN a[n] ELSE d[n - k]
    BY <1>3, <2>1, TwoParts
  <2> HIDE DEF k, j, o
  <2> QED  BY <1>2, <2>2
<1> HIDE DEF k, j, o
<1>5. \A n \in 1..k : l[n] = a[n]  BY <1>2, <1>4
<1>6. ASSUME NEW n \in (k + 1)..(k + j) PROVE l[n] = b[n - k]
  <2>1. n \in 1..(k + (j + o)) /\ ~(n <= k) /\ n - k \in 1..(j + o) /\ n - k <= j
    BY <1>2, <1>4
  <2> QED  BY <1>2, <1>4, <2>1
<1>7. ASSUME NEW n \in (k + j + 1)..(k + (j + o)) PROVE l[n] = c[n - (k + j)]
  <2>1. /\ n \in 1..(k + (j + o)) /\ ~(n <= k) /\ n - k \in 1..(j + o) /\ ~(n - k <= j)
        /\ (n - k) - j = n - (k + j)
    BY <1>2, <1>4
  <2> QED  BY <1>2, <1>4, <2>1
<1>8. l = a \o (b \o c)  BY <1>1, <1>3
<1>9. /\ k \in Nat /\ j \in Nat /\ o \in Nat /\ l \in Seq(S) /\ Len(l) = k + (j + o)
      /\ \A n \in 1..k : l[n] = a[n]
      /\ \A n \in (k + 1)..(k + j) : l[n] = b[n - k]
      /\ \A n \in (k + j + 1)..(k + (j + o)) : l[n] = c[n - (k + j)]
  BY <1>2, <1>4, <1>5, <1>6, <1>7
<1> QED  BY <1>8, <1>9, Zenon DEF k, j, o

\* The line l of the messages a and the requests b and c, of these lengths.
Parted(l, a, b, c, k, j, o) ==
    /\ k \in Nat /\ j \in Nat /\ o \in Nat /\ l \in Seq(Work) /\ Len(l) = k + (j + o)
    /\ \A n \in 1..k : l[n] = a[n]
    /\ \A n \in (k + 1)..(k + j) : l[n] = b[n - k]
    /\ \A n \in (k + j + 1)..(k + (j + o)) : l[n] = c[n - (k + j)]

\* The parts of a queue's line.
LEMMA LineParts ==
    ASSUME NEW s \in Memory, NEW I, NEW M, Typed(I, M), NEW q \in Queues
    PROVE  Parted(LineAt(s, I, M, q), I[q], M[q], s.out[q], Len(I[q]), Len(M[q]), Len(s.out[q]))
<1>1. I[q] \in Seq(Message) /\ M[q] \in Seq(Request) /\ s.out[q] \in Seq(Request)
  BY DEF Typed, Memory
<1>2. I[q] \in Seq(Work) /\ M[q] \in Seq(Work) /\ s.out[q] \in Seq(Work)
  <2>1. Message \subseteq Work /\ Request \subseteq Work  BY DEF Work
  <2>2. I[q] \in Seq(Work)  BY <1>1, <2>1, SeqMonotonic
  <2>3. M[q] \in Seq(Work)  BY <1>1, <2>1, SeqMonotonic
  <2>4. s.out[q] \in Seq(Work)  BY <1>1, <2>1, SeqMonotonic
  <2> QED  BY <2>2, <2>3, <2>4
<1>3. \A a, b, c \in Seq(Work) : Parted(a \o (b \o c), a, b, c, Len(a), Len(b), Len(c))
  BY ThreeParts DEF Parted
<1> QED  BY <1>2, <1>3 DEF LineAt

(***************************************************************************)
(* How the steps of a worker and its method change a line l whose first k  *)
(* places are messages into m with i of them.                              *)
(***************************************************************************)

LineOK(l, k) == k \in Nat /\ Len(l) \in Nat /\ k <= Len(l)

\* The method answers its first request.
LineAnswered(l, k, m, i) ==
    /\ i = k + 1 /\ Len(m) = Len(l) /\ k < Len(l)
    /\ \A n \in 1..Len(l) : /\ m[n].uri = l[n].uri /\ m[n].file = l[n].file
                            /\ n # k + 1 => m[n] = l[n]
    /\ Final(m[k + 1])

\* The method announces its first request.
LineBegun(l, k, m, i) ==
    /\ i = k + 1 /\ Len(m) = Len(l) + 1 /\ k < Len(l)
    /\ \A n \in 1..k : m[n] = l[n]
    /\ m[k + 1].uri = l[k + 1].uri /\ m[k + 1].file = l[k + 1].file
    /\ m[k + 1].kind = "start"
    /\ \A n \in (k + 1)..Len(l) : m[n + 1].uri = l[n].uri /\ m[n + 1].file = l[n].file

\* The method moves its first request behind its j - 1 others, with the URI u.
LineRedirected(l, k, j, m, i, u) ==
    /\ i = k + 1 /\ Len(m) = Len(l) + 1 /\ j \in Nat \ {0} /\ k + j <= Len(l)
    /\ \A n \in 1..k : m[n] = l[n]
    /\ m[k + 1].uri = l[k + 1].uri /\ m[k + 1].kind = "redirect" /\ m[k + 1].to = u
    /\ \A n \in (k + 2)..(k + j) : m[n].uri = l[n].uri
    /\ m[k + j + 1].uri = u
    /\ \A n \in (k + j + 1)..Len(l) : m[n + 1].uri = l[n].uri

\* The method dies with the j requests it held.
LineDied(l, k, j, m, i) ==
    /\ i = k /\ j \in Nat /\ k + j <= Len(l) /\ Len(m) = Len(l) - j
    /\ \A n \in 1..k : m[n] = l[n]
    /\ \A n \in (k + 1)..Len(m) : m[n] = l[n + j]

\* The worker takes the first message.
LineTaken(l, k, m, i) ==
    /\ k # 0 /\ i = k - 1 /\ Len(m) = Len(l) - 1
    /\ \A n \in 1..Len(m) : m[n] = l[n + 1]

\* A Cycle sends the requests r.
LineLonger(l, m, r) ==
    /\ Len(m) = Len(l) + Len(r) /\ Len(r) \in Nat
    /\ \A n \in 1..Len(l) : m[n] = l[n]
    /\ \A n \in 1..Len(r) : m[Len(l) + n] = r[n]

\* A queue's line is one.
LEMMA LineIsOK ==
    ASSUME NEW s \in Memory, NEW I, NEW M, Typed(I, M), NEW q \in Queues
    PROVE  LineOK(LineAt(s, I, M, q), Len(I[q]))
<1>1. PICK l : l = LineAt(s, I, M, q)  OBVIOUS
<1>2. PICK k, j, o : k = Len(I[q]) /\ j = Len(M[q]) /\ o = Len(s.out[q])  OBVIOUS
<1>3. k \in Nat /\ j \in Nat /\ o \in Nat /\ Len(l) = k + (j + o)
  <2>1. Parted(l, I[q], M[q], s.out[q], k, j, o)  BY <1>1, <1>2, LineParts
  <2> QED  BY <2>1 DEF Parted
<1>4. k \in Nat /\ Len(l) \in Nat /\ k <= Len(l)  BY <1>3
<1> QED  BY <1>1, <1>2, <1>4 DEF LineOK

\* pkgAcqMethod::URIDone and Fail.
LEMMA AnsweredLine ==
    ASSUME NEW s \in Memory, NEW I, NEW M, NEW J, NEW N, Typed(I, M), Typed(J, N), NEW q \in Queues,
           M[q] # << >>, NEW x, J[q] = Append(I[q], x), N[q] = Tail(M[q]),
           x.uri = Head(M[q]).uri, x.file = Head(M[q]).file, Final(x), x \in Message
    PROVE  LineAnswered(LineAt(s, I, M, q), Len(I[q]), LineAt(s, J, N, q), Len(J[q]))
<1>1. PICK l : l = LineAt(s, I, M, q)  BY Zenon
<1>2. PICK m : m = LineAt(s, J, N, q)  BY Zenon
<1>3. PICK k, j, o : k = Len(I[q]) /\ j = Len(M[q]) /\ o = Len(s.out[q])  OBVIOUS
<1>4. /\ k \in Nat /\ j \in Nat /\ o \in Nat /\ Len(l) = k + (j + o)
      /\ \A n \in 1..k : l[n] = I[q][n]
      /\ \A n \in (k + 1)..(k + j) : l[n] = M[q][n - k]
      /\ \A n \in (k + j + 1)..(k + (j + o)) : l[n] = s.out[q][n - (k + j)]
  <2>1. Parted(l, I[q], M[q], s.out[q], k, j, o)  BY <1>1, <1>3, LineParts
  <2> QED  BY <2>1 DEF Parted
<1>5. I[q] \in Seq(Message) /\ M[q] \in Seq(Request)  BY DEF Typed
<1>6. /\ Len(J[q]) = k + 1 /\ J[q][k + 1] = x
      /\ \A n \in 1..k : J[q][n] = I[q][n]
  BY <1>3, <1>5, AppendProperties
<1>7. /\ Len(N[q]) = j - 1 /\ j # 0 /\ Head(M[q]) = M[q][1]
      /\ \A n \in 1..(j - 1) : N[q][n] = M[q][n + 1]
  BY <1>3, <1>5, HeadTailProperties, EmptySeq
<1>8. PICK kk, jj : kk = k + 1 /\ jj = j - 1  OBVIOUS
<1>9. /\ Len(m) = kk + (jj + o)
      /\ \A n \in 1..kk : m[n] = J[q][n]
      /\ \A n \in (kk + 1)..(kk + jj) : m[n] = N[q][n - kk]
      /\ \A n \in (kk + jj + 1)..(kk + (jj + o)) : m[n] = s.out[q][n - (kk + jj)]
  <2>1. Parted(m, J[q], N[q], s.out[q], kk, jj, o)  BY <1>2, <1>3, <1>6, <1>7, <1>8, LineParts
  <2> QED  BY <2>1 DEF Parted
<1>10. Len(m) = Len(l) /\ k < Len(l)  BY <1>4, <1>7, <1>8, <1>9
<1>11. m[k + 1] = x /\ l[k + 1] = Head(M[q])
  BY <1>4, <1>6, <1>7, <1>8, <1>9
<1>12. ASSUME NEW n \in 1..Len(l), n # k + 1 PROVE m[n] = l[n]
  <2>1. CASE n \in 1..k  BY <1>4, <1>6, <1>8, <1>9, <2>1
  <2>2. CASE n \in (k + 2)..(k + j)
    <3>1. /\ n \in (kk + 1)..(kk + jj) /\ n - kk \in 1..(j - 1) /\ (n - kk) + 1 = n - k
          /\ n \in (k + 1)..(k + j)
      BY <1>4, <1>7, <1>8, <2>2
    <3> QED  BY <1>4, <1>7, <1>9, <3>1
  <2>3. CASE n \in (k + j + 1)..(k + (j + o))
    <3>1. n \in (kk + jj + 1)..(kk + (jj + o)) /\ kk + jj = k + j
      BY <1>4, <1>7, <1>8, <2>3
    <3> QED  BY <1>4, <1>9, <2>3, <3>1
  <2> QED  BY <1>4, <1>12, <2>1, <2>2, <2>3
<1>13. \A n \in 1..Len(l) : /\ m[n].uri = l[n].uri /\ m[n].file = l[n].file
                            /\ n # k + 1 => m[n] = l[n]
  BY <1>11, <1>12
<1> QED  BY <1>1, <1>2, <1>3, <1>6, <1>10, <1>11, <1>13 DEF LineAnswered

\* Message 600 moves a request from the worker to its method.
LEMMA ReadLine ==
    ASSUME NEW s \in Memory, NEW t \in Memory, NEW I, NEW M, NEW N, Typed(I, M), Typed(I, N),
           NEW q \in Queues, s.out[q] # << >>, t.out[q] = Tail(s.out[q]),
           N[q] = Append(M[q], Head(s.out[q]))
    PROVE  LineAt(t, I, N, q) = LineAt(s, I, M, q)
<1>1. PICK l, m : l = LineAt(s, I, M, q) /\ m = LineAt(t, I, N, q)  OBVIOUS
<1>2. PICK k, j, o : k = Len(I[q]) /\ j = Len(M[q]) /\ o = Len(s.out[q])  OBVIOUS
<1>3. /\ k \in Nat /\ j \in Nat /\ o \in Nat /\ Len(l) = k + (j + o) /\ l \in Seq(Work)
      /\ \A n \in 1..k : l[n] = I[q][n]
      /\ \A n \in (k + 1)..(k + j) : l[n] = M[q][n - k]
      /\ \A n \in (k + j + 1)..(k + (j + o)) : l[n] = s.out[q][n - (k + j)]
  <2>1. Parted(l, I[q], M[q], s.out[q], k, j, o)  BY <1>1, <1>2, LineParts
  <2> QED  BY <2>1 DEF Parted
<1>4. s.out[q] \in Seq(Request) /\ M[q] \in Seq(Request)  BY DEF Typed, Memory
<1>5. /\ Len(t.out[q]) = o - 1 /\ o # 0 /\ Head(s.out[q]) = s.out[q][1] /\ Head(s.out[q]) \in Request
      /\ \A n \in 1..(o - 1) : t.out[q][n] = s.out[q][n + 1]
  BY <1>2, <1>4, HeadTailProperties, EmptySeq
<1>6. /\ Len(N[q]) = j + 1 /\ N[q][j + 1] = s.out[q][1]
      /\ \A n \in 1..j : N[q][n] = M[q][n]
  BY <1>2, <1>4, <1>5, AppendProperties
<1>7. PICK jj, oo : jj = j + 1 /\ oo = o - 1  OBVIOUS
<1>8. /\ Len(m) = k + (jj + oo) /\ m \in Seq(Work)
      /\ \A n \in 1..k : m[n] = I[q][n]
      /\ \A n \in (k + 1)..(k + jj) : m[n] = N[q][n - k]
      /\ \A n \in (k + jj + 1)..(k + (jj + oo)) : m[n] = t.out[q][n - (k + jj)]
  <2>1. Parted(m, I[q], N[q], t.out[q], k, jj, oo)  BY <1>1, <1>2, <1>5, <1>6, <1>7, LineParts
  <2> QED  BY <2>1 DEF Parted
<1>9. Len(m) = Len(l)  BY <1>3, <1>5, <1>7, <1>8
<1>10. ASSUME NEW n \in 1..Len(l) PROVE m[n] = l[n]
  <2>1. k \in Nat /\ j \in Nat /\ o \in Nat \ {0} /\ n \in 1..(k + (j + o))
    BY <1>3, <1>5
  <2>2. CASE n \in 1..k  BY <1>3, <1>8, <2>2
  <2>3. CASE n \in (k + 1)..(k + j)
    <3>1. n \in (k + 1)..(k + jj) /\ n - k \in 1..j  BY <1>7, <2>1, <2>3
    <3> QED  BY <1>3, <1>6, <1>8, <2>3, <3>1
  <2>4. CASE n = k + j + 1
    <3>1. /\ n \in (k + 1)..(k + jj) /\ n - k = j + 1 /\ n \in (k + j + 1)..(k + (j + o))
          /\ n - (k + j) = 1
      BY <1>7, <2>1, <2>4
    <3> QED  BY <1>3, <1>6, <1>8, <3>1
  <2>5. CASE n \in (k + j + 2)..(k + (j + o))
    <3>1. /\ n \in (k + jj + 1)..(k + (jj + oo)) /\ n - (k + jj) \in 1..(o - 1)
          /\ (n - (k + jj)) + 1 = n - (k + j) /\ n \in (k + j + 1)..(k + (j + o))
      BY <1>7, <2>1, <2>5
    <3> QED  BY <1>3, <1>5, <1>8, <3>1
  <2>6. \/ n \in 1..k \/ n \in (k + 1)..(k + j) \/ n = k + j + 1
        \/ n \in (k + j + 2)..(k + (j + o))
    BY <2>1
  <2> QED  BY <2>2, <2>3, <2>4, <2>5, <2>6
<1>11. m = l  BY <1>3, <1>8, <1>9, <1>10, SeqEqual
<1> QED  BY <1>1, <1>11

\* 200 URI Start of the method's first request.
LEMMA BegunLine ==
    ASSUME NEW s \in Memory, NEW I, NEW M, NEW J, NEW N, Typed(I, M), Typed(J, N), NEW q \in Queues,
           M[q] # << >>, NEW x \in Message, J[q] = Append(I[q], x),
           NEW r \in Request, N[q] = [M[q] EXCEPT ![1] = r],
           x.uri = Head(M[q]).uri, x.file = Head(M[q]).file, x.kind = "start",
           r.uri = x.uri, r.file = x.file
    PROVE  LineBegun(LineAt(s, I, M, q), Len(I[q]), LineAt(s, J, N, q), Len(J[q]))
<1>1. PICK l : l = LineAt(s, I, M, q)  BY Zenon
<1>2. PICK m : m = LineAt(s, J, N, q)  BY Zenon
<1>3. PICK k, j, o : k = Len(I[q]) /\ j = Len(M[q]) /\ o = Len(s.out[q])  OBVIOUS
<1>4. /\ k \in Nat /\ j \in Nat /\ o \in Nat /\ Len(l) = k + (j + o)
      /\ \A n \in 1..k : l[n] = I[q][n]
      /\ \A n \in (k + 1)..(k + j) : l[n] = M[q][n - k]
      /\ \A n \in (k + j + 1)..(k + (j + o)) : l[n] = s.out[q][n - (k + j)]
  <2>1. Parted(l, I[q], M[q], s.out[q], k, j, o)  BY <1>1, <1>3, LineParts
  <2> QED  BY <2>1 DEF Parted
<1>5. I[q] \in Seq(Message) /\ M[q] \in Seq(Request)  BY DEF Typed
<1>6. /\ Len(J[q]) = k + 1 /\ J[q][k + 1] = x
      /\ \A n \in 1..k : J[q][n] = I[q][n]
  BY <1>3, <1>5, AppendProperties
<1>7. j # 0 /\ Head(M[q]) = M[q][1]
  BY <1>3, <1>5, HeadTailProperties, EmptySeq
<1>8. Len(N[q]) = j /\ \A n \in 1..j : N[q][n] = IF n = 1 THEN r ELSE M[q][n]
  <2>1. 1 \in 1..Len(M[q])  BY <1>3, <1>4, <1>7
  <2> QED  BY <1>3, <1>5, <2>1, ExceptSeq
<1>9. PICK kk : kk = k + 1  OBVIOUS
<1>10. /\ Len(m) = kk + (j + o)
       /\ \A n \in 1..kk : m[n] = J[q][n]
       /\ \A n \in (kk + 1)..(kk + j) : m[n] = N[q][n - kk]
       /\ \A n \in (kk + j + 1)..(kk + (j + o)) : m[n] = s.out[q][n - (kk + j)]
  <2>1. Len(J[q]) = kk /\ Len(N[q]) = j  BY <1>6, <1>8, <1>9
  <2>2. Parted(m, J[q], N[q], s.out[q], Len(J[q]), Len(N[q]), o)  BY <1>2, <1>3, LineParts
  <2>3. Parted(m, J[q], N[q], s.out[q], kk, j, o)  BY <2>1, <2>2, Zenon
  <2> QED  BY <2>3 DEF Parted
<1>11. Len(m) = Len(l) + 1 /\ k < Len(l)  BY <1>4, <1>7, <1>9, <1>10
<1>12. m[k + 1] = x /\ l[k + 1] = Head(M[q])
  BY <1>4, <1>6, <1>7, <1>9, <1>10
<1>13. \A n \in 1..k : m[n] = l[n]  BY <1>4, <1>6, <1>9, <1>10
<1>14. ASSUME NEW n \in (k + 1)..Len(l) PROVE m[n + 1].uri = l[n].uri /\ m[n + 1].file = l[n].file
  <2>1. CASE n \in (k + 1)..(k + j)
    <3>1. n + 1 \in (kk + 1)..(kk + j) /\ (n + 1) - kk = n - k /\ n - k \in 1..j
      BY <1>4, <1>9, <2>1
    <3>2. m[n + 1] = IF n - k = 1 THEN r ELSE M[q][n - k]  BY <1>8, <1>10, <3>1
    <3>3. l[n] = M[q][n - k]  BY <1>4, <2>1
    <3> QED  BY <1>7, <3>2, <3>3
  <2>2. CASE n \in (k + j + 1)..(k + (j + o))
    <3>1. /\ n + 1 \in (kk + j + 1)..(kk + (j + o)) /\ (n + 1) - (kk + j) = n - (k + j)
      BY <1>4, <1>9, <2>2
    <3>2. m[n + 1] = s.out[q][(n + 1) - (kk + j)]  BY <1>10, <3>1
    <3>3. l[n] = s.out[q][n - (k + j)]  BY <1>4, <2>2
    <3> QED  BY <3>1, <3>2, <3>3
  <2> QED  BY <1>4, <1>14, <2>1, <2>2
<1> QED  BY <1>1, <1>2, <1>3, <1>6, <1>11, <1>12, <1>13, <1>14 DEF LineBegun

\* 103 Redirect of the method's first request.
LEMMA RedirectedLine ==
    ASSUME NEW s \in Memory, NEW I, NEW M, NEW J, NEW N, Typed(I, M), Typed(J, N), NEW q \in Queues,
           M[q] # << >>, NEW x \in Message, J[q] = Append(I[q], x),
           NEW r \in Request, N[q] = Append(Tail(M[q]), r),
           x.uri = Head(M[q]).uri, x.kind = "redirect", r.uri = x.to
    PROVE  LineRedirected(LineAt(s, I, M, q), Len(I[q]), Len(M[q]), LineAt(s, J, N, q), Len(J[q]), x.to)
<1>1. PICK l : l = LineAt(s, I, M, q)  BY Zenon
<1>2. PICK m : m = LineAt(s, J, N, q)  BY Zenon
<1>3. PICK k, j, o : k = Len(I[q]) /\ j = Len(M[q]) /\ o = Len(s.out[q])  OBVIOUS
<1>4. /\ k \in Nat /\ j \in Nat /\ o \in Nat /\ Len(l) = k + (j + o)
      /\ \A n \in 1..k : l[n] = I[q][n]
      /\ \A n \in (k + 1)..(k + j) : l[n] = M[q][n - k]
      /\ \A n \in (k + j + 1)..(k + (j + o)) : l[n] = s.out[q][n - (k + j)]
  <2>1. Parted(l, I[q], M[q], s.out[q], k, j, o)  BY <1>1, <1>3, LineParts
  <2> QED  BY <2>1 DEF Parted
<1>5. I[q] \in Seq(Message) /\ M[q] \in Seq(Request)  BY DEF Typed
<1>6. /\ Len(J[q]) = k + 1 /\ J[q][k + 1] = x
      /\ \A n \in 1..k : J[q][n] = I[q][n]
  BY <1>3, <1>5, AppendProperties
<1>7. /\ j # 0 /\ Head(M[q]) = M[q][1] /\ Tail(M[q]) \in Seq(Request)
      /\ Len(Tail(M[q])) = j - 1 /\ \A n \in 1..(j - 1) : Tail(M[q])[n] = M[q][n + 1]
  BY <1>3, <1>5, HeadTailProperties, EmptySeq
<1>8. Len(N[q]) = j /\ N[q][j] = r /\ \A n \in 1..(j - 1) : N[q][n] = M[q][n + 1]
  <2>1. PICK w : w = Tail(M[q])  OBVIOUS
  <2>2. w \in Seq(Request) /\ Len(w) = j - 1 /\ \A n \in 1..(j - 1) : w[n] = M[q][n + 1]
    BY <1>7, <2>1
  <2>3. N[q] = Append(w, r)  BY <2>1
  <2>4. /\ Len(N[q]) = Len(w) + 1 /\ N[q][Len(w) + 1] = r
        /\ \A n \in 1..Len(w) : N[q][n] = w[n]
    BY <2>2, <2>3, AppendProperties
  <2>5. (j - 1) + 1 = j  BY <1>4
  <2>6. Len(N[q]) = j /\ N[q][j] = r  BY <2>2, <2>4, <2>5, Zenon
  <2>7. \A n \in 1..(j - 1) : N[q][n] = M[q][n + 1]  BY <2>2, <2>4, Zenon
  <2> QED  BY <2>6, <2>7
<1>9. PICK kk : kk = k + 1  OBVIOUS
<1>10. /\ Len(m) = kk + (j + o)
       /\ \A n \in 1..kk : m[n] = J[q][n]
       /\ \A n \in (kk + 1)..(kk + j) : m[n] = N[q][n - kk]
       /\ \A n \in (kk + j + 1)..(kk + (j + o)) : m[n] = s.out[q][n - (kk + j)]
  <2>1. Len(J[q]) = kk /\ Len(N[q]) = j  BY <1>6, <1>8, <1>9
  <2>2. Parted(m, J[q], N[q], s.out[q], Len(J[q]), Len(N[q]), o)  BY <1>2, <1>3, LineParts
  <2>3. Parted(m, J[q], N[q], s.out[q], kk, j, o)  BY <2>1, <2>2, Zenon
  <2> QED  BY <2>3 DEF Parted
<1>11. Len(m) = Len(l) + 1 /\ j \in Nat \ {0} /\ k + j <= Len(l)  BY <1>4, <1>7, <1>9, <1>10
<1>12. m[k + 1] = x /\ l[k + 1] = Head(M[q])
  BY <1>4, <1>6, <1>7, <1>9, <1>10
<1>13. \A n \in 1..k : m[n] = l[n]  BY <1>4, <1>6, <1>9, <1>10
<1>14. ASSUME NEW n \in (k + 2)..(k + j) PROVE m[n].uri = l[n].uri
  <2>1. n \in (kk + 1)..(kk + j) /\ n - kk \in 1..(j - 1)  BY <1>4, <1>9
  <2>2. (n - kk) + 1 = n - k /\ n \in (k + 1)..(k + j)  BY <1>4, <1>9
  <2>3. m[n] = N[q][n - kk]  BY <1>10, <2>1
  <2>4. N[q][n - kk] = M[q][n - k]  BY <1>8, <2>1, <2>2
  <2>5. l[n] = M[q][n - k]  BY <1>4, <2>2
  <2> QED  BY <2>3, <2>4, <2>5
<1>15. m[k + j + 1] = r
  <2>1. k + j + 1 \in (kk + 1)..(kk + j) /\ (k + j + 1) - kk = j  BY <1>4, <1>7, <1>9
  <2> QED  BY <1>8, <1>10, <2>1
<1>16. ASSUME NEW n \in (k + j + 1)..Len(l) PROVE m[n + 1].uri = l[n].uri
  <2>1. /\ n + 1 \in (kk + j + 1)..(kk + (j + o)) /\ (n + 1) - (kk + j) = n - (k + j)
        /\ n \in (k + j + 1)..(k + (j + o))
    BY <1>4, <1>9
  <2> QED  BY <1>4, <1>10, <2>1
<1> QED  BY <1>1, <1>2, <1>3, <1>6, <1>11, <1>12, <1>13, <1>14, <1>15, <1>16 DEF LineRedirected

\* The method is gone, with the requests it held.
LEMMA DiedLine ==
    ASSUME NEW s \in Memory, NEW I, NEW M, NEW N, Typed(I, M), Typed(I, N), NEW q \in Queues,
           N[q] = << >>
    PROVE  LineDied(LineAt(s, I, M, q), Len(I[q]), Len(M[q]), LineAt(s, I, N, q), Len(I[q]))
<1>1. PICK l : l = LineAt(s, I, M, q)  BY Zenon
<1>2. PICK m : m = LineAt(s, I, N, q)  BY Zenon
<1>3. PICK k, j, o : k = Len(I[q]) /\ j = Len(M[q]) /\ o = Len(s.out[q])  OBVIOUS
<1>4. /\ k \in Nat /\ j \in Nat /\ o \in Nat /\ Len(l) = k + (j + o)
      /\ \A n \in 1..k : l[n] = I[q][n]
      /\ \A n \in (k + 1)..(k + j) : l[n] = M[q][n - k]
      /\ \A n \in (k + j + 1)..(k + (j + o)) : l[n] = s.out[q][n - (k + j)]
  <2>1. Parted(l, I[q], M[q], s.out[q], k, j, o)  BY <1>1, <1>3, LineParts
  <2> QED  BY <2>1 DEF Parted
<1>5. Len(N[q]) = 0  BY EmptySeq
<1>6. /\ Len(m) = k + (0 + o)
      /\ \A n \in 1..k : m[n] = I[q][n]
      /\ \A n \in (k + 0 + 1)..(k + (0 + o)) : m[n] = s.out[q][n - (k + 0)]
  <2>1. Parted(m, I[q], N[q], s.out[q], k, 0, o)  BY <1>2, <1>3, <1>5, LineParts
  <2> QED  BY <2>1 DEF Parted
<1>7. k + j <= Len(l) /\ Len(m) = Len(l) - j  BY <1>4, <1>6
<1>8. \A n \in 1..k : m[n] = l[n]  BY <1>4, <1>6
<1>9. ASSUME NEW n \in (k + 1)..Len(m) PROVE m[n] = l[n + j]
  <2>1. n \in Int /\ n >= k + 1 /\ n <= k + o
    <3>1. Len(m) = k + o  BY <1>4, <1>6
    <3> QED  BY <1>4, <1>9, <3>1
  <2>2. /\ n \in (k + 0 + 1)..(k + (0 + o)) /\ n - (k + 0) = (n + j) - (k + j)
        /\ n + j \in (k + j + 1)..(k + (j + o))
    BY <1>4, <2>1
  <2>3. m[n] = s.out[q][n - (k + 0)]  BY <1>6, <2>2
  <2>4. l[n + j] = s.out[q][(n + j) - (k + j)]  BY <1>4, <2>2
  <2> QED  BY <2>2, <2>3, <2>4
<1> QED  BY <1>1, <1>2, <1>3, <1>4, <1>7, <1>8, <1>9 DEF LineDied

\* The worker takes its first message from the pipe.
LEMMA TakenLine ==
    ASSUME NEW s \in Memory, NEW I, NEW M, NEW J, Typed(I, M), Typed(J, M), NEW q \in Queues,
           I[q] # << >>, J[q] = Tail(I[q])
    PROVE  /\ LineTaken(LineAt(s, I, M, q), Len(I[q]), LineAt(s, J, M, q), Len(J[q]))
           /\ LineAt(s, I, M, q)[1] = Head(I[q])
<1>1. PICK l : l = LineAt(s, I, M, q)  BY Zenon
<1>2. PICK m : m = LineAt(s, J, M, q)  BY Zenon
<1>3. PICK k, j, o : k = Len(I[q]) /\ j = Len(M[q]) /\ o = Len(s.out[q])  OBVIOUS
<1>4. /\ k \in Nat /\ j \in Nat /\ o \in Nat /\ Len(l) = k + (j + o)
      /\ \A n \in 1..k : l[n] = I[q][n]
      /\ \A n \in (k + 1)..(k + j) : l[n] = M[q][n - k]
      /\ \A n \in (k + j + 1)..(k + (j + o)) : l[n] = s.out[q][n - (k + j)]
  <2>1. Parted(l, I[q], M[q], s.out[q], k, j, o)  BY <1>1, <1>3, LineParts
  <2> QED  BY <2>1 DEF Parted
<1>5. I[q] \in Seq(Message)  BY DEF Typed
<1>6. /\ k # 0 /\ Head(I[q]) = I[q][1] /\ Len(J[q]) = k - 1
      /\ \A n \in 1..(k - 1) : J[q][n] = I[q][n + 1]
  BY <1>3, <1>5, HeadTailProperties, EmptySeq
<1>7. PICK kk : kk = k - 1  OBVIOUS
<1>8. /\ Len(m) = kk + (j + o)
      /\ \A n \in 1..kk : m[n] = J[q][n]
      /\ \A n \in (kk + 1)..(kk + j) : m[n] = M[q][n - kk]
      /\ \A n \in (kk + j + 1)..(kk + (j + o)) : m[n] = s.out[q][n - (kk + j)]
  <2>1. Parted(m, J[q], M[q], s.out[q], kk, j, o)  BY <1>2, <1>3, <1>6, <1>7, LineParts
  <2> QED  BY <2>1 DEF Parted
<1>9. Len(m) = Len(l) - 1 /\ l[1] = Head(I[q])  BY <1>4, <1>6, <1>7, <1>8
<1>10. ASSUME NEW n \in 1..Len(m) PROVE m[n] = l[n + 1]
  <2>1. CASE n \in 1..kk
    <3>1. n + 1 \in 1..k /\ n \in 1..(k - 1)  BY <1>4, <1>7, <2>1
    <3> QED  BY <1>4, <1>6, <1>8, <2>1, <3>1
  <2>2. CASE n \in (kk + 1)..(kk + j)
    <3>1. n + 1 \in (k + 1)..(k + j) /\ (n + 1) - k = n - kk  BY <1>4, <1>7, <2>2
    <3> QED  BY <1>4, <1>8, <2>2, <3>1
  <2>3. CASE n \in (kk + j + 1)..(kk + (j + o))
    <3>1. n + 1 \in (k + j + 1)..(k + (j + o)) /\ (n + 1) - (k + j) = n - (kk + j)
      BY <1>4, <1>7, <2>3
    <3> QED  BY <1>4, <1>8, <2>3, <3>1
  <2> QED  BY <1>4, <1>6, <1>7, <1>8, <2>1, <2>2, <2>3
<1> QED  BY <1>1, <1>2, <1>3, <1>6, <1>9, <1>10 DEF LineTaken

\* The worker sends requests.
LEMMA LongerLine ==
    ASSUME NEW s \in Memory, NEW t \in Memory, NEW I, NEW M, Typed(I, M), NEW q \in Queues,
           NEW r \in Seq(Request), t.out[q] = s.out[q] \o r
    PROVE  LineLonger(LineAt(s, I, M, q), LineAt(t, I, M, q), r)
<1>1. PICK l : l = LineAt(s, I, M, q)  BY Zenon
<1>2. PICK m : m = LineAt(t, I, M, q)  BY Zenon
<1>3. PICK k, j, o : k = Len(I[q]) /\ j = Len(M[q]) /\ o = Len(s.out[q])  OBVIOUS
<1>4. /\ k \in Nat /\ j \in Nat /\ o \in Nat /\ Len(l) = k + (j + o)
      /\ \A n \in 1..k : l[n] = I[q][n]
      /\ \A n \in (k + 1)..(k + j) : l[n] = M[q][n - k]
      /\ \A n \in (k + j + 1)..(k + (j + o)) : l[n] = s.out[q][n - (k + j)]
  <2>1. Parted(l, I[q], M[q], s.out[q], k, j, o)  BY <1>1, <1>3, LineParts
  <2> QED  BY <2>1 DEF Parted
<1>5. s.out[q] \in Seq(Request)  BY DEF Memory
<1>6. /\ Len(r) \in Nat /\ Len(t.out[q]) = o + Len(r)
      /\ \A n \in 1..(o + Len(r)) : t.out[q][n] = IF n <= o THEN s.out[q][n] ELSE r[n - o]
  BY <1>3, <1>5, TwoParts
<1>7. PICK e, oo : e = Len(r) /\ oo = o + Len(r)  OBVIOUS
<1>8. /\ Len(m) = k + (j + oo)
      /\ \A n \in 1..k : m[n] = I[q][n]
      /\ \A n \in (k + 1)..(k + j) : m[n] = M[q][n - k]
      /\ \A n \in (k + j + 1)..(k + (j + oo)) : m[n] = t.out[q][n - (k + j)]
  <2>1. Len(t.out[q]) = oo  BY <1>6, <1>7
  <2>2. Parted(m, I[q], M[q], t.out[q], k, j, oo)  BY <1>2, <1>3, <2>1, LineParts
  <2> QED  BY <2>2 DEF Parted
<1>9. Len(m) = Len(l) + Len(r)  BY <1>4, <1>6, <1>7, <1>8
<1>10. ASSUME NEW n \in 1..Len(l) PROVE m[n] = l[n]
  <2>1. CASE n \in 1..(k + j)
    <3>1. n \in 1..k \/ n \in (k + 1)..(k + j)  BY <1>4, <2>1
    <3> QED  BY <1>4, <1>8, <3>1
  <2>2. CASE n \in (k + j + 1)..(k + (j + o))
    <3>1. /\ n \in (k + j + 1)..(k + (j + oo)) /\ n - (k + j) \in 1..(o + Len(r))
          /\ n - (k + j) <= o
      BY <1>4, <1>6, <1>7, <2>2
    <3>2. m[n] = t.out[q][n - (k + j)] /\ l[n] = s.out[q][n - (k + j)]  BY <1>4, <1>8, <2>2, <3>1
    <3> QED  BY <1>6, <3>1, <3>2
  <2> QED  BY <1>4, <2>1, <2>2
<1>11. ASSUME NEW n \in 1..Len(r) PROVE m[Len(l) + n] = r[n]
  <2>1. PICK p : p = Len(l) + n  OBVIOUS
  <2>2. /\ p \in (k + j + 1)..(k + (j + oo)) /\ p - (k + j) = o + n
        /\ o + n \in 1..(o + Len(r)) /\ ~(o + n <= o) /\ (o + n) - o = n
    BY <1>4, <1>6, <1>7, <2>1
  <2>3. m[p] = t.out[q][o + n]  BY <1>8, <2>2
  <2> QED  BY <1>6, <2>1, <2>2, <2>3
<1> QED  BY <1>1, <1>2, <1>6, <1>9, <1>10, <1>11 DEF LineLonger

-----------------------------------------------------------------------------
(* Names on the line.  Every place of a line belongs to an item that its   *)
(* worker was asked for: g says which.  The messages of one item follow    *)
(* one another up to the request or the answer that is its last place,     *)
(* each with the URI that the one before it left.                          *)

Asked(s, q) == {x \in Fetching(s, q) : s.entry[x].worker = "current"}

\* The URI of an item after the message m.
After(m) == IF m.kind = "redirect" THEN m.to ELSE m.uri

\* The place n is the first of its item, or the next one after the place m.
Fresh(g, n) == \A p \in 1..(n - 1) : g[p] # g[n]
Follows(g, m, n) == m < n /\ g[m] = g[n] /\ \A p \in (m + 1)..(n - 1) : g[p] # g[n]

Chained(s, q, k, l, g) ==
    /\ \A n \in 1..Len(l) : g[n] \in Asked(s, q)
    /\ \A n \in 1..Len(l) : Fresh(g, n) => l[n].uri = s.entry[g[n]].uri
    /\ \A m, n \in 1..Len(l) : m < n /\ g[m] = g[n] => ~HeldAt(k, l, m)
    /\ \A m, n \in 1..Len(l) : Follows(g, m, n) => l[n].uri = After(l[m])

Names(s, q, k, l) == \E g \in [1..Len(l) -> Items] : Chained(s, q, k, l, g)

\* What was asked for in s is in t, with the same URI.
Stays(s, t, q) ==
    /\ Asked(s, q) \subseteq Asked(t, q)
    /\ \A x \in Asked(s, q) : t.entry[x].uri = s.entry[x].uri

\* The requests of r are for other items, each for one.
Orders(s, t, q, r) ==
    /\ \A n \in 1..Len(r) : /\ r[n].file \in Asked(t, q) \ Asked(s, q)
                            /\ r[n].uri = t.entry[r[n].file].uri
    /\ \A a, b \in 1..Len(r) : r[a].file = r[b].file => a = b

\* A function that names a line names its places after items.
LEMMA NamesAre ==
    ASSUME NEW s, NEW q, NEW k, NEW l, NEW h, h = [n \in 1..Len(l) |-> h[n]],
           Chained(s, q, k, l, h)
    PROVE  Names(s, q, k, l)
<1>1. Asked(s, q) \subseteq Items  BY DEF Asked, Fetching, QItems, Queued
<1>2. \A n \in 1..Len(l) : h[n] \in Items  BY <1>1 DEF Chained
<1>3. h \in [1..Len(l) -> Items]  BY <1>2
<1> QED  BY <1>3, Zenon DEF Names

\* The items of the line may wait for more than the line holds.
LEMMA ChainKept ==
    ASSUME NEW s, NEW t, NEW q, NEW k, NEW l, Names(s, q, k, l), Stays(s, t, q)
    PROVE  Names(t, q, k, l)
<1>1. PICK g \in [1..Len(l) -> Items] : Chained(s, q, k, l, g)  BY Zenon DEF Names
<1>2. Chained(t, q, k, l, g)  BY <1>1 DEF Chained, Stays
<1> QED  BY <1>1, <1>2, Zenon DEF Names

\* Two items that were asked for with the same URI may change names.
LEMMA ChainSwapped ==
    ASSUME NEW s, NEW q, NEW k, NEW l, NEW g, LineOK(l, k), Chained(s, q, k, l, g),
           NEW x \in Asked(s, q), NEW y \in Asked(s, q), s.entry[x].uri = s.entry[y].uri,
           NEW h, h = [n \in 1..Len(l) |-> IF g[n] = x THEN y ELSE IF g[n] = y THEN x ELSE g[n]]
    PROVE  Chained(s, q, k, l, h)
<1>1. \A n \in 1..Len(l) : h[n] = IF g[n] = x THEN y ELSE IF g[n] = y THEN x ELSE g[n]
  OBVIOUS
<1>2. \A m, n \in 1..Len(l) : h[m] = h[n] <=> g[m] = g[n]  BY <1>1
<1>3. \A n \in 1..Len(l) : s.entry[h[n]].uri = s.entry[g[n]].uri /\ h[n] \in Asked(s, q)
  BY <1>1 DEF Chained
<1>4. \A n \in 1..Len(l) : \A p \in 1..(n - 1) : p \in 1..Len(l)  BY DEF LineOK
<1>5. \A n \in 1..Len(l) : Fresh(h, n) => Fresh(g, n)  BY <1>2, <1>4 DEF Fresh
<1>6. \A m, n \in 1..Len(l) : Follows(h, m, n) => Follows(g, m, n)
  <2>1. \A m, n \in 1..Len(l) : \A p \in (m + 1)..(n - 1) : p \in 1..Len(l)  BY DEF LineOK
  <2> QED  BY <1>2, <2>1 DEF Follows
<1> QED  BY <1>2, <1>3, <1>5, <1>6 DEF Chained

\* The worker takes the first message from the line, and gives its item the
\* URI that the next message of the item has.
LEMMA ChainTaken ==
    ASSUME NEW s, NEW t, NEW q, NEW k, NEW l, NEW g, LineOK(l, k), Chained(s, q, k, l, g),
           NEW m, NEW i, LineTaken(l, k, m, i),
           \A n \in 2..Len(l) :
             /\ g[n] \in Asked(t, q)
             /\ t.entry[g[n]].uri = IF g[n] = g[1] THEN After(l[1]) ELSE s.entry[g[n]].uri
    PROVE  Names(t, q, i, m)
<1>1. PICK h : h = [n \in 1..Len(m) |-> g[n + 1]]  BY Zenon
<1>2. /\ k \in Nat \ {0} /\ i = k - 1 /\ Len(l) \in Nat \ {0} /\ Len(m) = Len(l) - 1
      /\ \A n \in 1..Len(m) : /\ m[n] = l[n + 1] /\ h[n] = g[n + 1]
                              /\ n + 1 \in 2..Len(l) /\ n + 1 \in 1..Len(l)
  BY <1>1 DEF LineOK, LineTaken
<1>3. \A n \in 1..Len(m) : h[n] \in Asked(t, q)  BY <1>2
<1>4. \A n \in 1..Len(m) : HeldAt(i, m, n) => HeldAt(k, l, n + 1)  BY <1>2 DEF HeldAt
<1>5. ASSUME NEW n \in 1..Len(m), Fresh(h, n) PROVE m[n].uri = t.entry[h[n]].uri
  <2>1. \A p \in 2..n : g[p] # g[n + 1]
    <3> SUFFICES ASSUME NEW p \in 2..n PROVE g[p] # g[n + 1]  OBVIOUS
    <3>1. p - 1 \in 1..(n - 1) /\ p - 1 \in 1..Len(m) /\ (p - 1) + 1 = p  BY <1>2
    <3>2. h[p - 1] # h[n]  BY <1>5, <3>1 DEF Fresh
    <3>3. h[p - 1] = g[(p - 1) + 1]  BY <1>2, <3>1
    <3> QED  BY <1>2, <3>1, <3>2, <3>3
  <2>2. CASE g[n + 1] = g[1]
    <3>1. \A p \in (1 + 1)..((n + 1) - 1) : p \in 2..n  BY <1>2
    <3>2. 1 < n + 1 /\ 1 \in 1..Len(l)  BY <1>2
    <3>3. Follows(g, 1, n + 1)  BY <2>1, <2>2, <3>1, <3>2 DEF Follows
    <3>4. l[n + 1].uri = After(l[1])  BY <1>2, <3>2, <3>3 DEF Chained
    <3> QED  BY <1>2, <2>2, <3>4
  <2>3. CASE g[n + 1] # g[1]
    <3>1. \A p \in 1..((n + 1) - 1) : p = 1 \/ p \in 2..n  BY <1>2
    <3>2. Fresh(g, n + 1)  BY <2>1, <2>3, <3>1 DEF Fresh
    <3>3. l[n + 1].uri = s.entry[g[n + 1]].uri  BY <1>2, <3>2 DEF Chained
    <3> QED  BY <1>2, <2>3, <3>3
  <2> QED  BY <2>2, <2>3
<1>6. \A a, b \in 1..Len(m) : a < b /\ h[a] = h[b] => ~HeldAt(i, m, a)
  <2> SUFFICES ASSUME NEW a \in 1..Len(m), NEW b \in 1..Len(m), a < b, h[a] = h[b]
               PROVE  ~HeldAt(i, m, a)
    OBVIOUS
  <2>1. a + 1 < b + 1  BY <1>2
  <2>2. ~HeldAt(k, l, a + 1)  BY <1>2, <2>1 DEF Chained
  <2> QED  BY <1>4, <2>2
<1>7. \A a, b \in 1..Len(m) : Follows(h, a, b) => m[b].uri = After(m[a])
  <2> SUFFICES ASSUME NEW a \in 1..Len(m), NEW b \in 1..Len(m), Follows(h, a, b)
               PROVE  m[b].uri = After(m[a])
    OBVIOUS
  <2>1. a + 1 < b + 1 /\ g[a + 1] = g[b + 1]  BY <1>2 DEF Follows
  <2>2. \A p \in ((a + 1) + 1)..((b + 1) - 1) : g[p] # g[b + 1]
    <3> SUFFICES ASSUME NEW p \in ((a + 1) + 1)..((b + 1) - 1) PROVE g[p] # g[b + 1]  OBVIOUS
    <3>1. p - 1 \in (a + 1)..(b - 1) /\ p - 1 \in 1..Len(m) /\ (p - 1) + 1 = p  BY <1>2
    <3>2. h[p - 1] # h[b]  BY <3>1 DEF Follows
    <3>3. h[p - 1] = g[(p - 1) + 1]  BY <1>2, <3>1
    <3> QED  BY <1>2, <3>1, <3>2, <3>3
  <2>3. Follows(g, a + 1, b + 1)  BY <2>1, <2>2 DEF Follows
  <2>4. l[b + 1].uri = After(l[a + 1])  BY <1>2, <2>3 DEF Chained
  <2> QED  BY <1>2, <2>4
<1>8. Chained(t, q, i, m, h)  BY <1>3, <1>5, <1>6, <1>7 DEF Chained
<1>9. h = [n \in 1..Len(m) |-> h[n]]  BY <1>1
<1> QED  BY <1>8, <1>9, NamesAre

\* The worker is asked for more: for every request of r another item.
LEMMA ChainLonger ==
    ASSUME NEW s, NEW t, NEW q, NEW k, NEW l, LineOK(l, k), Names(s, q, k, l),
           NEW m, NEW r, LineLonger(l, m, r), Stays(s, t, q), Orders(s, t, q, r)
    PROVE  Names(t, q, k, m)
<1>1. PICK o, e : o = Len(l) /\ e = Len(r)  OBVIOUS
<1>2. PICK g \in [1..Len(l) -> Items] : Chained(s, q, k, l, g)  BY Zenon DEF Names
<1>3. PICK h : h = [n \in 1..Len(m) |-> IF n <= Len(l) THEN g[n] ELSE m[n].file]  BY Zenon
<1>4. \A n \in 1..Len(m) : h[n] = IF n <= o THEN g[n] ELSE m[n].file  BY <1>1, <1>3
<1>5. /\ k \in Nat /\ o \in Nat /\ e \in Nat /\ k <= o /\ Len(m) = o + e
      /\ \A n \in 1..o : m[n] = l[n]
      /\ \A n \in 1..e : m[o + n] = r[n]
  BY <1>1 DEF LineOK, LineLonger
<1>6. \A n \in 1..o : h[n] = g[n] /\ n \in 1..Len(m) /\ h[n] \in Asked(s, q)
  BY <1>1, <1>5, <1>2, <1>4 DEF Chained
<1>7. ASSUME NEW n \in (o + 1)..Len(m)
      PROVE  /\ n - o \in 1..e /\ m[n] = r[n - o] /\ h[n] = r[n - o].file
             /\ h[n] \in Asked(t, q) \ Asked(s, q) /\ m[n].uri = t.entry[h[n]].uri
  <2>1. n - o \in 1..e /\ o + (n - o) = n /\ ~(n <= o) /\ n \in 1..Len(m)  BY <1>5
  <2>2. m[o + (n - o)] = r[n - o]  BY <1>5, <2>1
  <2>3. h[n] = m[n].file  BY <1>4, <2>1
  <2>4. m[n] = r[n - o]  BY <2>1, <2>2
  <2>5. /\ r[n - o].file \in Asked(t, q) \ Asked(s, q)
        /\ r[n - o].uri = t.entry[r[n - o].file].uri
    BY <1>1, <2>1 DEF Orders
  <2> QED  BY <2>1, <2>3, <2>4, <2>5
<1>8. \A n \in 1..Len(m) : n \in 1..o \/ n \in (o + 1)..Len(m)  BY <1>5
<1>9. \A n \in 1..Len(m) : h[n] \in Asked(t, q)  BY <1>6, <1>7, <1>8 DEF Stays
<1>10. ASSUME NEW a \in 1..Len(m), NEW b \in 1..Len(m), a < b, h[a] = h[b] PROVE b \in 1..o
  <2> SUFFICES ASSUME b \in (o + 1)..Len(m) PROVE FALSE  BY <1>8
  <2>1. CASE a \in 1..o  BY <1>6, <1>7, <1>10, <2>1
  <2>2. CASE a \in (o + 1)..Len(m)
    <3>1. a - o \in 1..e /\ b - o \in 1..e /\ r[a - o].file = r[b - o].file
      BY <1>7, <1>10, <2>2
    <3>2. a - o = b - o  BY <1>1, <3>1 DEF Orders
    <3> QED  BY <1>5, <1>10, <3>2
  <2> QED  BY <1>8, <2>1, <2>2
<1>11. ASSUME NEW n \in 1..Len(m), Fresh(h, n) PROVE m[n].uri = t.entry[h[n]].uri
  <2>1. CASE n \in 1..o
    <3>1. \A p \in 1..(n - 1) : p \in 1..o  BY <1>5, <2>1
    <3>2. Fresh(g, n)  BY <1>6, <1>11, <2>1, <3>1 DEF Fresh
    <3>3. l[n].uri = s.entry[g[n]].uri  BY <1>1, <1>2, <2>1, <3>2 DEF Chained
    <3>4. m[n] = l[n] /\ h[n] = g[n] /\ h[n] \in Asked(s, q)  BY <1>5, <1>6, <2>1
    <3>5. t.entry[h[n]].uri = s.entry[h[n]].uri  BY <3>4 DEF Stays
    <3> QED  BY <3>3, <3>4, <3>5
  <2>2. CASE n \in (o + 1)..Len(m)  BY <1>7, <2>2
  <2> QED  BY <1>8, <2>1, <2>2
<1>12. ASSUME NEW a \in 1..Len(m), NEW b \in 1..Len(m), a < b, h[a] = h[b]
      PROVE  /\ a \in 1..o /\ b \in 1..o /\ g[a] = g[b]
             /\ ~HeldAt(k, m, a)
             /\ Follows(h, a, b) => m[b].uri = After(m[a])
  <2>1. b \in 1..o /\ a \in 1..o  BY <1>5, <1>10, <1>12
  <2>2. g[a] = g[b] /\ m[a] = l[a] /\ m[b] = l[b]  BY <1>5, <1>6, <1>12, <2>1
  <2>3. ~HeldAt(k, l, a)  BY <1>1, <1>12, <1>2, <2>1, <2>2 DEF Chained
  <2>4. ASSUME Follows(h, a, b) PROVE l[b].uri = After(l[a])
    <3>1. \A p \in (a + 1)..(b - 1) : p \in 1..o  BY <1>5, <2>1
    <3>2. Follows(g, a, b)  BY <1>6, <2>1, <2>4, <3>1 DEF Follows
    <3> QED  BY <1>1, <1>2, <2>1, <3>2 DEF Chained
  <2> QED  BY <2>1, <2>2, <2>3, <2>4 DEF HeldAt
<1>13. \A a, b \in 1..Len(m) : Follows(h, a, b) => a < b /\ h[a] = h[b]  BY DEF Follows
<1>14. Chained(t, q, k, m, h)  BY <1>9, <1>11, <1>12, <1>13 DEF Chained
<1>15. h = [n \in 1..Len(m) |-> h[n]]  BY <1>3
<1> QED  BY <1>14, <1>15, NamesAre

\* An answer takes the place of its request.
LEMMA ChainAnswered ==
    ASSUME NEW s, NEW q, NEW k, NEW l, LineOK(l, k), Names(s, q, k, l),
           NEW m, NEW i, LineAnswered(l, k, m, i)
    PROVE  Names(s, q, i, m)
<1>1. PICK g \in [1..Len(l) -> Items] : Chained(s, q, k, l, g)  BY Zenon DEF Names
<1>2. /\ k \in Nat /\ i = k + 1 /\ Len(l) \in Nat /\ Len(m) = Len(l)
      /\ \A n \in 1..Len(l) : m[n].uri = l[n].uri /\ (n # k + 1 => m[n] = l[n])
      /\ Final(m[k + 1])
  BY DEF LineOK, LineAnswered
<1>3. \A n \in 1..Len(l) : HeldAt(i, m, n) => HeldAt(k, l, n)
  BY <1>2 DEF HeldAt
<1>4. \A a, b \in 1..Len(l) : a < b /\ g[a] = g[b] => ~HeldAt(i, m, a) /\ a # k + 1
  <2> SUFFICES ASSUME NEW a \in 1..Len(l), NEW b \in 1..Len(l), a < b, g[a] = g[b]
               PROVE  ~HeldAt(i, m, a) /\ a # k + 1
    OBVIOUS
  <2>1. ~HeldAt(k, l, a)  BY <1>1 DEF Chained
  <2>2. a # k + 1  BY <1>2, <2>1 DEF HeldAt
  <2> QED  BY <1>3, <2>1, <2>2
<1>5. \A a, b \in 1..Len(l) : Follows(g, a, b) => m[b].uri = After(m[a])
  <2> SUFFICES ASSUME NEW a \in 1..Len(l), NEW b \in 1..Len(l), Follows(g, a, b)
               PROVE  m[b].uri = After(m[a])
    OBVIOUS
  <2>1. l[b].uri = After(l[a])  BY <1>1 DEF Chained
  <2>2. m[a] = l[a]  BY <1>2, <1>4 DEF Follows
  <2> QED  BY <1>2, <2>1, <2>2
<1>6. Chained(s, q, i, m, g)  BY <1>1, <1>2, <1>4, <1>5 DEF Chained
<1>7. g \in [1..Len(m) -> Items]  BY <1>1, <1>2
<1> QED  BY <1>6, <1>7, Zenon DEF Names

\* The method reports on its first request, which gets the URI u, and puts it
\* behind its j - 1 others.
LineMoved(l, k, j, m, i, u) ==
    /\ i = k + 1 /\ Len(m) = Len(l) + 1 /\ j \in Nat \ {0} /\ k + j <= Len(l)
    /\ \A n \in 1..k : m[n] = l[n]
    /\ m[k + 1].uri = l[k + 1].uri /\ ~Final(m[k + 1]) /\ After(m[k + 1]) = u
    /\ \A n \in (k + 2)..(k + j) : m[n].uri = l[n].uri
    /\ m[k + j + 1].uri = u
    /\ \A n \in (k + j + 1)..Len(l) : m[n + 1].uri = l[n].uri

\* The report and the request are places of one item.
LEMMA ChainMoved ==
    ASSUME NEW s, NEW q, NEW k, NEW l, LineOK(l, k), Names(s, q, k, l),
           NEW m, NEW i, NEW j, NEW u, LineMoved(l, k, j, m, i, u)
    PROVE  Names(s, q, i, m)
<1>1. PICK g \in [1..Len(l) -> Items] : Chained(s, q, k, l, g)  BY Zenon DEF Names
<1>2. PICK o : o = Len(l) /\ Chained(s, q, k, l, g)  BY <1>1
<1>3. PICK h : h = [n \in 1..Len(m) |-> IF n <= k + j THEN g[n]
                                         ELSE IF n = k + j + 1 THEN g[k + 1] ELSE g[n - 1]]
  BY Zenon
<1>4. /\ k \in Nat /\ o \in Nat /\ j \in Nat \ {0} /\ i = k + 1 /\ k + j <= o
      /\ Len(m) = o + 1
      /\ \A n \in 1..k : m[n] = l[n]
      /\ m[k + 1].uri = l[k + 1].uri /\ ~Final(m[k + 1]) /\ After(m[k + 1]) = u
      /\ \A n \in (k + 2)..(k + j) : m[n].uri = l[n].uri
      /\ m[k + j + 1].uri = u
      /\ \A n \in (k + j + 1)..o : m[n + 1].uri = l[n].uri
  BY <1>2 DEF LineOK, LineMoved
<1> DEFINE f(n) == IF n <= k + j THEN n ELSE IF n = k + j + 1 THEN k + 1 ELSE n - 1
<1>5. \A n \in 1..(o + 1) : /\ f(n) \in 1..o /\ f(n) <= n /\ (n > k => f(n) > k) /\ (n <= k => f(n) = n)
  BY <1>4
<1>6. /\ f(k + 1) = k + 1 /\ f(k + j + 1) = k + 1
       /\ k + 1 \in 1..(o + 1) /\ k + 1 < k + j + 1
  BY <1>4
<1>7. \A n \in 1..(o + 1) : h[n] = g[f(n)]
  BY <1>4, <1>3
<1>8. ASSUME NEW a \in 1..(o + 1), NEW b \in 1..(o + 1), f(a) = f(b)
      PROVE  \/ a = b
             \/ a = k + 1 /\ b = k + j + 1
             \/ b = k + 1 /\ a = k + j + 1
  <2>1. k \in Nat /\ o \in Nat /\ j \in Nat \ {0} /\ a \in Nat /\ b \in Nat  BY <1>4
  <2>2. CASE a <= k + j  BY <1>8, <2>1, <2>2
  <2>3. CASE a = k + j + 1  BY <1>8, <2>1, <2>3
  <2>4. CASE a > k + j + 1  BY <1>8, <2>1, <2>4
  <2> QED  BY <2>1, <2>2, <2>3, <2>4
<1>9. \A n \in 1..(o + 1) : n # k + j + 1 => m[n].uri = l[f(n)].uri
  <2> SUFFICES ASSUME NEW n \in 1..(o + 1), n # k + j + 1 PROVE m[n].uri = l[f(n)].uri  OBVIOUS
  <2>1. CASE n <= k + j
    <3>1. f(n) = n /\ (n \in 1..k \/ n = k + 1 \/ n \in (k + 2)..(k + j))  BY <1>4, <2>1
    <3> QED  BY <1>4, <3>1
  <2>2. CASE n > k + j + 1
    <3>1. f(n) = n - 1 /\ n - 1 \in (k + j + 1)..o /\ (n - 1) + 1 = n  BY <1>4, <2>2
    <3>2. m[(n - 1) + 1].uri = l[n - 1].uri  BY <1>4, <3>1
    <3> QED  BY <3>1, <3>2
  <2> QED  BY <1>4, <2>1, <2>2
<1> HIDE DEF f
\* Of the places behind the messages no two belong to one item.
<1>10. \A a, b \in 1..o : a > k /\ a < b => g[a] # g[b]
  BY <1>2 DEF Chained, HeldAt
<1>11. ASSUME NEW a \in 1..(o + 1), NEW b \in 1..(o + 1), a < b, h[a] = h[b], a > k
      PROVE  a = k + 1 /\ b = k + j + 1
  <2>1. f(a) = f(b)
    <3>1. b > k  BY <1>4, <1>11
    <3>2. f(a) \in 1..o /\ f(b) \in 1..o /\ f(a) > k /\ f(b) > k /\ g[f(a)] = g[f(b)]
      BY <1>5, <1>7, <1>11, <3>1
    <3>3. ~(f(a) < f(b)) /\ ~(f(b) < f(a))  BY <1>10, <3>2
    <3> QED  BY <3>2, <3>3
  <2>2. ~(b < a) /\ a # b  BY <1>11
  <2> QED  BY <1>8, <1>6, <2>1, <2>2
<1>12. ASSUME NEW a \in 1..(o + 1), NEW b \in 1..(o + 1), a < b, h[a] = h[b], a <= k
      PROVE  /\ a \in 1..o /\ f(b) \in 1..o /\ a < f(b) /\ g[a] = g[f(b)] /\ m[a] = l[a]
             /\ ~HeldAt(i, m, a)
  <2>1. a \in 1..o /\ a \in 1..k /\ f(a) = a /\ f(b) \in 1..o  BY <1>4, <1>5, <1>12
  <2>2. a < f(b)
    <3>1. CASE b <= k  BY <1>5, <1>12, <3>1
    <3>2. CASE b > k
      <4>1. f(b) > k /\ f(b) \in Int /\ a \in Int /\ k \in Int  BY <1>4, <1>5, <2>1, <3>2
      <4> QED  BY <1>12, <4>1
    <3> QED  BY <1>4, <3>1, <3>2
  <2>3. g[a] = g[f(b)] /\ m[a] = l[a]  BY <1>4, <1>7, <1>12, <2>1
  <2>4. ~HeldAt(k, l, a)  BY <1>2, <2>1, <2>2, <2>3 DEF Chained
  <2>5. ~HeldAt(i, m, a)  BY <1>4, <2>1, <2>3, <2>4 DEF HeldAt
  <2> QED  BY <2>1, <2>2, <2>3, <2>5
<1>13. \A n \in 1..(o + 1) : h[n] \in Asked(s, q)  BY <1>2, <1>5, <1>7 DEF Chained
<1>14. ASSUME NEW n \in 1..(o + 1), Fresh(h, n) PROVE m[n].uri = s.entry[h[n]].uri
  <2>1. n # k + j + 1
    <3> SUFFICES ASSUME n = k + j + 1 PROVE FALSE  OBVIOUS
    <3>1. k + 1 \in 1..(n - 1) /\ k + 1 \in 1..(o + 1) /\ f(k + 1) = f(n)  BY <1>4, <1>6
    <3>2. h[k + 1] = h[n]  BY <1>7, <3>1
    <3> QED  BY <1>14, <3>1, <3>2 DEF Fresh
  <2>2. Fresh(g, f(n))
    <3> SUFFICES ASSUME NEW p \in 1..(f(n) - 1) PROVE g[p] # g[f(n)]  BY DEF Fresh
    <3>1. p \in 1..o /\ f(n) \in 1..o /\ p < f(n) /\ p < n  BY <1>4, <1>5
    <3>2. CASE p > k  BY <1>10, <3>1, <3>2
    <3>3. CASE p <= k
      <4>1. p \in 1..(n - 1) /\ p \in 1..(o + 1) /\ f(p) = p  BY <1>4, <1>5, <3>1, <3>3
      <4>2. h[p] # h[n]  BY <1>14, <4>1 DEF Fresh
      <4> QED  BY <1>7, <4>1, <4>2
    <3> QED  BY <1>4, <3>2, <3>3
  <2>3. l[f(n)].uri = s.entry[g[f(n)]].uri  BY <1>2, <1>5, <2>2 DEF Chained
  <2> QED  BY <1>7, <1>9, <2>1, <2>3
<1>15. ASSUME NEW a \in 1..(o + 1), NEW b \in 1..(o + 1), a < b, h[a] = h[b] PROVE ~HeldAt(i, m, a)
  <2>1. CASE a > k
    <3>1. a = k + 1  BY <1>11, <1>15, <2>1
    <3> QED  BY <1>4, <3>1 DEF HeldAt
  <2>2. CASE a <= k  BY <1>12, <1>15, <2>2
  <2> QED  BY <1>4, <2>1, <2>2
<1>16. ASSUME NEW a \in 1..(o + 1), NEW b \in 1..(o + 1), Follows(h, a, b) PROVE m[b].uri = After(m[a])
  <2>1. a < b /\ h[a] = h[b] /\ \A p \in (a + 1)..(b - 1) : h[p] # h[b]  BY <1>16 DEF Follows
  <2>2. CASE a > k
    <3>1. a = k + 1 /\ b = k + j + 1  BY <1>11, <2>1, <2>2
    <3> QED  BY <1>4, <3>1
  <2>3. CASE a <= k
    <3>1. /\ a \in 1..o /\ f(b) \in 1..o /\ a < f(b) /\ g[a] = g[f(b)] /\ m[a] = l[a]
      BY <1>12, <2>1, <2>3
    <3>2. b # k + j + 1
      <4> SUFFICES ASSUME b = k + j + 1 PROVE FALSE  OBVIOUS
      <4>1. k + 1 \in (a + 1)..(b - 1) /\ k + 1 \in 1..(o + 1) /\ f(k + 1) = f(b)  BY <1>4, <1>6, <2>3
      <4> QED  BY <1>7, <2>1, <4>1
    <3>3. \A p \in (a + 1)..(f(b) - 1) : g[p] # g[f(b)]
      <4> SUFFICES ASSUME NEW p \in (a + 1)..(f(b) - 1) PROVE g[p] # g[f(b)]  OBVIOUS
      <4>1. f(b) \in 1..o /\ f(b) <= b /\ o \in Nat  BY <1>4, <1>5
      <4>2. p \in 1..o /\ p < f(b) /\ p < b  BY <3>1, <4>1
      <4>3. CASE p > k  BY <1>10, <3>1, <4>2, <4>3
      <4>4. CASE p <= k
        <5>1. p \in (a + 1)..(b - 1) /\ p \in 1..(o + 1) /\ f(p) = p  BY <1>4, <1>5, <4>2, <4>4
        <5> QED  BY <1>7, <2>1, <5>1
      <4> QED  BY <1>4, <4>3, <4>4
    <3>4. Follows(g, a, f(b))  BY <3>1, <3>3 DEF Follows
    <3>5. l[f(b)].uri = After(l[a])  BY <1>2, <3>1, <3>4 DEF Chained
    <3> QED  BY <1>9, <3>1, <3>2, <3>5
  <2> QED  BY <1>4, <2>2, <2>3
<1>17. Chained(s, q, i, m, h)  BY <1>4, <1>13, <1>14, <1>15, <1>16 DEF Chained
<1>18. h = [n \in 1..Len(m) |-> h[n]]  BY <1>3
<1> QED  BY <1>17, <1>18, NamesAre

\* The places of a dead method's requests leave the line.
LEMMA ChainDied ==
    ASSUME NEW s, NEW q, NEW k, NEW l, LineOK(l, k), Names(s, q, k, l),
           NEW m, NEW i, NEW j, LineDied(l, k, j, m, i)
    PROVE  Names(s, q, i, m)
<1>1. PICK g \in [1..Len(l) -> Items] : Chained(s, q, k, l, g)  BY Zenon DEF Names
<1>2. PICK o : o = Len(l) /\ Chained(s, q, k, l, g)  BY <1>1
<1>3. PICK h : h = [n \in 1..Len(m) |-> IF n <= k THEN g[n] ELSE g[n + j]]  BY Zenon
<1>4. /\ k \in Nat /\ o \in Nat /\ j \in Nat /\ i = k /\ k + j <= o
      /\ Len(m) = o - j
      /\ \A n \in 1..k : m[n] = l[n]
      /\ \A n \in (k + 1)..(o - j) : m[n] = l[n + j]
  BY <1>2 DEF LineOK, LineDied
<1> DEFINE f(n) == IF n <= k THEN n ELSE n + j
<1>5. \A n \in 1..(o - j) : /\ f(n) \in 1..o /\ (n > k => f(n) > k) /\ (n <= k => f(n) = n)
  BY <1>4
<1>6. \A a, b \in 1..(o - j) : a < b => f(a) < f(b)
  BY <1>4
<1>7. \A n \in 1..(o - j) : h[n] = g[f(n)] /\ m[n] = l[f(n)]
  <2>1. \A n \in 1..(o - j) : h[n] = g[f(n)]  BY <1>4, <1>3
  <2>2. \A n \in 1..(o - j) : n \in 1..k \/ n \in (k + 1)..(o - j)  BY <1>4
  <2> QED  BY <1>4, <2>1, <2>2
<1> HIDE DEF f
<1>8. \A a, b \in 1..o : a > k /\ a < b => g[a] # g[b]
  BY <1>2 DEF Chained, HeldAt
<1>9. \A n \in 1..(o - j) : h[n] \in Asked(s, q)  BY <1>2, <1>5, <1>7 DEF Chained
\* A place before f(n) that belongs to the item of f(n) has stayed.
<1>10. ASSUME NEW n \in 1..(o - j), NEW p \in 1..o, p < f(n), g[p] = g[f(n)]
      PROVE  p \in 1..(o - j) /\ p < n /\ p <= k /\ f(p) = p
  <2>1. p <= k  BY <1>4, <1>5, <1>8, <1>10
  <2>2. p < n
    <3>1. CASE n <= k  BY <1>5, <1>10, <3>1
    <3>2. CASE n > k  BY <1>4, <2>1, <3>2
    <3> QED  BY <1>4, <3>1, <3>2
  <2>3. p \in 1..(o - j)  BY <1>4, <2>1
  <2> QED  BY <1>5, <2>1, <2>2, <2>3
<1>11. ASSUME NEW n \in 1..(o - j), Fresh(h, n) PROVE m[n].uri = s.entry[h[n]].uri
  <2>1. Fresh(g, f(n))
    <3> SUFFICES ASSUME NEW p \in 1..(f(n) - 1), g[p] = g[f(n)] PROVE FALSE  BY DEF Fresh
    <3>1. p \in 1..o /\ p < f(n)  BY <1>4, <1>5
    <3>2. p \in 1..(o - j) /\ p < n /\ f(p) = p  BY <1>10, <3>1
    <3>3. p \in 1..(n - 1)  BY <1>4, <3>2
    <3> QED  BY <1>7, <1>11, <3>2, <3>3 DEF Fresh
  <2>2. l[f(n)].uri = s.entry[g[f(n)]].uri  BY <1>2, <1>5, <2>1 DEF Chained
  <2> QED  BY <1>7, <2>2
<1>12. ASSUME NEW a \in 1..(o - j), NEW b \in 1..(o - j), a < b, h[a] = h[b] PROVE ~HeldAt(i, m, a)
  <2>1. /\ f(a) \in 1..o /\ f(b) \in 1..o /\ f(a) < f(b) /\ g[f(a)] = g[f(b)]
    BY <1>5, <1>6, <1>7, <1>12
  <2>2. ~HeldAt(k, l, f(a))  BY <1>2, <2>1 DEF Chained
  <2>3. a <= k  BY <1>4, <1>5, <2>2 DEF HeldAt
  <2> QED  BY <1>4, <1>7, <2>2, <2>3 DEF HeldAt
<1>13. ASSUME NEW a \in 1..(o - j), NEW b \in 1..(o - j), Follows(h, a, b) PROVE m[b].uri = After(m[a])
  <2>1. a < b /\ h[a] = h[b] /\ \A p \in (a + 1)..(b - 1) : h[p] # h[b]  BY <1>13 DEF Follows
  <2>2. /\ f(a) \in 1..o /\ f(b) \in 1..o /\ f(a) < f(b) /\ g[f(a)] = g[f(b)]
    BY <1>5, <1>6, <1>7, <2>1
  <2>3. \A p \in (f(a) + 1)..(f(b) - 1) : g[p] # g[f(b)]
    <3> SUFFICES ASSUME NEW p \in (f(a) + 1)..(f(b) - 1), g[p] = g[f(b)] PROVE FALSE  OBVIOUS
    <3>1. p \in 1..o /\ p < f(b) /\ f(a) < p  BY <1>4, <2>2
    <3>2. p \in 1..(o - j) /\ p < b /\ p <= k /\ f(p) = p  BY <1>10, <3>1
    <3>3. a < p
      <4>1. CASE a <= k  BY <1>5, <3>1, <4>1
      <4>2. CASE a > k  BY <1>4, <1>5, <3>1, <3>2, <4>2
      <4> QED  BY <1>4, <4>1, <4>2
    <3>4. p \in (a + 1)..(b - 1)  BY <1>4, <3>2, <3>3
    <3> QED  BY <1>7, <2>1, <3>2, <3>4
  <2>4. Follows(g, f(a), f(b))  BY <2>2, <2>3 DEF Follows
  <2>5. l[f(b)].uri = After(l[f(a)])  BY <1>2, <2>2, <2>4 DEF Chained
  <2> QED  BY <1>7, <2>5
<1>14. Chained(s, q, i, m, h)  BY <1>4, <1>9, <1>11, <1>12, <1>13 DEF Chained
<1>15. h = [n \in 1..Len(m) |-> h[n]]  BY <1>3
<1> QED  BY <1>14, <1>15, NamesAre

-----------------------------------------------------------------------------
(* The names on the lines of the queues.                                   *)

Chain(s, I, M, q) == Names(s, q, Len(I[q]), LineAt(s, I, M, q))
Chains(s, I, M) == \A q \in Queues : Chain(s, I, M, q)

\* Queue::FindItem takes the first of the matches.
LEMMA FindItemFirst ==
    ASSUME NEW s, Good(s), NEW q \in Queues, NEW u, Matches(s, q, u) # {}, NEW it, it = FindItem(s, q, u)
    PROVE  /\ it \in Matches(s, q, u) /\ it # None
           /\ \A o \in Matches(s, q, u) : s.entry[it].pos <= s.entry[o].pos
<1> DEFINE M == Matches(s, q, u)
           Ps == {s.entry[m].pos : m \in M}
           R == OpToRel(<, Nat)
<1>1. \A m \in M : m \in Items /\ s.entry[m].pos \in Nat
  BY DEF Matches, QItems, Queued, Good, Memory, Entry
<1>2. Ps \subseteq Nat /\ Ps # {}  BY <1>1
<1>3. PICK n \in Ps : \A o \in Ps : n <= o
  <2>1. IsWellFoundedOn(R, Nat)  BY NatLessThanWellFounded
  <2>2. \A a, b \in Nat : a < b => <<a, b>> \in R  BY DEF OpToRel
  <2> HIDE DEF Ps, R
  <2>3. PICK n \in Ps : \A o \in Ps : ~(<<o, n>> \in R)  BY <1>2, <2>1, WFMin
  <2>4. ASSUME NEW o \in Ps PROVE n <= o
    <3>1. n \in Nat /\ o \in Nat /\ ~(o < n)  BY <1>2, <2>2, <2>3, <2>4
    <3> QED  BY <3>1
  <2> QED  BY <2>4
<1>4. PICK m \in M : \A o \in M : s.entry[m].pos <= s.entry[o].pos  BY <1>3
<1>5. it \in M /\ \A o \in M : s.entry[it].pos <= s.entry[o].pos
  BY <1>4 DEF FindItem
<1>6. None \notin Items  BY ConstantsOK DEF ConstantsOK
<1> QED  BY <1>1, <1>5, <1>6

\* An item that the worker was asked for is a match for its URI, and only such
\* an item is one.
LEMMA AskedMatches ==
    ASSUME NEW s, Good(s), NEW q \in Queues, NEW u
    PROVE  Matches(s, q, u) = {x \in Asked(s, q) : s.entry[x].uri = u}
<1>1. ASSUME NEW x \in Matches(s, q, u) PROVE x \in Asked(s, q)
  <2>1. x \in Items /\ x \in QItems(s, q) /\ s.entry[x] # None /\ s.entry[x].worker = "current"
    BY DEF Matches, QItems, Queued
  <2>2. s.stat[x] = "Fetching"  BY <2>1 DEF Good, WorkerOK
  <2> QED  BY <2>1, <2>2 DEF Asked, Fetching
<1> QED  BY <1>1 DEF Asked, Fetching, Matches

\* The first message of a line finds an item, and that may be called the owner.
LEMMA HeadNamed ==
    ASSUME NEW s, Good(s), NEW I, NEW M, Typed(I, M), NEW q \in Queues,
           Chain(s, I, M, q), I[q] # << >>, NEW it, it = FindItem(s, q, Head(I[q]).uri)
    PROVE  /\ it \in Asked(s, q) /\ it # None /\ s.entry[it].uri = Head(I[q]).uri
           /\ \E h : /\ Chained(s, q, Len(I[q]), LineAt(s, I, M, q), h)
                     /\ h[1] = it
<1>1. PICK l : l = LineAt(s, I, M, q)  BY Zenon
<1>2. PICK k : k = Len(I[q])  BY Zenon
<1>3. PICK g : Chained(s, q, k, l, g)  BY <1>1, <1>2, Zenon DEF Chain, Names
<1>4. LineOK(l, k) /\ k # 0 /\ l[1] = Head(I[q])
  <2>1. s \in Memory  BY DEF Good
  <2>2. LineOK(l, k)  BY <1>1, <1>2, <2>1, LineIsOK
  <2>3. I[q] \in Seq(Message)  BY DEF Typed
  <2>4. k # 0  BY <1>2, <2>3, EmptySeq
  <2>5. Parted(l, I[q], M[q], s.out[q], k, Len(M[q]), Len(s.out[q]))  BY <1>1, <1>2, <2>1, LineParts
  <2>6. 1 \in 1..k  BY <2>2, <2>4 DEF LineOK
  <2>7. l[1] = I[q][1]  BY <2>5, <2>6 DEF Parted
  <2>8. Head(I[q]) = I[q][1]  BY <2>3, HeadTailProperties
  <2> QED  BY <2>2, <2>4, <2>7, <2>8
<1>5. 1 \in 1..Len(l)  BY <1>4 DEF LineOK
<1>6. Fresh(g, 1)
  <2>1. \A p \in 1..(1 - 1) : FALSE  OBVIOUS
  <2> QED  BY <2>1 DEF Fresh
<1>7. g[1] \in Asked(s, q) /\ s.entry[g[1]].uri = Head(I[q]).uri  BY <1>3, <1>4, <1>5, <1>6 DEF Chained
<1>8. /\ it \in Matches(s, q, Head(I[q]).uri) /\ it # None
  <2>1. Matches(s, q, Head(I[q]).uri) # {}  BY <1>7, AskedMatches
  <2> QED  BY <2>1, FindItemFirst
<1>9. it \in Asked(s, q) /\ s.entry[it].uri = Head(I[q]).uri  BY <1>8, AskedMatches
<1>10. PICK h : h = [n \in 1..Len(l) |-> IF g[n] = g[1] THEN it
                                         ELSE IF g[n] = it THEN g[1] ELSE g[n]]
  BY Zenon
<1>11. Chained(s, q, k, l, h)
  <2>1. LineOK(l, k) /\ s.entry[g[1]].uri = s.entry[it].uri  BY <1>4, <1>7, <1>9
  <2>2. g[1] \in Asked(s, q) /\ it \in Asked(s, q)  BY <1>7, <1>9
  <2> QED  BY <1>3, <1>10, <2>1, <2>2, ChainSwapped
<1>12. h[1] = it  BY <1>5, <1>10
<1> QED  BY <1>1, <1>2, <1>8, <1>9, <1>11, <1>12

-----------------------------------------------------------------------------
(* The handlers of the worker.                                             *)

\* Cycle's requests are for the items it picks, each once.
LEMMA RequestsDo ==
    ASSUME NEW s, Good(s), NEW q \in Queues, NEW r, r = Requests(s, q)
    PROVE  /\ r \in Seq(Request) /\ Len(r) \in Nat
           /\ \A n \in 1..Len(r) : /\ r[n].file \in Picks(s, q) /\ Rank(s, q, r[n].file) = n - 1
                                   /\ r[n].uri = s.entry[r[n].file].uri
           /\ s.worker[q] # "dead" => \A x \in Picks(s, q) : \E n \in 1..Len(r) : r[n].file = x
<1>1. r \in Seq(Request) /\ Len(r) \in Nat  BY RequestsType
<1>2. CASE s.worker[q] = "dead"
  <2>1. r = << >>  BY <1>2 DEF Requests
  <2>2. Len(r) = 0  BY <2>1
  <2> QED  BY <1>1, <1>2, <2>2
<1>3. CASE s.worker[q] # "dead"
  <2>1. PICK c : c = Cardinality(Picks(s, q))  OBVIOUS
  <2>2. /\ c \in Nat /\ \A x \in Picks(s, q) : Rank(s, q, x) < c
        /\ \A n \in 1..c : \E x \in Picks(s, q) : Rank(s, q, x) = n - 1
    BY <2>1, PicksRanked
  <2> DEFINE F(n) == CHOOSE x \in Picks(s, q) : Rank(s, q, x) = n - 1
  <2>3. r = [n \in 1..c |-> [uri |-> s.entry[F(n)].uri, file |-> F(n), begun |-> FALSE, hops |-> 0]]
    BY <1>3, <2>1 DEF Requests
  <2>4. \A n \in 1..c : F(n) \in Picks(s, q) /\ Rank(s, q, F(n)) = n - 1  BY <2>2
  <2> HIDE DEF F
  <2>5. Len(r) = c  BY <2>2, <2>3
  <2>6. \A n \in 1..c : r[n].file = F(n) /\ r[n].uri = s.entry[F(n)].uri  BY <2>3
  <2>7. \A x \in Picks(s, q) : \E n \in 1..c : r[n].file = x
    <3> SUFFICES ASSUME NEW x \in Picks(s, q) PROVE \E n \in 1..c : r[n].file = x  OBVIOUS
    <3>1. x \in Idle(s, q) /\ Rank(s, q, x) \in Nat  BY RankNat DEF Picks
    <3>2. PICK n : n = Rank(s, q, x) + 1  OBVIOUS
    <3>3. n \in 1..c /\ n - 1 = Rank(s, q, x)  BY <2>2, <3>1, <3>2
    <3>4. F(n) \in Idle(s, q) /\ Rank(s, q, F(n)) = Rank(s, q, x)  BY <2>4, <3>3 DEF Picks
    <3>5. F(n) = x  BY <3>1, <3>4, RankGrows
    <3> QED  BY <2>6, <3>3, <3>5
  <2> QED  BY <1>1, <2>4, <2>5, <2>6, <2>7
<1> QED  BY <1>2, <1>3

\* t has the line and the requests of s: the items that the workers of s were
\* asked for are asked for in t, with the same URIs.
Carried(s, t) ==
    \A q \in Queues : t.out[q] = s.out[q] /\ Stays(s, t, q)

LEMMA CarriedChains ==
    ASSUME NEW s, NEW t, Carried(s, t), NEW I, NEW M, Chains(s, I, M)
    PROVE  Chains(t, I, M)
<1> SUFFICES ASSUME NEW q \in Queues PROVE Chain(t, I, M, q)  BY DEF Chains
<1>1. LineAt(t, I, M, q) = LineAt(s, I, M, q)  BY DEF Carried, LineAt
<1> QED  BY <1>1, ChainKept DEF Carried, Chains, Chain

LEMMA SameCarried ==
    ASSUME NEW s, NEW t, Same(s, t)
    PROVE  Carried(s, t)
<1>1. \A q : Fetching(t, q) = Fetching(s, q)  BY SameSets
<1>2. t.entry = s.entry /\ t.out = s.out  BY DEF Same, Beside
<1> QED  BY <1>1, <1>2 DEF Carried, Stays, Asked

LEMMA StartCarried ==
    ASSUME NEW s, NEW fresh, NEW up, NEW r, Started(s, fresh, up, r)
    PROVE  Carried(s, r)
<1>1. \A q : Fetching(r, q) = Fetching(s, q)  BY StartSets
<1>2. \A q : Fetching(s, q) \subseteq Queued(s)  BY DEF Fetching, QItems
<1>3. r.out = s.out  BY DEF Started
<1>4. \A x \in Queued(s) : /\ r.entry[x].uri = s.entry[x].uri
                           /\ s.entry[x].worker = "current" => r.entry[x].worker = "current"
  BY DEF Started
<1> QED  BY <1>1, <1>2, <1>3, <1>4 DEF Carried, Stays, Asked

LEMMA EnteredCarried ==
    ASSUME NEW r, NEW it \in Items, r.entry[it] = None, NEW q, NEW u, NEW d, Entered(r, it, q, u, d)
    PROVE  Carried(r, d)
<1>1. \A p : Fetching(d, p) = Fetching(r, p)  BY EnteredSets
<1>2. \A p : \A x \in Fetching(r, p) : x \in Items /\ x # it  BY DEF Fetching, QItems, Queued
<1>3. d.out = r.out /\ \A x \in Items : x # it => d.entry[x] = r.entry[x]  BY DEF Entered, Beside
<1> QED  BY <1>1, <1>2, <1>3 DEF Carried, Stays, Asked

\* Queue::Cycle.
LEMMA CycleChains ==
    ASSUME NEW s, Good(s), NEW Qs \in SUBSET Queues, NEW c, c = Cycle(s, Qs),
           NEW I, NEW M, Typed(I, M), Chains(s, I, M)
    PROVE  Chains(c, I, M)
<1> SUFFICES ASSUME NEW q \in Queues PROVE Chain(c, I, M, q)  BY DEF Chains
<1>1. s \in Memory /\ Good(c) /\ c \in Memory /\ Cycled(s, Qs, c)
  BY CycleGood, CycleFields DEF Good
<1>2. PICK l : l = LineAt(s, I, M, q)  BY Zenon
<1>3. PICK m : m = LineAt(c, I, M, q)  BY Zenon
<1>4. PICK k : k = Len(I[q])  BY Zenon
<1>5. Names(s, q, k, l)  BY <1>2, <1>4 DEF Chains, Chain
<1>6. /\ \A x \in Items : c.entry[x] = IF x \in Picked(s, Qs) THEN [s.entry[x] EXCEPT !.worker = "current"]
                                       ELSE s.entry[x]
      /\ c.out[q] = IF q \in Qs THEN s.out[q] \o Requests(s, q) ELSE s.out[q]
  BY <1>1 DEF Cycled
<1>7. \A x \in Items : s.entry[x] # None => /\ c.entry[x].uri = s.entry[x].uri
                                            /\ x \in Picked(s, Qs) => c.entry[x].worker = "current"
                                            /\ s.entry[x].worker = "current" => c.entry[x].worker = "current"
  <2> SUFFICES ASSUME NEW x \in Items, s.entry[x] # None
               PROVE  /\ c.entry[x].uri = s.entry[x].uri
                      /\ x \in Picked(s, Qs) => c.entry[x].worker = "current"
                      /\ s.entry[x].worker = "current" => c.entry[x].worker = "current"
    OBVIOUS
  <2>1. s.entry[x] \in Entry  BY <1>1 DEF Memory
  <2>2. CASE x \in Picked(s, Qs)
    <3>1. c.entry[x] = [s.entry[x] EXCEPT !.worker = "current"]  BY <1>6, <2>2
    <3> QED  BY <2>1, <3>1, WithWorker
  <2>3. CASE x \notin Picked(s, Qs)  BY <1>6, <2>3
  <2> QED  BY <2>2, <2>3
<1>8. Fetching(c, q) = IF q \in Qs THEN Fetching(s, q) \cup Picks(s, q) ELSE Fetching(s, q)
  BY CycleSets
<1>9. Stays(s, c, q)  BY <1>7, <1>8 DEF Stays, Asked, Fetching, QItems, Queued
<1>10. CASE q \notin Qs
  <2>1. m = l  BY <1>2, <1>3, <1>6, <1>10 DEF LineAt
  <2>2. Names(c, q, k, l)  BY <1>5, <1>9, ChainKept
  <2> QED  BY <1>3, <1>4, <2>1, <2>2 DEF Chain
<1>11. CASE q \in Qs
  <2>1. PICK r : r = Requests(s, q)  BY Zenon
  <2>2. /\ r \in Seq(Request) /\ Len(r) \in Nat
        /\ \A n \in 1..Len(r) : /\ r[n].file \in Picks(s, q) /\ Rank(s, q, r[n].file) = n - 1
                                /\ r[n].uri = s.entry[r[n].file].uri
    BY <2>1, RequestsDo
  <2>3. LineLonger(l, m, r)
    <3>1. c.out[q] = s.out[q] \o r  BY <1>6, <1>11, <2>1
    <3> QED  BY <1>1, <1>2, <1>3, <2>2, <3>1, LongerLine
  <2>4. LineOK(l, k)  BY <1>1, <1>2, <1>4, LineIsOK
  <2>5. \A x \in Picks(s, q) : x \in Asked(c, q) \ Asked(s, q) /\ c.entry[x].uri = s.entry[x].uri
    <3>1. \A x \in Picks(s, q) : /\ x \in Items /\ s.entry[x] # None /\ x \in Fetching(c, q)
                                 /\ x \in Picked(s, Qs) /\ s.stat[x] = "Idle"
      BY <1>8, <1>11 DEF Picks, Picked, Idle, QItems, Queued
    <3> QED  BY <1>7, <3>1 DEF Asked, Fetching
  <2>6. \A n \in 1..Len(r) : /\ r[n].file \in Asked(c, q) \ Asked(s, q)
                             /\ r[n].uri = c.entry[r[n].file].uri
    BY <2>2, <2>5
  <2>7. \A a, b \in 1..Len(r) : r[a].file = r[b].file => a = b
    <3> SUFFICES ASSUME NEW a \in 1..Len(r), NEW b \in 1..Len(r), r[a].file = r[b].file PROVE a = b
      OBVIOUS
    <3>1. a - 1 = b - 1  BY <2>2
    <3> QED  BY <2>2, <3>1
  <2>8. Names(c, q, k, m)
    <3>1. Orders(s, c, q, r)  BY <2>6, <2>7 DEF Orders
    <3> QED  BY <1>5, <1>9, <2>3, <2>4, <3>1, ChainLonger
  <2> QED  BY <1>3, <1>4, <2>8 DEF Chain
<1> QED  BY <1>10, <1>11

\* pkgAcquire::Enqueue.
LEMMA AcceptedChains ==
    ASSUME NEW s, Good(s), NEW it \in Items, NEW q \in Queues, NEW u, NEW up, NEW c,
           Accepted(s, it, q, u, up, c),
           NEW I, NEW M, Typed(I, M), Chains(s, I, M)
    PROVE  Chains(c, I, M)
<1>1. PICK r, d : /\ Good(r) /\ Opened(s, q, up, r) /\ r.entry[it] = None
                  /\ Good(d) /\ Entered(r, it, q, u, d)
                  /\ IF QItems(r, q) = {} THEN c = Cycle(d, {q}) ELSE c = d
  BY DEF Accepted
<1>2. PICK w : /\ Good(w) /\ Named(s, q, w)
               /\ IF q \notin s.created /\ s.running THEN r = StartWorkers(w, {q}, up, {})
                                                     ELSE r = w
  BY <1>1 DEF Opened
<1>3. Chains(w, I, M)
  <2>1. w.entry = s.entry /\ w.stat = s.stat /\ w.out = s.out  BY <1>2 DEF Named, Beside
  <2>2. Carried(s, w)  BY <2>1 DEF Carried, Stays, Asked, Fetching, QItems, Queued
  <2> QED  BY <2>2, CarriedChains
<1>4. Chains(r, I, M)
  <2>1. CASE q \notin s.created /\ s.running
    <3>1. w \in Memory  BY <1>2 DEF Good
    <3>2. Started(w, {q}, up, r)  BY <1>2, <2>1, <3>1, StartDoes
    <3> QED  BY <1>3, <3>2, StartCarried, CarriedChains
  <2>2. CASE ~(q \notin s.created /\ s.running)
    <3>1. r = w  BY <1>2, <2>2
    <3> QED  BY <1>3, <3>1
  <2> QED  BY <2>1, <2>2
<1>5. Chains(d, I, M)
  <2>1. Carried(r, d)  BY <1>1, EnteredCarried
  <2> QED  BY <1>4, <2>1, CarriedChains
<1>6. CASE QItems(r, q) = {}
  <2>1. c = Cycle(d, {q}) /\ {q} \in SUBSET Queues  BY <1>1, <1>6
  <2> QED  BY <1>1, <1>5, <2>1, CycleChains
<1>7. CASE QItems(r, q) # {}
  <2>1. c = d  BY <1>1, <1>7
  <2> QED  BY <1>5, <2>1
<1> QED  BY <1>6, <1>7

\* t is s with the URI that the message m leaves for its item, or without the
\* item when m was its answer.
Heard(s, t, it, m) ==
    /\ t.out = s.out
    /\ \A p \in Queues : Asked(s, p) \ {it} \subseteq Asked(t, p)
    /\ ~Final(m) => it \in Asked(t, s.entry[it].queue) /\ t.entry[it].uri = After(m)
    /\ \A x \in Items : x # it => t.entry[x].uri = s.entry[x].uri

\* J is I after the first message of the queue q.
Heads(I, J, q) == J[q] = Tail(I[q]) /\ \A p \in Queues \ {q} : J[p] = I[p]

\* The worker takes a message of the queue q.
LEMMA MessageChains ==
    ASSUME NEW s, Good(s), NEW I, NEW M, Typed(I, M), NEW q \in Queues,
           Chains(s, I, M), I[q] # << >>, NEW it, it = FindItem(s, q, Head(I[q]).uri),
           NEW t \in Memory, Heard(s, t, it, Head(I[q])), NEW J, Typed(J, M), Heads(I, J, q)
    PROVE  Chains(t, J, M)
<1>1. s \in Memory  BY DEF Good
<1>2. J[q] = Tail(I[q]) /\ \A p \in Queues \ {q} : J[p] = I[p]
  BY DEF Heads
<1>3. Chain(s, I, M, q)  BY DEF Chains
<1>4. PICK l : l = LineAt(s, I, M, q)  BY Zenon
<1>5. PICK k : k = Len(I[q])  BY Zenon
<1>6. it \in Asked(s, q) /\ \E h : Chained(s, q, k, l, h) /\ h[1] = it
  BY <1>3, <1>4, <1>5, HeadNamed
<1>7. PICK h : Chained(s, q, k, l, h) /\ h[1] = it  BY <1>6
<1>8. ASSUME NEW p \in Queues, p # q PROVE Chain(t, J, M, p)
  <2>1. it \notin Asked(s, p)  BY <1>6, <1>8 DEF Asked, Fetching, QItems
  <2>2. \A x \in Asked(s, p) : x \in Items  BY DEF Asked, Fetching, QItems, Queued
  <2>3. Stays(s, t, p)
    <3>1. \A x \in Asked(s, p) : x \in Asked(t, p) /\ t.entry[x].uri = s.entry[x].uri
      BY <2>1, <2>2 DEF Heard
    <3> QED  BY <3>1 DEF Stays
  <2>4. LineAt(t, J, M, p) = LineAt(s, I, M, p) /\ J[p] = I[p]  BY <1>2, <1>8 DEF LineAt, Heard
  <2>5. Chain(s, I, M, p)  BY DEF Chains
  <2> QED  BY <2>3, <2>4, <2>5, ChainKept DEF Chain
<1>9. Chain(t, J, M, q)
  <2>1. PICK m : m = LineAt(t, J, M, q)  BY Zenon
  <2>2. m = LineAt(s, J, M, q)  BY <2>1 DEF LineAt, Heard
  <2>3. LineTaken(l, k, m, Len(J[q])) /\ l[1] = Head(I[q])
    <3>1. LineTaken(LineAt(s, I, M, q), Len(I[q]), LineAt(s, J, M, q), Len(J[q]))
      BY <1>1, <1>2, TakenLine
    <3>2. LineAt(s, I, M, q)[1] = Head(I[q])
      BY <1>1, <1>2, TakenLine
    <3> QED  BY <1>4, <1>5, <2>2, <3>1, <3>2, Zenon
  <2>4. LineOK(l, k)  BY <1>1, <1>4, <1>5, LineIsOK
  <2>5. ASSUME NEW n \in 2..Len(l)
        PROVE  /\ h[n] \in Asked(t, q)
               /\ t.entry[h[n]].uri = IF h[n] = h[1] THEN After(l[1]) ELSE s.entry[h[n]].uri
    <3>1. /\ n \in 1..Len(l) /\ 1 \in 1..Len(l) /\ 1 < n /\ k # 0 /\ k \in Nat
      BY <2>3, <2>4 DEF LineOK, LineTaken
    <3>2. h[n] \in Asked(s, q) /\ h[n] \in Items
      BY <1>7, <3>1 DEF Chained, Asked, Fetching, QItems, Queued
    <3>3. CASE h[n] = it
      <4>1. ~HeldAt(k, l, 1)  BY <1>7, <3>1, <3>3 DEF Chained
      <4>2. ~Final(Head(I[q]))  BY <2>3, <4>1 DEF HeldAt
      <4>3. s.entry[it].queue = q  BY <1>6 DEF Asked, Fetching, QItems
      <4> QED  BY <1>7, <2>3, <3>3, <4>2, <4>3 DEF Heard
    <3>4. CASE h[n] # it
      <4>1. h[n] \in Asked(t, q) /\ t.entry[h[n]].uri = s.entry[h[n]].uri
        BY <3>2, <3>4 DEF Heard
      <4> QED  BY <1>7, <3>4, <4>1
    <3> QED  BY <3>3, <3>4
  <2>6. Names(t, q, Len(J[q]), m)  BY <1>7, <2>3, <2>4, <2>5, ChainTaken
  <2> QED  BY <2>1, <2>6 DEF Chain
<1> QED  BY <1>8, <1>9 DEF Chains

\* 201 and 400.
LEMMA AnsweredChains ==
    ASSUME NEW s, Good(s), NEW I, NEW M, Typed(I, M), NEW q \in Queues,
           Chains(s, I, M), I[q] # << >>, Final(Head(I[q])),
           NEW it \in Fetching(s, q), it = FindItem(s, q, Head(I[q]).uri),
           NEW t, Answered(s, q, it, t), NEW J, J = [I EXCEPT ![q] = Tail(@)]
    PROVE  Chains(t, J, M)
<1>1. PICK c, b : Finished(s, q, it, c) /\ Good(c) /\ Same(c, b) /\ Good(b) /\ Owned(b, it, t)
  BY DEF Answered
<1>2. PICK d : Good(d) /\ Left(s, q, it, d) /\ c = Cycle(d, {q})
  BY <1>1 DEF Finished
<1>3. /\ it \in Items /\ Typed(J, M)
      /\ Heads(I, J, q)
  <2>1. it \in Items  BY DEF Fetching, QItems, Queued
  <2>2. I[q] \in Seq(Message)  BY DEF Typed
  <2> QED  BY <2>1, <2>2 DEF Typed, Heads
<1>4. Chains(d, J, M)
  <2>1. \A p : Fetching(d, p) = Fetching(s, p) \ {it}  BY <1>2, LeftSets
  <2>2. \A x \in Items : x # it => d.entry[x] = s.entry[x]  BY <1>2 DEF Left
  <2>3. \A p \in Queues : Asked(s, p) \ {it} \subseteq Asked(d, p)
    <3> SUFFICES ASSUME NEW p \in Queues, NEW x \in Asked(s, p), x # it PROVE x \in Asked(d, p)
      OBVIOUS
    <3>1. x \in Fetching(s, p) /\ s.entry[x].worker = "current" /\ x \in Items
      BY DEF Asked, Fetching, QItems, Queued
    <3>2. x \in Fetching(d, p) /\ d.entry[x] = s.entry[x]  BY <2>1, <2>2, <3>1
    <3> QED  BY <3>1, <3>2 DEF Asked
  <2>4. d.out = s.out /\ d \in Memory  BY <1>2 DEF Left, Beside, Good
  <2>5. \A x \in Items : x # it => d.entry[x].uri = s.entry[x].uri  BY <2>2
  <2>6. Heard(s, d, it, Head(I[q]))  BY <2>3, <2>4, <2>5 DEF Heard
  <2> QED  BY <1>3, <2>4, <2>6, MessageChains
<1>5. Chains(c, J, M)  BY <1>2, <1>3, <1>4, CycleChains
<1>6. Chains(b, J, M)  BY <1>1, <1>5, SameCarried, CarriedChains
<1>7. CASE Same(b, t)  BY <1>6, <1>7, SameCarried, CarriedChains
<1>8. CASE \E u, up, f : u \in URIs /\ Accepted(b, it, QueueOf[u], u, up, f) /\ Good(f) /\ Same(f, t)
  <2>1. PICK u, up, f : u \in URIs /\ Accepted(b, it, QueueOf[u], u, up, f) /\ Good(f) /\ Same(f, t)
    BY <1>8
  <2>2. QueueOf[u] \in Queues  BY <2>1, ConstantsOK DEF ConstantsOK
  <2>3. Chains(f, J, M)  BY <1>1, <1>3, <1>6, <2>1, <2>2, AcceptedChains
  <2> QED  BY <2>1, <2>3, SameCarried, CarriedChains
<1> QED  BY <1>1, <1>7, <1>8 DEF Owned

-----------------------------------------------------------------------------
(* The invariant and its steps.                                            *)

NameInv == Chains(st, inp, meth)

\* A queue that a step leaves alone.
LEMMA AsideChain ==
    ASSUME NEW s, NEW I, NEW M, Chains(s, I, M), NEW p \in Queues,
           NEW t, NEW J, NEW N, J[p] = I[p], N[p] = M[p], t.out[p] = s.out[p], Stays(s, t, p)
    PROVE  Chain(t, J, N, p)
<1>1. LineAt(t, J, N, p) = LineAt(s, I, M, p)  BY DEF LineAt
<1>2. Names(s, p, Len(I[p]), LineAt(s, I, M, p))  BY DEF Chains, Chain
<1>3. Names(t, p, Len(I[p]), LineAt(s, I, M, p))  BY <1>2, ChainKept
<1> QED  BY <1>1, <1>3 DEF Chain

\* What is on the lists stays there.
LEMMA StaysSame ==
    ASSUME NEW s, NEW t, t.entry = s.entry, t.stat = s.stat, NEW q
    PROVE  Stays(s, t, q)
BY DEF Stays, Asked, Fetching, QItems, Queued

\* An empty line has names.
LEMMA EmptyChain ==
    ASSUME NEW t, NEW J, NEW N, NEW q, J[q] = << >>, N[q] = << >>, t.out[q] = << >>
    PROVE  Chain(t, J, N, q)
<1>1. PICK l : l = LineAt(t, J, N, q)  BY Zenon
<1>2. l = << >>
  <2>1. << >> \o (<< >> \o << >>) = << >>  OBVIOUS
  <2> QED  BY <1>1, <2>1 DEF LineAt
<1>3. 1..Len(l) = {}  BY <1>2
<1>4. PICK g : g = [n \in 1..Len(l) |-> n]  BY Zenon
<1>5. Chained(t, q, Len(J[q]), l, g)  BY <1>3 DEF Chained
<1>6. g = [n \in 1..Len(l) |-> g[n]]  BY <1>4
<1> QED  BY <1>1, <1>5, <1>6, NamesAre DEF Chain

\* 201 and 400 find the item that was asked for, or one with its URI.
LEMMA AnswerNames ==
    ASSUME Inv, FlowInv, NameInv, NEW q \in Queues, NEW kind \in {"done", "fail"},
           NEW finals \in SUBSET {"Done", "Error", "Idle"}, Answer(q, kind, finals)
    PROVE  NameInv'
<1>1. PICK it : it = FindItem(st, q, Head(inp[q]).uri)  BY Zenon
<1>2. \/ it = None /\ Same(st, st') /\ st'.err = TRUE
      \/ it \in Fetching(st, q) /\ Answered(st, q, it, st')
  BY <1>1, AnswerDoes
<1>3. /\ Good(st) /\ Typed(inp, meth) /\ inp[q] # << >> /\ Final(Head(inp[q]))
      /\ inp' = [inp EXCEPT ![q] = Tail(@)] /\ meth' = meth
  BY FlowFacts DEF Answer, Take, Final
<1>4. it # None
  <2>1. Chain(st, inp, meth, q)  BY DEF NameInv, Chains
  <2> QED  BY <1>1, <1>3, <2>1, HeadNamed
<1>5. it \in Fetching(st, q) /\ Answered(st, q, it, st')  BY <1>2, <1>4
<1>6. Chains(st', inp', meth)  BY <1>1, <1>3, <1>5, AnsweredChains DEF NameInv
<1> QED  BY <1>3, <1>6 DEF NameInv

\* 200 and 103 leave their item the URI of its next message.
LEMMA NewsNames ==
    ASSUME Inv, Inv', FlowInv, NameInv, NEW q \in Queues, URIStart(q) \/ Redirect(q)
    PROVE  NameInv'
<1>1. PICK it : it = FindItem(st, q, Head(inp[q]).uri)  BY Zenon
<1>2. PICK m : m = Head(inp[q])  BY Zenon
<1>3. /\ st \in Memory /\ Good(st) /\ Typed(inp, meth) /\ inp[q] # << >>
      /\ inp' = [inp EXCEPT ![q] = Tail(@)] /\ meth' = meth
  BY FlowFacts DEF URIStart, Redirect, Take
<1>4. Chain(st, inp, meth, q)  BY DEF NameInv, Chains
<1>5. /\ it \in Asked(st, q) /\ it # None /\ st.entry[it].uri = m.uri
  BY <1>1, <1>2, <1>3, <1>4, HeadNamed
<1>6. Steady(st, st') /\ st'.out = st.out  BY NewsDoes
<1>7. st'.entry = IF m.kind = "redirect" THEN [st.entry EXCEPT ![it] = [@ EXCEPT !.uri = m.to]] ELSE st.entry
  <2>1. CASE URIStart(q)
    <3>1. m.kind = "start" /\ st' = [st EXCEPT !.current[q] = it, !.stat[it] = "Fetching"]
      BY <1>1, <1>2, <1>5, <2>1 DEF URIStart
    <3> QED  BY <1>3, <3>1 DEF Memory
  <2>2. CASE Redirect(q)
    <3>1. m.kind = "redirect" /\ st' = [st EXCEPT !.entry[it].uri = m.to]
      BY <1>1, <1>2, <1>5, <2>2 DEF Redirect
    <3> QED  BY <1>3, <3>1 DEF Memory
  <2> QED  BY <2>1, <2>2
<1>8. it \in Items /\ st.entry[it] \in Entry
  BY <1>3, <1>5 DEF Asked, Fetching, QItems, Queued, Memory
<1>9. \A x \in Items : /\ st'.entry[x].worker = st.entry[x].worker
                       /\ st'.entry[x].uri = IF x = it THEN After(m) ELSE st.entry[x].uri
  <2> SUFFICES ASSUME NEW x \in Items
               PROVE  /\ st'.entry[x].worker = st.entry[x].worker
                      /\ st'.entry[x].uri = IF x = it THEN After(m) ELSE st.entry[x].uri
    OBVIOUS
  <2>1. CASE m.kind = "redirect" /\ x = it
    <3> DEFINE e == [st.entry[it] EXCEPT !.uri = m.to]
    <3>1. st'.entry = [st.entry EXCEPT ![it] = e]  BY <1>7, <2>1
    <3>2. e.worker = st.entry[it].worker /\ e.uri = m.to  BY <1>8 DEF Entry
    <3> HIDE DEF e
    <3>3. st'.entry[x] = e  BY <1>3, <1>8, <2>1, <3>1 DEF Memory
    <3> QED  BY <2>1, <3>2, <3>3 DEF After
  <2>2. CASE ~(m.kind = "redirect" /\ x = it)
    <3>1. st'.entry[x] = st.entry[x]  BY <1>3, <1>7, <2>2 DEF Memory
    <3> QED  BY <1>5, <2>2, <3>1 DEF After
  <2> QED  BY <2>1, <2>2
<1>10. \A p \in Queues : Asked(st', p) = Asked(st, p)
  <2>1. \A p \in Queues : Fetching(st', p) = Fetching(st, p)  BY <1>6 DEF Steady
  <2>2. \A p \in Queues : \A x \in Fetching(st, p) : x \in Items  BY DEF Fetching, QItems, Queued
  <2> QED  BY <1>9, <2>1, <2>2 DEF Asked
<1>11. Heard(st, st', it, m)
  <2>1. st.entry[it].queue = q  BY <1>5 DEF Asked, Fetching, QItems
  <2> QED  BY <1>5, <1>6, <1>8, <1>9, <1>10, <2>1 DEF Heard
<1>12. Heads(inp, inp', q) /\ Typed(inp', meth) /\ st' \in Memory
  <2>1. st' \in Memory /\ Typed(inp', meth')  BY DEF Inv, TypeOK, Typed
  <2> QED  BY <1>3, <2>1 DEF Heads, Typed
<1>13. Chains(st', inp', meth)  BY <1>1, <1>2, <1>3, <1>11, <1>12, MessageChains DEF NameInv
<1> QED  BY <1>3, <1>13 DEF NameInv

\* The worker learns that its method died, and forgets what was on the line.
LEMMA FailureNames ==
    ASSUME Inv, FlowInv, NameInv, NEW q \in Queues, MethodFailure(q)
    PROVE  NameInv'
<1>1. /\ st \in Memory /\ Typed(inp, meth)
      /\ meth' = meth /\ inp' = [inp EXCEPT ![q] = << >>]
      /\ st.worker[q] = "live" /\ q \notin alive
      /\ Flows(st, inp, meth, Lost, Calm, {})
  BY FlowFacts DEF MethodFailure, FlowInv
<1>2. /\ st'.out = [st.out EXCEPT ![q] = << >>] /\ st'.stat = st.stat /\ st'.entry = st.entry
  BY <1>1 DEF MethodFailure, Memory
<1>3. \A p \in Queues : /\ st'.out[p] = IF p = q THEN << >> ELSE st.out[p]
                        /\ inp'[p] = IF p = q THEN << >> ELSE inp[p]
  BY <1>1, <1>2 DEF Memory, Typed
<1>4. meth'[q] = << >>
  <2>1. q \in Lost  BY <1>1 DEF Lost, Live
  <2> QED  BY <1>1, <2>1 DEF Flows, Flow, Wired
<1>5. Chain(st', inp', meth', q)  BY <1>3, <1>4, EmptyChain
<1>6. ASSUME NEW p \in Queues, p # q PROVE Chain(st', inp', meth', p)
  <2>1. inp'[p] = inp[p] /\ meth'[p] = meth[p] /\ st'.out[p] = st.out[p]  BY <1>1, <1>3, <1>6
  <2>2. Stays(st, st', p)  BY <1>2, StaysSame
  <2> QED  BY <2>1, <2>2, AsideChain DEF NameInv
<1> QED  BY <1>5, <1>6 DEF NameInv, Chains

\* A queue that only its line changes.
LEMMA LineNames ==
    ASSUME Inv, NameInv, NEW q \in Queues, st'.entry = st.entry, st'.stat = st.stat,
           Aside(st, inp, meth, st', inp', meth', q), Chain(st', inp', meth', q)
    PROVE  NameInv'
<1>1. ASSUME NEW p \in Queues, p # q PROVE Chain(st', inp', meth', p)
  <2>1. inp'[p] = inp[p] /\ meth'[p] = meth[p] /\ st'.out[p] = st.out[p]
    BY <1>1 DEF Aside
  <2>2. Stays(st, st', p)  BY StaysSame
  <2> QED  BY <2>1, <2>2, AsideChain DEF NameInv
<1> QED  BY <1>1 DEF NameInv, Chains

\* The method takes a request from the pipe.
LEMMA ReadNames ==
    ASSUME Inv, Inv', FlowInv, NameInv, NEW q \in Queues, MethodRead(q)
    PROVE  NameInv'
<1>1. /\ st \in Memory /\ st' \in Memory /\ Typed(inp, meth) /\ Typed(inp', meth')
  BY FlowFacts DEF Inv, TypeOK, Typed
<1>2. /\ st.out[q] # << >> /\ meth' = [meth EXCEPT ![q] = Append(@, Head(st.out[q]))]
      /\ st' = [st EXCEPT !.out[q] = Tail(@)] /\ inp' = inp
  BY DEF MethodRead
<1>3. /\ st'.out = [st.out EXCEPT ![q] = Tail(@)] /\ st'.stat = st.stat /\ st'.entry = st.entry
  BY <1>1, <1>2 DEF Memory
<1>4. Aside(st, inp, meth, st', inp', meth', q)
  BY <1>1, <1>2, <1>3 DEF Aside, Typed, Memory
<1>5. st'.out[q] = Tail(st.out[q]) /\ meth'[q] = Append(meth[q], Head(st.out[q]))
  BY <1>1, <1>2, <1>3 DEF Typed, Memory
<1>6. LineAt(st', inp, meth', q) = LineAt(st, inp, meth, q)
  <2>1. Typed(inp, meth')  BY <1>1, <1>2
  <2>2. st.out[q] # << >>  BY <1>2
  <2> QED  BY <1>1, <1>5, <2>1, <2>2, ReadLine
<1>7. Names(st, q, Len(inp[q]), LineAt(st, inp, meth, q))  BY DEF NameInv, Chains, Chain
<1>8. Names(st', q, Len(inp[q]), LineAt(st, inp, meth, q))
  BY <1>3, <1>7, StaysSame, ChainKept
<1>9. Chain(st', inp', meth', q)  BY <1>2, <1>6, <1>8 DEF Chain
<1> QED  BY <1>3, <1>4, <1>9, LineNames


\* A message of the method is about its first request.
LEMMA SayDoes ==
    ASSUME Inv, NEW q \in Queues, meth[q] # << >>, NEW to \in URIs,
           NEW kind \in {"start", "done", "fail", "redirect"}, Say(q, kind, to)
    PROVE  \E x \in Message :
             /\ inp'[q] = Append(inp[q], x) /\ \A p \in Queues \ {q} : inp'[p] = inp[p]
             /\ x.kind = kind /\ x.to = to
             /\ x.uri = Head(meth[q]).uri /\ x.file = Head(meth[q]).file
             /\ Head(meth[q]) \in Request
<1>1. Typed(inp, meth)  BY DEF Inv, TypeOK, Typed
<1>2. Head(meth[q]) \in Request  BY <1>1 DEF Typed
<1> DEFINE x == [kind |-> kind, uri |-> Head(meth[q]).uri, file |-> Head(meth[q]).file, to |-> to]
<1>3. x \in Message /\ x.kind = kind /\ x.to = to
      /\ x.uri = Head(meth[q]).uri /\ x.file = Head(meth[q]).file
  BY <1>2 DEF Request, Message
<1>4. inp' = [inp EXCEPT ![q] = Append(@, x)]  BY DEF Say
<1> HIDE DEF x
<1>5. inp'[q] = Append(inp[q], x) /\ \A p \in Queues \ {q} : inp'[p] = inp[p]
  BY <1>1, <1>4 DEF Typed
<1> QED  BY <1>2, <1>3, <1>5

\* A step of a queue's line that leaves its items their names.
LEMMA MovedNames ==
    ASSUME Inv, Inv', FlowInv, NameInv, NEW q \in Queues, st' = st,
           Aside(st, inp, meth, st', inp', meth', q),
           ASSUME NEW l, l = LineAt(st, inp, meth, q), NEW k, k = Len(inp[q]),
                  LineOK(l, k), Names(st, q, k, l)
           PROVE  Names(st, q, Len(inp'[q]), LineAt(st, inp', meth', q))
    PROVE  NameInv'
<1>1. st \in Memory /\ Typed(inp, meth)  BY FlowFacts
<1>2. LineOK(LineAt(st, inp, meth, q), Len(inp[q]))  BY <1>1, LineIsOK
<1>3. Names(st, q, Len(inp[q]), LineAt(st, inp, meth, q))  BY DEF NameInv, Chains, Chain
<1>4. Names(st, q, Len(inp'[q]), LineAt(st, inp', meth', q))  BY <1>2, <1>3
<1>5. Chain(st', inp', meth', q)  BY <1>4 DEF Chain
<1> QED  BY <1>5, LineNames

\* pkgAcqMethod::URIStart.
LEMMA StartNames ==
    ASSUME Inv, Inv', FlowInv, NameInv, NEW q \in Queues, MethodStart(q)
    PROVE  NameInv'
<1>1. /\ st \in Memory /\ Typed(inp, meth) /\ Typed(inp', meth') /\ st' = st /\ meth[q] # << >>
  BY FlowFacts DEF Inv, TypeOK, Typed, MethodStart
<1>2. Head(meth[q]) \in Request /\ Head(meth[q]) = meth[q][1]  BY <1>1 DEF Typed
<1>3. Head(meth[q]).uri \in URIs  BY <1>2 DEF Request
<1>4. PICK x \in Message :
        /\ inp'[q] = Append(inp[q], x) /\ \A p \in Queues \ {q} : inp'[p] = inp[p]
        /\ x.kind = "start" /\ x.uri = Head(meth[q]).uri /\ x.file = Head(meth[q]).file
  <2>1. Say(q, "start", Head(meth[q]).uri)  BY DEF MethodStart
  <2> QED  BY <1>1, <1>3, <2>1, SayDoes
<1> DEFINE r == [meth[q][1] EXCEPT !.begun = TRUE]
<1>5. r \in Request /\ r.uri = x.uri /\ r.file = x.file  BY <1>2, <1>4 DEF Request
<1>6. meth' = [meth EXCEPT ![q] = [meth[q] EXCEPT ![1] = r]]  BY DEF MethodStart
<1> HIDE DEF r
<1>7. meth'[q] = [meth[q] EXCEPT ![1] = r] /\ \A p \in Queues \ {q} : meth'[p] = meth[p]
  BY <1>1, <1>6 DEF Typed
<1>8. Aside(st, inp, meth, st', inp', meth', q)  BY <1>1, <1>4, <1>7 DEF Aside
<1>9. LineBegun(LineAt(st, inp, meth, q), Len(inp[q]), LineAt(st, inp', meth', q), Len(inp'[q]))
  BY <1>1, <1>4, <1>5, <1>7, BegunLine
<1>10. ASSUME NEW l, l = LineAt(st, inp, meth, q), NEW k, k = Len(inp[q]),
              LineOK(l, k), Names(st, q, k, l)
       PROVE  Names(st, q, Len(inp'[q]), LineAt(st, inp', meth', q))
  <2>1. PICK m, i : m = LineAt(st, inp', meth', q) /\ i = Len(inp'[q])  OBVIOUS
  <2>2. LineBegun(l, k, m, i)  BY <1>9, <1>10, <2>1
  <2>3. LineMoved(l, k, 1, m, i, l[k + 1].uri)
    <3>1. k \in Nat /\ Len(l) \in Nat  BY <1>10 DEF LineOK
    <3> QED  BY <2>2, <3>1 DEF LineBegun, LineMoved, Final, After
  <2>4. Names(st, q, i, m)  BY <1>10, <2>3, ChainMoved
  <2> QED  BY <2>1, <2>4
<1> QED  BY <1>1, <1>8, <1>10, MovedNames

\* pkgAcqMethod::URIDone and Fail.
LEMMA ReplyNames ==
    ASSUME Inv, Inv', FlowInv, NameInv, NEW q \in Queues, MethodAnswer(q)
    PROVE  NameInv'
<1>1. /\ st \in Memory /\ Typed(inp, meth) /\ Typed(inp', meth') /\ st' = st /\ meth[q] # << >>
  BY FlowFacts DEF Inv, TypeOK, Typed, MethodAnswer
<1>2. Head(meth[q]) \in Request  BY <1>1 DEF Typed
<1>3. Head(meth[q]).uri \in URIs  BY <1>2 DEF Request
<1>4. PICK kind \in {"done", "fail"} : Say(q, kind, Head(meth[q]).uri)  BY DEF MethodAnswer
<1>5. PICK x \in Message :
        /\ inp'[q] = Append(inp[q], x) /\ \A p \in Queues \ {q} : inp'[p] = inp[p]
        /\ x.kind = kind /\ x.uri = Head(meth[q]).uri /\ x.file = Head(meth[q]).file
  BY <1>1, <1>3, <1>4, SayDoes
<1>6. Final(x)  BY <1>5 DEF Final
<1>7. meth'[q] = Tail(meth[q]) /\ \A p \in Queues \ {q} : meth'[p] = meth[p]
  BY <1>1 DEF MethodAnswer, Typed
<1>8. Aside(st, inp, meth, st', inp', meth', q)  BY <1>1, <1>5, <1>7 DEF Aside
<1>9. LineAnswered(LineAt(st, inp, meth, q), Len(inp[q]), LineAt(st, inp', meth', q), Len(inp'[q]))
  BY <1>1, <1>5, <1>6, <1>7, AnsweredLine
<1>10. ASSUME NEW l, l = LineAt(st, inp, meth, q), NEW k, k = Len(inp[q]),
              LineOK(l, k), Names(st, q, k, l)
       PROVE  Names(st, q, Len(inp'[q]), LineAt(st, inp', meth', q))
  BY <1>9, <1>10, ChainAnswered
<1> QED  BY <1>1, <1>8, <1>10, MovedNames

\* pkgAcqMethod::Redirect.
LEMMA RedirectNames ==
    ASSUME Inv, Inv', FlowInv, NameInv, NEW q \in Queues, MethodRedirect(q)
    PROVE  NameInv'
<1>1. /\ st \in Memory /\ Typed(inp, meth) /\ Typed(inp', meth') /\ st' = st /\ meth[q] # << >>
  BY FlowFacts DEF Inv, TypeOK, Typed, MethodRedirect
<1>2. Head(meth[q]) \in Request  BY <1>1 DEF Typed
<1>3. PICK u \in URIs :
        /\ Say(q, "redirect", u)
        /\ meth' = [meth EXCEPT ![q] =
                      Append(Tail(@), [uri |-> u, file |-> Head(@).file,
                                       begun |-> Head(@).begun, hops |-> Head(@).hops + 1])]
  BY DEF MethodRedirect
<1>4. PICK x \in Message :
        /\ inp'[q] = Append(inp[q], x) /\ \A p \in Queues \ {q} : inp'[p] = inp[p]
        /\ x.kind = "redirect" /\ x.to = u /\ x.uri = Head(meth[q]).uri
  BY <1>1, <1>3, SayDoes
<1> DEFINE h == Head(meth[q])
           r == [uri |-> u, file |-> h.file, begun |-> h.begun, hops |-> h.hops + 1]
<1>5. r \in Request /\ r.uri = x.to
  <2> HIDE DEF h
  <2> QED  BY <1>2, <1>4 DEF Request, h
<1>6. meth' = [meth EXCEPT ![q] = Append(Tail(meth[q]), r)]  BY <1>3
<1> HIDE DEF r
<1>7. meth'[q] = Append(Tail(meth[q]), r) /\ \A p \in Queues \ {q} : meth'[p] = meth[p]
  BY <1>1, <1>6 DEF Typed
<1>8. Aside(st, inp, meth, st', inp', meth', q)  BY <1>1, <1>4, <1>7 DEF Aside
<1>9. LineRedirected(LineAt(st, inp, meth, q), Len(inp[q]), Len(meth[q]),
                     LineAt(st, inp', meth', q), Len(inp'[q]), x.to)
  BY <1>1, <1>4, <1>5, <1>7, RedirectedLine
<1>10. ASSUME NEW l, l = LineAt(st, inp, meth, q), NEW k, k = Len(inp[q]),
              LineOK(l, k), Names(st, q, k, l)
       PROVE  Names(st, q, Len(inp'[q]), LineAt(st, inp', meth', q))
  <2>1. PICK m, i, j : m = LineAt(st, inp', meth', q) /\ i = Len(inp'[q]) /\ j = Len(meth[q])
    OBVIOUS
  <2>2. LineRedirected(l, k, j, m, i, x.to)  BY <1>9, <1>10, <2>1
  <2>3. LineMoved(l, k, j, m, i, x.to)
    BY <2>2 DEF LineRedirected, LineMoved, Final, After
  <2>4. Names(st, q, i, m)  BY <1>10, <2>3, ChainMoved
  <2> QED  BY <2>1, <2>4
<1> QED  BY <1>1, <1>8, <1>10, MovedNames

\* A method dies with what it held.
LEMMA DieNames ==
    ASSUME Inv, Inv', FlowInv, NameInv, NEW q \in Queues, MethodDie(q)
    PROVE  NameInv'
<1>1. /\ st \in Memory /\ Typed(inp, meth) /\ Typed(inp', meth') /\ st' = st /\ inp' = inp
      /\ meth' = [meth EXCEPT ![q] = << >>]
  BY FlowFacts DEF Inv, TypeOK, Typed, MethodDie
<1>2. meth'[q] = << >> /\ \A p \in Queues \ {q} : meth'[p] = meth[p]  BY <1>1 DEF Typed
<1>3. Aside(st, inp, meth, st', inp', meth', q)  BY <1>1, <1>2 DEF Aside
<1>4. LineDied(LineAt(st, inp, meth, q), Len(inp[q]), Len(meth[q]),
               LineAt(st, inp, meth', q), Len(inp[q]))
  <2>1. Typed(inp, meth')  BY <1>1
  <2> QED  BY <1>1, <1>2, <2>1, DiedLine
<1>5. ASSUME NEW l, l = LineAt(st, inp, meth, q), NEW k, k = Len(inp[q]),
              LineOK(l, k), Names(st, q, k, l)
       PROVE  Names(st, q, Len(inp'[q]), LineAt(st, inp', meth', q))
  <2>1. Names(st, q, k, LineAt(st, inp, meth', q))  BY <1>4, <1>5, ChainDied
  <2> QED  BY <1>1, <1>5, <2>1
<1> QED  BY <1>1, <1>3, <1>5, MovedNames

\* An item enters while no Run is on.
LEMMA ConstructNames ==
    ASSUME Inv, FlowInv, NameInv, NEW it \in Items, Construct(it)
    PROVE  NameInv'
<1> DEFINE s == [st EXCEPT !.born = @ \cup {it}]
<1>1. PICK ok \in BOOLEAN : st' = Enqueue(s, it, FirstURI[it], ok, {})
  BY DEF Construct
<1>2. /\ st \in Memory /\ Good(st) /\ Typed(inp, meth) /\ meth' = meth /\ inp' = inp
      /\ it \notin st.born
  BY FlowFacts DEF Construct
<1>3. s \in Memory  BY <1>2 DEF Memory
<1>4. /\ s.stat = st.stat /\ s.entry = st.entry /\ s.depth = st.depth /\ s.maxd = st.maxd
      /\ s.tail = st.tail /\ s.created = st.created /\ s.toFetch = st.toFetch
      /\ s.born = st.born \cup {it} /\ s.err = st.err /\ s.current = st.current
      /\ s.worker = st.worker /\ s.out = st.out /\ s.pref = st.pref /\ s.running = st.running
      /\ s.err \in BOOLEAN
  BY <1>2 DEF Memory
<1> HIDE DEF s
<1>5. Same(st, s)  BY <1>4 DEF Same, Beside
<1>6. Good(s)
  <2>1. Alike(st, s)  BY <1>2, <1>4 DEF Alike, Good, WorkerOK
  <2> QED  BY <1>2, <1>3, <2>1, AlikeGood
<1>7. Chains(s, inp, meth)
  <2>1. Chains(st, inp, meth)  BY DEF NameInv
  <2> QED  BY <1>5, <2>1, SameCarried, CarriedChains
<1>8. s.entry[it] = None /\ it \in s.born
  BY <1>2, <1>4 DEF Construct, Good, BornOK, Queued
<1> DEFINE u == FirstURI[it]
           q == QueueOf[u]
<1>9. u \in URIs /\ q \in Queues  BY ConstantsOK DEF ConstantsOK
<1>10. Refused(s, st') \/ Accepted(s, it, q, u, {}, st')
  BY <1>1, <1>6, <1>8, <1>9, EnqueueSteps
<1> HIDE DEF u, q
<1>11. CASE Refused(s, st')
  <2>1. Same(s, st')  BY <1>11 DEF Refused, Same, Beside
  <2> QED  BY <1>2, <1>7, <2>1, SameCarried, CarriedChains DEF NameInv
<1>12. CASE Accepted(s, it, q, u, {}, st')
  <2>1. Chains(st', inp, meth)  BY <1>2, <1>6, <1>7, <1>9, <1>12, AcceptedChains
  <2> QED  BY <1>2, <2>1 DEF NameInv
<1> QED  BY <1>10, <1>11, <1>12

\* Run starts: the workers start, and every queue is cycled.
LEMMA RunStartNames ==
    ASSUME Inv, FlowInv, NameInv, RunStart
    PROVE  NameInv'
<1>1. /\ Typed(inp, meth) /\ meth' = meth /\ inp' = inp /\ st.created \subseteq Queues
      /\ Chains(st, inp, meth)
  BY FlowFacts DEF RunStart, NameInv, Memory
<1>2. PICK s, w, fresh, up :
        /\ Good(s) /\ Good(w)
        /\ fresh = {q \in st.created : st.worker[q] = "none"}
        /\ Started(s, fresh, up, w)
        /\ st' = Cycle(w, st.created \ (fresh \ up))
        /\ s.worker = st.worker /\ s.out = st.out /\ s.err = st.err /\ s.pref = st.pref
        /\ s.created = st.created /\ s.depth = st.depth /\ s.stat = st.stat
        /\ s.entry = st.entry /\ s.running = TRUE
  BY RunStartDoes
<1>3. Chains(s, inp, meth)
  <2>1. Carried(st, s)  BY <1>2, StaysSame DEF Carried
  <2> QED  BY <1>1, <2>1, CarriedChains
<1>4. Chains(w, inp, meth)
  <2>1. Carried(s, w)  BY <1>2, StartCarried
  <2> QED  BY <1>3, <2>1, CarriedChains
<1> DEFINE Qs == st.created \ (fresh \ up)
<1>5. Qs \in SUBSET Queues /\ st' = Cycle(w, Qs)  BY <1>1, <1>2
<1> HIDE DEF Qs
<1>6. Chains(st', inp, meth)  BY <1>1, <1>2, <1>4, <1>5, CycleChains
<1> QED  BY <1>1, <1>6 DEF NameInv

\* Run ends: a queue that gives its worker up forgets its line.
LEMMA RunEndNames ==
    ASSUME Inv, NameInv, NEW cancelled \in BOOLEAN, RunEnd(cancelled)
    PROVE  NameInv'
<1>1. PICK gone \in SUBSET st.created : Ended(gone)  BY RunEndDoes
<1>2. /\ \A q \in Queues :
         /\ st'.out[q] = IF q \in gone THEN << >> ELSE st.out[q]
         /\ meth'[q] = IF q \in gone THEN << >> ELSE meth[q]
         /\ inp'[q] = IF q \in gone THEN << >> ELSE inp[q]
      /\ st'.stat = st.stat
      /\ \A x \in Items : /\ (st'.entry[x] = None) <=> (st.entry[x] = None)
                          /\ st.entry[x].queue \notin gone => st'.entry[x] = st.entry[x]
  BY <1>1 DEF Ended
<1> SUFFICES ASSUME NEW q \in Queues PROVE Chain(st', inp', meth', q)
  BY DEF NameInv, Chains
<1>3. CASE q \in gone
  <2>1. st'.out[q] = << >> /\ meth'[q] = << >> /\ inp'[q] = << >>  BY <1>2, <1>3
  <2> QED  BY <2>1, EmptyChain
<1>4. CASE q \notin gone
  <2>1. st'.out[q] = st.out[q] /\ meth'[q] = meth[q] /\ inp'[q] = inp[q]  BY <1>2, <1>4
  <2>2. \A x \in Asked(st, q) : /\ x \in Items /\ st.entry[x] # None /\ st.entry[x].queue = q
                                /\ st.stat[x] = "Fetching" /\ st.entry[x].worker = "current"
    BY DEF Asked, Fetching, QItems, Queued
  <2>3. \A x \in Asked(st, q) : st'.entry[x] = st.entry[x] /\ st'.stat[x] = "Fetching"
    BY <1>2, <1>4, <2>2
  <2>4. \A x \in Asked(st, q) : x \in Asked(st', q)
    BY <2>2, <2>3 DEF Asked, Fetching, QItems, Queued
  <2>5. Stays(st, st', q)  BY <2>3, <2>4 DEF Stays
  <2>6. Chains(st, inp, meth)  BY DEF NameInv
  <2> QED  BY <2>1, <2>5, <2>6, AsideChain
<1> QED  BY <1>3, <1>4

\* pkgAcquire::Shutdown forgets every line.
LEMMA ShutdownNames == ASSUME Inv, Shutdown PROVE NameInv'
<1>1. \A q \in Queues : st'.out[q] = << >> /\ inp'[q] = << >> /\ meth'[q] = << >>
  BY ShutdownDoes
<1>2. \A q \in Queues : Chain(st', inp', meth', q)  BY <1>1, EmptyChain
<1> QED  BY <1>2 DEF NameInv, Chains

LEMMA InitNames == ASSUME Init PROVE NameInv
<1>1. \A q \in Queues : st.out[q] = << >> /\ inp[q] = << >> /\ meth[q] = << >>
  BY DEF Init
<1>2. \A q \in Queues : Chain(st, inp, meth, q)  BY <1>1, EmptyChain
<1> QED  BY <1>2 DEF NameInv, Chains

\* One case per action.
LEMMA StepNames == ASSUME Inv, Inv', FlowInv, NameInv, [Next]_vars PROVE NameInv'
<1>1. ASSUME NEW it \in Items, Construct(it) PROVE NameInv'  BY <1>1, ConstructNames
<1>2. CASE RunStart  BY <1>2, RunStartNames
<1>3. CASE RunFinish  BY <1>3, RunEndNames DEF RunFinish
<1>4. CASE RunAbort  BY <1>4, RunEndNames DEF RunAbort
<1>5. CASE RunCancel  BY <1>5, RunEndNames DEF RunCancel
<1>6. CASE Shutdown  BY <1>6, ShutdownNames
<1>7. ASSUME NEW q \in Queues, APT(q) PROVE NameInv'
  <2>1. CASE URIDone(q)  BY <2>1, AnswerNames DEF URIDone
  <2>2. CASE URIFailure(q)  BY <2>2, AnswerNames DEF URIFailure
  <2>3. CASE URIStart(q) \/ Redirect(q)  BY <2>3, NewsNames
  <2>4. CASE MethodFailure(q)  BY <2>4, FailureNames
  <2> QED  BY <1>7, <2>1, <2>2, <2>3, <2>4 DEF APT
<1>8. ASSUME NEW q \in Queues, Method(q) PROVE NameInv'
  BY <1>8, ReadNames, StartNames, ReplyNames, RedirectNames DEF Method
<1>9. ASSUME NEW q \in Queues, MethodDie(q) PROVE NameInv'  BY <1>9, DieNames
<1>10. CASE UNCHANGED vars \/ Stop
  <2>1. st' = st /\ meth' = meth /\ inp' = inp  BY <1>10 DEF vars, Stop
  <2> QED  BY <2>1 DEF NameInv
<1> QED  BY <1>1, <1>2, <1>3, <1>4, <1>5, <1>6, <1>7, <1>8, <1>9, <1>10 DEF Next

\* The invariant is inductive.
LEMMA NamesAlways == Spec => [](Inv /\ FlowInv /\ NameInv)
<1>1. Init => NameInv  BY InitNames
<1>2. (Inv /\ FlowInv /\ NameInv) /\ [Next]_vars /\ (Inv /\ FlowInv)' => NameInv'
  BY StepNames
<1> QED  BY <1>1, <1>2, FlowAlways, PTL DEF Spec

\* Every message that a method sends names an item that its worker waits for,
\* redirects or not: RunMessages never meets an answer it cannot place.
THEOREM MessagesFound == Spec => []MessagesMatch
<1>1. Inv /\ FlowInv /\ NameInv => MessagesMatch
  <2> SUFFICES ASSUME Inv, FlowInv, NameInv, NEW q \in Queues, inp[q] # << >>
               PROVE  FindItem(st, q, Head(inp[q]).uri) # None
    BY DEF MessagesMatch
  <2>1. Good(st) /\ Typed(inp, meth) /\ Chain(st, inp, meth, q)
    BY FlowFacts DEF NameInv, Chains
  <2>2. PICK it : it = FindItem(st, q, Head(inp[q]).uri)  BY Zenon
  <2> QED  BY <2>1, <2>2, HeadNamed
<1> QED  BY <1>1, NamesAlways, PTL

-----------------------------------------------------------------------------
(* The line of a queue whose method follows no redirect.                   *)

\* The message or request m is for its item, with the item's URI.
Mine(s, q, m) == m.file \in Asked(s, q) /\ m.uri = s.entry[m.file].uri

\* Of two with the same URI the item of m is not the later one on the list.
Behind(s, m, n) == m.uri = n.uri => s.entry[m.file].pos <= s.entry[n.file].pos

\* The line has the order of the list, and nothing follows what holds an item.
Row(s, q, k, l) ==
    /\ \A n \in 1..Len(l) : Mine(s, q, l[n])
    /\ \A m, n \in 1..Len(l) : m < n => /\ Behind(s, l[m], l[n])
                                        /\ HeldAt(k, l, m) => l[m].file # l[n].file

\* What waits is behind what is being fetched with the same URI.
Late(s, q) ==
    \A x \in Fetching(s, q), y \in Idle(s, q) :
      s.entry[x].uri = s.entry[y].uri => s.entry[x].pos < s.entry[y].pos

\* Every item being fetched is held; what comes before the item of a message on
\* the list, with its URI, is held by a message before it.
HeldIn(k, l, x) == \E n \in 1..Len(l) : HeldAt(k, l, n) /\ l[n].file = x
Whole(s, q, k, l) == \A x \in Fetching(s, q) : HeldIn(k, l, x)
Passed(s, q, k, l) ==
    \A n \in 1..k, z \in Fetching(s, q) :
      (s.entry[z].uri = l[n].uri /\ s.entry[z].pos < s.entry[l[n].file].pos) =>
        \E m \in 1..(n - 1) : HeldAt(k, l, m) /\ l[m].file = z

\* m and n are for the same item.
Like(m, n) == m.uri = n.uri /\ m.file = n.file

\* The line m is the line l without some places, and some reports ahead of requests.
Thin(l, k, m, i) ==
    /\ \A a \in 1..Len(m) : \E c \in 1..Len(l) : Like(m[a], l[c])
    /\ \A a, b \in 1..Len(m) :
         a < b => \E c, d \in 1..Len(l) :
                    /\ c <= d /\ Like(m[a], l[c]) /\ Like(m[b], l[d])
                    /\ HeldAt(i, m, a) => c < d /\ HeldAt(k, l, c)

LEMMA RowThinned ==
    ASSUME NEW s \in Memory, NEW q, NEW k, NEW l, Row(s, q, k, l), NEW m, NEW i, Thin(l, k, m, i)
    PROVE  Row(s, q, i, m)
<1>1. ASSUME NEW n \in 1..Len(m) PROVE Mine(s, q, m[n])
  <2>1. PICK c \in 1..Len(l) : Like(m[n], l[c])  BY DEF Thin
  <2>2. Mine(s, q, l[c])  BY DEF Row
  <2> QED  BY <2>1, <2>2 DEF Mine, Like
<1>2. ASSUME NEW a \in 1..Len(m), NEW b \in 1..Len(m), a < b
      PROVE  Behind(s, m[a], m[b]) /\ (HeldAt(i, m, a) => m[a].file # m[b].file)
  <2>1. PICK c, d \in 1..Len(l) :
          /\ c <= d /\ Like(m[a], l[c]) /\ Like(m[b], l[d])
          /\ HeldAt(i, m, a) => c < d /\ HeldAt(k, l, c)
    BY <1>2 DEF Thin
  <2>2. Behind(s, l[c], l[d])
    <3>1. CASE c = d
      <4>1. l[c].file \in Items /\ s.entry[l[c].file] # None
        BY DEF Row, Mine, Asked, Fetching, QItems, Queued
      <4>2. s.entry[l[c].file].pos \in Nat  BY <4>1 DEF Memory, Entry
      <4> QED  BY <3>1, <4>2 DEF Behind
    <3>2. CASE c # d
      <4>1. c < d  BY <2>1, <3>2
      <4> QED  BY <4>1 DEF Row
    <3> QED  BY <3>1, <3>2
  <2>3. HeldAt(i, m, a) => l[c].file # l[d].file  BY <2>1 DEF Row
  <2> QED  BY <2>1, <2>2, <2>3 DEF Behind, Like
<1> QED  BY <1>1, <1>2 DEF Row

\* A line that holds every item has its predecessors in order.
LEMMA WholePassed ==
    ASSUME NEW s \in Memory, NEW q, NEW k, NEW l, LineOK(l, k), Row(s, q, k, l), Whole(s, q, k, l)
    PROVE  Passed(s, q, k, l)
<1> SUFFICES ASSUME NEW n \in 1..k, NEW z \in Fetching(s, q), s.entry[z].uri = l[n].uri,
                    s.entry[z].pos < s.entry[l[n].file].pos
             PROVE  \E m \in 1..(n - 1) : HeldAt(k, l, m) /\ l[m].file = z
  BY DEF Passed
<1>1. PICK p \in 1..Len(l) : HeldAt(k, l, p) /\ l[p].file = z  BY DEF Whole, HeldIn
<1>2. n \in 1..Len(l)  BY DEF LineOK
<1>3. /\ l[n].file \in Items /\ s.entry[l[n].file] # None
      /\ z \in Items /\ s.entry[z] # None /\ l[p].uri = s.entry[z].uri
  BY <1>1, <1>2 DEF Row, Mine, Asked, Fetching, QItems, Queued
<1>4. s.entry[l[n].file].pos \in Nat /\ s.entry[z].pos \in Nat  BY <1>3 DEF Memory, Entry
<1>5. p # n  BY <1>1, <1>4
<1>6. ~(n < p)
  <2> SUFFICES ASSUME n < p PROVE FALSE  OBVIOUS
  <2>1. Behind(s, l[n], l[p])  BY <1>2 DEF Row
  <2>2. s.entry[l[n].file].pos <= s.entry[z].pos  BY <1>1, <1>3, <2>1 DEF Behind
  <2> QED  BY <1>4, <2>2
<1>7. p \in 1..(n - 1)  BY <1>2, <1>5, <1>6
<1> QED  BY <1>1, <1>7

\* The steps of the method thin its line out.
LEMMA AnsweredThin ==
    ASSUME NEW l, NEW k, LineOK(l, k), NEW m, NEW i, LineAnswered(l, k, m, i)
    PROVE  /\ Thin(l, k, m, i)
           /\ \A x : HeldIn(k, l, x) => HeldIn(i, m, x)
<1>1. /\ k \in Nat /\ i = k + 1 /\ Len(l) \in Nat /\ Len(m) = Len(l) /\ k < Len(l)
      /\ \A n \in 1..Len(l) : Like(m[n], l[n]) /\ (n # k + 1 => m[n] = l[n])
      /\ Final(m[k + 1])
  BY DEF LineOK, LineAnswered, Like
<1>2. \A n \in 1..Len(l) : HeldAt(i, m, n) <=> HeldAt(k, l, n)
  <2> SUFFICES ASSUME NEW n \in 1..Len(l) PROVE HeldAt(i, m, n) <=> HeldAt(k, l, n)  OBVIOUS
  <2>1. CASE n = k + 1  BY <1>1, <2>1 DEF HeldAt
  <2>2. CASE n # k + 1  BY <1>1, <2>2 DEF HeldAt
  <2> QED  BY <2>1, <2>2
<1>3. Thin(l, k, m, i)
  <2>1. \A a \in 1..Len(m) : \E c \in 1..Len(l) : Like(m[a], l[c])  BY <1>1
  <2>2. ASSUME NEW a \in 1..Len(m), NEW b \in 1..Len(m), a < b
        PROVE  \E c, d \in 1..Len(l) :
                 /\ c <= d /\ Like(m[a], l[c]) /\ Like(m[b], l[d])
                 /\ HeldAt(i, m, a) => c < d /\ HeldAt(k, l, c)
    <3>1. a \in 1..Len(l) /\ b \in 1..Len(l) /\ a <= b  BY <1>1, <2>2
    <3> QED  BY <1>1, <1>2, <2>2, <3>1
  <2> QED  BY <2>1, <2>2 DEF Thin
<1>4. ASSUME NEW x, HeldIn(k, l, x) PROVE HeldIn(i, m, x)
  <2>1. PICK n \in 1..Len(l) : HeldAt(k, l, n) /\ l[n].file = x  BY <1>4 DEF HeldIn
  <2>2. n \in 1..Len(m) /\ HeldAt(i, m, n) /\ m[n].file = x  BY <1>1, <1>2, <2>1 DEF Like
  <2> QED  BY <2>2 DEF HeldIn
<1> QED  BY <1>3, <1>4

LEMMA BegunThin ==
    ASSUME NEW l, NEW k, LineOK(l, k), NEW m, NEW i, LineBegun(l, k, m, i)
    PROVE  /\ Thin(l, k, m, i)
           /\ \A x : HeldIn(k, l, x) => HeldIn(i, m, x)
<1>1. /\ k \in Nat /\ i = k + 1 /\ Len(l) \in Nat /\ Len(m) = Len(l) + 1 /\ k < Len(l)
      /\ \A n \in 1..k : m[n] = l[n]
      /\ Like(m[k + 1], l[k + 1]) /\ ~Final(m[k + 1])
      /\ \A n \in (k + 1)..Len(l) : Like(m[n + 1], l[n])
  BY DEF LineOK, LineBegun, Like, Final
<1> DEFINE f(n) == IF n <= k + 1 THEN n ELSE n - 1
<1>2. \A n \in 1..Len(m) : f(n) \in 1..Len(l) /\ Like(m[n], l[f(n)])
  <2> SUFFICES ASSUME NEW n \in 1..Len(m) PROVE f(n) \in 1..Len(l) /\ Like(m[n], l[f(n)])
    OBVIOUS
  <2>1. CASE n <= k
    <3>1. n \in 1..k /\ f(n) = n /\ n \in 1..Len(l)  BY <1>1, <2>1
    <3> QED  BY <1>1, <3>1 DEF Like
  <2>2. CASE n = k + 1  BY <1>1, <2>2
  <2>3. CASE n > k + 1
    <3>1. f(n) = n - 1 /\ n - 1 \in (k + 1)..Len(l) /\ (n - 1) + 1 = n  BY <1>1, <2>3
    <3> QED  BY <1>1, <3>1
  <2> QED  BY <1>1, <2>1, <2>2, <2>3
<1>3. ASSUME NEW a \in 1..Len(m), NEW b \in 1..Len(m), a < b
      PROVE  /\ f(a) <= f(b)
             /\ HeldAt(i, m, a) => f(a) < f(b) /\ HeldAt(k, l, f(a))
  <2>1. f(a) <= f(b) /\ (a # k + 1 => f(a) < f(b))  BY <1>1, <1>3
  <2>2. ASSUME HeldAt(i, m, a) PROVE a # k + 1 /\ HeldAt(k, l, f(a))
    <3>1. CASE a <= k  BY <1>1, <2>2, <3>1 DEF HeldAt
    <3>2. CASE a = k + 1  BY <1>1, <2>2, <3>2 DEF HeldAt
    <3>3. CASE a > k + 1  BY <1>1, <3>3 DEF HeldAt
    <3> QED  BY <1>1, <3>1, <3>2, <3>3
  <2> QED  BY <2>1, <2>2
<1>4. Thin(l, k, m, i)
  <2> HIDE DEF f
  <2> QED  BY <1>2, <1>3 DEF Thin
<1>5. ASSUME NEW x, HeldIn(k, l, x) PROVE HeldIn(i, m, x)
  <2>1. PICK n \in 1..Len(l) : HeldAt(k, l, n) /\ l[n].file = x  BY <1>5 DEF HeldIn
  <2>2. CASE n <= k
    <3>1. n \in 1..Len(m) /\ m[n] = l[n] /\ Final(l[n])  BY <1>1, <2>1, <2>2 DEF HeldAt
    <3> QED  BY <2>1, <3>1 DEF HeldIn, HeldAt
  <2>3. CASE n > k
    <3>1. n + 1 \in 1..Len(m) /\ n + 1 > i /\ m[n + 1].file = x  BY <1>1, <2>1, <2>3 DEF Like
    <3> QED  BY <3>1 DEF HeldIn, HeldAt
  <2> QED  BY <1>1, <2>2, <2>3
<1> QED  BY <1>4, <1>5

\* What a dead method held is gone, what it had said is not.
LEMMA DiedThin ==
    ASSUME NEW l, NEW k, LineOK(l, k), NEW m, NEW i, NEW j, LineDied(l, k, j, m, i)
    PROVE  Thin(l, k, m, i)
<1>1. /\ k \in Nat /\ i = k /\ Len(l) \in Nat /\ j \in Nat /\ k + j <= Len(l) /\ Len(m) = Len(l) - j
      /\ \A n \in 1..k : m[n] = l[n]
      /\ \A n \in (k + 1)..Len(m) : m[n] = l[n + j]
  BY DEF LineOK, LineDied
<1> DEFINE f(n) == IF n <= k THEN n ELSE n + j
<1>2. \A n \in 1..Len(m) : f(n) \in 1..Len(l) /\ m[n] = l[f(n)]
  <2> SUFFICES ASSUME NEW n \in 1..Len(m) PROVE f(n) \in 1..Len(l) /\ m[n] = l[f(n)]  OBVIOUS
  <2>1. CASE n <= k  BY <1>1, <2>1
  <2>2. CASE n > k  BY <1>1, <2>2
  <2> QED  BY <1>1, <2>1, <2>2
<1>3. ASSUME NEW a \in 1..Len(m), NEW b \in 1..Len(m), a < b
      PROVE  f(a) < f(b) /\ (HeldAt(i, m, a) => HeldAt(k, l, f(a)))
  <2>1. f(a) < f(b)  BY <1>1, <1>3
  <2>2. HeldAt(i, m, a) => HeldAt(k, l, f(a))
    <3>1. CASE a <= k  BY <1>1, <3>1 DEF HeldAt
    <3>2. CASE a > k  BY <1>1, <3>2 DEF HeldAt
    <3> QED  BY <1>1, <3>1, <3>2
  <2> QED  BY <2>1, <2>2
<1> HIDE DEF f
<1>4. \A a \in 1..Len(m) : \E c \in 1..Len(l) : Like(m[a], l[c])  BY <1>2 DEF Like
<1>5. ASSUME NEW a \in 1..Len(m), NEW b \in 1..Len(m), a < b
      PROVE  \E c, d \in 1..Len(l) :
               /\ c <= d /\ Like(m[a], l[c]) /\ Like(m[b], l[d])
               /\ HeldAt(i, m, a) => c < d /\ HeldAt(k, l, c)
  <2>1. f(a) \in 1..Len(l) /\ f(b) \in 1..Len(l) /\ f(a) <= f(b)  BY <1>1, <1>2, <1>3, <1>5
  <2> QED  BY <1>2, <1>3, <1>5, <2>1 DEF Like
<1> QED  BY <1>4, <1>5 DEF Thin

LEMMA DiedPassed ==
    ASSUME NEW s, NEW q, NEW l, NEW k, LineOK(l, k), Passed(s, q, k, l),
           NEW m, NEW i, NEW j, LineDied(l, k, j, m, i)
    PROVE  Passed(s, q, i, m)
<1>1. k \in Nat /\ i = k /\ \A n \in 1..k : m[n] = l[n]
  BY DEF LineOK, LineDied
<1> SUFFICES ASSUME NEW n \in 1..k, NEW z \in Fetching(s, q), s.entry[z].uri = m[n].uri,
                    s.entry[z].pos < s.entry[m[n].file].pos
             PROVE  \E p \in 1..(n - 1) : HeldAt(k, m, p) /\ m[p].file = z
  BY <1>1 DEF Passed
<1>2. m[n] = l[n]  BY <1>1
<1>3. PICK p \in 1..(n - 1) : HeldAt(k, l, p) /\ l[p].file = z  BY <1>2 DEF Passed
<1>4. p \in 1..k  BY <1>1
<1>5. m[p] = l[p]  BY <1>1, <1>4
<1> QED  BY <1>3, <1>5 DEF HeldAt

\* The rest of a line, when its first message was taken.
LEMMA TakenThin ==
    ASSUME NEW l, NEW k, LineOK(l, k), NEW m, NEW i, LineTaken(l, k, m, i)
    PROVE  Thin(l, k, m, i)
<1>1. /\ k \in Nat \ {0} /\ i = k - 1 /\ Len(l) \in Nat /\ Len(m) = Len(l) - 1
      /\ \A n \in 1..Len(m) : m[n] = l[n + 1]
  BY DEF LineOK, LineTaken
<1>2. \A n \in 1..Len(m) : n + 1 \in 1..Len(l) /\ Like(m[n], l[n + 1])  BY <1>1 DEF Like
<1>3. ASSUME NEW a \in 1..Len(m), NEW b \in 1..Len(m), a < b
      PROVE  /\ a + 1 <= b + 1
             /\ HeldAt(i, m, a) => a + 1 < b + 1 /\ HeldAt(k, l, a + 1)
  BY <1>1, <1>3 DEF HeldAt
<1>4. \A a \in 1..Len(m) : \E c \in 1..Len(l) : Like(m[a], l[c])  BY <1>2
<1> QED  BY <1>2, <1>3, <1>4 DEF Thin

\* x is held behind the first message, that is, when it is not its item or the
\* message holds nothing.
LEMMA TakenHeld ==
    ASSUME NEW l, NEW k, LineOK(l, k), NEW m, NEW i, LineTaken(l, k, m, i),
           NEW x, HeldIn(k, l, x), l[1].file # x \/ ~Final(l[1])
    PROVE  HeldIn(i, m, x)
<1>1. /\ k \in Nat \ {0} /\ i = k - 1 /\ Len(l) \in Nat /\ Len(m) = Len(l) - 1
      /\ \A n \in 1..Len(m) : m[n] = l[n + 1]
  BY DEF LineOK, LineTaken
<1>2. PICK n \in 1..Len(l) : HeldAt(k, l, n) /\ l[n].file = x  BY DEF HeldIn
<1>3. n # 1  BY <1>1, <1>2 DEF HeldAt
<1>4. n - 1 \in 1..Len(m) /\ (n - 1) + 1 = n  BY <1>1, <1>3
<1>5. m[n - 1] = l[n]  BY <1>1, <1>4
<1>6. HeldAt(i, m, n - 1)  BY <1>1, <1>2, <1>5 DEF HeldAt
<1> QED  BY <1>2, <1>4, <1>5, <1>6 DEF HeldIn

\* The messages behind the first have their predecessors among themselves.
LEMMA TakenPassed ==
    ASSUME NEW s, NEW q, NEW l, NEW k, LineOK(l, k), Passed(s, q, k, l),
           NEW m, NEW i, LineTaken(l, k, m, i),
           NEW t, \A z \in Fetching(t, q) : z \in Fetching(s, q) /\ (l[1].file # z \/ ~Final(l[1])),
           \A z \in Fetching(t, q) : t.entry[z] = s.entry[z],
           \A n \in 1..i : t.entry[m[n].file] = s.entry[m[n].file]
    PROVE  Passed(t, q, i, m)
<1>1. /\ k \in Nat \ {0} /\ i = k - 1 /\ Len(l) \in Nat /\ Len(m) = Len(l) - 1
      /\ \A n \in 1..Len(m) : m[n] = l[n + 1]
      /\ k <= Len(l)
  BY DEF LineOK, LineTaken
<1> SUFFICES ASSUME NEW n \in 1..i, NEW z \in Fetching(t, q), t.entry[z].uri = m[n].uri,
                    t.entry[z].pos < t.entry[m[n].file].pos
             PROVE  \E p \in 1..(n - 1) : HeldAt(i, m, p) /\ m[p].file = z
  BY DEF Passed
<1>2. m[n] = l[n + 1] /\ n + 1 \in 1..k  BY <1>1
<1>3. z \in Fetching(s, q) /\ s.entry[z].uri = l[n + 1].uri
      /\ s.entry[z].pos < s.entry[l[n + 1].file].pos
  BY <1>2
<1>4. PICK p \in 1..((n + 1) - 1) : HeldAt(k, l, p) /\ l[p].file = z  BY <1>2, <1>3 DEF Passed
<1>5. p # 1  BY <1>1, <1>4 DEF HeldAt
<1>6. p - 1 \in 1..(n - 1) /\ (p - 1) + 1 = p /\ p - 1 \in 1..Len(m)  BY <1>1, <1>4, <1>5
<1>7. m[p - 1] = l[p]  BY <1>1, <1>6
<1>8. HeldAt(i, m, p - 1)  BY <1>1, <1>4, <1>6, <1>7 DEF HeldAt
<1> QED  BY <1>4, <1>6, <1>7, <1>8

-----------------------------------------------------------------------------
(* The lines of the queues, A the queues whose method is alive.            *)

Ranked(s, k, l, A, calm, q) ==
    /\ Row(s, q, k, l) /\ Late(s, q)
    /\ (q \in calm /\ s.worker[q] = "live") =>
         IF q \in A THEN Whole(s, q, k, l) ELSE Passed(s, q, k, l)

LinedAt(s, I, M, A, calm, q) == Ranked(s, Len(I[q]), LineAt(s, I, M, q), A, calm, q)
Lined(s, I, M, A, calm) == \A q \in Queues : LinedAt(s, I, M, A, calm, q)

\* t has the items of the queue q of s, perhaps one more that was asked for.
Rests(s, t, q) ==
    /\ Asked(s, q) \subseteq Asked(t, q)
    /\ Fetching(t, q) = Fetching(s, q) /\ Idle(t, q) = Idle(s, q)
    /\ \A x \in QItems(s, q) : /\ t.entry[x].uri = s.entry[x].uri
                               /\ t.entry[x].pos = s.entry[x].pos

\* A queue that a step leaves alone, or gives its worker.
LEMMA RankedKept ==
    ASSUME NEW s, NEW k, NEW l, LineOK(l, k), NEW A, NEW calm, NEW q, Ranked(s, k, l, A, calm, q),
           NEW t, Rests(s, t, q), NEW B, q \in A <=> q \in B,
           NEW still, q \in still => q \in calm,
           t.worker[q] = s.worker[q] \/ (q \in calm => Fetching(s, q) = {})
    PROVE  Ranked(t, k, l, B, still, q)
<1>1. Asked(s, q) \subseteq QItems(s, q) /\ Fetching(s, q) \subseteq QItems(s, q)
      /\ Idle(s, q) \subseteq QItems(s, q)
  BY DEF Asked, Fetching, Idle
<1>2. \A n \in 1..Len(l) : /\ l[n].file \in QItems(s, q) /\ Mine(t, q, l[n])
  BY <1>1 DEF Ranked, Row, Mine, Rests
<1>3. Row(t, q, k, l)
  <2>1. \A m, n \in 1..Len(l) : Behind(s, l[m], l[n]) => Behind(t, l[m], l[n])
    BY <1>2 DEF Behind, Rests
  <2> QED  BY <1>2, <2>1 DEF Ranked, Row
<1>4. Late(t, q)  BY <1>1 DEF Ranked, Late, Rests
<1>5. ASSUME q \in still, t.worker[q] = "live"
      PROVE  IF q \in B THEN Whole(t, q, k, l) ELSE Passed(t, q, k, l)
  <2>1. CASE Fetching(s, q) = {}  BY <2>1 DEF Whole, Passed, Rests
  <2>2. CASE Fetching(s, q) # {}
    <3>1. IF q \in A THEN Whole(s, q, k, l) ELSE Passed(s, q, k, l)
      BY <1>5, <2>2 DEF Ranked
    <3>2. Whole(s, q, k, l) => Whole(t, q, k, l)  BY DEF Whole, Rests
    <3>3. Passed(s, q, k, l) => Passed(t, q, k, l)
      <4>1. \A n \in 1..k : n \in 1..Len(l)  BY DEF LineOK
      <4> QED  BY <1>1, <1>2, <4>1 DEF Passed, Rests
    <3> QED  BY <3>1, <3>2, <3>3
  <2> QED  BY <2>1, <2>2
<1> QED  BY <1>3, <1>4, <1>5 DEF Ranked

LEMMA LinedKept ==
    ASSUME NEW s \in Memory, NEW I, NEW M, Typed(I, M), NEW q \in Queues, NEW A, NEW calm,
           LinedAt(s, I, M, A, calm, q),
           NEW t, Rests(s, t, q), t.out[q] = s.out[q],
           NEW J, NEW N, J[q] = I[q], N[q] = M[q], NEW B, q \in A <=> q \in B,
           NEW still, q \in still => q \in calm,
           t.worker[q] = s.worker[q] \/ (q \in calm => Fetching(s, q) = {})
    PROVE  LinedAt(t, J, N, B, still, q)
<1>1. LineAt(t, J, N, q) = LineAt(s, I, M, q) /\ Len(J[q]) = Len(I[q])  BY DEF LineAt
<1>2. PICK k, l : k = Len(I[q]) /\ l = LineAt(s, I, M, q)  OBVIOUS
<1>3. LineOK(l, k) /\ Ranked(s, k, l, A, calm, q)  BY <1>2, LineIsOK DEF LinedAt
<1>4. Ranked(t, k, l, B, still, q)  BY <1>3, RankedKept
<1> QED  BY <1>1, <1>2, <1>4 DEF LinedAt

\* A step that touches neither lists nor pipes.
LEMMA SameRests == ASSUME NEW s, NEW t, Same(s, t), NEW q PROVE Rests(s, t, q)
<1>1. Fetching(t, q) = Fetching(s, q) /\ Idle(t, q) = Idle(s, q)  BY SameSets
<1>2. t.entry = s.entry  BY DEF Same
<1> QED  BY <1>1, <1>2 DEF Rests, Asked

LEMMA SameLined ==
    ASSUME NEW s \in Memory, NEW t, Same(s, t), NEW I, NEW M, Typed(I, M), NEW A, NEW calm,
           Lined(s, I, M, A, calm)
    PROVE  Lined(t, I, M, A, calm)
<1> SUFFICES ASSUME NEW q \in Queues PROVE LinedAt(t, I, M, A, calm, q)  BY DEF Lined
<1>1. t.out[q] = s.out[q] /\ t.worker[q] = s.worker[q]  BY DEF Same, Beside
<1>2. LinedAt(s, I, M, A, calm, q)  BY DEF Lined
<1>3. Rests(s, t, q)  BY SameRests
<1> QED  BY <1>1, <1>2, <1>3, LinedKept

\* The start of the workers of the queues of fresh, which have nothing half fetched.
LEMMA StartLined ==
    ASSUME NEW s \in Memory, NEW fresh, NEW up, NEW r, Started(s, fresh, up, r),
           NEW I, NEW M, Typed(I, M), NEW A, NEW calm, Lined(s, I, M, A, calm),
           \A q \in fresh : q \in calm => Fetching(s, q) = {}
    PROVE  Lined(r, I, M, A, calm)
<1> SUFFICES ASSUME NEW q \in Queues PROVE LinedAt(r, I, M, A, calm, q)  BY DEF Lined
<1>1. Fetching(r, q) = Fetching(s, q) /\ Idle(r, q) = Idle(s, q)  BY StartSets
<1>2. \A x \in Queued(s) : /\ r.entry[x].uri = s.entry[x].uri /\ r.entry[x].pos = s.entry[x].pos
                           /\ s.entry[x].worker = "current" => r.entry[x].worker = "current"
  BY DEF Started
<1>3. Rests(s, r, q)  BY <1>1, <1>2 DEF Rests, Asked, Fetching, QItems
<1>4. r.out[q] = s.out[q] /\ (r.worker[q] = s.worker[q] \/ q \in fresh)  BY DEF Started
<1>5. LinedAt(s, I, M, A, calm, q)  BY DEF Lined
<1>6. r.worker[q] = s.worker[q] \/ (q \in calm => Fetching(s, q) = {})  BY <1>4
<1> QED  BY <1>3, <1>4, <1>5, <1>6, LinedKept

\* An item enters at the end of its list.
LEMMA EnteredLined ==
    ASSUME NEW r \in Memory, NEW d, NEW it \in Items, r.entry[it] = None, NEW q \in Queues, NEW u,
           Entered(r, it, q, u, d),
           NEW I, NEW M, Typed(I, M), NEW A, NEW calm, Lined(r, I, M, A, calm)
    PROVE  Lined(d, I, M, A, calm)
<1> SUFFICES ASSUME NEW p \in Queues PROVE LinedAt(d, I, M, A, calm, p)  BY DEF Lined
<1>1. /\ it \notin Queued(r) /\ QItems(r, p) \subseteq Queued(r)
      /\ Fetching(d, p) = Fetching(r, p)
      /\ IF p = q THEN Idle(d, p) = Idle(r, p) \cup {it} ELSE Idle(d, p) = Idle(r, p)
  BY EnteredSets DEF QItems
<1>2. \A x \in Items : x # it => d.entry[x] = r.entry[x]  BY DEF Entered
<1>3. \A x \in QItems(r, p) : x \in Items /\ x # it  BY <1>1 DEF QItems, Queued
<1>4. d.out[p] = r.out[p] /\ d.worker[p] = r.worker[p]  BY DEF Entered, Beside
<1>5. LinedAt(r, I, M, A, calm, p)  BY DEF Lined
<1>6. PICK k, l : k = Len(I[p]) /\ l = LineAt(r, I, M, p)  OBVIOUS
<1>7. LineAt(d, I, M, p) = l  BY <1>4, <1>6 DEF LineAt
<1>8. Ranked(r, k, l, A, calm, p) /\ LineOK(l, k)  BY <1>5, <1>6, LineIsOK DEF LinedAt
<1>9. Asked(d, p) = Asked(r, p)  BY <1>1, <1>2, <1>3 DEF Asked, Fetching
<1>10. \A x \in Asked(r, p) : x \in QItems(r, p)  BY DEF Asked, Fetching
<1>11. Row(d, p, k, l)
  <2>1. \A n \in 1..Len(l) : Mine(r, p, l[n])  BY <1>8 DEF Ranked, Row
  <2>2. \A n \in 1..Len(l) : d.entry[l[n].file] = r.entry[l[n].file]
    BY <1>2, <1>3, <1>10, <2>1 DEF Mine
  <2> QED  BY <1>8, <1>9, <2>2 DEF Ranked, Row, Mine, Behind
<1>12. Late(d, p)
  <2> SUFFICES ASSUME NEW x \in Fetching(r, p), NEW y \in Idle(d, p), d.entry[x].uri = d.entry[y].uri
               PROVE  d.entry[x].pos < d.entry[y].pos
    BY <1>1 DEF Late
  <2>1. x \in QItems(r, p) /\ d.entry[x] = r.entry[x]  BY <1>2, <1>3 DEF Fetching
  <2>2. CASE y \in Idle(r, p)
    <3>1. d.entry[y] = r.entry[y]  BY <1>2, <1>3, <2>2 DEF Idle
    <3> QED  BY <1>8, <2>1, <2>2, <3>1 DEF Ranked, Late
  <2>3. CASE p = q /\ y = it
    <3>1. r.entry[x].pos < d.entry[it].pos  BY <2>1, <2>3 DEF Entered
    <3> QED  BY <2>1, <2>3, <3>1
  <2> QED  BY <1>1, <2>2, <2>3
<1>13. ASSUME p \in calm, d.worker[p] = "live"
       PROVE  IF p \in A THEN Whole(d, p, k, l) ELSE Passed(d, p, k, l)
  <2>1. IF p \in A THEN Whole(r, p, k, l) ELSE Passed(r, p, k, l)
    BY <1>4, <1>8, <1>13 DEF Ranked
  <2>2. Whole(r, p, k, l) => Whole(d, p, k, l)  BY <1>1 DEF Whole
  <2>3. Passed(r, p, k, l) => Passed(d, p, k, l)
    <3>1. \A n \in 1..k : n \in 1..Len(l)  BY <1>8 DEF LineOK
    <3>2. \A n \in 1..k : d.entry[l[n].file] = r.entry[l[n].file]
      BY <1>2, <1>3, <1>8, <1>10, <3>1 DEF Ranked, Row, Mine
    <3>3. \A z \in Fetching(r, p) : d.entry[z] = r.entry[z]  BY <1>2, <1>3 DEF Fetching
    <3> QED  BY <1>1, <3>2, <3>3 DEF Passed
  <2> QED  BY <2>1, <2>2, <2>3
<1> QED  BY <1>6, <1>7, <1>11, <1>12, <1>13 DEF LinedAt, Ranked

\* What a Cycle picks comes before what it leaves, of one URI.
LEMMA PicksFirst ==
    ASSUME NEW s, Good(s), NEW q \in Queues, NEW x \in Picks(s, q), NEW y \in Idle(s, q) \ Picks(s, q),
           s.entry[x].uri = s.entry[y].uri
    PROVE  s.entry[x].pos < s.entry[y].pos
<1>1. x \in Idle(s, q) /\ x # y /\ Rank(s, q, x) < Room(s, q) /\ ~(Rank(s, q, y) < Room(s, q))
  BY DEF Picks
<1>2. Ahead(s, q, x, y)
  <2>1. Rank(s, q, x) \in Nat /\ Rank(s, q, y) \in Nat /\ Room(s, q) \in Int
    BY RankNat, RoomInt DEF Good
  <2> QED  BY <1>1, <2>1, RankGrows
<1> QED  BY <1>2 DEF Ahead

LEMMA PicksInOrder ==
    ASSUME NEW s, Good(s), NEW q \in Queues, NEW x \in Picks(s, q), NEW y \in Picks(s, q),
           Rank(s, q, x) < Rank(s, q, y), s.entry[x].uri = s.entry[y].uri
    PROVE  s.entry[x].pos < s.entry[y].pos
<1>1. x \in Idle(s, q) /\ y \in Idle(s, q)  BY DEF Picks
<1>2. Rank(s, q, x) \in Nat /\ Rank(s, q, y) \in Nat  BY RankNat
<1>3. Ahead(s, q, x, y)  BY <1>1, <1>2, RankGrows
<1> QED  BY <1>3 DEF Ahead

\* c has the items of the queue q of s, those of Picks asked for.
Sent(s, c, q) ==
    /\ Fetching(c, q) = Fetching(s, q) \cup Picks(s, q) /\ Idle(c, q) = Idle(s, q) \ Picks(s, q)
    /\ Asked(s, q) \subseteq Asked(c, q) /\ Picks(s, q) \subseteq Asked(c, q)
    /\ \A x \in QItems(s, q) : /\ c.entry[x].uri = s.entry[x].uri
                               /\ c.entry[x].pos = s.entry[x].pos
    /\ c.worker[q] = s.worker[q]

\* r are the requests for the items of Picks, in the order of their ranks.
Ordered(s, q, r) ==
    /\ \A n \in 1..Len(r) : /\ r[n].file \in Picks(s, q) /\ Rank(s, q, r[n].file) = n - 1
                            /\ r[n].uri = s.entry[r[n].file].uri
    /\ s.worker[q] # "dead" => \A x \in Picks(s, q) : \E n \in 1..Len(r) : r[n].file = x

\* Requests that are sent keep the line in order ...
LEMMA RowLonger ==
    ASSUME NEW s, Good(s), NEW q \in Queues, NEW k, NEW l, LineOK(l, k),
           Row(s, q, k, l), Late(s, q), NEW c, Sent(s, c, q),
           NEW r, Ordered(s, q, r), NEW m, LineLonger(l, m, r)
    PROVE  Row(c, q, k, m)
<1>1. PICK o : o = Len(l)  OBVIOUS
<1>2. /\ k \in Nat /\ o \in Nat /\ k <= o /\ Len(r) \in Nat /\ Len(m) = o + Len(r)
      /\ \A n \in 1..o : m[n] = l[n]
      /\ \A n \in 1..Len(r) : m[o + n] = r[n]
  BY <1>1 DEF LineOK, LineLonger
<1>3. \A n \in 1..o : l[n].file \in Asked(s, q) /\ l[n].uri = s.entry[l[n].file].uri
  BY <1>1 DEF Row, Mine
<1>4. \A x \in Asked(s, q) : x \in Fetching(s, q) /\ x \in QItems(s, q) /\ s.stat[x] = "Fetching"
  BY DEF Asked, Fetching
<1>5. \A x \in Picks(s, q) : x \in Idle(s, q) /\ x \in QItems(s, q) /\ s.stat[x] = "Idle"
  BY DEF Picks, Idle
<1>6. \A n \in 1..Len(m) : n \in 1..o \/ (n - o \in 1..Len(r) /\ o + (n - o) = n)
  BY <1>2
<1>7. ASSUME NEW n \in 1..Len(m) PROVE Mine(c, q, m[n])
  <2>1. CASE n \in 1..o
    <3>1. m[n] = l[n] /\ l[n].file \in Asked(s, q) /\ l[n].uri = s.entry[l[n].file].uri
      BY <1>2, <1>3, <2>1
    <3> QED  BY <1>4, <3>1 DEF Mine, Sent
  <2>2. CASE n - o \in 1..Len(r) /\ o + (n - o) = n
    <3>1. m[n] = r[n - o]  BY <1>2, <2>2
    <3>2. r[n - o].file \in Picks(s, q) /\ r[n - o].uri = s.entry[r[n - o].file].uri
      BY <2>2 DEF Ordered
    <3> QED  BY <1>5, <3>1, <3>2 DEF Mine, Sent
  <2> QED  BY <1>6, <2>1, <2>2
<1>8. ASSUME NEW a \in 1..Len(m), NEW b \in 1..Len(m), a < b
      PROVE  Behind(c, m[a], m[b]) /\ (HeldAt(k, m, a) => m[a].file # m[b].file)
  <2>1. CASE a \in 1..o /\ b \in 1..o
    <3>1. m[a] = l[a] /\ m[b] = l[b]  BY <1>2, <2>1
    <3>2. Behind(s, l[a], l[b]) /\ (HeldAt(k, l, a) => l[a].file # l[b].file)
      BY <1>1, <1>8, <2>1 DEF Row
    <3>3. l[a].file \in QItems(s, q) /\ l[b].file \in QItems(s, q)  BY <1>3, <1>4, <2>1
    <3> QED  BY <3>1, <3>2, <3>3 DEF Behind, HeldAt, Sent
  <2>2. CASE a \in 1..o /\ b - o \in 1..Len(r) /\ o + (b - o) = b
    <3>1. m[a] = l[a] /\ m[b] = r[b - o]  BY <1>2, <2>2
    <3>2. l[a].file \in Fetching(s, q) /\ r[b - o].file \in Idle(s, q)
          /\ l[a].file \in QItems(s, q) /\ r[b - o].file \in QItems(s, q)
          /\ l[a].file # r[b - o].file
          /\ l[a].uri = s.entry[l[a].file].uri /\ r[b - o].uri = s.entry[r[b - o].file].uri
      BY <1>3, <1>4, <1>5, <2>2 DEF Ordered
    <3>3. /\ l[a].file \in Items /\ s.entry[l[a].file] \in Entry
          /\ r[b - o].file \in Items /\ s.entry[r[b - o].file] \in Entry
      BY <3>2 DEF QItems, Queued, Good, Memory
    <3>4. s.entry[l[a].file].pos \in Nat /\ s.entry[r[b - o].file].pos \in Nat  BY <3>3 DEF Entry
    <3>5. l[a].uri = r[b - o].uri => s.entry[l[a].file].pos < s.entry[r[b - o].file].pos
      BY <3>2 DEF Late
    <3>6. l[a].uri = r[b - o].uri => s.entry[l[a].file].pos <= s.entry[r[b - o].file].pos
      BY <3>4, <3>5
    <3> QED  BY <3>1, <3>2, <3>6 DEF Behind, Sent
  <2>3. CASE /\ a - o \in 1..Len(r) /\ o + (a - o) = a
             /\ b - o \in 1..Len(r) /\ o + (b - o) = b
    <3>1. PICK v, w : v = a - o /\ w = b - o  OBVIOUS
    <3>2. m[a] = r[v] /\ m[b] = r[w]  BY <1>2, <2>3, <3>1
    <3>3. v \in 1..Len(r) /\ w \in 1..Len(r) /\ v - 1 < w - 1 /\ v # w
      BY <1>2, <1>8, <2>3, <3>1
    <3>4. PICK x, y : x = r[v].file /\ y = r[w].file  OBVIOUS
    <3>5. /\ x \in Picks(s, q) /\ y \in Picks(s, q)
          /\ Rank(s, q, x) = v - 1 /\ Rank(s, q, y) = w - 1
          /\ r[v].uri = s.entry[x].uri /\ r[w].uri = s.entry[y].uri
      BY <3>3, <3>4 DEF Ordered
    <3>6. x # y /\ Rank(s, q, x) < Rank(s, q, y)  BY <3>3, <3>5
    <3>7. /\ x \in QItems(s, q) /\ y \in QItems(s, q)
          /\ s.entry[x].pos \in Nat /\ s.entry[y].pos \in Nat
      <4>1. x \in QItems(s, q) /\ y \in QItems(s, q)  BY <1>5, <3>5
      <4>2. s.entry[x] \in Entry /\ s.entry[y] \in Entry
        BY <4>1 DEF QItems, Queued, Good, Memory
      <4> QED  BY <4>1, <4>2 DEF Entry
    <3>8. s.entry[x].uri = s.entry[y].uri => s.entry[x].pos < s.entry[y].pos
      BY <3>5, <3>6, PicksInOrder
    <3>9. s.entry[x].uri = s.entry[y].uri => s.entry[x].pos <= s.entry[y].pos  BY <3>7, <3>8
    <3> QED  BY <3>2, <3>4, <3>5, <3>6, <3>7, <3>9 DEF Behind, Sent
  <2>4. ~(a - o \in 1..Len(r) /\ b \in 1..o)  BY <1>2, <1>8
  <2> QED  BY <1>6, <2>1, <2>2, <2>3, <2>4
<1> QED  BY <1>7, <1>8 DEF Row

\* ... and every item held.
LEMMA RankedLonger ==
    ASSUME NEW s, Good(s), NEW q \in Queues, NEW k, NEW l, LineOK(l, k), NEW A, NEW calm,
           Ranked(s, k, l, A, calm, q), NEW c, Sent(s, c, q),
           NEW r, Ordered(s, q, r), NEW m, LineLonger(l, m, r)
    PROVE  Ranked(c, k, m, A, calm, q)
<1>1. PICK o : o = Len(l)  OBVIOUS
<1>2. /\ k \in Nat /\ o \in Nat /\ k <= o /\ Len(r) \in Nat /\ Len(m) = o + Len(r)
      /\ \A n \in 1..o : m[n] = l[n]
      /\ \A n \in 1..Len(r) : m[o + n] = r[n]
  BY <1>1 DEF LineOK, LineLonger
<1>3. Row(s, q, k, l) /\ Late(s, q)  BY DEF Ranked
<1>4. Row(c, q, k, m)  BY <1>3, RowLonger
<1>5. /\ \A x \in Fetching(s, q) : x \in QItems(s, q)
      /\ \A x \in Idle(s, q) : x \in QItems(s, q)
      /\ \A x \in Picks(s, q) : x \in Idle(s, q)
  BY DEF Fetching, Idle, Picks
<1>6. Late(c, q)
  <2> SUFFICES ASSUME NEW x \in Fetching(s, q) \cup Picks(s, q), NEW y \in Idle(s, q) \ Picks(s, q),
                      s.entry[x].uri = s.entry[y].uri
               PROVE  s.entry[x].pos < s.entry[y].pos
    BY <1>5 DEF Late, Sent
  <2>1. CASE x \in Fetching(s, q)  BY <1>3, <2>1 DEF Late
  <2>2. CASE x \in Picks(s, q)  BY <2>2, PicksFirst
  <2> QED  BY <2>1, <2>2
<1>7. ASSUME q \in calm, c.worker[q] = "live"
      PROVE  IF q \in A THEN Whole(c, q, k, m) ELSE Passed(c, q, k, m)
  <2>1. s.worker[q] = "live" /\ IF q \in A THEN Whole(s, q, k, l) ELSE Passed(s, q, k, l)
    BY <1>7 DEF Ranked, Sent
  <2>2. ASSUME Whole(s, q, k, l) PROVE Whole(c, q, k, m)
    <3> SUFFICES ASSUME NEW x \in Fetching(s, q) \cup Picks(s, q) PROVE HeldIn(k, m, x)
      BY DEF Whole, Sent
    <3>1. CASE x \in Fetching(s, q)
      <4>1. PICK n \in 1..o : HeldAt(k, l, n) /\ l[n].file = x
        BY <1>1, <2>2, <3>1 DEF Whole, HeldIn
      <4>2. n \in 1..Len(m) /\ m[n] = l[n]  BY <1>2, <4>1
      <4> QED  BY <4>1, <4>2 DEF HeldIn, HeldAt
    <3>2. CASE x \in Picks(s, q)
      <4>1. PICK n \in 1..Len(r) : r[n].file = x  BY <2>1, <3>2 DEF Ordered
      <4>2. o + n \in 1..Len(m) /\ o + n > k /\ m[o + n].file = x  BY <1>2, <4>1
      <4> QED  BY <4>2 DEF HeldIn, HeldAt
    <3> QED  BY <3>1, <3>2
  <2>3. ASSUME Passed(s, q, k, l) PROVE Passed(c, q, k, m)
    <3> SUFFICES ASSUME NEW n \in 1..k, NEW z \in Fetching(s, q) \cup Picks(s, q),
                        s.entry[z].uri = m[n].uri, c.entry[z].pos < c.entry[m[n].file].pos
                 PROVE  \E p \in 1..(n - 1) : HeldAt(k, m, p) /\ m[p].file = z
      BY <1>5 DEF Passed, Sent
    <3>1. n \in 1..o /\ m[n] = l[n]  BY <1>2
    <3>2. l[n].file \in Fetching(s, q) /\ l[n].uri = s.entry[l[n].file].uri
      BY <1>1, <1>3, <3>1 DEF Row, Mine, Asked
    <3>3. s.entry[z].pos < s.entry[l[n].file].pos  BY <1>5, <3>1, <3>2 DEF Sent
    <3>4. z \in Fetching(s, q)
      <4> SUFFICES ASSUME z \in Picks(s, q) PROVE FALSE  OBVIOUS
      <4>1. s.entry[l[n].file].pos < s.entry[z].pos  BY <1>3, <1>5, <3>1, <3>2 DEF Late
      <4>2. z \in QItems(s, q) /\ l[n].file \in QItems(s, q)  BY <1>5, <3>2
      <4>3. s.entry[z] \in Entry /\ s.entry[l[n].file] \in Entry
        BY <4>2 DEF QItems, Queued, Good, Memory
      <4> QED  BY <3>3, <4>1, <4>3 DEF Entry
    <3>5. PICK p \in 1..(n - 1) : HeldAt(k, l, p) /\ l[p].file = z
      BY <2>3, <3>1, <3>3, <3>4 DEF Passed
    <3>6. p \in 1..o  BY <1>2, <3>1
    <3> QED  BY <1>2, <3>5, <3>6 DEF HeldAt
  <2> QED  BY <2>1, <2>2, <2>3
<1> QED  BY <1>4, <1>6, <1>7 DEF Ranked

\* Queue::Cycle.
LEMMA CycleLined ==
    ASSUME NEW s, Good(s), NEW Qs \in SUBSET Queues, NEW c, c = Cycle(s, Qs),
           NEW I, NEW M, Typed(I, M), NEW A, NEW calm, Lined(s, I, M, A, calm)
    PROVE  Lined(c, I, M, A, calm)
<1> SUFFICES ASSUME NEW q \in Queues PROVE LinedAt(c, I, M, A, calm, q)  BY DEF Lined
<1>1. s \in Memory /\ c \in Memory /\ Cycled(s, Qs, c)
  BY CycleGood, CycleFields DEF Good
<1>2. LinedAt(s, I, M, A, calm, q)  BY DEF Lined
<1>3. /\ \A x \in Items : c.entry[x] = IF x \in Picked(s, Qs) THEN [s.entry[x] EXCEPT !.worker = "current"]
                                       ELSE s.entry[x]
      /\ c.out[q] = IF q \in Qs THEN s.out[q] \o Requests(s, q) ELSE s.out[q]
      /\ c.worker[q] = s.worker[q]
  BY <1>1 DEF Cycled
<1>4. \A x \in QItems(s, q) : /\ x \in Items
                              /\ c.entry[x].uri = s.entry[x].uri /\ c.entry[x].pos = s.entry[x].pos
                              /\ x \in Picked(s, Qs) => c.entry[x].worker = "current"
                              /\ s.entry[x].worker = "current" => c.entry[x].worker = "current"
  <2> SUFFICES ASSUME NEW x \in QItems(s, q)
               PROVE  /\ x \in Items
                      /\ c.entry[x].uri = s.entry[x].uri /\ c.entry[x].pos = s.entry[x].pos
                      /\ x \in Picked(s, Qs) => c.entry[x].worker = "current"
                      /\ s.entry[x].worker = "current" => c.entry[x].worker = "current"
    OBVIOUS
  <2>1. x \in Items /\ s.entry[x] \in Entry  BY <1>1 DEF QItems, Queued, Memory
  <2>2. CASE x \in Picked(s, Qs)
    <3>1. c.entry[x] = [s.entry[x] EXCEPT !.worker = "current"]  BY <1>3, <2>1, <2>2
    <3> QED  BY <2>1, <3>1, WithWorker
  <2>3. CASE x \notin Picked(s, Qs)
    <3>1. c.entry[x] = s.entry[x]  BY <1>3, <2>1, <2>3
    <3> QED  BY <2>1, <2>3, <3>1
  <2> QED  BY <2>2, <2>3
<1>5. /\ Fetching(c, q) = IF q \in Qs THEN Fetching(s, q) \cup Picks(s, q) ELSE Fetching(s, q)
      /\ Idle(c, q) = IF q \in Qs THEN Idle(s, q) \ Picks(s, q) ELSE Idle(s, q)
  BY CycleSets
<1>6. Asked(s, q) \subseteq Asked(c, q)
  <2>1. \A x \in Asked(s, q) : x \in QItems(s, q) /\ x \in Fetching(s, q) /\ s.entry[x].worker = "current"
    BY DEF Asked, Fetching
  <2> QED  BY <1>4, <1>5, <2>1 DEF Asked
<1>7. CASE q \notin Qs
  <2>1. Rests(s, c, q)  BY <1>4, <1>5, <1>6, <1>7 DEF Rests
  <2>2. c.out[q] = s.out[q] /\ c.worker[q] = s.worker[q]  BY <1>3, <1>7
  <2> QED  BY <1>1, <1>2, <2>1, <2>2, LinedKept
<1>8. CASE q \in Qs
  <2>1. PICK r : r = Requests(s, q)  BY Zenon
  <2>2. r \in Seq(Request) /\ Ordered(s, q, r)
    <3>1. /\ r \in Seq(Request)
          /\ \A n \in 1..Len(r) : /\ r[n].file \in Picks(s, q) /\ Rank(s, q, r[n].file) = n - 1
                                  /\ r[n].uri = s.entry[r[n].file].uri
          /\ s.worker[q] # "dead" => \A x \in Picks(s, q) : \E n \in 1..Len(r) : r[n].file = x
      BY <2>1, RequestsDo
    <3> QED  BY <3>1 DEF Ordered
  <2>3. PICK k, l, m : k = Len(I[q]) /\ l = LineAt(s, I, M, q) /\ m = LineAt(c, I, M, q)
    OBVIOUS
  <2>4. LineLonger(l, m, r)
    <3>1. c.out[q] = s.out[q] \o r  BY <1>3, <1>8, <2>1
    <3> QED  BY <1>1, <2>2, <2>3, <3>1, LongerLine
  <2>5. LineOK(l, k) /\ Ranked(s, k, l, A, calm, q)  BY <1>1, <1>2, <2>3, LineIsOK DEF LinedAt
  <2>6. Sent(s, c, q)
    <3>1. \A x \in Picks(s, q) : x \in QItems(s, q) /\ x \in Picked(s, Qs)
      BY <1>8 DEF Picks, Picked, Idle
    <3>2. Picks(s, q) \subseteq Asked(c, q)  BY <1>4, <1>5, <1>8, <3>1 DEF Asked
    <3> QED  BY <1>3, <1>4, <1>5, <1>6, <1>8, <3>2 DEF Sent
  <2>7. Ranked(c, k, m, A, calm, q)  BY <2>2, <2>4, <2>5, <2>6, RankedLonger
  <2> QED  BY <2>3, <2>7 DEF LinedAt
<1> QED  BY <1>7, <1>8

\* pkgAcquire::Enqueue.
LEMMA AcceptedLined ==
    ASSUME NEW s, Good(s), NEW it \in Items, NEW q \in Queues, NEW u, NEW up, NEW c,
           Accepted(s, it, q, u, up, c),
           NEW I, NEW M, Typed(I, M), NEW A, NEW calm, Lined(s, I, M, A, calm)
    PROVE  Lined(c, I, M, A, calm)
<1>1. PICK r, d : /\ Good(r) /\ Opened(s, q, up, r) /\ r.entry[it] = None
                  /\ Good(d) /\ Entered(r, it, q, u, d)
                  /\ IF QItems(r, q) = {} THEN c = Cycle(d, {q}) ELSE c = d
  BY DEF Accepted
<1>2. PICK w : /\ Good(w) /\ Named(s, q, w)
               /\ IF q \notin s.created /\ s.running THEN r = StartWorkers(w, {q}, up, {})
                                                     ELSE r = w
  BY <1>1 DEF Opened
<1>3. s \in Memory /\ w \in Memory /\ r \in Memory  BY <1>1, <1>2 DEF Good
<1>4. Lined(w, I, M, A, calm)
  <2>1. w.entry = s.entry /\ w.stat = s.stat /\ w.out = s.out /\ w.worker = s.worker
    BY <1>2 DEF Named, Beside
  <2>2. \A p \in Queues : Rests(s, w, p)
    BY <2>1 DEF Rests, Asked, Fetching, Idle, QItems, Queued
  <2>3. \A p \in Queues : LinedAt(s, I, M, A, calm, p)  BY DEF Lined
  <2>4. \A p \in Queues : w.out[p] = s.out[p] /\ w.worker[p] = s.worker[p]  BY <2>1
  <2>5. ASSUME NEW p \in Queues PROVE LinedAt(w, I, M, A, calm, p)
    BY <1>3, <2>2, <2>3, <2>4, LinedKept
  <2> QED  BY <2>5 DEF Lined
<1>5. Lined(r, I, M, A, calm)
  <2>1. CASE q \notin s.created /\ s.running
    <3>1. Started(w, {q}, up, r)  BY <1>2, <1>3, <2>1, StartDoes
    <3>2. Fetching(w, q) = {}
      <4>1. w.entry = s.entry  BY <1>2 DEF Named
      <4>2. \A x \in Queued(s) : s.entry[x].queue # q  BY <2>1 DEF Good, OrderOK, Queued
      <4> QED  BY <4>1, <4>2 DEF Fetching, QItems, Queued
    <3> QED  BY <1>3, <1>4, <3>1, <3>2, StartLined
  <2>2. CASE ~(q \notin s.created /\ s.running)
    <3>1. r = w  BY <1>2, <2>2
    <3> QED  BY <1>4, <3>1
  <2> QED  BY <2>1, <2>2
<1>6. Lined(d, I, M, A, calm)  BY <1>1, <1>3, <1>5, EnteredLined
<1>7. CASE QItems(r, q) = {}
  <2>1. c = Cycle(d, {q}) /\ {q} \in SUBSET Queues  BY <1>1, <1>7
  <2> QED  BY <1>1, <1>6, <2>1, CycleLined
<1>8. CASE QItems(r, q) # {}
  <2>1. c = d  BY <1>1, <1>8
  <2> QED  BY <1>6, <2>1
<1> QED  BY <1>7, <1>8

\* The item that an answer finds: the first of those with its URI.
LEMMA OwnerFirst ==
    ASSUME NEW s, Good(s), NEW q \in Queues, NEW k, NEW l, LineOK(l, k), k # 0, Row(s, q, k, l),
           NEW it, it = FindItem(s, q, l[1].uri)
    PROVE  /\ it \in Asked(s, q) /\ it # None /\ s.entry[it].uri = l[1].uri
           /\ it # l[1].file => s.entry[it].pos < s.entry[l[1].file].pos
           /\ Passed(s, q, k, l) => it = l[1].file
           /\ Final(l[1]) => \A n \in 2..Len(l) : l[n].file # it
<1>1. k \in Nat \ {0} /\ Len(l) \in Nat /\ k <= Len(l) /\ 1 \in 1..Len(l)  BY DEF LineOK
<1>2. PICK f, u : f = l[1].file /\ u = l[1].uri  OBVIOUS
<1>3. f \in Asked(s, q) /\ u = s.entry[f].uri  BY <1>1, <1>2 DEF Row, Mine
<1>4. Matches(s, q, u) = {x \in Asked(s, q) : s.entry[x].uri = u}  BY AskedMatches
<1>5. f \in Matches(s, q, u)  BY <1>3, <1>4
<1>6. it \in Matches(s, q, u) /\ it # None /\ s.entry[it].pos <= s.entry[f].pos
  <2>1. Matches(s, q, u) # {} /\ it = FindItem(s, q, u)  BY <1>2, <1>5
  <2>2. /\ it \in Matches(s, q, u) /\ it # None
        /\ \A o \in Matches(s, q, u) : s.entry[it].pos <= s.entry[o].pos
    BY <2>1, FindItemFirst
  <2> QED  BY <1>5, <2>2
<1>7. it \in Asked(s, q) /\ s.entry[it].uri = u  BY <1>4, <1>6
<1>8. \A x \in Asked(s, q) : /\ x \in Items /\ s.entry[x] # None /\ s.entry[x].queue = q
                             /\ x \in Fetching(s, q) /\ s.entry[x].pos \in Nat
  <2>1. \A x \in Asked(s, q) : x \in Items /\ s.entry[x] # None /\ s.entry[x].queue = q
                               /\ x \in Fetching(s, q)
    BY DEF Asked, Fetching, QItems, Queued
  <2>2. \A x \in Asked(s, q) : s.entry[x] \in Entry  BY <2>1 DEF Good, Memory
  <2> QED  BY <2>1, <2>2 DEF Entry
<1>9. it # f => s.entry[it].pos < s.entry[f].pos
  <2> SUFFICES ASSUME it # f PROVE s.entry[it].pos < s.entry[f].pos  OBVIOUS
  <2>1. s.entry[it].pos # s.entry[f].pos  BY <1>3, <1>7, <1>8 DEF Good, OrderOK
  <2> QED  BY <1>3, <1>6, <1>7, <1>8, <2>1
<1>10. Passed(s, q, k, l) => it = f
  <2> SUFFICES ASSUME Passed(s, q, k, l), it # f PROVE FALSE  OBVIOUS
  <2>1. 1 \in 1..k  BY <1>1
  <2>2. it \in Fetching(s, q)  BY <1>7, <1>8
  <2>3. \E m \in 1..(1 - 1) : HeldAt(k, l, m) /\ l[m].file = it
    BY <1>2, <1>7, <1>9, <2>1, <2>2 DEF Passed
  <2> QED  BY <2>3
<1>11. ASSUME Final(l[1]), NEW n \in 2..Len(l), l[n].file = it PROVE FALSE
  <2>1. n \in 1..Len(l) /\ 1 < n  BY <1>1
  <2>2. Behind(s, l[1], l[n]) /\ l[1].file # l[n].file
    BY <1>1, <1>11, <2>1 DEF Row, HeldAt
  <2>3. l[n].uri = s.entry[it].uri  BY <1>11, <2>1 DEF Row, Mine
  <2>4. s.entry[f].pos <= s.entry[it].pos  BY <1>2, <1>7, <1>11, <2>2, <2>3 DEF Behind
  <2>5. s.entry[it].pos < s.entry[f].pos  BY <1>2, <1>9, <1>11, <2>2
  <2>6. s.entry[it].pos \in Nat /\ s.entry[f].pos \in Nat  BY <1>3, <1>7, <1>8
  <2> QED  BY <2>4, <2>5, <2>6
<1> QED  BY <1>2, <1>6, <1>7, <1>9, <1>10, <1>11

\* The item of an answer leaves its queue, the answer the line.
LEMMA LeftRanked ==
    ASSUME NEW s, Good(s), NEW q \in Queues, NEW k, NEW l, LineOK(l, k), k # 0,
           NEW A, NEW calm, Ranked(s, k, l, A, calm, q), Final(l[1]),
           NEW it \in Fetching(s, q), it = FindItem(s, q, l[1].uri),
           NEW d, Left(s, q, it, d), NEW m, NEW i, LineTaken(l, k, m, i)
    PROVE  Ranked(d, i, m, A, calm, q)
<1>1. s \in Memory  BY DEF Good
<1>2. Row(s, q, k, l) /\ Late(s, q)  BY DEF Ranked
<1>3. /\ Passed(s, q, k, l) => it = l[1].file
      /\ \A n \in 2..Len(l) : l[n].file # it
  BY <1>2, OwnerFirst
<1>4. /\ k \in Nat \ {0} /\ i = k - 1 /\ Len(l) \in Nat /\ Len(m) = Len(l) - 1 /\ k <= Len(l)
      /\ \A n \in 1..Len(m) : m[n] = l[n + 1]
  BY DEF LineOK, LineTaken
<1>5. \A n \in 1..Len(m) : m[n].file # it
  <2> SUFFICES ASSUME NEW n \in 1..Len(m) PROVE m[n].file # it  OBVIOUS
  <2>1. n + 1 \in 2..Len(l) /\ m[n] = l[n + 1]  BY <1>4
  <2> QED  BY <1>3, <2>1
<1>6. /\ Fetching(d, q) = Fetching(s, q) \ {it} /\ Idle(d, q) = Idle(s, q)
      /\ \A x \in Items : x # it => d.entry[x] = s.entry[x]
      /\ d.worker[q] = s.worker[q]
  BY LeftSets DEF Left, Beside
<1>7. /\ \A x \in Fetching(s, q) : x \in Items /\ s.stat[x] = "Fetching"
      /\ \A x \in Idle(s, q) : x \in Items /\ s.stat[x] = "Idle" /\ x # it
  BY DEF Fetching, Idle, QItems, Queued
<1>8. Row(d, q, i, m)
  <2>1. Row(s, q, i, m)  BY <1>1, <1>2, TakenThin, RowThinned
  <2>2. ASSUME NEW n \in 1..Len(m)
        PROVE  m[n].file \in Asked(d, q) /\ d.entry[m[n].file] = s.entry[m[n].file]
    <3>1. m[n].file \in Asked(s, q)  BY <2>1 DEF Row, Mine
    <3>2. m[n].file \in Fetching(s, q) /\ s.entry[m[n].file].worker = "current"
      BY <3>1 DEF Asked
    <3> QED  BY <1>5, <1>6, <1>7, <3>2 DEF Asked
  <2>3. \A n \in 1..Len(m) : Mine(d, q, m[n])  BY <2>1, <2>2 DEF Row, Mine
  <2>4. \A a, b \in 1..Len(m) : Behind(s, m[a], m[b]) => Behind(d, m[a], m[b])
    BY <2>2 DEF Behind
  <2> QED  BY <2>1, <2>3, <2>4 DEF Row
<1>9. Late(d, q)  BY <1>2, <1>6, <1>7 DEF Late
<1>10. ASSUME q \in calm, d.worker[q] = "live"
      PROVE  IF q \in A THEN Whole(d, q, i, m) ELSE Passed(d, q, i, m)
  <2>1. IF q \in A THEN Whole(s, q, k, l) ELSE Passed(s, q, k, l)
    BY <1>6, <1>10 DEF Ranked
  <2>2. Passed(s, q, k, l)  BY <1>1, <1>2, <2>1, WholePassed
  <2>3. l[1].file = it  BY <1>3, <2>2
  <2>4. CASE q \in A
    <3>1. ASSUME NEW x \in Fetching(d, q) PROVE HeldIn(i, m, x)
      <4>1. x \in Fetching(s, q) /\ l[1].file # x  BY <1>6, <2>3, <3>1
      <4>2. HeldIn(k, l, x)  BY <2>1, <2>4, <4>1 DEF Whole
      <4> QED  BY <4>1, <4>2, TakenHeld
    <3> QED  BY <2>4, <3>1 DEF Whole
  <2>5. CASE q \notin A
    <3>1. \A z \in Fetching(d, q) : z \in Fetching(s, q) /\ (l[1].file # z \/ ~Final(l[1]))
      BY <1>6, <2>3
    <3>2. \A z \in Fetching(d, q) : d.entry[z] = s.entry[z]  BY <1>6, <1>7
    <3>3. ASSUME NEW n \in 1..i PROVE d.entry[m[n].file] = s.entry[m[n].file]
      <4>1. n \in 1..Len(m) /\ n + 1 \in 1..Len(l) /\ m[n] = l[n + 1]  BY <1>4
      <4>2. l[n + 1].file \in Items
        BY <1>2, <4>1 DEF Row, Mine, Asked, Fetching, QItems, Queued
      <4> QED  BY <1>5, <1>6, <4>1, <4>2
    <3>4. Passed(d, q, i, m)  BY <2>2, <3>1, <3>2, <3>3, TakenPassed
    <3> QED  BY <2>5, <3>4
  <2> QED  BY <2>4, <2>5
<1> QED  BY <1>8, <1>9, <1>10 DEF Ranked

LEMMA LeftLined ==
    ASSUME NEW s, Good(s), NEW I, NEW M, Typed(I, M), NEW q \in Queues, NEW A, NEW calm,
           Lined(s, I, M, A, calm), I[q] # << >>, Final(Head(I[q])),
           NEW it \in Fetching(s, q), it = FindItem(s, q, Head(I[q]).uri),
           NEW d, Left(s, q, it, d), NEW J, Typed(J, M), Heads(I, J, q)
    PROVE  Lined(d, J, M, A, calm)
<1>1. s \in Memory  BY DEF Good
<1>2. ASSUME NEW p \in Queues, p # q PROVE LinedAt(d, J, M, A, calm, p)
  <2>1. /\ Fetching(d, p) = Fetching(s, p) \ {it} /\ Idle(d, p) = Idle(s, p)
        /\ \A x \in Items : x # it => d.entry[x] = s.entry[x]
        /\ d.worker[p] = s.worker[p] /\ d.out[p] = s.out[p]
    BY LeftSets DEF Left, Beside
  <2>2. \A x \in QItems(s, p) : x \in Items /\ x # it  BY <1>2 DEF Fetching, QItems, Queued
  <2>3. it \notin Fetching(s, p)  BY <2>2 DEF Fetching
  <2>4. Rests(s, d, p)  BY <2>1, <2>2, <2>3 DEF Rests, Asked, Fetching
  <2>5. J[p] = I[p]  BY <1>2 DEF Heads
  <2>6. LinedAt(s, I, M, A, calm, p)  BY DEF Lined
  <2> QED  BY <1>1, <2>1, <2>4, <2>5, <2>6, LinedKept
<1>3. LinedAt(d, J, M, A, calm, q)
  <2>1. PICK k, l, m, i : /\ k = Len(I[q]) /\ l = LineAt(s, I, M, q)
                          /\ m = LineAt(s, J, M, q) /\ i = Len(J[q])
    OBVIOUS
  <2>2. LineTaken(l, k, m, i) /\ l[1] = Head(I[q])
    <3>1. J[q] = Tail(I[q]) /\ I[q] # << >>  BY DEF Heads
    <3>2. LineTaken(LineAt(s, I, M, q), Len(I[q]), LineAt(s, J, M, q), Len(J[q]))
      BY <1>1, <3>1, TakenLine
    <3>3. LineAt(s, I, M, q)[1] = Head(I[q])  BY <1>1, <3>1, TakenLine
    <3> QED  BY <2>1, <3>2, <3>3, Zenon
  <2>3. k # 0  BY <2>2 DEF LineTaken
  <2>4. LineOK(l, k) /\ Ranked(s, k, l, A, calm, q)  BY <1>1, <2>1, LineIsOK DEF Lined, LinedAt
  <2>5. Final(l[1]) /\ it = FindItem(s, q, l[1].uri)  BY <2>2
  <2>6. Ranked(d, i, m, A, calm, q)  BY <2>2, <2>3, <2>4, <2>5, LeftRanked
  <2>7. m = LineAt(d, J, M, q)  BY <2>1 DEF LineAt, Left, Beside
  <2> QED  BY <2>1, <2>6, <2>7 DEF LinedAt
<1> QED  BY <1>2, <1>3 DEF Lined

\* 201 and 400.
LEMMA AnsweredLined ==
    ASSUME NEW s, Good(s), NEW I, NEW M, Typed(I, M), NEW q \in Queues, NEW A, NEW calm,
           Lined(s, I, M, A, calm), I[q] # << >>, Final(Head(I[q])),
           NEW it \in Fetching(s, q), it = FindItem(s, q, Head(I[q]).uri),
           NEW t, Answered(s, q, it, t), NEW J, J = [I EXCEPT ![q] = Tail(@)]
    PROVE  Lined(t, J, M, A, calm)
<1>1. PICK c, b : Finished(s, q, it, c) /\ Good(c) /\ Same(c, b) /\ Good(b) /\ Owned(b, it, t)
  BY DEF Answered
<1>2. PICK d : Good(d) /\ Left(s, q, it, d) /\ c = Cycle(d, {q})
  BY <1>1 DEF Finished
<1>3. it \in Items /\ Typed(J, M) /\ Heads(I, J, q)
  <2>1. it \in Items  BY DEF Fetching, QItems, Queued
  <2>2. I[q] \in Seq(Message)  BY DEF Typed
  <2> QED  BY <2>1, <2>2 DEF Typed, Heads
<1>4. Lined(d, J, M, A, calm)  BY <1>2, <1>3, LeftLined
<1>5. Lined(c, J, M, A, calm)  BY <1>2, <1>3, <1>4, CycleLined
<1>6. c \in Memory /\ b \in Memory  BY <1>1 DEF Good
<1>7. Lined(b, J, M, A, calm)  BY <1>1, <1>3, <1>5, <1>6, SameLined
<1>8. CASE Same(b, t)  BY <1>3, <1>6, <1>7, <1>8, SameLined
<1>9. CASE \E u, up, f : u \in URIs /\ Accepted(b, it, QueueOf[u], u, up, f) /\ Good(f) /\ Same(f, t)
  <2>1. PICK u, up, f : u \in URIs /\ Accepted(b, it, QueueOf[u], u, up, f) /\ Good(f) /\ Same(f, t)
    BY <1>9
  <2>2. QueueOf[u] \in Queues /\ f \in Memory  BY <2>1, ConstantsOK DEF ConstantsOK, Good
  <2>3. Lined(f, J, M, A, calm)  BY <1>1, <1>3, <1>7, <2>1, <2>2, AcceptedLined
  <2> QED  BY <1>3, <2>1, <2>2, <2>3, SameLined
<1> QED  BY <1>1, <1>8, <1>9 DEF Owned

-----------------------------------------------------------------------------
(* The invariant of the lines without redirects, and its steps.            *)

\* No method told of a redirect.
Plain(I) == \A q \in Queues : \A n \in 1..Len(I[q]) : I[q][n].kind # "redirect"
LineInv == Lined(st, inp, meth, alive, Calm) /\ Plain(inp)

\* A message is taken, or one that is no redirect comes.
LEMMA PlainKept ==
    ASSUME NEW I, NEW M, Typed(I, M), Plain(I), NEW q \in Queues, NEW J,
           \A p \in Queues \ {q} : J[p] = I[p],
           \/ J[q] = << >>
           \/ I[q] # << >> /\ J[q] = Tail(I[q])
           \/ \E x \in Message : x.kind # "redirect" /\ J[q] = Append(I[q], x)
    PROVE  Plain(J)
<1>1. I[q] \in Seq(Message) /\ \A n \in 1..Len(I[q]) : I[q][n].kind # "redirect"
  BY DEF Typed, Plain
<1>2. \A n \in 1..Len(J[q]) : J[q][n].kind # "redirect"
  <2>1. CASE J[q] = << >>  BY <2>1
  <2>2. CASE I[q] # << >> /\ J[q] = Tail(I[q])
    <3>1. /\ Len(I[q]) \in Nat /\ Len(J[q]) = Len(I[q]) - 1
          /\ \A n \in 1..(Len(I[q]) - 1) : J[q][n] = I[q][n + 1]
      BY <1>1, <2>2, HeadTailProperties, EmptySeq
    <3>2. \A n \in 1..Len(J[q]) : n + 1 \in 1..Len(I[q]) /\ J[q][n] = I[q][n + 1]  BY <3>1
    <3> QED  BY <1>1, <3>2
  <2>3. CASE \E x \in Message : x.kind # "redirect" /\ J[q] = Append(I[q], x)
    <3>1. PICK x \in Message : x.kind # "redirect" /\ J[q] = Append(I[q], x)  BY <2>3
    <3>2. /\ Len(I[q]) \in Nat /\ Len(J[q]) = Len(I[q]) + 1 /\ J[q][Len(I[q]) + 1] = x
          /\ \A n \in 1..Len(I[q]) : J[q][n] = I[q][n]
      BY <1>1, <3>1, AppendProperties
    <3>3. \A n \in 1..Len(J[q]) : n = Len(I[q]) + 1 \/ n \in 1..Len(I[q])  BY <3>2
    <3> QED  BY <1>1, <3>1, <3>2, <3>3
  <2> QED  BY <2>1, <2>2, <2>3
<1>3. \A p \in Queues \ {q} : \A n \in 1..Len(J[p]) : J[p][n].kind # "redirect"
  BY DEF Plain
<1> QED  BY <1>2, <1>3 DEF Plain

\* The first message of a line.
LEMMA HeadOfLine ==
    ASSUME NEW s \in Memory, NEW I, NEW M, Typed(I, M), NEW q \in Queues, I[q] # << >>
    PROVE  /\ LineOK(LineAt(s, I, M, q), Len(I[q])) /\ Len(I[q]) # 0
           /\ LineAt(s, I, M, q)[1] = Head(I[q]) /\ Head(I[q]) = I[q][1] /\ 1 \in 1..Len(I[q])
<1>1. PICK l, k, j, o : /\ l = LineAt(s, I, M, q) /\ k = Len(I[q]) /\ j = Len(M[q])
                        /\ o = Len(s.out[q])
  OBVIOUS
<1>2. Parted(l, I[q], M[q], s.out[q], k, j, o)  BY <1>1, LineParts
<1>3. I[q] \in Seq(Message)  BY DEF Typed
<1>4. k \in Nat /\ k # 0 /\ Head(I[q]) = I[q][1] /\ 1 \in 1..k  BY <1>1, <1>3
<1>5. l[1] = I[q][1]  BY <1>2, <1>4 DEF Parted
<1>6. LineOK(l, k)  BY <1>1, LineIsOK
<1> QED  BY <1>1, <1>4, <1>5, <1>6

\* The item that a message finds.
LEMMA HeadOwned ==
    ASSUME NEW s, Good(s), NEW I, NEW M, Typed(I, M), NEW A, NEW calm, Lined(s, I, M, A, calm),
           NEW q \in Queues, I[q] # << >>, NEW it, it = FindItem(s, q, Head(I[q]).uri)
    PROVE  /\ it # None
           /\ (q \in calm /\ s.worker[q] = "live") => it = Head(I[q]).file
<1>1. s \in Memory  BY DEF Good
<1>2. PICK l, k : l = LineAt(s, I, M, q) /\ k = Len(I[q])  OBVIOUS
<1>3. LineOK(l, k) /\ k # 0 /\ l[1] = Head(I[q])  BY <1>1, <1>2, HeadOfLine
<1>4. Ranked(s, k, l, A, calm, q)  BY <1>2 DEF Lined, LinedAt
<1>5. Row(s, q, k, l)  BY <1>4 DEF Ranked
<1>6. it = FindItem(s, q, l[1].uri)  BY <1>3
<1>7. it # None /\ (Passed(s, q, k, l) => it = l[1].file)  BY <1>3, <1>5, <1>6, OwnerFirst
<1>8. (q \in calm /\ s.worker[q] = "live") => Passed(s, q, k, l)
  <2>1. Whole(s, q, k, l) => Passed(s, q, k, l)  BY <1>1, <1>3, <1>5, WholePassed
  <2> QED  BY <1>4, <2>1 DEF Ranked
<1> QED  BY <1>3, <1>7, <1>8

\* The methods of workers that are yet to come change nothing.
LEMMA MoreAlive ==
    ASSUME NEW s, NEW I, NEW M, NEW A, NEW calm, Lined(s, I, M, A, calm),
           NEW B, \A q \in Queues : s.worker[q] = "live" => (q \in A <=> q \in B)
    PROVE  Lined(s, I, M, B, calm)
BY DEF Lined, LinedAt, Ranked

LEMMA SpawnedLined ==
    ASSUME Inv, LineInv, NEW t
    PROVE  Lined(st, inp, meth, alive \cup Spawned(st, t), Calm)
<1>1. Lined(st, inp, meth, alive, Calm)  BY DEF LineInv
<1>2. \A q \in Queues : st.worker[q] = "live" => (q \in alive <=> q \in alive \cup Spawned(st, t))
  BY DEF Spawned
<1> QED  BY <1>1, <1>2, MoreAlive

\* 201 and 400.
LEMMA AnswerLined ==
    ASSUME Inv, FlowInv, LineInv, NEW q \in Queues, NEW kind \in {"done", "fail"},
           NEW finals \in SUBSET {"Done", "Error", "Idle"}, Answer(q, kind, finals)
    PROVE  LineInv'
<1>1. PICK it : it = FindItem(st, q, Head(inp[q]).uri)  BY Zenon
<1>2. \/ it = None /\ Same(st, st') /\ st'.err = TRUE
      \/ it \in Fetching(st, q) /\ Answered(st, q, it, st')
  BY <1>1, AnswerDoes
<1>3. /\ Good(st) /\ Typed(inp, meth) /\ inp[q] # << >> /\ Final(Head(inp[q]))
      /\ inp' = [inp EXCEPT ![q] = Tail(@)] /\ meth' = meth /\ Calm' = Calm
      /\ alive' = alive \cup Spawned(st, st')
  BY FlowFacts DEF Answer, Take, Final, Calm, Clean
<1>4. Lined(st, inp, meth, alive', Calm)
  <2>1. Lined(st, inp, meth, alive \cup Spawned(st, st'), Calm)  BY SpawnedLined
  <2> QED  BY <1>3, <2>1
<1>5. it # None  BY <1>1, <1>3, <1>4, HeadOwned
<1>6. it \in Fetching(st, q) /\ Answered(st, q, it, st')  BY <1>2, <1>5
<1>7. Lined(st', inp', meth, alive', Calm)
  <2>1. PICK J : J = [inp EXCEPT ![q] = Tail(@)]  BY Zenon
  <2>2. Lined(st', J, meth, alive', Calm)  BY <1>1, <1>3, <1>4, <1>6, <2>1, AnsweredLined
  <2> QED  BY <1>3, <2>1, <2>2
<1>8. Plain(inp')
  <2>1. inp'[q] = Tail(inp[q]) /\ \A p \in Queues \ {q} : inp'[p] = inp[p]  BY <1>3 DEF Typed
  <2> QED  BY <1>3, <2>1, PlainKept DEF LineInv
<1> QED  BY <1>3, <1>7, <1>8 DEF LineInv

\* The lines of two memories with the same lists.
LEMMA ListsRest ==
    ASSUME NEW s, NEW t, t.entry = s.entry, t.stat = s.stat, NEW q
    PROVE  Rests(s, t, q)
BY DEF Rests, Asked, Fetching, Idle, QItems, Queued

\* A step of one queue's line.
LEMMA OneLined ==
    ASSUME Inv, FlowInv, LineInv, NEW q \in Queues, st'.entry = st.entry, st'.stat = st.stat,
           \A p \in Queues \ {q} : /\ st'.worker[p] = st.worker[p]
                                   /\ p \in alive' <=> p \in alive,
           Aside(st, inp, meth, st', inp', meth', q), Calm' = Calm, Plain(inp'),
           LinedAt(st', inp', meth', alive', Calm, q)
    PROVE  LineInv'
<1>1. ASSUME NEW p \in Queues, p # q PROVE LinedAt(st', inp', meth', alive', Calm, p)
  <2>1. /\ inp'[p] = inp[p] /\ meth'[p] = meth[p] /\ st'.out[p] = st.out[p]
        /\ st'.worker[p] = st.worker[p] /\ (p \in alive <=> p \in alive')
    BY <1>1 DEF Aside
  <2>2. Rests(st, st', p)  BY ListsRest
  <2>3. st \in Memory /\ Typed(inp, meth)  BY FlowFacts
  <2>4. LinedAt(st, inp, meth, alive, Calm, p)  BY DEF LineInv, Lined
  <2> QED  BY <2>1, <2>2, <2>3, <2>4, LinedKept
<1>2. Lined(st', inp', meth', alive', Calm)  BY <1>1 DEF Lined
<1> QED  BY <1>2 DEF LineInv

\* 200 leaves the places of the line that hold items.
LEMMA NewsRanked ==
    ASSUME NEW s \in Memory, NEW q, NEW k, NEW l, LineOK(l, k), NEW A, NEW calm,
           Ranked(s, k, l, A, calm, q), ~Final(l[1]), NEW m, NEW i, LineTaken(l, k, m, i)
    PROVE  Ranked(s, i, m, A, calm, q)
<1>1. Thin(l, k, m, i)  BY TakenThin
<1>2. Row(s, q, i, m)  BY <1>1, RowThinned DEF Ranked
<1>3. Whole(s, q, k, l) => Whole(s, q, i, m)  BY TakenHeld DEF Whole
<1>4. Passed(s, q, k, l) => Passed(s, q, i, m)  BY TakenPassed
<1> QED  BY <1>2, <1>3, <1>4 DEF Ranked

LEMMA NewsLined ==
    ASSUME Inv, Inv', FlowInv, LineInv, NEW q \in Queues, URIStart(q) \/ Redirect(q)
    PROVE  LineInv'
<1>1. /\ st \in Memory /\ Good(st) /\ Typed(inp, meth) /\ inp[q] # << >>
      /\ inp' = [inp EXCEPT ![q] = Tail(@)] /\ meth' = meth /\ alive' = alive /\ Calm' = Calm
  BY FlowFacts DEF URIStart, Redirect, Take, Calm, Clean
<1>2. Head(inp[q]) = inp[q][1] /\ 1 \in 1..Len(inp[q])  BY <1>1, HeadOfLine
<1>3. Head(inp[q]).kind # "redirect"  BY <1>2 DEF LineInv, Plain
<1>4. URIStart(q) /\ ~Final(Head(inp[q]))  BY <1>3 DEF Redirect, URIStart, Final
<1>5. Steady(st, st') /\ st'.out = st.out  BY NewsDoes
<1>6. st'.stat = st.stat /\ st'.worker = st.worker  BY <1>5 DEF Steady
<1>7. st'.entry = st.entry
  <2>1. \/ st' = [st EXCEPT !.err = TRUE]
        \/ \E it : st' = [st EXCEPT !.current[q] = it, !.stat[it] = "Fetching"]
    BY <1>4 DEF URIStart
  <2> QED  BY <1>1, <2>1 DEF Memory
<1>8. inp'[q] = Tail(inp[q]) /\ \A p \in Queues \ {q} : inp'[p] = inp[p]  BY <1>1 DEF Typed
<1>9. Aside(st, inp, meth, st', inp', meth', q)  BY <1>1, <1>5, <1>8 DEF Aside
<1>10. Plain(inp')  BY <1>1, <1>8, PlainKept DEF LineInv
<1>11. LinedAt(st', inp', meth', alive', Calm, q)
  <2>1. PICK l, k, m, i : /\ l = LineAt(st, inp, meth, q) /\ k = Len(inp[q])
                          /\ m = LineAt(st, inp', meth, q) /\ i = Len(inp'[q])
    OBVIOUS
  <2>2. LineOK(l, k) /\ l[1] = Head(inp[q])  BY <1>1, <2>1, HeadOfLine
  <2>3. LineTaken(l, k, m, i)
    <3>1. Typed(inp', meth)  BY <1>1 DEF Inv, TypeOK, Typed
    <3>2. LineTaken(LineAt(st, inp, meth, q), Len(inp[q]), LineAt(st, inp', meth, q), Len(inp'[q]))
      BY <1>1, <1>8, <3>1, TakenLine
    <3> QED  BY <2>1, <3>2, Zenon
  <2>4. Ranked(st, k, l, alive, Calm, q)  BY <2>1 DEF LineInv, Lined, LinedAt
  <2>5. Ranked(st, i, m, alive, Calm, q)  BY <1>1, <1>4, <2>2, <2>3, <2>4, NewsRanked
  <2>6. LinedAt(st, inp', meth, alive, Calm, q)  BY <2>1, <2>5 DEF LinedAt
  <2>7. Typed(inp', meth)  BY <1>1 DEF Inv, TypeOK, Typed
  <2>8. Rests(st, st', q)  BY <1>6, <1>7, ListsRest
  <2>9. st'.out[q] = st.out[q] /\ st'.worker[q] = st.worker[q]  BY <1>5, <1>6
  <2> QED  BY <1>1, <2>6, <2>7, <2>8, <2>9, LinedKept
<1> QED  BY <1>1, <1>6, <1>7, <1>9, <1>10, <1>11, OneLined

\* The worker learns that its method died, and forgets what was on the line.
LEMMA FailureLined ==
    ASSUME Inv, FlowInv, LineInv, NEW q \in Queues, MethodFailure(q)
    PROVE  LineInv'
<1>1. /\ st \in Memory /\ Typed(inp, meth) /\ meth' = meth /\ alive' = alive /\ Calm' = Calm
      /\ inp' = [inp EXCEPT ![q] = << >>] /\ st.worker[q] = "live" /\ q \notin alive
      /\ Flows(st, inp, meth, Lost, Calm, {})
  BY FlowFacts DEF MethodFailure, FlowInv, Calm, Clean
<1>2. /\ st'.out = [st.out EXCEPT ![q] = << >>] /\ st'.stat = st.stat /\ st'.entry = st.entry
      /\ st'.worker = [st.worker EXCEPT ![q] = "dead"]
  BY <1>1 DEF MethodFailure, Memory
<1>3. \A p \in Queues : /\ st'.out[p] = IF p = q THEN << >> ELSE st.out[p]
                        /\ inp'[p] = IF p = q THEN << >> ELSE inp[p]
                        /\ st'.worker[p] = IF p = q THEN "dead" ELSE st.worker[p]
  BY <1>1, <1>2 DEF Memory, Typed
<1>4. meth'[q] = << >>
  <2>1. q \in Lost  BY <1>1 DEF Lost, Live
  <2> QED  BY <1>1, <2>1 DEF Flows, Flow, Wired
<1>5. Aside(st, inp, meth, st', inp', meth', q)  BY <1>1, <1>3 DEF Aside
<1>6. Plain(inp')
  <2>1. inp'[q] = << >> /\ \A p \in Queues \ {q} : inp'[p] = inp[p]  BY <1>3
  <2> QED  BY <1>1, <2>1, PlainKept DEF LineInv
<1>7. LinedAt(st', inp', meth', alive', Calm, q)
  <2>1. PICK l : l = LineAt(st', inp', meth', q)  BY Zenon
  <2>2. l = << >>
    <3>1. << >> \o (<< >> \o << >>) = << >>  OBVIOUS
    <3> QED  BY <1>3, <1>4, <2>1, <3>1 DEF LineAt
  <2>3. Row(st', q, Len(inp'[q]), l)  BY <2>2 DEF Row
  <2>4. Late(st', q)
    <3>1. Late(st, q)  BY DEF LineInv, Lined, LinedAt, Ranked
    <3> QED  BY <1>2, <3>1 DEF Late, Fetching, Idle, QItems, Queued
  <2>5. st'.worker[q] = "dead"  BY <1>3
  <2> QED  BY <2>1, <2>3, <2>4, <2>5 DEF LinedAt, Ranked
<1> QED  BY <1>1, <1>2, <1>3, <1>5, <1>6, <1>7, OneLined

\* A step of the method of one queue.
LEMMA MovedLined ==
    ASSUME Inv, FlowInv, LineInv, NEW q \in Queues, st' = st, results' = results,
           Aside(st, inp, meth, st', inp', meth', q), Plain(inp'),
           \A p \in Queues \ {q} : p \in alive' <=> p \in alive,
           ASSUME NEW l, l = LineAt(st, inp, meth, q), NEW k, k = Len(inp[q]),
                  LineOK(l, k), Ranked(st, k, l, alive, Calm, q)
           PROVE  Ranked(st, Len(inp'[q]), LineAt(st, inp', meth', q), alive', Calm, q)
    PROVE  LineInv'
<1>1. st \in Memory /\ Typed(inp, meth)  BY FlowFacts
<1>2. LineOK(LineAt(st, inp, meth, q), Len(inp[q]))  BY <1>1, LineIsOK
<1>3. Ranked(st, Len(inp[q]), LineAt(st, inp, meth, q), alive, Calm, q)
  BY DEF LineInv, Lined, LinedAt
<1>4. Ranked(st, Len(inp'[q]), LineAt(st, inp', meth', q), alive', Calm, q)  BY <1>2, <1>3
<1>5. LinedAt(st', inp', meth', alive', Calm, q)  BY <1>4 DEF LinedAt
<1>6. Calm' = Calm  BY DEF Calm, Clean
<1> QED  BY <1>5, <1>6, OneLined

\* A line that thins out and keeps what it holds.
LEMMA ThinRanked ==
    ASSUME NEW s \in Memory, NEW q, NEW k, NEW l, LineOK(l, k), NEW A, NEW calm, q \in A,
           Ranked(s, k, l, A, calm, q), NEW m, NEW i, Thin(l, k, m, i),
           \A x : HeldIn(k, l, x) => HeldIn(i, m, x)
    PROVE  Ranked(s, i, m, A, calm, q)
<1>1. Row(s, q, i, m)  BY RowThinned DEF Ranked
<1>2. Whole(s, q, k, l) => Whole(s, q, i, m)  BY DEF Whole
<1> QED  BY <1>1, <1>2 DEF Ranked

\* The method takes a request from the pipe.
LEMMA ReadLined ==
    ASSUME Inv, Inv', FlowInv, LineInv, NEW q \in Queues, MethodRead(q)
    PROVE  LineInv'
<1>1. /\ st \in Memory /\ st' \in Memory /\ Typed(inp, meth) /\ Typed(inp', meth')
  BY FlowFacts DEF Inv, TypeOK, Typed
<1>2. /\ st.out[q] # << >> /\ meth' = [meth EXCEPT ![q] = Append(@, Head(st.out[q]))]
      /\ st' = [st EXCEPT !.out[q] = Tail(@)] /\ inp' = inp /\ alive' = alive /\ Calm' = Calm
  BY DEF MethodRead, Calm, Clean
<1>3. /\ st'.out = [st.out EXCEPT ![q] = Tail(@)] /\ st'.stat = st.stat /\ st'.entry = st.entry
      /\ st'.worker = st.worker
  BY <1>1, <1>2 DEF Memory
<1>4. Aside(st, inp, meth, st', inp', meth', q)
  BY <1>1, <1>2, <1>3 DEF Aside, Typed, Memory
<1>5. st'.out[q] = Tail(st.out[q]) /\ meth'[q] = Append(meth[q], Head(st.out[q]))
  BY <1>1, <1>2, <1>3 DEF Typed, Memory
<1>6. LineAt(st', inp, meth', q) = LineAt(st, inp, meth, q)
  <2>1. Typed(inp, meth')  BY <1>1, <1>2
  <2>2. st.out[q] # << >>  BY <1>2
  <2> QED  BY <1>1, <1>5, <2>1, <2>2, ReadLine
<1>7. PICK l, k : l = LineAt(st, inp, meth, q) /\ k = Len(inp[q])  OBVIOUS
<1>8. LineOK(l, k) /\ Ranked(st, k, l, alive, Calm, q)
  BY <1>1, <1>7, LineIsOK DEF LineInv, Lined, LinedAt
<1>9. Rests(st, st', q)  BY <1>3, ListsRest
<1>10. st'.worker[q] = st.worker[q]  BY <1>3
<1>11. Ranked(st', k, l, alive, Calm, q)  BY <1>8, <1>9, <1>10, RankedKept
<1>12. LinedAt(st', inp', meth', alive', Calm, q)  BY <1>2, <1>6, <1>7, <1>11 DEF LinedAt
<1>13. Plain(inp')  BY <1>2 DEF LineInv
<1> QED  BY <1>2, <1>3, <1>4, <1>12, <1>13, OneLined

\* pkgAcqMethod::URIStart.
LEMMA BeginLined ==
    ASSUME Inv, Inv', FlowInv, LineInv, NEW q \in Queues, MethodStart(q)
    PROVE  LineInv'
<1>1. /\ st \in Memory /\ Typed(inp, meth) /\ Typed(inp', meth') /\ st' = st /\ meth[q] # << >>
      /\ alive' = alive /\ q \in alive /\ results' = results
  BY FlowFacts DEF Inv, TypeOK, Typed, MethodStart
<1>2. Head(meth[q]) \in Request /\ Head(meth[q]) = meth[q][1]  BY <1>1 DEF Typed
<1>3. Head(meth[q]).uri \in URIs  BY <1>2 DEF Request
<1>4. PICK x \in Message :
        /\ inp'[q] = Append(inp[q], x) /\ \A p \in Queues \ {q} : inp'[p] = inp[p]
        /\ x.kind = "start" /\ x.uri = Head(meth[q]).uri /\ x.file = Head(meth[q]).file
  <2>1. Say(q, "start", Head(meth[q]).uri)  BY DEF MethodStart
  <2> QED  BY <1>1, <1>3, <2>1, SayDoes
<1> DEFINE r == [meth[q][1] EXCEPT !.begun = TRUE]
<1>5. r \in Request /\ r.uri = x.uri /\ r.file = x.file  BY <1>2, <1>4 DEF Request
<1>6. meth' = [meth EXCEPT ![q] = [meth[q] EXCEPT ![1] = r]]  BY DEF MethodStart
<1> HIDE DEF r
<1>7. meth'[q] = [meth[q] EXCEPT ![1] = r] /\ \A p \in Queues \ {q} : meth'[p] = meth[p]
  BY <1>1, <1>6 DEF Typed
<1>8. Aside(st, inp, meth, st', inp', meth', q)  BY <1>1, <1>4, <1>7 DEF Aside
<1>9. LineBegun(LineAt(st, inp, meth, q), Len(inp[q]), LineAt(st, inp', meth', q), Len(inp'[q]))
  BY <1>1, <1>4, <1>5, <1>7, BegunLine
<1>10. ASSUME NEW l, l = LineAt(st, inp, meth, q), NEW k, k = Len(inp[q]),
              LineOK(l, k), Ranked(st, k, l, alive, Calm, q)
       PROVE  Ranked(st, Len(inp'[q]), LineAt(st, inp', meth', q), alive', Calm, q)
  <2>1. PICK m, i : m = LineAt(st, inp', meth', q) /\ i = Len(inp'[q])  OBVIOUS
  <2>2. LineBegun(l, k, m, i)  BY <1>9, <1>10, <2>1
  <2>3. Thin(l, k, m, i) /\ \A y : HeldIn(k, l, y) => HeldIn(i, m, y)  BY <1>10, <2>2, BegunThin
  <2>4. Ranked(st, i, m, alive, Calm, q)  BY <1>1, <1>10, <2>3, ThinRanked
  <2> QED  BY <1>1, <2>1, <2>4
<1>11. Plain(inp')
  <2>1. x.kind # "redirect"  BY <1>4
  <2> QED  BY <1>1, <1>4, <2>1, PlainKept DEF LineInv
<1>12. \A p \in Queues \ {q} : p \in alive' <=> p \in alive  BY <1>1
<1> QED  BY <1>1, <1>8, <1>10, <1>11, <1>12, MovedLined

\* pkgAcqMethod::URIDone and Fail.
LEMMA ReplyLined ==
    ASSUME Inv, Inv', FlowInv, LineInv, NEW q \in Queues, MethodAnswer(q)
    PROVE  LineInv'
<1>1. /\ st \in Memory /\ Typed(inp, meth) /\ Typed(inp', meth') /\ st' = st /\ meth[q] # << >>
      /\ alive' = alive /\ q \in alive /\ results' = results
  BY FlowFacts DEF Inv, TypeOK, Typed, MethodAnswer
<1>2. Head(meth[q]) \in Request  BY <1>1 DEF Typed
<1>3. Head(meth[q]).uri \in URIs  BY <1>2 DEF Request
<1>4. PICK kind \in {"done", "fail"} : Say(q, kind, Head(meth[q]).uri)  BY DEF MethodAnswer
<1>5. PICK x \in Message :
        /\ inp'[q] = Append(inp[q], x) /\ \A p \in Queues \ {q} : inp'[p] = inp[p]
        /\ x.kind = kind /\ x.uri = Head(meth[q]).uri /\ x.file = Head(meth[q]).file
  BY <1>1, <1>3, <1>4, SayDoes
<1>6. Final(x) /\ x.kind # "redirect"  BY <1>5 DEF Final
<1>7. meth'[q] = Tail(meth[q]) /\ \A p \in Queues \ {q} : meth'[p] = meth[p]
  BY <1>1 DEF MethodAnswer, Typed
<1>8. Aside(st, inp, meth, st', inp', meth', q)  BY <1>1, <1>5, <1>7 DEF Aside
<1>9. LineAnswered(LineAt(st, inp, meth, q), Len(inp[q]), LineAt(st, inp', meth', q), Len(inp'[q]))
  BY <1>1, <1>5, <1>6, <1>7, AnsweredLine
<1>10. ASSUME NEW l, l = LineAt(st, inp, meth, q), NEW k, k = Len(inp[q]),
              LineOK(l, k), Ranked(st, k, l, alive, Calm, q)
       PROVE  Ranked(st, Len(inp'[q]), LineAt(st, inp', meth', q), alive', Calm, q)
  <2>1. PICK m, i : m = LineAt(st, inp', meth', q) /\ i = Len(inp'[q])  OBVIOUS
  <2>2. LineAnswered(l, k, m, i)  BY <1>9, <1>10, <2>1
  <2>3. Thin(l, k, m, i) /\ \A y : HeldIn(k, l, y) => HeldIn(i, m, y)  BY <1>10, <2>2, AnsweredThin
  <2>4. Ranked(st, i, m, alive, Calm, q)  BY <1>1, <1>10, <2>3, ThinRanked
  <2> QED  BY <1>1, <2>1, <2>4
<1>11. Plain(inp')  BY <1>1, <1>5, <1>6, PlainKept DEF LineInv
<1>12. \A p \in Queues \ {q} : p \in alive' <=> p \in alive  BY <1>1
<1> QED  BY <1>1, <1>8, <1>10, <1>11, <1>12, MovedLined

\* A method that follows no redirect sends none.
LEMMA NoRedirect == ASSUME Inv, FlowInv, MaxHops = 0, NEW q \in Queues PROVE ~MethodRedirect(q)
<1> SUFFICES ASSUME MethodRedirect(q) PROVE FALSE  OBVIOUS
<1>1. meth[q] # << >> /\ meth[q] \in Seq(Request) /\ Head(meth[q]).hops < MaxHops
  BY FlowFacts DEF MethodRedirect
<1>2. Head(meth[q]).hops \in Nat
  <2>1. Head(meth[q]) \in Request  BY <1>1
  <2> QED  BY <2>1 DEF Request
<1> QED  BY <1>1, <1>2

\* A method dies with what it held.
LEMMA DieLined ==
    ASSUME Inv, Inv', FlowInv, LineInv, NEW q \in Queues, MethodDie(q)
    PROVE  LineInv'
<1>1. /\ st \in Memory /\ Typed(inp, meth) /\ Typed(inp', meth') /\ st' = st /\ inp' = inp
      /\ meth' = [meth EXCEPT ![q] = << >>] /\ alive' = alive \ {q} /\ q \in alive
      /\ results' = results
  BY FlowFacts DEF Inv, TypeOK, Typed, MethodDie
<1>2. meth'[q] = << >> /\ \A p \in Queues \ {q} : meth'[p] = meth[p]  BY <1>1 DEF Typed
<1>3. Aside(st, inp, meth, st', inp', meth', q)  BY <1>1, <1>2 DEF Aside
<1>4. LineDied(LineAt(st, inp, meth, q), Len(inp[q]), Len(meth[q]),
               LineAt(st, inp, meth', q), Len(inp[q]))
  <2>1. Typed(inp, meth')  BY <1>1
  <2> QED  BY <1>1, <1>2, <2>1, DiedLine
<1>5. ASSUME NEW l, l = LineAt(st, inp, meth, q), NEW k, k = Len(inp[q]),
             LineOK(l, k), Ranked(st, k, l, alive, Calm, q)
      PROVE  Ranked(st, Len(inp'[q]), LineAt(st, inp', meth', q), alive', Calm, q)
  <2>1. PICK m, j : m = LineAt(st, inp, meth', q) /\ j = Len(meth[q])  OBVIOUS
  <2>2. LineDied(l, k, j, m, k)  BY <1>4, <1>5, <2>1
  <2>3. Row(st, q, k, l) /\ Late(st, q)  BY <1>5 DEF Ranked
  <2>4. Thin(l, k, m, k)  BY <1>5, <2>2, DiedThin
  <2>5. Row(st, q, k, m)  BY <1>1, <2>3, <2>4, RowThinned
  <2>6. (q \in Calm /\ st.worker[q] = "live") => Passed(st, q, k, m)
    <3>1. Whole(st, q, k, l) => Passed(st, q, k, l)  BY <1>1, <1>5, <2>3, WholePassed
    <3>2. Passed(st, q, k, l) => Passed(st, q, k, m)  BY <1>5, <2>2, DiedPassed
    <3> QED  BY <1>1, <1>5, <3>1, <3>2 DEF Ranked
  <2>7. Ranked(st, k, m, alive', Calm, q)  BY <1>1, <2>3, <2>5, <2>6 DEF Ranked
  <2> QED  BY <1>1, <1>5, <2>1, <2>7
<1>6. Plain(inp')  BY <1>1 DEF LineInv
<1>7. \A p \in Queues \ {q} : p \in alive' <=> p \in alive  BY <1>1
<1> QED  BY <1>1, <1>3, <1>5, <1>6, <1>7, MovedLined

\* An item enters while no Run is on.
LEMMA ConstructLined ==
    ASSUME Inv, FlowInv, LineInv, NEW it \in Items, Construct(it)
    PROVE  LineInv'
<1> DEFINE s == [st EXCEPT !.born = @ \cup {it}]
<1>1. PICK ok \in BOOLEAN : st' = Enqueue(s, it, FirstURI[it], ok, {})
  BY DEF Construct
<1>2. /\ st \in Memory /\ Good(st) /\ Typed(inp, meth) /\ meth' = meth /\ inp' = inp
      /\ it \notin st.born /\ alive' = alive /\ Calm' = Calm
  BY FlowFacts DEF Construct, Calm, Clean
<1>3. s \in Memory  BY <1>2 DEF Memory
<1>4. /\ s.stat = st.stat /\ s.entry = st.entry /\ s.depth = st.depth /\ s.maxd = st.maxd
      /\ s.tail = st.tail /\ s.created = st.created /\ s.toFetch = st.toFetch
      /\ s.born = st.born \cup {it} /\ s.err = st.err /\ s.current = st.current
      /\ s.worker = st.worker /\ s.out = st.out /\ s.pref = st.pref /\ s.running = st.running
      /\ s.err \in BOOLEAN
  BY <1>2 DEF Memory
<1> HIDE DEF s
<1>5. Same(st, s)  BY <1>4 DEF Same, Beside
<1>6. Good(s)
  <2>1. Alike(st, s)  BY <1>2, <1>4 DEF Alike, Good, WorkerOK
  <2> QED  BY <1>2, <1>3, <2>1, AlikeGood
<1>7. Lined(s, inp, meth, alive, Calm)  BY <1>2, <1>5, SameLined DEF LineInv
<1>8. s.entry[it] = None /\ it \in s.born
  BY <1>2, <1>4 DEF Construct, Good, BornOK, Queued
<1> DEFINE u == FirstURI[it]
           q == QueueOf[u]
<1>9. u \in URIs /\ q \in Queues  BY ConstantsOK DEF ConstantsOK
<1>10. Refused(s, st') \/ Accepted(s, it, q, u, {}, st')
  BY <1>1, <1>6, <1>8, <1>9, EnqueueSteps
<1> HIDE DEF u, q
<1>11. CASE Refused(s, st')
  <2>1. Same(s, st')  BY <1>11 DEF Refused, Same, Beside
  <2>2. Lined(st', inp, meth, alive, Calm)  BY <1>2, <1>3, <1>7, <2>1, SameLined
  <2> QED  BY <1>2, <2>2 DEF LineInv
<1>12. CASE Accepted(s, it, q, u, {}, st')
  <2>1. Lined(st', inp, meth, alive, Calm)  BY <1>2, <1>6, <1>7, <1>9, <1>12, AcceptedLined
  <2> QED  BY <1>2, <2>1 DEF LineInv
<1> QED  BY <1>10, <1>11, <1>12

\* Run starts: the workers start, and every queue is cycled.
LEMMA RunStartLined ==
    ASSUME Inv, FlowInv, LineInv, RunStart
    PROVE  LineInv'
<1>1. /\ Typed(inp, meth) /\ meth' = meth /\ inp' = inp /\ st.created \subseteq Queues
      /\ alive' = alive \cup Spawned(st, st') /\ Calm' = Calm /\ st \in Memory
      /\ Rested(st, Calm)
  BY FlowFacts DEF RunStart, Memory, Calm, Clean, FlowInv, Flows, Flow
<1>2. PICK s, w, fresh, up :
        /\ Good(s) /\ Good(w)
        /\ fresh = {q \in st.created : st.worker[q] = "none"}
        /\ Started(s, fresh, up, w)
        /\ st' = Cycle(w, st.created \ (fresh \ up))
        /\ s.worker = st.worker /\ s.out = st.out /\ s.err = st.err /\ s.pref = st.pref
        /\ s.created = st.created /\ s.depth = st.depth /\ s.stat = st.stat
        /\ s.entry = st.entry /\ s.running = TRUE
  BY RunStartDoes
<1>3. PICK B : B = alive \cup Spawned(st, st')  BY Zenon
<1>4. Lined(st, inp, meth, B, Calm)  BY <1>3, SpawnedLined
<1>5. Lined(s, inp, meth, B, Calm)
  <2>1. ASSUME NEW q \in Queues PROVE LinedAt(s, inp, meth, B, Calm, q)
    <3>1. Rests(st, s, q)  BY <1>2, ListsRest
    <3>2. s.out[q] = st.out[q] /\ s.worker[q] = st.worker[q]  BY <1>2
    <3>3. LinedAt(st, inp, meth, B, Calm, q)  BY <1>4 DEF Lined
    <3> QED  BY <1>1, <3>1, <3>2, <3>3, LinedKept
  <2> QED  BY <2>1 DEF Lined
<1>6. \A q \in fresh : q \in Calm => Fetching(s, q) = {}
  <2>1. \A q : Fetching(s, q) = Fetching(st, q)  BY <1>2 DEF Fetching, QItems, Queued
  <2> QED  BY <1>1, <1>2, <2>1 DEF Rested
<1>7. s \in Memory /\ w \in Memory  BY <1>2 DEF Good
<1>8. Lined(w, inp, meth, B, Calm)  BY <1>1, <1>2, <1>5, <1>6, <1>7, StartLined
<1> DEFINE Qs == st.created \ (fresh \ up)
<1>9. Qs \in SUBSET Queues /\ st' = Cycle(w, Qs)  BY <1>1, <1>2
<1> HIDE DEF Qs
<1>10. Lined(st', inp, meth, B, Calm)  BY <1>1, <1>2, <1>8, <1>9, CycleLined
<1>11. Plain(inp)  BY DEF LineInv
<1> QED  BY <1>1, <1>3, <1>10, <1>11 DEF LineInv

\* The end of a Run leaves every item its URI and its place on its list.
LEMMA RunEndPlaces ==
    ASSUME Inv, NEW cancelled \in BOOLEAN, RunEnd(cancelled), NEW x \in Items, st.entry[x] # None
    PROVE  st'.entry[x].uri = st.entry[x].uri /\ st'.entry[x].pos = st.entry[x].pos
<1>1. st \in Memory /\ st.entry[x] \in Entry  BY DEF Inv, Good, Memory
<1>2. \/ st'.entry[x] = st.entry[x]
      \/ st'.entry[x] = [st.entry[x] EXCEPT !.worker = "stale"]
  BY <1>1 DEF RunEnd, Memory
<1> QED  BY <1>1, <1>2, WithWorker

\* Run ends: a queue that gives its worker up forgets its line.
LEMMA RunEndLined ==
    ASSUME Inv, FlowInv, LineInv, NEW cancelled \in BOOLEAN, RunEnd(cancelled)
    PROVE  LineInv'
<1>1. PICK gone \in SUBSET st.created : Ended(gone)  BY RunEndDoes
<1>2. /\ \A q \in Queues :
         /\ st'.worker[q] = IF q \in gone THEN "none" ELSE st.worker[q]
         /\ st'.out[q] = IF q \in gone THEN << >> ELSE st.out[q]
         /\ meth'[q] = IF q \in gone THEN << >> ELSE meth[q]
         /\ inp'[q] = IF q \in gone THEN << >> ELSE inp[q]
      /\ alive' = alive \ gone
      /\ st'.stat = st.stat
      /\ \A x \in Items : /\ (st'.entry[x] = None) <=> (st.entry[x] = None)
                          /\ st.entry[x] # None => st'.entry[x].queue = st.entry[x].queue
                          /\ st.entry[x].queue \notin gone => st'.entry[x] = st.entry[x]
  BY <1>1 DEF Ended
<1>3. \A x \in Items : st.entry[x] # None => /\ st'.entry[x].uri = st.entry[x].uri
                                              /\ st'.entry[x].pos = st.entry[x].pos
  BY RunEndPlaces
<1>4. Queued(st') = Queued(st) /\ \A x \in Queued(st) : x \in Items /\ st.entry[x] # None
  BY <1>2 DEF Queued
<1>5. \A q : QItems(st', q) = QItems(st, q)  BY <1>2, <1>4 DEF QItems
<1>6. \A q : Fetching(st', q) = Fetching(st, q) /\ Idle(st', q) = Idle(st, q)
  BY <1>2, <1>5 DEF Fetching, Idle
<1>7. Clean' => Clean  BY RunEndResult
<1>8. st \in Memory /\ Typed(inp, meth)  BY FlowFacts
<1>9. Plain(inp')  BY <1>2 DEF LineInv, Plain
<1>10. ASSUME NEW q \in Queues PROVE LinedAt(st', inp', meth', alive', Calm', q)
  <2>1. LinedAt(st, inp, meth, alive, Calm, q)  BY DEF LineInv, Lined
  <2>2. CASE q \in gone
    <3>1. st'.out[q] = << >> /\ meth'[q] = << >> /\ inp'[q] = << >> /\ st'.worker[q] = "none"
      BY <1>2, <2>2
    <3>2. PICK l : l = LineAt(st', inp', meth', q)  BY Zenon
    <3>3. l = << >>
      <4>1. << >> \o (<< >> \o << >>) = << >>  OBVIOUS
      <4> QED  BY <3>1, <3>2, <4>1 DEF LineAt
    <3>4. Row(st', q, Len(inp'[q]), l)  BY <3>3 DEF Row
    <3>5. Late(st', q)
      <4>1. Late(st, q)  BY <2>1 DEF LinedAt, Ranked
      <4>2. \A x : x \in Fetching(st, q) \/ x \in Idle(st, q) => x \in Items /\ st.entry[x] # None
        BY DEF Fetching, Idle, QItems, Queued
      <4> QED  BY <1>3, <1>6, <4>1, <4>2 DEF Late
    <3> QED  BY <3>1, <3>2, <3>4, <3>5 DEF LinedAt, Ranked
  <2>3. CASE q \notin gone
    <3>1. /\ st'.out[q] = st.out[q] /\ meth'[q] = meth[q] /\ inp'[q] = inp[q]
          /\ st'.worker[q] = st.worker[q] /\ (q \in alive <=> q \in alive')
      BY <1>2, <2>3
    <3>2. \A x \in QItems(st, q) : st'.entry[x] = st.entry[x]
      BY <1>2, <1>4, <2>3 DEF QItems
    <3>3. Rests(st, st', q)
      <4>1. \A x \in Fetching(st, q) : x \in QItems(st, q)  BY DEF Fetching
      <4> QED  BY <1>6, <3>2, <4>1 DEF Rests, Asked
    <3>4. q \in Calm' => q \in Calm  BY <1>7 DEF Calm
    <3> QED  BY <1>8, <2>1, <3>1, <3>3, <3>4, LinedKept
  <2> QED  BY <2>2, <2>3
<1> QED  BY <1>9, <1>10 DEF LineInv, Lined

\* Nothing queued, nothing on its way.
LEMMA NothingLined ==
    ASSUME NEW s, NEW I, NEW M, NEW A, NEW calm, \A x \in Items : s.entry[x] = None,
           \A q \in Queues : s.out[q] = << >> /\ I[q] = << >> /\ M[q] = << >>
    PROVE  Lined(s, I, M, A, calm) /\ Plain(I)
<1>1. ASSUME NEW q \in Queues PROVE LinedAt(s, I, M, A, calm, q)
  <2>1. PICK l : l = LineAt(s, I, M, q)  BY Zenon
  <2>2. l = << >>
    <3>1. << >> \o (<< >> \o << >>) = << >>  OBVIOUS
    <3> QED  BY <2>1, <3>1 DEF LineAt
  <2>3. Fetching(s, q) = {} /\ Idle(s, q) = {}  BY DEF Fetching, Idle, QItems, Queued
  <2>4. Row(s, q, Len(I[q]), l) /\ Late(s, q)  BY <2>2, <2>3 DEF Row, Late
  <2>5. Whole(s, q, Len(I[q]), l) /\ Passed(s, q, Len(I[q]), l)  BY <2>3 DEF Whole, Passed
  <2> QED  BY <2>1, <2>4, <2>5 DEF LinedAt, Ranked
<1>2. Plain(I)  BY DEF Plain
<1> QED  BY <1>1, <1>2 DEF Lined

\* One case per action.
LEMMA StepLined ==
    ASSUME MaxHops = 0, Inv, Inv', FlowInv, LineInv, [Next]_vars
    PROVE  LineInv'
<1>1. ASSUME NEW it \in Items, Construct(it) PROVE LineInv'  BY <1>1, ConstructLined
<1>2. CASE RunStart  BY <1>2, RunStartLined
<1>3. CASE RunFinish  BY <1>3, RunEndLined DEF RunFinish
<1>4. CASE RunAbort  BY <1>4, RunEndLined DEF RunAbort
<1>5. CASE RunCancel  BY <1>5, RunEndLined DEF RunCancel
<1>6. CASE Shutdown
  <2>1. /\ \A x \in Items : st'.entry[x] = None
        /\ \A q \in Queues : st'.out[q] = << >> /\ inp'[q] = << >> /\ meth'[q] = << >>
    BY <1>6, ShutdownDoes
  <2> QED  BY <2>1, NothingLined DEF LineInv
<1>7. ASSUME NEW q \in Queues, APT(q) PROVE LineInv'
  <2>1. CASE URIDone(q)  BY <2>1, AnswerLined DEF URIDone
  <2>2. CASE URIFailure(q)  BY <2>2, AnswerLined DEF URIFailure
  <2>3. CASE URIStart(q) \/ Redirect(q)  BY <2>3, NewsLined
  <2>4. CASE MethodFailure(q)  BY <2>4, FailureLined
  <2> QED  BY <1>7, <2>1, <2>2, <2>3, <2>4 DEF APT
<1>8. ASSUME NEW q \in Queues, Method(q) PROVE LineInv'
  BY <1>8, ReadLined, BeginLined, ReplyLined, NoRedirect DEF Method
<1>9. ASSUME NEW q \in Queues, MethodDie(q) PROVE LineInv'  BY <1>9, DieLined
<1>10. CASE UNCHANGED vars \/ Stop
  <2>1. st' = st /\ meth' = meth /\ inp' = inp /\ alive' = alive /\ results' = results
    BY <1>10 DEF vars, Stop
  <2> QED  BY <2>1 DEF LineInv, Calm, Clean
<1> QED  BY <1>1, <1>2, <1>3, <1>4, <1>5, <1>6, <1>7, <1>8, <1>9, <1>10 DEF Next

LEMMA InitLined == ASSUME Init PROVE LineInv
<1>1. /\ \A x \in Items : st.entry[x] = None
      /\ \A q \in Queues : st.out[q] = << >> /\ inp[q] = << >> /\ meth[q] = << >>
  BY DEF Init
<1> QED  BY <1>1, NothingLined DEF LineInv

\* The invariant is inductive.
LEMMA LinesAlways == ASSUME MaxHops = 0 PROVE Spec => [](Inv /\ FlowInv /\ LineInv)
<1>1. Init => LineInv  BY InitLined
<1>2. (Inv /\ FlowInv /\ LineInv) /\ [Next]_vars /\ (Inv /\ FlowInv)' => LineInv'
  BY StepLined
<1> QED  BY <1>1, <1>2, FlowAlways, PTL DEF Spec

\* Where no method follows a redirect, every item being fetched has one request
\* with its method or one answer on the way, and nothing else has.
THEOREM OneRequest == ASSUME MaxHops = 0 PROVE Spec => []OneRequestEach
<1>1. Inv /\ FlowInv /\ LineInv => OneRequestEach
  <2> SUFFICES ASSUME Inv, FlowInv, LineInv, NEW q \in Queues
               PROVE  LET files == {Line(q)[n].file : n \in Held(q)}
                      IN  /\ \A m, n \in Held(q) : Line(q)[m].file = Line(q)[n].file => m = n
                          /\ files \subseteq Fetching(st, q)
                          /\ (Clean /\ q \in alive /\ st.worker[q] = "live") => files = Fetching(st, q)
    BY DEF OneRequestEach
  <2>1. PICK l, k : l = Line(q) /\ k = Len(inp[q])  OBVIOUS
  <2>2. st \in Memory /\ Typed(inp, meth) /\ l = LineAt(st, inp, meth, q)
    BY <2>1, FlowFacts DEF Line, LineAt
  <2>3. LineOK(l, k) /\ Ranked(st, k, l, alive, Calm, q)
    BY <2>1, <2>2, LineIsOK DEF LineInv, Lined, LinedAt
  <2>4. DOMAIN l = 1..Len(l) /\ Len(l) \in Nat
    <3>1. Parted(l, inp[q], meth[q], st.out[q], Len(inp[q]), Len(meth[q]), Len(st.out[q]))
      BY <2>2, LineParts
    <3>2. l \in Seq(Work)  BY <3>1 DEF Parted
    <3> QED  BY <3>2
  <2>5. Held(q) = {n \in 1..Len(l) : HeldAt(k, l, n)}
    BY <2>1, <2>4 DEF Held, HeldAt, Final
  <2>6. Row(st, q, k, l)  BY <2>3 DEF Ranked
  <2>7. ASSUME NEW m \in Held(q), NEW n \in Held(q), l[m].file = l[n].file PROVE m = n
    <3>1. m \in 1..Len(l) /\ n \in 1..Len(l) /\ HeldAt(k, l, m) /\ HeldAt(k, l, n)  BY <2>5
    <3>2. ~(m < n) /\ ~(n < m)  BY <2>6, <2>7, <3>1 DEF Row
    <3> QED  BY <2>4, <3>1, <3>2
  <2>8. \A n \in Held(q) : l[n].file \in Fetching(st, q)  BY <2>5, <2>6 DEF Row, Mine, Asked
  <2>9. ASSUME Clean, q \in alive, st.worker[q] = "live", NEW x \in Fetching(st, q)
        PROVE  \E n \in Held(q) : l[n].file = x
    <3>1. Whole(st, q, k, l)  BY <2>3, <2>9 DEF Ranked, Calm
    <3> QED  BY <2>5, <2>9, <3>1 DEF Whole, HeldIn
  <2> QED  BY <2>1, <2>7, <2>8, <2>9
<1> QED  BY <1>1, LinesAlways, PTL

\* Where no method follows a redirect, an answer reaches the item whose request
\* the method answered.
THEOREM AnswersOwned == ASSUME MaxHops = 0 PROVE Spec => []RightOwner
<1>1. Inv /\ FlowInv /\ LineInv => RightOwner
  <2> SUFFICES ASSUME Inv, FlowInv, LineInv, Clean, NEW q \in Queues,
                      st.worker[q] = "live", inp[q] # << >>
               PROVE  FindItem(st, q, Head(inp[q]).uri) = Head(inp[q]).file
    BY DEF RightOwner
  <2>1. Good(st) /\ Typed(inp, meth) /\ Lined(st, inp, meth, alive, Calm) /\ q \in Calm
    BY FlowFacts DEF LineInv, Calm
  <2>2. PICK it : it = FindItem(st, q, Head(inp[q]).uri)  BY Zenon
  <2>3. it = Head(inp[q]).file  BY <2>1, <2>2, HeadOwned
  <2> QED  BY <2>2, <2>3
<1> QED  BY <1>1, LinesAlways, PTL
=============================================================================
