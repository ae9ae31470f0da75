---------------------------- MODULE MethodProofs ----------------------------
(***************************************************************************)
(* Theorems about AcqMethod, for any kinds of methods, any number of       *)
(* requests and of questions: the messages between a worker and its method *)
(* lose nothing and overtake nothing, and the engine keeps MethodPromise.  *)
(***************************************************************************)
EXTENDS AcqMethod, WellFoundedInduction, SequenceTheorems, TLAPS

-----------------------------------------------------------------------------
(* What Select does.                                                       *)

\* Induction up to a number, for a set of numbers.
LEMMA UpTo ==
    ASSUME NEW S, NEW k \in Nat, 0 \in S, \A n \in 0..(k - 1) : n \in S => n + 1 \in S
    PROVE  \A n \in 0..k : n \in S
<1> DEFINE B == {n \in 0..k : n \notin S}
           R == OpToRel(<, Nat)
<1> SUFFICES ASSUME B # {} PROVE FALSE
  OBVIOUS
<1>1. IsWellFoundedOn(R, Nat)
  BY NatLessThanWellFounded
<1>2. \A n, m \in Nat : n < m => <<n, m>> \in R
  BY DEF OpToRel
<1>3. B \subseteq Nat
  OBVIOUS
<1>4. \A n \in B : n # 0
  OBVIOUS
<1>5. \A n \in B : n - 1 \in B
  OBVIOUS
<1> HIDE DEF B, R
<1>6. PICK n \in B : \A m \in B : ~(<<m, n>> \in R)
  BY <1>1, <1>3, WFMin
<1>7. n - 1 \in Nat /\ n \in Nat /\ n - 1 < n
  BY <1>3, <1>4
<1> QED
  BY <1>2, <1>5, <1>6, <1>7

\* The step of the recursion, and the function up to k.
Taken(s, T, n, r) == IF s[n] \in T THEN Append(r, s[n]) ELSE r

Sel(s, T, k, f) == f = [n \in 0..k |-> IF n = 0 THEN << >> ELSE Taken(s, T, n, f[n - 1])]

\* The recursive function of Select exists ...
LEMMA SelExists ==
    ASSUME NEW s, NEW T, NEW k \in Nat
    PROVE  \E f : Sel(s, T, k, f)
<1> DEFINE S == {j \in 0..k : \E f : Sel(s, T, j, f)}
<1>1. 0 \in S
  <2>1. Sel(s, T, 0, [n \in 0..0 |-> << >>])
    BY DEF Sel
  <2> QED
    BY <2>1
<1>2. ASSUME NEW j \in 0..(k - 1), j \in S PROVE j + 1 \in S
  <2>1. PICK f : Sel(s, T, j, f)
    BY <1>2
  <2> DEFINE g == [n \in 0..(j + 1) |-> IF n = j + 1 THEN Taken(s, T, n, f[j]) ELSE f[n]]
  <2>2. Sel(s, T, j + 1, g)
    <3>1. \A n \in 0..j : f[n] = IF n = 0 THEN << >> ELSE Taken(s, T, n, f[n - 1])
      BY <2>1 DEF Sel
    <3>2. ASSUME NEW n \in 0..(j + 1)
          PROVE  g[n] = IF n = 0 THEN << >> ELSE Taken(s, T, n, g[n - 1])
      <4>1. CASE n = j + 1
        <5>1. g[n] = Taken(s, T, n, f[j]) /\ n - 1 = j /\ j # j + 1 /\ j \in 0..(j+1) /\ n # 0
          BY <4>1
        <5>2. g[n - 1] = f[j]
          BY <5>1
        <5> QED
          BY <5>1, <5>2
      <4>2. CASE n # j + 1
        <5>1. n \in 0..j /\ g[n] = f[n] /\ (n # 0 => n - 1 \in 0..j /\ g[n - 1] = f[n - 1])
          BY <4>2
        <5> QED
          BY <5>1, <3>1
      <4> QED
        BY <4>1, <4>2
    <3> DEFINE h == [n \in 0..(j+1) |-> IF n = 0 THEN << >> ELSE Taken(s, T, n, g[n - 1])]
    <3>3. g = h
      BY <3>2
    <3> QED
      BY <3>3 DEF Sel
  <2> QED
    BY <2>2
<1> QED
  <2> HIDE DEF S
  <2>1. \A n \in 0..k : n \in S
    BY <1>1, <1>2, UpTo
  <2> QED
    BY <2>1 DEF S

\* ... and Select is its last value.
LEMMA SelectSel ==
    ASSUME NEW s, Len(s) \in Nat, NEW T
    PROVE  \E f : Sel(s, T, Len(s), f) /\ Select(s, T) = f[Len(s)]
<1> DEFINE f == CHOOSE g : Sel(s, T, Len(s), g)
<1>1. Sel(s, T, Len(s), f)
  BY SelExists
<1>2. Select(s, T) = f[Len(s)]
  BY DEF Select, Sel, Taken
<1> QED
  BY <1>1, <1>2

\* Nothing is selected of nothing.
LEMMA SelectEmpty ==
    ASSUME NEW T
    PROVE  Select(<< >>, T) = << >>
<1>1. PICK f : Sel(<< >>, T, 0, f) /\ Select(<< >>, T) = f[0]
  BY SelectSel
<1> QED
  BY <1>1 DEF Sel

\* One element more is selected or not.
LEMMA SelectAppend ==
    ASSUME NEW S, NEW s \in Seq(S), NEW e \in S, NEW T
    PROVE  Select(Append(s, e), T) =
              IF e \in T THEN Append(Select(s, T), e) ELSE Select(s, T)
<1> DEFINE t == Append(s, e)
<1>k. PICK k \in Nat : k = Len(s)
  BY LenProperties
<1>0. k \in Nat /\ Len(t) = k + 1 /\ t[k + 1] = e /\ \A n \in 1..k : t[n] = s[n]
  BY <1>k, AppendProperties
<1> HIDE DEF t
<1>1. PICK f : Sel(s, T, k, f) /\ Select(s, T) = f[k]
  BY <1>k, SelectSel
<1>2. PICK g : Sel(t, T, k + 1, g) /\ Select(t, T) = g[k + 1]
  <2>1. Len(t) \in Nat
    BY <1>0
  <2> QED
    BY <1>0, <2>1, SelectSel
<1>f. \A n \in 0..k : f[n] = IF n = 0 THEN << >> ELSE Taken(s, T, n, f[n - 1])
  BY <1>1 DEF Sel
<1>g. \A n \in 0..(k + 1) : g[n] = IF n = 0 THEN << >> ELSE Taken(t, T, n, g[n - 1])
  BY <1>2 DEF Sel
<1>3. \A n \in 0..k : g[n] = f[n]
  <2> DEFINE A == {n \in 0..k : g[n] = f[n]}
  <2>1. 0 \in A
    BY <1>0, <1>f, <1>g
  <2>2. ASSUME NEW n \in 0..(k - 1), n \in A PROVE n + 1 \in A
    <3>1. /\ n + 1 \in 0..k /\ n + 1 \in 0..(k + 1) /\ n + 1 # 0 /\ (n + 1) - 1 = n
          /\ n + 1 \in 1..k
      BY <1>0
    <3>2. f[n + 1] = Taken(s, T, n + 1, f[n])
      BY <3>1, <1>f
    <3>3. g[n + 1] = Taken(t, T, n + 1, g[n])
      BY <3>1, <1>g
    <3>4. Taken(s, T, n + 1, f[n]) = Taken(t, T, n + 1, g[n])
      BY <1>0, <2>2, <3>1 DEF Taken
    <3> QED
      BY <3>1, <3>2, <3>3, <3>4
  <2> HIDE DEF A
  <2>3. \A n \in 0..k : n \in A
    BY <1>0, <2>1, <2>2, UpTo
  <2> QED
    BY <2>3 DEF A
<1>4. g[k + 1] = Taken(t, T, k + 1, g[k])
  <2>1. k + 1 \in 0..(k + 1) /\ k + 1 # 0 /\ (k + 1) - 1 = k
    BY <1>0
  <2> QED
    BY <2>1, <1>g
<1>5. g[k] = f[k]
  BY <1>0, <1>3
<1>6. Select(t, T) = IF e \in T THEN Append(Select(s, T), e) ELSE Select(s, T)
  BY <1>0, <1>1, <1>2, <1>4, <1>5 DEF Taken
<1> QED
  BY <1>6 DEF t

\* The prefixes of a sequence, for inductions along it.
LEMMA Prefix ==
    ASSUME NEW S, NEW s \in Seq(S), NEW n \in 0..(Len(s) - 1)
    PROVE  /\ SubSeq(s, 1, n) \in Seq(S) /\ s[n + 1] \in S
           /\ SubSeq(s, 1, n + 1) = Append(SubSeq(s, 1, n), s[n + 1])
<1>1. Len(s) \in Nat /\ \A i \in 1..Len(s) : s[i] \in S
  BY LenProperties, ElementOfSeq
<1>2. SubSeq(s, 1, n) \in Seq(S)
  BY <1>1, SubSeqProperties
<1>3. n + 1 \in 1..Len(s)
  BY <1>1
<1>4. SubSeq(s, 1, n + 1) = SubSeq(s, 1, n) \o <<s[n + 1]>>
  <2>1. 1 \in 1..Len(s) /\ n + 1 \in 1..Len(s) /\ (n + 1) - 1 = n
    BY <1>1
  <2> QED
    BY <2>1, SubSeqRecursiveSecond
<1> QED
  BY <1>1, <1>2, <1>3, <1>4, AppendIsConcat

\* The shortest and the longest prefix.
LEMMA PrefixEnds ==
    ASSUME NEW S, NEW s \in Seq(S)
    PROVE  Len(s) \in Nat /\ SubSeq(s, 1, 0) = << >> /\ SubSeq(s, 1, Len(s)) = s
BY LenProperties, SubSeqEmpty, SubSeqFull

\* The same along a sequence.
LEMMA UpToLen ==
    ASSUME NEW S, NEW s, Len(s) \in Nat, 0 \in S, \A n \in 0..(Len(s) - 1) : n \in S => n + 1 \in S
    PROVE  Len(s) \in S
<1>1. PICK k \in Nat : k = Len(s)
  OBVIOUS
<1>2. \A n \in 0..k : n \in S
  BY <1>1, UpTo
<1> QED
  BY <1>1, <1>2

\* What is selected is of the sequence and of the set.
LEMMA SelectType ==
    ASSUME NEW S, NEW s \in Seq(S), NEW T
    PROVE  Select(s, T) \in Seq(S \cap T)
<1> DEFINE P(n) == SubSeq(s, 1, n)
           A == {n \in 0..Len(s) : Select(P(n), T) \in Seq(S \cap T)}
<1>1. 0 \in A
  <2>1. P(0) = << >> /\ 0 \in 0..Len(s)
    BY PrefixEnds
  <2>2. Select(<< >>, T) = << >>
    BY SelectEmpty
  <2>3. << >> \in Seq(S \cap T)
    OBVIOUS
  <2> QED
    BY <2>1, <2>2, <2>3
<1>2. ASSUME NEW n \in 0..(Len(s) - 1), n \in A PROVE n + 1 \in A
  <2> DEFINE e == s[n + 1]
  <2>1. P(n) \in Seq(S) /\ e \in S /\ P(n + 1) = Append(P(n), e)
    BY Prefix
  <2>2. n + 1 \in 0..Len(s) /\ Select(P(n), T) \in Seq(S \cap T)
    BY <1>2, PrefixEnds
  <2> HIDE DEF e, P
  <2>3. Select(P(n + 1), T) = IF e \in T THEN Append(Select(P(n), T), e) ELSE Select(P(n), T)
    BY <2>1, SelectAppend
  <2>4. e \in T => Append(Select(P(n), T), e) \in Seq(S \cap T)
    BY <2>1, <2>2, AppendProperties
  <2> QED
    BY <2>2, <2>3, <2>4
<1>3. Len(s) \in A
  BY <1>1, <1>2, PrefixEnds, UpToLen
<1> QED
  BY <1>3, PrefixEnds

\* Append at the end of a concatenation.
LEMMA AppendAssoc ==
    ASSUME NEW S, NEW s \in Seq(S), NEW t \in Seq(S), NEW e \in S
    PROVE  s \o Append(t, e) = Append(s \o t, e)
<1>1. <<e>> \in Seq(S) /\ s \o t \in Seq(S)
  BY ConcatProperties
<1>2. Append(t, e) = t \o <<e>> /\ Append(s \o t, e) = (s \o t) \o <<e>>
  BY <1>1, AppendIsConcat
<1> QED
  BY <1>1, <1>2, ConcatAssociative

\* Selecting distributes over concatenation.
LEMMA SelectConcat ==
    ASSUME NEW S, NEW s \in Seq(S), NEW t \in Seq(S), NEW T
    PROVE  Select(s \o t, T) = Select(s, T) \o Select(t, T)
<1> DEFINE P(n) == SubSeq(t, 1, n)
           A == {n \in 0..Len(t) : Select(s \o P(n), T) = Select(s, T) \o Select(P(n), T)}
<1>1. ASSUME NEW u \in Seq(S) PROVE Select(u, T) \in Seq(S)
  <2>1. Select(u, T) \in Seq(S \cap T) /\ S \cap T \subseteq S
    BY SelectType
  <2> QED
    BY <2>1, SeqMonotonic
<1>2. 0 \in A
  <2>1. P(0) = << >> /\ s \o << >> = s /\ 0 \in 0..Len(t)
    BY PrefixEnds, ConcatEmptySeq
  <2>2. Select(s, T) \o << >> = Select(s, T)
    BY <1>1, ConcatEmptySeq
  <2>3. Select(<< >>, T) = << >>
    BY SelectEmpty
  <2> QED
    BY <2>1, <2>2, <2>3
<1>3. ASSUME NEW n \in 0..(Len(t) - 1), n \in A PROVE n + 1 \in A
  <2> DEFINE e == t[n + 1]
  <2>1. P(n) \in Seq(S) /\ e \in S /\ P(n + 1) = Append(P(n), e)
    BY Prefix
  <2>2. s \o P(n) \in Seq(S) /\ s \o P(n + 1) = Append(s \o P(n), e)
    BY <2>1, ConcatProperties, AppendAssoc
  <2>3. n + 1 \in 0..Len(t) /\ Select(s \o P(n), T) = Select(s, T) \o Select(P(n), T)
    BY <1>3, PrefixEnds
  <2> HIDE DEF e, P
  <2>4. Select(s \o P(n + 1), T) = IF e \in T THEN Append(Select(s \o P(n), T), e)
                                   ELSE Select(s \o P(n), T)
    BY <2>1, <2>2, SelectAppend
  <2>5. Select(P(n + 1), T) = IF e \in T THEN Append(Select(P(n), T), e) ELSE Select(P(n), T)
    BY <2>1, SelectAppend
  <2>6. Select(s, T) \o Append(Select(P(n), T), e) = Append(Select(s, T) \o Select(P(n), T), e)
    BY <1>1, <2>1, AppendAssoc
  <2> QED
    BY <2>1, <2>3, <2>4, <2>5, <2>6
<1>4. Len(t) \in A
  BY <1>2, <1>3, PrefixEnds, UpToLen
<1> QED
  BY <1>4, PrefixEnds

\* Selecting of one element.
LEMMA SelectOne ==
    ASSUME NEW S, NEW e \in S, NEW T
    PROVE  Select(<<e>>, T) = IF e \in T THEN <<e>> ELSE << >>
<1>1. << >> \in Seq(S) /\ <<e>> = Append(<< >>, e)
  BY EmptySeq
<1>2. Select(Append(<< >>, e), T) = IF e \in T THEN Append(Select(<< >>, T), e)
                                    ELSE Select(<< >>, T)
  BY <1>1, SelectAppend
<1> QED
  BY <1>1, <1>2, SelectEmpty

\* Selecting all, or nothing.
LEMMA SelectAll ==
    ASSUME NEW S, NEW s \in Seq(S), NEW T
    PROVE  /\ S \subseteq T => Select(s, T) = s
           /\ S \cap T = {} => Select(s, T) = << >>
<1> DEFINE P(n) == SubSeq(s, 1, n)
           A == {n \in 0..Len(s) : Select(P(n), T) = P(n)}
           B == {n \in 0..Len(s) : Select(P(n), T) = << >>}
<1>1. 0 \in A /\ 0 \in B
  <2>1. P(0) = << >> /\ 0 \in 0..Len(s)
    BY PrefixEnds
  <2>2. Select(<< >>, T) = << >>
    BY SelectEmpty
  <2> QED
    BY <2>1, <2>2
<1>2. ASSUME NEW n \in 0..(Len(s) - 1)
      PROVE  /\ S \subseteq T /\ n \in A => n + 1 \in A
             /\ S \cap T = {} /\ n \in B => n + 1 \in B
  <2> DEFINE e == s[n + 1]
  <2>1. P(n) \in Seq(S) /\ e \in S /\ P(n + 1) = Append(P(n), e)
    BY Prefix
  <2>2. n + 1 \in 0..Len(s)
    BY PrefixEnds
  <2> HIDE DEF e, P
  <2>3. Select(P(n + 1), T) = IF e \in T THEN Append(Select(P(n), T), e) ELSE Select(P(n), T)
    BY <2>1, SelectAppend
  <2> QED
    BY <2>1, <2>2, <2>3
<1>3. S \subseteq T => Len(s) \in A
  BY <1>1, <1>2, PrefixEnds, UpToLen
<1>4. S \cap T = {} => Len(s) \in B
  BY <1>1, <1>2, PrefixEnds, UpToLen
<1> QED
  BY <1>3, <1>4, PrefixEnds
\* A sequence is its head and its tail.
LEMMA HeadTail ==
    ASSUME NEW S, NEW s \in Seq(S), s # << >>
    PROVE  /\ Head(s) \in S /\ Tail(s) \in Seq(S) /\ <<Head(s)>> \in Seq(S)
           /\ s = <<Head(s)>> \o Tail(s)
<1>1. Len(s) \in Nat \ {0} /\ Head(s) = s[1] /\ s[1] \in S
  BY EmptySeq, ElementOfSeq
<1>2. SubSeq(s, 1, Len(s)) = s /\ Tail(s) = SubSeq(s, 2, Len(s)) /\ Tail(s) \in Seq(S)
  BY SubSeqFull, TailIsSubSeq, HeadTailProperties
<1>3. SubSeq(s, 1, Len(s)) = <<s[1]>> \o SubSeq(s, 1 + 1, Len(s))
  <2>1. 1 \in 1..Len(s) /\ Len(s) \in 1..Len(s)
    BY <1>1
  <2> QED
    BY <2>1, SubSeqRecursiveFirst
<1> QED
  BY <1>1, <1>2, <1>3

LEMMA Behead ==
    ASSUME NEW S, NEW s \in Seq(S), s # << >>, NEW t \in Seq(S)
    PROVE  s \o t # << >> /\ Head(s \o t) = Head(s) /\ Tail(s \o t) = Tail(s) \o t
<1>1. Len(s) \in Nat \ {0} /\ Len(t) \in Nat /\ s \o t \in Seq(S)
      /\ Len(s \o t) = Len(s) + Len(t)
      /\ \A i \in 1..(Len(s) + Len(t)) : (s \o t)[i] = IF i <= Len(s) THEN s[i] ELSE t[i - Len(s)]
  BY EmptySeq, ConcatProperties, LenProperties
<1>2. Head(s \o t) = Head(s) /\ s \o t # << >>
  BY <1>1
<1>3. /\ Tail(s) \in Seq(S) /\ Len(Tail(s)) = Len(s) - 1
      /\ \A i \in 1..Len(Tail(s)) : Tail(s)[i] = s[i + 1]
  BY HeadTailProperties
<1>4. /\ Tail(s \o t) \in Seq(S) /\ Len(Tail(s \o t)) = Len(s) + Len(t) - 1
      /\ \A i \in 1..(Len(s) + Len(t) - 1) : Tail(s \o t)[i] = (s \o t)[i + 1]
  BY <1>1, <1>2, HeadTailProperties
<1>5. /\ Tail(s) \o t \in Seq(S) /\ Len(Tail(s) \o t) = Len(s) + Len(t) - 1
      /\ \A i \in 1..(Len(s) + Len(t) - 1) :
            (Tail(s) \o t)[i] = IF i <= Len(s) - 1 THEN Tail(s)[i] ELSE t[i - (Len(s) - 1)]
  BY <1>1, <1>3, ConcatProperties
<1>6. ASSUME NEW i \in 1..(Len(s) + Len(t) - 1) PROVE Tail(s \o t)[i] = (Tail(s) \o t)[i]
  <2>1. i + 1 \in 1..(Len(s) + Len(t)) /\ (i + 1 <= Len(s) <=> i <= Len(s) - 1)
        /\ (i + 1) - Len(s) = i - (Len(s) - 1) /\ (i <= Len(s) - 1 => i \in 1..Len(Tail(s)))
    BY <1>1, <1>3
  <2> QED
    BY <1>1, <1>3, <1>4, <1>5, <2>1
<1>7. Tail(s \o t) = Tail(s) \o t
  BY <1>1, <1>4, <1>5, <1>6, SeqEqual
<1> QED
  BY <1>2, <1>7

\* The first part of a concatenation is a prefix of it.
LEMMA PrefixOfConcat ==
    ASSUME NEW S, NEW s \in Seq(S), NEW t \in Seq(S)
    PROVE  Len(s) \in 0..Len(s \o t) /\ s = SubSeq(s \o t, 1, Len(s))
<1>1. Len(s) \in 0..Len(s \o t) /\ Len(s) \in Nat
  BY ConcatProperties, LenProperties
<1>2. CASE s = << >>
  <2>1. Len(s) = 0 /\ SubSeq(s \o t, 1, 0) = << >>
    BY <1>2, SubSeqEmpty
  <2> QED
    BY <1>1, <1>2, <2>1
<1>3. CASE s # << >>
  <2>1. 1 \in 1..Len(s) /\ Len(s) \in 1..Len(s)
    BY <1>1, <1>3, EmptySeq
  <2>2. SubSeq(s \o t, 1, Len(s)) = SubSeq(s, 1, Len(s))
    BY <2>1, SubSeqOfConcat1
  <2>3. SubSeq(s, 1, Len(s)) = s
    BY SubSeqFull
  <2> QED
    BY <1>1, <2>2, <2>3
<1> QED
  BY <1>2, <1>3

-----------------------------------------------------------------------------
(* The requests and replies on the way from the worker to the method.      *)

\* A message whose request, if it is one, has a number.
Sane == {m \in Message : m.kind = "600" => m.req # 0}

\* Requests of messages one after the other.
LEMMA UrisType ==
    ASSUME NEW ms \in Seq(Sane)
    PROVE  Uris(ms) \in Seq(1..N) /\ Len(Uris(ms)) = Len(Select(ms, Fetches))
<1>1. Select(ms, Fetches) \in Seq(Sane \cap Fetches)
  BY SelectType
<1>2. \A m \in Sane \cap Fetches : m.req \in 1..N
  BY ConstantsOK DEF Sane, Fetches, Message
<1> DEFINE u == Select(ms, Fetches)
           r == [n \in DOMAIN u |-> u[n].req]
<1>3. r \in Seq(1..N) /\ Len(r) = Len(u)
  <2>1. u \in Seq(Sane \cap Fetches)
    BY <1>1
  <2> HIDE DEF u
  <2>2. PICK k \in Nat : k = Len(u) /\ DOMAIN u = 1..k
    BY <2>1, LenProperties
  <2>3. \A n \in 1..k : u[n].req \in 1..N
    BY <1>2, <2>1, <2>2, ElementOfSeq
  <2>4. r = [n \in 1..k |-> u[n].req]
    BY <2>2
  <2> QED
    BY <2>2, <2>3, <2>4
<1> QED
  BY <1>1, <1>3 DEF Uris, u

LEMMA UrisConcat ==
    ASSUME NEW s \in Seq(Sane), NEW t \in Seq(Sane)
    PROVE  Uris(s \o t) = Uris(s) \o Uris(t)
<1> DEFINE u == Select(s, Fetches)
           v == Select(t, Fetches)
           R(w) == [n \in DOMAIN w |-> w[n].req]
<1>1. u \in Seq(Sane) /\ v \in Seq(Sane) /\ Select(s \o t, Fetches) = u \o v
  <2>1. u \in Seq(Sane \cap Fetches) /\ v \in Seq(Sane \cap Fetches)
    BY SelectType
  <2> QED
    BY <2>1, SelectConcat, SeqMonotonic
<1> HIDE DEF u, v
<1>2. R(u \o v) = R(u) \o R(v)
  <2>1. u \o v \in Seq(Sane) /\ Len(u \o v) = Len(u) + Len(v)
    BY <1>1, ConcatProperties
  <2>2. /\ R(u) = [n \in 1..Len(u) |-> u[n].req] /\ R(v) = [n \in 1..Len(v) |-> v[n].req]
        /\ R(u \o v) = [n \in 1..(Len(u) + Len(v)) |-> (u \o v)[n].req]
    BY <1>1, <2>1
  <2> QED
    BY <1>1, <2>1, <2>2
<1> QED
  BY <1>1, <1>2 DEF Uris, u, v

LEMMA UrisOne ==
    ASSUME NEW m \in Sane
    PROVE  Uris(<<m>>) = IF m.kind = "600" THEN <<m.req>> ELSE << >>
<1>1. Select(<<m>>, Fetches) = IF m \in Fetches THEN <<m>> ELSE << >>
  BY SelectOne
<1>2. m \in Fetches <=> m.kind = "600"
  BY DEF Sane, Fetches
<1>3. [n \in DOMAIN <<m>> |-> <<m>>[n].req] = <<m.req>>
      /\ [n \in DOMAIN << >> |-> << >>[n].req] = << >>
  OBVIOUS
<1> QED
  BY <1>1, <1>2, <1>3 DEF Uris

LEMMA UrisEmpty == Uris(<< >>) = << >>
<1>1. Select(<< >>, Fetches) = << >>
  BY SelectEmpty
<1>2. [n \in DOMAIN << >> |-> << >>[n].req] = << >>
  OBVIOUS
<1> QED
  BY <1>1, <1>2 DEF Uris

\* The acknowledgements in a sequence of messages.
Acks(ms) == Len(Select(ms, Replies))

LEMMA AcksParts ==
    ASSUME NEW s \in Seq(Sane), NEW t \in Seq(Sane), NEW m \in Sane
    PROVE  /\ Acks(s) \in Nat /\ Acks(s \o t) = Acks(s) + Acks(t) /\ Acks(<< >>) = 0
           /\ Acks(<<m>>) = IF m.kind = "603" THEN 1 ELSE 0
<1>1. \A u \in Seq(Sane) : Select(u, Replies) \in Seq(Sane \cap Replies)
  BY SelectType
<1>2. Select(s \o t, Replies) = Select(s, Replies) \o Select(t, Replies)
  BY SelectConcat
<1>3. Acks(s \o t) = Acks(s) + Acks(t)
  BY <1>1, <1>2, ConcatProperties DEF Acks
<1>4. Acks(s) \in Nat
  BY <1>1, LenProperties DEF Acks
<1>5. Acks(<< >>) = 0
  <2>1. Select(<< >>, Replies) = << >>
    BY SelectEmpty
  <2> QED
    BY <2>1 DEF Acks
<1>6. Acks(<<m>>) = IF m.kind = "603" THEN 1 ELSE 0
  <2>1. Select(<<m>>, Replies) = IF m \in Replies THEN <<m>> ELSE << >>
    BY SelectOne
  <2>2. m \in Replies <=> m.kind = "603"
    BY DEF Sane, Replies
  <2> QED
    BY <2>1, <2>2 DEF Acks
<1> QED
  BY <1>3, <1>4, <1>5, <1>6

\* The questions among the answers.
Asks(as) == Len(Select(as, {"ask"}))
Says == {"answer", "ask"}

LEMMA AsksParts ==
    ASSUME NEW s \in Seq(Says), NEW m \in Says
    PROVE  /\ Asks(s) \in Nat /\ Asks(<< >>) = 0
           /\ Asks(Append(s, m)) = Asks(s) + (IF m = "ask" THEN 1 ELSE 0)
           /\ s # << >> => Asks(s) = Asks(Tail(s)) + (IF Head(s) = "ask" THEN 1 ELSE 0)
<1>1. \A u \in Seq(Says) : Select(u, {"ask"}) \in Seq(Says \cap {"ask"})
  BY SelectType
<1>2. \A u \in Seq(Says) : Asks(u) \in Nat
  BY <1>1, LenProperties DEF Asks
<1>3. Asks(Append(s, m)) = Asks(s) + (IF m = "ask" THEN 1 ELSE 0)
  <2>1. Select(Append(s, m), {"ask"}) = IF m \in {"ask"} THEN Append(Select(s, {"ask"}), m)
                                        ELSE Select(s, {"ask"})
    BY SelectAppend
  <2>2. Select(s, {"ask"}) \in Seq(Says)
    BY <1>1, SeqMonotonic
  <2> QED
    BY <1>2, <2>1, <2>2, AppendProperties DEF Asks
<1>4. Asks(<< >>) = 0
  <2>1. Select(<< >>, {"ask"}) = << >>
    BY SelectEmpty
  <2> QED
    BY <2>1 DEF Asks
<1>5. ASSUME NEW u \in Seq(Says), NEW v \in Seq(Says)
      PROVE  Asks(u \o v) = Asks(u) + Asks(v)
  <2>1. Select(u \o v, {"ask"}) = Select(u, {"ask"}) \o Select(v, {"ask"})
    BY SelectConcat
  <2>2. Select(u, {"ask"}) \in Seq(Says) /\ Select(v, {"ask"}) \in Seq(Says)
    BY <1>1, SeqMonotonic
  <2> QED
    BY <2>1, <2>2, ConcatProperties DEF Asks
<1>6. ASSUME NEW u \in Says PROVE Asks(<<u>>) = IF u = "ask" THEN 1 ELSE 0
  <2>1. Select(<<u>>, {"ask"}) = IF u \in {"ask"} THEN <<u>> ELSE << >>
    BY SelectOne
  <2> QED
    BY <2>1 DEF Asks
<1>7. ASSUME s # << >>
      PROVE  Asks(s) = Asks(Tail(s)) + (IF Head(s) = "ask" THEN 1 ELSE 0)
  <2>1. /\ Head(s) \in Says /\ Tail(s) \in Seq(Says) /\ <<Head(s)>> \in Seq(Says)
        /\ s = <<Head(s)>> \o Tail(s)
    BY <1>7, HeadTail
  <2>2. PICK h \in Seq(Says), t \in Seq(Says) : h = <<Head(s)>> /\ t = Tail(s) /\ s = h \o t
    BY <2>1
  <2>3. Asks(h \o t) = Asks(h) + Asks(t)
    BY <1>5
  <2>4. Asks(h) = IF Head(s) = "ask" THEN 1 ELSE 0
    BY <1>6, <2>1, <2>2
  <2>5. Asks(t) \in Nat
    BY <1>2
  <2>6. s = h \o t /\ t = Tail(s)
    BY <2>2
  <2>7. Asks(s) = Asks(h \o t) /\ Asks(t) = Asks(Tail(s))
    BY <2>6
  <2> HIDE DEF Asks
  <2> QED
    BY <2>3, <2>4, <2>5, <2>7
<1> QED
  BY <1>2, <1>3, <1>4, <1>7

-----------------------------------------------------------------------------
(* The inductive invariant.                                                *)

\* Requests keep their numbers on the way.
Numbered == msgs \in Seq(Sane) /\ mine \in Seq(Sane) /\ toM \in Seq(Sane) /\ out \in Seq(Sane)

\* MyMessages is empty outside of a question: a method that reads puts what
\* comes behind what came before.
Aside == ~wait /\ ~exited => mine = << >>

\* As long as a method that asked for the configuration has not applied it,
\* nothing happened, and the configuration is the first of all messages.
Configured ==
    kind.config /\ ~config =>
        /\ queue = << >> /\ done = << >> /\ toA = << >> /\ ~wait
        /\ Line # << >> => Head(Line) = Conf

Sound == TypeOK /\ Numbered /\ Aside
Inv == Sound /\ NothingLost /\ OneAckEach /\ Configured

\* In the states of the invariant the line holds messages.
LEMMA Forms ==
    ASSUME Sound
    PROVE  /\ Line \in Seq(Sane) /\ Uris(Line) \in Seq(1..N) /\ Unanswered \in Seq(1..N)
           /\ Acks(Line) \in Nat /\ Asks(toA) \in Nat
           /\ OneAckEach <=> (open => Asks(toA) + Acks(Line) = (IF wait THEN 1 ELSE 0))
<1>1. queue \in Seq(1..N) /\ Numbered /\ toA \in Seq(Says)
  BY DEF Sound, TypeOK, Says
<1>2. Line \in Seq(Sane)
  <2>1. toM \o out \in Seq(Sane)
    BY <1>1, ConcatProperties DEF Numbered
  <2>2. mine \o (toM \o out) \in Seq(Sane)
    BY <1>1, <2>1, ConcatProperties DEF Numbered
  <2> QED
    BY <1>1, <2>2, ConcatProperties DEF Numbered, Line
<1>3. Uris(Line) \in Seq(1..N)
  BY <1>2, UrisType
<1>4. Unanswered \in Seq(1..N)
  BY <1>1, <1>3, ConcatProperties DEF Unanswered
<1>5. Conf \in Sane
  BY ConstantsOK DEF Conf, Sane, Message
<1>6. Acks(Line) \in Nat
  BY <1>2, <1>5, AcksParts
<1>7. Asks(toA) \in Nat
  BY <1>1, AsksParts DEF Says
<1> QED
  BY <1>2, <1>3, <1>4, <1>6, <1>7 DEF OneAckEach, Asks, Acks

\* Messages that the worker writes.
LEMMA Writes ==
    ASSUME Sound, NEW no \in BOOLEAN
    PROVE  /\ Conf \in Sane /\ Ack(no) \in Sane /\ Uri(sent) \in Message
           /\ sent < N => Uri(sent + 1) \in Sane
  BY ConstantsOK DEF Sound, TypeOK, Conf, Ack, Uri, Sane, Message

\* One message more.
LEMMA Posted ==
    ASSUME NEW w \in Seq(Sane), NEW m \in Sane
    PROVE  /\ Append(w, m) \in Seq(Sane)
           /\ Uris(Append(w, m)) = IF m.kind = "600" THEN Append(Uris(w), m.req) ELSE Uris(w)
           /\ Acks(Append(w, m)) = Acks(w) + (IF m.kind = "603" THEN 1 ELSE 0)
<1>1. <<m>> \in Seq(Sane) /\ Append(w, m) = w \o <<m>> /\ Append(w, m) \in Seq(Sane)
  BY AppendIsConcat, AppendProperties
<1>2. Uris(w \o <<m>>) = Uris(w) \o Uris(<<m>>)
  BY <1>1, UrisConcat
<1>3. Uris(w) \in Seq(1..N) /\ Uris(w) \o << >> = Uris(w)
  BY UrisType, ConcatEmptySeq
<1>4. m.kind = "600" => m.req \in 1..N /\ Append(Uris(w), m.req) = Uris(w) \o <<m.req>>
  BY <1>3, AppendIsConcat, ConstantsOK DEF Sane, Message
<1>5. Uris(<<m>>) = IF m.kind = "600" THEN <<m.req>> ELSE << >>
  BY UrisOne
<1>6. Acks(w \o <<m>>) = Acks(w) + Acks(<<m>>) /\ Acks(<<m>>) = IF m.kind = "603" THEN 1 ELSE 0
  BY <1>1, AcksParts
<1> QED
  BY <1>1, <1>2, <1>3, <1>4, <1>5, <1>6

\* One message less.
LEMMA Taken1 ==
    ASSUME NEW x \in Seq(Sane), NEW m \in Sane, NEW y \in Seq(Sane)
    PROVE  /\ Acks(x \o (<<m>> \o y)) = Acks(x \o y) + (IF m.kind = "603" THEN 1 ELSE 0)
           /\ m.kind # "600" => Uris(x \o (<<m>> \o y)) = Uris(x \o y)
           /\ Uris(<<m>> \o y) = IF m.kind = "600" THEN <<m.req>> \o Uris(y) ELSE Uris(y)
           /\ Acks(<<m>> \o y) = Acks(y) + (IF m.kind = "603" THEN 1 ELSE 0)
<1>1. <<m>> \in Seq(Sane) /\ <<m>> \o y \in Seq(Sane)
  BY ConcatProperties
<1>2. /\ Acks(x) \in Nat /\ Acks(y) \in Nat /\ Acks(x \o y) = Acks(x) + Acks(y)
      /\ Acks(<<m>>) = IF m.kind = "603" THEN 1 ELSE 0
  BY AcksParts
<1>3. Acks(<<m>> \o y) = Acks(<<m>>) + Acks(y)
  BY <1>1, AcksParts
<1>4. Acks(x \o (<<m>> \o y)) = Acks(x) + Acks(<<m>> \o y)
  BY <1>1, AcksParts
<1>5. /\ Uris(x \o y) = Uris(x) \o Uris(y) /\ Uris(<<m>> \o y) = Uris(<<m>>) \o Uris(y)
      /\ Uris(x \o (<<m>> \o y)) = Uris(x) \o Uris(<<m>> \o y)
      /\ Uris(<<m>>) = IF m.kind = "600" THEN <<m.req>> ELSE << >>
  BY <1>1, UrisConcat, UrisOne
<1>6. << >> \o Uris(y) = Uris(y)
  BY UrisType, ConcatEmptySeq
<1>7. Acks(x \o (<<m>> \o y)) = Acks(x \o y) + (IF m.kind = "603" THEN 1 ELSE 0)
      /\ Acks(<<m>> \o y) = Acks(y) + (IF m.kind = "603" THEN 1 ELSE 0)
  BY <1>2, <1>3, <1>4
<1>8. Uris(<<m>> \o y) = IF m.kind = "600" THEN <<m.req>> \o Uris(y) ELSE Uris(y)
  BY <1>5, <1>6
<1>9. m.kind # "600" => Uris(x \o (<<m>> \o y)) = Uris(x \o y)
  BY <1>5, <1>8
<1> QED
  BY <1>7, <1>8, <1>9

-----------------------------------------------------------------------------
(* What each action does to the line.                                      *)

\* Sane messages are messages.
LEMMA Upper == Seq(Sane) \subseteq Seq(Message)
BY SeqMonotonic DEF Sane

\* The actions that leave the line alone.
Steady == UNCHANGED <<msgs, mine, toM, out>>

LEMMA SteadyLine ==
    ASSUME Sound, Steady
    PROVE  Numbered' /\ Line' = Line
  BY DEF Sound, Numbered, Steady, Line

\* One write of the worker, and one read of the method.
LEMMA OutFdReadyLine ==
    ASSUME Sound, OutFdReady
    PROVE  Sound' /\ Line' = Line
<1>1. PICK n \in 1..Len(out) : /\ toM' = toM \o SubSeq(out, 1, n)
                               /\ out' = SubSeq(out, n + 1, Len(out))
  BY DEF OutFdReady
<1>2. PICK s \in Seq(Sane), t \in Seq(Sane) :
         s = SubSeq(out, 1, n) /\ t = SubSeq(out, n + 1, Len(out)) /\ out = s \o t
  <2>1. out \in Seq(Sane) /\ Len(out) \in Nat /\ \A i \in 1..Len(out) : out[i] \in Sane
    BY LenProperties, ElementOfSeq DEF Sound, Numbered
  <2>2. SubSeq(out, 1, n) \in Seq(Sane) /\ SubSeq(out, n + 1, Len(out)) \in Seq(Sane)
    BY <2>1, SubSeqProperties
  <2>3. SubSeq(out, 1, n) \o SubSeq(out, n + 1, Len(out)) = SubSeq(out, 1, Len(out))
    BY <2>1, ConcatAdjacentSubSeq
  <2> QED
    BY <2>1, <2>2, <2>3, SubSeqFull
<1>3. toM' = toM \o s /\ out' = t /\ UNCHANGED <<msgs, mine>>
  BY <1>1, <1>2 DEF OutFdReady, method
<1>4. toM \in Seq(Sane)
  BY DEF Sound, Numbered
<1>5. toM' \in Seq(Sane) /\ out' \in Seq(Sane)
  BY <1>3, <1>4, ConcatProperties
<1>6. (toM \o s) \o t = toM \o (s \o t)
  BY <1>4, ConcatAssociative
<1>7. Line' = Line
  BY <1>2, <1>3, <1>6 DEF Line
<1> QED
  BY <1>3, <1>4, <1>5, <1>7, Upper
  DEF Sound, TypeOK, Numbered, Aside, OutFdReady, method

LEMMA ReadLine ==
    ASSUME Sound, Read
    PROVE  Sound' /\ Line' = Line
<1>1. /\ msgs = << >> /\ mine = << >> /\ msgs' = toM /\ toM' = << >> /\ mine' = mine
      /\ out' = out
  BY DEF Read, apt, Sound, Aside
<1>2. toM \in Seq(Sane) /\ out \in Seq(Sane) /\ toM \o out \in Seq(Sane)
  BY ConcatProperties DEF Sound, Numbered
<1>3. Line = toM \o out /\ Line' = toM \o out
  BY <1>1, <1>2, ConcatEmptySeq DEF Line
<1>4. << >> \in Seq(Sane)
  OBVIOUS
<1> QED
  BY <1>1, <1>2, <1>3, <1>4 DEF Read, apt, Sound, TypeOK, Numbered, Aside

\* A message that the worker appends to OutQueue is the last of the line.
LEMMA WriteLine ==
    ASSUME Sound, NEW m \in Sane, out' = Append(out, m), UNCHANGED <<msgs, mine, toM>>
    PROVE  Numbered' /\ Line' = Append(Line, m)
<1>1. msgs \in Seq(Sane) /\ mine \in Seq(Sane) /\ toM \in Seq(Sane) /\ out \in Seq(Sane)
  BY DEF Sound, Numbered
<1>2. toM \o out \in Seq(Sane)
  BY <1>1, ConcatProperties
<1>3. mine \o (toM \o out) \in Seq(Sane)
  BY <1>1, <1>2, ConcatProperties
<1>4. toM \o Append(out, m) = Append(toM \o out, m)
  BY <1>1, AppendAssoc
<1>5. mine \o Append(toM \o out, m) = Append(mine \o (toM \o out), m)
  BY <1>1, <1>2, AppendAssoc
<1>6. msgs \o Append(mine \o (toM \o out), m) = Append(msgs \o (mine \o (toM \o out)), m)
  BY <1>1, <1>3, AppendAssoc
<1>7. Line' = Append(Line, m)
  BY <1>4, <1>5, <1>6 DEF Line
<1>8. Append(out, m) \in Seq(Sane)
  BY <1>1, AppendProperties
<1> QED
  BY <1>1, <1>7, <1>8 DEF Numbered

LEMMA HandleAnswerLine ==
    ASSUME Sound, HandleAnswer
    PROVE  /\ Sound'
           /\ Line' = IF sent < N THEN Append(Line, Uri(sent + 1)) ELSE Line
           /\ sent' = IF sent < N THEN sent + 1 ELSE sent
<1>1. toA \in Seq({"answer", "ask"}) /\ toA' = Tail(toA) /\ toA # << >>
      /\ UNCHANGED <<kind, toM, open, msgs, mine, queue, wait, asked, config, done,
                     exited>>
  BY DEF HandleAnswer, method, Sound, TypeOK
<1>2. toA' \in Seq({"answer", "ask"})
  BY <1>1, HeadTailProperties
<1>3. CASE sent < N
  <2>1. sent' = sent + 1 /\ out' = Append(out, Uri(sent + 1)) /\ Uri(sent + 1) \in Sane
    BY <1>3, Writes DEF HandleAnswer, More
  <2>2. Numbered' /\ Line' = Append(Line, Uri(sent + 1))
    BY <1>1, <2>1, WriteLine
  <2>3. sent + 1 \in 0..N
    BY <1>3, ConstantsOK DEF Sound, TypeOK
  <2> QED
    BY <1>1, <1>2, <1>3, <2>1, <2>2, <2>3, Upper DEF Sound, TypeOK, Aside, Numbered
<1>4. CASE ~(sent < N)
  <2>1. sent' = sent /\ out' = out
    BY <1>4 DEF HandleAnswer, More
  <2> QED
    BY <1>1, <1>2, <1>4, <2>1 DEF Sound, TypeOK, Aside, Numbered, Line
<1> QED
  BY <1>3, <1>4

LEMMA HandleAskLine ==
    ASSUME Sound, HandleAsk
    PROVE  Sound' /\ \E no \in BOOLEAN : Line' = Append(Line, Ack(no))
<1>1. toA \in Seq({"answer", "ask"}) /\ toA' = Tail(toA) /\ toA # << >>
      /\ UNCHANGED <<kind, sent, toM, open, msgs, mine, queue, wait, asked, config, done,
                     exited>>
  BY DEF HandleAsk, method, Sound, TypeOK
<1>2. toA' \in Seq({"answer", "ask"})
  BY <1>1, HeadTailProperties
<1>3. PICK no \in BOOLEAN : out' = Append(out, Ack(no))
  BY DEF HandleAsk, Acked
<1>4. Numbered' /\ Line' = Append(Line, Ack(no))
  BY <1>1, <1>3, Writes, WriteLine
<1> QED
  BY <1>1, <1>2, <1>3, <1>4, Upper DEF Sound, TypeOK, Aside, Numbered

\* What the worker has not written goes with it.
LEMMA CloseLine ==
    ASSUME Sound, Close
    PROVE  Sound' /\ Line = Line' \o out /\ out \in Seq(Sane)
<1>1. /\ msgs \in Seq(Sane) /\ mine \in Seq(Sane) /\ toM \in Seq(Sane) /\ out \in Seq(Sane)
      /\ << >> \in Seq(Sane)
  BY DEF Sound, Numbered
<1>2. UNCHANGED <<msgs, mine, toM>> /\ out' = << >> /\ toA' = << >> /\ open' = FALSE
      /\ UNCHANGED <<kind, sent, queue, wait, asked, config, done, exited>>
  BY DEF Close, method
<1>3. toM \o << >> = toM
  BY <1>1, ConcatEmptySeq
<1>4. (mine \o toM) \o out = mine \o (toM \o out)
  BY <1>1, ConcatAssociative
<1>5. PICK z : z = mine \o toM /\ z \in Seq(Sane)
  BY <1>1, ConcatProperties
<1>6. (msgs \o (mine \o toM)) \o out = msgs \o ((mine \o toM) \o out)
  <2>1. z \in Seq(Sane) /\ msgs \in Seq(Sane) /\ out \in Seq(Sane)
    BY <1>1, <1>5
  <2>2. (msgs \o z) \o out = msgs \o (z \o out)
    BY <2>1, ConcatAssociative
  <2> QED
    BY <1>5, <2>2
<1>7. Line = Line' \o out
  BY <1>2, <1>3, <1>4, <1>6 DEF Line
<1>8. << >> \in Seq({"answer", "ask"}) /\ << >> \in Seq(Message)
  OBVIOUS
<1> QED
  BY <1>1, <1>2, <1>7, <1>8 DEF Sound, TypeOK, Numbered, Aside

\* The front of Messages leaves the line.
LEMMA HandleLine ==
    ASSUME Sound, Handle
    PROVE  /\ Sound'
           /\ Head(msgs) \in Sane /\ Line = <<Head(msgs)>> \o Line' /\ Line' \in Seq(Sane)
<1>1. /\ msgs # << >> /\ msgs' = Tail(msgs) /\ UNCHANGED <<mine, toM, out>>
      /\ UNCHANGED <<kind, sent, open, wait, asked, done, exited, toA>>
  BY DEF Handle, apt
<1>2. msgs \in Seq(Sane) /\ mine \in Seq(Sane) /\ toM \in Seq(Sane) /\ out \in Seq(Sane)
  BY DEF Sound, Numbered
<1>3. PICK h, r : /\ h = <<Head(msgs)>> /\ r = Tail(msgs) /\ msgs = h \o r
                  /\ h \in Seq(Sane) /\ r \in Seq(Sane) /\ Head(msgs) \in Sane
  BY <1>1, <1>2, HeadTail
<1>4. PICK z : z = mine \o (toM \o out) /\ z \in Seq(Sane)
  <2>1. toM \o out \in Seq(Sane)
    BY <1>2, ConcatProperties
  <2> QED
    BY <1>2, <2>1, ConcatProperties
<1>5. (h \o r) \o z = h \o (r \o z) /\ r \o z \in Seq(Sane)
  <2>1. h \in Seq(Sane) /\ r \in Seq(Sane) /\ z \in Seq(Sane)
    BY <1>3, <1>4
  <2> QED
    BY <2>1, ConcatAssociative, ConcatProperties
<1>6. Line = (h \o r) \o z /\ Line' = r \o z
  <2>1. msgs = h \o r
    BY <1>3
  <2>2. msgs' = r
    BY <1>1, <1>3
  <2> QED
    BY <1>1, <1>4, <2>1, <2>2 DEF Line
<1>7. h = <<Head(msgs)>>
  BY <1>3
<1>8. Line = <<Head(msgs)>> \o Line' /\ Line' \in Seq(Sane)
  BY <1>5, <1>6, <1>7
<1>9. Numbered' /\ msgs' \in Seq(Message)
  BY <1>1, <1>2, <1>3, Upper DEF Numbered
<1>10. queue' \in Seq(1..N) /\ config' \in BOOLEAN
  <2>1. queue \in Seq(1..N) /\ config \in BOOLEAN
    BY DEF Sound, TypeOK
  <2>2. Head(msgs).kind = "600" => Head(msgs).req \in 1..N
    BY <1>3, ConstantsOK DEF Sane, Message
  <2>3. Head(msgs).kind = "600" => Append(queue, Head(msgs).req) \in Seq(1..N)
    BY <2>1, <2>2, AppendProperties
  <2> QED
    BY <2>1, <2>3 DEF Handle
<1> QED
  BY <1>1, <1>3, <1>8, <1>9, <1>10 DEF Sound, TypeOK, Aside

\* MediaFail drops an acknowledgement from the front of what it has read, and
\* leaves everything else where it was in the line; nothing is ever refused,
\* because no message has a field Fail.
LEMMA WaitReadLine ==
    ASSUME Sound, WaitRead
    PROVE  /\ Sound' /\ wait
           /\ UNCHANGED <<queue, done, toA, kind, sent, out, open, config>>
           /\ \E x, r \in Seq(Sane), h \in Sane :
                 /\ Line = x \o (<<h>> \o r)
                 /\ IF h.kind = "603" THEN Line' = x \o r /\ ~wait' ELSE Line' = Line /\ wait'
<1>1. msgs \in Seq(Sane) /\ mine \in Seq(Sane) /\ toM \in Seq(Sane) /\ out \in Seq(Sane)
  BY DEF Sound, Numbered
<1>2. wait /\ toM # << >> /\ UNCHANGED <<kind, sent, out, open, config>>
  BY DEF WaitRead, apt
<1>3. PICK all : all = mine \o toM /\ all \in Seq(Sane) /\ all # << >>
  <2>1. mine \o toM \in Seq(Sane) /\ mine \o toM # << >>
    BY <1>1, <1>2, ConcatProperties, ConcatEqualIffEmpty
  <2> QED
    BY <2>1
<1>4. PICK f, r : /\ f = <<Head(all)>> /\ r = Tail(all) /\ all = f \o r
                  /\ f \in Seq(Sane) /\ r \in Seq(Sane) /\ Head(all) \in Sane
  BY <1>3, HeadTail
<1>5. ~LookupFail(Head(all))
  BY <1>4 DEF LookupFail, Sane, Message
<1>6. /\ toM' = << >> /\ msgs' = Kept(all)
      /\ UNCHANGED <<queue, done, toA, asked>> /\ exited' = FALSE
      /\ mine' = IF Head(all).kind = "603" THEN << >> ELSE r
      /\ wait' = (Head(all).kind # "603")
  BY <1>3, <1>4, <1>5 DEF WaitRead, Sound, TypeOK
<1>7. PICK y : y = r \o out /\ y \in Seq(Sane)
  BY <1>1, <1>4, ConcatProperties
<1>8. mine \o (toM \o out) = f \o y
  <2>1. (mine \o toM) \o out = mine \o (toM \o out)
    BY <1>1, ConcatAssociative
  <2>2. f \in Seq(Sane) /\ r \in Seq(Sane) /\ out \in Seq(Sane)
    BY <1>1, <1>4
  <2>3. (f \o r) \o out = f \o (r \o out)
    BY <2>2, ConcatAssociative
  <2>4. mine \o toM = f \o r
    BY <1>3, <1>4
  <2> QED
    BY <1>7, <2>1, <2>3, <2>4
<1>9. Line = msgs \o (f \o y)
  BY <1>8 DEF Line
<1>10. << >> \o out = out /\ << >> \in Seq(Sane)
  BY <1>1, ConcatEmptySeq
<1>11. CASE Head(all).kind = "603"
  <2>1. msgs' = msgs \o r /\ mine' = << >> /\ ~wait' /\ out' = out
    BY <1>2, <1>4, <1>6, <1>11 DEF Kept
  <2>2. (msgs \o r) \o out = msgs \o (r \o out) /\ msgs \o r \in Seq(Sane)
    <3>1. msgs \in Seq(Sane) /\ r \in Seq(Sane) /\ out \in Seq(Sane)
      BY <1>1, <1>4
    <3> QED
      BY <3>1, ConcatAssociative, ConcatProperties
  <2>3. Line' = msgs \o y
    BY <1>6, <1>7, <1>10, <2>1, <2>2 DEF Line
  <2>4. Numbered' /\ msgs' \in Seq(Message)
    BY <1>1, <1>6, <1>10, <2>1, <2>2, Upper DEF Numbered
  <2>5. Sound'
    BY <1>2, <1>6, <1>10, <2>1, <2>4, Upper DEF Sound, TypeOK, Aside, Numbered
  <2>6. Line = msgs \o (<<Head(all)>> \o y)
    BY <1>4, <1>9
  <2>7. msgs \in Seq(Sane) /\ y \in Seq(Sane) /\ Head(all) \in Sane
    BY <1>1, <1>4, <1>7
  <2>8. Line' = msgs \o y /\ ~wait'
    BY <2>1, <2>3
  <2>9. UNCHANGED <<queue, done, toA, kind, sent, out, open, config>> /\ wait
    BY <1>2, <1>6
  <2> DEFINE h == Head(all)
  <2> HIDE DEF h
  <2>10. h \in Sane /\ Line = msgs \o (<<h>> \o y) /\ h.kind = "603"
    BY <1>11, <2>6, <2>7 DEF h
  <2>11. \E x, s \in Seq(Sane), g \in Sane :
            /\ Line = x \o (<<g>> \o s)
            /\ IF g.kind = "603" THEN Line' = x \o s /\ ~wait' ELSE Line' = Line /\ wait'
    <3> msgs \in Seq(Sane) /\ y \in Seq(Sane) /\ h \in Sane
      BY <2>7, <2>10
    <3> WITNESS msgs \in Seq(Sane), y \in Seq(Sane), h \in Sane
    <3> QED
      BY <2>8, <2>10, Zenon
  <2> QED
    BY <2>5, <2>9, <2>11, Zenon
<1>12. CASE Head(all).kind # "603"
  <2>1. msgs' = Append(msgs, Head(all)) /\ mine' = r /\ wait' /\ out' = out
    BY <1>2, <1>4, <1>6, <1>12 DEF Kept
  <2>2. Append(msgs, Head(all)) = msgs \o f /\ Append(msgs, Head(all)) \in Seq(Sane)
    BY <1>1, <1>4, AppendIsConcat, AppendProperties
  <2>3. (msgs \o f) \o y = msgs \o (f \o y)
    <3>1. msgs \in Seq(Sane) /\ f \in Seq(Sane) /\ y \in Seq(Sane)
      BY <1>1, <1>4, <1>7
    <3> QED
      BY <3>1, ConcatAssociative
  <2>4. Line' = Line
    BY <1>6, <1>7, <1>9, <1>10, <2>1, <2>2, <2>3 DEF Line
  <2>5. Numbered' /\ msgs' \in Seq(Message)
    BY <1>1, <1>4, <1>6, <1>10, <2>1, <2>2, Upper DEF Numbered
  <2>6. Sound'
    BY <1>2, <1>6, <1>10, <2>1, <2>5, Upper DEF Sound, TypeOK, Aside, Numbered
  <2>7. Line = msgs \o (<<Head(all)>> \o y)
    BY <1>4, <1>9
  <2> QED
    BY <1>1, <1>2, <1>4, <1>6, <1>7, <1>12, <2>1, <2>4, <2>6, <2>7
<1> QED
  BY <1>11, <1>12

\* Answers, questions and the end of the process leave the line alone.
LEMMA SteadySound ==
    ASSUME Sound, Answer \/ Ask \/ Exit
    PROVE  Sound' /\ Line' = Line
<1>1. Steady /\ UNCHANGED <<kind, sent, open, config>>
  BY DEF Answer, Ask, Exit, Steady, apt
<1>2. Numbered' /\ Line' = Line
  BY <1>1, SteadyLine
<1>3. CASE Answer
  <2>1. /\ queue \in Seq(1..N) /\ done \in Seq(1..N) /\ queue # << >>
        /\ queue' = Tail(queue) /\ done' = Append(done, Head(queue))
        /\ toA \in Seq({"answer", "ask"}) /\ toA' = IF open THEN Append(toA, "answer") ELSE toA
        /\ exited' = ~open /\ asked' = 0 /\ wait' = wait /\ ~wait
    BY <1>3 DEF Answer, Sound, TypeOK
  <2>2. queue' \in Seq(1..N) /\ done' \in Seq(1..N)
    BY <2>1, HeadTailProperties, AppendProperties
  <2>3. toA' \in Seq({"answer", "ask"})
    BY <2>1, AppendProperties
  <2>4. Aside'
    BY <1>1, <1>3, <2>1 DEF Sound, Aside, Answer, Steady
  <2> QED
    BY <1>1, <1>2, <2>1, <2>2, <2>3, <2>4, ConstantsOK DEF Sound, TypeOK, Steady
<1>4. CASE Ask
  <2>1. /\ toA \in Seq({"answer", "ask"}) /\ toA' = IF open THEN Append(toA, "ask") ELSE toA
        /\ exited' = ~open /\ asked' = asked + 1 /\ wait' = open /\ ~wait /\ asked < MaxAsks
        /\ UNCHANGED <<queue, done>> /\ asked \in 0..MaxAsks
    BY <1>4 DEF Ask, Sound, TypeOK
  <2>2. toA' \in Seq({"answer", "ask"})
    BY <2>1, AppendProperties
  <2>3. asked' \in 0..MaxAsks
    BY <2>1, ConstantsOK
  <2>4. Aside'
    BY <1>1, <1>4, <2>1 DEF Sound, Aside, Ask, Steady
  <2> QED
    BY <1>1, <1>2, <2>1, <2>2, <2>3, <2>4 DEF Sound, TypeOK, Steady
<1>5. CASE Exit
  BY <1>1, <1>2, <1>5 DEF Sound, TypeOK, Aside, Exit, Steady
<1> QED
  BY <1>3, <1>4, <1>5

-----------------------------------------------------------------------------
(* What each action does to what is owed.                                  *)

LEMMA SoundStep == Sound /\ [Next]_vars => Sound'
<1> SUFFICES ASSUME Sound, [Next]_vars PROVE Sound'
  OBVIOUS
<1>1. CASE Worker
  BY <1>1, OutFdReadyLine, HandleAnswerLine, HandleAskLine, CloseLine DEF Worker
<1>2. CASE Process
  BY <1>2, ReadLine, HandleLine, WaitReadLine, SteadySound DEF Process
<1>3. CASE UNCHANGED vars
  BY <1>3 DEF vars, Sound, TypeOK, Numbered, Aside
<1> QED
  BY <1>1, <1>2, <1>3 DEF Next, Pulse

\* The four things that can happen to it.
Stay == Unanswered' = Unanswered /\ UNCHANGED <<done, open, sent>>
Sends == /\ open /\ sent < N /\ sent' = sent + 1
         /\ Unanswered' = Append(Unanswered, sent + 1)
         /\ UNCHANGED <<done, open>>
Replied == /\ Unanswered # << >>
           /\ done' = Append(done, Head(Unanswered)) /\ Unanswered' = Tail(Unanswered)
           /\ UNCHANGED <<open, sent>>
Leaves == /\ open /\ open' = FALSE /\ UNCHANGED <<done, sent>>
          /\ Unanswered' \in Seq(1..N) /\ \E t \in Seq(1..N) : Unanswered = Unanswered' \o t

LEMMA Moves == Sound /\ [Next]_vars => Stay \/ Sends \/ Replied \/ Leaves
<1> SUFFICES ASSUME Sound, [Next]_vars PROVE Stay \/ Sends \/ Replied \/ Leaves
  OBVIOUS
<1>1. /\ queue \in Seq(1..N) /\ Line \in Seq(Sane) /\ Uris(Line) \in Seq(1..N)
      /\ sent \in 0..N /\ open \in BOOLEAN
  BY Forms DEF Sound, TypeOK
<1>2. CASE OutFdReady
  BY <1>2, OutFdReadyLine DEF OutFdReady, method, Stay, Unanswered
<1>3. CASE HandleAnswer
  <2>1. open /\ UNCHANGED <<open, done, queue>>
    BY <1>3 DEF HandleAnswer, method
  <2>2. CASE sent < N
    <3>1. Line' = Append(Line, Uri(sent + 1)) /\ sent' = sent + 1 /\ Uri(sent + 1) \in Sane
      BY <1>3, <2>2, HandleAnswerLine, Writes
    <3>2. Uris(Line') = Append(Uris(Line), sent + 1)
      BY <1>1, <3>1, Posted DEF Uri
    <3>3. queue \o Append(Uris(Line), sent + 1) = Append(queue \o Uris(Line), sent + 1)
      <4>1. sent + 1 \in 1..N
        BY <1>1, <2>2, ConstantsOK
      <4> QED
        BY <1>1, <4>1, AppendAssoc
    <3> QED
      BY <2>1, <2>2, <3>1, <3>2, <3>3 DEF Sends, Unanswered
  <2>3. CASE ~(sent < N)
    BY <1>3, <2>1, <2>3, HandleAnswerLine DEF Stay, Unanswered
  <2> QED
    BY <2>2, <2>3
<1>4. CASE HandleAsk
  <2>1. PICK no \in BOOLEAN : Line' = Append(Line, Ack(no))
    BY <1>4, HandleAskLine
  <2>2. Uris(Line') = Uris(Line)
    BY <1>1, <2>1, Posted, Writes DEF Ack
  <2> QED
    BY <1>4, <2>2 DEF HandleAsk, method, Stay, Unanswered
<1>5. CASE Close
  <2>1. open /\ open' = FALSE /\ UNCHANGED <<done, sent, queue>>
    BY <1>5 DEF Close, method
  <2>2. Sound' /\ Line = Line' \o out /\ out \in Seq(Sane) /\ Line' \in Seq(Sane)
    <3>1. Sound' /\ Line = Line' \o out /\ out \in Seq(Sane)
      BY <1>5, CloseLine
    <3>2. UNCHANGED <<msgs, mine, toM>> /\ out' = << >>
      BY <1>5 DEF Close, method
    <3>3. toM \in Seq(Sane) /\ mine \in Seq(Sane) /\ msgs \in Seq(Sane) /\ << >> \in Seq(Sane)
      BY DEF Sound, Numbered
    <3>4. toM \o << >> \in Seq(Sane)
      BY <3>3, ConcatProperties
    <3>5. mine \o (toM \o << >>) \in Seq(Sane)
      BY <3>3, <3>4, ConcatProperties
    <3>6. msgs \o (mine \o (toM \o << >>)) \in Seq(Sane)
      BY <3>3, <3>5, ConcatProperties
    <3> QED
      BY <3>1, <3>2, <3>6 DEF Line
  <2>3. PICK u, t : /\ u = Uris(Line') /\ t = Uris(out) /\ u \in Seq(1..N) /\ t \in Seq(1..N)
                    /\ Uris(Line) = u \o t
    BY <2>2, UrisConcat, UrisType
  <2>4. (queue \o u) \o t = queue \o (u \o t) /\ queue \o u \in Seq(1..N)
    <3>1. queue \in Seq(1..N) /\ u \in Seq(1..N) /\ t \in Seq(1..N)
      BY <1>1, <2>3
    <3> QED
      BY <3>1, ConcatAssociative, ConcatProperties
  <2> QED
    BY <2>1, <2>3, <2>4 DEF Leaves, Unanswered
<1>6. CASE Read
  BY <1>6, ReadLine DEF Read, apt, Stay, Unanswered
<1>7. CASE Handle
  <2>1. Head(msgs) \in Sane /\ Line = <<Head(msgs)>> \o Line' /\ Line' \in Seq(Sane)
    BY <1>7, HandleLine
  <2>2. PICK u, r : u = Uris(Line') /\ u \in Seq(1..N) /\ r = Head(msgs).req
    BY <2>1, UrisType
  <2>3. Uris(Line) = IF Head(msgs).kind = "600" THEN <<r>> \o u ELSE u
    <3>1. Uris(<<Head(msgs)>> \o Line') = IF Head(msgs).kind = "600"
                                          THEN <<Head(msgs).req>> \o Uris(Line') ELSE Uris(Line')
      BY <2>1, Taken1
    <3>2. Uris(Line) = Uris(<<Head(msgs)>> \o Line')
      BY <2>1
    <3> QED
      BY <2>2, <3>1, <3>2
  <2>4. queue' = IF Head(msgs).kind = "600" THEN Append(queue, r) ELSE queue
    BY <1>7, <2>2 DEF Handle
  <2>5. Head(msgs).kind = "600" => Append(queue, r) \o u = queue \o (<<r>> \o u)
    <3> SUFFICES ASSUME Head(msgs).kind = "600" PROVE Append(queue, r) \o u = queue \o (<<r>> \o u)
      OBVIOUS
    <3>1. r \in 1..N
      BY <2>1, <2>2, ConstantsOK DEF Sane, Message
    <3>2. queue \in Seq(1..N) /\ u \in Seq(1..N)
      BY <1>1, <2>2
    <3>3. PICK f : f = <<r>> /\ f \in Seq(1..N)
      <4>1. \A i \in 1..N : <<i>> \in Seq(1..N)
        OBVIOUS
      <4> QED
        BY <3>1, <4>1
    <3>4. Append(queue, r) = queue \o f
      BY <3>1, <3>2, <3>3, AppendIsConcat
    <3>5. f \in Seq(1..N)
      BY <3>3
    <3>6. (queue \o f) \o u = queue \o (f \o u)
      BY <3>2, <3>5, ConcatAssociative
    <3> QED
      BY <3>3, <3>4, <3>6
  <2>6. Unanswered' = Unanswered
    BY <2>2, <2>3, <2>4, <2>5 DEF Unanswered
  <2> QED
    BY <1>7, <2>6 DEF Handle, apt, Stay
<1>8. CASE Answer
  <2>1. /\ queue # << >> /\ queue' = Tail(queue) /\ done' = Append(done, Head(queue))
        /\ UNCHANGED <<open, sent>> /\ Line' = Line
    BY <1>8, SteadySound DEF Answer, apt
  <2>2. Head(queue \o Uris(Line)) = Head(queue) /\ queue \o Uris(Line) # << >>
        /\ Tail(queue \o Uris(Line)) = Tail(queue) \o Uris(Line)
    BY <1>1, <2>1, Behead
  <2> QED
    BY <2>1, <2>2 DEF Replied, Unanswered
<1>9. CASE Ask \/ Exit
  BY <1>9, SteadySound DEF Ask, Exit, apt, Stay, Unanswered
<1>10. CASE WaitRead
  <2>1. /\ UNCHANGED <<queue, done, sent, open>>
        /\ \E x, r \in Seq(Sane), h \in Sane :
              /\ Line = x \o (<<h>> \o r)
              /\ IF h.kind = "603" THEN Line' = x \o r /\ ~wait' ELSE Line' = Line /\ wait'
    BY <1>10, WaitReadLine
  <2>2. PICK x \in Seq(Sane), r \in Seq(Sane), h \in Sane :
              /\ Line = x \o (<<h>> \o r)
              /\ IF h.kind = "603" THEN Line' = x \o r /\ ~wait' ELSE Line' = Line /\ wait'
    BY <2>1
  <2>3. h.kind # "600" => Uris(x \o (<<h>> \o r)) = Uris(x \o r)
    BY Taken1
  <2>4. Uris(Line') = Uris(Line)
    BY <2>2, <2>3
  <2> QED
    BY <2>1, <2>4 DEF Stay, Unanswered
<1>11. CASE UNCHANGED vars
  BY <1>11 DEF vars, Stay, Unanswered, Line
<1> QED
  BY <1>2, <1>3, <1>4, <1>5, <1>6, <1>7, <1>8, <1>9, <1>10, <1>11
  DEF Next, Worker, Process, Pulse

-----------------------------------------------------------------------------
(* The invariant holds.                                                    *)

\* The configuration is neither a request nor an acknowledgement.
LEMMA Configuration ==
    ASSUME NEW y \in Seq(Sane)
    PROVE  Uris(<<Conf>> \o y) = Uris(y) /\ Acks(<<Conf>> \o y) = Acks(y)
<1>1. Conf \in Sane /\ Conf.kind = "601"
  BY ConstantsOK DEF Conf, Sane, Message
<1>2. Acks(y) \in Nat
  BY <1>1, AcksParts
<1>3. /\ Uris(<<Conf>> \o y) = IF Conf.kind = "600" THEN <<Conf.req>> \o Uris(y) ELSE Uris(y)
      /\ Acks(<<Conf>> \o y) = Acks(y) + (IF Conf.kind = "603" THEN 1 ELSE 0)
  BY <1>1, Taken1
<1> QED
  BY <1>1, <1>2, <1>3

\* The first state.
LEMMA Opening ==
    ASSUME Init
    PROVE  /\ Sound /\ Line = Greeting /\ Line \in Seq(Sane)
           /\ \E k \in 1..N : sent = k /\ Unanswered = [n \in 1..k |-> n]
           /\ Acks(Line) = 0 /\ Asks(toA) = 0
           /\ kind.config => Line # << >> /\ Head(Line) = Conf
<1>1. PICK k \in 1..N : k = IF kind.depth < N THEN kind.depth ELSE N
  BY ConstantsOK DEF Init, Kind
<1>2. First = [n \in 1..k |-> n] /\ DOMAIN First = 1..k /\ Len(First) = k
  BY <1>1 DEF First
<1> DEFINE uris == [n \in 1..k |-> Uri(n)]
           G == {m \in Sane : m.kind = "600"}
<1>3. uris \in Seq(G) /\ \A n \in 1..k : uris[n].req = n
  <2>1. \A n \in 1..k : Uri(n) \in G /\ Uri(n).req = n
    BY ConstantsOK DEF Uri, Sane, Message
  <2> QED
    BY <2>1
<1>4. uris \in Seq(Sane) /\ Uris(uris) = First /\ Acks(uris) = 0
  <2>1. G \subseteq Fetches /\ G \cap Replies = {} /\ G \subseteq Sane
    BY DEF Fetches, Replies, Sane
  <2> HIDE DEF uris, G
  <2>2. uris \in Seq(Sane)
    BY <1>3, <2>1, SeqMonotonic
  <2>3. Select(uris, Fetches) = uris /\ Select(uris, Replies) = << >>
    BY <1>3, <2>1, SelectAll
  <2>4. DOMAIN uris = 1..k
    BY DEF uris
  <2>5. [n \in DOMAIN uris |-> uris[n].req] = First
    BY <1>2, <1>3, <2>4
  <2>6. Uris(uris) = First
    BY <2>3, <2>5 DEF Uris
  <2>7. Acks(uris) = 0
    BY <2>3 DEF Acks
  <2> QED
    BY <2>2, <2>6, <2>7
<1>5. Greeting = (IF kind.config THEN <<Conf>> ELSE << >>) \o uris
  BY <1>2 DEF Greeting
<1> HIDE DEF uris, G
<1>6. Conf \in Sane /\ Conf.kind = "601"
  BY ConstantsOK DEF Conf, Sane, Message
<1>7. Greeting \in Seq(Sane) /\ Uris(Greeting) = First /\ Acks(Greeting) = 0
  <2>1. CASE kind.config
    <3>1. Greeting = <<Conf>> \o uris
      BY <1>5, <2>1
    <3>2. <<Conf>> \in Seq(Sane)
      BY <1>6
    <3>3. <<Conf>> \o uris \in Seq(Sane)
      BY <1>4, <3>2, ConcatProperties
    <3>4. Uris(<<Conf>> \o uris) = Uris(uris) /\ Acks(<<Conf>> \o uris) = Acks(uris)
      BY <1>4, Configuration
    <3> QED
      BY <1>4, <3>1, <3>3, <3>4
  <2>2. CASE ~kind.config
    <3>1. Greeting = << >> \o uris
      BY <1>5, <2>2
    <3>2. << >> \o uris = uris
      BY <1>4, ConcatEmptySeq
    <3> QED
      BY <1>4, <3>1, <3>2
  <2> QED
    BY <2>1, <2>2
<1>8. out = Greeting /\ Line = Greeting
  <2>1. out = Greeting /\ msgs = << >> /\ mine = << >> /\ toM = << >>
    BY DEF Init
  <2>2. << >> \o Greeting = Greeting
    BY <1>7, ConcatEmptySeq
  <2> QED
    BY <2>1, <2>2 DEF Line
<1>9. Sound
  <2>1. sent = k /\ k \in 0..N /\ 0 \in 0..MaxAsks
    BY <1>1, <1>2, ConstantsOK DEF Init
  <2>2. out \in Seq(Sane) /\ out \in Seq(Message)
    BY <1>7, <1>8, Upper
  <2>3. TypeOK
    <3>1. /\ << >> \in Seq(Message) /\ << >> \in Seq(1..N) /\ << >> \in Seq({"answer", "ask"})
      OBVIOUS
    <3>2. kind \in Methods /\ sent \in 0..N /\ asked \in 0..MaxAsks
      BY <2>1 DEF Init
    <3> QED
      BY <2>2, <3>1, <3>2 DEF Init, TypeOK
  <2>4. Numbered /\ Aside
    BY <2>2 DEF Init, Numbered, Aside
  <2> QED
    BY <2>3, <2>4 DEF Sound
<1>10. sent = k /\ Unanswered = [n \in 1..k |-> n]
  <2>1. First \in Seq(1..N)
    <3>1. k \in Nat /\ \A n \in 1..k : n \in 1..N
      BY <1>1, ConstantsOK
    <3> QED
      BY <1>2, <3>1
  <2>2. << >> \o First = First
    BY <2>1, ConcatEmptySeq
  <2> QED
    BY <1>2, <1>7, <1>8, <2>2 DEF Init, Unanswered
<1>11. Asks(toA) = 0
  <2>1. Asks(<< >>) = 0
    <3>1. << >> \in Seq(Says) /\ "ask" \in Says
      BY DEF Says
    <3> QED
      BY <3>1, AsksParts
  <2> QED
    BY <2>1 DEF Init
<1>12. kind.config => Line # << >> /\ Head(Line) = Conf
  <2> SUFFICES ASSUME kind.config PROVE Line # << >> /\ Head(Line) = Conf
    OBVIOUS
  <2>1. <<Conf>> \in Seq(Sane) /\ <<Conf>> # << >> /\ Head(<<Conf>>) = Conf
    BY <1>6
  <2>2. <<Conf>> \o uris # << >> /\ Head(<<Conf>> \o uris) = Head(<<Conf>>)
    BY <1>4, <2>1, Behead
  <2> QED
    BY <1>5, <1>8, <2>1, <2>2
<1> QED
  BY <1>7, <1>8, <1>9, <1>10, <1>11, <1>12

\* The order of the requests.
LEMMA OrderStep == Sound /\ NothingLost /\ [Next]_vars => NothingLost'
<1> SUFFICES ASSUME Sound, NothingLost, [Next]_vars, open' PROVE (done \o Unanswered = [n \in 1..sent |-> n])'
  BY DEF NothingLost
<1>1. /\ done \in Seq(1..N) /\ Unanswered \in Seq(1..N) /\ sent \in 0..N
  BY Forms DEF Sound, TypeOK
<1>2. CASE Stay
  BY <1>2 DEF Stay, NothingLost
<1>3. CASE Sends
  <2>1. sent + 1 \in 1..N
    BY <1>1, <1>3, ConstantsOK DEF Sends
  <2>2. done \o Append(Unanswered, sent + 1) = Append(done \o Unanswered, sent + 1)
    BY <1>1, <2>1, AppendAssoc
  <2>3. Append([n \in 1..sent |-> n], sent + 1) = [n \in 1..(sent + 1) |-> n]
    BY <1>1
  <2> QED
    BY <1>3, <2>2, <2>3 DEF Sends, NothingLost
<1>4. CASE Replied
  <2>1. PICK h \in 1..N, t \in Seq(1..N) : h = Head(Unanswered) /\ t = Tail(Unanswered)
    BY <1>1, <1>4, HeadTail DEF Replied
  <2>2. Unanswered = <<h>> \o t
    BY <1>1, <1>4, <2>1, HeadTail DEF Replied
  <2>3. Append(done, h) = done \o <<h>> /\ <<h>> \in Seq(1..N)
    BY <1>1, AppendIsConcat
  <2>4. (done \o <<h>>) \o t = done \o (<<h>> \o t)
    BY <1>1, <2>3, ConcatAssociative
  <2>5. done' = Append(done, h) /\ Unanswered' = t /\ UNCHANGED <<open, sent>>
    BY <1>4, <2>1 DEF Replied
  <2> QED
    BY <2>2, <2>3, <2>4, <2>5 DEF NothingLost
<1>5. CASE Leaves
  BY <1>5 DEF Leaves
<1> QED
  BY <1>2, <1>3, <1>4, <1>5, Moves

\* The count of questions and acknowledgements, in any state of the invariant.
LEMMA Count ==
    Sound => /\ Acks(Line) \in Nat /\ Asks(toA) \in Nat /\ Line \in Seq(Sane)
             /\ toA \in Seq(Says)
             /\ OneAckEach <=> (open => Asks(toA) + Acks(Line) = (IF wait THEN 1 ELSE 0))
BY Forms DEF Sound, TypeOK, Says

LEMMA AckStep == Sound /\ OneAckEach /\ [Next]_vars => OneAckEach'
<1> SUFFICES ASSUME Sound, OneAckEach, [Next]_vars, open' PROVE OneAckEach'
  BY DEF OneAckEach
<1> DEFINE a == Acks(Line)
           q == Asks(toA)
           w == IF wait THEN 1 ELSE 0
<1>1. a \in Nat /\ q \in Nat /\ Line \in Seq(Sane) /\ toA \in Seq(Says) /\ (open => q + a = w)
  BY Count
<1>2. (Sound => /\ Acks(Line) \in Nat /\ Asks(toA) \in Nat /\ Line \in Seq(Sane)
                /\ toA \in Seq(Says)
                /\ OneAckEach <=> (open => Asks(toA) + Acks(Line) = (IF wait THEN 1 ELSE 0)))'
  BY Count, PTL
<1>3. Sound'
  BY SoundStep
<1>4. SUFFICES q' + a' = w'
  BY <1>2, <1>3
<1>5. a' \in Nat /\ q' \in Nat
  BY <1>2, <1>3
<1>6. CASE OutFdReady \/ Read
  <2>1. Line' = Line /\ UNCHANGED <<toA, wait, open>>
    BY <1>6, OutFdReadyLine, ReadLine DEF OutFdReady, Read, method, apt
  <2> QED
    BY <1>1, <2>1
<1>7. CASE HandleAnswer
  <2>1. /\ toA # << >> /\ Head(toA) = "answer" /\ toA' = Tail(toA) /\ UNCHANGED <<wait, open>>
        /\ open
    BY <1>7 DEF HandleAnswer, method
  <2>2. q = q'
    <3>1. Asks(toA) = Asks(Tail(toA)) + 0 /\ Asks(Tail(toA)) \in Nat
      <4>1. "ask" \in Says /\ Head(toA) # "ask"
        BY <2>1 DEF Says
      <4>2. Tail(toA) \in Seq(Says)
        BY <1>1, <2>1, HeadTailProperties
      <4> QED
        BY <1>1, <2>1, <4>1, <4>2, AsksParts
    <3> QED
      BY <2>1, <3>1
  <2>3. a' = a
    <3>1. Uri(sent + 1).kind = "600"
      BY DEF Uri
    <3>2. CASE sent < N
      <4>1. Line' = Append(Line, Uri(sent + 1)) /\ Uri(sent + 1) \in Sane
        BY <1>7, <3>2, HandleAnswerLine, Writes
      <4> QED
        BY <1>1, <3>1, <4>1, Posted
    <3>3. CASE ~(sent < N)
      BY <1>7, <3>3, HandleAnswerLine
    <3> QED
      BY <3>2, <3>3
  <2> QED
    BY <1>1, <2>1, <2>2, <2>3
<1>8. CASE HandleAsk
  <2>1. /\ toA # << >> /\ Head(toA) = "ask" /\ toA' = Tail(toA) /\ UNCHANGED <<wait, open>>
        /\ open
    BY <1>8 DEF HandleAsk, method
  <2>2. q = q' + 1
    <3>1. Asks(toA) = Asks(Tail(toA)) + 1
      <4>1. "ask" \in Says
        BY DEF Says
      <4> QED
        BY <1>1, <2>1, <4>1, AsksParts
    <3> QED
      BY <2>1, <3>1
  <2>3. a' = a + 1
    <3>1. PICK no \in BOOLEAN : Line' = Append(Line, Ack(no))
      BY <1>8, HandleAskLine
    <3>2. Ack(no).kind = "603" /\ Ack(no) \in Sane
      BY Writes DEF Ack
    <3> QED
      BY <1>1, <3>1, <3>2, Posted
  <2> QED
    BY <1>1, <1>5, <2>1, <2>2, <2>3
<1>9. CASE Handle
  <2>1. Head(msgs) \in Sane /\ Line = <<Head(msgs)>> \o Line' /\ Line' \in Seq(Sane)
    BY <1>9, HandleLine
  <2>2. a = a' + (IF Head(msgs).kind = "603" THEN 1 ELSE 0)
    <3>1. Acks(<<Head(msgs)>> \o Line') = Acks(Line') + (IF Head(msgs).kind = "603" THEN 1 ELSE 0)
      BY <2>1, Taken1
    <3>2. Acks(Line) = Acks(<<Head(msgs)>> \o Line')
      BY <2>1
    <3> QED
      BY <3>1, <3>2
  <2>3. ~wait /\ ~wait' /\ open /\ toA' = toA
    BY <1>9 DEF Handle, apt
  <2> QED
    BY <1>1, <1>5, <2>2, <2>3
<1>10. CASE Answer \/ Ask
  <2>1. Line' = Line /\ open /\ ~wait
    BY <1>10, SteadySound DEF Answer, Ask, apt
  <2>2. "answer" \in Says /\ "ask" \in Says
    BY DEF Says
  <2>3. CASE Answer
    <3>1. toA' = Append(toA, "answer") /\ wait' = wait
      BY <2>1, <2>3 DEF Answer
    <3>2. Asks(Append(toA, "answer")) = q + 0
      BY <1>1, <2>2, AsksParts
    <3> QED
      BY <1>1, <2>1, <3>1, <3>2
  <2>4. CASE Ask
    <3>1. toA' = Append(toA, "ask") /\ wait' = TRUE
      BY <2>1, <2>4 DEF Ask
    <3>2. Asks(Append(toA, "ask")) = q + 1
      BY <1>1, <2>2, AsksParts
    <3> QED
      BY <1>1, <2>1, <3>1, <3>2
  <2> QED
    BY <1>10, <2>3, <2>4
<1>11. CASE WaitRead
  <2>1. /\ UNCHANGED <<toA, open>> /\ wait
        /\ \E x, r \in Seq(Sane), h \in Sane :
              /\ Line = x \o (<<h>> \o r)
              /\ IF h.kind = "603" THEN Line' = x \o r /\ ~wait' ELSE Line' = Line /\ wait'
    BY <1>11, WaitReadLine
  <2>2. PICK x \in Seq(Sane), r \in Seq(Sane), h \in Sane :
              /\ Line = x \o (<<h>> \o r)
              /\ IF h.kind = "603" THEN Line' = x \o r /\ ~wait' ELSE Line' = Line /\ wait'
    BY <2>1
  <2>3. Acks(x \o (<<h>> \o r)) = Acks(x \o r) + (IF h.kind = "603" THEN 1 ELSE 0)
    BY Taken1
  <2>4. CASE h.kind = "603"
    <3>1. a = a' + 1 /\ ~wait'
      BY <2>2, <2>3, <2>4
    <3> QED
      BY <1>1, <1>5, <2>1, <3>1
  <2>5. CASE h.kind # "603"
    BY <1>1, <2>1, <2>2, <2>5
  <2> QED
    BY <2>4, <2>5
<1>12. CASE Close \/ Exit
  BY <1>12 DEF Close, Exit, apt
<1>13. CASE UNCHANGED vars
  BY <1>1, <1>13 DEF vars, Line
<1> QED
  BY <1>6, <1>7, <1>8, <1>9, <1>10, <1>11, <1>12, <1>13 DEF Next, Worker, Process, Pulse

\* The configuration comes first.
LEMMA ConfiguredStep == Sound /\ Configured /\ [Next]_vars => Configured'
<1> SUFFICES ASSUME Sound, Configured, [Next]_vars, kind'.config, ~config' PROVE Configured'
  BY DEF Configured
<1>1. kind' = kind /\ ~config
  <2>1. CASE OutFdReady \/ HandleAnswer \/ HandleAsk \/ Close
    BY <2>1 DEF OutFdReady, HandleAnswer, HandleAsk, Close, method
  <2>2. CASE Read \/ Answer \/ Ask \/ Exit
    BY <2>2 DEF Read, Answer, Ask, Exit, apt
  <2>3. CASE Handle
    BY <2>3 DEF Handle, apt
  <2>4. CASE WaitRead
    BY <2>4 DEF WaitRead, apt
  <2>5. CASE UNCHANGED vars
    BY <2>5 DEF vars
  <2> QED
    BY <2>1, <2>2, <2>3, <2>4, <2>5 DEF Next, Worker, Process, Pulse
<1>2. /\ queue = << >> /\ done = << >> /\ toA = << >> /\ ~wait
      /\ Line # << >> => Head(Line) = Conf
  BY <1>1 DEF Configured
<1>3. CASE OutFdReady \/ Read \/ Exit
  <2>1. Line' = Line
    BY <1>3, OutFdReadyLine, ReadLine, SteadySound
  <2> QED
    BY <1>2, <1>3, <2>1 DEF Configured, OutFdReady, Read, Exit, apt, method
<1>4. CASE HandleAnswer \/ HandleAsk
  BY <1>2, <1>4 DEF HandleAnswer, HandleAsk
<1>5. CASE Close
  <2>1. Sound' /\ Line = Line' \o out /\ out \in Seq(Sane)
    BY <1>5, CloseLine
  <2>2. (Sound => /\ Acks(Line) \in Nat /\ Asks(toA) \in Nat /\ Line \in Seq(Sane)
                  /\ toA \in Seq(Says)
                  /\ OneAckEach <=> (open => Asks(toA) + Acks(Line) = (IF wait THEN 1 ELSE 0)))'
    BY Count, PTL
  <2>3. Line' # << >> => Line # << >> /\ Head(Line) = Head(Line')
    <3> SUFFICES ASSUME Line' # << >>
                 PROVE  Line' \o out # << >> /\ Head(Line' \o out) = Head(Line')
      BY <2>1
    <3> QED
      BY <2>1, <2>2, Behead
  <2>4. toA' = << >> /\ UNCHANGED <<queue, done, wait>>
    BY <1>5 DEF Close, method
  <2> QED
    BY <1>2, <2>3, <2>4 DEF Configured
<1>6. CASE Handle
  <2>1. Head(msgs) \in Sane /\ Line = <<Head(msgs)>> \o Line' /\ Line' \in Seq(Sane)
    BY <1>6, HandleLine
  <2>2. Head(msgs).kind # "601"
    BY <1>6 DEF Handle
  <2>3. Conf.kind = "601"
    BY DEF Conf
  <2>4. <<Head(msgs)>> \in Seq(Sane) /\ <<Head(msgs)>> # << >>
        /\ Head(<<Head(msgs)>>) = Head(msgs)
    BY <2>1
  <2>5. /\ <<Head(msgs)>> \o Line' # << >>
        /\ Head(<<Head(msgs)>> \o Line') = Head(<<Head(msgs)>>)
    BY <2>1, <2>4, Behead
  <2>6. Line # << >> /\ Head(Line) = Head(msgs)
    BY <2>1, <2>4, <2>5
  <2> QED
    BY <1>2, <2>2, <2>3, <2>6
<1>7. CASE Answer \/ Ask \/ WaitRead
  BY <1>2, <1>7 DEF Answer, Ask, WaitRead
<1>8. CASE UNCHANGED vars
  BY <1>2, <1>8 DEF vars, Line, Configured
<1> QED
  BY <1>3, <1>4, <1>5, <1>6, <1>7, <1>8 DEF Next, Worker, Process, Pulse

LEMMA Invariant == Spec => []Inv
<1>1. Init => Inv
  <2> SUFFICES ASSUME Init PROVE Inv
    OBVIOUS
  <2>1. Sound /\ kind.config => Head(Line) = Conf
    BY Opening
  <2>2. NothingLost
    <3>1. PICK k \in 1..N : sent = k /\ Unanswered = [n \in 1..k |-> n]
      BY Opening
    <3>2. [n \in 1..k |-> n] \in Seq(Nat)
      BY ConstantsOK
    <3>3. << >> \o [n \in 1..k |-> n] = [n \in 1..k |-> n]
      BY <3>2, ConcatEmptySeq
    <3> QED
      BY <3>1, <3>3 DEF NothingLost, Init
  <2>3. OneAckEach
    <3>1. Sound /\ Acks(Line) = 0 /\ Asks(toA) = 0
      BY Opening
    <3>2. wait = FALSE
      BY DEF Init
    <3> QED
      BY <3>1, <3>2, Count
  <2>4. Configured
    BY Opening DEF Configured, Init
  <2> QED
    BY Opening, <2>2, <2>3, <2>4 DEF Inv
<1>2. Inv /\ [Next]_vars => Inv'
  BY SoundStep, OrderStep, AckStep, ConfiguredStep DEF Inv
<1> QED
  BY <1>1, <1>2, PTL DEF Spec

\* The messages, pipes and queues of a worker and its method hold what they are
\* declared to hold, for any methods.
THEOREM Typed == Spec => []TypeOK
<1>1. Inv => TypeOK
  BY DEF Inv, Sound
<1> QED
  BY <1>1, Invariant, PTL

\* No request is lost, answered twice or overtaken between OutQueue and the
\* answer, for any number of requests, any pipe depth and any questions.
THEOREM Order == Spec => []NothingLost
<1>1. Inv => NothingLost
  BY DEF Inv
<1> QED
  BY <1>1, Invariant, PTL

\* While APT listens there is exactly one question or acknowledgement under way
\* for a method that waits for one, and none for any other.
THEOREM Acknowledged == Spec => []OneAckEach
<1>1. Inv => OneAckEach
  BY DEF Inv
<1> QED
  BY <1>1, Invariant, PTL

\* A method that asked for its configuration has applied it before it fetches.
THEOREM Prepared == Spec => []ConfigFirst
<1>1. Inv => ConfigFirst
  BY DEF Inv, Configured, ConfigFirst
<1> QED
  BY <1>1, Invariant, PTL

-----------------------------------------------------------------------------
(* The promise.                                                            *)

LEMMA PromiseInit == Init => Promise!Init
<1> SUFFICES ASSUME Init PROVE Promise!Init
  OBVIOUS
<1>1. \E k \in 1..N : Unanswered = [n \in 1..k |-> n]
  BY Opening
<1> QED
  BY <1>1 DEF Promise!Init, Init

LEMMA PromiseStep == Inv /\ [Next]_vars => [Promise!Next]_(Promise!vars)
<1> SUFFICES ASSUME Inv, [Next]_vars PROVE [Promise!Next]_(Promise!vars)
  OBVIOUS
<1>1. Unanswered \in Seq(1..N) /\ done \in Seq(1..N) /\ sent \in 0..N /\ open \in BOOLEAN
  BY Forms DEF Inv, Sound, TypeOK
<1>2. CASE Stay
  BY <1>2 DEF Stay, Promise!vars
<1>3. CASE Sends
  <2>1. open /\ sent + 1 \in 1..N /\ Unanswered' = Append(Unanswered, sent + 1)
        /\ UNCHANGED <<open, done>>
    BY <1>1, <1>3, ConstantsOK DEF Sends
  <2>2. done \o Unanswered = [n \in 1..sent |-> n]
    BY <2>1 DEF Inv, NothingLost
  <2>3. /\ Len(done) \in Nat /\ Len(Unanswered) \in Nat
        /\ Len(done \o Unanswered) = Len(done) + Len(Unanswered)
        /\ \A i \in 1..(Len(done) + Len(Unanswered)) :
              (done \o Unanswered)[i] = IF i <= Len(done) THEN done[i]
                                        ELSE Unanswered[i - Len(done)]
    BY <1>1, ConcatProperties, LenProperties
  <2>4. Len(done) + Len(Unanswered) = sent
    BY <1>1, <2>2, <2>3
  <2>5. ASSUME NEW n \in DOMAIN Unanswered PROVE Unanswered[n] # sent + 1
    <3>1. n \in 1..Len(Unanswered)
      BY <1>1, <2>5, LenProperties
    <3>2. n + Len(done) \in 1..sent /\ ~(n + Len(done) <= Len(done))
          /\ (n + Len(done)) - Len(done) = n
      BY <2>3, <2>4, <3>1
    <3>3. Unanswered[n] = n + Len(done)
      BY <2>2, <2>3, <2>4, <3>2
    <3> QED
      BY <1>1, <3>2, <3>3
  <2>6. ASSUME NEW n \in DOMAIN done PROVE done[n] # sent + 1
    <3>1. n \in 1..Len(done)
      BY <1>1, <2>6, LenProperties
    <3>2. n \in 1..sent /\ n <= Len(done)
      BY <2>3, <2>4, <3>1
    <3>3. done[n] = n
      BY <2>2, <2>3, <2>4, <3>2
    <3> QED
      BY <1>1, <3>2, <3>3
  <2>7. Promise!Send
    BY <2>1, <2>5, <2>6 DEF Promise!Send
  <2> QED
    BY <2>7 DEF Promise!Next
<1>4. CASE Replied
  BY <1>4 DEF Replied, Promise!Answer, Promise!Next
<1>5. CASE Leaves
  <2>1. PICK t \in Seq(1..N) : Unanswered = Unanswered' \o t
    BY <1>5 DEF Leaves
  <2>2. PICK u \in Seq(1..N) : u = Unanswered'
    BY <1>5 DEF Leaves
  <2>3. Len(u) \in 0..Len(Unanswered) /\ u = SubSeq(Unanswered, 1, Len(u))
    BY <2>1, <2>2, PrefixOfConcat
  <2>4. Promise!Leave
    BY <1>1, <1>5, <2>2, <2>3 DEF Leaves, Promise!Leave
  <2> QED
    BY <2>4 DEF Promise!Next
<1> QED
  BY <1>2, <1>3, <1>4, <1>5, Moves DEF Inv

\* The message engine of acquire-method.cc, with its two lists of messages and
\* its questions, implements the promise that the scheduler is written against:
\* each request that it was sent is answered once, in the order of sending.
THEOREM Implements == Spec => PromiseKept
<1>1. Init => Promise!Init
  BY PromiseInit
<1>2. Inv /\ [Next]_vars => [Promise!Next]_(Promise!vars)
  BY PromiseStep
<1> QED
  BY <1>1, <1>2, Invariant, PTL DEF Spec, PromiseKept, Promise!Spec
=============================================================================
