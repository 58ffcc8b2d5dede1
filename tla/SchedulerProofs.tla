--------------------------- MODULE SchedulerProofs ---------------------------
(***************************************************************************)
(* Proofs about Scheduler: no job is lost or doubled, and no job holds two *)
(* leases, for every number of jobs, workers, queues and lease ids.        *)
(***************************************************************************)
EXTENDS Scheduler, FiniteSetTheorems, SequenceTheorems, WellFoundedInduction, TLAPS

-----------------------------------------------------------------------------
(* Sequences, element by element.                                          *)

LEMMA AppendIs ==
  ASSUME NEW S, NEW s \in Seq(S), NEW x \in S
  PROVE  /\ Append(s, x) \in Seq(S) /\ Len(Append(s, x)) = Len(s) + 1
         /\ Append(s, x) = s \o <<x>>
         /\ \A i \in 1 .. Len(s) + 1 : Append(s, x)[i] = IF i <= Len(s) THEN s[i] ELSE x
<1>1. /\ <<x>> \in Seq(S) /\ Len(<<x>>) = 1 /\ <<x>>[1] = x
      /\ Len(s) \in Nat
  OBVIOUS
<1>2. /\ Append(s, x) \in Seq(S) /\ Len(Append(s, x)) = Len(s) + 1
      /\ \A i \in 1 .. Len(s) + 1 : Append(s, x)[i] = IF i <= Len(s) THEN s[i] ELSE x
  OBVIOUS
<1>3. Append(s, x) = s \o <<x>>
  <2>1. /\ s \o <<x>> \in Seq(S) /\ Len(s \o <<x>>) = Len(s) + 1
        /\ \A i \in 1 .. Len(s) + 1 :
             (s \o <<x>>)[i] = IF i <= Len(s) THEN s[i] ELSE <<x>>[i - Len(s)]
    BY <1>1, ConcatProperties
  <2>2. \A i \in 1 .. Len(Append(s, x)) : Append(s, x)[i] = (s \o <<x>>)[i]
    BY <1>1, <1>2, <2>1
  <2> QED
    BY <1>2, <2>1, <2>2, SeqEqual
<1> QED
  BY <1>2, <1>3

LEMMA HeadTailIs ==
  ASSUME NEW S, NEW s \in Seq(S), s # <<>>
  PROVE  /\ Head(s) \in S /\ Head(s) = s[1] /\ Len(s) \in Nat \ {0}
         /\ Tail(s) \in Seq(S) /\ Len(Tail(s)) = Len(s) - 1
         /\ \A i \in 1 .. Len(s) - 1 : Tail(s)[i] = s[i + 1]
         /\ s = <<Head(s)>> \o Tail(s)
<1>1. /\ Head(s) \in S /\ Head(s) = s[1] /\ Len(s) \in Nat \ {0}
      /\ Tail(s) \in Seq(S) /\ Len(Tail(s)) = Len(s) - 1
      /\ \A i \in 1 .. Len(s) - 1 : Tail(s)[i] = s[i + 1]
  BY HeadTailProperties, EmptySeq
<1>2. <<Head(s)>> \in Seq(S) /\ Len(<<Head(s)>>) = 1 /\ <<Head(s)>>[1] = s[1]
  BY <1>1
<1>3. /\ <<Head(s)>> \o Tail(s) \in Seq(S) /\ Len(<<Head(s)>> \o Tail(s)) = Len(s)
      /\ \A i \in 1 .. Len(s) : (<<Head(s)>> \o Tail(s))[i] =
           IF i <= 1 THEN <<Head(s)>>[i] ELSE Tail(s)[i - 1]
  BY <1>1, <1>2, ConcatProperties
<1>4. \A i \in 1 .. Len(s) : s[i] = (<<Head(s)>> \o Tail(s))[i]
  BY <1>1, <1>2, <1>3
<1>5. s = <<Head(s)>> \o Tail(s)
  BY <1>3, <1>4, SeqEqual
<1> QED
  BY <1>1, <1>5

\* A list cut in two: what stays and what is left.
LEMMA SplitIs ==
  ASSUME NEW S, NEW s \in Seq(S), NEW n \in 0 .. Len(s)
  PROVE  /\ SubSeq(s, 1, n) \in Seq(S) /\ Len(SubSeq(s, 1, n)) = n
         /\ \A i \in 1 .. n : SubSeq(s, 1, n)[i] = s[i]
         /\ SubSeq(s, n + 1, Len(s)) \in Seq(S)
         /\ Len(SubSeq(s, n + 1, Len(s))) = Len(s) - n
         /\ \A i \in 1 .. Len(s) - n : SubSeq(s, n + 1, Len(s))[i] = s[n + i]
         /\ s = SubSeq(s, 1, n) \o SubSeq(s, n + 1, Len(s))
<1>1. Len(s) \in Nat /\ n \in Int /\ n + 1 \in Int
  OBVIOUS
<1>2. \A i \in 1 .. Len(s) : s[i] \in S
  OBVIOUS
<1>3. /\ SubSeq(s, 1, n) \in Seq(S) /\ Len(SubSeq(s, 1, n)) = n
      /\ \A i \in 1 .. n : SubSeq(s, 1, n)[i] = s[i]
  <2>1. \A i \in 1 .. n : s[i] \in S
    BY <1>1, <1>2
  <2> QED
    BY <1>1, <2>1, SubSeqProperties
<1>4. /\ SubSeq(s, n + 1, Len(s)) \in Seq(S)
      /\ Len(SubSeq(s, n + 1, Len(s))) = Len(s) - n
      /\ \A i \in 1 .. Len(s) - n : SubSeq(s, n + 1, Len(s))[i] = s[n + i]
  <2>1. \A i \in n + 1 .. Len(s) : s[i] \in S
    BY <1>1, <1>2
  <2>2. /\ SubSeq(s, n + 1, Len(s)) \in Seq(S)
        /\ Len(SubSeq(s, n + 1, Len(s))) = IF n + 1 <= Len(s) THEN Len(s) - (n + 1) + 1 ELSE 0
        /\ \A i \in 1 .. Len(s) - (n + 1) + 1 :
             SubSeq(s, n + 1, Len(s))[i] = s[n + 1 + i - 1]
    BY <1>1, <2>1, SubSeqProperties
  <2>3. /\ (IF n + 1 <= Len(s) THEN Len(s) - (n + 1) + 1 ELSE 0) = Len(s) - n
        /\ 1 .. Len(s) - (n + 1) + 1 = 1 .. Len(s) - n
        /\ \A i \in 1 .. Len(s) - n : n + 1 + i - 1 = n + i
    BY <1>1
  <2> QED
    BY <2>2, <2>3
<1>5. s = SubSeq(s, 1, n) \o SubSeq(s, n + 1, Len(s))
  <2>1. SubSeq(s, 1, n) \o SubSeq(s, n + 1, Len(s)) = SubSeq(s, 1, Len(s))
    <3>1. 1 \in 1 .. Len(s) + 1 /\ n \in 1 - 1 .. Len(s) /\ Len(s) \in n .. Len(s)
      BY <1>1
    <3> QED
      BY <3>1, ConcatAdjacentSubSeq
  <2> QED
    BY <2>1, SubSeqFull
<1> QED
  BY <1>3, <1>4, <1>5

\* The place of every element after an insertion.
LEMMA InsertIs ==
  ASSUME NEW S, NEW s \in Seq(S), NEW p \in 1 .. Len(s) + 1, NEW x \in S
  PROVE  /\ InsertAt(s, p, x) \in Seq(S) /\ Len(InsertAt(s, p, x)) = Len(s) + 1
         /\ \A i \in 1 .. Len(s) + 1 :
              InsertAt(s, p, x)[i] = IF i < p THEN s[i] ELSE IF i = p THEN x ELSE s[i - 1]
<1> DEFINE a == SubSeq(s, 1, p - 1)
           b == SubSeq(s, p, Len(s))
<1>1. Len(s) \in Nat /\ p - 1 \in 0 .. Len(s) /\ (p - 1) + 1 = p
  OBVIOUS
<1>2. /\ a \in Seq(S) /\ Len(a) = p - 1 /\ \A i \in 1 .. p - 1 : a[i] = s[i]
      /\ b \in Seq(S) /\ Len(b) = Len(s) - (p - 1)
      /\ \A i \in 1 .. Len(s) - (p - 1) : b[i] = s[(p - 1) + i]
  BY <1>1, SplitIs
<1>3. InsertAt(s, p, x) = (a \o <<x>>) \o b
  BY DEF InsertAt
<1> HIDE DEF a, b
<1>4. /\ Append(a, x) \in Seq(S) /\ Len(Append(a, x)) = p /\ Append(a, x) = a \o <<x>>
      /\ \A i \in 1 .. p : Append(a, x)[i] = IF i <= p - 1 THEN a[i] ELSE x
  BY <1>1, <1>2, AppendIs
<1>5. /\ Append(a, x) \o b \in Seq(S) /\ Len(Append(a, x) \o b) = Len(s) + 1
      /\ \A i \in 1 .. Len(s) + 1 :
           (Append(a, x) \o b)[i] = IF i <= p THEN Append(a, x)[i] ELSE b[i - p]
  <2> DEFINE c == Append(a, x)
  <2>1. Len(c) + Len(b) = Len(s) + 1 /\ c \in Seq(S) /\ b \in Seq(S) /\ Len(c) = p
    BY <1>1, <1>2, <1>4
  <2> HIDE DEF c
  <2>2. /\ c \o b \in Seq(S) /\ Len(c \o b) = Len(c) + Len(b)
        /\ \A i \in 1 .. Len(c) + Len(b) :
             (c \o b)[i] = IF i <= Len(c) THEN c[i] ELSE b[i - Len(c)]
    BY <2>1, ConcatProperties
  <2>3. /\ c \o b \in Seq(S) /\ Len(c \o b) = Len(s) + 1
        /\ \A i \in 1 .. Len(s) + 1 : (c \o b)[i] = IF i <= p THEN c[i] ELSE b[i - p]
    BY <2>1, <2>2
  <2> QED
    BY <2>3 DEF c
<1>6. ASSUME NEW i \in 1 .. Len(s) + 1
      PROVE  InsertAt(s, p, x)[i] = IF i < p THEN s[i] ELSE IF i = p THEN x ELSE s[i - 1]
  <2>1. CASE i < p
    <3>1. i \in 1 .. p - 1 /\ i \in 1 .. p /\ i <= p /\ i <= p - 1
      BY <2>1, <1>1
    <3> QED
      BY <3>1, <2>1, <1>2, <1>3, <1>4, <1>5, <1>6
  <2>2. CASE i = p
    <3>1. i \in 1 .. p /\ i <= p /\ ~(i <= p - 1)
      BY <2>2, <1>1
    <3> QED
      BY <3>1, <2>2, <1>3, <1>4, <1>5, <1>6
  <2>3. CASE i > p
    <3>1. /\ i - p \in 1 .. Len(s) - (p - 1) /\ ~(i <= p) /\ ~(i < p) /\ i # p
          /\ (p - 1) + (i - p) = i - 1
      BY <2>3, <1>1
    <3> QED
      BY <3>1, <1>2, <1>3, <1>4, <1>5, <1>6
  <2> QED
    BY <1>1, <2>1, <2>2, <2>3
<1> QED
  BY <1>3, <1>4, <1>5, <1>6

-----------------------------------------------------------------------------
(* How many elements of a list are of a job, and which leases they carry.  *)

\* What the count is a count of.
At(s, j) == {i \in DOMAIN s : s[i].job = j}

\* The list has an element of the job that carries the lease.
Carries(s, j, x) == \E i \in DOMAIN s : s[i].job = j /\ s[i].lease = x

LEMMA AtFinite ==
  ASSUME NEW S, NEW s \in Seq(S), NEW j
  PROVE  /\ IsFiniteSet(At(s, j)) /\ CountIn(s, j) = Cardinality(At(s, j))
         /\ CountIn(s, j) \in Nat
<1>1. DOMAIN s = 1 .. Len(s) /\ Len(s) \in Nat
  OBVIOUS
<1>2. IsFiniteSet(1 .. Len(s))
  BY <1>1, FS_Interval
<1>3. At(s, j) \subseteq 1 .. Len(s)
  BY <1>1 DEF At
<1>4. IsFiniteSet(At(s, j))
  BY <1>2, <1>3, FS_Subset
<1> QED
  BY <1>4, FS_CardinalityType DEF CountIn, At

\* Adding an offset does not change the number of elements.
LEMMA ShiftedCount ==
  ASSUME NEW A, IsFiniteSet(A), A \subseteq Nat, NEW m \in Nat
  PROVE  /\ IsFiniteSet({m + i : i \in A})
         /\ Cardinality({m + i : i \in A}) = Cardinality(A)
<1> DEFINE B == {m + i : i \in A}
           f == [i \in A |-> m + i]
<1>1. f \in Surjection(A, B)
  BY DEF Surjection
<1>2. f \in Injection(A, B)
  BY DEF Injection, IsInjective
<1> QED
  BY <1>1, <1>2, FS_Surjection

LEMMA CountConcat ==
  ASSUME NEW S, NEW s \in Seq(S), NEW t \in Seq(S), NEW j
  PROVE  CountIn(s \o t, j) = CountIn(s, j) + CountIn(t, j)
<1> DEFINE u == s \o t
           B == {Len(s) + i : i \in At(t, j)}
<1>1. /\ u \in Seq(S) /\ Len(u) = Len(s) + Len(t)
      /\ \A i \in 1 .. Len(s) + Len(t) : u[i] = IF i <= Len(s) THEN s[i] ELSE t[i - Len(s)]
  BY ConcatProperties
<1>2. /\ DOMAIN s = 1 .. Len(s) /\ DOMAIN t = 1 .. Len(t) /\ Len(s) \in Nat /\ Len(t) \in Nat
      /\ DOMAIN u = 1 .. Len(s) + Len(t)
  BY <1>1
<1> HIDE DEF u
<1>3. At(u, j) = At(s, j) \cup B
  <2>1. ASSUME NEW i \in At(u, j)
        PROVE  i \in At(s, j) \cup B
    <3>1. i \in 1 .. Len(s) + Len(t) /\ u[i].job = j
      BY <1>2, <2>1 DEF At
    <3>2. CASE i <= Len(s)
      BY <1>1, <1>2, <3>1, <3>2 DEF At
    <3>3. CASE ~(i <= Len(s))
      <4>1. i - Len(s) \in 1 .. Len(t) /\ i = Len(s) + (i - Len(s))
        BY <1>2, <3>1, <3>3
      <4>2. i - Len(s) \in At(t, j)
        BY <1>1, <1>2, <3>1, <3>3, <4>1 DEF At
      <4> QED
        BY <4>1, <4>2
    <3> QED
      BY <3>2, <3>3
  <2>2. ASSUME NEW i \in At(s, j)
        PROVE  i \in At(u, j)
    <3>1. i \in 1 .. Len(s) + Len(t) /\ i <= Len(s) /\ s[i].job = j
      BY <1>2, <2>2 DEF At
    <3> QED
      BY <1>1, <1>2, <3>1 DEF At
  <2>3. ASSUME NEW i \in At(t, j)
        PROVE  Len(s) + i \in At(u, j)
    <3>1. /\ Len(s) + i \in 1 .. Len(s) + Len(t) /\ ~(Len(s) + i <= Len(s))
          /\ (Len(s) + i) - Len(s) = i /\ t[i].job = j
      BY <1>2, <2>3 DEF At
    <3> QED
      BY <1>1, <1>2, <3>1 DEF At
  <2> QED
    BY <2>1, <2>2, <2>3
<1>4. At(s, j) \cap B = {}
  BY <1>2 DEF At
<1>5. /\ IsFiniteSet(At(s, j)) /\ CountIn(s, j) = Cardinality(At(s, j)) /\ CountIn(s, j) \in Nat
      /\ IsFiniteSet(At(t, j)) /\ CountIn(t, j) = Cardinality(At(t, j)) /\ CountIn(t, j) \in Nat
      /\ CountIn(u, j) = Cardinality(At(u, j))
  BY <1>1, AtFinite
<1>6. IsFiniteSet(B) /\ Cardinality(B) = Cardinality(At(t, j))
  <2>1. At(t, j) \subseteq Nat
    BY <1>2 DEF At
  <2> QED
    BY <1>2, <1>5, <2>1, ShiftedCount
<1> HIDE DEF B
<1>7. Cardinality(At(s, j) \cup B)
        = Cardinality(At(s, j)) + Cardinality(B) - Cardinality(At(s, j) \cap B)
  BY <1>5, <1>6, FS_Union
<1>8. Cardinality(At(s, j) \cap B) = 0
  BY <1>4, FS_EmptySet
<1>9. CountIn(u, j) = CountIn(s, j) + CountIn(t, j)
  BY <1>3, <1>5, <1>6, <1>7, <1>8
<1> QED
  BY <1>9 DEF u

\* Whether an element is of the job, as a number.
One(x, j) == IF x.job = j THEN 1 ELSE 0

LEMMA CountSingle ==
  ASSUME NEW x, NEW j
  PROVE  CountIn(<<x>>, j) = One(x, j)
<1>1. DOMAIN <<x>> = {1} /\ <<x>>[1] = x
  OBVIOUS
<1>2. CASE x.job = j
  <2>1. {i \in DOMAIN <<x>> : <<x>>[i].job = j} = {1}
    BY <1>1, <1>2
  <2> QED
    BY <1>2, <2>1, FS_Singleton DEF CountIn, One
<1>3. CASE x.job # j
  <2>1. {i \in DOMAIN <<x>> : <<x>>[i].job = j} = {}
    BY <1>1, <1>3
  <2> QED
    BY <1>3, <2>1, FS_EmptySet DEF CountIn, One
<1> QED
  BY <1>2, <1>3

LEMMA CountEmpty ==
  ASSUME NEW j
  PROVE  CountIn(<<>>, j) = 0
<1>1. {i \in DOMAIN <<>> : <<>>[i].job = j} = {}
  OBVIOUS
<1> QED
  BY <1>1, FS_EmptySet DEF CountIn

LEMMA CountAppend ==
  ASSUME NEW S, NEW s \in Seq(S), NEW x \in S, NEW j
  PROVE  CountIn(Append(s, x), j) = CountIn(s, j) + One(x, j)
<1>1. Append(s, x) = s \o <<x>> /\ <<x>> \in Seq(S)
  BY AppendIs
<1>2. CountIn(s \o <<x>>, j) = CountIn(s, j) + CountIn(<<x>>, j)
  BY <1>1, CountConcat
<1>3. CountIn(<<x>>, j) = One(x, j)
  BY CountSingle
<1> QED
  BY <1>1, <1>2, <1>3

LEMMA CountTail ==
  ASSUME NEW S, NEW s \in Seq(S), s # <<>>, NEW j
  PROVE  /\ CountIn(s, j) = One(Head(s), j) + CountIn(Tail(s), j)
         /\ CountIn(Tail(s), j) \in Nat
<1>1. /\ s = <<Head(s)>> \o Tail(s) /\ <<Head(s)>> \in Seq(S) /\ Tail(s) \in Seq(S)
  BY HeadTailIs
<1>2. CountIn(<<Head(s)>> \o Tail(s), j) = CountIn(<<Head(s)>>, j) + CountIn(Tail(s), j)
  BY <1>1, CountConcat
<1>3. CountIn(<<Head(s)>>, j) = One(Head(s), j)
  BY CountSingle
<1>4. CountIn(Tail(s), j) \in Nat
  BY <1>1, AtFinite
<1> QED
  BY <1>1, <1>2, <1>3, <1>4

LEMMA CountInsert ==
  ASSUME NEW S, NEW s \in Seq(S), NEW p \in 1 .. Len(s) + 1, NEW x \in S, NEW j
  PROVE  CountIn(InsertAt(s, p, x), j) = CountIn(s, j) + One(x, j)
<1> DEFINE a == SubSeq(s, 1, p - 1)
           b == SubSeq(s, p, Len(s))
<1>1. Len(s) \in Nat /\ p - 1 \in 0 .. Len(s) /\ (p - 1) + 1 = p
  OBVIOUS
<1>2. a \in Seq(S) /\ b \in Seq(S) /\ s = a \o b
  BY <1>1, SplitIs, ZenonT(60)
<1>3. InsertAt(s, p, x) = (a \o <<x>>) \o b
  BY DEF InsertAt
<1> HIDE DEF a, b
<1>4. a \o <<x>> \in Seq(S) /\ <<x>> \in Seq(S)
  BY <1>2, AppendIs
<1>5. /\ CountIn(a \o b, j) = CountIn(a, j) + CountIn(b, j)
      /\ CountIn(a \o <<x>>, j) = CountIn(a, j) + CountIn(<<x>>, j)
      /\ CountIn((a \o <<x>>) \o b, j) = CountIn(a \o <<x>>, j) + CountIn(b, j)
  BY <1>2, <1>4, CountConcat, ZenonT(60)
<1>6. CountIn(a, j) \in Nat /\ CountIn(b, j) \in Nat /\ CountIn(<<x>>, j) = One(x, j)
  BY <1>2, AtFinite, CountSingle
<1>7. One(x, j) \in Nat
  BY DEF One
<1> QED
  BY <1>2, <1>3, <1>5, <1>6, <1>7

\* A list whose elements keep their jobs has the same counts.
LEMMA CountSame ==
  ASSUME NEW s, NEW t, DOMAIN t = DOMAIN s, \A i \in DOMAIN s : t[i].job = s[i].job, NEW j
  PROVE  CountIn(t, j) = CountIn(s, j)
<1>1. {i \in DOMAIN t : t[i].job = j} = {i \in DOMAIN s : s[i].job = j}
  OBVIOUS
<1> QED
  BY <1>1 DEF CountIn

\* A list that has an element of a job counts it.
LEMMA CarriesCounts ==
  ASSUME NEW S, NEW s \in Seq(S), NEW j, NEW x, Carries(s, j, x)
  PROVE  CountIn(s, j) >= 1
<1>1. PICK i \in DOMAIN s : s[i].job = j
  BY DEF Carries
<1>2. At(s, j) # {}
  BY <1>1 DEF At
<1>3. IsFiniteSet(At(s, j)) /\ CountIn(s, j) = Cardinality(At(s, j)) /\ CountIn(s, j) \in Nat
  BY AtFinite
<1>4. Cardinality(At(s, j)) # 0
  BY <1>2, <1>3, FS_EmptySet
<1> QED
  BY <1>3, <1>4

LEMMA CarriesAppend ==
  ASSUME NEW S, NEW s \in Seq(S), NEW y \in S, NEW j, NEW x, Carries(Append(s, y), j, x)
  PROVE  Carries(s, j, x) \/ (y.job = j /\ y.lease = x)
<1>1. /\ Append(s, y) \in Seq(S) /\ Len(Append(s, y)) = Len(s) + 1 /\ Len(s) \in Nat
      /\ \A i \in 1 .. Len(s) + 1 : Append(s, y)[i] = IF i <= Len(s) THEN s[i] ELSE y
      /\ DOMAIN s = 1 .. Len(s) /\ DOMAIN Append(s, y) = 1 .. Len(s) + 1
  BY AppendIs
<1>2. PICK i \in DOMAIN Append(s, y) : Append(s, y)[i].job = j /\ Append(s, y)[i].lease = x
  BY DEF Carries
<1>3. CASE i <= Len(s)
  <2>1. i \in DOMAIN s /\ s[i].job = j /\ s[i].lease = x
    BY <1>1, <1>2, <1>3
  <2> QED
    BY <2>1 DEF Carries
<1>4. CASE ~(i <= Len(s))
  BY <1>1, <1>2, <1>4
<1> QED
  BY <1>3, <1>4

LEMMA CarriesTail ==
  ASSUME NEW S, NEW s \in Seq(S), s # <<>>, NEW j, NEW x
  PROVE  /\ Carries(Tail(s), j, x) => Carries(s, j, x)
         /\ Carries(s, Head(s).job, Head(s).lease)
<1>1. /\ Head(s) = s[1] /\ Len(s) \in Nat \ {0} /\ Tail(s) \in Seq(S) /\ Len(Tail(s)) = Len(s) - 1
      /\ \A i \in 1 .. Len(s) - 1 : Tail(s)[i] = s[i + 1]
      /\ DOMAIN s = 1 .. Len(s) /\ DOMAIN Tail(s) = 1 .. Len(s) - 1
  BY HeadTailIs
<1>2. ASSUME Carries(Tail(s), j, x)
      PROVE  Carries(s, j, x)
  <2>1. PICK i \in DOMAIN Tail(s) : Tail(s)[i].job = j /\ Tail(s)[i].lease = x
    BY <1>2 DEF Carries
  <2>2. i + 1 \in DOMAIN s /\ s[i + 1].job = j /\ s[i + 1].lease = x
    BY <1>1, <2>1
  <2> QED
    BY <2>2 DEF Carries
<1>3. 1 \in DOMAIN s
  BY <1>1
<1> QED
  BY <1>1, <1>2, <1>3 DEF Carries

LEMMA CarriesInsert ==
  ASSUME NEW S, NEW s \in Seq(S), NEW p \in 1 .. Len(s) + 1, NEW y \in S, NEW j, NEW x,
         Carries(InsertAt(s, p, y), j, x)
  PROVE  Carries(s, j, x) \/ (y.job = j /\ y.lease = x)
<1> DEFINE t == InsertAt(s, p, y)
<1>1. /\ t \in Seq(S) /\ Len(t) = Len(s) + 1
      /\ \A i \in 1 .. Len(s) + 1 :
           t[i] = IF i < p THEN s[i] ELSE IF i = p THEN y ELSE s[i - 1]
  BY InsertIs
<1>2. DOMAIN s = 1 .. Len(s) /\ DOMAIN t = 1 .. Len(s) + 1 /\ Len(s) \in Nat
  BY <1>1
<1>3. PICK i \in DOMAIN t : t[i].job = j /\ t[i].lease = x
  BY DEF Carries
<1> HIDE DEF t
<1>4. CASE i < p
  <2>1. i \in DOMAIN s /\ s[i].job = j /\ s[i].lease = x
    BY <1>1, <1>2, <1>3, <1>4
  <2> QED
    BY <2>1 DEF Carries
<1>5. CASE i = p
  BY <1>1, <1>2, <1>3, <1>5
<1>6. CASE i > p
  <2>1. i - 1 \in DOMAIN s /\ s[i - 1].job = j /\ s[i - 1].lease = x
    BY <1>1, <1>2, <1>3, <1>6
  <2> QED
    BY <2>1 DEF Carries
<1> QED
  BY <1>2, <1>4, <1>5, <1>6

LEMMA CarriesSame ==
  ASSUME NEW s, NEW t, DOMAIN t = DOMAIN s,
         \A i \in DOMAIN s : t[i].job = s[i].job /\ t[i].lease = s[i].lease, NEW j, NEW x
  PROVE  Carries(t, j, x) <=> Carries(s, j, x)
BY DEF Carries

LEMMA CarriesConcat ==
  ASSUME NEW S, NEW s \in Seq(S), NEW t \in Seq(S), NEW j, NEW x, Carries(s \o t, j, x)
  PROVE  Carries(s, j, x) \/ Carries(t, j, x)
<1>1. /\ s \o t \in Seq(S) /\ Len(s \o t) = Len(s) + Len(t)
      /\ \A i \in 1 .. Len(s) + Len(t) : (s \o t)[i] = IF i <= Len(s) THEN s[i] ELSE t[i - Len(s)]
      /\ DOMAIN s = 1 .. Len(s) /\ DOMAIN t = 1 .. Len(t) /\ Len(s) \in Nat /\ Len(t) \in Nat
      /\ DOMAIN (s \o t) = 1 .. Len(s) + Len(t)
  BY ConcatProperties
<1>2. PICK i \in DOMAIN (s \o t) : (s \o t)[i].job = j /\ (s \o t)[i].lease = x
  BY DEF Carries
<1>3. CASE i <= Len(s)
  <2>1. i \in DOMAIN s /\ s[i].job = j /\ s[i].lease = x
    BY <1>1, <1>2, <1>3
  <2> QED
    BY <2>1 DEF Carries
<1>4. CASE ~(i <= Len(s))
  <2>1. i - Len(s) \in DOMAIN t
    BY <1>1, <1>2, <1>4
  <2>2. t[i - Len(s)].job = j /\ t[i - Len(s)].lease = x
    BY <1>1, <1>2, <1>4
  <2> QED
    BY <2>1, <2>2 DEF Carries
<1> QED
  BY <1>3, <1>4

-----------------------------------------------------------------------------
(* The choices of the loop exist.                                          *)

\* A nonempty set of naturals has a least element.
LEMMA Least ==
  ASSUME NEW T, T \subseteq Nat, T # {}
  PROVE  \E m \in T : \A y \in T : m <= y
<1> DEFINE R == OpToRel(<, Nat)
<1>1. IsWellFoundedOn(R, Nat)
  BY NatLessThanWellFounded
<1>2. PICK m \in T : \A y \in T : ~ (<<y, m>> \in R)
  <2> HIDE DEF R
  <2> QED
    BY <1>1, WFMin
<1>3. ASSUME NEW y \in T, y < m
      PROVE  FALSE
  <2>1. <<y, m>> \in Nat \X Nat /\ <<y, m>>[1] < <<y, m>>[2]
    BY <1>3
  <2>2. <<y, m>> \in R
    BY <2>1 DEF OpToRel
  <2> QED
    BY <1>2, <2>2
<1> QED
  BY <1>3

\* popReady stops: there is a first item that is not ready, or all are.
LEMMA DueCountIs ==
  ASSUME NEW s \in Seq(BlockedItem)
  PROVE  DueCount(s) \in 0 .. Len(s)
<1> DEFINE T == {n \in 0 .. Len(s) : n < Len(s) => s[n + 1].delay > 0}
<1>1. Len(s) \in Nat /\ \A i \in 1 .. Len(s) : s[i].delay \in Nat
  <2>1. \A i \in 1 .. Len(s) : s[i] \in BlockedItem
    BY ElementOfSeq
  <2> QED
    BY <2>1 DEF BlockedItem
<1>2. Len(s) \in T /\ T \subseteq Nat
  BY <1>1
<1>3. PICK m \in T : \A y \in T : m <= y
  <2> HIDE DEF T
  <2> QED
    BY <1>2, Least
<1>4. ASSUME NEW i \in 1 .. m, s[i].delay # 0
      PROVE  FALSE
  <2>1. i - 1 \in 0 .. Len(s) /\ (i - 1) + 1 = i /\ i \in 1 .. Len(s) /\ ~(m <= i - 1)
    BY <1>1, <1>4
  <2>2. s[(i - 1) + 1].delay > 0
    BY <1>1, <1>4, <2>1
  <2>3. i - 1 \in T
    BY <2>1, <2>2
  <2> QED
    BY <1>3, <2>1, <2>3
<1>5. m \in 0 .. Len(s) /\ (\A i \in 1 .. m : s[i].delay = 0)
        /\ (m < Len(s) => s[m + 1].delay > 0)
  BY <1>3, <1>4
<1>6. \E n \in 0 .. Len(s) : /\ \A i \in 1 .. n : s[i].delay = 0
                             /\ n < Len(s) => s[n + 1].delay > 0
  BY <1>5
<1> QED
  BY <1>6 DEF DueCount

\* Going round a list of n places.
LEMMA Around ==
  ASSUME NEW n \in Nat, NEW a \in Nat, a < n
  PROVE  a % n = a /\ (a + n) % n = a
OBVIOUS

LEMMA Remainder ==
  ASSUME NEW n \in Nat \ {0}, NEW a \in Nat
  PROVE  a % n \in 0 .. n - 1
OBVIOUS

-----------------------------------------------------------------------------
(* The type invariant.                                                     *)

\* A list of ready jobs of a queue, and a sorted list of its denied jobs.
ReadyOK(s, q) == s \in Seq(Item) /\ \A i \in DOMAIN s : QueueOf[s[i].job] = q
BlockedOK(s, q) ==
  /\ s \in Seq(BlockedItem) /\ \A i \in DOMAIN s : QueueOf[s[i].job] = q
  /\ \A i, k \in DOMAIN s : i <= k => s[i].delay <= s[k].delay

\* The queue is in the round-robin order.
Known(q) == \E i \in DOMAIN order : order[i] = q

ChannelsTyped ==
  /\ submitCh \in Seq(Item) /\ Len(submitCh) <= SubmitCap
  /\ requeueCh \in Seq(BlockedItem) /\ Len(requeueCh) <= RequeueCap
  /\ workCh \in Seq(Item) /\ Len(workCh) <= WorkCap

QueuesTyped ==
  /\ ready \in [Queue -> Seq(Item)] /\ blocked \in [Queue -> Seq(BlockedItem)]
  /\ order \in Seq(Queue) /\ rrIndex \in 0 .. Len(order)
  /\ \A q \in Queue : /\ ReadyOK(ready[q], q) /\ BlockedOK(blocked[q], q)
                      /\ ready[q] # <<>> \/ blocked[q] # <<>> => Known(q)

GoroutinesTyped ==
  /\ loop \in {"top", "dispatch", "select", "done"} /\ timer \in Nat
  /\ worker \in [Worker -> WorkerState]

HistoryTyped ==
  /\ stopped \in BOOLEAN /\ submitted \subseteq Job /\ finished \subseteq Job
  /\ granted \in [Job -> SUBSET LeaseId] /\ refused \in [Job -> SUBSET LeaseId]

\* The types, with every job in the queue of its provider and model.
Typed == ChannelsTyped /\ QueuesTyped /\ GoroutinesTyped /\ HistoryTyped

LEMMA TypedIsType == Typed => TypeOK
BY DEF Typed, ChannelsTyped, QueuesTyped, GoroutinesTyped, HistoryTyped, TypeOK, ReadyOK,
       BlockedOK, Known

LEMMA ReadyAppend ==
  ASSUME NEW q \in Queue, NEW s, ReadyOK(s, q), NEW x \in Item, QueueOf[x.job] = q
  PROVE  ReadyOK(Append(s, x), q) /\ Append(s, x) # <<>>
<1>1. /\ Append(s, x) \in Seq(Item) /\ Len(Append(s, x)) = Len(s) + 1 /\ Len(s) \in Nat
      /\ \A i \in 1 .. Len(s) + 1 : Append(s, x)[i] = IF i <= Len(s) THEN s[i] ELSE x
      /\ DOMAIN s = 1 .. Len(s) /\ DOMAIN Append(s, x) = 1 .. Len(s) + 1
  BY AppendIs DEF ReadyOK
<1>2. ASSUME NEW i \in 1 .. Len(s) + 1
      PROVE  QueueOf[Append(s, x)[i].job] = q
  BY <1>1, <1>2 DEF ReadyOK
<1>3. Append(s, x) # <<>>
  BY <1>1
<1> DEFINE t == Append(s, x)
<1>4. t \in Seq(Item) /\ DOMAIN t = 1 .. Len(s) + 1 /\ \A i \in 1 .. Len(s) + 1 : QueueOf[t[i].job] = q
  BY <1>1, <1>2
<1> HIDE DEF t
<1>5. ReadyOK(t, q)
  BY <1>4 DEF ReadyOK
<1> QED
  BY <1>3, <1>5 DEF t

LEMMA ReadyTail ==
  ASSUME NEW q \in Queue, NEW s, ReadyOK(s, q), s # <<>>
  PROVE  /\ ReadyOK(Tail(s), q) /\ Head(s) \in Item /\ QueueOf[Head(s).job] = q
<1>1. /\ Head(s) = s[1] /\ Head(s) \in Item /\ Len(s) \in Nat \ {0}
      /\ Tail(s) \in Seq(Item) /\ Len(Tail(s)) = Len(s) - 1
      /\ \A i \in 1 .. Len(s) - 1 : Tail(s)[i] = s[i + 1]
      /\ DOMAIN s = 1 .. Len(s) /\ DOMAIN Tail(s) = 1 .. Len(s) - 1
  BY HeadTailIs DEF ReadyOK
<1>2. \A i \in 1 .. Len(s) - 1 : i + 1 \in 1 .. Len(s)
  BY <1>1
<1>3. 1 \in DOMAIN s
  BY <1>1
<1> QED
  BY <1>1, <1>2, <1>3 DEF ReadyOK

\* popReady and the promotion to the ready list.
Promoted(s) == [i \in DOMAIN Due(s) |-> [job |-> Due(s)[i].job, lease |-> Due(s)[i].lease]]

LEMMA DueIs ==
  ASSUME NEW q \in Queue, NEW s, BlockedOK(s, q)
  PROVE  /\ ReadyOK(Promoted(s), q) /\ Len(Promoted(s)) = DueCount(s)
         /\ BlockedOK(NotDue(s), q)
         /\ s = Due(s) \o NotDue(s) /\ Due(s) \in Seq(BlockedItem)
         /\ DOMAIN Promoted(s) = DOMAIN Due(s)
         /\ s = <<>> => Promoted(s) = <<>>
<1> DEFINE n == DueCount(s)
<1>1. s \in Seq(BlockedItem) /\ Len(s) \in Nat /\ n \in 0 .. Len(s) /\ DOMAIN s = 1 .. Len(s)
  BY DueCountIs DEF BlockedOK
<1> HIDE DEF n
<1>2. /\ SubSeq(s, 1, n) \in Seq(BlockedItem) /\ Len(SubSeq(s, 1, n)) = n
      /\ \A i \in 1 .. n : SubSeq(s, 1, n)[i] = s[i]
      /\ SubSeq(s, n + 1, Len(s)) \in Seq(BlockedItem)
      /\ Len(SubSeq(s, n + 1, Len(s))) = Len(s) - n
      /\ \A i \in 1 .. Len(s) - n : SubSeq(s, n + 1, Len(s))[i] = s[n + i]
      /\ s = SubSeq(s, 1, n) \o SubSeq(s, n + 1, Len(s))
  BY <1>1, SplitIs
<1>3. /\ Due(s) \in Seq(BlockedItem) /\ Len(Due(s)) = n /\ DOMAIN Due(s) = 1 .. n
      /\ \A i \in 1 .. n : Due(s)[i] = s[i]
  <2>1. Due(s) = SubSeq(s, 1, n)
    BY DEF Due, n
  <2>2. Due(s) \in Seq(BlockedItem) /\ Len(Due(s)) = n /\ \A i \in 1 .. n : Due(s)[i] = s[i]
    BY <1>2, <2>1
  <2> QED
    BY <2>2, LenProperties
<1>4. /\ NotDue(s) \in Seq(BlockedItem) /\ Len(NotDue(s)) = Len(s) - n
      /\ DOMAIN NotDue(s) = 1 .. Len(s) - n
      /\ \A i \in 1 .. Len(s) - n : NotDue(s)[i] = s[n + i]
  <2>1. NotDue(s) = SubSeq(s, n + 1, Len(s))
    BY DEF NotDue, n
  <2>2. /\ NotDue(s) \in Seq(BlockedItem) /\ Len(NotDue(s)) = Len(s) - n
        /\ \A i \in 1 .. Len(s) - n : NotDue(s)[i] = s[n + i]
    BY <1>2, <2>1
  <2> QED
    BY <2>2, LenProperties
<1>5. s = Due(s) \o NotDue(s)
  BY <1>2 DEF Due, NotDue, n
<1>6. /\ Promoted(s) \in Seq(Item) /\ Len(Promoted(s)) = n /\ DOMAIN Promoted(s) = 1 .. n
      /\ \A i \in 1 .. n : Promoted(s)[i].job = s[i].job
  <2>1. \A i \in 1 .. n : Due(s)[i] \in BlockedItem
    BY <1>3
  <2>2. \A i \in 1 .. n : [job |-> Due(s)[i].job, lease |-> Due(s)[i].lease] \in Item
    BY <2>1 DEF BlockedItem, Item
  <2>3. Promoted(s) = [i \in 1 .. n |-> [job |-> Due(s)[i].job, lease |-> Due(s)[i].lease]]
    BY <1>3 DEF Promoted
  <2> QED
    BY <1>1, <1>3, <2>2, <2>3
<1>7. ReadyOK(Promoted(s), q)
  <2>1. \A i \in 1 .. n : i \in DOMAIN s
    BY <1>1
  <2> QED
    BY <1>6, <2>1 DEF ReadyOK, BlockedOK
<1>8. BlockedOK(NotDue(s), q)
  <2>1. \A i \in 1 .. Len(s) - n : n + i \in DOMAIN s
    BY <1>1
  <2>2. \A i, k \in 1 .. Len(s) - n : i <= k => n + i <= n + k
    BY <1>1
  <2> QED
    BY <1>4, <2>1, <2>2 DEF BlockedOK
<1>9. s = <<>> => Promoted(s) = <<>>
  BY <1>1, <1>6
<1> QED
  BY <1>3, <1>5, <1>6, <1>7, <1>8, <1>9 DEF n

LEMMA ReadyConcat ==
  ASSUME NEW q \in Queue, NEW s, ReadyOK(s, q), NEW t, ReadyOK(t, q)
  PROVE  ReadyOK(s \o t, q) /\ (s = <<>> /\ t = <<>> => s \o t = <<>>)
<1>1. s \in Seq(Item) /\ t \in Seq(Item)
  BY DEF ReadyOK
<1>2. /\ s \o t \in Seq(Item) /\ Len(s \o t) = Len(s) + Len(t)
      /\ \A i \in 1 .. Len(s) + Len(t) : (s \o t)[i] = IF i <= Len(s) THEN s[i] ELSE t[i - Len(s)]
      /\ DOMAIN s = 1 .. Len(s) /\ DOMAIN t = 1 .. Len(t) /\ Len(s) \in Nat /\ Len(t) \in Nat
      /\ DOMAIN (s \o t) = 1 .. Len(s) + Len(t)
  BY <1>1, ConcatProperties
<1>3. ASSUME NEW i \in 1 .. Len(s) + Len(t)
      PROVE  QueueOf[(s \o t)[i].job] = q
  <2>1. CASE i <= Len(s)
    BY <1>2, <1>3, <2>1 DEF ReadyOK
  <2>2. CASE ~(i <= Len(s))
    <3>1. i - Len(s) \in DOMAIN t
      BY <1>2, <1>3, <2>2
    <3> QED
      BY <1>2, <1>3, <2>2, <3>1 DEF ReadyOK
  <2> QED
    BY <2>1, <2>2
<1>4. s = <<>> /\ t = <<>> => s \o t = <<>>
  BY <1>1, ConcatEqualIffEmpty
<1> QED
  BY <1>2, <1>3, <1>4 DEF ReadyOK

\* push keeps the list sorted.
LEMMA BlockedInsert ==
  ASSUME NEW q \in Queue, NEW s, BlockedOK(s, q), NEW x \in BlockedItem, QueueOf[x.job] = q,
         NEW p \in PushIndexes(s, x.delay)
  PROVE  BlockedOK(InsertAt(s, p, x), q) /\ p \in 1 .. Len(s) + 1
<1> DEFINE t == InsertAt(s, p, x)
<1>1. /\ s \in Seq(BlockedItem) /\ Len(s) \in Nat /\ DOMAIN s = 1 .. Len(s) /\ x.delay \in Nat
      /\ \A i \in 1 .. Len(s) : s[i].delay \in Nat
      /\ \A i, k \in 1 .. Len(s) : i <= k => s[i].delay <= s[k].delay
      /\ \A i \in 1 .. Len(s) : QueueOf[s[i].job] = q
  <2>1. s \in Seq(BlockedItem)
    BY DEF BlockedOK
  <2>2. Len(s) \in Nat /\ DOMAIN s = 1 .. Len(s) /\ \A i \in 1 .. Len(s) : s[i] \in BlockedItem
    BY <2>1, LenProperties, ElementOfSeq
  <2>3. x.delay \in Nat /\ \A i \in 1 .. Len(s) : s[i].delay \in Nat
    BY <2>2 DEF BlockedItem
  <2>4. /\ \A i, k \in 1 .. Len(s) : i <= k => s[i].delay <= s[k].delay
        /\ \A i \in 1 .. Len(s) : QueueOf[s[i].job] = q
    BY <2>2 DEF BlockedOK
  <2> QED
    BY <2>1, <2>2, <2>3, <2>4
<1>2. /\ p \in 1 .. Len(s) + 1
      /\ \A k \in 1 .. p - 1 : s[k].delay <= x.delay
      /\ p <= Len(s) => s[p].delay >= x.delay
  <2>1. p \in 1 .. Len(s) + 1
    BY DEF PushIndexes
  <2>2. \A k \in 1 .. p - 1 : s[k].delay < x.delay \/ (s[k].delay = 0 /\ x.delay = 0)
    BY DEF PushIndexes
  <2>3. p <= Len(s) => s[p].delay >= x.delay
    BY DEF PushIndexes
  <2>4. \A k \in 1 .. p - 1 : k \in 1 .. Len(s)
    BY <1>1, <2>1
  <2> QED
    BY <1>1, <2>1, <2>2, <2>3, <2>4
<1>3. /\ t \in Seq(BlockedItem) /\ Len(t) = Len(s) + 1 /\ DOMAIN t = 1 .. Len(s) + 1
      /\ \A i \in 1 .. Len(s) + 1 :
           t[i] = IF i < p THEN s[i] ELSE IF i = p THEN x ELSE s[i - 1]
  <2>1. /\ t \in Seq(BlockedItem) /\ Len(t) = Len(s) + 1
        /\ \A i \in 1 .. Len(s) + 1 :
             t[i] = IF i < p THEN s[i] ELSE IF i = p THEN x ELSE s[i - 1]
    BY <1>1, <1>2, InsertIs, SMTT(30)
  <2> QED
    BY <2>1, LenProperties
<1> HIDE DEF t
<1>4. \A i \in 1 .. Len(s) + 1 : /\ i < p => i \in 1 .. Len(s) /\ i \in 1 .. p - 1
                                 /\ i > p => i - 1 \in 1 .. Len(s) /\ p <= i - 1 /\ p \in 1 .. Len(s)
  BY <1>1, <1>2
<1>5. ASSUME NEW i \in 1 .. Len(s) + 1
      PROVE  QueueOf[t[i].job] = q
  <2>1. CASE i < p
    BY <1>1, <1>3, <1>4, <1>5, <2>1
  <2>2. CASE i = p
    BY <1>1, <1>2, <1>3, <1>5, <2>2
  <2>3. CASE i > p
    <3>1. i - 1 \in 1 .. Len(s) /\ ~(i < p) /\ i # p
      BY <1>2, <1>4, <1>5, <2>3
    <3> QED
      BY <1>1, <1>3, <1>5, <3>1
  <2> QED
    BY <1>2, <1>5, <2>1, <2>2, <2>3
<1>6. ASSUME NEW i \in 1 .. Len(s) + 1, NEW k \in 1 .. Len(s) + 1, i <= k
      PROVE  t[i].delay <= t[k].delay
  <2>0. i \in Int /\ k \in Int /\ p \in Int
    BY <1>1, <1>2
  <2>1. CASE i < p /\ k < p
    BY <1>1, <1>3, <1>4, <1>6, <2>1
  <2>2. CASE i < p /\ k = p
    BY <1>1, <1>2, <1>3, <1>4, <1>6, <2>2
  <2>3. CASE i < p /\ k > p
    <3>1. i <= k - 1 /\ i \in 1 .. Len(s) /\ k - 1 \in 1 .. Len(s) /\ ~(k < p) /\ k # p
      BY <1>4, <2>0, <2>3
    <3>2. t[i] = s[i] /\ t[k] = s[k - 1]
      BY <1>3, <2>3, <3>1
    <3> QED
      BY <1>1, <3>1, <3>2
  <2>4. CASE i = p /\ k = p
    BY <1>1, <1>3, <2>4
  <2>5. CASE i = p /\ k > p
    <3>1. p <= k - 1 /\ k - 1 \in 1 .. Len(s) /\ p \in 1 .. Len(s) /\ ~(k < p) /\ k # p /\ p <= Len(s)
      BY <1>4, <2>0, <2>5
    <3>2. t[i] = x /\ t[k] = s[k - 1]
      BY <1>3, <2>0, <2>5, <3>1
    <3>3. s[p].delay <= s[k - 1].delay /\ s[p].delay >= x.delay /\ s[p].delay \in Nat
            /\ s[k - 1].delay \in Nat
      BY <1>1, <1>2, <3>1
    <3> QED
      BY <1>1, <3>2, <3>3
  <2>6. CASE i > p
    <3>1. /\ i - 1 \in 1 .. Len(s) /\ k - 1 \in 1 .. Len(s) /\ i - 1 <= k - 1
          /\ ~(i < p) /\ i # p /\ ~(k < p) /\ k # p
      BY <1>4, <1>6, <2>0, <2>6
    <3>2. t[i] = s[i - 1] /\ t[k] = s[k - 1]
      BY <1>3, <3>1
    <3> QED
      BY <1>1, <3>1, <3>2
  <2> QED
    BY <1>6, <2>0, <2>1, <2>2, <2>3, <2>4, <2>5, <2>6
<1>7. BlockedOK(t, q)
  BY <1>3, <1>5, <1>6 DEF BlockedOK
<1> QED
  BY <1>2, <1>7 DEF t

\* Time passes: the delays shrink, the order stays.
LEMMA SoonerIs ==
  ASSUME NEW s \in Seq(BlockedItem)
  PROVE  /\ Sooner(s) \in Seq(BlockedItem) /\ Len(Sooner(s)) = Len(s) /\ DOMAIN Sooner(s) = DOMAIN s
         /\ \A i \in DOMAIN s : /\ Sooner(s)[i].job = s[i].job /\ Sooner(s)[i].lease = s[i].lease
                                /\ Sooner(s)[i].delay = Down(s[i].delay)
<1>1. Len(s) \in Nat /\ DOMAIN s = 1 .. Len(s) /\ \A i \in 1 .. Len(s) : s[i] \in BlockedItem
  BY LenProperties, ElementOfSeq
<1>2. \A i \in 1 .. Len(s) : Down(s[i].delay) \in Nat
  BY <1>1 DEF Down, BlockedItem
<1>3. \A i \in 1 .. Len(s) :
        [job |-> s[i].job, lease |-> s[i].lease, delay |-> Down(s[i].delay)] \in BlockedItem
  BY <1>1, <1>2 DEF BlockedItem
<1>4. Sooner(s) = [i \in 1 .. Len(s) |->
        [job |-> s[i].job, lease |-> s[i].lease, delay |-> Down(s[i].delay)]]
  BY <1>1 DEF Sooner
<1> QED
  BY <1>1, <1>3, <1>4

LEMMA BlockedSooner ==
  ASSUME NEW q \in Queue, NEW s, BlockedOK(s, q)
  PROVE  BlockedOK(Sooner(s), q) /\ (s = <<>> <=> Sooner(s) = <<>>)
<1>1. s \in Seq(BlockedItem) /\ Len(s) \in Nat /\ DOMAIN s = 1 .. Len(s)
  BY LenProperties DEF BlockedOK
<1>2. \A i \in DOMAIN s : s[i].delay \in Nat
  <2>1. \A i \in DOMAIN s : s[i] \in BlockedItem
    BY <1>1, ElementOfSeq
  <2> QED
    BY <2>1 DEF BlockedItem
<1> DEFINE t == Sooner(s)
<1>3. /\ t \in Seq(BlockedItem) /\ Len(t) = Len(s) /\ DOMAIN t = DOMAIN s
      /\ \A i \in DOMAIN s : t[i].job = s[i].job /\ t[i].delay = Down(s[i].delay)
  BY <1>1, SoonerIs
<1> HIDE DEF t
<1>4. \A i, k \in DOMAIN s : i <= k => t[i].delay <= t[k].delay
  <2>1. ASSUME NEW i \in DOMAIN s, NEW k \in DOMAIN s, i <= k
        PROVE  t[i].delay <= t[k].delay
    <3>1. s[i].delay <= s[k].delay
      BY <2>1 DEF BlockedOK
    <3> QED
      BY <1>2, <1>3, <3>1 DEF Down
  <2> QED
    BY <2>1
<1>5. BlockedOK(t, q)
  BY <1>3, <1>4 DEF BlockedOK
<1>6. s = <<>> <=> t = <<>>
  BY <1>1, <1>3
<1> QED
  BY <1>5, <1>6 DEF t

\* nextReady finds a queue with work when there is one.
LEMMA NextOffsetIs ==
  ASSUME QueuesTyped, SomeReady
  PROVE  /\ NextOffset \in 0 .. Len(order) - 1 /\ Len(order) \in Nat \ {0}
         /\ order[NextOffset + 1] \in Queue /\ ready[order[NextOffset + 1]] # <<>>
<1>1. PICK q \in Queue : ready[q] # <<>>
  BY DEF SomeReady
<1>2. /\ order \in Seq(Queue) /\ Len(order) \in Nat /\ DOMAIN order = 1 .. Len(order)
      /\ rrIndex \in 0 .. Len(order)
  BY LenProperties DEF QueuesTyped
<1>3. PICK p \in 1 .. Len(order) : order[p] = q
  BY <1>1, <1>2 DEF QueuesTyped, Known
<1> DEFINE n == Len(order)
           at(i) == (rrIndex + i) % n
           T == {i \in 0 .. n - 1 : ready[order[at(i) + 1]] # <<>>}
<1>4. n \in Nat \ {0} /\ rrIndex \in 0 .. n /\ p \in 1 .. n
  BY <1>2, <1>3
<1> HIDE DEF n
<1>5. \E i \in 0 .. n - 1 : at(i) = p - 1
  <2>1. CASE p - 1 >= rrIndex
    <3>1. p - 1 - rrIndex \in 0 .. n - 1 /\ rrIndex + (p - 1 - rrIndex) = p - 1
      BY <1>4, <2>1
    <3>2. (p - 1) % n = p - 1
      <4>1. p - 1 \in Nat /\ p - 1 < n /\ n \in Nat
        BY <1>4
      <4> QED
        BY <4>1, Around
    <3> QED
      BY <3>1, <3>2
  <2>2. CASE ~(p - 1 >= rrIndex)
    <3>1. /\ p - 1 - rrIndex + n \in 0 .. n - 1
          /\ rrIndex + (p - 1 - rrIndex + n) = (p - 1) + n
      BY <1>4, <2>2
    <3>2. ((p - 1) + n) % n = p - 1
      <4>1. p - 1 \in Nat /\ p - 1 < n /\ n \in Nat
        BY <1>4
      <4> QED
        BY <4>1, Around
    <3> QED
      BY <3>1, <3>2
  <2> QED
    BY <2>1, <2>2
<1>6. \A i \in 0 .. n - 1 : at(i) \in 0 .. n - 1
  <2>1. ASSUME NEW i \in 0 .. n - 1
        PROVE  at(i) \in 0 .. n - 1
    <3>1. rrIndex + i \in Nat
      BY <1>4
    <3> QED
      BY <1>4, <3>1, Remainder
  <2> QED
    BY <2>1
<1> HIDE DEF at
<1>7. T \subseteq Nat /\ T # {}
  <2>1. PICK i \in 0 .. n - 1 : at(i) = p - 1
    BY <1>5
  <2>2. order[at(i) + 1] = q
    BY <1>3, <1>4, <2>1
  <2> QED
    BY <1>1, <1>4, <2>2
<1>8. PICK m \in T : \A y \in T : m <= y
  <2> HIDE DEF T
  <2> QED
    BY <1>7, Least
<1>9. ASSUME NEW k \in 0 .. m - 1, ready[order[at(k) + 1]] # <<>>
      PROVE  FALSE
  <2>1. k \in 0 .. n - 1 /\ ~(m <= k)
    BY <1>4, <1>8, <1>9
  <2> QED
    BY <1>8, <1>9, <2>1
<1> DEFINE first == CHOOSE i \in 0 .. n - 1 : /\ ready[order[at(i) + 1]] # <<>>
                                             /\ \A k \in 0 .. i - 1 : ready[order[at(k) + 1]] = <<>>
<1>10. \E i \in 0 .. n - 1 : /\ ready[order[at(i) + 1]] # <<>>
                             /\ \A k \in 0 .. i - 1 : ready[order[at(k) + 1]] = <<>>
  <2>1. m \in 0 .. n - 1 /\ ready[order[at(m) + 1]] # <<>>
    BY <1>8
  <2> QED
    BY <1>9, <2>1
<1>11. first \in 0 .. n - 1 /\ ready[order[at(first) + 1]] # <<>>
  BY <1>10
<1>12. NextOffset = at(first)
  BY Zenon DEF NextOffset, at, n
<1> HIDE DEF first
<1>13. at(first) \in 0 .. n - 1 /\ at(first) + 1 \in 1 .. n
  <2>1. at(first) \in 0 .. n - 1
    BY <1>6, <1>11, Zenon
  <2> QED
    BY <1>4, <2>1
<1>14. order[at(first) + 1] \in Queue
  BY <1>2, <1>13, ElementOfSeq DEF n
<1> QED
  BY <1>4, <1>11, <1>12, <1>13, <1>14 DEF n

-----------------------------------------------------------------------------
(* The workers.                                                            *)

\* The workers that have a copy of the job in hand.
Busy(f, j) == {w \in Worker : f[w].pc \notin {"idle", "gone"} /\ f[w].job = j}

LEMMA BusyFinite ==
  ASSUME NEW f, NEW j
  PROVE  IsFiniteSet(Busy(f, j)) /\ Cardinality(Busy(f, j)) \in Nat
<1>1. Busy(f, j) \subseteq Worker /\ IsFiniteSet(Worker)
  BY SchedulerAssumption DEF Busy
<1>2. IsFiniteSet(Busy(f, j))
  BY <1>1, FS_Subset
<1> QED
  BY <1>2, FS_CardinalityType

\* What one worker does changes the count by what it had and what it has.
LEMMA BusyChange ==
  ASSUME NEW f, NEW g, NEW v \in Worker, \A w \in Worker : w # v => g[w] = f[w], NEW j
  PROVE  Cardinality(Busy(g, j)) + (IF v \in Busy(f, j) THEN 1 ELSE 0)
           = Cardinality(Busy(f, j)) + (IF v \in Busy(g, j) THEN 1 ELSE 0)
<1>1. Busy(f, j) \ {v} = Busy(g, j) \ {v}
  BY DEF Busy
<1>2. /\ IsFiniteSet(Busy(f, j)) /\ Cardinality(Busy(f, j)) \in Nat
      /\ IsFiniteSet(Busy(g, j)) /\ Cardinality(Busy(g, j)) \in Nat
  BY BusyFinite
<1>3. Cardinality(Busy(f, j) \ {v})
        = IF v \in Busy(f, j) THEN Cardinality(Busy(f, j)) - 1 ELSE Cardinality(Busy(f, j))
  BY <1>2, FS_RemoveElement
<1>4. Cardinality(Busy(g, j) \ {v})
        = IF v \in Busy(g, j) THEN Cardinality(Busy(g, j)) - 1 ELSE Cardinality(Busy(g, j))
  BY <1>2, FS_RemoveElement
<1> QED
  BY <1>1, <1>2, <1>3, <1>4

\* What a worker has in hand, by what it is doing.
LEMMA WorkerIs ==
  ASSUME GoroutinesTyped, NEW w \in Worker
  PROVE  /\ worker[w] \in WorkerState
         /\ worker[w].pc \in {"idle", "gone", "reserve", "execute", "complete", "requeue"}
         /\ worker[w].pc \notin {"idle", "gone"} => worker[w].job \in Job /\ worker[w].lease \in LeaseId
         /\ worker[w].pc = "requeue" => worker[w].delay \in Nat
<1>1. worker[w] \in WorkerState
  BY DEF GoroutinesTyped
<1>2. CASE worker[w] \in [pc : {"idle", "gone"}]
  BY <1>1, <1>2
<1>3. CASE worker[w] \in [pc : {"reserve", "execute", "complete"}, job : Job, lease : LeaseId]
  BY <1>1, <1>3
<1>4. CASE worker[w] \in [pc : {"requeue"}, job : Job, lease : LeaseId, delay : Nat]
  BY <1>1, <1>4
<1> QED
  BY <1>1, <1>2, <1>3, <1>4 DEF WorkerState

LEMMA WorkerStates ==
  ASSUME NEW j \in Job, NEW x \in LeaseId, NEW d \in Nat
  PROVE  /\ Idle \in WorkerState /\ [pc |-> "gone"] \in WorkerState
         /\ [pc |-> "reserve", job |-> j, lease |-> x] \in WorkerState
         /\ [pc |-> "execute", job |-> j, lease |-> x] \in WorkerState
         /\ [pc |-> "complete", job |-> j, lease |-> x] \in WorkerState
         /\ [pc |-> "requeue", job |-> j, lease |-> x, delay |-> d] \in WorkerState
BY DEF WorkerState, Idle

\* newLeaseID finds an id.
LEMMA NewLeaseIs ==
  ASSUME NEW j, NEW old, \E n \in LeaseId : n # old /\ n \notin granted[j]
  PROVE  NewLeaseId(j, old) \in LeaseId /\ NewLeaseId(j, old) # old /\ NewLeaseId(j, old) \notin granted[j]
BY DEF NewLeaseId

\* Some worker has the job in hand, with the lease.
InHands(f, j, x) == \E w \in Busy(f, j) : f[w].lease = x

\* Some copy of the job carries the lease.
Held(j, x) ==
  \/ Carries(submitCh, j, x) \/ Carries(requeueCh, j, x) \/ Carries(workCh, j, x)
  \/ Carries(ready[QueueOf[j]], j, x) \/ Carries(blocked[QueueOf[j]], j, x)
  \/ InHands(worker, j, x)

\* A job that carries no lease holds none at the limiter, and there is always
\* an id for its next lease: the one it carries and the ones it holds are not all.
Spare ==
  \A j \in Job :
    /\ Held(j, NoLease) \/ j \notin submitted => granted[j] = {}
    /\ \A x \in LeaseId : Held(j, x) => \E n \in LeaseId : n # x /\ n \notin granted[j]

\* A job that has been submitted is in exactly one place, or was dropped after
\* the shutdown.
Conserved ==
  \A j \in Job : /\ Copies(j) <= 1
                 /\ j \in submitted /\ loop # "done" => Copies(j) = 1
                 /\ j \notin submitted => Copies(j) = 0

LEMMA WorkerHolds ==
  ASSUME GoroutinesTyped, NEW w \in Worker, worker[w].pc \notin {"idle", "gone"}
  PROVE  w \in Busy(worker, worker[w].job) /\ Held(worker[w].job, worker[w].lease)
BY DEF Busy, Held, InHands

\* The counts that Copies adds up.
LEMMA CopiesAre ==
  ASSUME Typed, NEW j \in Job
  PROVE  /\ Copies(j) = CountIn(submitCh, j) + CountIn(requeueCh, j) + CountIn(workCh, j)
              + CountIn(ready[QueueOf[j]], j) + CountIn(blocked[QueueOf[j]], j)
              + Cardinality(Busy(worker, j)) + (IF j \in finished THEN 1 ELSE 0)
         /\ CountIn(submitCh, j) \in Nat /\ CountIn(requeueCh, j) \in Nat
         /\ CountIn(workCh, j) \in Nat /\ CountIn(ready[QueueOf[j]], j) \in Nat
         /\ CountIn(blocked[QueueOf[j]], j) \in Nat /\ Cardinality(Busy(worker, j)) \in Nat
<1>1. QueueOf[j] \in Queue
  BY SchedulerAssumption
<1>2. /\ submitCh \in Seq(Item) /\ requeueCh \in Seq(BlockedItem) /\ workCh \in Seq(Item)
      /\ ready[QueueOf[j]] \in Seq(Item) /\ blocked[QueueOf[j]] \in Seq(BlockedItem)
  BY <1>1 DEF Typed, ChannelsTyped, QueuesTyped
<1>3. /\ CountIn(submitCh, j) \in Nat /\ CountIn(requeueCh, j) \in Nat
      /\ CountIn(workCh, j) \in Nat /\ CountIn(ready[QueueOf[j]], j) \in Nat
      /\ CountIn(blocked[QueueOf[j]], j) \in Nat
  BY <1>2, AtFinite
<1>4. Cardinality(Busy(worker, j)) \in Nat
  BY BusyFinite
<1> QED
  BY <1>3, <1>4 DEF Copies, Busy

\* A job in the hands of a worker was submitted and is nowhere else.
LEMMA OnlyHand ==
  ASSUME Typed, Conserved, NEW w \in Worker, worker[w].pc \notin {"idle", "gone"},
         NEW j \in Job, j = worker[w].job
  PROVE  /\ Busy(worker, j) = {w} /\ j \in submitted
         /\ CountIn(submitCh, j) = 0 /\ CountIn(requeueCh, j) = 0 /\ CountIn(workCh, j) = 0
         /\ CountIn(ready[QueueOf[j]], j) = 0 /\ CountIn(blocked[QueueOf[j]], j) = 0
<1>1. w \in Busy(worker, j)
  BY WorkerHolds DEF Typed
<1>2. IsFiniteSet(Busy(worker, j)) /\ Cardinality(Busy(worker, j)) \in Nat
  BY BusyFinite
<1>3. Cardinality(Busy(worker, j)) # 0
  BY <1>1, <1>2, FS_EmptySet
<1>4. Copies(j) <= 1 /\ (j \notin submitted => Copies(j) = 0)
  BY DEF Conserved
<1> DEFINE a == CountIn(submitCh, j)
           b == CountIn(requeueCh, j)
           c == CountIn(workCh, j)
           d == CountIn(ready[QueueOf[j]], j)
           e == CountIn(blocked[QueueOf[j]], j)
           f == Cardinality(Busy(worker, j))
           g == IF j \in finished THEN 1 ELSE 0
           n == Copies(j)
<1>5. /\ n = a + b + c + d + e + f + g
      /\ a \in Nat /\ b \in Nat /\ c \in Nat /\ d \in Nat /\ e \in Nat /\ f \in Nat
  BY CopiesAre
<1>6. n <= 1 /\ f # 0 /\ g \in Nat
  BY <1>3, <1>4
<1> HIDE DEF a, b, c, d, e, f, g, n
<1>7. f = 1 /\ a = 0 /\ b = 0 /\ c = 0 /\ d = 0 /\ e = 0 /\ n # 0
  BY <1>5, <1>6
<1>8. PICK y : Busy(worker, j) = {y}
  BY <1>2, <1>7, FS_Singleton DEF f
<1>9. Busy(worker, j) = {w}
  BY <1>1, <1>8
<1>10. j \in submitted
  BY <1>4, <1>7 DEF n
<1> QED
  BY <1>7, <1>9, <1>10 DEF a, b, c, d, e

\* All its copies carry the lease that the worker has.
LEMMA OnlyCopy ==
  ASSUME Typed, Conserved, NEW w \in Worker, worker[w].pc \notin {"idle", "gone"}, NEW x,
         Held(worker[w].job, x)
  PROVE  x = worker[w].lease
<1>1. PICK j \in Job : j = worker[w].job
  BY WorkerIs DEF Typed
<1>2. /\ Busy(worker, j) = {w}
      /\ CountIn(submitCh, j) = 0 /\ CountIn(requeueCh, j) = 0 /\ CountIn(workCh, j) = 0
      /\ CountIn(ready[QueueOf[j]], j) = 0 /\ CountIn(blocked[QueueOf[j]], j) = 0
  BY <1>1, OnlyHand
<1>3. QueueOf[j] \in Queue
  BY SchedulerAssumption
<1>4. /\ submitCh \in Seq(Item) /\ requeueCh \in Seq(BlockedItem) /\ workCh \in Seq(Item)
      /\ ready[QueueOf[j]] \in Seq(Item) /\ blocked[QueueOf[j]] \in Seq(BlockedItem)
  BY <1>3 DEF Typed, ChannelsTyped, QueuesTyped
<1>5. /\ ~Carries(submitCh, j, x) /\ ~Carries(requeueCh, j, x) /\ ~Carries(workCh, j, x)
      /\ ~Carries(ready[QueueOf[j]], j, x) /\ ~Carries(blocked[QueueOf[j]], j, x)
  <2>1. ~(0 >= 1)
    OBVIOUS
  <2> QED
    BY <1>2, <1>4, <2>1, CarriesCounts
<1>6. InHands(worker, j, x)
  BY <1>1, <1>5 DEF Held
<1> QED
  BY <1>2, <1>6 DEF InHands

-----------------------------------------------------------------------------
(* Every step keeps the types.                                             *)

LEMMA CapTypes == SubmitCap \in Nat /\ RequeueCap \in Nat /\ WorkCap \in Nat
<1>1. Cardinality(Worker) \in Nat
  BY FS_CardinalityType, SchedulerAssumption
<1>2. ChanFactor * Cardinality(Worker) \in Nat
  BY <1>1, SchedulerAssumption
<1> QED
  BY <1>1, <1>2 DEF SubmitCap, RequeueCap, WorkCap

LEMMA InitTyped == Init => Typed
<1> SUFFICES ASSUME Init
             PROVE  Typed
  OBVIOUS
<1>1. ChannelsTyped
  <2>1. <<>> \in Seq(Item) /\ <<>> \in Seq(BlockedItem) /\ Len(<<>>) = 0
    OBVIOUS
  <2> QED
    BY <2>1, CapTypes DEF Init, ChannelsTyped
<1>2. QueuesTyped
  <2>1. <<>> \in Seq(Item) /\ <<>> \in Seq(BlockedItem) /\ Len(<<>>) = 0 /\ DOMAIN <<>> = {}
          /\ <<>> \in Seq(Queue)
    OBVIOUS
  <2> QED
    BY <2>1 DEF Init, QueuesTyped, ReadyOK, BlockedOK
<1>3. GoroutinesTyped
  <2>1. Idle \in WorkerState
    BY DEF Idle, WorkerState
  <2> QED
    BY <2>1, SchedulerAssumption DEF Init, GoroutinesTyped
<1>4. HistoryTyped
  BY DEF Init, HistoryTyped
<1> QED
  BY <1>1, <1>2, <1>3, <1>4 DEF Typed

LEMMA SubmitTyped ==
  ASSUME Typed, NEW j \in Job, SubmitAccepted(j) \/ SubmitRefused(j)
  PROVE  Typed'
<1>1. ChannelsTyped'
  <2>1. CASE SubmitAccepted(j)
    <3>1. [job |-> j, lease |-> NoLease] \in Item
      BY DEF Item
    <3>2. /\ submitCh' \in Seq(Item) /\ Len(submitCh') = Len(submitCh) + 1
          /\ Len(submitCh) \in Nat /\ Len(submitCh) < SubmitCap
      BY <2>1, <3>1, AppendIs DEF SubmitAccepted, Typed, ChannelsTyped
    <3>3. Len(submitCh') <= SubmitCap
      BY <3>2, CapTypes
    <3> QED
      BY <2>1, <3>2, <3>3 DEF SubmitAccepted, Typed, ChannelsTyped, SubmitCap, RequeueCap, WorkCap
  <2>2. CASE SubmitRefused(j)
    BY <2>2 DEF SubmitRefused, channels, Typed, ChannelsTyped, SubmitCap, RequeueCap, WorkCap
  <2> QED
    BY <2>1, <2>2
<1>2. QueuesTyped' /\ GoroutinesTyped'
  BY SMTT(30) DEF SubmitAccepted, SubmitRefused, queues, Typed, QueuesTyped, GoroutinesTyped, ReadyOK,
         BlockedOK, Known
<1>3. HistoryTyped'
  BY DEF SubmitAccepted, SubmitRefused, Typed, HistoryTyped, leases
<1> QED
  BY <1>1, <1>2, <1>3 DEF Typed

LEMMA PromoteTyped ==
  ASSUME Typed, Promote
  PROVE  Typed'
<1>1. ready' = [q \in Queue |-> ready[q] \o Promoted(blocked[q])]
        /\ blocked' = [q \in Queue |-> NotDue(blocked[q])]
  BY DEF Promote, Promoted
<1>2. ASSUME NEW q \in Queue
      PROVE  /\ ReadyOK(ready'[q], q) /\ BlockedOK(blocked'[q], q)
             /\ ready'[q] # <<>> \/ blocked'[q] # <<>> => Known(q)
  <2>1. ReadyOK(ready[q], q) /\ BlockedOK(blocked[q], q)
          /\ (ready[q] # <<>> \/ blocked[q] # <<>> => Known(q))
    BY DEF Typed, QueuesTyped
  <2>2. /\ ReadyOK(Promoted(blocked[q]), q) /\ BlockedOK(NotDue(blocked[q]), q)
        /\ blocked[q] = Due(blocked[q]) \o NotDue(blocked[q])
        /\ blocked[q] = <<>> => Promoted(blocked[q]) = <<>>
        /\ Due(blocked[q]) \in Seq(BlockedItem)
    BY <2>1, DueIs
  <2>3. /\ ReadyOK(ready[q] \o Promoted(blocked[q]), q)
        /\ ready[q] = <<>> /\ Promoted(blocked[q]) = <<>> => ready[q] \o Promoted(blocked[q]) = <<>>
    BY <2>1, <2>2, ReadyConcat
  <2>4. blocked[q] = <<>> => NotDue(blocked[q]) = <<>>
    <3>1. NotDue(blocked[q]) \in Seq(BlockedItem)
      BY <2>2 DEF BlockedOK
    <3>2. Due(blocked[q]) \o NotDue(blocked[q]) = <<>> => NotDue(blocked[q]) = <<>>
      BY <2>2, <3>1, ConcatEqualIffEmpty
    <3> QED
      BY <2>2, <3>2
  <2> QED
    BY <1>1, <2>1, <2>2, <2>3, <2>4
<1>3. QueuesTyped'
  <2>1. ready' \in [Queue -> Seq(Item)] /\ blocked' \in [Queue -> Seq(BlockedItem)]
    <3>1. \A q \in Queue : ready'[q] \in Seq(Item) /\ blocked'[q] \in Seq(BlockedItem)
      BY <1>2 DEF ReadyOK, BlockedOK
    <3> QED
      BY <1>1, <3>1
  <2>2. order' = order /\ rrIndex' = rrIndex
    BY DEF Promote
  <2>3. \A q \in Queue : Known(q)' <=> Known(q)
    BY <2>2 DEF Known
  <2> QED
    BY <1>2, <2>1, <2>2, <2>3 DEF Typed, QueuesTyped, ReadyOK, BlockedOK
<1>4. ChannelsTyped' /\ GoroutinesTyped' /\ HistoryTyped'
  BY DEF Promote, channels, Typed, ChannelsTyped, GoroutinesTyped, HistoryTyped, SubmitCap, RequeueCap,
         WorkCap, leases
<1> QED
  BY <1>3, <1>4 DEF Typed

\* What Dispatch moves, and from where.
LEMMA DispatchIs ==
  ASSUME Typed, Dispatch
  PROVE  \E q \in Queue :
           /\ ready[q] # <<>> /\ Head(ready[q]) \in Item /\ QueueOf[Head(ready[q]).job] = q
           /\ ReadyOK(Tail(ready[q]), q)
           /\ workCh' = Append(workCh, Head(ready[q])) /\ Len(workCh) < WorkCap
           /\ ready' = [ready EXCEPT ![q] = Tail(ready[q])]
           /\ rrIndex' \in 0 .. Len(order)
<1> DEFINE q == order[NextOffset + 1]
<1>1. SomeReady /\ QueuesTyped
  BY DEF Dispatch, Typed
<1>2. /\ NextOffset \in 0 .. Len(order) - 1 /\ Len(order) \in Nat \ {0}
      /\ q \in Queue /\ ready[q] # <<>>
  BY <1>1, NextOffsetIs
<1>3. /\ workCh' = Append(workCh, Head(ready[q])) /\ Len(workCh) < WorkCap
      /\ ready' = [ready EXCEPT ![q] = Tail(@)]
      /\ rrIndex' = (NextOffset + 1) % Len(order)
  BY DEF Dispatch
<1>4. rrIndex' \in 0 .. Len(order)
  <2>1. NextOffset + 1 \in Nat
    BY <1>2
  <2>2. rrIndex' \in 0 .. Len(order) - 1
    BY <1>2, <1>3, <2>1, Remainder
  <2> QED
    BY <1>2, <2>2
<1> HIDE DEF q
<1>5. ReadyOK(ready[q], q) /\ ready \in [Queue -> Seq(Item)]
  BY <1>1, <1>2 DEF QueuesTyped
<1>6. ReadyOK(Tail(ready[q]), q) /\ Head(ready[q]) \in Item /\ QueueOf[Head(ready[q]).job] = q
  BY <1>2, <1>5, ReadyTail
<1>7. ready' = [ready EXCEPT ![q] = Tail(ready[q])]
  BY <1>3
<1> QED
  BY <1>2, <1>3, <1>4, <1>6, <1>7

LEMMA DispatchTyped ==
  ASSUME Typed, Dispatch
  PROVE  Typed'
<1>1. PICK q \in Queue :
           /\ ready[q] # <<>> /\ Head(ready[q]) \in Item /\ QueueOf[Head(ready[q]).job] = q
           /\ ReadyOK(Tail(ready[q]), q)
           /\ workCh' = Append(workCh, Head(ready[q])) /\ Len(workCh) < WorkCap
           /\ ready' = [ready EXCEPT ![q] = Tail(ready[q])]
           /\ rrIndex' \in 0 .. Len(order)
  BY DispatchIs
<1>2. /\ submitCh' = submitCh /\ requeueCh' = requeueCh /\ blocked' = blocked /\ order' = order
      /\ loop' = loop /\ timer' = timer /\ worker' = worker /\ stopped' = stopped
      /\ submitted' = submitted /\ finished' = finished /\ granted' = granted /\ refused' = refused
  BY DEF Dispatch, leases
<1>3. ChannelsTyped'
  <2>1. workCh' \in Seq(Item) /\ Len(workCh') = Len(workCh) + 1 /\ Len(workCh) \in Nat
    BY <1>1, AppendIs DEF Typed, ChannelsTyped
  <2>2. Len(workCh') <= WorkCap
    BY <1>1, <2>1, CapTypes
  <2> QED
    BY <1>2, <2>1, <2>2 DEF Typed, ChannelsTyped, SubmitCap, RequeueCap, WorkCap
<1>4. QueuesTyped'
  <2>1. ready' \in [Queue -> Seq(Item)]
    BY <1>1 DEF Typed, QueuesTyped, ReadyOK
  <2>2. ASSUME NEW p \in Queue
        PROVE  /\ ReadyOK(ready'[p], p) /\ BlockedOK(blocked[p], p)
               /\ ready'[p] # <<>> \/ blocked[p] # <<>> => Known(p)
    <3>1. /\ ReadyOK(ready[p], p) /\ BlockedOK(blocked[p], p)
          /\ ready[p] # <<>> \/ blocked[p] # <<>> => Known(p)
      BY DEF Typed, QueuesTyped
    <3>2. ready'[p] = IF p = q THEN Tail(ready[q]) ELSE ready[p]
      BY <1>1 DEF Typed, QueuesTyped
    <3> QED
      BY <1>1, <3>1, <3>2
  <2>3. \A p \in Queue : Known(p)' <=> Known(p)
    BY <1>2 DEF Known
  <2> QED
    BY <1>1, <1>2, <2>1, <2>2, <2>3 DEF Typed, QueuesTyped, ReadyOK, BlockedOK
<1>5. GoroutinesTyped' /\ HistoryTyped'
  BY <1>2 DEF Typed, GoroutinesTyped, HistoryTyped
<1> QED
  BY <1>3, <1>4, <1>5 DEF Typed

\* The delay of the timer is a number.
LEMMA NextWakeDelayType ==
  ASSUME QueuesTyped
  PROVE  NextWakeDelay \in Nat
<1> DEFINE delays == {blocked[q][1].delay : q \in {p \in Queue : blocked[p] # <<>>}}
<1>1. ASSUME NEW q \in Queue, blocked[q] # <<>>
      PROVE  blocked[q][1].delay \in Nat
  <2>1. blocked[q] \in Seq(BlockedItem)
    BY DEF QueuesTyped
  <2>2. Head(blocked[q]) \in BlockedItem /\ Head(blocked[q]) = blocked[q][1]
    BY <1>1, <2>1, HeadTailIs
  <2> QED
    BY <2>2 DEF BlockedItem
<1>2. delays \subseteq Nat
  BY <1>1
<1>3. NextWakeDelay = IF delays = {} THEN IdleInterval
                      ELSE CHOOSE d \in delays : \A e \in delays : d <= e
  BY Zenon DEF NextWakeDelay
<1> HIDE DEF delays
<1>4. CASE delays = {}
  BY <1>3, <1>4, SchedulerAssumption
<1>5. CASE delays # {}
  <2>1. \E d \in delays : \A e \in delays : d <= e
    BY <1>2, <1>5, Least
  <2>2. (CHOOSE d \in delays : \A e \in delays : d <= e) \in delays
    BY <2>1
  <2> QED
    BY <1>2, <1>3, <1>5, <2>2
<1> QED
  BY <1>4, <1>5

\* The steps that move no job.
LEMMA QuietTyped ==
  ASSUME Typed, Shutdown \/ Arm \/ TimerFires \/ Stop
  PROVE  Typed'
<1>1. ChannelsTyped' /\ QueuesTyped'
  BY ZenonT(60) DEF Shutdown, Arm, TimerFires, Stop, channels, queues, Typed, ChannelsTyped, QueuesTyped, ReadyOK,
         BlockedOK, Known, SubmitCap, RequeueCap, WorkCap
<1>2. timer' \in Nat
  BY NextWakeDelayType DEF Shutdown, Arm, TimerFires, Stop, Typed, GoroutinesTyped
<1>3. GoroutinesTyped' /\ HistoryTyped'
  BY <1>2 DEF Shutdown, Arm, TimerFires, Stop, Typed, GoroutinesTyped, HistoryTyped, leases
<1> QED
  BY <1>1, <1>3 DEF Typed

\* A queue joins the order and none leaves it.
LEMMA OrderIs ==
  ASSUME QueuesTyped, NEW q \in Queue, order' = OrderWith(q)
  PROVE  /\ order' \in Seq(Queue) /\ Len(order') >= Len(order) /\ Len(order') \in Nat
         /\ Known(q)' /\ \A p : Known(p) => Known(p)'
<1>1. order \in Seq(Queue) /\ Len(order) \in Nat /\ DOMAIN order = 1 .. Len(order)
  BY LenProperties DEF QueuesTyped
<1>2. CASE \E i \in DOMAIN order : order[i] = q
  BY <1>1, <1>2 DEF OrderWith, Known
<1>3. CASE ~ \E i \in DOMAIN order : order[i] = q
  <2>1. order' = Append(order, q)
    BY <1>3 DEF OrderWith
  <2>2. /\ order' \in Seq(Queue) /\ Len(order') = Len(order) + 1
        /\ \A i \in 1 .. Len(order) + 1 : order'[i] = IF i <= Len(order) THEN order[i] ELSE q
    BY <1>1, <2>1, AppendIs
  <2>3. DOMAIN order' = 1 .. Len(order) + 1
    BY <2>2, LenProperties
  <2>4. \A i \in 1 .. Len(order) : i \in DOMAIN order' /\ order'[i] = order[i]
    BY <1>1, <2>2, <2>3
  <2>5. Len(order) + 1 \in DOMAIN order' /\ order'[Len(order) + 1] = q
    BY <1>1, <2>2, <2>3
  <2>6. Known(q)'
    BY <2>5 DEF Known
  <2>7. \A p : Known(p) => Known(p)'
    BY <1>1, <2>4 DEF Known
  <2> QED
    BY <1>1, <2>2, <2>6, <2>7
<1> QED
  BY <1>2, <1>3

LEMMA ReceiveSubmitTyped ==
  ASSUME Typed, ReceiveSubmit
  PROVE  Typed'
<1> DEFINE item == Head(submitCh)
<1>1. /\ submitCh # <<>> /\ submitCh' = Tail(submitCh) /\ order' = OrderWith(QueueOf[item.job])
      /\ ready' = [ready EXCEPT ![QueueOf[item.job]] = Append(@, item)]
      /\ requeueCh' = requeueCh /\ workCh' = workCh /\ blocked' = blocked /\ rrIndex' = rrIndex
      /\ loop' = "top" /\ timer' = timer /\ worker' = worker /\ stopped' = stopped
      /\ submitted' = submitted /\ finished' = finished /\ granted' = granted /\ refused' = refused
  BY DEF ReceiveSubmit, leases
<1>2. /\ item \in Item /\ Tail(submitCh) \in Seq(Item) /\ Len(submitCh) \in Nat
      /\ Len(Tail(submitCh)) = Len(submitCh) - 1
  BY <1>1, HeadTailIs DEF Typed, ChannelsTyped
<1>3. PICK q \in Queue : q = QueueOf[item.job]
  BY <1>2, SchedulerAssumption DEF Item
<1> HIDE DEF item
<1>4. ChannelsTyped'
  BY <1>1, <1>2, CapTypes DEF Typed, ChannelsTyped, SubmitCap, RequeueCap, WorkCap
<1>5. QueuesTyped'
  <2>1. /\ order' \in Seq(Queue) /\ Len(order') >= Len(order) /\ Len(order') \in Nat
        /\ Known(q)' /\ \A p : Known(p) => Known(p)'
    BY <1>1, <1>3, OrderIs DEF Typed
  <2>2. rrIndex \in 0 .. Len(order) /\ Len(order) \in Nat
    BY LenProperties DEF Typed, QueuesTyped
  <2>3. rrIndex' \in 0 .. Len(order')
    BY <1>1, <2>1, <2>2
  <2>4. ReadyOK(ready[q], q)
    BY <1>3 DEF Typed, QueuesTyped
  <2>5. QueueOf[item.job] = q
    BY <1>3
  <2>6. ReadyOK(Append(ready[q], item), q)
    BY <1>2, <1>3, <2>4, <2>5, ReadyAppend
  <2>7. \A p \in Queue : ready'[p] = IF p = q THEN Append(ready[q], item) ELSE ready[p]
    BY <1>1, <1>3 DEF Typed, QueuesTyped
  <2>8. ready' \in [Queue -> Seq(Item)]
    BY <1>1, <1>3, <2>6 DEF Typed, QueuesTyped, ReadyOK
  <2>9. ASSUME NEW p \in Queue
        PROVE  /\ ReadyOK(ready'[p], p) /\ BlockedOK(blocked[p], p)
               /\ ready'[p] # <<>> \/ blocked[p] # <<>> => Known(p)'
    <3>1. /\ ReadyOK(ready[p], p) /\ BlockedOK(blocked[p], p)
          /\ ready[p] # <<>> \/ blocked[p] # <<>> => Known(p)
      BY DEF Typed, QueuesTyped
    <3> QED
      BY <2>1, <2>6, <2>7, <3>1
  <2> QED
    BY <1>1, <2>1, <2>3, <2>8, <2>9 DEF Typed, QueuesTyped, ReadyOK, BlockedOK
<1>6. GoroutinesTyped' /\ HistoryTyped'
  BY <1>1 DEF Typed, GoroutinesTyped, HistoryTyped
<1> QED
  BY <1>4, <1>5, <1>6 DEF Typed

\* What ReceiveRequeue moves, and where to.
LEMMA ReceiveRequeueIs ==
  ASSUME Typed, ReceiveRequeue
  PROVE  /\ requeueCh # <<>> /\ requeueCh' = Tail(requeueCh) /\ Head(requeueCh) \in BlockedItem
         /\ \E q \in Queue, p \in Nat :
              /\ p \in 1 .. Len(blocked[q]) + 1 /\ q = QueueOf[Head(requeueCh).job] /\ order' = OrderWith(q)
              /\ BlockedOK(InsertAt(blocked[q], p, Head(requeueCh)), q)
              /\ blocked' = [blocked EXCEPT ![q] = InsertAt(blocked[q], p, Head(requeueCh))]
<1> DEFINE item == Head(requeueCh)
           q == QueueOf[item.job]
<1>1. /\ requeueCh # <<>> /\ requeueCh' = Tail(requeueCh) /\ order' = OrderWith(q)
      /\ \E p \in PushIndexes(blocked[q], item.delay) :
           blocked' = [blocked EXCEPT ![q] = InsertAt(@, p, item)]
  BY DEF ReceiveRequeue
<1>2. item \in BlockedItem
  BY <1>1, HeadTailIs DEF Typed, ChannelsTyped
<1>3. q \in Queue
  BY <1>2, SchedulerAssumption DEF BlockedItem
<1>4. PICK p \in PushIndexes(blocked[q], item.delay) :
        blocked' = [blocked EXCEPT ![q] = InsertAt(@, p, item)]
  BY <1>1
<1>5. BlockedOK(blocked[q], q) /\ blocked \in [Queue -> Seq(BlockedItem)]
  BY <1>3 DEF Typed, QueuesTyped
<1>6. QueueOf[item.job] = q
  OBVIOUS
<1> HIDE DEF item, q
<1>7. BlockedOK(InsertAt(blocked[q], p, item), q) /\ p \in 1 .. Len(blocked[q]) + 1
  BY <1>2, <1>3, <1>4, <1>5, <1>6, BlockedInsert
<1>8. blocked' = [blocked EXCEPT ![q] = InsertAt(blocked[q], p, item)] /\ p \in Nat
  BY <1>4, <1>7
<1> QED
  BY <1>1, <1>2, <1>3, <1>6, <1>7, <1>8 DEF item

LEMMA ReceiveRequeueTyped ==
  ASSUME Typed, ReceiveRequeue
  PROVE  Typed'
<1> DEFINE item == Head(requeueCh)
<1>1. /\ submitCh' = submitCh /\ workCh' = workCh /\ ready' = ready /\ rrIndex' = rrIndex
      /\ loop' = "top" /\ timer' = timer /\ worker' = worker /\ stopped' = stopped
      /\ submitted' = submitted /\ finished' = finished /\ granted' = granted /\ refused' = refused
  BY DEF ReceiveRequeue, leases
<1>2. /\ requeueCh # <<>> /\ requeueCh' = Tail(requeueCh) /\ item \in BlockedItem
      /\ \E q \in Queue, p \in Nat :
           /\ p \in 1 .. Len(blocked[q]) + 1 /\ q = QueueOf[item.job] /\ order' = OrderWith(q)
           /\ BlockedOK(InsertAt(blocked[q], p, item), q)
           /\ blocked' = [blocked EXCEPT ![q] = InsertAt(blocked[q], p, item)]
  BY ReceiveRequeueIs
<1> HIDE DEF item
<1>3. PICK q \in Queue, p \in Nat :
           /\ p \in 1 .. Len(blocked[q]) + 1 /\ q = QueueOf[item.job] /\ order' = OrderWith(q)
           /\ BlockedOK(InsertAt(blocked[q], p, item), q)
           /\ blocked' = [blocked EXCEPT ![q] = InsertAt(blocked[q], p, item)]
  BY <1>2
<1>4. ChannelsTyped'
  <2>1. /\ Tail(requeueCh) \in Seq(BlockedItem) /\ Len(requeueCh) \in Nat
        /\ Len(Tail(requeueCh)) = Len(requeueCh) - 1
    BY <1>2, HeadTailIs DEF Typed, ChannelsTyped
  <2> QED
    BY <1>1, <1>2, <2>1, CapTypes DEF Typed, ChannelsTyped, SubmitCap, RequeueCap, WorkCap
<1>5. QueuesTyped'
  <2>1. /\ order' \in Seq(Queue) /\ Len(order') >= Len(order) /\ Len(order') \in Nat
        /\ Known(q)' /\ \A r : Known(r) => Known(r)'
    BY <1>3, OrderIs DEF Typed
  <2>2. rrIndex \in 0 .. Len(order) /\ Len(order) \in Nat
    BY LenProperties DEF Typed, QueuesTyped
  <2>3. rrIndex' \in 0 .. Len(order')
    BY <1>1, <2>1, <2>2
  <2> DEFINE t == InsertAt(blocked[q], p, item)
  <2>4. BlockedOK(t, q) /\ blocked' = [blocked EXCEPT ![q] = t]
    BY <1>3
  <2> HIDE DEF t
  <2>5. \A r \in Queue : blocked'[r] = IF r = q THEN t ELSE blocked[r]
    BY <2>4 DEF Typed, QueuesTyped
  <2>6. blocked' \in [Queue -> Seq(BlockedItem)]
    BY <2>4 DEF Typed, QueuesTyped, BlockedOK
  <2>7. ASSUME NEW r \in Queue
        PROVE  /\ ReadyOK(ready[r], r) /\ BlockedOK(blocked'[r], r)
               /\ ready[r] # <<>> \/ blocked'[r] # <<>> => Known(r)'
    <3>1. /\ ReadyOK(ready[r], r) /\ BlockedOK(blocked[r], r)
          /\ ready[r] # <<>> \/ blocked[r] # <<>> => Known(r)
      BY DEF Typed, QueuesTyped
    <3> QED
      BY <2>1, <2>4, <2>5, <3>1
  <2> QED
    BY <1>1, <2>1, <2>3, <2>6, <2>7 DEF Typed, QueuesTyped, ReadyOK, BlockedOK
<1>6. GoroutinesTyped' /\ HistoryTyped'
  BY <1>1 DEF Typed, GoroutinesTyped, HistoryTyped
<1> QED
  BY <1>4, <1>5, <1>6 DEF Typed

LEMMA WorkerTyped ==
  ASSUME GoroutinesTyped, NEW w \in Worker, NEW r \in WorkerState,
         worker' = [worker EXCEPT ![w] = r], loop' = loop, timer' = timer
  PROVE  GoroutinesTyped'
BY DEF GoroutinesTyped

\* What Take gives the worker: a lease of its own for a job without one.
LEMMA TakeIs ==
  ASSUME Typed, Spare, NEW w \in Worker, Take(w)
  PROVE  /\ workCh # <<>> /\ Head(workCh) \in Item /\ worker[w].pc = "idle"
         /\ workCh' = Tail(workCh)
         /\ \E x \in LeaseId :
              /\ worker' = [worker EXCEPT ![w] =
                              [pc |-> "reserve", job |-> Head(workCh).job, lease |-> x]]
              /\ \/ x = Head(workCh).lease
                 \/ Head(workCh).lease = NoLease /\ granted[Head(workCh).job] = {}
<1> DEFINE item == Head(workCh)
           lease == IF item.lease = NoLease THEN NewLeaseId(item.job, NoLease) ELSE item.lease
<1>1. /\ workCh # <<>> /\ workCh' = Tail(workCh) /\ worker[w].pc = "idle"
      /\ worker' = [worker EXCEPT ![w] = [pc |-> "reserve", job |-> item.job, lease |-> lease]]
  BY DEF Take
<1>2. item \in Item /\ Carries(workCh, item.job, item.lease)
  BY <1>1, HeadTailIs, CarriesTail DEF Typed, ChannelsTyped
<1>3. item.job \in Job /\ item.lease \in LeaseId \cup {NoLease}
  BY <1>2 DEF Item
<1> HIDE DEF item
<1>4. CASE item.lease = NoLease
  <2>1. granted[item.job] = {}
    BY <1>2, <1>3, <1>4 DEF Spare, Held
  <2>2. \E n \in LeaseId : n # NoLease /\ n \notin granted[item.job]
    BY <2>1, SchedulerAssumption
  <2>3. NewLeaseId(item.job, NoLease) \in LeaseId
    BY <2>2, NewLeaseIs
  <2> QED
    BY <1>1, <1>2, <1>4, <2>1, <2>3 DEF item
<1>5. CASE item.lease # NoLease
  BY <1>1, <1>2, <1>3, <1>5 DEF item
<1> QED
  BY <1>4, <1>5

\* The worker requeues its job, under the same lease, or under another when
\* it was refused; the lease leaves a spare id.
Retried(w, x, d) ==
  LET j == worker[w].job
      y == worker[w].lease
  IN  /\ worker' = [worker EXCEPT ![w] = [pc |-> "requeue", job |-> j, lease |-> x, delay |-> d]]
      /\ \E n \in LeaseId : n # x /\ n \notin granted'[j]
      /\ \/ x = y /\ refused' = refused
         \/ /\ x \notin granted'[j]
            /\ refused' = [refused EXCEPT ![j] = IF y \in granted'[j] THEN @ \cup {y} ELSE @]

\* What a worker does when its Reserve is not allowed, or fails.
LEMMA RetryIs ==
  ASSUME Typed, Spare, NEW w \in Worker,
         ReserveDenied(w) \/ ReserveError(w) \/ ReserveBackendError(w),
         NEW y, y = worker[w].lease, NEW j, j = worker[w].job
  PROVE  /\ worker[w].pc = "reserve"
         /\ granted' \in {granted, [granted EXCEPT ![j] = @ \cup {y}]}
         /\ \E x \in LeaseId, d \in Nat : Retried(w, x, d)
<1>1. worker[w].pc = "reserve"
  BY DEF ReserveDenied, ReserveError, ReserveBackendError
<1>2. j \in Job /\ y \in LeaseId /\ Held(j, y) /\ granted[j] \subseteq LeaseId
        /\ granted \in [Job -> SUBSET LeaseId]
  BY <1>1, WorkerIs, WorkerHolds DEF Typed, HistoryTyped
<1>3. worker \in [Worker -> WorkerState]
  BY DEF Typed, GoroutinesTyped
<1>4. \E n \in LeaseId : n # y /\ n \notin granted[j]
  BY <1>2 DEF Spare
<1> DEFINE x == NewLeaseId(j, y)
<1>5. CASE ReserveDenied(w)
  <2>1. PICK d \in RetryDelays : Refused(w, d)
    BY <1>5 DEF ReserveDenied
  <2>2. d \in Nat
    BY SchedulerAssumption
  <2>3. /\ x \in LeaseId \ (granted[j] \cup {y})
        /\ worker' = [worker EXCEPT ![w] = [pc |-> "requeue", job |-> j, lease |-> x, delay |-> d]]
        /\ refused' = [refused EXCEPT ![j] = IF y \in granted'[j] THEN @ \cup {y} ELSE @]
    <3>1. x \in LeaseId \ (granted[j] \cup {y})
      BY <1>4, NewLeaseIs
    <3>2. worker' = [worker EXCEPT ![w] = [pc |-> "requeue", job |-> j, lease |-> x, delay |-> d]]
      BY <1>3, <2>1 DEF Refused, Requeueing
    <3>3. refused' = [refused EXCEPT ![j] = IF y \in granted'[j] THEN @ \cup {y} ELSE @]
      BY <2>1 DEF Refused
    <3> QED
      BY <3>1, <3>2, <3>3
  <2>4. granted' = granted /\ (y \in granted[j] => SpareLeases(w))
    BY <1>5 DEF ReserveDenied
  <2>5. \E n \in LeaseId : n # x /\ n \notin granted'[j]
    <3>1. CASE y \in granted[j]
      <4>1. PICK m, n \in LeaseId \ (granted[j] \cup {y}) : m # n
        BY <2>4, <3>1 DEF SpareLeases
      <4> QED
        BY <2>4, <4>1
    <3>2. CASE y \notin granted[j]
      BY <1>2, <2>3, <2>4, <3>2
    <3> QED
      BY <3>1, <3>2
  <2> QED
    BY <1>1, <2>2, <2>3, <2>4, <2>5 DEF Retried
<1>6. CASE ReserveError(w)
  <2>1. /\ worker' = [worker EXCEPT ![w] =
             [pc |-> "requeue", job |-> j, lease |-> y, delay |-> ErrorDelay]]
        /\ refused' = refused
    BY <1>3, <1>6 DEF ReserveError, Requeueing
  <2>2. granted' \in {granted, [granted EXCEPT ![j] = @ \cup {y}]}
    BY <1>6 DEF ReserveError
  <2>3. \E n \in LeaseId : n # y /\ n \notin granted'[j]
    BY <1>2, <1>4, <2>2
  <2> QED
    BY <1>1, <1>2, <2>1, <2>2, <2>3, SchedulerAssumption DEF Retried
<1>7. CASE ReserveBackendError(w)
  <2>1. Refused(w, 0)
    BY <1>7 DEF ReserveBackendError
  <2>2. /\ x \in LeaseId \ (granted[j] \cup {y})
        /\ worker' = [worker EXCEPT ![w] = [pc |-> "requeue", job |-> j, lease |-> x, delay |-> 0]]
        /\ refused' = [refused EXCEPT ![j] = IF y \in granted'[j] THEN @ \cup {y} ELSE @]
    <3>1. x \in LeaseId \ (granted[j] \cup {y})
      BY <1>4, NewLeaseIs
    <3>2. worker' = [worker EXCEPT ![w] = [pc |-> "requeue", job |-> j, lease |-> x, delay |-> 0]]
      BY <1>3, <2>1 DEF Refused, Requeueing
    <3>3. refused' = [refused EXCEPT ![j] = IF y \in granted'[j] THEN @ \cup {y} ELSE @]
      BY <2>1 DEF Refused
    <3> QED
      BY <3>1, <3>2, <3>3
  <2>3. granted' \in {granted, [granted EXCEPT ![j] = @ \cup {y}]}
    BY <1>7 DEF ReserveBackendError
  <2>4. PICK m, n \in LeaseId \ (granted[j] \cup {y}) : m # n
    BY <1>7 DEF ReserveBackendError, SpareLeases
  <2>5. /\ x \notin granted'[j]
        /\ \E k \in LeaseId : k # x /\ k \notin granted'[j]
    BY <1>2, <2>2, <2>3, <2>4
  <2> QED
    BY <1>1, <2>2, <2>3, <2>5 DEF Retried
<1> QED
  BY <1>5, <1>6, <1>7

LEMMA WorkTyped ==
  ASSUME Typed, Spare, NEW w \in Worker, Work(w)
  PROVE  Typed'
<1>1. /\ worker[w] \in WorkerState
      /\ worker[w].pc \notin {"idle", "gone"} => worker[w].job \in Job /\ worker[w].lease \in LeaseId
      /\ worker[w].pc = "requeue" => worker[w].delay \in Nat
  BY WorkerIs DEF Typed
<1>2. GoroutinesTyped /\ ChannelsTyped /\ QueuesTyped /\ HistoryTyped
      /\ worker \in [Worker -> WorkerState] /\ granted \in [Job -> SUBSET LeaseId]
  BY DEF Typed, GoroutinesTyped, HistoryTyped
<1>3. /\ UNCHANGED <<submitCh, queues, loop, timer, stopped, submitted>>
  BY DEF Work, Answered, Take, ReserveAllowed, ReserveDenied, ReserveError, ReserveBackendError,
         Requeue, RequeueDropped, Execute, Complete, Exit, channels, queues, leases, Refused
<1>4. QueuesTyped'
  BY <1>2, <1>3 DEF queues, QueuesTyped, ReadyOK, BlockedOK, Known
<1>5. CASE Take(w)
  <2>1. PICK x \in LeaseId :
          worker' = [worker EXCEPT ![w] = [pc |-> "reserve", job |-> Head(workCh).job, lease |-> x]]
    BY <1>5, TakeIs
  <2>2. workCh # <<>> /\ Head(workCh) \in Item /\ workCh' = Tail(workCh)
    BY <1>5, TakeIs
  <2>3. Head(workCh).job \in Job
    BY <2>2 DEF Item
  <2>4. [pc |-> "reserve", job |-> Head(workCh).job, lease |-> x] \in WorkerState
    BY <2>3, WorkerStates
  <2>5. GoroutinesTyped'
    BY <1>2, <1>3, <2>1, <2>4, WorkerTyped
  <2>6. Tail(workCh) \in Seq(Item) /\ Len(workCh) \in Nat /\ Len(Tail(workCh)) = Len(workCh) - 1
    BY <1>2, <2>2, HeadTailIs DEF ChannelsTyped
  <2>7. ChannelsTyped'
    BY <1>2, <1>5, <2>2, <2>6, CapTypes DEF Take, ChannelsTyped, SubmitCap, RequeueCap, WorkCap
  <2>8. HistoryTyped'
    BY <1>2, <1>5 DEF Take, HistoryTyped, leases
  <2> QED
    BY <1>4, <2>5, <2>7, <2>8 DEF Typed
<1>6. CASE ReserveAllowed(w)
  <2>1. worker' = [worker EXCEPT ![w] =
          [pc |-> "execute", job |-> worker[w].job, lease |-> worker[w].lease]]
    BY <1>2, <1>6 DEF ReserveAllowed
  <2>2. [pc |-> "execute", job |-> worker[w].job, lease |-> worker[w].lease] \in WorkerState
    BY <1>1, <1>6, WorkerStates DEF ReserveAllowed
  <2>3. GoroutinesTyped'
    BY <1>2, <1>3, <2>1, <2>2, WorkerTyped
  <2>4. ChannelsTyped'
    BY <1>2, <1>6 DEF ReserveAllowed, channels, ChannelsTyped, SubmitCap, RequeueCap, WorkCap
  <2>5. HistoryTyped'
    BY <1>1, <1>2, <1>6 DEF ReserveAllowed, HistoryTyped
  <2> QED
    BY <1>4, <2>3, <2>4, <2>5 DEF Typed
<1>7. CASE ReserveDenied(w) \/ ReserveError(w) \/ ReserveBackendError(w)
  <2>0. PICK x \in LeaseId, d \in Nat : Retried(w, x, d)
    BY <1>7, RetryIs
  <2>1. /\ worker' = [worker EXCEPT ![w] =
             [pc |-> "requeue", job |-> worker[w].job, lease |-> x, delay |-> d]]
        /\ \/ refused' = refused
           \/ refused' = [refused EXCEPT ![worker[w].job] =
                IF worker[w].lease \in granted'[worker[w].job] THEN @ \cup {worker[w].lease} ELSE @]
    BY <2>0 DEF Retried
  <2>2. /\ worker[w].pc = "reserve"
        /\ granted' \in {granted, [granted EXCEPT ![worker[w].job] = @ \cup {worker[w].lease}]}
    BY <1>7, RetryIs
  <2>3. [pc |-> "requeue", job |-> worker[w].job, lease |-> x, delay |-> d] \in WorkerState
    BY <1>1, <2>2, WorkerStates
  <2>4. GoroutinesTyped'
    BY <1>2, <1>3, <2>1, <2>3, WorkerTyped
  <2>5. ChannelsTyped'
    BY <1>2, <1>7 DEF ReserveDenied, ReserveError, ReserveBackendError, channels, ChannelsTyped,
                      SubmitCap, RequeueCap, WorkCap, Refused
  <2>6. finished' = finished
    BY <1>7 DEF ReserveDenied, ReserveError, ReserveBackendError, Refused
  <2>7. HistoryTyped'
    <3>1. refused' \in [Job -> SUBSET LeaseId]
      BY <1>1, <1>2, <2>1, <2>2 DEF HistoryTyped
    <3> QED
      BY <1>1, <1>2, <1>3, <2>2, <2>6, <3>1 DEF HistoryTyped
  <2> QED
    BY <1>4, <2>4, <2>5, <2>7 DEF Typed
<1>8. CASE Requeue(w)
  <2> DEFINE item == [job |-> worker[w].job, lease |-> worker[w].lease, delay |-> worker[w].delay]
  <2>1. worker[w].pc = "requeue" /\ Len(requeueCh) < RequeueCap /\ requeueCh' = Append(requeueCh, item)
          /\ worker' = [worker EXCEPT ![w] = Idle]
    BY <1>8 DEF Requeue
  <2>2. item \in BlockedItem
    BY <1>1, <2>1 DEF BlockedItem
  <2> HIDE DEF item
  <2>3. /\ requeueCh' \in Seq(BlockedItem) /\ Len(requeueCh') = Len(requeueCh) + 1
        /\ Len(requeueCh) \in Nat
    BY <1>2, <2>1, <2>2, AppendIs DEF ChannelsTyped
  <2>4. Len(requeueCh') <= RequeueCap
    BY <2>1, <2>3, CapTypes
  <2>5. ChannelsTyped'
    BY <1>2, <1>8, <2>3, <2>4 DEF Requeue, ChannelsTyped, SubmitCap, RequeueCap, WorkCap
  <2>6. Idle \in WorkerState
    BY DEF Idle, WorkerState
  <2>7. GoroutinesTyped'
    BY <1>2, <1>3, <2>1, <2>6, WorkerTyped
  <2>8. HistoryTyped'
    BY <1>2, <1>8 DEF Requeue, HistoryTyped, leases
  <2> QED
    BY <1>4, <2>5, <2>7, <2>8 DEF Typed
<1>9. CASE RequeueDropped(w) \/ Execute(w) \/ Exit(w)
  <2>1. PICK r \in WorkerState : worker' = [worker EXCEPT ![w] = r]
    <3>1. Idle \in WorkerState /\ [pc |-> "gone"] \in WorkerState
      BY DEF Idle, WorkerState
    <3>2. CASE RequeueDropped(w) \/ Exit(w)
      BY <3>1, <3>2 DEF RequeueDropped, Exit
    <3>3. CASE Execute(w)
      <4>1. worker' = [worker EXCEPT ![w] =
              [pc |-> "complete", job |-> worker[w].job, lease |-> worker[w].lease]]
        BY <1>2, <3>3 DEF Execute
      <4>2. [pc |-> "complete", job |-> worker[w].job, lease |-> worker[w].lease] \in WorkerState
        BY <1>1, <3>3, WorkerStates DEF Execute
      <4> QED
        BY <4>1, <4>2
    <3> QED
      BY <1>9, <3>2, <3>3
  <2>2. GoroutinesTyped'
    BY <1>2, <1>3, <2>1, WorkerTyped
  <2>3. ChannelsTyped' /\ HistoryTyped'
    BY <1>2, <1>9 DEF RequeueDropped, Execute, Exit, channels, ChannelsTyped, HistoryTyped, SubmitCap,
                      RequeueCap, WorkCap, leases
  <2> QED
    BY <1>4, <2>2, <2>3 DEF Typed
<1>10. CASE Complete(w)
  <2>1. /\ worker[w].pc = "complete" /\ worker' = [worker EXCEPT ![w] = Idle]
        /\ granted' \in {granted, [granted EXCEPT ![worker[w].job] = @ \ {worker[w].lease}]}
        /\ finished' = finished \cup {worker[w].job} /\ refused' = refused
    BY <1>10 DEF Complete
  <2>2. Idle \in WorkerState
    BY DEF Idle, WorkerState
  <2>3. GoroutinesTyped'
    BY <1>2, <1>3, <2>1, <2>2, WorkerTyped
  <2>4. ChannelsTyped'
    BY <1>2, <1>10 DEF Complete, channels, ChannelsTyped, SubmitCap, RequeueCap, WorkCap
  <2>5. HistoryTyped'
    BY <1>1, <1>2, <1>3, <2>1 DEF HistoryTyped
  <2> QED
    BY <1>4, <2>3, <2>4, <2>5 DEF Typed
<1> QED
  BY <1>5, <1>6, <1>7, <1>8, <1>9, <1>10 DEF Work, Answered

\* What is left of the time a worker keeps for its requeue.
LEMMA TickWorker ==
  ASSUME Typed, Tick, NEW w \in Worker
  PROVE  /\ worker'[w] \in WorkerState /\ worker'[w].pc = worker[w].pc
         /\ worker[w].pc \notin {"idle", "gone"} =>
              worker'[w].job = worker[w].job /\ worker'[w].lease = worker[w].lease
<1>1. /\ worker[w] \in WorkerState
      /\ worker[w].pc \notin {"idle", "gone"} => worker[w].job \in Job /\ worker[w].lease \in LeaseId
      /\ worker[w].pc = "requeue" => worker[w].delay \in Nat
  BY WorkerIs DEF Typed
<1>2. worker'[w] = IF worker[w].pc = "requeue"
                   THEN Requeueing(worker[w], worker[w].lease, Down(worker[w].delay)) ELSE worker[w]
  BY DEF Tick
<1>3. CASE worker[w].pc = "requeue"
  <2>1. Down(worker[w].delay) \in Nat
    BY <1>1, <1>3 DEF Down
  <2>2. worker'[w] = [pc |-> "requeue", job |-> worker[w].job, lease |-> worker[w].lease,
                      delay |-> Down(worker[w].delay)]
    BY <1>2, <1>3 DEF Requeueing
  <2>3. worker'[w] \in WorkerState
    <3>1. worker[w].job \in Job /\ worker[w].lease \in LeaseId
      BY <1>1, <1>3
    <3> QED
      BY <2>1, <2>2, <3>1, WorkerStates
  <2> QED
    BY <1>3, <2>2, <2>3
<1>4. CASE worker[w].pc # "requeue"
  BY <1>1, <1>2, <1>4
<1> QED
  BY <1>3, <1>4

LEMMA TickTyped ==
  ASSUME Typed, Tick
  PROVE  Typed'
<1>1. GoroutinesTyped'
  <2>1. worker' \in [Worker -> WorkerState]
    <3>1. \A w \in Worker : worker'[w] \in WorkerState
      BY TickWorker
    <3>2. DOMAIN worker' = Worker /\ worker' = [w \in Worker |-> worker'[w]]
      BY DEF Tick
    <3> QED
      BY <3>1, <3>2
  <2>2. timer' \in Nat /\ loop' = loop
    BY DEF Tick, Down, Typed, GoroutinesTyped
  <2> QED
    BY <2>1, <2>2 DEF Typed, GoroutinesTyped
<1>2. ChannelsTyped'
  <2>1. requeueCh' \in Seq(BlockedItem) /\ Len(requeueCh') = Len(requeueCh)
    BY SoonerIs DEF Tick, Typed, ChannelsTyped
  <2> QED
    BY <2>1 DEF Tick, Typed, ChannelsTyped, SubmitCap, RequeueCap, WorkCap
<1>3. QueuesTyped'
  <2>1. /\ blocked' = [q \in Queue |-> Sooner(blocked[q])]
        /\ ready' = ready /\ order' = order /\ rrIndex' = rrIndex
    BY DEF Tick
  <2>2. ASSUME NEW q \in Queue
        PROVE  BlockedOK(blocked'[q], q) /\ (blocked'[q] = <<>> <=> blocked[q] = <<>>)
    BY <2>1, BlockedSooner DEF Typed, QueuesTyped
  <2>3. blocked' \in [Queue -> Seq(BlockedItem)]
    <3>1. \A q \in Queue : blocked'[q] \in Seq(BlockedItem)
      BY <2>2 DEF BlockedOK
    <3> QED
      BY <2>1, <3>1
  <2>4. \A q \in Queue : Known(q)' <=> Known(q)
    BY <2>1 DEF Known
  <2> QED
    BY <2>1, <2>2, <2>3, <2>4 DEF Typed, QueuesTyped, ReadyOK, BlockedOK
<1>4. HistoryTyped'
  BY DEF Tick, Typed, HistoryTyped, leases
<1> QED
  BY <1>1, <1>2, <1>3, <1>4 DEF Typed

LEMMA NextTyped == Typed /\ Spare /\ [Next]_vars => Typed'
<1> SUFFICES ASSUME Typed, Spare, [Next]_vars
             PROVE  Typed'
  OBVIOUS
<1>1. CASE UNCHANGED vars
  BY <1>1 DEF vars, channels, queues, Typed, ChannelsTyped, QueuesTyped, GoroutinesTyped, HistoryTyped,
              ReadyOK, BlockedOK, Known, SubmitCap, RequeueCap, WorkCap, leases
<1>2. CASE Next
  BY <1>2, SubmitTyped, QuietTyped, PromoteTyped, DispatchTyped, ReceiveSubmitTyped,
     ReceiveRequeueTyped, WorkTyped, TickTyped DEF Next, Loop
<1> QED
  BY <1>1, <1>2

-----------------------------------------------------------------------------
(* No step loses or doubles a job.                                         *)

Done(j) == IF j \in finished THEN 1 ELSE 0

LEMMA OneType ==
  ASSUME NEW x, NEW j
  PROVE  One(x, j) \in Nat
BY DEF One

\* The places of a job, as numbers.
Places(j, a, b, c, d, e, f, g) ==
  /\ CountIn(submitCh, j) = a /\ CountIn(requeueCh, j) = b /\ CountIn(workCh, j) = c
  /\ CountIn(ready[QueueOf[j]], j) = d /\ CountIn(blocked[QueueOf[j]], j) = e
  /\ Cardinality(Busy(worker, j)) = f /\ Done(j) = g

LEMMA PlacesAre ==
  ASSUME NEW j, NEW a, NEW b, NEW c, NEW d, NEW e, NEW f, NEW g, Places(j, a, b, c, d, e, f, g)
  PROVE  Copies(j) = a + b + c + d + e + f + g
BY DEF Places, Copies, Busy, Done

LEMMA PlacesWillBe ==
  ASSUME NEW CONSTANT j, NEW CONSTANT a, NEW CONSTANT b, NEW CONSTANT c, NEW CONSTANT d,
         NEW CONSTANT e, NEW CONSTANT f, NEW CONSTANT g, Places(j, a, b, c, d, e, f, g)'
  PROVE  Copies(j)' = a + b + c + d + e + f + g
BY DEF Places, Copies, Busy, Done

\* Wherever the copies of a job are.
LEMMA PlacesExist ==
  ASSUME Typed, NEW j \in Job
  PROVE  \E a, b, c, d, e, f \in Nat, g \in {0, 1} : Places(j, a, b, c, d, e, f, g)
<1>1. Done(j) \in {0, 1}
  BY DEF Done
<1> QED
  BY <1>1, CopiesAre DEF Places

LEMMA SubmitCopies ==
  ASSUME Typed, NEW k \in Job, SubmitAccepted(k), NEW j \in Job
  PROVE  Copies(j)' = Copies(j) + (IF j = k THEN 1 ELSE 0)
<1> DEFINE item == [job |-> k, lease |-> NoLease]
           o == IF j = k THEN 1 ELSE 0
<1>1. PICK a, b, c, d, e, f \in Nat, g \in {0, 1} : Places(j, a, b, c, d, e, f, g)
  BY PlacesExist
<1>2. submitCh' = Append(submitCh, item) /\ item \in Item /\ item.job = k
  BY DEF SubmitAccepted, Item
<1>3. One(item, j) = o
  BY <1>2 DEF One
<1> HIDE DEF item
<1>4. CountIn(submitCh', j) = a + o
  BY <1>1, <1>2, <1>3, CountAppend DEF Typed, ChannelsTyped, Places
<1>5. o \in Nat
  OBVIOUS
<1> HIDE DEF o
<1>6. Places(j, a + o, b, c, d, e, f, g)'
  BY <1>1, <1>4 DEF Places, SubmitAccepted, queues, Busy, Done
<1>7. Copies(j)' = (a + o) + b + c + d + e + f + g /\ Copies(j) = a + b + c + d + e + f + g
  BY <1>1, <1>6, PlacesAre, PlacesWillBe
<1>8. Copies(j)' = Copies(j) + o
  BY <1>1, <1>5, <1>7
<1> QED
  BY <1>8 DEF o

LEMMA PromoteCopies ==
  ASSUME Typed, Promote, NEW j \in Job
  PROVE  Copies(j)' = Copies(j)
<1>1. PICK a, b, c, d, e, f \in Nat, g \in {0, 1} : Places(j, a, b, c, d, e, f, g)
  BY PlacesExist
<1>2. PICK q \in Queue : q = QueueOf[j]
  BY SchedulerAssumption
<1>3. ReadyOK(ready[q], q) /\ BlockedOK(blocked[q], q)
  BY DEF Typed, QueuesTyped
<1>4. ready'[q] = ready[q] \o Promoted(blocked[q]) /\ blocked'[q] = NotDue(blocked[q])
  BY DEF Promote, Promoted
<1> DEFINE s == blocked[q]
           n == CountIn(Due(s), j)
<1>5. /\ ReadyOK(Promoted(s), q) /\ BlockedOK(NotDue(s), q)
      /\ s = Due(s) \o NotDue(s) /\ Due(s) \in Seq(BlockedItem)
      /\ DOMAIN Promoted(s) = DOMAIN Due(s)
  BY <1>3, DueIs
<1>6. \A i \in DOMAIN Due(s) : Promoted(s)[i].job = Due(s)[i].job
  BY DEF Promoted
<1>7. CountIn(Promoted(s), j) = n
  BY <1>5, <1>6, CountSame
<1>8. CountIn(Due(s) \o NotDue(s), j) = n + CountIn(NotDue(s), j)
  BY <1>5, CountConcat DEF BlockedOK
<1>9. n \in Nat /\ CountIn(NotDue(s), j) \in Nat
  BY <1>5, AtFinite DEF BlockedOK
<1>10. CountIn(ready[q] \o Promoted(s), j) = CountIn(ready[q], j) + CountIn(Promoted(s), j)
  BY <1>3, <1>5, CountConcat DEF ReadyOK
<1> HIDE DEF n
<1>11. CountIn(ready[q], j) = d /\ CountIn(s, j) = e
  BY <1>1, <1>2 DEF Places
<1>12. CountIn(ready'[q], j) = d + n /\ CountIn(blocked'[q], j) = e - n
  <2>1. CountIn(ready'[q], j) = d + n
    BY <1>4, <1>7, <1>10, <1>11
  <2>2. e = n + CountIn(NotDue(s), j)
    <3>1. CountIn(s, j) = CountIn(Due(s) \o NotDue(s), j)
      BY <1>5
    <3> QED
      BY <1>8, <1>11, <3>1
  <2>3. CountIn(NotDue(s), j) = e - n
    BY <1>1, <1>9, <2>2
  <2> QED
    BY <1>4, <2>1, <2>3
<1>13. ASSUME NEW x, NEW y, x = d + n, y = e - n
       PROVE  Copies(j)' = Copies(j)
  <2>1. Places(j, a, b, c, x, y, f, g)'
    BY <1>1, <1>2, <1>12, <1>13 DEF Places, Promote, channels, Busy, Done
  <2>2. Copies(j)' = a + b + c + x + y + f + g /\ Copies(j) = a + b + c + d + e + f + g
    BY <1>1, <2>1, PlacesAre, PlacesWillBe
  <2> QED
    BY <1>1, <1>9, <1>13, <2>2
<1> QED
  BY <1>13

LEMMA DispatchCopies ==
  ASSUME Typed, Dispatch, NEW j \in Job
  PROVE  Copies(j)' = Copies(j)
<1>1. PICK a, b, c, d, e, f \in Nat, g \in {0, 1} : Places(j, a, b, c, d, e, f, g)
  BY PlacesExist
<1>2. PICK q \in Queue :
           /\ ready[q] # <<>> /\ Head(ready[q]) \in Item /\ QueueOf[Head(ready[q]).job] = q
           /\ workCh' = Append(workCh, Head(ready[q]))
           /\ ready' = [ready EXCEPT ![q] = Tail(ready[q])]
  BY DispatchIs
<1>3. ready \in [Queue -> Seq(Item)] /\ ready[q] \in Seq(Item) /\ workCh \in Seq(Item)
  BY DEF Typed, ChannelsTyped, QueuesTyped
<1> DEFINE item == Head(ready[q])
           n == One(item, j)
<1>4. n \in Nat
  BY OneType
<1>5. CountIn(workCh', j) = c + n
  BY <1>1, <1>2, <1>3, CountAppend DEF Places
<1>6. CountIn(ready[q], j) = n + CountIn(Tail(ready[q]), j) /\ CountIn(Tail(ready[q]), j) \in Nat
  BY <1>2, <1>3, CountTail
<1> HIDE DEF n
<1>7. CountIn(ready'[QueueOf[j]], j) = d - n
  <2>1. CASE QueueOf[j] = q
    <3>1. ready'[q] = Tail(ready[q])
      BY <1>2, <1>3
    <3>2. d = n + CountIn(Tail(ready[q]), j)
      BY <1>1, <1>6, <2>1 DEF Places
    <3> QED
      BY <1>4, <1>6, <2>1, <3>1, <3>2
  <2>2. CASE QueueOf[j] # q
    <3>1. ready'[QueueOf[j]] = ready[QueueOf[j]]
      BY <1>2, <1>3, <2>2, SchedulerAssumption
    <3>2. n = 0
      BY <1>2, <2>2 DEF n, One
    <3>3. CountIn(ready[QueueOf[j]], j) = d /\ d - 0 = d
      BY <1>1 DEF Places
    <3> QED
      BY <3>1, <3>2, <3>3
  <2> QED
    BY <2>1, <2>2
<1>8. ASSUME NEW x, NEW y, x = c + n, y = d - n
      PROVE  Copies(j)' = Copies(j)
  <2>1. Places(j, a, b, x, y, e, f, g)'
    BY <1>1, <1>5, <1>7, <1>8 DEF Places, Dispatch, Busy, Done
  <2>2. Copies(j)' = a + b + x + y + e + f + g /\ Copies(j) = a + b + c + d + e + f + g
    BY <1>1, <2>1, PlacesAre, PlacesWillBe
  <2> QED
    BY <1>1, <1>4, <1>8, <2>2
<1> QED
  BY <1>8

LEMMA ReceiveSubmitCopies ==
  ASSUME Typed, ReceiveSubmit, NEW j \in Job
  PROVE  Copies(j)' = Copies(j)
<1>1. PICK a, b, c, d, e, f \in Nat, g \in {0, 1} : Places(j, a, b, c, d, e, f, g)
  BY PlacesExist
<1> DEFINE item == Head(submitCh)
           n == One(item, j)
<1>2. /\ submitCh # <<>> /\ submitCh' = Tail(submitCh)
      /\ ready' = [ready EXCEPT ![QueueOf[item.job]] = Append(@, item)]
  BY DEF ReceiveSubmit
<1>3. ready \in [Queue -> Seq(Item)] /\ submitCh \in Seq(Item) /\ item \in Item
  BY <1>2, HeadTailIs DEF Typed, ChannelsTyped, QueuesTyped
<1>4. n \in Nat
  BY OneType
<1>5. CountIn(submitCh', j) = a - n
  <2>1. CountIn(submitCh, j) = n + CountIn(Tail(submitCh), j) /\ CountIn(Tail(submitCh), j) \in Nat
    BY <1>2, <1>3, CountTail
  <2> HIDE DEF n
  <2> QED
    BY <1>1, <1>2, <1>4, <2>1 DEF Places
<1>6. CountIn(ready'[QueueOf[j]], j) = d + n
  <2>0. QueueOf[j] \in Queue /\ CountIn(ready[QueueOf[j]], j) = d
    BY <1>1, SchedulerAssumption DEF Places
  <2>1. CASE QueueOf[j] = QueueOf[item.job]
    <3>1. ready'[QueueOf[j]] = Append(ready[QueueOf[j]], item)
      BY <1>2, <1>3, <2>0, <2>1
    <3>2. CountIn(Append(ready[QueueOf[j]], item), j) = CountIn(ready[QueueOf[j]], j) + n
      BY <1>3, <2>0, CountAppend
    <3> QED
      BY <2>0, <3>1, <3>2
  <2>2. CASE QueueOf[j] # QueueOf[item.job]
    <3>1. ready'[QueueOf[j]] = ready[QueueOf[j]]
      BY <1>2, <1>3, <2>0, <2>2
    <3>2. n = 0
      BY <2>2 DEF One
    <3>3. d + 0 = d
      BY <1>1
    <3> HIDE DEF n
    <3> QED
      BY <2>0, <3>1, <3>2, <3>3
  <2> QED
    BY <2>1, <2>2
<1> HIDE DEF n
<1>7. ASSUME NEW x, NEW y, x = a - n, y = d + n
      PROVE  Copies(j)' = Copies(j)
  <2>1. Places(j, x, b, c, y, e, f, g)'
    BY <1>1, <1>5, <1>6, <1>7 DEF Places, ReceiveSubmit, Busy, Done
  <2>2. Copies(j)' = x + b + c + y + e + f + g /\ Copies(j) = a + b + c + d + e + f + g
    BY <1>1, <2>1, PlacesAre, PlacesWillBe
  <2> QED
    BY <1>1, <1>4, <1>7, <2>2
<1> QED
  BY <1>7

LEMMA ReceiveRequeueCopies ==
  ASSUME Typed, ReceiveRequeue, NEW j \in Job
  PROVE  Copies(j)' = Copies(j)
<1>1. PICK a, b, c, d, e, f \in Nat, g \in {0, 1} : Places(j, a, b, c, d, e, f, g)
  BY PlacesExist
<1> DEFINE item == Head(requeueCh)
           n == One(item, j)
<1>2. /\ requeueCh # <<>> /\ requeueCh' = Tail(requeueCh) /\ item \in BlockedItem
  BY ReceiveRequeueIs
<1>3. PICK q \in Queue, p \in Nat :
        /\ p \in 1 .. Len(blocked[q]) + 1 /\ q = QueueOf[item.job]
        /\ blocked' = [blocked EXCEPT ![q] = InsertAt(blocked[q], p, item)]
  BY ReceiveRequeueIs
<1>4. /\ blocked \in [Queue -> Seq(BlockedItem)] /\ blocked[q] \in Seq(BlockedItem)
      /\ requeueCh \in Seq(BlockedItem)
  BY DEF Typed, ChannelsTyped, QueuesTyped
<1>5. n \in Nat
  BY OneType
<1>6. CountIn(requeueCh', j) = b - n
  <2>1. CountIn(requeueCh, j) = n + CountIn(Tail(requeueCh), j) /\ CountIn(Tail(requeueCh), j) \in Nat
    BY <1>2, <1>4, CountTail
  <2> HIDE DEF n
  <2> QED
    BY <1>1, <1>2, <1>5, <2>1 DEF Places
<1>7. CountIn(blocked'[QueueOf[j]], j) = e + n
  <2>0. QueueOf[j] \in Queue /\ CountIn(blocked[QueueOf[j]], j) = e
    BY <1>1, SchedulerAssumption DEF Places
  <2>1. CASE QueueOf[j] = q
    <3>1. blocked'[QueueOf[j]] = InsertAt(blocked[q], p, item)
      BY <1>3, <1>4, <2>0, <2>1
    <3>2. CountIn(InsertAt(blocked[q], p, item), j) = CountIn(blocked[q], j) + n
      <4>1. item \in BlockedItem /\ p \in 1 .. Len(blocked[q]) + 1 /\ blocked[q] \in Seq(BlockedItem)
        BY <1>2, <1>3, <1>4
      <4> HIDE DEF item
      <4> QED
        BY <4>1, CountInsert
    <3> QED
      BY <2>0, <2>1, <3>1, <3>2
  <2>2. CASE QueueOf[j] # q
    <3>1. blocked'[QueueOf[j]] = blocked[QueueOf[j]]
      BY <1>3, <1>4, <2>0, <2>2
    <3>2. n = 0
      <4>1. item.job # j
        BY <1>3, <2>2
      <4> QED
        BY <4>1 DEF One
    <3>3. e + 0 = e
      BY <1>1
    <3> HIDE DEF n
    <3> QED
      BY <2>0, <3>1, <3>2, <3>3
  <2> QED
    BY <2>1, <2>2
<1> HIDE DEF n
<1>8. ASSUME NEW x, NEW y, x = b - n, y = e + n
      PROVE  Copies(j)' = Copies(j)
  <2>1. Places(j, a, x, c, d, y, f, g)'
    BY <1>1, <1>6, <1>7, <1>8 DEF Places, ReceiveRequeue, Busy, Done
  <2>2. Copies(j)' = a + x + c + d + y + f + g /\ Copies(j) = a + b + c + d + e + f + g
    BY <1>1, <2>1, PlacesAre, PlacesWillBe
  <2> QED
    BY <1>1, <1>5, <1>8, <2>2
<1> QED
  BY <1>8

LEMMA QuietCopies ==
  ASSUME Shutdown \/ Arm \/ TimerFires \/ Stop \/ UNCHANGED vars, NEW j \in Job
  PROVE  Copies(j)' = Copies(j)
BY DEF Shutdown, Arm, TimerFires, Stop, vars, channels, queues, Copies

LEMMA RefusedCopies ==
  ASSUME NEW k, SubmitRefused(k), NEW j \in Job
  PROVE  Copies(j)' = Copies(j)
BY DEF SubmitRefused, channels, queues, Copies

LEMMA TickCopies ==
  ASSUME Typed, Tick, NEW j \in Job
  PROVE  Copies(j)' = Copies(j)
<1>1. PICK a, b, c, d, e, f \in Nat, g \in {0, 1} : Places(j, a, b, c, d, e, f, g)
  BY PlacesExist
<1>2. QueueOf[j] \in Queue
  BY SchedulerAssumption
<1>3. requeueCh' = Sooner(requeueCh) /\ blocked'[QueueOf[j]] = Sooner(blocked[QueueOf[j]])
  BY <1>2 DEF Tick
<1>4. requeueCh \in Seq(BlockedItem) /\ blocked[QueueOf[j]] \in Seq(BlockedItem)
  BY <1>2 DEF Typed, ChannelsTyped, QueuesTyped
<1>5. /\ DOMAIN Sooner(requeueCh) = DOMAIN requeueCh
      /\ \A i \in DOMAIN requeueCh : Sooner(requeueCh)[i].job = requeueCh[i].job
  BY <1>4, SoonerIs
<1>6. CountIn(requeueCh', j) = b
  <2>1. CountIn(Sooner(requeueCh), j) = CountIn(requeueCh, j)
    BY <1>5, CountSame
  <2> QED
    BY <1>1, <1>3, <2>1 DEF Places
<1> DEFINE s == blocked[QueueOf[j]]
<1>7. DOMAIN Sooner(s) = DOMAIN s /\ \A i \in DOMAIN s : Sooner(s)[i].job = s[i].job
  BY <1>4, SoonerIs
<1>8. CountIn(blocked'[QueueOf[j]], j) = e
  <2>1. CountIn(Sooner(s), j) = CountIn(s, j)
    BY <1>7, CountSame
  <2> QED
    BY <1>1, <1>3, <2>1 DEF Places
<1>9. Busy(worker', j) = Busy(worker, j)
  <2>1. ASSUME NEW w \in Worker
        PROVE  w \in Busy(worker', j) <=> w \in Busy(worker, j)
    BY <2>1, TickWorker DEF Busy
  <2> QED
    BY <2>1 DEF Busy
<1>10. Places(j, a, b, c, d, e, f, g)'
  BY <1>1, <1>6, <1>8, <1>9 DEF Places, Tick, Done, Busy
<1> QED
  BY <1>1, <1>10, PlacesAre, PlacesWillBe

\* Whether a worker in this state has the job in hand, as a number.
InHand(r, j) == IF r.pc \notin {"idle", "gone"} /\ r.job = j THEN 1 ELSE 0

LEMMA BusyUpdate ==
  ASSUME GoroutinesTyped, NEW w \in Worker, NEW r, worker' = [worker EXCEPT ![w] = r], NEW j
  PROVE  /\ Cardinality(Busy(worker', j)) + InHand(worker[w], j)
              = Cardinality(Busy(worker, j)) + InHand(r, j)
         /\ Cardinality(Busy(worker', j)) \in Nat
         /\ InHand(worker[w], j) \in {0, 1} /\ InHand(r, j) \in {0, 1}
<1>1. worker'[w] = r /\ \A v \in Worker : v # w => worker'[v] = worker[v]
  BY DEF GoroutinesTyped
<1>2. Cardinality(Busy(worker', j)) + (IF w \in Busy(worker, j) THEN 1 ELSE 0)
        = Cardinality(Busy(worker, j)) + (IF w \in Busy(worker', j) THEN 1 ELSE 0)
  BY <1>1, BusyChange, ZenonT(60)
<1>3. (IF w \in Busy(worker, j) THEN 1 ELSE 0) = InHand(worker[w], j)
  BY DEF Busy, InHand
<1>4. (IF w \in Busy(worker', j) THEN 1 ELSE 0) = InHand(r, j)
  BY <1>1 DEF Busy, InHand
<1>5. Cardinality(Busy(worker', j)) \in Nat
  BY BusyFinite
<1>6. InHand(worker[w], j) \in {0, 1} /\ InHand(r, j) \in {0, 1}
  BY DEF InHand
<1> QED
  BY <1>2, <1>3, <1>4, <1>5, <1>6

\* A worker that keeps its job in hand, or goes on having none.
LEMMA SameHandCopies ==
  ASSUME Typed, NEW w \in Worker, NEW r, worker' = [worker EXCEPT ![w] = r],
         UNCHANGED <<channels, ready, blocked, finished>>, NEW j \in Job,
         InHand(r, j) = InHand(worker[w], j)
  PROVE  Copies(j)' = Copies(j)
<1>1. PICK a, b, c, d, e, f \in Nat, g \in {0, 1} : Places(j, a, b, c, d, e, f, g)
  BY PlacesExist
<1>2. /\ Cardinality(Busy(worker', j)) + InHand(worker[w], j)
           = Cardinality(Busy(worker, j)) + InHand(r, j)
      /\ Cardinality(Busy(worker', j)) \in Nat
      /\ InHand(worker[w], j) \in {0, 1} /\ InHand(r, j) \in {0, 1}
  BY BusyUpdate DEF Typed
<1>3. Cardinality(Busy(worker', j)) = f
  BY <1>1, <1>2 DEF Places
<1>4. Places(j, a, b, c, d, e, f, g)'
  BY <1>1, <1>3 DEF Places, channels, Busy, Done
<1> QED
  BY <1>1, <1>4, PlacesAre, PlacesWillBe

LEMMA TakeCopies ==
  ASSUME Typed, Spare, NEW w \in Worker, Take(w), NEW j \in Job
  PROVE  Copies(j)' = Copies(j)
<1>1. PICK a, b, c, d, e, f \in Nat, g \in {0, 1} : Places(j, a, b, c, d, e, f, g)
  BY PlacesExist
<1> DEFINE item == Head(workCh)
           n == One(item, j)
<1>2. /\ workCh # <<>> /\ item \in Item /\ worker[w].pc = "idle" /\ workCh' = Tail(workCh)
  BY TakeIs
<1>3. PICK x \in LeaseId :
        worker' = [worker EXCEPT ![w] = [pc |-> "reserve", job |-> item.job, lease |-> x]]
  BY TakeIs
<1>4. n \in Nat
  BY OneType
<1>5. CountIn(workCh', j) = c - n
  <2>1. CountIn(workCh, j) = n + CountIn(Tail(workCh), j) /\ CountIn(Tail(workCh), j) \in Nat
    BY <1>2, CountTail DEF Typed, ChannelsTyped
  <2> HIDE DEF n
  <2> QED
    BY <1>1, <1>2, <1>4, <2>1 DEF Places
<1>6. Cardinality(Busy(worker', j)) = f + n
  <2> DEFINE r == [pc |-> "reserve", job |-> item.job, lease |-> x]
  <2>1. InHand(r, j) = n
    BY DEF InHand, One
  <2>2. InHand(worker[w], j) = 0
    BY <1>2 DEF InHand
  <2>3. worker' = [worker EXCEPT ![w] = r]
    BY <1>3
  <2> HIDE DEF r, n
  <2>4. /\ Cardinality(Busy(worker', j)) + InHand(worker[w], j)
             = Cardinality(Busy(worker, j)) + InHand(r, j)
        /\ Cardinality(Busy(worker', j)) \in Nat
    BY <2>3, BusyUpdate, ZenonT(60) DEF Typed
  <2> QED
    BY <1>1, <1>4, <2>1, <2>2, <2>4 DEF Places
<1> HIDE DEF n
<1>7. ASSUME NEW y, NEW z, y = c - n, z = f + n
      PROVE  Copies(j)' = Copies(j)
  <2>1. Places(j, a, b, y, d, e, z, g)'
    BY <1>1, <1>5, <1>6, <1>7 DEF Places, Take, queues, Busy, Done
  <2>2. Copies(j)' = a + b + y + d + e + z + g /\ Copies(j) = a + b + c + d + e + f + g
    BY <1>1, <2>1, PlacesAre, PlacesWillBe
  <2> QED
    BY <1>1, <1>4, <1>7, <2>2
<1> QED
  BY <1>7

LEMMA RequeueCopies ==
  ASSUME Typed, NEW w \in Worker, Requeue(w), NEW j \in Job
  PROVE  Copies(j)' = Copies(j)
<1>1. PICK a, b, c, d, e, f \in Nat, g \in {0, 1} : Places(j, a, b, c, d, e, f, g)
  BY PlacesExist
<1> DEFINE item == [job |-> worker[w].job, lease |-> worker[w].lease, delay |-> worker[w].delay]
           n == InHand(worker[w], j)
<1>2. /\ worker[w].pc = "requeue" /\ requeueCh' = Append(requeueCh, item)
      /\ worker' = [worker EXCEPT ![w] = Idle]
  BY DEF Requeue
<1>3. item \in BlockedItem
  BY <1>2, WorkerIs DEF Typed, BlockedItem
<1>4. One(item, j) = n
  BY <1>2 DEF One, InHand
<1> HIDE DEF item
<1>5. CountIn(requeueCh', j) = b + n
  BY <1>1, <1>2, <1>3, <1>4, CountAppend DEF Typed, ChannelsTyped, Places
<1>6. Cardinality(Busy(worker', j)) = f - n /\ n \in {0, 1}
  <2>1. /\ Cardinality(Busy(worker', j)) + n = Cardinality(Busy(worker, j)) + InHand(Idle, j)
        /\ Cardinality(Busy(worker', j)) \in Nat /\ n \in {0, 1}
    BY <1>2, BusyUpdate, ZenonT(60) DEF Typed
  <2>2. InHand(Idle, j) = 0
    BY DEF InHand, Idle
  <2>3. Cardinality(Busy(worker, j)) = f
    BY <1>1 DEF Places
  <2> DEFINE h == Cardinality(Busy(worker', j))
  <2>4. h + n = f + 0 /\ h \in Nat /\ n \in {0, 1} /\ f \in Nat
    BY <1>1, <2>1, <2>2, <2>3
  <2> HIDE DEF n, h
  <2>5. h = f - n /\ f - n \in Nat
    BY <2>4
  <2> QED
    BY <2>4, <2>5 DEF h
<1> HIDE DEF n
<1>7. ASSUME NEW y, NEW z, y = b + n, z = f - n
      PROVE  Copies(j)' = Copies(j)
  <2>1. Places(j, a, y, c, d, e, z, g)'
    BY <1>1, <1>5, <1>6, <1>7 DEF Places, Requeue, queues, Busy, Done
  <2>2. Copies(j)' = a + y + c + d + e + z + g /\ Copies(j) = a + b + c + d + e + f + g
    BY <1>1, <2>1, PlacesAre, PlacesWillBe
  <2> QED
    BY <1>1, <1>6, <1>7, <2>2
<1> QED
  BY <1>7

\* The doneCh case of requeue drops the worker's copy.
LEMMA DroppedCopies ==
  ASSUME Typed, NEW w \in Worker, RequeueDropped(w), NEW j \in Job
  PROVE  Copies(j)' <= Copies(j) /\ Copies(j)' \in Nat
<1>1. PICK a, b, c, d, e, f \in Nat, g \in {0, 1} : Places(j, a, b, c, d, e, f, g)
  BY PlacesExist
<1> DEFINE n == InHand(worker[w], j)
<1>2. worker' = [worker EXCEPT ![w] = Idle]
  BY DEF RequeueDropped
<1>3. Cardinality(Busy(worker', j)) = f - n /\ n \in {0, 1} /\ f - n \in Nat
  <2>1. /\ Cardinality(Busy(worker', j)) + n = Cardinality(Busy(worker, j)) + InHand(Idle, j)
        /\ Cardinality(Busy(worker', j)) \in Nat /\ n \in {0, 1}
    BY <1>2, BusyUpdate, ZenonT(60) DEF Typed
  <2>2. InHand(Idle, j) = 0
    BY DEF InHand, Idle
  <2>3. Cardinality(Busy(worker, j)) = f
    BY <1>1 DEF Places
  <2> DEFINE h == Cardinality(Busy(worker', j))
  <2>4. h + n = f + 0 /\ h \in Nat /\ n \in {0, 1} /\ f \in Nat
    BY <1>1, <2>1, <2>2, <2>3
  <2> HIDE DEF n, h
  <2>5. h = f - n /\ f - n \in Nat
    BY <2>4
  <2> QED
    BY <2>4, <2>5 DEF h
<1> HIDE DEF n
<1>4. ASSUME NEW z, z = f - n
      PROVE  Copies(j)' <= Copies(j) /\ Copies(j)' \in Nat
  <2>1. Places(j, a, b, c, d, e, z, g)'
    BY <1>1, <1>3, <1>4 DEF Places, RequeueDropped, channels, queues, Busy, Done
  <2>2. Copies(j)' = a + b + c + d + e + z + g /\ Copies(j) = a + b + c + d + e + f + g
    BY <1>1, <2>1, PlacesAre, PlacesWillBe
  <2> QED
    BY <1>1, <1>3, <1>4, <2>2
<1> QED
  BY <1>4

LEMMA CompleteCopies ==
  ASSUME Typed, Conserved, NEW w \in Worker, Complete(w), NEW j \in Job
  PROVE  Copies(j)' = Copies(j)
<1>1. PICK a, b, c, d, e, f \in Nat, g \in {0, 1} : Places(j, a, b, c, d, e, f, g)
  BY PlacesExist
<1> DEFINE n == InHand(worker[w], j)
<1>2. /\ worker[w].pc = "complete" /\ worker' = [worker EXCEPT ![w] = Idle]
      /\ finished' = finished \cup {worker[w].job}
  BY DEF Complete
<1>3. Cardinality(Busy(worker', j)) = f - n /\ n \in {0, 1} /\ f - n \in Nat
  <2>1. /\ Cardinality(Busy(worker', j)) + n = Cardinality(Busy(worker, j)) + InHand(Idle, j)
        /\ Cardinality(Busy(worker', j)) \in Nat /\ n \in {0, 1}
    BY <1>2, BusyUpdate, ZenonT(60) DEF Typed
  <2>2. InHand(Idle, j) = 0
    BY DEF InHand, Idle
  <2>3. Cardinality(Busy(worker, j)) = f
    BY <1>1 DEF Places
  <2> DEFINE h == Cardinality(Busy(worker', j))
  <2>4. h + n = f + 0 /\ h \in Nat /\ n \in {0, 1} /\ f \in Nat
    BY <1>1, <2>1, <2>2, <2>3
  <2> HIDE DEF n, h
  <2>5. h = f - n /\ f - n \in Nat
    BY <2>4
  <2> QED
    BY <2>4, <2>5 DEF h
<1>4. Copies(j) = a + b + c + d + e + f + g /\ Copies(j) <= 1
  BY <1>1, PlacesAre DEF Conserved
<1>5. Done(j)' = g + n
  <2>1. CASE worker[w].job = j
    <3>1. n = 1
      BY <1>2, <2>1 DEF InHand
    <3>2. g = 0
      <4> HIDE DEF n
      <4> QED
        BY <1>1, <1>3, <1>4, <3>1
    <3>3. Done(j)' = 1
      BY <1>2, <2>1 DEF Done
    <3> HIDE DEF n
    <3> QED
      BY <3>1, <3>2, <3>3
  <2>2. CASE worker[w].job # j
    <3>1. n = 0
      BY <2>2 DEF InHand
    <3>2. Done(j)' = g
      BY <1>1, <1>2, <2>2 DEF Done, Places
    <3> HIDE DEF n
    <3> QED
      BY <1>1, <3>1, <3>2
  <2> QED
    BY <2>1, <2>2
<1> HIDE DEF n
<1>6. ASSUME NEW y, NEW z, y = f - n, z = g + n
      PROVE  Copies(j)' = Copies(j)
  <2>1. Places(j, a, b, c, d, e, y, z)'
    BY <1>1, <1>3, <1>5, <1>6 DEF Places, Complete, channels, queues, Busy
  <2>2. Copies(j)' = a + b + c + d + e + y + z
    BY <2>1, PlacesWillBe
  <2> QED
    BY <1>1, <1>3, <1>4, <1>6, <2>2
<1> QED
  BY <1>6

LEMMA KeepConserved ==
  ASSUME Conserved, submitted' = submitted, loop' # "done" => loop # "done",
         \A j \in Job : Copies(j)' = Copies(j)
  PROVE  Conserved'
BY DEF Conserved

LEMMA WorkConserved ==
  ASSUME Typed, Conserved, Spare, NEW w \in Worker, Work(w)
  PROVE  Conserved'
<1>1. submitted' = submitted /\ loop' = loop
  BY DEF Work, Answered, Take, ReserveAllowed, ReserveDenied, ReserveError, ReserveBackendError,
         Requeue, RequeueDropped, Execute, Complete, Exit, leases, Refused
<1>2. worker \in [Worker -> WorkerState]
  BY DEF Typed, GoroutinesTyped
<1>3. CASE Take(w)
  BY <1>1, <1>3, TakeCopies, KeepConserved
<1>4. CASE Requeue(w)
  BY <1>1, <1>4, RequeueCopies, KeepConserved
<1>5. CASE Complete(w)
  BY <1>1, <1>5, CompleteCopies, KeepConserved
<1>6. CASE RequeueDropped(w)
  <2>1. loop = "done"
    BY <1>6 DEF RequeueDropped
  <2>2. ASSUME NEW j \in Job
        PROVE  Copies(j)' <= 1 /\ (j \notin submitted => Copies(j)' = 0)
    <3>1. Copies(j)' <= Copies(j) /\ Copies(j)' \in Nat
      BY <1>6, DroppedCopies
    <3>2. Copies(j) <= 1 /\ (j \notin submitted => Copies(j) = 0)
      BY DEF Conserved
    <3>3. Copies(j) \in Nat
      <4>1. PICK a, b, c, d, e, f \in Nat, g \in {0, 1} : Places(j, a, b, c, d, e, f, g)
        BY PlacesExist
      <4>2. Copies(j) = a + b + c + d + e + f + g
        BY <4>1, PlacesAre
      <4> QED
        BY <4>1, <4>2
    <3> QED
      BY <3>1, <3>2, <3>3
  <2> QED
    BY <1>1, <2>1, <2>2 DEF Conserved
<1>7. CASE ReserveAllowed(w) \/ Execute(w)
  <2> DEFINE p == IF worker[w].pc = "reserve" THEN "execute" ELSE "complete"
             r == [pc |-> p, job |-> worker[w].job, lease |-> worker[w].lease]
  <2>1. /\ worker' = [worker EXCEPT ![w] = r] /\ worker[w].pc \in {"reserve", "execute"}
        /\ UNCHANGED <<channels, ready, blocked, finished>>
    BY <1>2, <1>7 DEF ReserveAllowed, Execute, queues
  <2>2. \A j \in Job : InHand(r, j) = InHand(worker[w], j)
    BY <2>1 DEF InHand
  <2> HIDE DEF r
  <2>3. \A j \in Job : Copies(j)' = Copies(j)
    BY <2>1, <2>2, SameHandCopies
  <2> QED
    BY <1>1, <2>3, KeepConserved
<1>8. CASE ReserveDenied(w) \/ ReserveError(w) \/ ReserveBackendError(w)
  <2>1. PICK x \in LeaseId, d \in Nat : worker' = [worker EXCEPT ![w] =
                   [pc |-> "requeue", job |-> worker[w].job, lease |-> x, delay |-> d]]
    BY <1>8, RetryIs DEF Retried
  <2> DEFINE r == [pc |-> "requeue", job |-> worker[w].job, lease |-> x, delay |-> d]
  <2>2. /\ worker' = [worker EXCEPT ![w] = r] /\ worker[w].pc = "reserve"
        /\ UNCHANGED <<channels, ready, blocked, finished>>
    BY <1>8, <2>1 DEF ReserveDenied, ReserveError, ReserveBackendError, queues, Refused
  <2>3. \A j \in Job : InHand(r, j) = InHand(worker[w], j)
    BY <2>2 DEF InHand
  <2> HIDE DEF r
  <2>4. \A j \in Job : Copies(j)' = Copies(j)
    BY <2>2, <2>3, SameHandCopies
  <2> QED
    BY <1>1, <2>4, KeepConserved
<1>9. CASE Exit(w)
  <2> DEFINE r == [pc |-> "gone"]
  <2>1. /\ worker' = [worker EXCEPT ![w] = r] /\ worker[w].pc = "idle"
        /\ UNCHANGED <<channels, ready, blocked, finished>>
    BY <1>9 DEF Exit, queues
  <2>2. \A j \in Job : InHand(r, j) = InHand(worker[w], j)
    BY <2>1 DEF InHand
  <2> HIDE DEF r
  <2>3. \A j \in Job : Copies(j)' = Copies(j)
    BY <2>1, <2>2, SameHandCopies
  <2> QED
    BY <1>1, <2>3, KeepConserved
<1> QED
  BY <1>3, <1>4, <1>5, <1>6, <1>7, <1>8, <1>9 DEF Work, Answered

LEMMA NextConserved == Typed /\ Conserved /\ Spare /\ [Next]_vars => Conserved'
<1> SUFFICES ASSUME Typed, Conserved, Spare, [Next]_vars
             PROVE  Conserved'
  OBVIOUS
<1>1. CASE UNCHANGED vars
  <2>1. \A j \in Job : Copies(j)' = Copies(j)
    BY <1>1, QuietCopies
  <2> QED
    BY <1>1, <2>1, KeepConserved DEF vars
<1>2. ASSUME NEW k \in Job, SubmitAccepted(k)
      PROVE  Conserved'
  <2>1. k \notin submitted /\ submitted' = submitted \cup {k} /\ loop' = loop
    BY <1>2 DEF SubmitAccepted
  <2>2. ASSUME NEW j \in Job
        PROVE  /\ Copies(j)' <= 1
               /\ j \in submitted' /\ loop' # "done" => Copies(j)' = 1
               /\ j \notin submitted' => Copies(j)' = 0
    <3>1. Copies(j)' = Copies(j) + (IF j = k THEN 1 ELSE 0)
      BY <1>2, SubmitCopies
    <3>2. /\ Copies(j) <= 1
          /\ j \in submitted /\ loop # "done" => Copies(j) = 1
          /\ j \notin submitted => Copies(j) = 0
      BY DEF Conserved
    <3>3. CASE j = k
      <4>1. Copies(j) = 0
        BY <2>1, <3>2, <3>3
      <4>2. Copies(j)' = 1
        BY <3>1, <3>3, <4>1
      <4> QED
        BY <2>1, <3>3, <4>2
    <3>4. CASE j # k
      <4>1. Copies(j)' = Copies(j) + 0
        BY <3>1, <3>4
      <4>2. Copies(j) \in Nat
        <5>1. PICK a, b, c, d, e, f \in Nat, g \in {0, 1} : Places(j, a, b, c, d, e, f, g)
          BY PlacesExist
        <5>2. Copies(j) = a + b + c + d + e + f + g
          BY <5>1, PlacesAre
        <5> QED
          BY <5>1, <5>2
      <4>3. Copies(j)' = Copies(j)
        BY <4>1, <4>2
      <4> QED
        BY <2>1, <3>2, <3>4, <4>3
    <3> QED
      BY <3>3, <3>4
  <2> QED
    BY <2>2 DEF Conserved
<1>3. ASSUME NEW k \in Job, SubmitRefused(k)
      PROVE  Conserved'
  <2>1. \A j \in Job : Copies(j)' = Copies(j)
    BY <1>3, RefusedCopies
  <2>2. submitted' = submitted \cup {k} /\ loop' = "done"
    BY <1>3 DEF SubmitRefused
  <2> QED
    BY <2>1, <2>2 DEF Conserved
<1>4. CASE Shutdown \/ Arm \/ TimerFires \/ Stop
  <2>1. \A j \in Job : Copies(j)' = Copies(j)
    BY <1>4, QuietCopies
  <2>2. submitted' = submitted /\ (loop' # "done" => loop # "done")
    BY <1>4 DEF Shutdown, Arm, TimerFires, Stop
  <2> QED
    BY <2>1, <2>2, KeepConserved
<1>5. CASE Promote \/ Dispatch \/ ReceiveSubmit \/ ReceiveRequeue \/ Tick
  <2>1. \A j \in Job : Copies(j)' = Copies(j)
    BY <1>5, PromoteCopies, DispatchCopies, ReceiveSubmitCopies, ReceiveRequeueCopies, TickCopies
  <2>2. submitted' = submitted /\ (loop' # "done" => loop # "done")
    BY <1>5 DEF Promote, Dispatch, ReceiveSubmit, ReceiveRequeue, Tick
  <2> QED
    BY <2>1, <2>2, KeepConserved
<1>6. ASSUME NEW w \in Worker, Work(w)
      PROVE  Conserved'
  BY <1>6, WorkConserved
<1> QED
  BY <1>1, <1>2, <1>3, <1>4, <1>5, <1>6 DEF Next, Loop

-----------------------------------------------------------------------------
(* Which leases the copies of a job carry after a step.                    *)

\* A worker's step adds what it has in hand, and nothing else.
LEMMA HeldByWorker ==
  ASSUME GoroutinesTyped, NEW w \in Worker, NEW r, worker' = [worker EXCEPT ![w] = r],
         NEW j, NEW x, InHands(worker', j, x)
  PROVE  InHands(worker, j, x) \/ (r.job = j /\ r.lease = x)
<1>1. worker'[w] = r /\ \A v \in Worker : v # w => worker'[v] = worker[v]
  BY DEF GoroutinesTyped
<1>2. PICK v \in Busy(worker', j) : worker'[v].lease = x
  BY DEF InHands
<1>3. CASE v = w
  BY <1>1, <1>2, <1>3 DEF Busy
<1>4. CASE v # w
  BY <1>1, <1>2, <1>4 DEF Busy, InHands
<1> QED
  BY <1>3, <1>4

\* No copy carries a lease that no copy of the job carried before.
NothingNew == \A j \in Job, x \in LeaseId \cup {NoLease} : Held(j, x)' => Held(j, x)

LEMMA PromoteHolds ==
  ASSUME Typed, Promote
  PROVE  NothingNew
<1> SUFFICES ASSUME NEW j \in Job, NEW x, Held(j, x)'
             PROVE  Held(j, x)
  BY DEF NothingNew
<1>1. PICK q \in Queue : q = QueueOf[j]
  BY SchedulerAssumption
<1>2. ReadyOK(ready[q], q) /\ BlockedOK(blocked[q], q)
  BY DEF Typed, QueuesTyped
<1>3. ready'[q] = ready[q] \o Promoted(blocked[q]) /\ blocked'[q] = NotDue(blocked[q])
  BY DEF Promote, Promoted
<1> DEFINE s == blocked[q]
           n == DueCount(s)
<1>4. s \in Seq(BlockedItem) /\ Len(s) \in Nat /\ n \in 0 .. Len(s) /\ DOMAIN s = 1 .. Len(s)
  BY <1>2, DueCountIs DEF BlockedOK
<1>5. Carries(Due(s), j, x) => Carries(s, j, x)
  <2>1. /\ Due(s) \in Seq(BlockedItem) /\ Len(Due(s)) = n /\ \A i \in 1 .. n : Due(s)[i] = s[i]
    BY <1>4, SplitIs DEF Due
  <2>2. DOMAIN Due(s) = 1 .. n
    BY <2>1, LenProperties
  <2>3. \A i \in 1 .. n : i \in DOMAIN s
    BY <1>4
  <2> QED
    BY <2>1, <2>2, <2>3 DEF Carries
<1>6. Carries(NotDue(s), j, x) => Carries(s, j, x)
  <2>1. /\ NotDue(s) \in Seq(BlockedItem) /\ Len(NotDue(s)) = Len(s) - n
        /\ \A i \in 1 .. Len(s) - n : NotDue(s)[i] = s[n + i]
    BY <1>4, SplitIs DEF NotDue
  <2>2. DOMAIN NotDue(s) = 1 .. Len(s) - n
    BY <2>1, LenProperties
  <2>3. \A i \in 1 .. Len(s) - n : n + i \in DOMAIN s
    BY <1>4
  <2> QED
    BY <2>1, <2>2, <2>3 DEF Carries
<1>7. Carries(Promoted(s), j, x) => Carries(Due(s), j, x)
  BY DEF Promoted, Carries
<1>8. Carries(ready'[q], j, x) => Carries(ready[q], j, x) \/ Carries(Promoted(s), j, x)
  <2>1. ReadyOK(Promoted(s), q)
    BY <1>2, DueIs
  <2> QED
    BY <1>2, <1>3, <2>1, CarriesConcat DEF ReadyOK
<1> HIDE DEF s
<1>9. /\ Carries(ready'[q], j, x) => Carries(ready[q], j, x) \/ Carries(blocked[q], j, x)
      /\ Carries(blocked'[q], j, x) => Carries(blocked[q], j, x)
  BY <1>3, <1>5, <1>6, <1>7, <1>8 DEF s
<1> QED
  BY <1>1, <1>9 DEF Held, Promote, channels

LEMMA DispatchHolds ==
  ASSUME Typed, Dispatch
  PROVE  NothingNew
<1> SUFFICES ASSUME NEW j \in Job, NEW x, Held(j, x)'
             PROVE  Held(j, x)
  BY DEF NothingNew
<1>1. PICK q \in Queue :
           /\ ready[q] # <<>> /\ Head(ready[q]) \in Item /\ QueueOf[Head(ready[q]).job] = q
           /\ workCh' = Append(workCh, Head(ready[q]))
           /\ ready' = [ready EXCEPT ![q] = Tail(ready[q])]
  BY DispatchIs
<1>2. /\ ready \in [Queue -> Seq(Item)] /\ ready[q] \in Seq(Item) /\ workCh \in Seq(Item)
      /\ QueueOf[j] \in Queue
  BY SchedulerAssumption DEF Typed, ChannelsTyped, QueuesTyped
<1> DEFINE item == Head(ready[q])
<1>3. Carries(workCh', j, x) => Carries(workCh, j, x) \/ (item.job = j /\ item.lease = x)
  BY <1>1, <1>2, CarriesAppend
<1>4. /\ Carries(Tail(ready[q]), j, x) => Carries(ready[q], j, x)
      /\ Carries(ready[q], item.job, item.lease)
  BY <1>1, <1>2, CarriesTail
<1>5. ready'[QueueOf[j]] = IF QueueOf[j] = q THEN Tail(ready[q]) ELSE ready[QueueOf[j]]
  BY <1>1, <1>2
<1> HIDE DEF item
<1>6. Carries(ready'[QueueOf[j]], j, x) => Carries(ready[QueueOf[j]], j, x)
  BY <1>4, <1>5
<1>7. item.job = j /\ item.lease = x => Carries(ready[QueueOf[j]], j, x)
  BY <1>1, <1>4 DEF item
<1> QED
  BY <1>3, <1>6, <1>7 DEF Held, Dispatch

LEMMA ReceiveSubmitHolds ==
  ASSUME Typed, ReceiveSubmit
  PROVE  NothingNew
<1> SUFFICES ASSUME NEW j \in Job, NEW x, Held(j, x)'
             PROVE  Held(j, x)
  BY DEF NothingNew
<1> DEFINE item == Head(submitCh)
<1>1. /\ submitCh # <<>> /\ submitCh' = Tail(submitCh)
      /\ ready' = [ready EXCEPT ![QueueOf[item.job]] = Append(@, item)]
  BY DEF ReceiveSubmit
<1>2. ready \in [Queue -> Seq(Item)] /\ submitCh \in Seq(Item) /\ item \in Item
      /\ QueueOf[j] \in Queue /\ ready[QueueOf[j]] \in Seq(Item)
  BY <1>1, HeadTailIs, SchedulerAssumption DEF Typed, ChannelsTyped, QueuesTyped
<1>3. /\ Carries(submitCh', j, x) => Carries(submitCh, j, x)
      /\ Carries(submitCh, item.job, item.lease)
  BY <1>1, <1>2, CarriesTail
<1>4. Carries(ready'[QueueOf[j]], j, x) => Carries(ready[QueueOf[j]], j, x) \/ Carries(submitCh, j, x)
  <2>1. CASE QueueOf[j] = QueueOf[item.job]
    <3>1. ready'[QueueOf[j]] = Append(ready[QueueOf[j]], item)
      BY <1>1, <1>2, <2>1
    <3>2. Carries(Append(ready[QueueOf[j]], item), j, x) =>
            Carries(ready[QueueOf[j]], j, x) \/ (item.job = j /\ item.lease = x)
      BY <1>2, CarriesAppend
    <3> QED
      BY <1>3, <3>1, <3>2
  <2>2. CASE QueueOf[j] # QueueOf[item.job]
    BY <1>1, <1>2, <2>2
  <2> QED
    BY <2>1, <2>2
<1> QED
  BY <1>3, <1>4 DEF Held, ReceiveSubmit

LEMMA ReceiveRequeueHolds ==
  ASSUME Typed, ReceiveRequeue
  PROVE  NothingNew
<1> SUFFICES ASSUME NEW j \in Job, NEW x, Held(j, x)'
             PROVE  Held(j, x)
  BY DEF NothingNew
<1> DEFINE item == Head(requeueCh)
<1>1. requeueCh # <<>> /\ requeueCh' = Tail(requeueCh) /\ item \in BlockedItem
  BY ReceiveRequeueIs
<1>2. PICK q \in Queue, p \in Nat :
        /\ p \in 1 .. Len(blocked[q]) + 1 /\ q = QueueOf[item.job]
        /\ blocked' = [blocked EXCEPT ![q] = InsertAt(blocked[q], p, item)]
  BY ReceiveRequeueIs
<1>3. /\ blocked \in [Queue -> Seq(BlockedItem)] /\ blocked[q] \in Seq(BlockedItem)
      /\ requeueCh \in Seq(BlockedItem) /\ QueueOf[j] \in Queue
  BY SchedulerAssumption DEF Typed, ChannelsTyped, QueuesTyped
<1>4. /\ Carries(requeueCh', j, x) => Carries(requeueCh, j, x)
      /\ Carries(requeueCh, item.job, item.lease)
  BY <1>1, <1>3, CarriesTail
<1>5. Carries(blocked'[QueueOf[j]], j, x) => Carries(blocked[QueueOf[j]], j, x) \/ Carries(requeueCh, j, x)
  <2>1. CASE QueueOf[j] = q
    <3>1. blocked'[QueueOf[j]] = InsertAt(blocked[q], p, item)
      BY <1>2, <1>3, <2>1
    <3>2. Carries(InsertAt(blocked[q], p, item), j, x) =>
            Carries(blocked[q], j, x) \/ (item.job = j /\ item.lease = x)
      <4>1. item \in BlockedItem /\ p \in 1 .. Len(blocked[q]) + 1 /\ blocked[q] \in Seq(BlockedItem)
        BY <1>1, <1>2, <1>3
      <4> HIDE DEF item
      <4> QED
        BY <4>1, CarriesInsert
    <3> QED
      BY <1>4, <2>1, <3>1, <3>2
  <2>2. CASE QueueOf[j] # q
    BY <1>2, <1>3, <2>2
  <2> QED
    BY <2>1, <2>2
<1> QED
  BY <1>4, <1>5 DEF Held, ReceiveRequeue

LEMMA QuietHolds ==
  ASSUME Shutdown \/ Arm \/ TimerFires \/ Stop \/ UNCHANGED vars \/ \E k \in Job : SubmitRefused(k)
  PROVE  NothingNew
BY DEF Shutdown, Arm, TimerFires, Stop, SubmitRefused, vars, channels, queues, NothingNew, Held

LEMMA TickHolds ==
  ASSUME Typed, Tick
  PROVE  NothingNew
<1> SUFFICES ASSUME NEW j \in Job, NEW x, Held(j, x)'
             PROVE  Held(j, x)
  BY DEF NothingNew
<1>1. QueueOf[j] \in Queue
  BY SchedulerAssumption
<1>2. requeueCh' = Sooner(requeueCh) /\ blocked'[QueueOf[j]] = Sooner(blocked[QueueOf[j]])
  BY <1>1 DEF Tick
<1>3. requeueCh \in Seq(BlockedItem) /\ blocked[QueueOf[j]] \in Seq(BlockedItem)
  BY <1>1 DEF Typed, ChannelsTyped, QueuesTyped
<1>4. ASSUME NEW s \in Seq(BlockedItem)
      PROVE  Carries(Sooner(s), j, x) <=> Carries(s, j, x)
  BY <1>4, SoonerIs, CarriesSame
<1>5. /\ Carries(requeueCh', j, x) <=> Carries(requeueCh, j, x)
      /\ Carries(blocked'[QueueOf[j]], j, x) <=> Carries(blocked[QueueOf[j]], j, x)
  BY <1>2, <1>3, <1>4
<1>6. InHands(worker', j, x) => InHands(worker, j, x)
  <2>1. ASSUME NEW w \in Worker, w \in Busy(worker', j), worker'[w].lease = x
        PROVE  w \in Busy(worker, j) /\ worker[w].lease = x
    BY <2>1, TickWorker DEF Busy
  <2> QED
    BY <2>1 DEF Busy, InHands
<1> QED
  BY <1>5, <1>6 DEF Held, Tick

\* The worker has nothing new in hand, or hands on what it had.
LEMMA WorkerHandsOn ==
  ASSUME Typed, NEW w \in Worker,
         ReserveAllowed(w) \/ Requeue(w) \/ RequeueDropped(w) \/ Execute(w) \/ Complete(w) \/ Exit(w)
  PROVE  NothingNew
<1> SUFFICES ASSUME NEW j \in Job, NEW x, Held(j, x)'
             PROVE  Held(j, x)
  BY DEF NothingNew
<1>1. worker \in [Worker -> WorkerState] /\ GoroutinesTyped
  BY DEF Typed, GoroutinesTyped
<1>2. submitCh' = submitCh /\ workCh' = workCh /\ ready' = ready /\ blocked' = blocked
  BY DEF ReserveAllowed, Requeue, RequeueDropped, Execute, Complete, Exit, channels, queues
<1>3. InHands(worker', j, x) => Held(j, x)
  <2>1. CASE ReserveAllowed(w) \/ Execute(w)
    <3>1. worker[w].pc \notin {"idle", "gone"}
      BY <2>1 DEF ReserveAllowed, Execute
    <3>2. PICK p : worker' = [worker EXCEPT ![w] =
                     [pc |-> p, job |-> worker[w].job, lease |-> worker[w].lease]]
      BY <1>1, <2>1 DEF ReserveAllowed, Execute
    <3> DEFINE r == [pc |-> p, job |-> worker[w].job, lease |-> worker[w].lease]
    <3>3. r.job = worker[w].job /\ r.lease = worker[w].lease /\ worker' = [worker EXCEPT ![w] = r]
      BY <3>2
    <3> HIDE DEF r
    <3>4. InHands(worker', j, x) =>
            InHands(worker, j, x) \/ (r.job = j /\ r.lease = x)
      BY <1>1, <3>3, HeldByWorker
    <3>5. Held(worker[w].job, worker[w].lease)
      BY <1>1, <3>1, WorkerHolds
    <3> QED
      BY <3>3, <3>4, <3>5 DEF Held
  <2>2. CASE Requeue(w) \/ RequeueDropped(w) \/ Complete(w) \/ Exit(w)
    <3>1. worker'[w].pc \in {"idle", "gone"} /\ \A v \in Worker : v # w => worker'[v] = worker[v]
      BY <1>1, <2>2 DEF Requeue, RequeueDropped, Complete, Exit, Idle
    <3>2. \A v \in Busy(worker', j) : v \in Busy(worker, j) /\ worker'[v] = worker[v]
      BY <3>1 DEF Busy
    <3> QED
      BY <3>2 DEF Held, InHands
  <2> QED
    BY <2>1, <2>2
<1>4. Carries(requeueCh', j, x) => Held(j, x)
  <2>1. CASE Requeue(w)
    <3> DEFINE item == [job |-> worker[w].job, lease |-> worker[w].lease, delay |-> worker[w].delay]
    <3>1. worker[w].pc = "requeue" /\ requeueCh' = Append(requeueCh, item)
      BY <2>1 DEF Requeue
    <3>2. item \in BlockedItem
      BY <3>1, WorkerIs DEF Typed, BlockedItem
    <3>3. item.job = worker[w].job /\ item.lease = worker[w].lease
      OBVIOUS
    <3> HIDE DEF item
    <3>4. Carries(requeueCh', j, x) => Carries(requeueCh, j, x) \/ (item.job = j /\ item.lease = x)
      BY <3>1, <3>2, CarriesAppend DEF Typed, ChannelsTyped
    <3>5. Held(worker[w].job, worker[w].lease)
      BY <1>1, <3>1, WorkerHolds
    <3> QED
      BY <3>3, <3>4, <3>5 DEF Held
  <2>2. CASE ~Requeue(w)
    BY <2>2 DEF ReserveAllowed, RequeueDropped, Execute, Complete, Exit, channels, Held
  <2> QED
    BY <2>1, <2>2
<1> QED
  BY <1>2, <1>3, <1>4 DEF Held

\* Take and a retry give the worker a pair of its own.
LEMMA TakeHolds ==
  ASSUME Typed, NEW w \in Worker, Take(w), NEW r, worker' = [worker EXCEPT ![w] = r],
         NEW j \in Job, NEW x, Held(j, x)'
  PROVE  Held(j, x) \/ (r.job = j /\ r.lease = x)
<1>1. Carries(workCh', j, x) => Carries(workCh, j, x)
  BY CarriesTail DEF Take, Typed, ChannelsTyped
<1>2. InHands(worker', j, x) =>
        InHands(worker, j, x) \/ (r.job = j /\ r.lease = x)
  BY HeldByWorker DEF Typed
<1> QED
  BY <1>1, <1>2 DEF Held, Take, queues

LEMMA RetryHolds ==
  ASSUME Typed, NEW w \in Worker, ReserveDenied(w) \/ ReserveError(w) \/ ReserveBackendError(w),
         NEW r, worker' = [worker EXCEPT ![w] = r], NEW j \in Job, NEW x, Held(j, x)'
  PROVE  Held(j, x) \/ (r.job = j /\ r.lease = x)
<1>1. InHands(worker', j, x) =>
        InHands(worker, j, x) \/ (r.job = j /\ r.lease = x)
  BY HeldByWorker DEF Typed
<1> QED
  BY <1>1 DEF Held, ReserveDenied, ReserveError, ReserveBackendError, channels, queues, Refused

\* The job is nowhere else.
LEMMA RetryOnly ==
  ASSUME Typed, Conserved, NEW w \in Worker,
         ReserveDenied(w) \/ ReserveError(w) \/ ReserveBackendError(w),
         NEW r, worker' = [worker EXCEPT ![w] = r],
         NEW j \in Job, j = worker[w].job, NEW x, Held(j, x)'
  PROVE  r.lease = x
<1>1. worker[w].pc = "reserve"
  BY DEF ReserveDenied, ReserveError, ReserveBackendError
<1>2. /\ Busy(worker, j) = {w}
      /\ CountIn(submitCh, j) = 0 /\ CountIn(requeueCh, j) = 0 /\ CountIn(workCh, j) = 0
      /\ CountIn(ready[QueueOf[j]], j) = 0 /\ CountIn(blocked[QueueOf[j]], j) = 0
  BY <1>1, OnlyHand
<1>3. QueueOf[j] \in Queue
  BY SchedulerAssumption
<1>4. /\ submitCh \in Seq(Item) /\ requeueCh \in Seq(BlockedItem) /\ workCh \in Seq(Item)
      /\ ready[QueueOf[j]] \in Seq(Item) /\ blocked[QueueOf[j]] \in Seq(BlockedItem)
  BY <1>3 DEF Typed, ChannelsTyped, QueuesTyped
<1>5. /\ ~Carries(submitCh, j, x) /\ ~Carries(requeueCh, j, x) /\ ~Carries(workCh, j, x)
      /\ ~Carries(ready[QueueOf[j]], j, x) /\ ~Carries(blocked[QueueOf[j]], j, x)
  <2>1. ~(0 >= 1)
    OBVIOUS
  <2> QED
    BY <1>2, <1>4, <2>1, CarriesCounts
<1>6. UNCHANGED <<submitCh, requeueCh, workCh, ready, blocked>>
  BY DEF ReserveDenied, ReserveError, ReserveBackendError, channels, queues, Refused
<1>7. InHands(worker', j, x)
  BY <1>5, <1>6 DEF Held
<1>8. PICK v \in Busy(worker', j) : worker'[v].lease = x
  BY <1>7 DEF InHands
<1>9. worker \in [Worker -> WorkerState]
  BY DEF Typed, GoroutinesTyped
<1>10. v = w
  BY <1>2, <1>8, <1>9 DEF Busy
<1> QED
  BY <1>8, <1>9, <1>10

LEMMA SubmitHolds ==
  ASSUME Typed, NEW k \in Job, SubmitAccepted(k), NEW j \in Job, NEW x, Held(j, x)'
  PROVE  Held(j, x) \/ (j = k /\ x = NoLease)
<1> DEFINE item == [job |-> k, lease |-> NoLease]
<1>1. submitCh' = Append(submitCh, item) /\ item \in Item /\ item.job = k /\ item.lease = NoLease
  BY DEF SubmitAccepted, Item
<1> HIDE DEF item
<1>2. Carries(submitCh', j, x) => Carries(submitCh, j, x) \/ (item.job = j /\ item.lease = x)
  BY <1>1, CarriesAppend DEF Typed, ChannelsTyped
<1> QED
  BY <1>1, <1>2 DEF Held, SubmitAccepted, queues

-----------------------------------------------------------------------------
(* There is always an id for the next lease.                               *)

LEMMA KeepSpare ==
  ASSUME Spare, NothingNew, submitted \subseteq submitted',
         \A j \in Job : granted'[j] \subseteq granted[j]
  PROVE  Spare'
BY DEF Spare, NothingNew

LEMMA WorkSpare ==
  ASSUME Typed, Conserved, Spare, NEW w \in Worker, Work(w)
  PROVE  Spare'
<1>1. granted \in [Job -> SUBSET LeaseId] /\ worker \in [Worker -> WorkerState]
  BY DEF Typed, GoroutinesTyped, HistoryTyped
<1>2. submitted' = submitted
  BY DEF Work, Answered, Take, ReserveAllowed, ReserveDenied, ReserveError, ReserveBackendError,
         Requeue, RequeueDropped, Execute, Complete, Exit, leases, Refused
<1>3. CASE Requeue(w) \/ RequeueDropped(w) \/ Execute(w) \/ Complete(w) \/ Exit(w)
  <2>1. \A j \in Job : granted'[j] \subseteq granted[j]
    BY <1>1, <1>3 DEF Requeue, RequeueDropped, Execute, Complete, Exit, leases
  <2> QED
    BY <1>2, <1>3, <2>1, WorkerHandsOn, KeepSpare
<1>4. CASE Take(w)
  <2>1. PICK y \in LeaseId :
              /\ worker' = [worker EXCEPT ![w] =
                              [pc |-> "reserve", job |-> Head(workCh).job, lease |-> y]]
              /\ \/ y = Head(workCh).lease
                 \/ Head(workCh).lease = NoLease /\ granted[Head(workCh).job] = {}
    BY <1>4, TakeIs
  <2>2. Carries(workCh, Head(workCh).job, Head(workCh).lease)
    BY <1>4, CarriesTail DEF Take, Typed, ChannelsTyped
  <2>3. Held(Head(workCh).job, Head(workCh).lease)
    BY <2>2 DEF Held
  <2>4. ASSUME NEW j \in Job, NEW x, Held(j, x)'
        PROVE  Held(j, x) \/ (Head(workCh).job = j /\ y = x)
    <3> DEFINE r == [pc |-> "reserve", job |-> Head(workCh).job, lease |-> y]
    <3>1. worker' = [worker EXCEPT ![w] = r] /\ r.job = Head(workCh).job /\ r.lease = y
      BY <2>1
    <3> HIDE DEF r
    <3>2. Held(j, x) \/ (r.job = j /\ r.lease = x)
      BY <1>4, <2>4, <3>1, TakeHolds
    <3> QED
      BY <3>1, <3>2
  <2>5. granted' = granted
    BY <1>4 DEF Take, leases
  <2>6. ASSUME NEW j \in Job
        PROVE  Held(j, NoLease)' \/ j \notin submitted' => granted'[j] = {}
    BY <1>2, <2>4, <2>5, <2>6, SchedulerAssumption DEF Spare
  <2>7. ASSUME NEW j \in Job, NEW x \in LeaseId, Held(j, x)'
        PROVE  \E n \in LeaseId : n # x /\ n \notin granted'[j]
    <3>1. CASE Held(j, x)
      BY <2>5, <2>7, <3>1 DEF Spare
    <3>2. CASE ~Held(j, x)
      <4>1. Head(workCh).job = j /\ y = x /\ granted[j] = {}
        BY <2>1, <2>3, <2>4, <2>7, <3>2
      <4> QED
        BY <2>5, <4>1, SchedulerAssumption
    <3> QED
      BY <3>1, <3>2
  <2> QED
    BY <2>6, <2>7 DEF Spare
<1>5. CASE Answered(w)
  <2>1. PICK j \in Job, y \in LeaseId : j = worker[w].job /\ y = worker[w].lease
    BY <1>5, WorkerIs DEF Answered, ReserveAllowed, ReserveDenied, ReserveError, ReserveBackendError, Typed
  <2>2. worker[w].pc = "reserve"
    BY <1>5 DEF Answered, ReserveAllowed, ReserveDenied, ReserveError, ReserveBackendError
  <2>3. j \in submitted /\ Held(j, y)
    BY <2>1, <2>2, OnlyHand, WorkerHolds DEF Typed
  <2>4. \A x : Held(j, x) => x = y
    BY <2>1, <2>2, OnlyCopy
  <2>5. granted' \in {granted, [granted EXCEPT ![j] = @ \cup {y}]}
    BY <1>5, <2>1, RetryIs DEF Answered, ReserveAllowed
  <2>6. \A k \in Job : granted'[k] \subseteq granted[k] \cup {y} /\ (k # j => granted'[k] = granted[k])
    BY <1>1, <2>5
  <2>7. /\ \A k \in Job, x \in LeaseId \cup {NoLease} : Held(k, x)' /\ k # j => Held(k, x)
        /\ ~Held(j, NoLease)'
        /\ \A x \in LeaseId : Held(j, x)' => \E n \in LeaseId : n # x /\ n \notin granted'[j]
    <3>1. ~Held(j, NoLease)
      BY <2>4, SchedulerAssumption
    <3>2. \A x \in LeaseId : Held(j, x) => \E n \in LeaseId : n # x /\ n \notin granted'[j]
      <4>1. \E n \in LeaseId : n # y /\ n \notin granted[j]
        BY <2>3 DEF Spare
      <4> QED
        BY <2>4, <2>6, <4>1
    <3>3. CASE ReserveAllowed(w)
      <4>1. NothingNew
        BY <3>3, WorkerHandsOn
      <4> QED
        BY <3>1, <3>2, <4>1 DEF NothingNew
    <3>4. CASE ReserveDenied(w) \/ ReserveError(w) \/ ReserveBackendError(w)
      <4>0. PICK z \in LeaseId, d \in Nat : Retried(w, z, d)
        BY <3>4, RetryIs
      <4>1. /\ worker' = [worker EXCEPT ![w] =
                 [pc |-> "requeue", job |-> worker[w].job, lease |-> z, delay |-> d]]
            /\ \E n \in LeaseId : n # z /\ n \notin granted'[worker[w].job]
        BY <4>0 DEF Retried
      <4>2. ASSUME NEW k \in Job, NEW x, Held(k, x)'
            PROVE  Held(k, x) \/ (k = j /\ x = z)
        <5> DEFINE r == [pc |-> "requeue", job |-> worker[w].job, lease |-> z, delay |-> d]
        <5>1. worker' = [worker EXCEPT ![w] = r] /\ r.job = j /\ r.lease = z
          BY <2>1, <4>1
        <5> HIDE DEF r
        <5>2. Held(k, x) \/ (r.job = k /\ r.lease = x)
          BY <3>4, <4>2, <5>1, RetryHolds
        <5> QED
          BY <5>1, <5>2
      <4>3. \E n \in LeaseId : n # z /\ n \notin granted'[j]
        BY <2>1, <4>1
      <4> QED
        BY <3>1, <3>2, <4>2, <4>3, SchedulerAssumption
    <3> QED
      BY <1>5, <3>3, <3>4 DEF Answered
  <2>8. ASSUME NEW k \in Job
        PROVE  /\ Held(k, NoLease)' \/ k \notin submitted' => granted'[k] = {}
               /\ \A x \in LeaseId : Held(k, x)' => \E n \in LeaseId : n # x /\ n \notin granted'[k]
    <3>1. CASE k = j
      BY <1>2, <2>3, <2>7, <3>1
    <3>2. CASE k # j
      BY <1>2, <2>6, <2>7, <2>8, <3>2 DEF Spare
    <3> QED
      BY <3>1, <3>2
  <2> QED
    BY <2>8 DEF Spare
<1> QED
  BY <1>3, <1>4, <1>5 DEF Work

LEMMA NextSpare == Typed /\ Conserved /\ Spare /\ [Next]_vars => Spare'
<1> SUFFICES ASSUME Typed, Conserved, Spare, [Next]_vars
             PROVE  Spare'
  OBVIOUS
<1>1. CASE \/ Shutdown \/ Arm \/ TimerFires \/ Stop \/ UNCHANGED vars
           \/ (\E k \in Job : SubmitRefused(k))
           \/ Promote \/ Dispatch \/ ReceiveSubmit \/ ReceiveRequeue \/ Tick
  <2>1. NothingNew
    BY <1>1, QuietHolds, PromoteHolds, DispatchHolds, ReceiveSubmitHolds, ReceiveRequeueHolds, TickHolds
  <2>2. submitted \subseteq submitted' /\ granted' = granted
    BY <1>1 DEF Shutdown, Arm, TimerFires, Stop, SubmitRefused, Promote, Dispatch, ReceiveSubmit,
                ReceiveRequeue, Tick, vars, leases
  <2> QED
    BY <2>1, <2>2, KeepSpare
<1>2. ASSUME NEW k \in Job, SubmitAccepted(k)
      PROVE  Spare'
  <2>1. k \notin submitted /\ submitted' = submitted \cup {k} /\ granted' = granted
    BY <1>2 DEF SubmitAccepted, leases
  <2>2. \A j \in Job, x \in LeaseId \cup {NoLease} : Held(j, x)' => Held(j, x) \/ (j = k /\ x = NoLease)
    BY <1>2, SubmitHolds
  <2> QED
    BY <2>1, <2>2, SchedulerAssumption DEF Spare
<1>3. ASSUME NEW w \in Worker, Work(w)
      PROVE  Spare'
  BY <1>3, WorkSpare
<1> QED
  BY <1>1, <1>2, <1>3 DEF Next, Loop

-----------------------------------------------------------------------------
(* The invariant, and the first theorem.                                   *)

JobsInv == Typed /\ Conserved /\ Spare

LEMMA InitJobs == Init => JobsInv
<1> SUFFICES ASSUME Init
             PROVE  JobsInv
  OBVIOUS
<1>1. Typed
  BY InitTyped
<1>2. ASSUME NEW j \in Job
      PROVE  Copies(j) = 0 /\ \A x : ~Held(j, x)
  <2>1. QueueOf[j] \in Queue
    BY SchedulerAssumption
  <2>2. /\ submitCh = <<>> /\ requeueCh = <<>> /\ workCh = <<>> /\ ready[QueueOf[j]] = <<>>
        /\ blocked[QueueOf[j]] = <<>> /\ finished = {} /\ worker = [w \in Worker |-> Idle]
    BY <2>1 DEF Init
  <2>3. Busy(worker, j) = {}
    BY <2>2 DEF Busy, Idle
  <2>4. CountIn(<<>>, j) = 0 /\ Cardinality({}) = 0
    BY CountEmpty, FS_EmptySet
  <2>5. Places(j, 0, 0, 0, 0, 0, 0, 0)
    BY <2>2, <2>3, <2>4 DEF Places, Done
  <2>6. Copies(j) = 0 + 0 + 0 + 0 + 0 + 0 + 0
    BY <2>5, PlacesAre
  <2>7. \A x : ~Carries(<<>>, j, x) /\ ~InHands(worker, j, x)
    BY <2>3 DEF Carries, InHands
  <2> QED
    BY <2>2, <2>6, <2>7 DEF Held
<1>3. Conserved
  BY <1>2 DEF Conserved, Init
<1>4. Spare
  BY <1>2 DEF Spare, Init
<1> QED
  BY <1>1, <1>3, <1>4 DEF JobsInv

LEMMA NextJobs == JobsInv /\ [Next]_vars => JobsInv'
BY NextTyped, NextConserved, NextSpare DEF JobsInv

\* Whatever the limiter answers and however often, with any number of jobs,
\* workers and queues, a submitted job is in exactly one place until it has
\* finished or the shutdown has dropped it: the worker pool executes it at most
\* once.  The channels never hold more than their buffers, the blocked lists
\* stay sorted and the round robin finds every queue with work.
THEOREM NoJobLost == Spec => []JobsConserved
<1>1. JobsInv => JobsConserved
  BY TypedIsType DEF JobsInv, Conserved, JobsConserved
<1> QED
  BY <1>1, InitJobs, NextJobs, PTL DEF Spec

-----------------------------------------------------------------------------
(* One lease at a time.                                                    *)

\* Beside the leases it was refused, the limiter holds for a job at most the one
\* that its copy carries, and that one while the job executes.
Leases ==
  /\ \A j \in Job :
       /\ refused[j] \subseteq granted[j]
       /\ \A x \in LeaseId : Held(j, x) => granted[j] \ refused[j] \subseteq {x} /\ x \notin refused[j]
       /\ \A x, y \in granted[j] \ refused[j] : x = y
  /\ \A w \in Worker : worker[w].pc \in {"execute", "complete"} =>
       worker[w].lease \in granted[worker[w].job] \ refused[worker[w].job]

LEMMA LeasesAreOne ==
  ASSUME Typed, Leases
  PROVE  LeaseDiscipline
<1>1. ASSUME NEW j \in Job
      PROVE  Cardinality(granted[j] \ refused[j]) <= 1
  <2> DEFINE open == granted[j] \ refused[j]
  <2>1. \A x, y \in open : x = y
    BY DEF Leases
  <2> HIDE DEF open
  <2>2. CASE open = {}
    <3>1. Cardinality(open) = 0
      BY <2>2, FS_EmptySet
    <3> QED
      BY <3>1 DEF open
  <2>3. CASE open # {}
    <3>1. PICK x \in open : TRUE
      BY <2>3
    <3>2. open = {x}
      BY <2>1, <3>1
    <3>3. Cardinality(open) = 1
      BY <3>2, FS_Singleton
    <3> QED
      BY <3>3 DEF open
  <2> QED
    BY <2>2, <2>3
<1> QED
  BY <1>1 DEF Leases, LeaseDiscipline

LEMMA KeepLeases ==
  ASSUME Leases, NothingNew, granted' = granted, refused' = refused,
         \A w \in Worker : worker'[w].pc \in {"execute", "complete"} =>
           /\ worker[w].pc \in {"execute", "complete"}
           /\ worker'[w].job = worker[w].job /\ worker'[w].lease = worker[w].lease
  PROVE  Leases'
<1>1. ASSUME NEW j \in Job, NEW x \in LeaseId, Held(j, x)'
      PROVE  granted'[j] \ refused'[j] \subseteq {x} /\ x \notin refused'[j]
  BY <1>1 DEF Leases, NothingNew
<1> QED
  BY <1>1 DEF Leases

LEMMA WorkLeases ==
  ASSUME Typed, Conserved, Spare, Leases, NEW w \in Worker, Work(w)
  PROVE  Leases'
<1>1. /\ granted \in [Job -> SUBSET LeaseId] /\ refused \in [Job -> SUBSET LeaseId]
      /\ worker \in [Worker -> WorkerState] /\ GoroutinesTyped
  BY DEF Typed, GoroutinesTyped, HistoryTyped
<1>2. CASE Requeue(w) \/ RequeueDropped(w) \/ Execute(w) \/ Exit(w)
  <2>1. granted' = granted /\ refused' = refused
    BY <1>2 DEF Requeue, RequeueDropped, Execute, Exit, leases
  <2>2. \A v \in Worker : v # w => worker'[v] = worker[v]
    BY <1>1, <1>2 DEF Requeue, RequeueDropped, Execute, Exit
  <2>3. worker'[w].pc \in {"execute", "complete"} =>
          /\ worker[w].pc \in {"execute", "complete"}
          /\ worker'[w].job = worker[w].job /\ worker'[w].lease = worker[w].lease
    <3>1. CASE Execute(w)
      BY <1>1, <3>1 DEF Execute
    <3>2. CASE Requeue(w) \/ RequeueDropped(w) \/ Exit(w)
      BY <1>1, <3>2 DEF Requeue, RequeueDropped, Exit, Idle
    <3> QED
      BY <1>2, <3>1, <3>2
  <2>4. NothingNew
    BY <1>2, WorkerHandsOn
  <2> QED
    BY <2>1, <2>2, <2>3, <2>4, KeepLeases
<1>3. CASE Take(w)
  <2>1. PICK y \in LeaseId :
              /\ worker' = [worker EXCEPT ![w] =
                              [pc |-> "reserve", job |-> Head(workCh).job, lease |-> y]]
              /\ \/ y = Head(workCh).lease
                 \/ Head(workCh).lease = NoLease /\ granted[Head(workCh).job] = {}
    BY <1>3, TakeIs
  <2>2. Held(Head(workCh).job, Head(workCh).lease)
    <3>1. Carries(workCh, Head(workCh).job, Head(workCh).lease)
      BY <1>3, CarriesTail DEF Take, Typed, ChannelsTyped
    <3> QED
      BY <3>1 DEF Held
  <2>3. granted' = granted /\ refused' = refused
    BY <1>3 DEF Take, leases
  <2>4. ASSUME NEW j \in Job, NEW x \in LeaseId, Held(j, x)'
        PROVE  granted'[j] \ refused'[j] \subseteq {x} /\ x \notin refused'[j]
    <3> DEFINE r == [pc |-> "reserve", job |-> Head(workCh).job, lease |-> y]
    <3>1. worker' = [worker EXCEPT ![w] = r] /\ r.job = Head(workCh).job /\ r.lease = y
      BY <2>1
    <3> HIDE DEF r
    <3>2. Held(j, x) \/ (r.job = j /\ r.lease = x)
      BY <1>3, <2>4, <3>1, TakeHolds
    <3>3. CASE Held(j, x)
      BY <2>3, <2>4, <3>3 DEF Leases
    <3>4. CASE ~Held(j, x)
      <4>1. granted[j] = {}
        BY <2>1, <2>2, <3>1, <3>2, <3>4
      <4> QED
        BY <2>3, <4>1 DEF Leases
    <3> QED
      BY <3>3, <3>4
  <2>5. \A v \in Worker : worker'[v].pc \in {"execute", "complete"} => v # w
    BY <1>1, <2>1
  <2>6. \A v \in Worker : v # w => worker'[v] = worker[v]
    BY <1>1, <2>1
  <2> QED
    BY <2>3, <2>4, <2>5, <2>6 DEF Leases
<1>4. CASE Answered(w) \/ Complete(w)
  <2>1. PICK j \in Job, y \in LeaseId : j = worker[w].job /\ y = worker[w].lease
    BY <1>4, WorkerIs DEF Answered, ReserveAllowed, ReserveDenied, ReserveError, ReserveBackendError,
                          Complete, Typed
  <2>2. worker[w].pc \in {"reserve", "complete"}
    BY <1>4 DEF Answered, ReserveAllowed, ReserveDenied, ReserveError, ReserveBackendError, Complete
  <2>3. Held(j, y) /\ Busy(worker, j) = {w}
    BY <2>1, <2>2, OnlyHand, WorkerHolds DEF Typed
  <2>4. \A x : Held(j, x) => x = y
    BY <2>1, <2>2, OnlyCopy
  <2>5. granted[j] \ refused[j] \subseteq {y} /\ y \notin refused[j] /\ refused[j] \subseteq granted[j]
    BY <2>3 DEF Leases
  <2>6. granted' \in {granted, [granted EXCEPT ![j] = @ \cup {y}], [granted EXCEPT ![j] = @ \ {y}]}
    BY <1>4, <2>1, RetryIs DEF Answered, ReserveAllowed, Complete
  <2>7. /\ granted'[j] \ refused[j] \subseteq {y} /\ refused[j] \subseteq granted'[j]
        /\ \A k \in Job : k # j => granted'[k] = granted[k]
    BY <1>1, <2>5, <2>6
  <2>8. ASSUME NEW v \in Worker, v # w
        PROVE  worker'[v] = worker[v] /\ (worker[v].pc \notin {"idle", "gone"} => worker[v].job # j)
    <3>1. worker'[v] = worker[v]
      BY <1>1, <1>4, <2>8 DEF Answered, ReserveAllowed, ReserveDenied, ReserveError,
                              ReserveBackendError, Complete, Refused
    <3>2. worker[v].pc \notin {"idle", "gone"} => worker[v].job # j
      BY <2>3, <2>8 DEF Busy
    <3> QED
      BY <3>1, <3>2
  <2>12. \A k \in Job : k # j => refused'[k] = refused[k]
    <3>1. CASE ReserveAllowed(w) \/ Complete(w)
      BY <3>1 DEF ReserveAllowed, Complete
    <3>2. CASE ReserveDenied(w) \/ ReserveError(w) \/ ReserveBackendError(w)
      <4>1. PICK z \in LeaseId, d \in Nat : Retried(w, z, d)
        BY <3>2, RetryIs
      <4> QED
        BY <1>1, <2>1, <4>1 DEF Retried
    <3> QED
      BY <1>4, <3>1, <3>2 DEF Answered
  <2>9. ASSUME NEW v \in Worker, v # w, worker'[v].pc \in {"execute", "complete"}
        PROVE  worker'[v].lease \in granted'[worker'[v].job] \ refused'[worker'[v].job]
    <3>1. /\ worker[v].job \in Job /\ worker[v].job # j
          /\ worker[v].lease \in granted[worker[v].job] \ refused[worker[v].job]
      BY <1>1, <2>8, <2>9, WorkerIs DEF Leases
    <3> QED
      BY <2>7, <2>12, <2>8, <2>9, <3>1
  <2>10. /\ worker'[w].pc \in {"execute", "complete"} =>
              worker'[w].lease \in granted'[worker'[w].job] \ refused'[worker'[w].job]
         /\ \A k \in Job, x \in LeaseId : Held(k, x)' /\ k # j => Held(k, x)
         /\ refused[j] \subseteq refused'[j] /\ refused'[j] \subseteq granted'[j]
         /\ \A x \in LeaseId : Held(j, x)' =>
              granted'[j] \ refused'[j] \subseteq {x} /\ x \notin refused'[j]
    <3>1. CASE ReserveAllowed(w)
      <4>1. NothingNew
        BY <3>1, WorkerHandsOn
      <4>2. /\ granted'[j] = granted[j] \cup {y} /\ worker'[w].job = j /\ worker'[w].lease = y
            /\ refused' = refused
        BY <1>1, <2>1, <3>1 DEF ReserveAllowed
      <4> QED
        BY <2>4, <2>5, <2>7, <4>1, <4>2 DEF NothingNew
    <3>2. CASE Complete(w)
      <4>1. NothingNew
        BY <3>2, WorkerHandsOn
      <4>2. worker'[w].pc = "idle" /\ refused' = refused
        BY <1>1, <3>2 DEF Complete, Idle
      <4> QED
        BY <2>4, <2>5, <2>7, <4>1, <4>2 DEF NothingNew
    <3>3. CASE ReserveDenied(w) \/ ReserveError(w) \/ ReserveBackendError(w)
      <4>0. PICK z \in LeaseId, d \in Nat : Retried(w, z, d)
        BY <3>3, RetryIs
      <4>1. /\ worker' = [worker EXCEPT ![w] =
                 [pc |-> "requeue", job |-> j, lease |-> z, delay |-> d]]
            /\ \/ z = y /\ refused' = refused
               \/ /\ z \notin granted'[j]
                  /\ refused' = [refused EXCEPT ![j] = IF y \in granted'[j] THEN @ \cup {y} ELSE @]
        BY <2>1, <4>0 DEF Retried
      <4>2. ASSUME NEW k \in Job, NEW x, Held(k, x)'
            PROVE  Held(k, x) \/ (k = j /\ x = z)
        <5> DEFINE r == [pc |-> "requeue", job |-> j, lease |-> z, delay |-> d]
        <5>1. worker' = [worker EXCEPT ![w] = r] /\ r.job = j /\ r.lease = z
          BY <4>1
        <5> HIDE DEF r
        <5>2. Held(k, x) \/ (r.job = k /\ r.lease = x)
          BY <3>3, <4>2, <5>1, RetryHolds
        <5> QED
          BY <5>1, <5>2
      <4>3. /\ granted'[j] \ refused'[j] \subseteq {z} /\ z \notin refused'[j]
            /\ refused[j] \subseteq refused'[j] /\ refused'[j] \subseteq granted'[j]
        <5>1. CASE z = y /\ refused' = refused
          BY <2>5, <2>7, <5>1
        <5>2. CASE /\ z \notin granted'[j]
                   /\ refused' = [refused EXCEPT ![j] = IF y \in granted'[j] THEN @ \cup {y} ELSE @]
          <6>1. refused'[j] = IF y \in granted'[j] THEN refused[j] \cup {y} ELSE refused[j]
            BY <1>1, <5>2
          <6> QED
            BY <2>5, <2>7, <5>2, <6>1
        <5> QED
          BY <4>1, <5>1, <5>2
      <4>4. worker'[w].pc = "requeue"
        BY <1>1, <4>1
      <4>5. ASSUME NEW x \in LeaseId, Held(j, x)'
            PROVE  granted'[j] \ refused'[j] \subseteq {x} /\ x \notin refused'[j]
        <5> DEFINE r == [pc |-> "requeue", job |-> j, lease |-> z, delay |-> d]
        <5>1. worker' = [worker EXCEPT ![w] = r] /\ r.lease = z
          BY <4>1
        <5> HIDE DEF r
        <5>2. x = z
          BY <2>1, <3>3, <4>5, <5>1, RetryOnly
        <5> QED
          BY <4>3, <5>2
      <4> QED
        BY <4>2, <4>3, <4>4, <4>5
    <3> QED
      BY <1>4, <3>1, <3>2, <3>3 DEF Answered
  <2>11. ASSUME NEW k \in Job
         PROVE  /\ refused'[k] \subseteq granted'[k]
                /\ \A x \in LeaseId : Held(k, x)' =>
                     granted'[k] \ refused'[k] \subseteq {x} /\ x \notin refused'[k]
                /\ \A x, z \in granted'[k] \ refused'[k] : x = z
    <3>1. CASE k = j
      BY <2>7, <2>10, <3>1
    <3>2. CASE k # j
      BY <2>7, <2>10, <2>11, <2>12, <3>2 DEF Leases
    <3> QED
      BY <3>1, <3>2
  <2> QED
    BY <2>9, <2>10, <2>11 DEF Leases
<1> QED
  BY <1>2, <1>3, <1>4 DEF Work

LEMMA NextLeases == JobsInv /\ Leases /\ [Next]_vars => Leases'
<1> SUFFICES ASSUME Typed, Conserved, Spare, Leases, [Next]_vars
             PROVE  Leases'
  BY DEF JobsInv
<1>1. CASE \/ Shutdown \/ Arm \/ TimerFires \/ Stop \/ UNCHANGED vars
           \/ (\E k \in Job : SubmitRefused(k))
           \/ Promote \/ Dispatch \/ ReceiveSubmit \/ ReceiveRequeue
  <2>1. NothingNew
    BY <1>1, QuietHolds, PromoteHolds, DispatchHolds, ReceiveSubmitHolds, ReceiveRequeueHolds
  <2>2. worker' = worker /\ granted' = granted /\ refused' = refused
    BY <1>1 DEF Shutdown, Arm, TimerFires, Stop, SubmitRefused, Promote, Dispatch, ReceiveSubmit,
                ReceiveRequeue, vars, leases
  <2> QED
    BY <2>1, <2>2, KeepLeases
<1>2. CASE Tick
  <2>1. NothingNew
    BY <1>2, TickHolds
  <2>2. granted' = granted /\ refused' = refused
    BY <1>2 DEF Tick, leases
  <2>3. ASSUME NEW w \in Worker, worker'[w].pc \in {"execute", "complete"}
        PROVE  /\ worker[w].pc \in {"execute", "complete"}
               /\ worker'[w].job = worker[w].job /\ worker'[w].lease = worker[w].lease
    BY <1>2, <2>3, TickWorker
  <2> QED
    BY <2>1, <2>2, <2>3, KeepLeases
<1>3. ASSUME NEW k \in Job, SubmitAccepted(k)
      PROVE  Leases'
  <2>1. granted' = granted /\ refused' = refused /\ worker' = worker
    BY <1>3 DEF SubmitAccepted, leases
  <2>2. \A j \in Job, x \in LeaseId \cup {NoLease} : Held(j, x)' => Held(j, x) \/ (j = k /\ x = NoLease)
    BY <1>3, SubmitHolds
  <2>3. \A j \in Job, x \in LeaseId : Held(j, x)' => Held(j, x)
    BY <2>2, SchedulerAssumption
  <2> QED
    BY <2>1, <2>3 DEF Leases
<1>4. ASSUME NEW w \in Worker, Work(w)
      PROVE  Leases'
  BY <1>4, WorkLeases
<1> QED
  BY <1>1, <1>2, <1>3, <1>4 DEF Next, Loop

\* Whichever answers are lost, however often the job is denied and whatever
\* limit turns decreasing between its attempts: beside the leases that the job
\* was itself answered Allowed = false for, the limiter holds one for it at
\* most, and it executes only under that one.
THEOREM OneLease == Spec => []LeaseDiscipline
<1>1. Init => Leases
  <2> SUFFICES ASSUME Init
               PROVE  Leases
    OBVIOUS
  <2>1. \A j \in Job : granted[j] = {} /\ refused[j] = {}
    BY DEF Init
  <2>2. \A w \in Worker : worker[w].pc = "idle"
    BY DEF Init, Idle
  <2> QED
    BY <2>1, <2>2 DEF Leases
<1>2. JobsInv /\ Leases /\ [Next]_vars => Leases'
  BY NextLeases
<1>3. JobsInv /\ Leases => LeaseDiscipline
  BY LeasesAreOne DEF JobsInv
<1> QED
  BY <1>1, <1>2, <1>3, InitJobs, NextJobs, PTL DEF Spec
=============================================================================
