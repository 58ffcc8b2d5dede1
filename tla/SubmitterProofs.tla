--------------------------- MODULE SubmitterProofs ---------------------------
(***************************************************************************)
(* Proofs about the TigerBeetle submitter and its client pool, for any     *)
(* callers, item sizes, batch size, pool, and any failures of the ledger:  *)
(* a caller is told of its own transfers, no item and no client is lost,   *)
(* and the ledger executes items in the order they were sent.              *)
(***************************************************************************)
EXTENDS Submitter, PickingProofs, FiniteSetTheorems, TLAPS

-----------------------------------------------------------------------------
(* The cursor of flush: its definition is recursive, so that it defines a  *)
(* function, and what that function is, are shown from the least index for *)
(* which they would fail.                                                  *)

CursorStep(s, F, i) == IF i = 0 THEN 0 ELSE F[i - 1] + Size[s[i]]
Moves(s, n) == \E F : F = [i \in 0 .. n |-> CursorStep(s, F, i)]

LEMMA MovesMore ==
  ASSUME NEW s, NEW n \in Nat, Moves(s, n)
  PROVE  Moves(s, n + 1)
<1>1. PICK F : F = [m \in 0 .. n |-> CursorStep(s, F, m)]
  BY DEF Moves
<1> DEFINE G == [m \in 0 .. n + 1 |-> IF m = n + 1 THEN CursorStep(s, F, n + 1) ELSE F[m]]
<1>2. ASSUME NEW m \in 0 .. n + 1
      PROVE  G[m] = CursorStep(s, G, m)
  <2>1. CASE m = n + 1
    <3>1. G[m] = CursorStep(s, F, n + 1)
      BY <2>1
    <3>2. n \in 0 .. n + 1 /\ n # n + 1 /\ G[n] = F[n] /\ (n + 1) - 1 = n /\ n + 1 # 0
      OBVIOUS
    <3> HIDE DEF G
    <3> QED
      BY <2>1, <3>1, <3>2 DEF CursorStep
  <2>2. CASE m # n + 1
    <3>1. m \in 0 .. n /\ G[m] = F[m]
      BY <2>2
    <3>2. F[m] = CursorStep(s, F, m)
      BY <1>1, <3>1
    <3>3. m # 0 => m - 1 \in 0 .. n + 1 /\ m - 1 # n + 1
      BY <3>1
    <3>4. m # 0 => G[m - 1] = F[m - 1]
      BY <3>3
    <3> HIDE DEF G
    <3> QED
      BY <3>1, <3>2, <3>4 DEF CursorStep
  <2> QED
    BY <2>1, <2>2
<1>3. DOMAIN G = 0 .. n + 1 /\ G = [m \in DOMAIN G |-> G[m]]
  OBVIOUS
<1> HIDE DEF G
<1>4. G = [m \in 0 .. n + 1 |-> CursorStep(s, G, m)]
  BY <1>2, <1>3
<1> QED
  BY <1>4 DEF Moves

LEMMA AlwaysMoves ==
  ASSUME NEW s, NEW n \in Nat
  PROVE  Moves(s, n)
<1> DEFINE T == {m \in Nat : ~Moves(s, m)}
<1> SUFFICES ASSUME T # {} PROVE FALSE
  OBVIOUS
<1>1. PICK m \in T : \A y \in T : m <= y
  BY Least
<1>2. m # 0
  <2> DEFINE F == [k \in 0 .. 0 |-> 0]
  <2>1. F = [k \in 0 .. 0 |-> CursorStep(s, F, k)]
    BY DEF CursorStep
  <2>2. Moves(s, 0)
    <3> HIDE DEF F
    <3> QED
      BY <2>1 DEF Moves
  <2> QED
    BY <2>2
<1>3. m - 1 \in Nat /\ m - 1 \notin T /\ (m - 1) + 1 = m
  BY <1>1, <1>2
<1>4. Moves(s, m)
  BY <1>3, MovesMore
<1> QED
  BY <1>1, <1>4

\* The cursor starts at zero and moves by the size of each item.
Cursors(s, F) ==
  /\ F \in [0 .. Len(s) -> Nat] /\ F[0] = 0
  /\ \A i \in 1 .. Len(s) : F[i] = F[i - 1] + Size[s[i]]

LEMMA CursorIs ==
  ASSUME NEW s \in Seq(Caller)
  PROVE  Cursors(s, Cursor(s))
<1> DEFINE F == Cursor(s)
<1>1. Len(s) \in Nat /\ \A i \in 1 .. Len(s) : s[i] \in Caller
  OBVIOUS
<1>2. \A c \in Caller : Size[c] \in Nat
  BY ConstantsAssumption
<1>3. F = [i \in 0 .. Len(s) |-> CursorStep(s, F, i)]
  <2>1. Moves(s, Len(s))
    BY <1>1, AlwaysMoves
  <2> QED
    BY <2>1 DEF Moves, Cursor, CursorStep
<1> HIDE DEF F
<1>4. F[0] = 0
  BY <1>1, <1>3 DEF CursorStep
<1>5. \A i \in 1 .. Len(s) : F[i] = F[i - 1] + Size[s[i]]
  <2> SUFFICES ASSUME NEW i \in 1 .. Len(s) PROVE F[i] = F[i - 1] + Size[s[i]]
    OBVIOUS
  <2>1. i \in 0 .. Len(s) /\ i # 0
    BY <1>1
  <2>2. F[i] = CursorStep(s, F, i)
    BY <1>3, <2>1
  <2> QED
    BY <2>1, <2>2 DEF CursorStep
<1>6. \A i \in 0 .. Len(s) : F[i] \in Nat
  <2> DEFINE T == {i \in 0 .. Len(s) : F[i] \notin Nat}
  <2> SUFFICES ASSUME T # {} PROVE FALSE
    OBVIOUS
  <2>1. T \subseteq Nat
    BY <1>1
  <2>2. PICK m \in T : \A y \in T : m <= y
    BY <2>1, Least
  <2>3. m # 0
    BY <1>4, <2>2
  <2>4. m - 1 \in 0 .. Len(s) /\ m - 1 \notin T /\ m \in 1 .. Len(s)
    BY <1>1, <2>2, <2>3
  <2>5. F[m - 1] \in Nat /\ Size[s[m]] \in Nat /\ F[m] = F[m - 1] + Size[s[m]]
    BY <1>1, <1>2, <1>5, <2>4
  <2>6. F[m] \in Nat
    BY <2>5
  <2> QED
    BY <2>2, <2>6
<1>7. DOMAIN F = 0 .. Len(s) /\ F = [i \in DOMAIN F |-> F[i]]
  BY <1>3
<1>8. F \in [0 .. Len(s) -> Nat]
  BY <1>6, <1>7
<1> QED
  BY <1>4, <1>5, <1>8 DEF F, Cursors

LEMMA CursorRises ==
  ASSUME NEW s \in Seq(Caller), NEW F, Cursors(s, F),
         NEW i \in 0 .. Len(s), NEW j \in 0 .. Len(s), i <= j
  PROVE  F[i] <= F[j]
<1> DEFINE T == {m \in i .. Len(s) : ~(F[i] <= F[m])}
<1> SUFFICES ASSUME j \in T PROVE FALSE
  OBVIOUS
<1>1. Len(s) \in Nat /\ \A m \in 1 .. Len(s) : Size[s[m]] \in Nat
  BY ConstantsAssumption
<1>2. \A m \in 0 .. Len(s) : F[m] \in Nat
  BY DEF Cursors
<1>3. PICK m \in T : \A y \in T : m <= y
  <2>1. T \subseteq Nat
    BY <1>1
  <2> QED
    BY <2>1, Least
<1>4. m \in i .. Len(s) /\ ~(F[i] <= F[m])
  BY <1>3
<1>5. m # i
  BY <1>2, <1>4
<1>6. m - 1 \in i .. Len(s) /\ m - 1 \in 0 .. Len(s) /\ m \in 1 .. Len(s) /\ m - 1 \notin T
  BY <1>1, <1>3, <1>4, <1>5
<1>7. F[i] <= F[m - 1]
  BY <1>6
<1>8. F[m] = F[m - 1] + Size[s[m]]
  BY <1>6 DEF Cursors
<1>9. F[i] \in Nat /\ F[m - 1] \in Nat /\ Size[s[m]] \in Nat
  BY <1>1, <1>2, <1>6
<1>10. F[i] <= F[m]
  BY <1>7, <1>8, <1>9
<1> QED
  BY <1>4, <1>10

\* Two cursors agree as far as their items do.
LEMMA CursorAgrees ==
  ASSUME NEW s \in Seq(Caller), NEW t \in Seq(Caller), NEW F, Cursors(s, F), NEW G, Cursors(t, G),
         Len(s) <= Len(t), \A i \in 1 .. Len(s) : s[i] = t[i], NEW n \in 0 .. Len(s)
  PROVE  F[n] = G[n]
<1> DEFINE T == {m \in 0 .. Len(s) : F[m] # G[m]}
<1> SUFFICES ASSUME n \in T PROVE FALSE
  OBVIOUS
<1>1. Len(s) \in Nat /\ Len(t) \in Nat
  OBVIOUS
<1>2. PICK m \in T : \A y \in T : m <= y
  <2>1. T \subseteq Nat
    BY <1>1
  <2> QED
    BY <2>1, Least
<1>3. m # 0
  BY <1>2 DEF Cursors
<1>4. m - 1 \in 0 .. Len(s) /\ m - 1 \notin T /\ m \in 1 .. Len(s) /\ m \in 1 .. Len(t)
  BY <1>1, <1>2, <1>3
<1>5. F[m - 1] = G[m - 1] /\ s[m] = t[m]
  BY <1>4
<1>6. F[m] = F[m - 1] + Size[s[m]] /\ G[m] = G[m - 1] + Size[t[m]]
  BY <1>4 DEF Cursors
<1> QED
  BY <1>2, <1>5, <1>6

LEMMA TotalIs ==
  ASSUME NEW s \in Seq(Caller)
  PROVE  TotalTransfers(s) \in Nat
<1>1. Cursors(s, Cursor(s)) /\ Len(s) \in 0 .. Len(s)
  BY CursorIs
<1> QED
  BY <1>1 DEF Cursors, TotalTransfers

LEMMA TotalOfNone == TotalTransfers(<<>>) = 0
<1>1. <<>> \in Seq(Caller) /\ Len(<<>>) = 0
  OBVIOUS
<1>2. Cursors(<<>>, Cursor(<<>>))
  BY <1>1, CursorIs
<1> QED
  BY <1>1, <1>2 DEF Cursors, TotalTransfers

LEMMA TotalOfMore ==
  ASSUME NEW s \in Seq(Caller), NEW x \in Caller
  PROVE  TotalTransfers(Append(s, x)) = TotalTransfers(s) + Size[x]
<1> DEFINE t == Append(s, x)
<1>1. /\ t \in Seq(Caller) /\ Len(s) \in Nat /\ Len(t) = Len(s) + 1 /\ t[Len(s) + 1] = x
      /\ \A i \in 1 .. Len(s) : s[i] = t[i]
  OBVIOUS
<1> HIDE DEF t
<1>2. PICK F, G : F = Cursor(s) /\ G = Cursor(t)
  OBVIOUS
<1>3. Cursors(s, F) /\ Cursors(t, G)
  BY <1>1, <1>2, CursorIs
<1>4. Len(s) \in 0 .. Len(s) /\ Len(s) <= Len(t)
  BY <1>1
<1>5. F[Len(s)] = G[Len(s)]
  BY <1>1, <1>3, <1>4, CursorAgrees
<1>6. Len(s) + 1 \in 1 .. Len(t) /\ (Len(s) + 1) - 1 = Len(s)
  BY <1>1
<1>7. G[Len(s) + 1] = G[Len(s)] + Size[x]
  BY <1>1, <1>3, <1>6 DEF Cursors
<1> QED
  BY <1>1, <1>2, <1>5, <1>7 DEF TotalTransfers, t

\* No place of a batch belongs to two items.
LEMMA SpansDisjoint ==
  ASSUME NEW s \in Seq(Caller), NEW F, Cursors(s, F), NEW i \in DOMAIN s, NEW j \in DOMAIN s,
         NEW p \in 0 .. Size[s[i]] - 1, NEW q \in 0 .. Size[s[j]] - 1,
         F[i - 1] + p = F[j - 1] + q
  PROVE  i = j /\ p = q
<1>1. Len(s) \in Nat /\ i \in 1 .. Len(s) /\ j \in 1 .. Len(s)
  OBVIOUS
<1>2. i - 1 \in 0 .. Len(s) /\ i \in 0 .. Len(s) /\ j - 1 \in 0 .. Len(s) /\ j \in 0 .. Len(s)
  BY <1>1
<1>3. /\ F[i - 1] \in Nat /\ F[j - 1] \in Nat
      /\ F[i] = F[i - 1] + Size[s[i]] /\ F[j] = F[j - 1] + Size[s[j]]
  BY <1>1, <1>2 DEF Cursors
<1>4. Size[s[i]] \in Nat /\ Size[s[j]] \in Nat
  BY ConstantsAssumption
<1>5. PICK a, b, x, y \in Nat :
        a = F[i - 1] /\ b = F[j - 1] /\ x = Size[s[i]] /\ y = Size[s[j]]
  BY <1>3, <1>4
<1>6. F[i] = a + x /\ F[j] = b + y /\ p \in 0 .. x - 1 /\ q \in 0 .. y - 1 /\ a + p = b + q
  BY <1>3, <1>5
<1>7. ~(i < j)
  <2> SUFFICES ASSUME i < j PROVE FALSE
    OBVIOUS
  <2>1. i <= j - 1
    BY <1>1
  <2>2. F[i] <= F[j - 1]
    BY <1>2, <2>1, CursorRises
  <2>3. a + x <= b
    BY <1>5, <1>6, <2>2
  <2> QED
    BY <1>6, <2>3
<1>8. ~(j < i)
  <2> SUFFICES ASSUME j < i PROVE FALSE
    OBVIOUS
  <2>1. j <= i - 1
    BY <1>1
  <2>2. F[j] <= F[i - 1]
    BY <1>2, <2>1, CursorRises
  <2>3. b + y <= a
    BY <1>5, <1>6, <2>2
  <2> QED
    BY <1>6, <2>3
<1>9. i = j
  BY <1>1, <1>7, <1>8
<1>10. a = b
  BY <1>5, <1>9
<1> QED
  BY <1>6, <1>9, <1>10

\* What the ledger reports of a batch, cut at the spans, is the report of each
\* item; and its places are places of the batch.
LEMMA ResultsCut ==
  ASSUME NEW s \in Seq(Caller)
  PROVE  /\ \A j \in DOMAIN s : ItemErrors(s, j, Results(s)) = Refused[s[j]]
         /\ Results(s) \subseteq 0 .. TotalTransfers(s)
<1>1. PICK F : F = Cursor(s) /\ Cursors(s, F)
  BY CursorIs
<1>2. Len(s) \in Nat /\ DOMAIN s = 1 .. Len(s)
  OBVIOUS
<1>3. \A j \in DOMAIN s : s[j] \in Caller /\ Refused[s[j]] \subseteq 0 .. Size[s[j]] - 1
                          /\ Size[s[j]] \in Nat
  BY ConstantsAssumption
<1>4. \A x : x \in Results(s) <=> \E j \in DOMAIN s : \E i \in Refused[s[j]] : x = F[j - 1] + i
  BY <1>1 DEF Results
<1>5. ASSUME NEW j \in DOMAIN s
      PROVE  ItemErrors(s, j, Results(s)) = Refused[s[j]]
  <2>1. ItemErrors(s, j, Results(s)) = {i \in 0 .. Size[s[j]] - 1 : F[j - 1] + i \in Results(s)}
    BY <1>1 DEF ItemErrors, SpanStart
  <2>2. ASSUME NEW i \in 0 .. Size[s[j]] - 1, F[j - 1] + i \in Results(s)
        PROVE  i \in Refused[s[j]]
    <3>0. PICK k \in DOMAIN s : \E q \in Refused[s[k]] : F[j - 1] + i = F[k - 1] + q
      BY <1>4, <2>2
    <3>1. PICK q \in Refused[s[k]] : F[j - 1] + i = F[k - 1] + q
      BY <3>0
    <3>2. q \in 0 .. Size[s[k]] - 1
      BY <1>3
    <3>3. j = k /\ i = q
      BY <1>1, <3>1, <3>2, SpansDisjoint
    <3> QED
      BY <3>1, <3>3
  <2>3. ASSUME NEW i \in Refused[s[j]]
        PROVE  i \in 0 .. Size[s[j]] - 1 /\ F[j - 1] + i \in Results(s)
    BY <1>3, <1>4
  <2> QED
    BY <2>1, <2>2, <2>3
<1>6. ASSUME NEW x \in Results(s)
      PROVE  x \in 0 .. TotalTransfers(s)
  <2>0. PICK j \in DOMAIN s : \E i \in Refused[s[j]] : x = F[j - 1] + i
    BY <1>4
  <2>1. PICK i \in Refused[s[j]] : x = F[j - 1] + i
    BY <2>0
  <2>2. j \in 1 .. Len(s) /\ j \in 0 .. Len(s) /\ j - 1 \in 0 .. Len(s) /\ Len(s) \in 0 .. Len(s)
        /\ j <= Len(s)
    BY <1>2
  <2>3. F[j] <= F[Len(s)]
    BY <1>1, <2>2, CursorRises
  <2>4. F[j] = F[j - 1] + Size[s[j]] /\ F[j - 1] \in Nat /\ F[Len(s)] \in Nat
    BY <1>1, <2>2 DEF Cursors
  <2>5. i \in 0 .. Size[s[j]] - 1 /\ Size[s[j]] \in Nat
    BY <1>3
  <2>6. TotalTransfers(s) = F[Len(s)]
    BY <1>1 DEF TotalTransfers
  <2> QED
    BY <2>1, <2>3, <2>4, <2>5, <2>6
<1> QED
  BY <1>5, <1>6

-----------------------------------------------------------------------------
(* Sequences.                                                              *)

LEMMA AppendIs ==
  ASSUME NEW S, NEW s \in Seq(S), NEW x \in S
  PROVE  /\ Append(s, x) \in Seq(S)
         /\ Len(s) \in Nat /\ DOMAIN s = 1 .. Len(s)
         /\ Len(Append(s, x)) = Len(s) + 1 /\ DOMAIN Append(s, x) = 1 .. Len(s) + 1
         /\ Append(s, x)[Len(s) + 1] = x
         /\ \A i \in 1 .. Len(s) : Append(s, x)[i] = s[i]
         /\ \A i \in 1 .. Len(s) + 1 : i \in 1 .. Len(s) \/ i = Len(s) + 1
OBVIOUS

LEMMA TailIs ==
  ASSUME NEW S, NEW s \in Seq(S), s # <<>>
  PROVE  /\ Head(s) \in S /\ Head(s) = s[1] /\ Len(s) \in Nat \ {0} /\ DOMAIN s = 1 .. Len(s)
         /\ Tail(s) \in Seq(S) /\ Len(Tail(s)) = Len(s) - 1 /\ DOMAIN Tail(s) = 1 .. Len(s) - 1
         /\ \A i \in 1 .. Len(s) - 1 : Tail(s)[i] = s[i + 1]
OBVIOUS

LEMMA ConcatIs ==
  ASSUME NEW S, NEW s \in Seq(S), NEW t \in Seq(S)
  PROVE  /\ s \o t \in Seq(S) /\ Len(s) \in Nat /\ Len(t) \in Nat
         /\ DOMAIN s = 1 .. Len(s) /\ DOMAIN t = 1 .. Len(t)
         /\ DOMAIN (s \o t) = 1 .. Len(s) + Len(t)
         /\ \A i \in 1 .. Len(s) : (s \o t)[i] = s[i]
         /\ \A i \in 1 .. Len(t) : (s \o t)[Len(s) + i] = t[i]
<1>1. Len(s) \in Nat /\ Len(t) \in Nat /\ DOMAIN s = 1 .. Len(s) /\ DOMAIN t = 1 .. Len(t)
  OBVIOUS
<1>2. s \o t \in Seq(S) /\ DOMAIN (s \o t) = 1 .. Len(s) + Len(t)
  OBVIOUS
<1>3. \A i \in 1 .. Len(s) : (s \o t)[i] = s[i]
  OBVIOUS
<1>4. \A i \in 1 .. Len(t) : (s \o t)[Len(s) + i] = t[i]
  OBVIOUS
<1> QED
  BY <1>1, <1>2, <1>3, <1>4

\* The second part of a concatenation, from its own end.
LEMMA ConcatPlace ==
  ASSUME NEW S, NEW s \in Seq(S), NEW t \in Seq(S), NEW i \in DOMAIN (s \o t)
  PROVE  \/ i \in DOMAIN s /\ (s \o t)[i] = s[i]
         \/ i > Len(s) /\ i - Len(s) \in DOMAIN t /\ (s \o t)[i] = t[i - Len(s)]
<1>1. i \in 1 .. Len(s) \/ (i - Len(s) \in 1 .. Len(t) /\ i > Len(s) /\ Len(s) + (i - Len(s)) = i)
  BY ConcatIs
<1> QED
  BY <1>1, ConcatIs

LEMMA ItemsOfNone == Items(<<>>) = {}
BY DEF Items

LEMMA ItemsOfOne ==
  ASSUME NEW x
  PROVE  Items(<<x>>) = {x}
BY DEF Items

LEMMA ItemsOfMore ==
  ASSUME NEW S, NEW s \in Seq(S), NEW x \in S
  PROVE  Items(Append(s, x)) = Items(s) \cup {x}
<1>1. \A i \in DOMAIN s : i \in DOMAIN Append(s, x)
  BY AppendIs
<1>2. Len(s) + 1 \in DOMAIN Append(s, x)
  BY AppendIs
<1>3. PICK t : t = Append(s, x)
  OBVIOUS
<1>4. /\ \A i \in DOMAIN s : i \in DOMAIN t /\ t[i] = s[i]
      /\ \A i \in DOMAIN t : i \in DOMAIN s \/ i = Len(s) + 1
      /\ Len(s) + 1 \in DOMAIN t /\ t[Len(s) + 1] = x
  BY <1>1, <1>2, <1>3, AppendIs
<1>5. Items(t) = Items(s) \cup {x}
  BY <1>4 DEF Items
<1> QED
  BY <1>3, <1>5

LEMMA ItemsOfTail ==
  ASSUME NEW S, NEW s \in Seq(S), s # <<>>
  PROVE  Items(s) = {Head(s)} \cup Items(Tail(s))
<1>1. PICK t : t = Tail(s)
  OBVIOUS
<1>2. ASSUME NEW i \in DOMAIN t
      PROVE  i + 1 \in DOMAIN s /\ t[i] = s[i + 1]
  BY <1>1, TailIs
<1>3. ASSUME NEW i \in DOMAIN s, i # 1
      PROVE  i - 1 \in DOMAIN t /\ t[i - 1] = s[i]
  <2>1. i - 1 \in 1 .. Len(s) - 1 /\ (i - 1) + 1 = i
    BY <1>3, TailIs
  <2> QED
    BY <1>1, <2>1, TailIs
<1>4. 1 \in DOMAIN s /\ s[1] = Head(s)
  BY TailIs
<1>5. Items(s) = {Head(s)} \cup Items(t)
  BY <1>2, <1>3, <1>4 DEF Items
<1> QED
  BY <1>1, <1>5

LEMMA ItemsOfConcat ==
  ASSUME NEW S, NEW s \in Seq(S), NEW t \in Seq(S)
  PROVE  Items(s \o t) = Items(s) \cup Items(t)
<1>1. PICK u : u = s \o t
  OBVIOUS
<1>2. ASSUME NEW i \in DOMAIN s
      PROVE  i \in DOMAIN u /\ u[i] = s[i]
  BY <1>1, ConcatIs
<1>3. ASSUME NEW i \in DOMAIN t
      PROVE  Len(s) + i \in DOMAIN u /\ u[Len(s) + i] = t[i]
  BY <1>1, ConcatIs
<1>4. ASSUME NEW i \in DOMAIN u
      PROVE  (i \in DOMAIN s /\ u[i] = s[i]) \/ (i - Len(s) \in DOMAIN t /\ u[i] = t[i - Len(s)])
  BY <1>1, ConcatPlace
<1>5. Items(u) = Items(s) \cup Items(t)
  BY <1>2, <1>3, <1>4 DEF Items
<1> QED
  BY <1>1, <1>5

LEMMA ItemsTyped ==
  ASSUME NEW S, NEW s \in Seq(S)
  PROVE  Items(s) \subseteq S
BY DEF Items

-----------------------------------------------------------------------------
(* The order in which items were sent: a is the sequence of those sent.    *)

\* c was sent before d.
Earlier(a, c, d) == \A i, j \in DOMAIN a : a[i] = c /\ a[j] = d => i < j
\* The items of s are in the order they were sent.
Rising(a, s) == \A k, l \in DOMAIN s : k < l => Earlier(a, s[k], s[l])
\* The items of C were sent before those of D.
Before(a, C, D) == \A c \in C, d \in D : Earlier(a, c, d)
\* No item is in s twice.
Distinct(s) == \A i, j \in DOMAIN s : s[i] = s[j] => i = j

\* The unanswered items D are, in the order they were sent, those at the front,
\* the one kept aside and those in the channel.
Line(a, D, F, K, I) ==
  /\ Rising(a, F) /\ Rising(a, I)
  /\ Before(a, Items(F), K) /\ Before(a, Items(F), Items(I)) /\ Before(a, K, Items(I))
  /\ D = Items(F) \cup K \cup Items(I)

\* The log is in the order of sending and has nothing that the items of Y precede.
Logs(a, L, Y) ==
  Items(L) \subseteq Items(a) /\ Rising(a, L) /\ Before(a, Items(L), Y)

LEMMA EarlierNotSame ==
  ASSUME NEW a \in Seq(Caller), NEW c \in Items(a)
  PROVE  ~Earlier(a, c, c)
<1>1. PICK i \in DOMAIN a : a[i] = c
  BY DEF Items
<1>2. i \in Int /\ ~(i < i)
  OBVIOUS
<1> QED
  BY <1>1, <1>2 DEF Earlier

\* One more item is sent: the order of those before it stays, and it is last.
LEMMA EarlierMore ==
  ASSUME NEW a \in Seq(Caller), NEW x \in Caller, x \notin Items(a), NEW c \in Items(a)
  PROVE  /\ Earlier(Append(a, x), c, x)
         /\ \A d \in Items(a) : Earlier(a, c, d) => Earlier(Append(a, x), c, d)
<1>1. PICK b : b = Append(a, x)
  OBVIOUS
<1>2. /\ \A i \in DOMAIN b : (i \in DOMAIN a /\ b[i] = a[i]) \/ i = Len(a) + 1
      /\ b[Len(a) + 1] = x
  BY <1>1, AppendIs
<1>3. \A i \in DOMAIN b : b[i] \in Items(a) => i \in DOMAIN a /\ b[i] = a[i]
  BY <1>2
<1>4. \A i \in DOMAIN b : b[i] = x => i = Len(a) + 1
  BY <1>2 DEF Items
<1>5. \A i \in DOMAIN a : i < Len(a) + 1
  OBVIOUS
<1>6. Earlier(b, c, x)
  BY <1>3, <1>4, <1>5 DEF Earlier
<1>7. ASSUME NEW d \in Items(a), Earlier(a, c, d)
      PROVE  Earlier(b, c, d)
  BY <1>3, <1>7 DEF Earlier
<1> QED
  BY <1>1, <1>6, <1>7

LEMMA BeforeMore ==
  ASSUME NEW a \in Seq(Caller), NEW x \in Caller, x \notin Items(a),
         NEW C, C \subseteq Items(a), NEW D, D \subseteq Items(a), Before(a, C, D)
  PROVE  Before(Append(a, x), C, D) /\ Before(Append(a, x), C, D \cup {x})
BY EarlierMore DEF Before

LEMMA RisingMore ==
  ASSUME NEW a \in Seq(Caller), NEW x \in Caller, x \notin Items(a),
         NEW s, Items(s) \subseteq Items(a), Rising(a, s)
  PROVE  Rising(Append(a, x), s)
<1>1. \A k \in DOMAIN s : s[k] \in Items(a)
  BY DEF Items
<1> QED
  BY <1>1, EarlierMore DEF Rising

\* An item later than those of s goes to its end.
LEMMA RisingAppend ==
  ASSUME NEW a, NEW s \in Seq(Caller), NEW x \in Caller,
         Rising(a, s), Before(a, Items(s), {x})
  PROVE  Rising(a, Append(s, x))
<1>1. PICK t : t = Append(s, x)
  OBVIOUS
<1>2. /\ \A i \in DOMAIN t : (i \in DOMAIN s /\ t[i] = s[i]) \/ (i = Len(s) + 1 /\ t[i] = x)
      /\ \A i \in DOMAIN s : i < Len(s) + 1 /\ i \in Nat
      /\ Len(s) \in Nat
  BY <1>1, AppendIs
<1>3. ASSUME NEW k \in DOMAIN t, NEW l \in DOMAIN t, k < l
      PROVE  Earlier(a, t[k], t[l])
  <2>1. CASE k \in DOMAIN s /\ t[k] = s[k] /\ l \in DOMAIN s /\ t[l] = s[l]
    BY <1>3, <2>1 DEF Rising
  <2>2. CASE k \in DOMAIN s /\ t[k] = s[k] /\ t[l] = x
    BY <2>2 DEF Before, Items
  <2>3. CASE k = Len(s) + 1
    <3>1. l = Len(s) + 1 \/ l < Len(s) + 1
      BY <1>2
    <3>2. ~(k < l)
      BY <1>2, <2>3, <3>1
    <3> QED
      BY <1>3, <3>2
  <2> QED
    BY <1>2, <2>1, <2>2, <2>3
<1> QED
  BY <1>1, <1>3 DEF Rising

LEMMA RisingTail ==
  ASSUME NEW a, NEW s \in Seq(Caller), s # <<>>, Rising(a, s)
  PROVE  Rising(a, Tail(s)) /\ Before(a, {Head(s)}, Items(Tail(s)))
<1>1. PICK t : t = Tail(s)
  OBVIOUS
<1>2. ASSUME NEW i \in DOMAIN t
      PROVE  i + 1 \in DOMAIN s /\ t[i] = s[i + 1] /\ 1 < i + 1 /\ i \in Nat
  BY <1>1, TailIs
<1>3. 1 \in DOMAIN s /\ s[1] = Head(s)
  BY TailIs
<1>4. ASSUME NEW k \in DOMAIN t, NEW l \in DOMAIN t, k < l
      PROVE  Earlier(a, t[k], t[l])
  <2>1. k + 1 < l + 1
    BY <1>2, <1>4
  <2> QED
    BY <1>2, <2>1 DEF Rising
<1>5. ASSUME NEW l \in DOMAIN t
      PROVE  Earlier(a, Head(s), t[l])
  BY <1>2, <1>3 DEF Rising
<1>6. Rising(a, t) /\ Before(a, {Head(s)}, Items(t))
  BY <1>4, <1>5 DEF Rising, Before, Items
<1> QED
  BY <1>1, <1>6

LEMMA RisingConcat ==
  ASSUME NEW a, NEW s \in Seq(Caller), NEW t \in Seq(Caller),
         Rising(a, s), Rising(a, t), Before(a, Items(s), Items(t))
  PROVE  Rising(a, s \o t)
<1>1. PICK u : u = s \o t
  OBVIOUS
<1>2. ASSUME NEW i \in DOMAIN u
      PROVE  \/ i \in DOMAIN s /\ u[i] = s[i]
             \/ i > Len(s) /\ i - Len(s) \in DOMAIN t /\ u[i] = t[i - Len(s)]
  BY <1>1, ConcatPlace
<1>3. Len(s) \in Nat /\ DOMAIN s = 1 .. Len(s) /\ \A i \in DOMAIN u : i \in Nat
  BY <1>1, ConcatIs
<1>4. ASSUME NEW k \in DOMAIN u, NEW l \in DOMAIN u, k < l
      PROVE  Earlier(a, u[k], u[l])
  <2>1. CASE k \in DOMAIN s /\ u[k] = s[k] /\ l \in DOMAIN s /\ u[l] = s[l]
    BY <1>4, <2>1 DEF Rising
  <2>2. CASE k \in DOMAIN s /\ u[k] = s[k] /\ l - Len(s) \in DOMAIN t /\ u[l] = t[l - Len(s)]
    BY <2>2 DEF Before, Items
  <2>3. CASE /\ k - Len(s) \in DOMAIN t /\ u[k] = t[k - Len(s)]
             /\ l - Len(s) \in DOMAIN t /\ u[l] = t[l - Len(s)]
    <3>1. k - Len(s) < l - Len(s)
      BY <1>3, <1>4
    <3> QED
      BY <2>3, <3>1 DEF Rising
  <2>4. CASE k > Len(s) /\ l \in DOMAIN s
    BY <1>3, <1>4, <2>4
  <2> QED
    BY <1>2, <2>1, <2>2, <2>3, <2>4
<1> QED
  BY <1>1, <1>4 DEF Rising

LEMMA RisingDistinct ==
  ASSUME NEW a \in Seq(Caller), NEW s \in Seq(Caller), Items(s) \subseteq Items(a), Rising(a, s)
  PROVE  Distinct(s)
<1> SUFFICES ASSUME NEW i \in DOMAIN s, NEW j \in DOMAIN s, s[i] = s[j]
             PROVE  i = j
  BY DEF Distinct
<1>1. s[i] \in Items(a)
  BY DEF Items
<1>2. ~(i < j) /\ ~(j < i)
  BY <1>1, EarlierNotSame DEF Rising
<1>3. i \in Nat /\ j \in Nat
  OBVIOUS
<1> QED
  BY <1>2, <1>3

LEMMA BeforeDisjoint ==
  ASSUME NEW a \in Seq(Caller), NEW C, C \subseteq Items(a), NEW D, Before(a, C, D)
  PROVE  C \cap D = {}
BY EarlierNotSame DEF Before

LEMMA RisingShort ==
  ASSUME NEW a, NEW x
  PROVE  Rising(a, <<>>) /\ Rising(a, <<x>>)
<1>1. DOMAIN <<>> = {} /\ DOMAIN <<x>> = {1} /\ ~(1 < 1)
  OBVIOUS
<1> QED
  BY <1>1 DEF Rising

LEMMA LineSend ==
  ASSUME NEW a \in Seq(Caller), NEW x \in Caller, x \notin Items(a), NEW D, D \subseteq Items(a),
         NEW F \in Seq(Caller), NEW K, NEW I \in Seq(Caller), Line(a, D, F, K, I)
  PROVE  Line(Append(a, x), D \cup {x}, F, K, Append(I, x))
<1>1. Items(F) \subseteq Items(a) /\ K \subseteq Items(a) /\ Items(I) \subseteq Items(a)
  BY DEF Line
<1>2. Items(Append(I, x)) = Items(I) \cup {x}
  BY ItemsOfMore
<1>3. /\ Before(Append(a, x), Items(F), K) /\ Before(Append(a, x), K, Items(I) \cup {x})
      /\ Before(Append(a, x), Items(F), Items(I) \cup {x})
  BY <1>1, BeforeMore DEF Line
<1>4. Rising(Append(a, x), F) /\ Rising(Append(a, x), I)
  BY <1>1, RisingMore DEF Line
<1>5. Before(Append(a, x), Items(I), {x})
  BY <1>1, EarlierMore DEF Before
<1>6. Rising(Append(a, x), Append(I, x))
  BY <1>4, <1>5, RisingAppend
<1> QED
  BY <1>2, <1>3, <1>4, <1>6 DEF Line

\* The first of the channel joins those at the front, is kept aside, or is dropped.
LEMMA LineTake ==
  ASSUME NEW a \in Seq(Caller), NEW D, D \subseteq Items(a),
         NEW F \in Seq(Caller), NEW I \in Seq(Caller), I # <<>>, Line(a, D, F, {}, I)
  PROVE  /\ Line(a, D, Append(F, Head(I)), {}, Tail(I))
         /\ Line(a, D, F, {Head(I)}, Tail(I))
         /\ Line(a, D \ {Head(I)}, F, {}, Tail(I))
<1>1. PICK x \in Caller : x = Head(I)
  BY TailIs
<1>2. PICK J \in Seq(Caller) : J = Tail(I)
  BY TailIs
<1>3. Items(I) = {x} \cup Items(J)
  BY <1>1, <1>2, ItemsOfTail
<1>4. Rising(a, J) /\ Before(a, {x}, Items(J))
  BY <1>1, <1>2, RisingTail DEF Line
<1>5. Rising(a, F) /\ Before(a, Items(F), {x} \cup Items(J)) /\ D = Items(F) \cup {x} \cup Items(J)
  BY <1>3 DEF Line
<1>6. Before(a, Items(F), {x}) /\ Before(a, Items(F), Items(J)) /\ Before(a, Items(F) \cup {x}, Items(J))
      /\ Before(a, {}, Items(J)) /\ Before(a, Items(F), {}) /\ Before(a, Items(F) \cup {x}, {})
  BY <1>4, <1>5 DEF Before
<1>7. Rising(a, Append(F, x)) /\ Items(Append(F, x)) = Items(F) \cup {x}
  BY <1>5, <1>6, RisingAppend, ItemsOfMore
<1>8. x \notin Items(F) /\ x \notin Items(J)
  <2>1. Items(F) \cap {x} = {}
    BY <1>5, <1>6, BeforeDisjoint
  <2>2. {x} \cap Items(J) = {}
    BY <1>4, <1>5, BeforeDisjoint
  <2> QED
    BY <2>1, <2>2
<1>9. Line(a, D, Append(F, x), {}, J)
  BY <1>4, <1>5, <1>6, <1>7 DEF Line
<1>10. Line(a, D, F, {x}, J)
  BY <1>4, <1>5, <1>6 DEF Line
<1>11. Line(a, D \ {x}, F, {}, J)
  <2>1. D \ {x} = Items(F) \cup {} \cup Items(J)
    BY <1>5, <1>8
  <2> QED
    BY <1>4, <1>5, <1>6, <2>1 DEF Line
<1> QED
  BY <1>1, <1>2, <1>9, <1>10, <1>11

\* Those at the front have been answered: the one kept aside comes next.
LEMMA LineFlushed ==
  ASSUME NEW a \in Seq(Caller), NEW D, D \subseteq Items(a),
         NEW F \in Seq(Caller), NEW G \in Seq(Caller), NEW I \in Seq(Caller),
         Line(a, D, F, Items(G), I), Rising(a, G)
  PROVE  Line(a, D \ Items(F), G, {}, I)
<1>1. Items(F) \cap Items(G) = {} /\ Items(F) \cap Items(I) = {}
  <2>1. Items(F) \subseteq Items(a)
    BY DEF Line
  <2> QED
    BY <2>1, BeforeDisjoint DEF Line
<1>2. D \ Items(F) = Items(G) \cup {} \cup Items(I)
  BY <1>1 DEF Line
<1>3. Before(a, Items(G), {}) /\ Before(a, {}, Items(I))
  BY DEF Before
<1> QED
  BY <1>2, <1>3 DEF Line

LEMMA LogsSend ==
  ASSUME NEW a \in Seq(Caller), NEW x \in Caller, x \notin Items(a),
         NEW L, NEW Y, Y \subseteq Items(a), Logs(a, L, Y)
  PROVE  Logs(Append(a, x), L, Y \cup {x})
<1>1. Items(Append(a, x)) = Items(a) \cup {x}
  BY ItemsOfMore
<1>2. Rising(Append(a, x), L) /\ Before(Append(a, x), Items(L), Y \cup {x})
  BY RisingMore, BeforeMore DEF Logs
<1> QED
  BY <1>1, <1>2 DEF Logs

LEMMA LogsLess ==
  ASSUME NEW a, NEW L, NEW Y, NEW Z, Z \subseteq Y, Logs(a, L, Y)
  PROVE  Logs(a, L, Z)
BY DEF Logs, Before

\* The ledger executes what is at the front.
LEMMA LogsRun ==
  ASSUME NEW a, NEW L \in Seq(Caller), NEW F \in Seq(Caller), NEW Z, Logs(a, L, Items(F) \cup Z),
         Items(F) \subseteq Items(a), Rising(a, F), Before(a, Items(F), Z)
  PROVE  Logs(a, L \o F, Z)
<1>1. Items(L \o F) = Items(L) \cup Items(F)
  BY ItemsOfConcat
<1>2. Before(a, Items(L), Items(F)) /\ Before(a, Items(L) \cup Items(F), Z)
  BY DEF Logs, Before
<1>3. Rising(a, L \o F)
  BY <1>2, RisingConcat DEF Logs
<1> QED
  BY <1>1, <1>2, <1>3 DEF Logs

-----------------------------------------------------------------------------
(* The invariant.                                                          *)

Request == [who : Looker \cup {None, "submitter"}, batch : Seq(Caller)]
SubState == [pc : {"select", "acquire", "call", "stopped"}, batch : Seq(Caller),
             then : Caller \cup {None}, last : BOOLEAN, client : Client \cup {None},
             reply : Answers \cup {None}]

Typed ==
  /\ ctx \in BOOLEAN
  /\ caller \in [Caller -> {"new", "waiting", "returned", "left"}]
  /\ doneCh \in [Caller -> Answers \cup {None}]
  /\ inCh \in Seq(Caller) /\ Len(inCh) <= MaxEvents /\ pending \in Seq(Caller)
  /\ sub \in SubState
  /\ free \subseteq Client /\ calls \in [Client -> Seq(Request)]
  /\ looker \in [Looker -> Client \cup {"new", "returned"}]
  /\ log \in Seq(Caller) /\ sent \in Seq(Caller)

InFlush == sub.pc \in {"acquire", "call"}

Control ==
  /\ ~InFlush => /\ sub.batch = <<>> /\ sub.then = None /\ ~sub.last
                 /\ sub.client = None /\ sub.reply = None
  /\ sub.pc # "select" => pending = <<>>
  /\ sub.pc = "acquire" => sub.client = None /\ sub.reply = None
  /\ sub.pc = "call" => sub.client # None
  /\ sub.reply # None => sub.reply.refused = Results(sub.batch)
  /\ sub.last => sub.then = None

\* The items that are answered next, and the one that follows them.
Front == IF InFlush THEN sub.batch ELSE pending
KeptAside == IF sub.then = None THEN <<>> ELSE <<sub.then>>
Kept == {sub.then} \ {None}
\* Those that the ledger has not executed yet.
Ahead == (IF sub.reply = None THEN Items(Front) ELSE {}) \cup Kept \cup Items(inCh)
\* Those that were sent and have no answer.
Waiting == {c \in Items(sent) : doneCh[c] = None}

Sizes ==
  /\ \A c \in Items(Front) \cup Kept : Size[c] <= MaxEvents
  /\ TotalTransfers(Front) <= MaxEvents

\* The submitter's request is the one it waits for; until Close nobody gives up
\* another that has transfers.
Requests ==
  \A k \in Client : \A i \in DOMAIN calls[k] :
    /\ TotalTransfers(calls[k][i].batch) <= MaxEvents
    /\ calls[k][i].who = "submitter" =>
         /\ sub.pc = "call" /\ sub.client = k /\ sub.batch = calls[k][i].batch
         /\ sub.reply = None
         /\ \A j \in DOMAIN calls[k] : calls[k][j].who = "submitter" => i = j
    /\ ctx /\ calls[k][i].who # "submitter" => calls[k][i].batch = <<>>

\* A client is free when nobody has it, and nobody shares one.
Clients ==
  /\ \A k \in Client : k \in free <=> sub.client # k /\ \A l \in Looker : looker[l] # k
  /\ \A l \in Looker : looker[l] \in Client =>
       sub.client # looker[l] /\ \A m \in Looker : looker[m] = looker[l] => m = l

Sent ==
  /\ \A c \in Items(sent) : caller[c] # "new"
  /\ \A c \in Caller : doneCh[c] # None => c \in Items(sent)

Lined == Line(sent, Waiting, Front, Kept, inCh)
Logged == ctx => Logs(sent, log, Ahead)

SubmitterInv ==
  /\ Typed /\ Control /\ Sizes /\ Requests /\ Clients /\ Sent /\ Lined /\ Logged
  /\ OwnResults

LEMMA InvInit == Init => SubmitterInv
<1> SUFFICES ASSUME Init PROVE SubmitterInv
  OBVIOUS
<1>1. Items(<<>>) = {} /\ TotalTransfers(<<>>) = 0 /\ MaxEvents \in Nat
  BY ItemsOfNone, TotalOfNone, ConstantsAssumption
<1>2. Typed
  <2>1. <<>> \in Seq(Caller) /\ <<>> \in Seq(Request) /\ Len(<<>>) = 0
    OBVIOUS
  <2>2. sub \in SubState
    BY <2>1 DEF Init, Selecting, SubState
  <2> QED
    BY <1>1, <2>1, <2>2 DEF Init, Typed
<1>3. Control /\ Front = <<>> /\ Kept = {}
  BY DEF Init, Control, Selecting, InFlush, Front, Kept
<1>4. Sizes
  BY <1>1, <1>3 DEF Sizes
<1>5. Requests
  <2>1. \A k \in Client : DOMAIN calls[k] = {}
    BY DEF Init
  <2> QED
    BY <2>1 DEF Requests
<1>6. Clients
  <2>1. \A k \in Client : k # None /\ k # "new" /\ k # "returned"
    BY ConstantsAssumption
  <2>2. sub.client = None /\ free = Client /\ \A l \in Looker : looker[l] = "new"
    BY DEF Init, Selecting
  <2> QED
    BY <2>1, <2>2 DEF Clients
<1>7. Sent /\ OwnResults
  BY <1>1 DEF Init, Sent, OwnResults
<1>8. Lined
  <2>1. Waiting = {}
    BY <1>1 DEF Init, Waiting
  <2>2. inCh = <<>> /\ sent = <<>>
    BY DEF Init
  <2> QED
    BY <1>1, <1>3, <2>1, <2>2, RisingShort DEF Lined, Line, Before
<1>9. Logged
  <2>1. log = <<>>
    BY DEF Init
  <2> QED
    BY <1>1, <2>1, RisingShort DEF Logged, Logs, Before
<1> QED
  BY <1>2, <1>3, <1>4, <1>5, <1>6, <1>7, <1>8, <1>9 DEF SubmitterInv

-----------------------------------------------------------------------------
(* Steps of the goroutine.                                                 *)

LEMMA LineFacts ==
  ASSUME SubmitterInv
  PROVE  /\ Front \in Seq(Caller) /\ inCh \in Seq(Caller) /\ sent \in Seq(Caller)
         /\ Waiting \subseteq Items(sent) /\ Waiting \subseteq Caller
         /\ Items(Front) \cup Kept \cup Items(inCh) = Waiting
         /\ KeptAside \in Seq(Caller) /\ Items(KeptAside) = Kept /\ Rising(sent, KeptAside)
<1>1. inCh \in Seq(Caller) /\ sent \in Seq(Caller) /\ pending \in Seq(Caller) /\ sub \in SubState
  BY DEF SubmitterInv, Typed
<1>2. Front \in Seq(Caller) /\ sub.then \in Caller \cup {None}
  BY <1>1 DEF SubState, Front
<1>3. Waiting \subseteq Items(sent) /\ Items(sent) \subseteq Caller
  BY <1>1, ItemsTyped DEF Waiting
<1>4. Items(Front) \cup Kept \cup Items(inCh) = Waiting
  BY DEF SubmitterInv, Lined, Line
<1>5. CASE sub.then = None
  <2>1. KeptAside = <<>> /\ Kept = {} /\ <<>> \in Seq(Caller)
    BY <1>5 DEF KeptAside, Kept
  <2>2. Rising(sent, <<>>)
    BY RisingShort
  <2> QED
    BY <1>1, <1>2, <1>3, <1>4, <2>1, <2>2, ItemsOfNone
<1>6. CASE sub.then # None
  <2>1. KeptAside = <<sub.then>> /\ Kept = {sub.then} /\ <<sub.then>> \in Seq(Caller)
    BY <1>2, <1>6 DEF KeptAside, Kept
  <2>2. Rising(sent, <<sub.then>>) /\ Items(<<sub.then>>) = {sub.then}
    BY RisingShort, ItemsOfOne
  <2> QED
    BY <1>1, <1>2, <1>3, <1>4, <2>1, <2>2
<1> QED
  BY <1>5, <1>6

\* Those that wait and are answered get an error, or what is their own.
Fair(answers) ==
  \A c \in DOMAIN answers :
    answers[c] \in Answers /\ (answers[c].err \/ answers[c].refused = Refused[c])

LEMMA RespondIs ==
  ASSUME SubmitterInv, NEW answers, Respond(answers), sent' = sent,
         DOMAIN answers \subseteq Waiting, Fair(answers)
  PROVE  /\ doneCh' \in [Caller -> Answers \cup {None}]
         /\ Waiting' = Waiting \ DOMAIN answers
         /\ OwnResults'
         /\ \A c \in Caller : doneCh'[c] # None => c \in Items(sent')
<1>1. /\ doneCh \in [Caller -> Answers \cup {None}]
      /\ \A c \in Caller : doneCh[c] # None => c \in Items(sent)
  BY DEF SubmitterInv, Typed, Sent
<1>2. Waiting \subseteq Caller /\ Items(sent) \subseteq Caller
  BY LineFacts, ItemsTyped
<1>3. \A c \in Caller : doneCh'[c] = IF c \in DOMAIN answers THEN answers[c] ELSE doneCh[c]
  BY DEF Respond, Waiting
<1>4. None \notin Answers
  BY ConstantsAssumption
<1>5. \A c \in DOMAIN answers : answers[c] \in Answers
  BY DEF Fair
<1>6. doneCh' \in [Caller -> Answers \cup {None}]
  <2>1. doneCh' = [c \in Caller |-> doneCh'[c]]
    BY DEF Respond
  <2>2. \A c \in Caller : doneCh'[c] \in Answers \cup {None}
    BY <1>1, <1>3, <1>5
  <2> QED
    BY <2>1, <2>2
<1>7. Waiting' = Waiting \ DOMAIN answers
  <2>1. \A c \in Items(sent) : doneCh'[c] = None <=> doneCh[c] = None /\ c \notin DOMAIN answers
    BY <1>2, <1>3, <1>4, <1>5
  <2> QED
    BY <2>1 DEF Waiting
<1>8. OwnResults'
  <2> SUFFICES ASSUME NEW c \in Caller, doneCh'[c] # None, ~doneCh'[c].err
               PROVE  doneCh'[c].refused = Refused[c]
    BY DEF OwnResults
  <2> QED
    BY <1>3 DEF SubmitterInv, OwnResults, Fair
<1>9. \A c \in Caller : doneCh'[c] # None => c \in Items(sent')
  BY <1>1, <1>3 DEF Waiting
<1> QED
  BY <1>6, <1>7, <1>8, <1>9

LEMMA FailingIs ==
  ASSUME NEW s
  PROVE  DOMAIN Failing(s) = Items(s) /\ Fair(Failing(s))
<1>1. [err |-> TRUE, refused |-> {}] \in Answers
  BY DEF Answers
<1> QED
  BY <1>1 DEF Failing, Fair

\* Gather keeps the items, pending or in a batch to be sent.
LEMMA GatherIs ==
  ASSUME NEW s \in Seq(Caller), Gather(s)
  PROVE  /\ sub' \in SubState /\ pending' \in Seq(Caller) /\ Control'
         /\ Front' = s /\ Kept' = {} /\ sub'.client = None /\ sub'.reply = None
         /\ sub'.pc # "call"
<1>1. <<>> \in Seq(Caller)
  OBVIOUS
<1>2. CASE TotalTransfers(s) >= MaxEvents
  <2>1. /\ pending' = <<>>
        /\ sub' = [pc |-> "acquire", batch |-> s, then |-> None, last |-> FALSE,
                   client |-> None, reply |-> None]
    BY <1>2 DEF Gather, Flushing, Selecting
  <2> QED
    BY <1>1, <2>1 DEF SubState, Control, InFlush, Front, Kept
<1>3. CASE ~(TotalTransfers(s) >= MaxEvents)
  <2>1. /\ pending' = s
        /\ sub' = [pc |-> "select", batch |-> <<>>, then |-> None, last |-> FALSE,
                   client |-> None, reply |-> None]
    BY <1>3 DEF Gather, Selecting
  <2> QED
    BY <1>1, <2>1 DEF SubState, Control, InFlush, Front, Kept
<1> QED
  BY <1>2, <1>3

\* After a flush the item kept aside is at the front.
LEMMA FlushEnds ==
  ASSUME SubmitterInv, InFlush, AfterFlush
  PROVE  /\ sub' \in SubState /\ pending' \in Seq(Caller) /\ Control'
         /\ Front' = KeptAside /\ Kept' = {} /\ sub'.client = None /\ sub'.reply = None
         /\ sub'.pc # "call"
<1>1. <<>> \in Seq(Caller) /\ pending = <<>> /\ sub \in SubState /\ (sub.last => sub.then = None)
  BY DEF SubmitterInv, Control, InFlush, Typed
<1>2. CASE sub.last
  <2>1. /\ pending' = <<>> /\ KeptAside = <<>>
        /\ sub' = [pc |-> "stopped", batch |-> <<>>, then |-> None, last |-> FALSE,
                   client |-> None, reply |-> None]
    BY <1>1, <1>2 DEF AfterFlush, Stopped, Selecting, KeptAside
  <2> QED
    BY <1>1, <2>1 DEF SubState, Control, InFlush, Front, Kept
<1>3. CASE ~sub.last /\ sub.then = None
  <2>1. /\ pending' = <<>> /\ KeptAside = <<>>
        /\ sub' = [pc |-> "select", batch |-> <<>>, then |-> None, last |-> FALSE,
                   client |-> None, reply |-> None]
    BY <1>1, <1>3 DEF AfterFlush, Selecting, KeptAside
  <2> QED
    BY <1>1, <2>1 DEF SubState, Control, InFlush, Front, Kept
<1>4. CASE ~sub.last /\ sub.then # None
  <2>1. Gather(<<sub.then>>) /\ KeptAside = <<sub.then>>
    BY <1>4 DEF AfterFlush, KeptAside
  <2>2. <<sub.then>> \in Seq(Caller)
    BY <1>1, <1>4 DEF SubState
  <2> QED
    BY <2>1, <2>2, GatherIs
<1> QED
  BY <1>2, <1>3, <1>4

\* A flush that ends answers its items, and the rest of the line moves up.
LEMMA FlushAnswered ==
  ASSUME SubmitterInv, InFlush, AfterFlush, NEW answers, Respond(answers),
         DOMAIN answers = Items(sub.batch), Fair(answers),
         UNCHANGED <<ctx, caller, inCh, looker, log, sent>>,
         free' \subseteq Client, calls' \in [Client -> Seq(Request)], Requests', Clients'
  PROVE  SubmitterInv'
<1>1. /\ Front = sub.batch /\ Front \in Seq(Caller) /\ inCh \in Seq(Caller) /\ sent \in Seq(Caller)
      /\ Waiting \subseteq Items(sent) /\ Items(Front) \cup Kept \cup Items(inCh) = Waiting
      /\ KeptAside \in Seq(Caller) /\ Items(KeptAside) = Kept /\ Rising(sent, KeptAside)
  BY LineFacts DEF Front
<1>2. /\ sub' \in SubState /\ pending' \in Seq(Caller) /\ Control'
      /\ Front' = KeptAside /\ Kept' = {} /\ sub'.client = None /\ sub'.reply = None
  BY FlushEnds
<1>3. /\ doneCh' \in [Caller -> Answers \cup {None}]
      /\ Waiting' = Waiting \ Items(Front) /\ OwnResults'
      /\ \A c \in Caller : doneCh'[c] # None => c \in Items(sent')
  BY <1>1, RespondIs
<1>4. Typed'
  BY <1>2, <1>3 DEF SubmitterInv, Typed
<1>5. Sizes'
  <2>1. \A c \in Kept : Size[c] <= MaxEvents
    BY DEF SubmitterInv, Sizes
  <2>2. TotalTransfers(KeptAside) <= MaxEvents
    <3>1. CASE sub.then = None
      <4>1. KeptAside = <<>> /\ MaxEvents \in Nat
        BY <3>1, ConstantsAssumption DEF KeptAside
      <4> QED
        BY <4>1, TotalOfNone
    <3>2. CASE sub.then # None
      <4>1. sub.then \in Caller /\ Size[sub.then] <= MaxEvents
        BY <2>1, <3>2 DEF SubmitterInv, Typed, SubState, Kept
      <4>2. KeptAside = Append(<<>>, sub.then) /\ <<>> \in Seq(Caller)
        BY <3>2 DEF KeptAside
      <4>3. TotalTransfers(KeptAside) = 0 + Size[sub.then]
        BY <4>1, <4>2, TotalOfMore, TotalOfNone
      <4>4. Size[sub.then] \in Nat
        BY <4>1, ConstantsAssumption
      <4> QED
        BY <4>1, <4>3, <4>4
    <3> QED
      BY <3>1, <3>2
  <2> QED
    BY <1>1, <1>2, <2>1, <2>2 DEF Sizes
<1>6. Sent'
  BY <1>3 DEF SubmitterInv, Sent
<1>7. Lined'
  <2>1. Line(sent, Waiting, Front, Items(KeptAside), inCh)
    BY <1>1 DEF SubmitterInv, Lined
  <2>2. Line(sent, Waiting \ Items(Front), KeptAside, {}, inCh)
    BY <1>1, <2>1, LineFlushed
  <2> QED
    BY <1>2, <1>3, <2>2 DEF Lined
<1>8. Logged'
  <2>1. Ahead' \subseteq Ahead
    BY <1>1, <1>2 DEF Ahead
  <2> QED
    BY <2>1, LogsLess DEF SubmitterInv, Logged
<1> QED
  BY <1>2, <1>3, <1>4, <1>5, <1>6, <1>7, <1>8 DEF SubmitterInv

-----------------------------------------------------------------------------
(* Requests.                                                               *)

LEMMA OrphanedIs ==
  ASSUME calls \in [Client -> Seq(Request)], NEW w
  PROVE  /\ Orphaned(w) \in [Client -> Seq(Request)]
         /\ \A k \in Client :
              /\ DOMAIN Orphaned(w)[k] = DOMAIN calls[k]
              /\ \A i \in DOMAIN calls[k] :
                   /\ Orphaned(w)[k][i].batch = calls[k][i].batch
                   /\ Orphaned(w)[k][i].who = IF calls[k][i].who = w THEN None ELSE calls[k][i].who
<1> SUFFICES ASSUME NEW k \in Client
             PROVE  /\ Orphaned(w)[k] \in Seq(Request)
                    /\ DOMAIN Orphaned(w)[k] = DOMAIN calls[k]
                    /\ \A i \in DOMAIN calls[k] :
                         /\ Orphaned(w)[k][i].batch = calls[k][i].batch
                         /\ Orphaned(w)[k][i].who = IF calls[k][i].who = w THEN None
                                                    ELSE calls[k][i].who
  BY DEF Orphaned
<1>1. PICK q \in Seq(Request) : q = calls[k]
  OBVIOUS
<1>2. PICK r : r = [i \in DOMAIN q |-> IF q[i].who = w THEN [q[i] EXCEPT !.who = None] ELSE q[i]]
  OBVIOUS
<1>3. Orphaned(w)[k] = r
  BY <1>1, <1>2 DEF Orphaned
<1>4. DOMAIN q = 1 .. Len(q) /\ Len(q) \in Nat /\ \A i \in DOMAIN q : q[i] \in Request
  OBVIOUS
<1>5. ASSUME NEW i \in DOMAIN q
      PROVE  /\ r[i] \in Request /\ r[i].batch = q[i].batch
             /\ r[i].who = IF q[i].who = w THEN None ELSE q[i].who
  BY <1>2, <1>4 DEF Request
<1>6. r \in Seq(Request) /\ DOMAIN r = DOMAIN q
  BY <1>2, <1>4, <1>5
<1> QED
  BY <1>1, <1>3, <1>5, <1>6

\* One more request of a client.
LEMMA RequestMore ==
  ASSUME calls \in [Client -> Seq(Request)], NEW k \in Client, NEW r \in Request,
         calls' = [calls EXCEPT ![k] = Append(@, r)]
  PROVE  /\ calls' \in [Client -> Seq(Request)]
         /\ \A m \in Client : \A i \in DOMAIN calls'[m] :
              \/ i \in DOMAIN calls[m] /\ calls'[m][i] = calls[m][i]
              \/ m = k /\ i = Len(calls[k]) + 1 /\ calls'[m][i] = r
<1>1. PICK q \in Seq(Request) : q = calls[k]
  OBVIOUS
<1>2. Append(q, r) \in Seq(Request)
  BY AppendIs
<1>3. /\ \A m \in Client : m # k => calls'[m] = calls[m]
      /\ calls'[k] = Append(q, r)
  BY <1>1
<1>4. \A i \in DOMAIN Append(q, r) :
        \/ i \in DOMAIN q /\ Append(q, r)[i] = q[i]
        \/ i = Len(q) + 1 /\ Append(q, r)[i] = r
  BY AppendIs
<1>5. calls' \in [Client -> Seq(Request)]
  BY <1>1, <1>2
<1> QED
  BY <1>1, <1>3, <1>4, <1>5

\* The first request of a client is done with.
LEMMA RequestLess ==
  ASSUME calls \in [Client -> Seq(Request)], NEW k \in Client, calls[k] # <<>>,
         calls' = [calls EXCEPT ![k] = Tail(@)]
  PROVE  /\ calls' \in [Client -> Seq(Request)]
         /\ 1 \in DOMAIN calls[k] /\ Head(calls[k]) = calls[k][1] /\ Head(calls[k]) \in Request
         /\ \A m \in Client : m # k => calls'[m] = calls[m]
         /\ \A i \in DOMAIN calls'[k] :
              i + 1 \in DOMAIN calls[k] /\ calls'[k][i] = calls[k][i + 1] /\ i + 1 # 1 /\ i \in Nat
<1>1. PICK q \in Seq(Request) : q = calls[k] /\ q # <<>>
  OBVIOUS
<1>2. Tail(q) \in Seq(Request)
  BY <1>1, TailIs
<1>3. /\ \A m \in Client : m # k => calls'[m] = calls[m]
      /\ calls'[k] = Tail(q)
  BY <1>1
<1>4. \A i \in DOMAIN Tail(q) :
        i + 1 \in DOMAIN q /\ Tail(q)[i] = q[i + 1] /\ i + 1 # 1 /\ i \in Nat
  BY <1>1, TailIs
<1>5. 1 \in DOMAIN q /\ Head(q) = q[1] /\ Head(q) \in Request
  BY <1>1, TailIs
<1>6. calls' \in [Client -> Seq(Request)]
  BY <1>1, <1>2
<1> QED
  BY <1>1, <1>3, <1>4, <1>5, <1>6

-----------------------------------------------------------------------------
(* The actions preserve the invariant.                                     *)

LEMMA SendKeeps ==
  ASSUME SubmitterInv, NEW c \in Caller, Send(c)
  PROVE  SubmitterInv'
<1>1. /\ Front \in Seq(Caller) /\ inCh \in Seq(Caller) /\ sent \in Seq(Caller)
      /\ Waiting \subseteq Items(sent) /\ Items(Front) \cup Kept \cup Items(inCh) = Waiting
  BY LineFacts
<1>2. /\ inCh' = Append(inCh, c) /\ sent' = Append(sent, c)
      /\ UNCHANGED <<ctx, doneCh, pending, sub, free, calls, looker, log>>
      /\ caller' = [caller EXCEPT ![c] = "waiting"] /\ caller[c] = "new" /\ Len(inCh) < MaxEvents
  BY DEF Send, submitterVars
<1>3. c \notin Items(sent) /\ doneCh[c] = None
  BY <1>2 DEF SubmitterInv, Sent
<1>4. Front' = Front /\ Kept' = Kept
  BY <1>2 DEF Front, InFlush, Kept
<1>5. Items(sent') = Items(sent) \cup {c} /\ Items(inCh') = Items(inCh) \cup {c}
  BY <1>1, <1>2, ItemsOfMore
<1>6. Waiting' = Waiting \cup {c}
  BY <1>2, <1>3, <1>5 DEF Waiting
<1>7. Typed'
  <2>1. inCh' \in Seq(Caller) /\ sent' \in Seq(Caller) /\ Len(inCh') = Len(inCh) + 1
    BY <1>1, <1>2, AppendIs
  <2>2. Len(inCh') <= MaxEvents
    BY <1>1, <1>2, <2>1, ConstantsAssumption
  <2> QED
    BY <1>2, <2>1, <2>2 DEF SubmitterInv, Typed
<1>8. Control' /\ Clients' /\ OwnResults'
  BY <1>2 DEF SubmitterInv, Control, InFlush, Clients, OwnResults
<1>9. Sizes'
  BY <1>4 DEF SubmitterInv, Sizes
<1>10. Requests'
  BY <1>2 DEF SubmitterInv, Requests
<1>11. Sent'
  <2>1. caller \in [Caller -> {"new", "waiting", "returned", "left"}]
    BY DEF SubmitterInv, Typed
  <2>2. Items(sent) \subseteq Caller
    BY <1>1, ItemsTyped
  <2>3. \A d \in Caller : caller'[d] # "new" <=> d = c \/ caller[d] # "new"
    BY <1>2, <2>1
  <2> QED
    BY <1>2, <1>5, <2>2, <2>3 DEF SubmitterInv, Sent
<1>12. Lined'
  <2>1. Line(sent, Waiting, Front, Kept, inCh)
    BY DEF SubmitterInv, Lined
  <2>2. Line(sent', Waiting \cup {c}, Front, Kept, inCh')
    BY <1>1, <1>2, <1>3, <2>1, LineSend
  <2> QED
    BY <1>4, <1>6, <2>2 DEF Lined
<1>13. Logged'
  <2> SUFFICES ASSUME ctx PROVE Logs(sent', log, Ahead')
    BY <1>2 DEF Logged
  <2>1. Ahead \subseteq Items(sent) /\ Ahead' = Ahead \cup {c}
    BY <1>1, <1>2, <1>4, <1>5 DEF Ahead
  <2> QED
    BY <1>1, <1>2, <1>3, <2>1, LogsSend DEF SubmitterInv, Logged
<1> QED
  BY <1>7, <1>8, <1>9, <1>10, <1>11, <1>12, <1>13 DEF SubmitterInv

\* Nothing happens to the items.
LEMMA LineSame ==
  ASSUME SubmitterInv, UNCHANGED <<doneCh, inCh, pending, sub, log, sent>>, ctx' => ctx
  PROVE  Control' /\ Sizes' /\ Lined' /\ Logged' /\ OwnResults'
<1>1. Front' = Front /\ Kept' = Kept /\ Waiting' = Waiting
  BY DEF Front, InFlush, Kept, Waiting
<1>2. Ahead' = Ahead
  BY <1>1 DEF Ahead
<1> QED
  BY <1>1, <1>2 DEF SubmitterInv, Control, InFlush, Sizes, Lined, Logged, OwnResults

LEMMA CallerMoves ==
  ASSUME SubmitterInv, NEW c \in Caller, Leave(c) \/ Return(c)
  PROVE  SubmitterInv'
<1>1. PICK x \in {"returned", "left"} : caller' = [caller EXCEPT ![c] = x]
  BY DEF Leave, Return
<1>2. UNCHANGED <<ctx, doneCh, inCh, pending, sub, free, calls, looker, log, sent>>
  BY DEF Leave, Return, submitterVars
<1>3. Control' /\ Sizes' /\ Lined' /\ Logged' /\ OwnResults'
  BY <1>2, LineSame
<1>4. Typed'
  BY <1>1, <1>2 DEF SubmitterInv, Typed
<1>5. Requests' /\ Clients'
  BY <1>2 DEF SubmitterInv, Requests, Clients
<1>6. Sent'
  <2>1. caller \in [Caller -> {"new", "waiting", "returned", "left"}]
    BY DEF SubmitterInv, Typed
  <2>2. \A d \in Caller : caller[d] # "new" => caller'[d] # "new"
    BY <1>1, <2>1
  <2>3. Items(sent) \subseteq Caller
    BY ItemsTyped DEF SubmitterInv, Typed
  <2> QED
    BY <1>2, <2>2, <2>3 DEF SubmitterInv, Sent
<1> QED
  BY <1>3, <1>4, <1>5, <1>6 DEF SubmitterInv

LEMMA CloseKeeps ==
  ASSUME SubmitterInv, Close
  PROVE  SubmitterInv'
<1>1. ctx' = FALSE /\ UNCHANGED <<caller, doneCh, inCh, pending, sub, free, calls, looker, log, sent>>
  BY DEF Close, submitterVars
<1>2. Control' /\ Sizes' /\ Lined' /\ Logged' /\ OwnResults'
  BY <1>1, LineSame
<1>3. Typed' /\ Sent' /\ Clients'
  BY <1>1 DEF SubmitterInv, Typed, Sent, Clients
<1>4. Requests'
  BY <1>1 DEF SubmitterInv, Requests
<1> QED
  BY <1>2, <1>3, <1>4 DEF SubmitterInv

LEMMA CancelKeeps ==
  ASSUME SubmitterInv, AcquireCancelled
  PROVE  SubmitterInv'
<1>1. /\ sub.pc = "acquire" /\ InFlush /\ Respond(Failing(sub.batch)) /\ AfterFlush
      /\ UNCHANGED <<ctx, caller, inCh, free, calls, looker, log, sent>>
  BY DEF AcquireCancelled, InFlush
<1>2. sub'.client = None /\ sub.client = None
  BY <1>1, FlushEnds DEF SubmitterInv, Control
<1>3. Requests'
  <2>1. \A k \in Client : \A i \in DOMAIN calls[k] : calls[k][i].who # "submitter"
    BY <1>1 DEF SubmitterInv, Requests
  <2> QED
    BY <1>1, <2>1 DEF SubmitterInv, Requests
<1>4. Clients'
  BY <1>1, <1>2 DEF SubmitterInv, Clients
<1>5. free' \subseteq Client /\ calls' \in [Client -> Seq(Request)]
  BY <1>1 DEF SubmitterInv, Typed
<1>6. DOMAIN Failing(sub.batch) = Items(sub.batch) /\ Fair(Failing(sub.batch))
  BY FailingIs
<1>7. PICK answers : answers = Failing(sub.batch)
  OBVIOUS
<1>8. Respond(answers) /\ DOMAIN answers = Items(sub.batch) /\ Fair(answers)
  BY <1>1, <1>6, <1>7
<1> QED
  BY <1>1, <1>3, <1>4, <1>5, <1>8, FlushAnswered

\* The client of the call goes back to the pool.
LEMMA ClientBack ==
  ASSUME SubmitterInv, sub.pc = "call", sub'.client = None, looker' = looker,
         free' = free \cup {sub.client}
  PROVE  Clients' /\ free' \subseteq Client
<1>1. sub.client \in Client /\ free \subseteq Client
  BY DEF SubmitterInv, Typed, SubState, Control
<1>2. \A k \in Client : k # None
  BY ConstantsAssumption
<1> QED
  BY <1>1, <1>2 DEF SubmitterInv, Clients

LEMMA ReturnKeeps ==
  ASSUME SubmitterInv, SubmitReturn
  PROVE  SubmitterInv'
<1> DEFINE told == IF sub.reply.err THEN Failing(sub.batch)
                   ELSE [c \in Items(sub.batch) |->
                           [err |-> FALSE,
                            refused |-> ItemErrors(sub.batch, IndexOf(sub.batch, c),
                                                   sub.reply.refused)]]
<1>1. /\ sub.pc = "call" /\ sub.reply # None /\ InFlush /\ Respond(told) /\ AfterFlush
      /\ free' = free \cup {sub.client}
      /\ UNCHANGED <<ctx, caller, inCh, calls, looker, log, sent>>
  BY DEF SubmitReturn, InFlush
<1>2. DOMAIN told = Items(sub.batch) /\ Fair(told)
  <2>1. CASE sub.reply.err
    BY <2>1, FailingIs
  <2>2. CASE ~sub.reply.err
    <3>1. PICK s \in Seq(Caller) : s = sub.batch /\ sub.reply.refused = Results(s)
      BY <1>1 DEF SubmitterInv, Typed, SubState, Control
    <3>2. told = [c \in Items(s) |->
                    [err |-> FALSE, refused |-> ItemErrors(s, IndexOf(s, c), Results(s))]]
      BY <2>2, <3>1
    <3>3. ASSUME NEW c \in Items(s)
          PROVE  ItemErrors(s, IndexOf(s, c), Results(s)) = Refused[c]
      <4>1. IndexOf(s, c) \in DOMAIN s /\ s[IndexOf(s, c)] = c
        BY DEF Items, IndexOf
      <4>2. PICK j \in DOMAIN s : j = IndexOf(s, c) /\ s[j] = c
        BY <4>1
      <4>3. ItemErrors(s, j, Results(s)) = Refused[s[j]]
        BY ResultsCut
      <4> QED
        BY <4>2, <4>3
    <3>4. ASSUME NEW c \in Items(s)
          PROVE  Refused[c] \subseteq 0 .. MaxEvents
      <4>1. c \in Caller
        BY ItemsTyped
      <4>2. Size[c] <= MaxEvents
        BY <1>1, <3>1 DEF SubmitterInv, Sizes, Front
      <4>3. Refused[c] \subseteq 0 .. Size[c] - 1 /\ Size[c] \in Nat /\ MaxEvents \in Nat
        BY <4>1, ConstantsAssumption
      <4>4. 0 .. Size[c] - 1 \subseteq 0 .. MaxEvents
        BY <4>2, <4>3
      <4> QED
        BY <4>3, <4>4
    <3>5. ASSUME NEW c \in Items(s)
          PROVE  told[c] = [err |-> FALSE, refused |-> Refused[c]]
      BY <3>2, <3>3
    <3>6. DOMAIN told = Items(s)
      BY <3>2
    <3> HIDE DEF told
    <3>7. ASSUME NEW c \in Items(s)
          PROVE  told[c] \in Answers /\ told[c].refused = Refused[c]
      <4>1. PICK r \in SUBSET (0 .. MaxEvents) : r = Refused[c]
        BY <3>4
      <4>2. PICK x : x = [err |-> FALSE, refused |-> r]
        OBVIOUS
      <4>3. x \in Answers /\ x.refused = r
        BY <4>2 DEF Answers
      <4>4. told[c] = x
        BY <3>5, <4>1, <4>2
      <4> QED
        BY <4>1, <4>3, <4>4
    <3> QED
      BY <3>1, <3>6, <3>7 DEF Fair
  <2> QED
    BY <2>1, <2>2
<1> HIDE DEF told
<1>3. sub'.client = None
  BY <1>1, FlushEnds
<1>4. Clients' /\ free' \subseteq Client
  BY <1>1, <1>3, ClientBack
<1>5. Requests'
  <2>1. \A k \in Client : \A i \in DOMAIN calls[k] : calls[k][i].who # "submitter"
    BY <1>1 DEF SubmitterInv, Requests
  <2> QED
    BY <1>1, <2>1 DEF SubmitterInv, Requests
<1>6. calls' \in [Client -> Seq(Request)]
  BY <1>1 DEF SubmitterInv, Typed
<1>7. PICK answers : answers = told
  OBVIOUS
<1>8. Respond(answers) /\ DOMAIN answers = Items(sub.batch) /\ Fair(answers)
  BY <1>1, <1>2, <1>7
<1> QED
  BY <1>1, <1>4, <1>5, <1>6, <1>8, FlushAnswered

LEMMA AbandonKeeps ==
  ASSUME SubmitterInv, SubmitAbandon
  PROVE  SubmitterInv'
<1>1. /\ sub.pc = "call" /\ InFlush /\ ~ctx /\ Respond(Failing(sub.batch)) /\ AfterFlush
      /\ free' = free \cup {sub.client} /\ calls' = Orphaned("submitter")
      /\ UNCHANGED <<ctx, caller, inCh, looker, log, sent>>
  BY DEF SubmitAbandon, InFlush
<1>2. sub'.client = None
  BY <1>1, FlushEnds
<1>3. Clients' /\ free' \subseteq Client
  BY <1>1, <1>2, ClientBack
<1>4. /\ calls' \in [Client -> Seq(Request)]
      /\ \A k \in Client :
           /\ DOMAIN calls'[k] = DOMAIN calls[k]
           /\ \A i \in DOMAIN calls[k] :
                /\ calls'[k][i].batch = calls[k][i].batch
                /\ calls'[k][i].who = IF calls[k][i].who = "submitter" THEN None
                                      ELSE calls[k][i].who
  <2>1. calls \in [Client -> Seq(Request)]
    BY DEF SubmitterInv, Typed
  <2> QED
    BY <1>1, <2>1, OrphanedIs
<1>5. Requests'
  <2>1. None # "submitter"
    BY ConstantsAssumption
  <2>2. \A k \in Client : \A i \in DOMAIN calls'[k] :
          calls'[k][i].who # "submitter" /\ TotalTransfers(calls'[k][i].batch) <= MaxEvents
    BY <1>4, <2>1 DEF SubmitterInv, Requests
  <2> QED
    BY <1>1, <2>2 DEF Requests
<1>6. PICK answers : answers = Failing(sub.batch)
  OBVIOUS
<1>7. Respond(answers) /\ DOMAIN answers = Items(sub.batch) /\ Fair(answers)
  BY <1>1, <1>6, FailingIs
<1> QED
  BY <1>1, <1>3, <1>4, <1>5, <1>7, FlushAnswered

\* What is pending becomes the batch of a flush.
LEMMA FlushStarts ==
  ASSUME SubmitterInv, sub.pc = "select", NEW t \in Caller \cup {None}, NEW l \in BOOLEAN,
         l => t = None, pending' = <<>>, sub' = Flushing(pending, t, l)
  PROVE  /\ sub' \in SubState /\ pending' \in Seq(Caller) /\ Control'
         /\ Front' = Front /\ Kept' = {t} \ {None} /\ sub'.client = None /\ sub'.reply = None
         /\ sub'.pc # "call"
<1>1. pending \in Seq(Caller) /\ <<>> \in Seq(Caller) /\ Front = pending
  BY DEF SubmitterInv, Typed, Front, InFlush
<1>2. sub' = [pc |-> "acquire", batch |-> pending, then |-> t, last |-> l,
              client |-> None, reply |-> None]
  BY DEF Flushing, Selecting
<1>3. sub' \in SubState
  BY <1>1, <1>2 DEF SubState
<1>4. Front' = Front /\ Kept' = {t} \ {None}
  BY <1>1, <1>2 DEF Front, InFlush, Kept
<1>5. Control'
  BY <1>2 DEF Control, InFlush
<1> QED
  BY <1>1, <1>2, <1>3, <1>4, <1>5

\* While it gathers, the goroutine has no request and no client.
LEMMA SelectingIs ==
  ASSUME SubmitterInv, sub.pc = "select"
  PROVE  /\ \A k \in Client : \A i \in DOMAIN calls[k] : calls[k][i].who # "submitter"
         /\ sub.client = None /\ sub.reply = None /\ Kept = {} /\ Front = pending
<1>1. ~InFlush
  BY DEF InFlush
<1> QED
  BY <1>1 DEF SubmitterInv, Requests, Control, Kept, Front

\* The goroutine moves, without a client, and leaves the pool alone.
LEMMA OthersSame ==
  ASSUME SubmitterInv, sub.pc = "select", sub'.client = None,
         UNCHANGED <<ctx, free, calls, looker>>
  PROVE  Requests' /\ Clients'
<1>1. sub.client = None /\ \A k \in Client : \A i \in DOMAIN calls[k] : calls[k][i].who # "submitter"
  BY SelectingIs
<1>2. Requests'
  BY <1>1 DEF SubmitterInv, Requests
<1>3. Clients'
  BY <1>1 DEF SubmitterInv, Clients
<1> QED
  BY <1>2, <1>3

LEMMA TimerKeeps ==
  ASSUME SubmitterInv, Timer \/ Stop
  PROVE  SubmitterInv'
<1>1. /\ sub.pc = "select" /\ pending' = <<>>
      /\ UNCHANGED <<ctx, caller, doneCh, inCh, free, calls, looker, log, sent>>
  BY DEF Timer, Stop
<1>2. sub.client = None /\ sub.reply = None /\ Kept = {} /\ Front = pending
  BY <1>1, SelectingIs
<1>3. /\ sub' \in SubState /\ pending' \in Seq(Caller) /\ Control'
      /\ Front' = Front /\ Kept' = {} /\ sub'.client = None /\ sub'.reply = None
  <2>1. CASE \E l \in BOOLEAN : sub' = Flushing(pending, None, l)
    <3>1. PICK l \in BOOLEAN : sub' = Flushing(pending, None, l)
      BY <2>1
    <3> QED
      BY <1>1, <3>1, FlushStarts
  <2>2. CASE pending = <<>> /\ sub' = Stopped
    <3>1. sub' = [pc |-> "stopped", batch |-> <<>>, then |-> None, last |-> FALSE,
                  client |-> None, reply |-> None]
      BY <2>2 DEF Stopped, Selecting
    <3>2. <<>> \in Seq(Caller)
      OBVIOUS
    <3>3. sub' \in SubState
      BY <3>1, <3>2 DEF SubState
    <3> QED
      BY <1>1, <1>2, <2>2, <3>1, <3>2, <3>3 DEF Control, InFlush, Front, Kept
  <2> QED
    BY <2>1, <2>2 DEF Timer, Stop
<1>4. Requests' /\ Clients'
  BY <1>1, <1>3, OthersSame
<1>5. Typed' /\ Sent' /\ OwnResults'
  BY <1>1, <1>3 DEF SubmitterInv, Typed, Sent, OwnResults
<1>6. Sizes'
  BY <1>2, <1>3 DEF SubmitterInv, Sizes
<1>7. Waiting' = Waiting /\ Ahead' = Ahead
  BY <1>1, <1>2, <1>3 DEF Waiting, Ahead
<1>8. Lined' /\ Logged'
  BY <1>1, <1>2, <1>3, <1>7 DEF SubmitterInv, Lined, Logged
<1> QED
  BY <1>3, <1>4, <1>5, <1>6, <1>8 DEF SubmitterInv

LEMMA TakeKeeps ==
  ASSUME SubmitterInv, Take
  PROVE  SubmitterInv'
<1>1. PICK x \in Caller : x = Head(inCh)
  BY TailIs DEF SubmitterInv, Typed, Take
<1>2. /\ sub.pc = "select" /\ inCh # <<>> /\ inCh' = Tail(inCh)
      /\ UNCHANGED <<ctx, caller, free, calls, looker, log, sent>>
  BY DEF Take
<1>3. \/ Size[x] > MaxEvents /\ Respond(Failing(<<x>>)) /\ UNCHANGED <<pending, sub>>
      \/ /\ ~(Size[x] > MaxEvents) /\ UNCHANGED doneCh
         /\ IF Fits(x) THEN Gather(Append(pending, x)) ELSE Overflow(x)
  BY <1>1 DEF Take, submitterVars
<1>4. /\ sub.client = None /\ sub.reply = None /\ Kept = {} /\ Front = pending
      /\ pending \in Seq(Caller) /\ inCh \in Seq(Caller) /\ sent \in Seq(Caller)
      /\ Waiting \subseteq Items(sent) /\ Items(Front) \cup Kept \cup Items(inCh) = Waiting
  BY <1>2, SelectingIs, LineFacts
<1>5. /\ inCh' \in Seq(Caller) /\ Len(inCh') <= MaxEvents /\ Items(inCh) = {x} \cup Items(inCh')
  <2>1. inCh' \in Seq(Caller) /\ Len(inCh') = Len(inCh) - 1 /\ Len(inCh) \in Nat
    BY <1>2, <1>4, TailIs
  <2>2. Len(inCh) <= MaxEvents /\ MaxEvents \in Nat
    BY ConstantsAssumption DEF SubmitterInv, Typed
  <2>3. Len(inCh') <= MaxEvents
    BY <2>1, <2>2
  <2> QED
    BY <1>1, <1>2, <1>4, <2>1, <2>3, ItemsOfTail
<1>6. /\ Line(sent, Waiting, Append(pending, x), {}, inCh')
      /\ Line(sent, Waiting, pending, {x}, inCh')
      /\ Line(sent, Waiting \ {x}, pending, {}, inCh')
  <2>1. Line(sent, Waiting, pending, {}, inCh)
    BY <1>4 DEF SubmitterInv, Lined
  <2> QED
    BY <1>1, <1>2, <1>4, <2>1, LineTake
<1>7. CASE Size[x] > MaxEvents /\ Respond(Failing(<<x>>)) /\ UNCHANGED <<pending, sub>>
  <2>1. PICK answers : answers = Failing(<<x>>)
    OBVIOUS
  <2>2. Respond(answers) /\ DOMAIN answers = {x} /\ Fair(answers)
    BY <1>7, <2>1, FailingIs, ItemsOfOne
  <2>3. DOMAIN answers \subseteq Waiting
    BY <1>4, <1>5, <2>2
  <2>4. /\ doneCh' \in [Caller -> Answers \cup {None}]
        /\ Waiting' = Waiting \ {x} /\ OwnResults'
        /\ \A c \in Caller : doneCh'[c] # None => c \in Items(sent')
    BY <1>2, <2>2, <2>3, RespondIs
  <2>5. Front' = Front /\ Kept' = Kept
    BY <1>7 DEF Front, InFlush, Kept
  <2>6. Typed' /\ Control' /\ Sent'
    BY <1>2, <1>5, <1>7, <2>4 DEF SubmitterInv, Typed, Control, InFlush, Sent
  <2>7. Requests' /\ Clients'
    BY <1>2, <1>4, <1>7, OthersSame
  <2>8. Sizes' /\ Lined'
    BY <1>2, <1>4, <1>6, <2>4, <2>5 DEF SubmitterInv, Sizes, Lined
  <2>9. Ahead' \subseteq Ahead
    BY <1>5, <1>7, <2>5 DEF Ahead
  <2>10. Logged'
    BY <1>2, <2>9, LogsLess DEF SubmitterInv, Logged
  <2> QED
    BY <2>4, <2>6, <2>7, <2>8, <2>10 DEF SubmitterInv
<1>8. CASE /\ ~(Size[x] > MaxEvents) /\ UNCHANGED doneCh
           /\ IF Fits(x) THEN Gather(Append(pending, x)) ELSE Overflow(x)
  <2>1. Size[x] \in Nat /\ MaxEvents \in Nat /\ Size[x] <= MaxEvents
    BY <1>8, ConstantsAssumption
  <2>2. Waiting' = Waiting
    BY <1>2, <1>8 DEF Waiting
  <2>3. /\ sub' \in SubState /\ pending' \in Seq(Caller) /\ Control'
        /\ sub'.client = None /\ sub'.reply = None
        /\ Sizes' /\ Lined' /\ Items(Front') \cup Kept' = Items(pending) \cup {x}
    <3>1. CASE Fits(x)
      <4>1. Append(pending, x) \in Seq(Caller) /\ Items(Append(pending, x)) = Items(pending) \cup {x}
        BY <1>4, AppendIs, ItemsOfMore
      <4>2. PICK s \in Seq(Caller) : s = Append(pending, x)
        BY <4>1
      <4>3. /\ sub' \in SubState /\ pending' \in Seq(Caller) /\ Control'
            /\ Front' = s /\ Kept' = {} /\ sub'.client = None /\ sub'.reply = None
        BY <1>8, <3>1, <4>2, GatherIs
      <4>4. TotalTransfers(s) = TotalTransfers(pending) + Size[x] /\ TotalTransfers(pending) \in Nat
        BY <1>4, <4>2, TotalOfMore, TotalIs
      <4>5. TotalTransfers(s) <= MaxEvents
        <5>1. CASE pending = <<>>
          <6>1. TotalTransfers(pending) = 0
            BY <5>1, TotalOfNone
          <6> QED
            BY <2>1, <4>4, <6>1
        <5>2. CASE TotalTransfers(pending) + Size[x] <= MaxEvents
          BY <4>4, <5>2
        <5> QED
          BY <3>1, <5>1, <5>2 DEF Fits
      <4>6. Sizes'
        BY <1>4, <2>1, <4>1, <4>2, <4>3, <4>5 DEF SubmitterInv, Sizes
      <4>7. Lined'
        BY <1>2, <1>6, <2>2, <4>2, <4>3 DEF Lined
      <4> QED
        BY <4>1, <4>2, <4>3, <4>6, <4>7
    <3>2. CASE ~Fits(x)
      <4>1. pending' = <<>> /\ sub' = Flushing(pending, x, FALSE)
        BY <1>8, <3>2 DEF Overflow
      <4>2. /\ sub' \in SubState /\ pending' \in Seq(Caller) /\ Control'
            /\ Front' = Front /\ Kept' = {x} \ {None} /\ sub'.client = None /\ sub'.reply = None
        BY <1>2, <4>1, FlushStarts
      <4>3. Kept' = {x}
        BY <4>2, ConstantsAssumption
      <4>4. Sizes'
        BY <1>4, <2>1, <4>2, <4>3 DEF SubmitterInv, Sizes
      <4>5. Lined'
        BY <1>2, <1>4, <1>6, <2>2, <4>2, <4>3 DEF Lined
      <4> QED
        BY <1>4, <4>2, <4>3, <4>4, <4>5
    <3> QED
      BY <3>1, <3>2
  <2>4. Typed' /\ Sent' /\ OwnResults'
    BY <1>2, <1>5, <1>8, <2>3 DEF SubmitterInv, Typed, Sent, OwnResults
  <2>5. Requests' /\ Clients'
    BY <1>2, <2>3, OthersSame
  <2>6. Ahead' = Ahead
    BY <1>4, <1>5, <2>3 DEF Ahead
  <2>7. Logged'
    BY <1>2, <2>6 DEF SubmitterInv, Logged
  <2> QED
    BY <2>3, <2>4, <2>5, <2>7 DEF SubmitterInv
<1> QED
  BY <1>3, <1>7, <1>8

LEMMA AcquireKeeps ==
  ASSUME SubmitterInv, NEW k \in Client, Acquire(k)
  PROVE  SubmitterInv'
<1>1. /\ sub.pc = "acquire" /\ InFlush /\ k \in free /\ free' = free \ {k}
      /\ calls' = [calls EXCEPT ![k] = Append(@, [who |-> "submitter", batch |-> sub.batch])]
      /\ sub' = [sub EXCEPT !.pc = "call", !.client = k]
      /\ UNCHANGED <<ctx, caller, doneCh, inCh, pending, looker, log, sent>>
  BY DEF Acquire, InFlush
<1>2. /\ sub \in SubState /\ sub.client = None /\ sub.reply = None /\ k # None
      /\ calls \in [Client -> Seq(Request)]
  BY <1>1, ConstantsAssumption DEF SubmitterInv, Typed, Control
<1>3. /\ sub'.pc = "call" /\ sub'.client = k /\ sub'.batch = sub.batch /\ sub'.then = sub.then
      /\ sub'.last = sub.last /\ sub'.reply = None /\ sub' \in SubState
  BY <1>1, <1>2 DEF SubState
<1>4. PICK r \in Request : r = [who |-> "submitter", batch |-> sub.batch]
  BY <1>2 DEF SubState, Request
<1>5. /\ calls' \in [Client -> Seq(Request)]
      /\ \A m \in Client : \A i \in DOMAIN calls'[m] :
           \/ i \in DOMAIN calls[m] /\ calls'[m][i] = calls[m][i]
           \/ m = k /\ i = Len(calls[k]) + 1 /\ calls'[m][i] = r
  BY <1>1, <1>2, <1>4, RequestMore
<1>6. Front' = Front /\ Kept' = Kept /\ Waiting' = Waiting /\ Front = sub.batch
  BY <1>1, <1>3 DEF Front, InFlush, Kept, Waiting
<1>7. Typed' /\ Sent' /\ OwnResults'
  BY <1>1, <1>3, <1>5 DEF SubmitterInv, Typed, Sent, OwnResults
<1>8. Control'
  BY <1>1, <1>2, <1>3 DEF SubmitterInv, Control, InFlush
<1>9. Sizes' /\ Lined'
  BY <1>1, <1>6 DEF SubmitterInv, Sizes, Lined
<1>10. Logged'
  <2>1. Ahead' = Ahead
    BY <1>1, <1>2, <1>3, <1>6 DEF Ahead
  <2> QED
    BY <1>1, <2>1 DEF SubmitterInv, Logged
<1>11. Clients'
  <2>1. looker \in [Looker -> Client \cup {"new", "returned"}]
    BY DEF SubmitterInv, Typed
  <2>2. \A l \in Looker : looker[l] # k
    BY <1>1 DEF SubmitterInv, Clients
  <2>3. ASSUME NEW m \in Client
        PROVE  m \in free' <=> sub'.client # m /\ \A n \in Looker : looker'[n] # m
    <3>1. m \in free <=> \A n \in Looker : looker[n] # m
      BY <1>2, ConstantsAssumption DEF SubmitterInv, Clients
    <3>2. m \in free' <=> m \in free /\ m # k
      BY <1>1
    <3> QED
      BY <1>1, <1>3, <2>2, <3>1, <3>2
  <2>4. \A n \in Looker : looker'[n] \in Client =>
          sub'.client # looker'[n] /\ \A m \in Looker : looker'[m] = looker'[n] => m = n
    BY <1>1, <1>3, <2>2 DEF SubmitterInv, Clients
  <2> QED
    BY <2>3, <2>4 DEF Clients
<1>12. Requests'
  <2>1. \A m \in Client : \A i \in DOMAIN calls[m] : calls[m][i].who # "submitter"
    BY <1>1 DEF SubmitterInv, Requests
  <2>2. TotalTransfers(sub.batch) <= MaxEvents /\ r.who = "submitter" /\ r.batch = sub.batch
    BY <1>4, <1>6 DEF SubmitterInv, Sizes
  <2>3. \A m \in Client : \A i \in DOMAIN calls[m] :
          /\ TotalTransfers(calls[m][i].batch) <= MaxEvents
          /\ ctx /\ calls[m][i].who # "submitter" => calls[m][i].batch = <<>>
    BY DEF SubmitterInv, Requests
  <2> SUFFICES ASSUME NEW m \in Client, NEW i \in DOMAIN calls'[m]
               PROVE  /\ TotalTransfers(calls'[m][i].batch) <= MaxEvents
                      /\ calls'[m][i].who = "submitter" =>
                           /\ m = k /\ sub.batch = calls'[m][i].batch
                           /\ \A j \in DOMAIN calls'[m] : calls'[m][j].who = "submitter" => i = j
                      /\ ctx /\ calls'[m][i].who # "submitter" => calls'[m][i].batch = <<>>
    BY <1>1, <1>3 DEF Requests
  <2>4. CASE i \in DOMAIN calls[m] /\ calls'[m][i] = calls[m][i]
    BY <2>1, <2>3, <2>4
  <2>5. CASE m = k /\ i = Len(calls[k]) + 1 /\ calls'[m][i] = r
    BY <1>5, <2>1, <2>2, <2>5
  <2> QED
    BY <1>5, <2>4, <2>5
<1> QED
  BY <1>7, <1>8, <1>9, <1>10, <1>11, <1>12 DEF SubmitterInv

LEMMA LookupStartKeeps ==
  ASSUME SubmitterInv, NEW l \in Looker, NEW k \in Client, LookupStart(l, k)
  PROVE  SubmitterInv'
<1>1. /\ looker[l] = "new" /\ k \in free /\ free' = free \ {k}
      /\ calls' = [calls EXCEPT ![k] = Append(@, [who |-> l, batch |-> <<>>])]
      /\ looker' = [looker EXCEPT ![l] = k]
      /\ UNCHANGED <<ctx, caller, doneCh, inCh, pending, sub, log, sent>>
  BY DEF LookupStart, submitterVars
<1>2. Control' /\ Sizes' /\ Lined' /\ Logged' /\ OwnResults'
  BY <1>1, LineSame
<1>3. /\ calls \in [Client -> Seq(Request)]
      /\ looker \in [Looker -> Client \cup {"new", "returned"}]
  BY DEF SubmitterInv, Typed
<1>4. PICK r \in Request : r = [who |-> l, batch |-> <<>>]
  <2>1. <<>> \in Seq(Caller)
    OBVIOUS
  <2>2. \A e \in Seq(Caller) : [who |-> l, batch |-> e] \in Request
    BY DEF Request
  <2>3. [who |-> l, batch |-> <<>>] \in Request
    BY <2>1, <2>2
  <2> QED
    BY <2>3, Zenon
<1>5. /\ calls' \in [Client -> Seq(Request)]
      /\ \A m \in Client : \A i \in DOMAIN calls'[m] :
           \/ i \in DOMAIN calls[m] /\ calls'[m][i] = calls[m][i]
           \/ m = k /\ i = Len(calls[k]) + 1 /\ calls'[m][i] = r
  BY <1>1, <1>3, <1>4, RequestMore
<1>6. Typed' /\ Sent'
  BY <1>1, <1>5 DEF SubmitterInv, Typed, Sent
<1>7. Clients'
  <2>1. \A m \in Client : m # "new" /\ m # "returned"
    BY ConstantsAssumption
  <2>2. (\A m \in Looker : looker[m] # k) /\ sub.client # k
    BY <1>1 DEF SubmitterInv, Clients
  <2>3. \A m \in Looker : looker'[m] = IF m = l THEN k ELSE looker[m]
    BY <1>1, <1>3
  <2>4. \A m \in Client : m \in free' <=> sub'.client # m /\ \A n \in Looker : looker'[n] # m
    BY <1>1, <2>1, <2>2, <2>3 DEF SubmitterInv, Clients
  <2>5. \A n \in Looker : looker'[n] \in Client =>
          sub'.client # looker'[n] /\ \A m \in Looker : looker'[m] = looker'[n] => m = n
    BY <1>1, <2>2, <2>3 DEF SubmitterInv, Clients
  <2> QED
    BY <2>4, <2>5 DEF Clients
<1>8. Requests'
  <2>1. r.who # "submitter" /\ r.batch = <<>> /\ TotalTransfers(r.batch) <= MaxEvents
    <3>1. MaxEvents \in Nat /\ l # "submitter"
      BY ConstantsAssumption
    <3> QED
      BY <1>4, <3>1, TotalOfNone
  <2> QED
    BY <1>1, <1>5, <2>1 DEF SubmitterInv, Requests
<1> QED
  BY <1>2, <1>6, <1>7, <1>8 DEF SubmitterInv

LEMMA LookupEndKeeps ==
  ASSUME SubmitterInv, NEW l \in Looker, LookupEnd(l)
  PROVE  SubmitterInv'
<1>1. /\ looker[l] \in Client /\ free' = free \cup {looker[l]} /\ calls' = Orphaned(l)
      /\ looker' = [looker EXCEPT ![l] = "returned"]
      /\ UNCHANGED <<ctx, caller, doneCh, inCh, pending, sub, log, sent>>
  BY DEF LookupEnd, submitterVars
<1>2. Control' /\ Sizes' /\ Lined' /\ Logged' /\ OwnResults'
  BY <1>1, LineSame
<1>3. /\ calls \in [Client -> Seq(Request)]
      /\ looker \in [Looker -> Client \cup {"new", "returned"}]
  BY DEF SubmitterInv, Typed
<1>4. /\ calls' \in [Client -> Seq(Request)]
      /\ \A k \in Client :
           /\ DOMAIN calls'[k] = DOMAIN calls[k]
           /\ \A i \in DOMAIN calls[k] :
                /\ calls'[k][i].batch = calls[k][i].batch
                /\ calls'[k][i].who = IF calls[k][i].who = l THEN None ELSE calls[k][i].who
  BY <1>1, <1>3, OrphanedIs
<1>5. Typed' /\ Sent'
  BY <1>1, <1>4 DEF SubmitterInv, Typed, Sent
<1>6. Clients'
  <2>1. \A m \in Client : m # "new" /\ m # "returned"
    BY ConstantsAssumption
  <2>2. \A m \in Looker : looker'[m] = IF m = l THEN "returned" ELSE looker[m]
    BY <1>1, <1>3
  <2>3. sub.client # looker[l] /\ \A m \in Looker : looker[m] = looker[l] => m = l
    BY <1>1 DEF SubmitterInv, Clients
  <2>4. ASSUME NEW m \in Client
        PROVE  m \in free' <=> sub'.client # m /\ \A n \in Looker : looker'[n] # m
    BY <1>1, <2>1, <2>2, <2>3 DEF SubmitterInv, Clients
  <2>5. \A n \in Looker : looker'[n] \in Client =>
          sub'.client # looker'[n] /\ \A m \in Looker : looker'[m] = looker'[n] => m = n
    BY <1>1, <2>1, <2>2 DEF SubmitterInv, Clients
  <2> QED
    BY <2>4, <2>5 DEF Clients
<1>7. Requests'
  <2>1. l # "submitter" /\ None # "submitter"
    BY ConstantsAssumption
  <2>2. \A k \in Client : \A i \in DOMAIN calls[k] :
          calls'[k][i].who = "submitter" <=> calls[k][i].who = "submitter"
    BY <1>4, <2>1
  <2> QED
    BY <1>1, <1>4, <2>2 DEF SubmitterInv, Requests
<1> QED
  BY <1>2, <1>5, <1>6, <1>7 DEF SubmitterInv

LEMMA ExecuteKeeps ==
  ASSUME SubmitterInv, NEW k \in Client, Execute(k)
  PROVE  SubmitterInv'
<1>1. PICK err \in BOOLEAN, run \in BOOLEAN :
        /\ log' = IF run THEN log \o Head(calls[k]).batch ELSE log
        /\ sub' = IF Head(calls[k]).who = "submitter"
                  THEN [sub EXCEPT !.reply = [err |-> err,
                                              refused |-> Results(Head(calls[k]).batch)]]
                  ELSE sub
  BY DEF Execute
<1>2. /\ calls[k] # <<>> /\ calls' = [calls EXCEPT ![k] = Tail(@)]
      /\ UNCHANGED <<ctx, caller, doneCh, inCh, pending, free, looker, sent>>
  BY DEF Execute
<1>3. /\ calls \in [Client -> Seq(Request)] /\ sub \in SubState /\ log \in Seq(Caller)
  BY DEF SubmitterInv, Typed
<1>4. /\ calls' \in [Client -> Seq(Request)]
      /\ 1 \in DOMAIN calls[k] /\ Head(calls[k]) = calls[k][1] /\ Head(calls[k]) \in Request
      /\ \A m \in Client : m # k => calls'[m] = calls[m]
      /\ \A i \in DOMAIN calls'[k] :
           i + 1 \in DOMAIN calls[k] /\ calls'[k][i] = calls[k][i + 1] /\ i + 1 # 1 /\ i \in Nat
  BY <1>2, <1>3, RequestLess
<1>5. PICK req \in Request : req = Head(calls[k]) /\ req = calls[k][1]
  BY <1>4
<1>6. req.batch \in Seq(Caller)
  BY DEF Request
<1>7. log' \in Seq(Caller)
  BY <1>1, <1>3, <1>5, <1>6, ConcatIs
<1>8. CASE req.who # "submitter"
  <2>1. sub' = sub
    BY <1>1, <1>5, <1>8
  <2>2. ctx => log' = log
    <3>1. ctx => req.batch = <<>>
      BY <1>4, <1>5, <1>8 DEF SubmitterInv, Requests
    <3>2. log \o <<>> = log
      BY <1>3
    <3> QED
      BY <1>1, <1>5, <3>1, <3>2
  <2>3. Front' = Front /\ Kept' = Kept /\ Waiting' = Waiting
    BY <1>2, <2>1 DEF Front, InFlush, Kept, Waiting
  <2>4. Ahead' = Ahead
    BY <1>2, <2>1, <2>3 DEF Ahead
  <2>5. Typed' /\ Sent' /\ Clients' /\ OwnResults'
    BY <1>2, <1>4, <1>7, <2>1 DEF SubmitterInv, Typed, Sent, Clients, OwnResults
  <2>6. Control' /\ Sizes' /\ Lined'
    BY <1>2, <2>1, <2>3 DEF SubmitterInv, Control, InFlush, Sizes, Lined
  <2>7. Logged'
    BY <1>2, <2>2, <2>4 DEF SubmitterInv, Logged
  <2>8. Requests'
    <3>1. ASSUME NEW m \in Client, NEW i \in DOMAIN calls'[m]
          PROVE  /\ TotalTransfers(calls'[m][i].batch) <= MaxEvents
                 /\ calls'[m][i].who = "submitter" =>
                      /\ sub.pc = "call" /\ sub.client = m /\ sub.batch = calls'[m][i].batch
                      /\ sub.reply = None
                      /\ \A j \in DOMAIN calls'[m] : calls'[m][j].who = "submitter" => i = j
                 /\ ctx /\ calls'[m][i].who # "submitter" => calls'[m][i].batch = <<>>
      <4>1. CASE m # k
        BY <1>4, <4>1 DEF SubmitterInv, Requests
      <4>2. CASE m = k
        <5>1. i + 1 \in DOMAIN calls[k] /\ calls'[k][i] = calls[k][i + 1] /\ i \in Nat
          BY <1>4, <4>2
        <5>2. ASSUME NEW j \in DOMAIN calls'[k], calls'[k][i].who = "submitter",
                     calls'[k][j].who = "submitter"
              PROVE  i = j
          <6>1. j + 1 \in DOMAIN calls[k] /\ calls'[k][j] = calls[k][j + 1] /\ j \in Nat
            BY <1>4
          <6>2. i + 1 = j + 1
            BY <5>1, <5>2, <6>1 DEF SubmitterInv, Requests
          <6> QED
            BY <5>1, <6>1, <6>2
        <5>3. /\ TotalTransfers(calls[k][i + 1].batch) <= MaxEvents
              /\ calls[k][i + 1].who = "submitter" =>
                   /\ sub.pc = "call" /\ sub.client = k /\ sub.batch = calls[k][i + 1].batch
                   /\ sub.reply = None
              /\ ctx /\ calls[k][i + 1].who # "submitter" => calls[k][i + 1].batch = <<>>
          BY <5>1 DEF SubmitterInv, Requests
        <5> QED
          BY <4>2, <5>1, <5>2, <5>3
      <4> QED
        BY <4>1, <4>2
    <3> QED
      BY <1>2, <2>1, <3>1 DEF Requests
  <2> QED
    BY <2>5, <2>6, <2>7, <2>8 DEF SubmitterInv
<1>9. CASE req.who = "submitter"
  <2>1. /\ sub.pc = "call" /\ InFlush /\ sub.client = k /\ sub.batch = req.batch /\ sub.reply = None
        /\ TotalTransfers(req.batch) <= MaxEvents
        /\ \A j \in DOMAIN calls[k] : calls[k][j].who = "submitter" => 1 = j
    BY <1>4, <1>5, <1>9 DEF SubmitterInv, Requests, InFlush
  <2>2. PICK ans : ans = [err |-> err, refused |-> Results(req.batch)]
    OBVIOUS
  <2>3. ans \in Answers /\ ans # None /\ ans.refused = Results(req.batch)
    <3>1. Results(req.batch) \subseteq 0 .. TotalTransfers(req.batch) /\ TotalTransfers(req.batch) \in Nat
      BY <1>6, ResultsCut, TotalIs
    <3>2. 0 .. TotalTransfers(req.batch) \subseteq 0 .. MaxEvents
      BY <2>1, <3>1, ConstantsAssumption
    <3>3. PICK w \in SUBSET (0 .. MaxEvents) : w = Results(req.batch)
      BY <3>1, <3>2
    <3>4. ans = [err |-> err, refused |-> w]
      BY <2>2, <3>3
    <3>5. ans \in Answers /\ ans.refused = w
      BY <3>4 DEF Answers
    <3> QED
      BY <3>3, <3>5, ConstantsAssumption
  <2>4. sub' = [sub EXCEPT !.reply = ans]
    BY <1>1, <1>5, <1>9, <2>2
  <2>5. /\ sub'.pc = sub.pc /\ sub'.client = sub.client /\ sub'.batch = sub.batch
        /\ sub'.then = sub.then /\ sub'.last = sub.last /\ sub'.reply = ans /\ sub' \in SubState
    BY <1>3, <2>3, <2>4 DEF SubState
  <2>6. Front' = Front /\ Kept' = Kept /\ Waiting' = Waiting /\ Front = sub.batch
    BY <1>2, <2>1, <2>5 DEF Front, InFlush, Kept, Waiting
  <2>7. Typed' /\ Sent' /\ Clients' /\ OwnResults'
    BY <1>2, <1>4, <1>7, <2>5 DEF SubmitterInv, Typed, Sent, Clients, OwnResults
  <2>8. Control'
    BY <1>2, <2>1, <2>3, <2>5 DEF SubmitterInv, Control, InFlush
  <2>9. Sizes' /\ Lined'
    BY <1>2, <2>6 DEF SubmitterInv, Sizes, Lined
  <2>10. Logged'
    <3> SUFFICES ASSUME ctx PROVE Logs(sent, log', Ahead')
      BY <1>2 DEF Logged
    <3>1. Ahead = Items(Front) \cup (Kept \cup Items(inCh)) /\ Ahead' = Kept \cup Items(inCh)
      BY <1>2, <2>1, <2>3, <2>5, <2>6 DEF Ahead
    <3>2. Logs(sent, log, Ahead)
      BY DEF SubmitterInv, Logged
    <3>3. log' = log \/ log' = log \o Front
      BY <1>1, <1>5, <2>1, <2>6
    <3>4. /\ Front \in Seq(Caller) /\ Items(Front) \subseteq Items(sent) /\ Rising(sent, Front)
          /\ Before(sent, Items(Front), Kept) /\ Before(sent, Items(Front), Items(inCh))
      BY LineFacts DEF SubmitterInv, Lined, Line
    <3>5. Before(sent, Items(Front), Ahead')
      BY <3>1, <3>4 DEF Before
    <3>6. Logs(sent, log \o Front, Ahead')
      BY <1>3, <3>1, <3>2, <3>4, <3>5, LogsRun
    <3>7. Logs(sent, log, Ahead')
      BY <3>1, <3>2, LogsLess
    <3> QED
      BY <3>3, <3>6, <3>7
  <2>11. Requests'
    <3>1. ASSUME NEW m \in Client, NEW i \in DOMAIN calls'[m]
          PROVE  /\ TotalTransfers(calls'[m][i].batch) <= MaxEvents
                 /\ calls'[m][i].who # "submitter"
                 /\ ctx => calls'[m][i].batch = <<>>
      <4>1. CASE m # k
        <5>1. calls'[m] = calls[m]
          BY <1>4, <4>1
        <5>2. calls[m][i].who # "submitter"
          BY <2>1, <4>1, <5>1 DEF SubmitterInv, Requests
        <5> QED
          BY <5>1, <5>2 DEF SubmitterInv, Requests
      <4>2. CASE m = k
        <5>1. i + 1 \in DOMAIN calls[k] /\ calls'[k][i] = calls[k][i + 1] /\ i + 1 # 1
          BY <1>4, <4>2
        <5>2. calls[k][i + 1].who # "submitter"
          BY <2>1, <5>1
        <5> QED
          BY <4>2, <5>1, <5>2 DEF SubmitterInv, Requests
      <4> QED
        BY <4>1, <4>2
    <3> QED
      BY <1>2, <3>1 DEF Requests
  <2> QED
    BY <2>7, <2>8, <2>9, <2>10, <2>11 DEF SubmitterInv
<1> QED
  BY <1>8, <1>9

LEMMA InvNext == SubmitterInv /\ [Next]_vars => SubmitterInv'
<1> SUFFICES ASSUME SubmitterInv, [Next]_vars PROVE SubmitterInv'
  OBVIOUS
<1>1. ASSUME NEW c \in Caller, Send(c) \/ Leave(c) \/ Return(c) PROVE SubmitterInv'
  BY <1>1, SendKeeps, CallerMoves
<1>2. CASE Take
  BY <1>2, TakeKeeps
<1>3. CASE Timer \/ Stop
  BY <1>3, TimerKeeps
<1>4. ASSUME NEW k \in Client, Acquire(k) PROVE SubmitterInv'
  BY <1>4, AcquireKeeps
<1>5. CASE AcquireCancelled
  BY <1>5, CancelKeeps
<1>6. CASE SubmitReturn
  BY <1>6, ReturnKeeps
<1>7. CASE SubmitAbandon
  BY <1>7, AbandonKeeps
<1>8. ASSUME NEW l \in Looker, NEW k \in Client, LookupStart(l, k) PROVE SubmitterInv'
  BY <1>8, LookupStartKeeps
<1>9. ASSUME NEW l \in Looker, LookupEnd(l) PROVE SubmitterInv'
  BY <1>9, LookupEndKeeps
<1>10. ASSUME NEW k \in Client, Execute(k) PROVE SubmitterInv'
  BY <1>10, ExecuteKeeps
<1>11. CASE Close
  BY <1>11, CloseKeeps
<1>12. CASE UNCHANGED vars
  <2>1. UNCHANGED <<ctx, caller, doneCh, inCh, pending, sub, free, calls, looker, log, sent>>
    BY <1>12 DEF vars
  <2>2. Control' /\ Sizes' /\ Lined' /\ Logged' /\ OwnResults'
    BY <2>1, LineSame
  <2>3. Typed' /\ Requests' /\ Clients' /\ Sent'
    BY <2>1 DEF SubmitterInv, Typed, Requests, Clients, Sent
  <2> QED
    BY <2>2, <2>3 DEF SubmitterInv
<1> QED
  BY <1>1, <1>2, <1>3, <1>4, <1>5, <1>6, <1>7, <1>8, <1>9, <1>10, <1>11, <1>12 DEF Next, Goroutine

-----------------------------------------------------------------------------
(* What the invariant says.                                                *)

LEMMA DistinctConcat ==
  ASSUME NEW s \in Seq(Caller), NEW t \in Seq(Caller), Distinct(s), Distinct(t),
         Items(s) \cap Items(t) = {}
  PROVE  s \o t \in Seq(Caller) /\ Distinct(s \o t) /\ Items(s \o t) = Items(s) \cup Items(t)
<1>1. PICK u \in Seq(Caller) : u = s \o t
  BY ConcatIs
<1>2. ASSUME NEW i \in DOMAIN u
      PROVE  \/ i \in DOMAIN s /\ u[i] = s[i]
             \/ i > Len(s) /\ i - Len(s) \in DOMAIN t /\ u[i] = t[i - Len(s)]
  BY <1>1, ConcatPlace
<1>3. Len(s) \in Nat /\ \A i \in DOMAIN u : i \in Nat
  OBVIOUS
<1>4. ASSUME NEW i \in DOMAIN u, NEW j \in DOMAIN u, u[i] = u[j]
      PROVE  i = j
  <2>1. CASE i \in DOMAIN s /\ u[i] = s[i] /\ j \in DOMAIN s /\ u[j] = s[j]
    BY <1>4, <2>1 DEF Distinct
  <2>2. CASE i \in DOMAIN s /\ u[i] = s[i] /\ j - Len(s) \in DOMAIN t /\ u[j] = t[j - Len(s)]
    BY <1>4, <2>2 DEF Items
  <2>3. CASE j \in DOMAIN s /\ u[j] = s[j] /\ i - Len(s) \in DOMAIN t /\ u[i] = t[i - Len(s)]
    BY <1>4, <2>3 DEF Items
  <2>4. CASE /\ i - Len(s) \in DOMAIN t /\ u[i] = t[i - Len(s)]
             /\ j - Len(s) \in DOMAIN t /\ u[j] = t[j - Len(s)]
    <3>1. i - Len(s) = j - Len(s)
      BY <1>4, <2>4 DEF Distinct
    <3> QED
      BY <1>3, <3>1
  <2> QED
    BY <1>2, <2>1, <2>2, <2>3, <2>4
<1>5. Items(u) = Items(s) \cup Items(t)
  BY <1>1, ItemsOfConcat
<1> QED
  BY <1>1, <1>4, <1>5 DEF Distinct

\* Every unanswered item is in one place of one of the sequences that hold them.
LEMMA GatheredIs ==
  ASSUME SubmitterInv
  PROVE  Gathered \in Seq(Caller) /\ Distinct(Gathered) /\ Items(Gathered) = Waiting
<1>1. /\ Front \in Seq(Caller) /\ inCh \in Seq(Caller) /\ sent \in Seq(Caller)
      /\ Waiting \subseteq Items(sent) /\ Items(Front) \cup Kept \cup Items(inCh) = Waiting
      /\ KeptAside \in Seq(Caller) /\ Items(KeptAside) = Kept /\ Rising(sent, KeptAside)
  BY LineFacts
<1>2. /\ pending \in Seq(Caller) /\ sub.batch \in Seq(Caller)
  BY DEF SubmitterInv, Typed, SubState
<1>3. Distinct(Front) /\ Distinct(inCh) /\ Distinct(KeptAside)
  BY <1>1, RisingDistinct DEF SubmitterInv, Lined, Line
<1>4. /\ Items(Front) \cap Items(KeptAside) = {} /\ Items(Front) \cap Items(inCh) = {}
      /\ Items(KeptAside) \cap Items(inCh) = {}
  BY <1>1, BeforeDisjoint DEF SubmitterInv, Lined, Line
<1>5. (pending = Front /\ sub.batch = <<>>) \/ (pending = <<>> /\ sub.batch = Front)
  BY DEF SubmitterInv, Control, Front, InFlush
<1>6. /\ Distinct(pending) /\ Distinct(sub.batch) /\ Items(pending) \cap Items(sub.batch) = {}
      /\ Items(pending) \cup Items(sub.batch) = Items(Front)
  <2>1. Distinct(<<>>) /\ Items(<<>>) = {}
    BY ItemsOfNone DEF Distinct
  <2> QED
    BY <1>3, <1>5, <2>1
<1>7. PICK g \in Seq(Caller) : g = inCh \o pending
  BY <1>1, <1>2, ConcatIs
<1>8. Distinct(g) /\ Items(g) = Items(inCh) \cup Items(pending)
  BY <1>1, <1>2, <1>3, <1>4, <1>6, <1>7, DistinctConcat
<1>9. PICK h \in Seq(Caller) : h = g \o sub.batch
  BY <1>2, ConcatIs
<1>10. Distinct(h) /\ Items(h) = Items(g) \cup Items(sub.batch)
  BY <1>2, <1>4, <1>6, <1>8, <1>9, DistinctConcat
<1>11. PICK f \in Seq(Caller) : f = h \o KeptAside
  BY <1>1, ConcatIs
<1>12. Distinct(f) /\ Items(f) = Items(h) \cup Items(KeptAside)
  BY <1>1, <1>3, <1>4, <1>6, <1>8, <1>10, <1>11, DistinctConcat
<1>13. Gathered = f
  BY <1>7, <1>9, <1>11 DEF Gathered, KeptAside
<1> QED
  BY <1>1, <1>6, <1>8, <1>10, <1>12, <1>13

LEMMA InvGivesTypeOK == SubmitterInv => TypeOK
<1> SUFFICES ASSUME SubmitterInv PROVE TypeOK
  OBVIOUS
<1>1. Typed /\ Requests
  BY DEF SubmitterInv
<1>2. \A k \in Client : \A i \in DOMAIN calls[k] : TotalTransfers(calls[k][i].batch) <= MaxEvents
  BY <1>1 DEF Requests
<1>3. /\ sub.pc \in {"select", "acquire", "call", "stopped"}
      /\ sub.then \in Caller \cup {None} /\ sub.client \in Client \cup {None}
  BY <1>1 DEF Typed, SubState
<1> QED
  BY <1>1, <1>2, <1>3 DEF Typed, TypeOK

LEMMA InvGivesItems == SubmitterInv => ItemsConserved
<1> SUFFICES ASSUME SubmitterInv PROVE ItemsConserved
  OBVIOUS
<1>1. TypeOK
  BY InvGivesTypeOK
<1>2. PICK g \in Seq(Caller) : g = Gathered /\ Distinct(g) /\ Items(g) = Waiting
  BY GatheredIs
<1>3. ASSUME NEW c \in Caller
      PROVE  LET places == {i \in DOMAIN Gathered : Gathered[i] = c}
             IN  IF c \in Items(sent) /\ doneCh[c] = None
                 THEN Cardinality(places) = 1 ELSE places = {}
  <2> DEFINE places == {i \in DOMAIN g : g[i] = c}
  <2>1. CASE c \in Items(sent) /\ doneCh[c] = None
    <3>1. c \in Items(g)
      BY <1>2, <2>1 DEF Waiting
    <3>2. PICK i \in DOMAIN g : g[i] = c
      BY <3>1 DEF Items
    <3>3. places = {i}
      BY <1>2, <3>2 DEF Distinct
    <3>4. Cardinality(places) = 1
      BY <3>3, FS_Singleton
    <3> QED
      BY <1>2, <2>1, <3>4
  <2>2. CASE ~(c \in Items(sent) /\ doneCh[c] = None)
    <3>1. c \notin Items(g)
      BY <1>2, <2>2 DEF Waiting
    <3>2. places = {}
      BY <3>1 DEF Items
    <3> QED
      BY <1>2, <2>2, <3>2
  <2> QED
    BY <2>1, <2>2
<1>4. ASSUME ctx, NEW i \in DOMAIN log, NEW j \in DOMAIN log, i < j
      PROVE  IndexOf(sent, log[i]) < IndexOf(sent, log[j])
  <2>1. Items(log) \subseteq Items(sent) /\ Rising(sent, log)
    BY <1>4 DEF SubmitterInv, Logged, Logs
  <2>2. log[i] \in Items(sent) /\ log[j] \in Items(sent) /\ Earlier(sent, log[i], log[j])
    BY <1>4, <2>1 DEF Items, Rising
  <2>3. \A c \in Items(sent) : IndexOf(sent, c) \in DOMAIN sent /\ sent[IndexOf(sent, c)] = c
    BY DEF Items, IndexOf
  <2> QED
    BY <2>2, <2>3 DEF Earlier
<1> QED
  BY <1>1, <1>3, <1>4 DEF ItemsConserved

LEMMA InvGivesClients == SubmitterInv => ClientsConserved
<1> SUFFICES ASSUME SubmitterInv, NEW k \in Client
             PROVE  Cardinality({l \in Looker : looker[l] = k}) + (IF sub.client = k THEN 1 ELSE 0)
                      = (IF k \in free THEN 0 ELSE 1)
  BY DEF ClientsConserved
<1> DEFINE holders == {l \in Looker : looker[l] = k}
<1>1. /\ k \in free <=> sub.client # k /\ \A l \in Looker : looker[l] # k
      /\ \A l \in Looker : looker[l] = k =>
           sub.client # k /\ \A m \in Looker : looker[m] = k => m = l
  BY DEF SubmitterInv, Clients
<1>2. CASE holders = {}
  <2>1. Cardinality(holders) = 0
    BY <1>2, FS_EmptySet
  <2> QED
    BY <1>1, <1>2, <2>1
<1>3. CASE holders # {}
  <2>1. PICK l \in Looker : looker[l] = k
    BY <1>3
  <2>2. holders = {l}
    BY <1>1, <2>1
  <2>3. Cardinality(holders) = 1
    BY <2>2, FS_Singleton
  <2>4. k \notin free /\ sub.client # k
    BY <1>1, <2>1
  <2> QED
    BY <2>3, <2>4
<1> QED
  BY <1>2, <1>3

LEMMA InvHolds == Spec => []SubmitterInv
BY InvInit, InvNext, PTL DEF Spec

\* A caller that is answered without an error gets the ledger's verdict on its
\* own transfers, whatever shared its batch and whatever failed before
\* (flush: spans cut the answer where the transfers were put together).
THEOREM Verdicts == Spec => []OwnResults
<1>1. SubmitterInv => OwnResults
  BY DEF SubmitterInv
<1> QED
  BY InvHolds, <1>1, PTL

\* An item that was sent and is unanswered is in exactly one of the places of
\* Run, also when it did not fit into a batch or the backend is closed, and
\* until then the ledger executes items once each in the order they were sent.
THEOREM NoItemLost == Spec => []ItemsConserved
BY InvHolds, InvGivesItems, PTL

\* Each client is in the pool or with exactly one of those that call the
\* ledger, however calls end (submit, lookupAccount: defer Release).
THEOREM NoClientLost == Spec => []ClientsConserved
BY InvHolds, InvGivesClients, PTL
=============================================================================
