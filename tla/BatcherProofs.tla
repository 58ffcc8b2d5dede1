---------------------------- MODULE BatcherProofs ----------------------------
(***************************************************************************)
(* Proofs about the client-side batcher, for any calls, any batch size and *)
(* a limiter that may fail: a caller gets the answer to its own request,   *)
(* the limiter sees each call at most once and those of a kind in the      *)
(* order they were accepted, and a reply channel never blocks the loop.    *)
(***************************************************************************)
EXTENDS Batcher, PickingProofs, FiniteSetTheorems, TLAPS

-----------------------------------------------------------------------------
(* The invariant.  Accepted calls move through `in' and `pending' in the   *)
(* order of acceptance, Base of them are past both; a batch holds some of  *)
(* those Base, and the log has no call of a kind that a batch still holds  *)
(* an earlier or equal one of.                                             *)

Base == Len(accepted) - Len(in) - Len(pending)

\* c was accepted before d.
Earlier(a, c, d) == \A i, j \in DOMAIN a : a[i] = c /\ a[j] = d => i < j
\* The elements of s are among the first n accepted.
Within(a, s, n) == \A k \in DOMAIN s : \E i \in 1 .. n : a[i] = s[k]
\* The elements of s are in the order of acceptance.
Rising(a, s) == \A k, l \in DOMAIN s : k < l => Earlier(a, s[k], s[l])
\* Those of a kind are.
RisingByKind(a, s) ==
  \A k, l \in DOMAIN s : k < l /\ KindOf[s[k]] = KindOf[s[l]] => Earlier(a, s[k], s[l])
\* The elements of s of a kind were accepted before those of t.
KindBefore(a, s, t, kind) ==
  \A k \in DOMAIN s, l \in DOMAIN t : KindOf[s[k]] = kind => Earlier(a, s[k], t[l])

Accepted ==
  /\ \A i, j \in DOMAIN accepted : accepted[i] = accepted[j] => i = j
  /\ \A i \in DOMAIN accepted : caller[accepted[i]] \notin {"idle", "enqueue"}

Queued ==
  /\ Base >= 0
  /\ \A i \in 1 .. Len(pending) : pending[i] = accepted[Base + i]
  /\ \A i \in 1 .. Len(in) : in[i] = accepted[Base + Len(pending) + i]
  /\ loop # "select" => pending = <<>>

\* A batch of one kind: what the log has of the kind came before.
BatchOf(s, kind) ==
  /\ \A k \in DOMAIN s : KindOf[s[k]] = kind
  /\ Within(accepted, s, Base) /\ Rising(accepted, s)
  /\ KindBefore(accepted, log, s, kind)

Batches ==
  /\ loop \in {"select", "done"} => reserves = <<>> /\ completes = <<>>
  /\ BatchOf(reserves, "reserve") /\ BatchOf(completes, "complete")

Logged == Within(accepted, log, Base) /\ RisingByKind(accepted, log)

\* An answer is the call's own, or an error; only what left its batch has one.
Answer(c, x) == x = Failed \/ (x = c /\ Contains(log, c))
Answered ==
  \A c \in Call :
    /\ Len(replies[c]) <= 1 /\ (got[c] # None => replies[c] = <<>>)
    /\ replies[c] # <<>> => Answer(c, replies[c][1])
    /\ got[c] # None => Answer(c, got[c])
    /\ replies[c] # <<>> \/ got[c] # None =>
         /\ \E i \in 1 .. Base : accepted[i] = c
         /\ ~Contains(reserves, c) /\ ~Contains(completes, c)

BatcherInv == TypeOK /\ Accepted /\ Queued /\ Batches /\ Logged /\ Answered

-----------------------------------------------------------------------------
(* Sequences.                                                              *)

LEMMA AppendIs ==
  ASSUME NEW S, NEW s \in Seq(S), NEW x \in S
  PROVE  /\ Append(s, x) \in Seq(S)
         /\ Len(s) \in Nat /\ DOMAIN s = 1 .. Len(s)
         /\ Len(Append(s, x)) = Len(s) + 1 /\ DOMAIN Append(s, x) = 1 .. Len(s) + 1
         /\ Append(s, x)[Len(s) + 1] = x
         /\ \A i \in 1 .. Len(s) : Append(s, x)[i] = s[i]
         /\ \A i \in 1 .. Len(s) + 1 : i \in 1 .. Len(s) \/ i = Len(s) + 1
OBVIOUS

LEMMA TailIs ==
  ASSUME NEW S, NEW s \in Seq(S), s # <<>>
  PROVE  /\ Head(s) \in S /\ Head(s) = s[1] /\ Len(s) \in Nat \ {0}
         /\ Tail(s) \in Seq(S) /\ Len(Tail(s)) = Len(s) - 1
         /\ \A i \in 1 .. Len(s) - 1 : Tail(s)[i] = s[i + 1]
OBVIOUS

LEMMA PrefixIs ==
  ASSUME NEW S, NEW s \in Seq(S), NEW n \in 0 .. Len(s)
  PROVE  /\ SubSeq(s, 1, n) \in Seq(S) /\ Len(SubSeq(s, 1, n)) = n
         /\ \A i \in 1 .. n : SubSeq(s, 1, n)[i] = s[i] /\ i \in DOMAIN s
         /\ SubSeq(s, 1, Len(s)) = s
OBVIOUS

LEMMA ConcatIs ==
  ASSUME NEW S, NEW s \in Seq(S), NEW t \in Seq(S)
  PROVE  /\ s \o t \in Seq(S) /\ Len(s \o t) = Len(s) + Len(t)
         /\ Len(s) \in Nat /\ Len(t) \in Nat
         /\ \A i \in 1 .. Len(s) : (s \o t)[i] = s[i]
         /\ \A i \in 1 .. Len(t) : (s \o t)[Len(s) + i] = t[i]
         /\ \A i \in DOMAIN (s \o t) : i \in DOMAIN s \/ (i - Len(s) \in DOMAIN t /\ i > Len(s))
<1>1. Len(s) \in Nat /\ Len(t) \in Nat /\ DOMAIN s = 1 .. Len(s) /\ DOMAIN t = 1 .. Len(t)
  OBVIOUS
<1>2. s \o t \in Seq(S) /\ Len(s \o t) = Len(s) + Len(t) /\ DOMAIN (s \o t) = 1 .. Len(s) + Len(t)
  OBVIOUS
<1>3. \A i \in 1 .. Len(s) : (s \o t)[i] = s[i]
  OBVIOUS
<1>4. \A i \in 1 .. Len(t) : (s \o t)[Len(s) + i] = t[i]
  OBVIOUS
<1> QED
  BY <1>1, <1>2, <1>3, <1>4

\* The places that the loop picks from.
LEMMA PlacesIn ==
  ASSUME NEW S, NEW s \in Seq(S), NEW I, NEW g, NEW e, Picks(s, I, g, e)
  PROVE  /\ \A k \in 1 .. Len(g) : e[k] \in 1 .. Len(s) /\ e[k] \in I
         /\ \A k, l \in 1 .. Len(g) : k < l => e[k] < e[l]
<1>1. DOMAIN s = 1 .. Len(s)
  OBVIOUS
<1>2. e \in [1 .. Len(g) -> DOMAIN s]
  BY DEF Picks
<1>3. \A k \in 1 .. Len(g) : e[k] \in I
  BY DEF Picks
<1>4. \A k, l \in 1 .. Len(g) : k < l => e[k] < e[l]
  BY DEF Picks
<1>5. \A k \in 1 .. Len(g) : e[k] \in 1 .. Len(s)
  BY <1>1, <1>2
<1> QED
  BY <1>3, <1>4, <1>5

\* Two disjoint sets of indices pick no more elements than there are.
LEMMA TwoPicks ==
  ASSUME NEW S, NEW s \in Seq(S), NEW I, NEW J, I \cap J = {}
  PROVE  Len(Pick(s, I)) + Len(Pick(s, J)) <= Len(s)
<1>1. PICK g : g = Pick(s, I)
  OBVIOUS
<1>2. PICK h : h = Pick(s, J)
  OBVIOUS
<1>3. g \in Seq(S) /\ h \in Seq(S) /\ (\E e : Picks(s, I, g, e)) /\ (\E d : Picks(s, J, h, d))
  BY <1>1, <1>2, PickIs
<1>4. PICK e : Picks(s, I, g, e)
  BY <1>3
<1>5. PICK d : Picks(s, J, h, d)
  BY <1>3
<1>6. PICK a, b, n \in Nat : a = Len(g) /\ b = Len(h) /\ n = Len(s)
  BY <1>3
<1>7. /\ \A k \in 1 .. a : e[k] \in 1 .. n /\ e[k] \in I
      /\ \A k, l \in 1 .. a : k < l => e[k] < e[l]
  BY <1>4, <1>6, PlacesIn
<1>8. /\ \A k \in 1 .. b : d[k] \in 1 .. n /\ d[k] \in J
      /\ \A k, l \in 1 .. b : k < l => d[k] < d[l]
  BY <1>5, <1>6, PlacesIn
<1> DEFINE f == [k \in 1 .. a + b |-> IF k <= a THEN e[k] ELSE d[k - a]]
<1>9. ASSUME NEW k \in 1 .. a + b
      PROVE  \/ k \in 1 .. a /\ f[k] = e[k]
             \/ k - a \in 1 .. b /\ f[k] = d[k - a] /\ k > a
  OBVIOUS
<1>10. f \in [1 .. a + b -> 1 .. n]
  BY <1>7, <1>8, <1>9
<1> HIDE DEF f
<1>11. ASSUME NEW k \in 1 .. a + b, NEW l \in 1 .. a + b, k < l
       PROVE  f[k] # f[l]
  <2>1. CASE k \in 1 .. a /\ f[k] = e[k] /\ l \in 1 .. a /\ f[l] = e[l]
    <3>1. e[k] < e[l] /\ e[k] \in 1 .. n /\ e[l] \in 1 .. n
      BY <1>7, <1>11, <2>1
    <3> QED
      BY <2>1, <3>1
  <2>2. CASE k \in 1 .. a /\ f[k] = e[k] /\ l - a \in 1 .. b /\ f[l] = d[l - a]
    BY <1>7, <1>8, <2>2
  <2>3. CASE k - a \in 1 .. b /\ f[k] = d[k - a] /\ l - a \in 1 .. b /\ f[l] = d[l - a]
    <3>1. k - a < l - a
      BY <1>11
    <3>2. d[k - a] < d[l - a] /\ d[k - a] \in 1 .. n /\ d[l - a] \in 1 .. n
      BY <1>8, <2>3, <3>1
    <3> QED
      BY <2>3, <3>2
  <2>4. CASE k > a /\ l \in 1 .. a
    BY <1>11, <2>4
  <2> QED
    BY <1>9, <2>1, <2>2, <2>3, <2>4
<1>12. f \in Injection(1 .. a + b, 1 .. n)
  <2>1. ASSUME NEW k \in 1 .. a + b, NEW l \in 1 .. a + b, f[k] = f[l]
        PROVE  k = l
    <3>1. ~(k < l) /\ ~(l < k)
      BY <1>11, <2>1
    <3> QED
      BY <3>1
  <2> QED
    BY <1>10, <2>1 DEF Injection, IsInjective
<1>13. Cardinality(1 .. a + b) <= Cardinality(1 .. n)
  BY <1>12, FS_Injection, FS_Interval
<1>14. Cardinality(1 .. a + b) = a + b /\ Cardinality(1 .. n) = n
  BY FS_Interval
<1>15. a + b <= n
  BY <1>13, <1>14
<1> QED
  BY <1>1, <1>2, <1>6, <1>15

-----------------------------------------------------------------------------
(* The order of acceptance.                                                *)

LEMMA WithinMore ==
  ASSUME NEW a, NEW s, NEW n \in Nat, NEW m \in Nat, n <= m, Within(a, s, n)
  PROVE  Within(a, s, m)
<1>1. \A i \in 1 .. n : i \in 1 .. m
  OBVIOUS
<1> QED
  BY <1>1 DEF Within

\* One more call is accepted: what was said of those before it still holds.
LEMMA AcceptMore ==
  ASSUME NEW a \in Seq(Call), NEW x \in Call, \A i \in DOMAIN a : a[i] # x,
         NEW s, NEW n \in Nat, n <= Len(a), Within(a, s, n)
  PROVE  /\ Within(Append(a, x), s, n)
         /\ \A k, l \in DOMAIN s : Earlier(a, s[k], s[l]) => Earlier(Append(a, x), s[k], s[l])
         /\ \A t : Within(a, t, n) =>
              \A k \in DOMAIN s, l \in DOMAIN t :
                Earlier(a, s[k], t[l]) => Earlier(Append(a, x), s[k], t[l])
<1>1. \A i \in 1 .. n : i \in 1 .. Len(a)
  OBVIOUS
<1>2. Within(Append(a, x), s, n)
  BY <1>1, AppendIs DEF Within
<1>3. ASSUME NEW c, NEW d, \E i \in 1 .. n : a[i] = c, \E i \in 1 .. n : a[i] = d, Earlier(a, c, d)
      PROVE  Earlier(Append(a, x), c, d)
  <2>1. c # x /\ d # x
    BY <1>1, <1>3
  <2>2. ASSUME NEW i \in DOMAIN Append(a, x), NEW j \in DOMAIN Append(a, x),
               Append(a, x)[i] = c, Append(a, x)[j] = d
        PROVE  i < j
    <3>1. i \in 1 .. Len(a) /\ j \in 1 .. Len(a)
      BY <2>1, <2>2, AppendIs
    <3>2. i \in DOMAIN a /\ j \in DOMAIN a /\ a[i] = c /\ a[j] = d
      BY <2>2, <3>1, AppendIs
    <3> QED
      BY <1>3, <3>2 DEF Earlier
  <2> QED
    BY <2>2 DEF Earlier
<1>4. \A k, l \in DOMAIN s : Earlier(a, s[k], s[l]) => Earlier(Append(a, x), s[k], s[l])
  BY <1>3 DEF Within
<1>5. \A t : Within(a, t, n) =>
        \A k \in DOMAIN s, l \in DOMAIN t :
          Earlier(a, s[k], t[l]) => Earlier(Append(a, x), s[k], t[l])
  BY <1>3 DEF Within
<1> QED
  BY <1>2, <1>4, <1>5

\* items is the part of a, which has no call twice, behind its first B.
Slice(a, B, items) ==
  /\ \A i, j \in DOMAIN a : a[i] = a[j] => i = j
  /\ B + Len(items) <= Len(a)
  /\ \A i \in 1 .. Len(items) : items[i] = a[B + i]

\* The start of flush: the items of a kind are a batch of that kind.
LEMMA SplitIs ==
  ASSUME NEW a \in Seq(Call), NEW B \in Nat, NEW items \in Seq(Call), Slice(a, B, items),
         NEW s, Within(a, s, B), NEW kind, NEW t, t = OfKind(items, kind)
  PROVE  /\ t \in Seq(Call) /\ \A k \in DOMAIN t : KindOf[t[k]] = kind
         /\ Within(a, t, B + Len(items)) /\ Rising(a, t)
         /\ KindBefore(a, s, t, kind)
<1>0. /\ \A i, j \in DOMAIN a : a[i] = a[j] => i = j
      /\ B + Len(items) <= Len(a) /\ \A i \in 1 .. Len(items) : items[i] = a[B + i]
  BY DEF Slice
<1> USE <1>0
<1> DEFINE I == {i \in DOMAIN items : KindOf[items[i]] = kind}
<1>1. t = Pick(items, I)
  BY DEF OfKind
<1>2. \A i \in I : KindOf[items[i]] = kind
  OBVIOUS
<1> HIDE DEF I
<1>3. t \in Seq(Call) /\ \E e : Picks(items, I, t, e)
  BY <1>1, PickIs
<1>4. PICK e : Picks(items, I, t, e)
  BY <1>3
<1>5. Len(items) \in Nat /\ Len(a) \in Nat /\ Len(t) \in Nat /\ DOMAIN items = 1 .. Len(items)
      /\ DOMAIN a = 1 .. Len(a) /\ DOMAIN t = 1 .. Len(t)
  BY <1>3
<1>6. ASSUME NEW k \in DOMAIN t
      PROVE  /\ e[k] \in 1 .. Len(items) /\ KindOf[t[k]] = kind
             /\ B + e[k] \in 1 .. B + Len(items) /\ B + e[k] \in DOMAIN a
             /\ t[k] = a[B + e[k]]
             /\ \A i \in DOMAIN a : a[i] = t[k] => i = B + e[k]
  <2>1. e[k] \in 1 .. Len(items) /\ e[k] \in I /\ t[k] = items[e[k]]
    BY <1>4, <1>5 DEF Picks
  <2>2. B + e[k] \in 1 .. B + Len(items) /\ B + e[k] \in DOMAIN a
    BY <1>5, <2>1
  <2> QED
    BY <1>2, <2>1, <2>2
<1>7. Within(a, t, B + Len(items))
  <2>1. ASSUME NEW k \in DOMAIN t
        PROVE  \E i \in 1 .. B + Len(items) : a[i] = t[k]
    BY <1>6
  <2> QED
    BY <2>1 DEF Within
<1>8. Rising(a, t)
  <2>1. ASSUME NEW k \in DOMAIN t, NEW l \in DOMAIN t, k < l,
               NEW i \in DOMAIN a, NEW j \in DOMAIN a, a[i] = t[k], a[j] = t[l]
        PROVE  i < j
    <3>1. i = B + e[k] /\ j = B + e[l]
      BY <1>6, <2>1
    <3>2. e[k] < e[l] /\ e[k] \in 1 .. Len(items) /\ e[l] \in 1 .. Len(items)
      BY <1>4, <1>5, <1>6, <2>1 DEF Picks
    <3> QED
      BY <3>1, <3>2
  <2> QED
    BY <2>1 DEF Rising, Earlier
<1>9. KindBefore(a, s, t, kind)
  <2>1. ASSUME NEW k \in DOMAIN s, NEW l \in DOMAIN t,
               NEW i \in DOMAIN a, NEW j \in DOMAIN a, a[i] = s[k], a[j] = t[l]
        PROVE  i < j
    <3>1. PICK m \in 1 .. B : a[m] = s[k]
      BY DEF Within
    <3>2. m \in DOMAIN a
      BY <1>5, <3>1
    <3>3. i = m
      BY <2>1, <3>1, <3>2
    <3>4. j = B + e[l] /\ e[l] \in 1 .. Len(items)
      BY <1>6, <2>1
    <3> QED
      BY <3>3, <3>4
  <2> QED
    BY <2>1 DEF KindBefore, Earlier
<1> QED
  BY <1>3, <1>6, <1>7, <1>8, <1>9

\* The limiter processes a batch, or some of it, after what it has processed.
\* M extends the log L, and keeps its order.
LogGrows(a, B, L, kind, M) ==
  /\ M \in Seq(Call) /\ Within(a, M, B) /\ RisingByKind(a, M)
  /\ \A c : Contains(L, c) => Contains(M, c)
  /\ \A t, other : other # kind /\ KindBefore(a, L, t, other) => KindBefore(a, M, t, other)
\* s may follow L.
MayFollow(a, B, L, kind, s) ==
  /\ \A k \in DOMAIN s : KindOf[s[k]] = kind
  /\ Within(a, L, B) /\ Within(a, s, B) /\ RisingByKind(a, L) /\ Rising(a, s)
  /\ KindBefore(a, L, s, kind)
\* M is L and the first n of s.
Follows(L, s, n, M) == n \in 0 .. Len(s) /\ M = L \o SubSeq(s, 1, n)

LEMMA LogMore ==
  ASSUME NEW a, NEW B, NEW L \in Seq(Call), NEW s \in Seq(Call), NEW n, NEW kind,
         MayFollow(a, B, L, kind, s), NEW M, Follows(L, s, n, M)
  PROVE  /\ LogGrows(a, B, L, kind, M)
         /\ n = Len(s) => \A c : Contains(s, c) => Contains(M, c)
<1>0. /\ \A k \in DOMAIN s : KindOf[s[k]] = kind
      /\ Within(a, L, B) /\ Within(a, s, B) /\ RisingByKind(a, L) /\ Rising(a, s)
      /\ KindBefore(a, L, s, kind) /\ n \in 0 .. Len(s) /\ M = L \o SubSeq(s, 1, n)
  BY DEF MayFollow, Follows
<1> USE <1>0
<1>1. PICK p : p = SubSeq(s, 1, n)
  OBVIOUS
<1>2. p \in Seq(Call) /\ Len(p) = n /\ (\A i \in 1 .. n : p[i] = s[i] /\ i \in DOMAIN s)
      /\ (n = Len(s) => p = s)
  BY <1>1, PrefixIs
<1>3. /\ M \in Seq(Call) /\ Len(M) = Len(L) + Len(p)
      /\ Len(L) \in Nat /\ Len(p) \in Nat
      /\ \A i \in 1 .. Len(L) : M[i] = L[i]
      /\ \A i \in 1 .. Len(p) : M[Len(L) + i] = p[i]
      /\ \A i \in DOMAIN M : i \in DOMAIN L \/ (i - Len(L) \in DOMAIN p /\ i > Len(L))
  <2>1. M = L \o p
    BY <1>1
  <2>2. /\ L \o p \in Seq(Call) /\ Len(L \o p) = Len(L) + Len(p)
        /\ Len(L) \in Nat /\ Len(p) \in Nat
        /\ \A i \in 1 .. Len(L) : (L \o p)[i] = L[i]
        /\ \A i \in 1 .. Len(p) : (L \o p)[Len(L) + i] = p[i]
        /\ \A i \in DOMAIN (L \o p) : i \in DOMAIN L \/ (i - Len(L) \in DOMAIN p /\ i > Len(L))
    BY <1>2, ConcatIs
  <2> QED
    BY <2>1, <2>2
<1>4. DOMAIN L = 1 .. Len(L) /\ DOMAIN p = 1 .. Len(p) /\ DOMAIN M = 1 .. Len(M)
  BY <1>2, <1>3
<1>5. ASSUME NEW i \in DOMAIN M, i > Len(L)
      PROVE  /\ i - Len(L) \in DOMAIN s /\ M[i] = s[i - Len(L)] /\ KindOf[M[i]] = kind
  <2>1. PICK j \in 1 .. Len(p) : i = Len(L) + j
    <3>1. i - Len(L) \in 1 .. Len(p) /\ i = Len(L) + (i - Len(L))
      BY <1>3, <1>4, <1>5
    <3> QED
      BY <3>1
  <2>2. M[i] = s[j] /\ j \in DOMAIN s /\ i - Len(L) = j
    BY <1>2, <1>3, <2>1
  <2> QED
    BY <2>2
<1>6. \A i \in DOMAIN M : (i \in DOMAIN L /\ i <= Len(L) /\ M[i] = L[i]) \/ i > Len(L)
  BY <1>3, <1>4
<1>7. Within(a, M, B)
  <2>1. ASSUME NEW i \in DOMAIN M
        PROVE  \E q \in 1 .. B : a[q] = M[i]
    <3>1. CASE i > Len(L)
      BY <1>5, <3>1 DEF Within
    <3>2. CASE i \in DOMAIN L /\ M[i] = L[i]
      BY <3>2 DEF Within
    <3> QED
      BY <1>6, <3>1, <3>2
  <2> QED
    BY <2>1 DEF Within
<1>8. RisingByKind(a, M)
  <2>1. ASSUME NEW i \in DOMAIN M, NEW j \in DOMAIN M, i < j, KindOf[M[i]] = KindOf[M[j]]
        PROVE  Earlier(a, M[i], M[j])
    <3>1. CASE i > Len(L)
      <4>1. j > Len(L)
        BY <2>1, <3>1, <1>3, <1>4
      <4>2. i - Len(L) < j - Len(L)
        BY <2>1, <1>3, <1>4
      <4> QED
        BY <1>5, <3>1, <4>1, <4>2 DEF Rising
    <3>2. CASE i \in DOMAIN L /\ M[i] = L[i] /\ j > Len(L)
      BY <1>5, <2>1, <3>2 DEF KindBefore
    <3>3. CASE i \in DOMAIN L /\ M[i] = L[i] /\ j \in DOMAIN L /\ M[j] = L[j]
      BY <2>1, <3>3 DEF RisingByKind
    <3> QED
      BY <1>6, <3>1, <3>2, <3>3
  <2> QED
    BY <2>1 DEF RisingByKind
<1>9. \A c : Contains(L, c) => Contains(M, c)
  <2>1. \A i \in 1 .. Len(L) : i \in 1 .. Len(M)
    BY <1>3
  <2> QED
    BY <1>3, <2>1 DEF Contains
<1>10. n = Len(s) => \A c : Contains(s, c) => Contains(M, c)
  <2>1. \A i \in 1 .. Len(p) : Len(L) + i \in 1 .. Len(M)
    BY <1>3
  <2>2. ASSUME n = Len(s), NEW c, Contains(s, c)
        PROVE  Contains(M, c)
    <3>1. PICK i \in 1 .. Len(p) : p[i] = c
      BY <1>2, <2>2 DEF Contains
    <3>2. Len(L) + i \in 1 .. Len(M) /\ M[Len(L) + i] = c
      BY <1>3, <2>1, <3>1
    <3> QED
      BY <3>2 DEF Contains
  <2> QED
    BY <2>2
<1>11. ASSUME NEW t, NEW other, other # kind, KindBefore(a, L, t, other)
       PROVE  KindBefore(a, M, t, other)
  <2>1. ASSUME NEW i \in DOMAIN M, NEW l \in DOMAIN t, KindOf[M[i]] = other
        PROVE  Earlier(a, M[i], t[l])
    <3>1. ~(i > Len(L))
      BY <1>5, <1>11, <2>1
    <3> QED
      BY <1>6, <1>11, <2>1, <3>1 DEF KindBefore
  <2> QED
    BY <2>1 DEF KindBefore
<1> QED
  BY <1>3, <1>7, <1>8, <1>9, <1>10, <1>11 DEF LogGrows

-----------------------------------------------------------------------------
(* The steps of the callers.                                               *)

LEMMA Constants ==
  /\ KindOf \in [Call -> {"reserve", "complete"}] /\ MaxBatch \in Nat \ {0} /\ None \notin Call
  /\ Cap \in Nat
BY BatcherAssumption DEF Cap

LEMMA InitInv == Init => BatcherInv
<1> HAVE Init
<1>1. TypeOK
  <2>1. caller \in [Call -> {"idle", "enqueue", "wait"} \cup Over]
        /\ got \in [Call -> Call \cup {None, Failed}]
        /\ replies \in [Call -> Seq(Call \cup {Failed})]
    BY DEF Init
  <2>2. in = <<>> /\ pending = <<>> /\ reserves = <<>> /\ completes = <<>>
        /\ log = <<>> /\ accepted = <<>> /\ mark = 0
    BY DEF Init
  <2>3. loop \in {"select", "flush", "lastFlush", "done"} /\ stopped \in BOOLEAN
    BY DEF Init
  <2>4. <<>> \in Seq(Call) /\ Len(<<>>) = 0
    OBVIOUS
  <2>5. Len(in) <= Cap /\ Len(pending) < MaxBatch /\ Len(reserves) + Len(completes) <= MaxBatch
        /\ mark \in 0 .. Len(accepted)
    BY <2>2, <2>4, Constants
  <2> QED
    BY <2>1, <2>2, <2>3, <2>4, <2>5 DEF TypeOK
<1>2. Base = 0 /\ loop = "select" /\ accepted = <<>> /\ in = <<>> /\ pending = <<>>
      /\ reserves = <<>> /\ completes = <<>> /\ log = <<>>
  <2>1. accepted = <<>> /\ in = <<>> /\ pending = <<>>
    BY DEF Init
  <2>2. Base = 0
    <3>1. Len(accepted) = 0 /\ Len(in) = 0 /\ Len(pending) = 0
      BY <2>1
    <3> QED
      BY <3>1 DEF Base
  <2> QED
    BY <2>1, <2>2 DEF Init
<1>3. Accepted /\ Queued /\ Logged
  BY <1>2 DEF Accepted, Queued, Logged, Within, RisingByKind
<1>4. Batches
  BY <1>2 DEF Batches, BatchOf, Within, Rising, KindBefore
<1>5. Answered
  BY DEF Init, Answered
<1> QED
  BY <1>1, <1>3, <1>4, <1>5 DEF BatcherInv

\* How many accepted calls are past the queues.
LEMMA BaseIs ==
  ASSUME TypeOK, Queued
  PROVE  Base \in Nat /\ Base <= Len(accepted) /\ Len(accepted) \in Nat
         /\ Base + Len(pending) + Len(in) = Len(accepted)
<1>1. Len(accepted) \in Nat /\ Len(in) \in Nat /\ Len(pending) \in Nat
  BY DEF TypeOK
<1> QED
  BY <1>1 DEF Queued, Base

\* A step that leaves the queues, the batches and the log.
LEMMA QueuesSame ==
  ASSUME Queued, Batches, Logged,
         UNCHANGED <<in, pending, reserves, completes, loop, log, accepted>>
  PROVE  Queued' /\ Batches' /\ Logged'
BY DEF Queued, Base, Batches, BatchOf, Logged

\* A caller that is not waiting for its place in `in' has none.
LEMMA CallerMoves ==
  ASSUME BatcherInv, NEW c \in Call, NEW to,
         to \in {"enqueue", "closed", "expired"}, caller[c] = "idle" \/ to # "enqueue",
         caller' = [caller EXCEPT ![c] = to],
         UNCHANGED <<got, in, pending, reserves, completes, replies, loop, stopped, log, accepted, mark>>
  PROVE  BatcherInv'
<1> USE DEF BatcherInv
<1>1. TypeOK'
  BY DEF TypeOK, Over
<1>2. Accepted'
  <2>1. caller \in [Call -> {"idle", "enqueue", "wait"} \cup Over] /\ accepted \in Seq(Call)
    BY DEF TypeOK
  <2>2. ASSUME NEW i \in DOMAIN accepted
        PROVE  caller'[accepted[i]] \notin {"idle", "enqueue"}
    <3>1. accepted[i] \in Call /\ caller[accepted[i]] \notin {"idle", "enqueue"}
      BY <2>1 DEF Accepted
    <3>2. CASE accepted[i] = c
      BY <2>1, <3>1, <3>2
    <3>3. CASE accepted[i] # c
      BY <2>1, <3>1, <3>3
    <3> QED
      BY <3>2, <3>3
  <2> QED
    BY <2>2 DEF Accepted
<1>3. Queued' /\ Batches' /\ Logged'
  BY QueuesSame
<1>4. Answered'
  BY DEF Answered, Answer, Base
<1> QED
  BY <1>1, <1>2, <1>3, <1>4

LEMMA ReturnInv ==
  ASSUME BatcherInv, NEW c \in Call, Return(c)
  PROVE  BatcherInv'
<1> USE DEF BatcherInv
<1>1. caller[c] = "wait" /\ replies[c] # <<>>
      /\ caller' = [caller EXCEPT ![c] = "returned"]
      /\ got' = [got EXCEPT ![c] = Head(replies[c])]
      /\ replies' = [replies EXCEPT ![c] = Tail(replies[c])]
      /\ UNCHANGED <<in, pending, reserves, completes, loop, stopped, log, accepted, mark>>
  BY DEF Return
<1>2. caller \in [Call -> {"idle", "enqueue", "wait"} \cup Over] /\ accepted \in Seq(Call)
      /\ got \in [Call -> Call \cup {None, Failed}] /\ replies \in [Call -> Seq(Call \cup {Failed})]
  BY DEF TypeOK
<1>3. Head(replies[c]) = replies[c][1] /\ Head(replies[c]) \in Call \cup {Failed}
      /\ Tail(replies[c]) = <<>>
  <2>1. replies[c] \in Seq(Call \cup {Failed}) /\ Len(replies[c]) <= 1
    BY <1>2 DEF Answered
  <2> DEFINE R == Call \cup {Failed}
  <2> HIDE DEF R
  <2>2. PICK r \in Seq(R) : r = replies[c]
    BY <2>1 DEF R
  <2>3. r # <<>> /\ Len(r) <= 1
    BY <1>1, <2>1, <2>2
  <2>4. Head(r) = r[1] /\ Head(r) \in R /\ Tail(r) = <<>>
    BY <2>3
  <2> QED
    BY <2>2, <2>4 DEF R
<1>4. TypeOK'
  <2>1. caller' \in [Call -> {"idle", "enqueue", "wait"} \cup Over]
    BY <1>1, <1>2 DEF Over
  <2>2. got' \in [Call -> Call \cup {None, Failed}]
    BY <1>1, <1>2, <1>3
  <2>3. replies' \in [Call -> Seq(Call \cup {Failed})]
    BY <1>1, <1>2, <1>3
  <2> QED
    BY <1>1, <2>1, <2>2, <2>3 DEF TypeOK
<1>5. Accepted'
  BY <1>1, <1>2 DEF Accepted
<1>6. Queued' /\ Batches' /\ Logged'
  BY <1>1, QueuesSame
<1>7. Answered'
  <2>1. Base' = Base
    BY <1>1 DEF Base
  <2>2. ASSUME NEW d \in Call, d # c
        PROVE  replies'[d] = replies[d] /\ got'[d] = got[d]
    BY <1>1, <1>2, <2>2
  <2>3. replies'[c] = <<>> /\ got'[c] = replies[c][1]
    BY <1>1, <1>2, <1>3
  <2>4. Answer(c, replies[c][1]) /\ (\E i \in 1 .. Base : accepted[i] = c)
        /\ ~Contains(reserves, c) /\ ~Contains(completes, c)
    BY <1>1 DEF Answered
  <2>5. ASSUME NEW d \in Call, NEW x
        PROVE  Answer(d, x)' = Answer(d, x)
    BY <1>1 DEF Answer
  <2>6. ASSUME NEW d \in Call
        PROVE  /\ Len(replies'[d]) <= 1 /\ (got'[d] # None => replies'[d] = <<>>)
               /\ replies'[d] # <<>> => Answer(d, replies'[d][1])
               /\ got'[d] # None => Answer(d, got'[d])
               /\ replies'[d] # <<>> \/ got'[d] # None =>
                    /\ \E i \in 1 .. Base : accepted[i] = d
                    /\ ~Contains(reserves, d) /\ ~Contains(completes, d)
    <3>1. CASE d = c
      BY <2>3, <2>4, <3>1
    <3>2. CASE d # c
      BY <2>2, <3>2 DEF Answered
    <3> QED
      BY <3>1, <3>2
  <2> QED
    BY <1>1, <2>1, <2>6 DEF Answered, Answer
<1> QED
  BY <1>4, <1>5, <1>6, <1>7

LEMMA ShutdownInv ==
  ASSUME BatcherInv, Shutdown
  PROVE  BatcherInv'
<1> USE DEF BatcherInv
<1>1. stopped' = TRUE /\ mark' = Len(accepted)
      /\ UNCHANGED <<caller, got, in, pending, reserves, completes, replies, loop, log, accepted>>
  BY DEF Shutdown
<1>2. Len(accepted) \in 0 .. Len(accepted)
  BY DEF TypeOK
<1>3. TypeOK'
  BY <1>1, <1>2 DEF TypeOK
<1>4. Accepted'
  BY <1>1 DEF Accepted
<1>5. Queued' /\ Batches' /\ Logged'
  BY <1>1, QueuesSame
<1>6. Answered'
  BY <1>1 DEF Answered, Answer, Base
<1> QED
  BY <1>3, <1>4, <1>5, <1>6

\* The call is accepted: Base and what is below it stay.
LEMMA EnqueueInv ==
  ASSUME BatcherInv, NEW c \in Call, Enqueue(c)
  PROVE  BatcherInv'
<1> USE DEF BatcherInv
<1>1. caller[c] = "enqueue" /\ Len(in) < Cap /\ in' = Append(in, c) /\ accepted' = Append(accepted, c)
      /\ caller' = [caller EXCEPT ![c] = "wait"]
      /\ UNCHANGED <<got, pending, reserves, completes, replies, loop, stopped, log, mark>>
  BY DEF Enqueue
<1>2. /\ caller \in [Call -> {"idle", "enqueue", "wait"} \cup Over]
      /\ accepted \in Seq(Call) /\ in \in Seq(Call) /\ pending \in Seq(Call)
      /\ Len(in) \in Nat /\ Len(accepted) \in Nat /\ Len(pending) \in Nat /\ mark \in 0 .. Len(accepted)
  BY DEF TypeOK
<1>3. /\ in' \in Seq(Call) /\ Len(in') = Len(in) + 1 /\ in'[Len(in) + 1] = c
      /\ \A i \in 1 .. Len(in) : in'[i] = in[i]
  BY <1>1, <1>2, AppendIs
<1>4. /\ accepted' \in Seq(Call) /\ Len(accepted') = Len(accepted) + 1 /\ accepted'[Len(accepted) + 1] = c
      /\ \A i \in 1 .. Len(accepted) : accepted'[i] = accepted[i]
      /\ DOMAIN accepted' = 1 .. Len(accepted) + 1 /\ DOMAIN accepted = 1 .. Len(accepted)
      /\ \A i \in 1 .. Len(accepted) + 1 : i \in 1 .. Len(accepted) \/ i = Len(accepted) + 1
  BY <1>1, <1>2, AppendIs
<1>5. Base' = Base /\ Base \in Nat /\ Base <= Len(accepted)
      /\ Base + Len(pending) + Len(in) = Len(accepted)
  <2>1. Base' = (Len(accepted) + 1) - (Len(in) + 1) - Len(pending)
    BY <1>1, <1>3, <1>4 DEF Base
  <2>2. Base = Len(accepted) - Len(in) - Len(pending)
    BY DEF Base
  <2>3. Base' = Base
    BY <1>2, <2>1, <2>2
  <2> QED
    BY <2>3, BaseIs
<1>6. \A i \in DOMAIN accepted : accepted[i] # c
  BY <1>1 DEF Accepted
<1>7. TypeOK'
  <2>1. caller' \in [Call -> {"idle", "enqueue", "wait"} \cup Over]
    BY <1>1, <1>2
  <2>2. mark' \in 0 .. Len(accepted')
    BY <1>1, <1>2, <1>4
  <2>3. Len(in') <= Cap
    BY <1>1, <1>2, <1>3, Constants
  <2> QED
    BY <1>1, <1>3, <1>4, <2>1, <2>2, <2>3 DEF TypeOK
<1>8. Accepted'
  <2>1. ASSUME NEW i \in DOMAIN accepted', NEW j \in DOMAIN accepted', accepted'[i] = accepted'[j]
        PROVE  i = j
    BY <1>4, <1>6, <2>1 DEF Accepted
  <2>2. ASSUME NEW i \in DOMAIN accepted'
        PROVE  caller'[accepted'[i]] \notin {"idle", "enqueue"}
    <3>1. CASE i = Len(accepted) + 1
      BY <1>1, <1>2, <1>4, <3>1
    <3>2. CASE i \in 1 .. Len(accepted)
      <4>1. accepted'[i] = accepted[i] /\ accepted[i] \in Call /\ accepted[i] # c
        BY <1>2, <1>4, <1>6, <3>2
      <4> QED
        BY <1>1, <1>2, <1>4, <3>2, <4>1 DEF Accepted
    <3> QED
      BY <1>4, <3>1, <3>2
  <2> QED
    BY <2>1, <2>2 DEF Accepted
<1>9. Queued'
  <2>1. ASSUME NEW i \in 1 .. Len(pending)
        PROVE  pending[i] = accepted'[Base + i]
    <3>1. Base + i \in 1 .. Len(accepted)
      BY <1>2, <1>5
    <3> QED
      BY <1>4, <3>1 DEF Queued
  <2>2. ASSUME NEW i \in 1 .. Len(in) + 1
        PROVE  in'[i] = accepted'[Base + Len(pending) + i]
    <3>1. CASE i \in 1 .. Len(in)
      <4>1. Base + Len(pending) + i \in 1 .. Len(accepted)
        BY <1>2, <1>5, <3>1
      <4> QED
        BY <1>3, <1>4, <3>1, <4>1 DEF Queued
    <3>2. CASE i = Len(in) + 1
      <4>1. Base + Len(pending) + (Len(in) + 1) = Len(accepted) + 1
        BY <1>2, <1>5
      <4> QED
        BY <1>3, <1>4, <3>2, <4>1
    <3> QED
      BY <1>2, <3>1, <3>2
  <2> QED
    BY <1>1, <1>3, <1>5, <2>1, <2>2 DEF Queued
<1>10. Logged'
  <2>1. Within(accepted, log, Base) /\ RisingByKind(accepted, log)
    BY DEF Logged
  <2>2. /\ Within(accepted', log, Base)
        /\ \A k, l \in DOMAIN log :
             Earlier(accepted, log[k], log[l]) => Earlier(accepted', log[k], log[l])
    BY <1>1, <1>2, <1>5, <1>6, <2>1, AcceptMore
  <2>3. RisingByKind(accepted', log)
    BY <2>1, <2>2 DEF RisingByKind
  <2> QED
    BY <1>1, <1>5, <2>2, <2>3 DEF Logged
<1>11. ASSUME NEW s, NEW kind, BatchOf(s, kind)
       PROVE  /\ \A k \in DOMAIN s : KindOf[s[k]] = kind
              /\ Within(accepted', s, Base) /\ Rising(accepted', s)
              /\ KindBefore(accepted', log, s, kind)
  <2>1. /\ \A k \in DOMAIN s : KindOf[s[k]] = kind
        /\ Within(accepted, s, Base) /\ Rising(accepted, s)
        /\ KindBefore(accepted, log, s, kind) /\ Within(accepted, log, Base)
    BY <1>11 DEF BatchOf, Logged
  <2>2. /\ Within(accepted', s, Base)
        /\ \A k, l \in DOMAIN s : Earlier(accepted, s[k], s[l]) => Earlier(accepted', s[k], s[l])
    BY <1>1, <1>2, <1>5, <1>6, <2>1, AcceptMore
  <2>3. \A k \in DOMAIN log, l \in DOMAIN s :
          Earlier(accepted, log[k], s[l]) => Earlier(accepted', log[k], s[l])
    BY <1>1, <1>2, <1>5, <1>6, <2>1, AcceptMore
  <2>4. Rising(accepted', s)
    BY <2>1, <2>2 DEF Rising
  <2>5. KindBefore(accepted', log, s, kind)
    BY <2>1, <2>3 DEF KindBefore
  <2> QED
    BY <2>1, <2>2, <2>4, <2>5
<1>12. Batches'
  <2>1. BatchOf(reserves, "reserve")'
    BY <1>1, <1>5, <1>11 DEF Batches, BatchOf
  <2>2. BatchOf(completes, "complete")'
    BY <1>1, <1>5, <1>11 DEF Batches, BatchOf
  <2> QED
    BY <1>1, <2>1, <2>2 DEF Batches
<1>13. Answered'
  <2>1. ASSUME NEW d \in Call, \E i \in 1 .. Base : accepted[i] = d
        PROVE  \E i \in 1 .. Base : accepted'[i] = d
    <3>1. \A i \in 1 .. Base : i \in 1 .. Len(accepted)
      BY <1>5
    <3> QED
      BY <1>4, <2>1, <3>1
  <2> QED
    BY <1>1, <1>5, <2>1 DEF Answered, Answer
<1> QED
  BY <1>7, <1>8, <1>9, <1>10, <1>12, <1>13

-----------------------------------------------------------------------------
(* The steps of the loop.                                                  *)

\* A batch begins with the first items of the queues.
LEMMA BeginInv ==
  ASSUME BatcherInv, loop = "select",
         NEW items \in Seq(Call), Len(items) <= MaxBatch,
         in' \in Seq(Call), Len(in') <= Cap, Len(in') + Len(items) = Len(in) + Len(pending),
         \A i \in 1 .. Len(items) : items[i] = accepted[Base + i],
         \A i \in 1 .. Len(in') : in'[i] = accepted[Base + Len(items) + i],
         pending' = <<>>,
         reserves' = OfKind(items, "reserve"), completes' = OfKind(items, "complete"),
         loop' \in {"flush", "lastFlush"},
         UNCHANGED <<caller, got, replies, stopped, log, accepted, mark>>
  PROVE  BatcherInv'
<1> USE DEF BatcherInv
<1>1. /\ accepted \in Seq(Call) /\ in \in Seq(Call) /\ pending \in Seq(Call) /\ log \in Seq(Call)
      /\ Len(in) \in Nat /\ Len(accepted) \in Nat /\ Len(pending) \in Nat /\ Len(items) \in Nat
      /\ Len(in') \in Nat /\ DOMAIN accepted = 1 .. Len(accepted)
  BY DEF TypeOK
<1>2. Len(pending') = 0 /\ pending' \in Seq(Call)
  OBVIOUS
<1>3. /\ Base \in Nat /\ Base' = Base + Len(items) /\ Base + Len(items) <= Len(accepted)
      /\ Base' \in Nat
  <2>1. Base \in Nat /\ Base + Len(pending) + Len(in) = Len(accepted)
    BY BaseIs
  <2>2. Base' = Len(accepted) - Len(in') - 0
    BY <1>2 DEF Base
  <2>3. PICK A, N, P, L, M, B \in Nat :
          A = Len(accepted) /\ N = Len(in) /\ P = Len(pending) /\ L = Len(items)
          /\ M = Len(in') /\ B = Base
    BY <1>1, <2>1
  <2>4. M + L = N + P /\ B + P + N = A
    BY <2>1, <2>3
  <2>5. A - M - 0 = B + L /\ B + L <= A /\ B + L \in Nat
    BY <2>4
  <2> QED
    BY <2>2, <2>3, <2>5
<1>4. /\ \A i, j \in DOMAIN accepted : accepted[i] = accepted[j] => i = j
      /\ Within(accepted, log, Base) /\ RisingByKind(accepted, log)
  BY DEF Accepted, Logged
<1>5. ASSUME NEW kind, NEW t, t = OfKind(items, kind)
      PROVE  /\ t \in Seq(Call) /\ \A k \in DOMAIN t : KindOf[t[k]] = kind
             /\ Within(accepted, t, Base + Len(items)) /\ Rising(accepted, t)
             /\ KindBefore(accepted, log, t, kind)
  <2>1. PICK a \in Seq(Call) : a = accepted
    BY <1>1
  <2>2. PICK B \in Nat : B = Base
    BY <1>3
  <2>3. Slice(a, B, items) /\ Within(a, log, B)
    BY <1>3, <1>4, <2>1, <2>2 DEF Slice
  <2>4. /\ t \in Seq(Call) /\ \A k \in DOMAIN t : KindOf[t[k]] = kind
        /\ Within(a, t, B + Len(items)) /\ Rising(a, t)
        /\ KindBefore(a, log, t, kind)
    BY <1>5, <2>3, SplitIs
  <2> QED
    BY <2>1, <2>2, <2>4
<1>6. Len(reserves') + Len(completes') <= MaxBatch
  <2> DEFINE I == {i \in DOMAIN items : KindOf[items[i]] = "reserve"}
             J == {i \in DOMAIN items : KindOf[items[i]] = "complete"}
  <2>1. I \cap J = {}
    OBVIOUS
  <2>2. reserves' = Pick(items, I) /\ completes' = Pick(items, J)
    BY DEF OfKind
  <2> HIDE DEF I, J
  <2>3. Len(reserves') + Len(completes') <= Len(items)
    BY <2>1, <2>2, TwoPicks
  <2>4. Len(reserves') \in Nat /\ Len(completes') \in Nat
    BY <1>5
  <2> QED
    BY <1>1, <2>3, <2>4, Constants
<1>7. TypeOK'
  <2>1. reserves' \in Seq(Call) /\ completes' \in Seq(Call)
    BY <1>5
  <2>2. 0 < MaxBatch
    BY Constants
  <2> QED
    BY <1>2, <1>6, <2>1, <2>2 DEF TypeOK
<1>8. Accepted'
  BY DEF Accepted
<1>9. Queued'
  <2>1. \A i \in 1 .. Len(in') : in'[i] = accepted[Base' + Len(pending') + i]
    BY <1>1, <1>2, <1>3
  <2>2. ~\E i \in 1 .. Len(pending') : TRUE
    BY <1>2
  <2>3. Base' >= 0
    BY <1>3
  <2> QED
    BY <2>1, <2>2, <2>3 DEF Queued
<1>10. Batches'
  <2>1. BatchOf(reserves, "reserve")'
    BY <1>3, <1>5 DEF BatchOf
  <2>2. BatchOf(completes, "complete")'
    BY <1>3, <1>5 DEF BatchOf
  <2> QED
    BY <2>1, <2>2 DEF Batches
<1>11. Logged'
  <2>1. Within(accepted, log, Base')
    BY <1>1, <1>3, <1>4, WithinMore
  <2> QED
    BY <1>4, <2>1 DEF Logged
<1>12. Answered'
  <2>1. ASSUME NEW kind, NEW t, t = OfKind(items, kind), NEW c \in Call, Contains(t, c),
               NEW i \in 1 .. Base, accepted[i] = c
        PROVE  FALSE
    <3>1. PICK k \in DOMAIN t : t[k] = c
      <4>1. t \in Seq(Call)
        BY <1>5, <2>1
      <4> QED
        BY <2>1, <4>1 DEF Contains
    <3>2. PICK j \in 1 .. Len(items) : items[j] = c
      <4> DEFINE I == {n \in DOMAIN items : KindOf[items[n]] = kind}
      <4>1. t = Pick(items, I)
        BY <2>1 DEF OfKind
      <4> HIDE DEF I
      <4>2. t \in Seq(Call) /\ \E e : Picks(items, I, t, e)
        BY <4>1, PickIs
      <4>3. PICK e : Picks(items, I, t, e)
        BY <4>2
      <4>4. k \in 1 .. Len(t) /\ DOMAIN items = 1 .. Len(items)
        BY <4>2
      <4>5. e[k] \in 1 .. Len(items) /\ t[k] = items[e[k]]
        BY <4>3, <4>4 DEF Picks
      <4> QED
        BY <3>1, <4>5
    <3>3. Base + j \in DOMAIN accepted /\ i \in DOMAIN accepted /\ i # Base + j
      BY <1>1, <1>3
    <3> QED
      BY <1>4, <2>1, <3>2, <3>3
  <2>2. ASSUME NEW c \in Call, \E i \in 1 .. Base : accepted[i] = c
        PROVE  /\ \E i \in 1 .. Base' : accepted[i] = c
               /\ ~Contains(reserves', c) /\ ~Contains(completes', c)
    <3>1. \A i \in 1 .. Base : i \in 1 .. Base'
      BY <1>1, <1>3
    <3>2. ~Contains(reserves', c) /\ ~Contains(completes', c)
      BY <2>1, <2>2
    <3> QED
      BY <2>2, <3>1, <3>2
  <2> QED
    BY <2>2 DEF Answered, Answer
<1> QED
  BY <1>7, <1>8, <1>9, <1>10, <1>11, <1>12

LEMMA TimerFiresInv ==
  ASSUME BatcherInv, TimerFires
  PROVE  BatcherInv'
<1>1. /\ pending \in Seq(Call) /\ Len(pending) <= MaxBatch /\ in' = in /\ in \in Seq(Call) /\ Len(in) <= Cap
      /\ Len(in) \in Nat /\ Len(pending) \in Nat
  BY Constants DEF BatcherInv, TypeOK, TimerFires
<1>2. Len(in') + Len(pending) = Len(in) + Len(pending)
  BY <1>1
<1>3. /\ \A i \in 1 .. Len(pending) : pending[i] = accepted[Base + i]
      /\ \A i \in 1 .. Len(in') : in'[i] = accepted[Base + Len(pending) + i]
  BY <1>1 DEF BatcherInv, Queued
<1> QED
  BY <1>1, <1>2, <1>3, BeginInv DEF TimerFires, BeginFlush

LEMMA StopInv ==
  ASSUME BatcherInv, Stop
  PROVE  BatcherInv'
<1>1. /\ pending \in Seq(Call) /\ Len(pending) <= MaxBatch /\ in' = in /\ in \in Seq(Call) /\ Len(in) <= Cap
      /\ Len(in) \in Nat /\ Len(pending) \in Nat
  BY Constants DEF BatcherInv, TypeOK, Stop
<1>2. Len(in') + Len(pending) = Len(in) + Len(pending)
  BY <1>1
<1>3. /\ \A i \in 1 .. Len(pending) : pending[i] = accepted[Base + i]
      /\ \A i \in 1 .. Len(in') : in'[i] = accepted[Base + Len(pending) + i]
  BY <1>1 DEF BatcherInv, Queued
<1> QED
  BY <1>1, <1>2, <1>3, BeginInv DEF Stop

LEMMA ReceiveInv ==
  ASSUME BatcherInv, Receive
  PROVE  BatcherInv'
<1>1. PICK items : items = Append(pending, Head(in))
  OBVIOUS
<1>2. /\ loop = "select" /\ in # <<>> /\ in' = Tail(in)
      /\ UNCHANGED <<caller, got, replies, stopped, log, accepted, mark>>
      /\ \/ Len(items) >= MaxBatch /\ BeginFlush(items)
         \/ ~(Len(items) >= MaxBatch) /\ pending' = items /\ UNCHANGED <<reserves, completes, loop>>
  BY <1>1 DEF Receive
<1>3. /\ pending \in Seq(Call) /\ in \in Seq(Call) /\ Len(pending) < MaxBatch /\ Len(in) <= Cap
      /\ Len(pending) \in Nat /\ accepted \in Seq(Call) /\ Len(accepted) \in Nat
  BY DEF BatcherInv, TypeOK
<1>4. /\ Head(in) \in Call /\ Head(in) = in[1] /\ Len(in) \in Nat \ {0}
      /\ in' \in Seq(Call) /\ Len(in') = Len(in) - 1
      /\ \A i \in 1 .. Len(in) - 1 : in'[i] = in[i + 1]
  BY <1>2, <1>3, TailIs
<1>5. /\ items \in Seq(Call) /\ Len(items) = Len(pending) + 1
      /\ items[Len(pending) + 1] = in[1]
      /\ \A i \in 1 .. Len(pending) : items[i] = pending[i]
      /\ \A i \in 1 .. Len(pending) + 1 : i \in 1 .. Len(pending) \/ i = Len(pending) + 1
  BY <1>1, <1>3, <1>4, AppendIs
<1>6. /\ Len(items) <= MaxBatch /\ Len(in') <= Cap /\ Len(in') + Len(items) = Len(in) + Len(pending)
      /\ Len(in') \in Nat /\ Len(items) \in Nat
  BY <1>3, <1>4, <1>5, Constants
<1>7. Base \in Nat /\ Base + Len(pending) + Len(in) = Len(accepted)
  BY BaseIs DEF BatcherInv
<1>8. ASSUME NEW i \in 1 .. Len(items)
      PROVE  items[i] = accepted[Base + i]
  <2>1. CASE i \in 1 .. Len(pending)
    BY <1>5, <2>1 DEF BatcherInv, Queued
  <2>2. CASE i = Len(pending) + 1
    <3>1. 1 \in 1 .. Len(in) /\ Base + Len(pending) + 1 = Base + i
      BY <1>3, <1>4, <1>7, <2>2
    <3> QED
      BY <1>5, <2>2, <3>1 DEF BatcherInv, Queued
  <2> QED
    BY <1>5, <2>1, <2>2
<1>9. ASSUME NEW i \in 1 .. Len(in')
      PROVE  in'[i] = accepted[Base + Len(items) + i]
  <2>1. i \in 1 .. Len(in) - 1 /\ i + 1 \in 1 .. Len(in)
        /\ Base + Len(pending) + (i + 1) = Base + Len(items) + i
    BY <1>3, <1>4, <1>5, <1>7
  <2> QED
    BY <1>4, <2>1 DEF BatcherInv, Queued
<1>10. CASE BeginFlush(items)
  BY <1>2, <1>4, <1>5, <1>6, <1>8, <1>9, <1>10, BeginInv DEF BeginFlush
<1>11. CASE ~(Len(items) >= MaxBatch) /\ pending' = items /\ UNCHANGED <<reserves, completes, loop>>
  <2> USE DEF BatcherInv
  <2>1. Base' = Base
    <3>1. Base' = Len(accepted) - Len(in') - Len(items)
      BY <1>2, <1>11 DEF Base
    <3>2. Base = Len(accepted) - Len(in) - Len(pending)
      BY DEF Base
    <3> QED
      BY <1>3, <1>4, <1>5, <3>1, <3>2
  <2>2. Len(pending') < MaxBatch
    BY <1>6, <1>11, Constants
  <2>3. TypeOK'
    BY <1>2, <1>4, <1>5, <1>6, <1>11, <2>2 DEF TypeOK
  <2>4. Accepted'
    BY <1>2 DEF Accepted
  <2>5. Queued'
    BY <1>2, <1>7, <1>8, <1>9, <1>11, <2>1 DEF Queued
  <2>6. Batches' /\ Logged'
    BY <1>2, <1>11, <2>1 DEF Batches, BatchOf, Logged
  <2>7. Answered'
    BY <1>2, <1>11, <2>1 DEF Answered, Answer
  <2> QED
    BY <2>3, <2>4, <2>5, <2>6, <2>7
<1> QED
  BY <1>2, <1>10, <1>11

LEMMA FlushDoneInv ==
  ASSUME BatcherInv, FlushDone
  PROVE  BatcherInv'
<1> USE DEF BatcherInv
<1>1. /\ loop \in {"flush", "lastFlush"} /\ reserves = <<>> /\ completes = <<>>
      /\ loop' \in {"select", "done"}
      /\ UNCHANGED <<caller, got, in, pending, reserves, completes, replies, stopped, log, accepted, mark>>
  BY DEF FlushDone
<1>2. Base' = Base
  BY <1>1 DEF Base
<1>3. TypeOK'
  BY <1>1 DEF TypeOK
<1>4. Accepted'
  BY <1>1 DEF Accepted
<1>5. Queued'
  BY <1>1, <1>2 DEF Queued
<1>6. Batches' /\ Logged'
  BY <1>1, <1>2 DEF Batches, BatchOf, Logged
<1>7. Answered'
  BY <1>1, <1>2 DEF Answered, Answer
<1> QED
  BY <1>3, <1>4, <1>5, <1>6, <1>7

\* A call of a sequence is found where it is.
LEMMA AtIs ==
  ASSUME NEW s, NEW c, Contains(s, c), DOMAIN s = 1 .. Len(s)
  PROVE  At(s, c) \in DOMAIN s /\ s[At(s, c)] = c
<1>1. \E i \in DOMAIN s : s[i] = c
  BY DEF Contains
<1> QED
  BY <1>1 DEF At

\* The i-th result goes to the i-th item.
LEMMA RoutedIs ==
  ASSUME BatcherInv, NEW items \in Seq(Call), NEW results, NEW c \in Call,
         replies' = Routed(items, results)
  PROVE  /\ ~Contains(items, c) => replies'[c] = replies[c]
         /\ Contains(items, c) /\ replies[c] = <<>> =>
              /\ At(items, c) \in DOMAIN items /\ items[At(items, c)] = c
              /\ replies'[c] = <<results[At(items, c)]>>
<1>1. ~Contains(items, c) => replies'[c] = replies[c]
  BY DEF Routed
<1>2. ASSUME Contains(items, c), replies[c] = <<>>
      PROVE  /\ At(items, c) \in DOMAIN items /\ items[At(items, c)] = c
             /\ replies'[c] = <<results[At(items, c)]>>
  <2>1. At(items, c) \in DOMAIN items /\ items[At(items, c)] = c
    <3>1. DOMAIN items = 1 .. Len(items)
      OBVIOUS
    <3> QED
      BY <1>2, <3>1, AtIs
  <2>2. replies'[c] = Append(<<>>, results[At(items, c)])
    BY <1>2 DEF Routed
  <2>3. \A x : Append(<<>>, x) = <<x>>
    OBVIOUS
  <2> QED
    BY <2>1, <2>2, <2>3
<1> QED
  BY <1>1, <1>2

\* What a call of the limiter with a batch of one kind adds to the log and
\* to the reply channels.
LEMMA CallLimiterIs ==
  ASSUME BatcherInv, NEW items \in Seq(Call), NEW kind, BatchOf(items, kind), CallLimiter(items),
         \A c : Contains(items, c) => Contains(reserves, c) \/ Contains(completes, c)
  PROVE  /\ log' \in Seq(Call) /\ Within(accepted, log', Base) /\ RisingByKind(accepted, log')
         /\ replies' \in [Call -> Seq(Call \cup {Failed})]
         /\ \A t, other : other # kind /\ KindBefore(accepted, log, t, other) =>
              KindBefore(accepted, log', t, other)
         /\ \A c : Contains(log, c) => Contains(log', c)
         /\ \A c \in Call :
              /\ ~Contains(items, c) => replies'[c] = replies[c]
              /\ Contains(items, c) =>
                   /\ got[c] = None
                   /\ (replies'[c] = <<c>> /\ Contains(log', c)) \/ replies'[c] = <<Failed>>
<1>1. /\ log \in Seq(Call) /\ replies \in [Call -> Seq(Call \cup {Failed})]
      /\ Len(items) \in Nat /\ DOMAIN items = 1 .. Len(items)
  BY DEF BatcherInv, TypeOK
<1>2. ASSUME NEW c \in Call, Contains(items, c)
      PROVE  got[c] = None /\ replies[c] = <<>>
  BY <1>2 DEF BatcherInv, Answered
<1>3. PICK n \in 0 .. Len(items) :
        /\ log' = log \o SubSeq(items, 1, n)
        /\ \/ n = Len(items) /\ replies' = Routed(items, items)
           \/ replies' = Routed(items, [i \in DOMAIN items |-> Failed])
  <2>1. CASE replies' = Routed(items, items) /\ log' = log \o items
    <3>1. Len(items) \in 0 .. Len(items)
      BY <1>1
    <3>2. SubSeq(items, 1, Len(items)) = items
      BY <3>1, PrefixIs
    <3> QED
      BY <2>1, <3>1, <3>2
  <2>2. CASE /\ replies' = Routed(items, [i \in DOMAIN items |-> Failed])
             /\ \E m \in 0 .. Len(items) : log' = log \o SubSeq(items, 1, m)
    BY <2>2
  <2> QED
    BY <2>1, <2>2 DEF CallLimiter
<1>4. /\ \A k \in DOMAIN items : KindOf[items[k]] = kind
      /\ Within(accepted, items, Base) /\ Rising(accepted, items) /\ KindBefore(accepted, log, items, kind)
      /\ Within(accepted, log, Base) /\ RisingByKind(accepted, log)
  BY DEF BatcherInv, BatchOf, Logged
<1>5. /\ log' \in Seq(Call) /\ Within(accepted, log', Base) /\ RisingByKind(accepted, log')
      /\ \A c : Contains(log, c) => Contains(log', c)
      /\ n = Len(items) => \A c : Contains(items, c) => Contains(log', c)
      /\ \A t, other : other # kind /\ KindBefore(accepted, log, t, other) =>
           KindBefore(accepted, log', t, other)
  <2>1. PICK L \in Seq(Call) : L = log
    BY <1>1
  <2>2. PICK M : M = log'
    OBVIOUS
  <2>3. PICK a, B : a = accepted /\ B = Base
    OBVIOUS
  <2>4. /\ \A k \in DOMAIN items : KindOf[items[k]] = kind
        /\ Within(a, items, B) /\ Rising(a, items) /\ KindBefore(a, L, items, kind)
        /\ Within(a, L, B) /\ RisingByKind(a, L) /\ M = L \o SubSeq(items, 1, n)
    BY <1>3, <1>4, <2>1, <2>2, <2>3
  <2>5. MayFollow(a, B, L, kind, items) /\ Follows(L, items, n, M)
    BY <2>4 DEF MayFollow, Follows
  <2>6. LogGrows(a, B, L, kind, M) /\ (n = Len(items) => \A c : Contains(items, c) => Contains(M, c))
    BY <2>5, LogMore
  <2> QED
    BY <2>1, <2>2, <2>3, <2>6 DEF LogGrows
<1>6. ASSUME NEW c \in Call, Contains(items, c)
      PROVE  (replies'[c] = <<c>> /\ Contains(log', c)) \/ replies'[c] = <<Failed>>
  <2>1. CASE n = Len(items) /\ replies' = Routed(items, items)
    <3>1. items[At(items, c)] = c /\ replies'[c] = <<items[At(items, c)]>>
      BY <1>2, <1>6, <2>1, RoutedIs
    <3> QED
      BY <1>5, <1>6, <2>1, <3>1
  <2>2. CASE replies' = Routed(items, [i \in DOMAIN items |-> Failed])
    <3>1. PICK F : F = [i \in DOMAIN items |-> Failed]
      OBVIOUS
    <3>2. \A i \in DOMAIN items : F[i] = Failed
      BY <3>1
    <3>3. replies' = Routed(items, F)
      BY <2>2, <3>1
    <3>4. replies'[c] = Append(<<>>, F[At(items, c)])
      BY <1>2, <1>6, <3>3 DEF Routed
    <3>5. At(items, c) \in DOMAIN items
      BY <1>1, <1>6, AtIs
    <3>6. \A x : Append(<<>>, x) = <<x>>
      OBVIOUS
    <3> QED
      BY <3>2, <3>4, <3>5, <3>6
  <2> QED
    BY <1>3, <2>1, <2>2
<1>7. ASSUME NEW c \in Call, ~Contains(items, c)
      PROVE  replies'[c] = replies[c]
  BY <1>3, <1>7, RoutedIs
<1>8. replies' \in [Call -> Seq(Call \cup {Failed})]
  <2>1. ASSUME NEW c \in Call
        PROVE  replies'[c] \in Seq(Call \cup {Failed})
    <3>1. CASE Contains(items, c)
      <4>1. <<c>> \in Seq(Call \cup {Failed}) /\ <<Failed>> \in Seq(Call \cup {Failed})
        OBVIOUS
      <4> QED
        BY <1>6, <3>1, <4>1
    <3>2. CASE ~Contains(items, c)
      BY <1>1, <1>7, <3>2
    <3> QED
      BY <3>1, <3>2
  <2>2. replies' = [c \in Call |-> replies'[c]]
    BY <1>3 DEF Routed
  <2> QED
    BY <2>1, <2>2
<1> QED
  BY <1>2, <1>5, <1>6, <1>7, <1>8

\* The replies of a batch, when it is gone.
LEMMA AnsweredMore ==
  ASSUME BatcherInv, NEW items \in Seq(Call), BatchOf(items, "reserve") \/ BatchOf(items, "complete"),
         UNCHANGED <<got, accepted, in, pending>>,
         \A c : Contains(reserves', c) => Contains(reserves, c) /\ ~Contains(items, c),
         \A c : Contains(completes', c) => Contains(completes, c) /\ ~Contains(items, c),
         \A c : Contains(log, c) => Contains(log', c),
         \A c \in Call :
           /\ ~Contains(items, c) => replies'[c] = replies[c]
           /\ Contains(items, c) =>
                /\ got[c] = None
                /\ (replies'[c] = <<c>> /\ Contains(log', c)) \/ replies'[c] = <<Failed>>
  PROVE  Answered'
<1>1. Base' = Base
  BY DEF Base
<1>2. Within(accepted, items, Base)
  BY DEF BatchOf
<1>3. ASSUME NEW c \in Call
      PROVE  /\ Len(replies'[c]) <= 1 /\ (got[c] # None => replies'[c] = <<>>)
             /\ replies'[c] # <<>> =>
                  replies'[c][1] = Failed \/ (replies'[c][1] = c /\ Contains(log', c))
             /\ got[c] # None => got[c] = Failed \/ (got[c] = c /\ Contains(log', c))
             /\ replies'[c] # <<>> \/ got[c] # None =>
                  /\ \E i \in 1 .. Base : accepted[i] = c
                  /\ ~Contains(reserves', c) /\ ~Contains(completes', c)
  <2>1. CASE Contains(items, c)
    <3>1. \E i \in 1 .. Base : accepted[i] = c
      <4>1. DOMAIN items = 1 .. Len(items)
        OBVIOUS
      <4> QED
        BY <1>2, <2>1, <4>1 DEF Within, Contains
    <3>2. ASSUME NEW x, replies'[c] = <<x>>
          PROVE  Len(replies'[c]) <= 1 /\ replies'[c][1] = x
      BY <3>2
    <3>3. Len(replies'[c]) <= 1
          /\ (replies'[c][1] = Failed \/ (replies'[c][1] = c /\ Contains(log', c)))
      BY <2>1, <3>2
    <3> QED
      BY <2>1, <3>1, <3>3
  <2>2. CASE ~Contains(items, c)
    BY <2>2 DEF BatcherInv, Answered, Answer
  <2> QED
    BY <2>1, <2>2
<1> QED
  BY <1>1, <1>3 DEF Answered, Answer

LEMMA FlushReserveInv ==
  ASSUME BatcherInv, FlushReserve
  PROVE  BatcherInv'
<1>1. /\ loop \in {"flush", "lastFlush"} /\ CallLimiter(reserves) /\ reserves' = <<>>
      /\ UNCHANGED <<caller, got, in, pending, completes, loop, stopped, accepted, mark>>
  BY DEF FlushReserve
<1>2. PICK items \in Seq(Call) : items = reserves
  BY DEF BatcherInv, TypeOK
<1>3. BatchOf(items, "reserve") /\ BatchOf(completes, "complete")
      /\ completes \in Seq(Call) /\ DOMAIN completes = 1 .. Len(completes)
      /\ DOMAIN items = 1 .. Len(items)
  BY <1>2 DEF BatcherInv, Batches, TypeOK
<1>4. Base' = Base
  BY <1>1 DEF Base
<1>5. /\ log' \in Seq(Call) /\ Within(accepted, log', Base) /\ RisingByKind(accepted, log')
      /\ replies' \in [Call -> Seq(Call \cup {Failed})]
      /\ \A t, other : other # "reserve" /\ KindBefore(accepted, log, t, other) =>
           KindBefore(accepted, log', t, other)
      /\ \A c : Contains(log, c) => Contains(log', c)
      /\ \A c \in Call :
           /\ ~Contains(items, c) => replies'[c] = replies[c]
           /\ Contains(items, c) =>
                /\ got[c] = None
                /\ (replies'[c] = <<c>> /\ Contains(log', c)) \/ replies'[c] = <<Failed>>
  BY <1>1, <1>2, <1>3, CallLimiterIs
<1>6. KindBefore(accepted, log', completes, "complete")
  BY <1>3, <1>5 DEF BatchOf
<1>7. \A c : ~Contains(reserves', c)
  BY <1>1 DEF Contains
<1>8. ASSUME NEW c, Contains(completes, c), Contains(items, c)
      PROVE  FALSE
  <2>1. PICK i \in DOMAIN items : items[i] = c
    BY <1>3, <1>8 DEF Contains
  <2>2. PICK k \in DOMAIN completes : completes[k] = c
    BY <1>3, <1>8 DEF Contains
  <2> QED
    BY <1>3, <2>1, <2>2 DEF BatchOf
<1>9. Answered'
  BY <1>1, <1>3, <1>5, <1>7, <1>8, AnsweredMore
<1>10. TypeOK'
  <2>1. /\ Len(reserves') = 0 /\ Len(completes) \in Nat /\ Len(reserves) \in Nat
        /\ reserves' \in Seq(Call) /\ Len(reserves) + Len(completes) <= MaxBatch
    BY <1>1 DEF BatcherInv, TypeOK
  <2>2. Len(reserves') + Len(completes') <= MaxBatch
    BY <1>1, <2>1, Constants
  <2> QED
    BY <1>1, <1>5, <2>1, <2>2 DEF BatcherInv, TypeOK
<1>11. Accepted'
  BY <1>1 DEF BatcherInv, Accepted
<1>12. Queued'
  BY <1>1, <1>4 DEF BatcherInv, Queued
<1>13. Batches'
  <2>1. BatchOf(completes, "complete")'
    BY <1>1, <1>3, <1>4, <1>6 DEF BatchOf
  <2>2. BatchOf(reserves, "reserve")'
    <3>1. ~\E k \in DOMAIN reserves' : TRUE
      BY <1>1
    <3> QED
      BY <3>1 DEF BatchOf, Within, Rising, KindBefore
  <2> QED
    BY <1>1, <2>1, <2>2 DEF Batches
<1>14. Logged'
  BY <1>1, <1>4, <1>5 DEF Logged
<1> QED
  BY <1>9, <1>10, <1>11, <1>12, <1>13, <1>14 DEF BatcherInv

LEMMA FlushCompleteInv ==
  ASSUME BatcherInv, FlushComplete
  PROVE  BatcherInv'
<1>1. /\ loop \in {"flush", "lastFlush"} /\ CallLimiter(completes) /\ completes' = <<>>
      /\ reserves = <<>> /\ reserves' = <<>>
      /\ UNCHANGED <<caller, got, in, pending, loop, stopped, accepted, mark>>
  BY DEF FlushComplete
<1>2. PICK items \in Seq(Call) : items = completes
  BY DEF BatcherInv, TypeOK
<1>3. BatchOf(items, "complete")
  BY <1>2 DEF BatcherInv, Batches
<1>4. Base' = Base
  BY <1>1 DEF Base
<1>5. /\ log' \in Seq(Call) /\ Within(accepted, log', Base) /\ RisingByKind(accepted, log')
      /\ replies' \in [Call -> Seq(Call \cup {Failed})]
      /\ \A c : Contains(log, c) => Contains(log', c)
      /\ \A c \in Call :
           /\ ~Contains(items, c) => replies'[c] = replies[c]
           /\ Contains(items, c) =>
                /\ got[c] = None
                /\ (replies'[c] = <<c>> /\ Contains(log', c)) \/ replies'[c] = <<Failed>>
  BY <1>1, <1>2, <1>3, CallLimiterIs
<1>6. \A c : ~Contains(reserves', c) /\ ~Contains(completes', c)
  BY <1>1 DEF Contains
<1>7. Answered'
  BY <1>1, <1>3, <1>5, <1>6, AnsweredMore
<1>8. TypeOK'
  <2>1. /\ Len(reserves') = 0 /\ Len(completes') = 0
        /\ reserves' \in Seq(Call) /\ completes' \in Seq(Call)
    BY <1>1
  <2>2. Len(reserves') + Len(completes') <= MaxBatch
    BY <2>1, Constants
  <2> QED
    BY <1>1, <1>5, <2>1, <2>2 DEF BatcherInv, TypeOK
<1>9. Accepted'
  BY <1>1 DEF BatcherInv, Accepted
<1>10. Queued'
  BY <1>1, <1>4 DEF BatcherInv, Queued
<1>11. Batches'
  <2>1. (~\E k \in DOMAIN reserves' : TRUE) /\ (~\E k \in DOMAIN completes' : TRUE)
    BY <1>1
  <2>2. BatchOf(reserves, "reserve")' /\ BatchOf(completes, "complete")'
    BY <2>1 DEF BatchOf, Within, Rising, KindBefore
  <2> QED
    BY <1>1, <2>2 DEF Batches
<1>12. Logged'
  BY <1>1, <1>4, <1>5 DEF Logged
<1> QED
  BY <1>7, <1>8, <1>9, <1>10, <1>11, <1>12 DEF BatcherInv

LEMMA NextInv ==
  ASSUME BatcherInv, [Next]_vars
  PROVE  BatcherInv'
<1>1. ASSUME NEW c \in Call, Start(c)
      PROVE  BatcherInv'
  BY <1>1, CallerMoves DEF Start
<1>2. ASSUME NEW c \in Call, Closed(c)
      PROVE  BatcherInv'
  BY <1>2, CallerMoves DEF Closed
<1>3. ASSUME NEW c \in Call, Expired(c)
      PROVE  BatcherInv'
  BY <1>3, CallerMoves DEF Expired
<1>4. ASSUME UNCHANGED vars
      PROVE  BatcherInv'
  <2>1. UNCHANGED <<caller, got, in, pending, reserves, completes, replies, loop, stopped, log, accepted, mark>>
    BY <1>4 DEF vars
  <2>2. TypeOK' /\ Accepted'
    BY <2>1 DEF BatcherInv, TypeOK, Accepted
  <2>3. Queued' /\ Batches' /\ Logged'
    BY <2>1, QueuesSame DEF BatcherInv
  <2>4. Answered'
    BY <2>1 DEF BatcherInv, Answered, Answer, Base
  <2> QED
    BY <2>2, <2>3, <2>4 DEF BatcherInv
<1>5. CASE \E c \in Call : Start(c) \/ Enqueue(c) \/ Closed(c) \/ Expired(c) \/ Return(c)
  BY <1>1, <1>2, <1>3, <1>5, EnqueueInv, ReturnInv
<1>6. CASE Shutdown \/ Receive \/ TimerFires \/ Stop
  BY <1>6, ShutdownInv, ReceiveInv, TimerFiresInv, StopInv
<1>7. CASE Flush
  BY <1>7, FlushReserveInv, FlushCompleteInv, FlushDoneInv DEF Flush
<1> QED
  BY <1>4, <1>5, <1>6, <1>7 DEF Next

-----------------------------------------------------------------------------
(* The theorems.                                                           *)

\* The log's order of a kind is that of acceptance.
LEMMA InvOnceInOrder == BatcherInv => OnceInOrder
<1> SUFFICES ASSUME BatcherInv PROVE OnceInOrder
  OBVIOUS
<1>1. /\ log \in Seq(Call) /\ accepted \in Seq(Call) /\ DOMAIN log = 1 .. Len(log) /\ Len(log) \in Nat
      /\ DOMAIN accepted = 1 .. Len(accepted) /\ Len(accepted) \in Nat
  BY DEF BatcherInv, TypeOK
<1>2. /\ Within(accepted, log, Base) /\ RisingByKind(accepted, log) /\ Base \in Nat /\ Base <= Len(accepted)
      /\ \A i, j \in DOMAIN accepted : accepted[i] = accepted[j] => i = j
  BY BaseIs DEF BatcherInv, Logged, Accepted
<1>3. ASSUME NEW i \in DOMAIN log
      PROVE  At(accepted, log[i]) \in DOMAIN accepted /\ accepted[At(accepted, log[i])] = log[i]
  <2>1. \A q \in 1 .. Base : q \in 1 .. Len(accepted)
    BY <1>1, <1>2
  <2>2. Contains(accepted, log[i])
    BY <1>2, <2>1 DEF Within, Contains
  <2> QED
    BY <1>1, <2>2, AtIs
<1>4. ASSUME NEW i \in DOMAIN log, NEW k \in DOMAIN log, i < k, KindOf[log[i]] = KindOf[log[k]]
      PROVE  At(accepted, log[i]) < At(accepted, log[k])
  BY <1>2, <1>3, <1>4 DEF RisingByKind, Earlier
<1>5. ASSUME NEW i \in DOMAIN log, NEW k \in DOMAIN log, log[i] = log[k]
      PROVE  i = k
  <2>1. PICK p \in DOMAIN accepted : p = At(accepted, log[i])
    BY <1>3
  <2>2. p \in Nat /\ i \in Nat /\ k \in Nat
    BY <1>1
  <2>3. ~(i < k)
    BY <1>4, <1>5, <2>1, <2>2
  <2>4. ~(k < i)
    BY <1>4, <1>5, <2>1, <2>2
  <2> QED
    BY <2>2, <2>3, <2>4
<1>6. \A c \in Call : Len(replies[c]) <= 1 /\ (got[c] # None => replies[c] = <<>>)
  BY DEF BatcherInv, Answered
<1> QED
  BY <1>4, <1>5, <1>6 DEF OnceInOrder, BatcherInv

LEMMA InvOwnAnswer == BatcherInv => OwnAnswer
BY DEF BatcherInv, Answered, Answer, OwnAnswer

\* Whatever the deadlines, the failures of the limiter and the moment of
\* Shutdown, a caller that returns with a result has the limiter's result for
\* its own request (flushReserve and flushComplete route results by place),
\* and the limiter has processed that request.
THEOREM Answers == Spec => []OwnAnswer
<1>1. Init => BatcherInv
  BY InitInv
<1>2. BatcherInv /\ [Next]_vars => BatcherInv'
  BY NextInv
<1> QED
  BY <1>1, <1>2, InvOwnAnswer, PTL DEF Spec

\* The limiter sees a call at most once, calls of one kind in the order they
\* entered the batcher, and the loop sends each call at most one reply, so
\* its one-place channel never blocks the loop; neither `in' nor a batch
\* outgrows its limit.
THEOREM Order == Spec => []OnceInOrder
<1>1. Init => BatcherInv
  BY InitInv
<1>2. BatcherInv /\ [Next]_vars => BatcherInv'
  BY NextInv
<1> QED
  BY <1>1, <1>2, InvOnceInOrder, PTL DEF Spec
=============================================================================
