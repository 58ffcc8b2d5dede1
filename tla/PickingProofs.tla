---------------------------- MODULE PickingProofs ----------------------------
(***************************************************************************)
(* What the loop of Picking computes, for every sequence: its definition   *)
(* is recursive, so both that it defines a function and what that function *)
(* is are shown from the least number for which they would fail.           *)
(***************************************************************************)
EXTENDS Picking, WellFoundedInduction, TLAPS

-----------------------------------------------------------------------------
(* Least elements.                                                         *)

\* A nonempty set of naturals has a least element.
LEMMA Least ==
  ASSUME NEW T, T \subseteq Nat, T # {}
  PROVE  \E m \in T : \A y \in T : m <= y
<1> DEFINE R == OpToRel(<, Nat)
<1>1. IsWellFoundedOn(R, Nat)
  BY NatLessThanWellFounded
<1>2. PICK m \in T : \A y \in T : ~ (<<y, m>> \in R)
  <2> HIDE DEF R
  <2> QED
    BY <1>1, WFMin
<1>3. ASSUME NEW y \in T, y < m
      PROVE  FALSE
  <2>1. <<y, m>> \in Nat \X Nat /\ <<y, m>>[1] < <<y, m>>[2]
    BY <1>3
  <2>2. <<y, m>> \in R
    BY <2>1 DEF OpToRel
  <2> QED
    BY <1>2, <2>2
<1> QED
  BY <1>3

-----------------------------------------------------------------------------
(* The loop.                                                               *)

\* g has the items of h at the indices of I, in order: its k-th is h's e[k]-th.
Picks(h, I, g, e) ==
  /\ e \in [1 .. Len(g) -> DOMAIN h]
  /\ \A k, l \in 1 .. Len(g) : k < l => e[k] < e[l]
  /\ \A k \in 1 .. Len(g) : e[k] \in I /\ g[k] = h[e[k]]
  /\ \A i \in DOMAIN h : i \in I => \E k \in 1 .. Len(g) : e[k] = i

\* The loop that appends the items whose index is in I, up to the n-th.
LoopStep(h, I, F, n) ==
  IF n = 0 THEN <<>> ELSE IF n \in I THEN Append(F[n - 1], h[n]) ELSE F[n - 1]
Loops(h, I, n) == \E F : F = [m \in 0 .. n |-> LoopStep(h, I, F, m)]

LEMMA LoopsMore ==
  ASSUME NEW h, NEW I, NEW n \in Nat, Loops(h, I, n)
  PROVE  Loops(h, I, n + 1)
<1>1. PICK F : F = [m \in 0 .. n |-> LoopStep(h, I, F, m)]
  BY DEF Loops
<1> DEFINE G == [m \in 0 .. n + 1 |-> IF m = n + 1 THEN LoopStep(h, I, F, n + 1) ELSE F[m]]
<1>2. ASSUME NEW m \in 0 .. n + 1
      PROVE  G[m] = LoopStep(h, I, G, m)
  <2>1. CASE m = n + 1
    <3>1. G[m] = LoopStep(h, I, F, n + 1)
      BY <2>1
    <3>2. n \in 0 .. n + 1 /\ n # n + 1 /\ G[n] = F[n] /\ (n + 1) - 1 = n /\ n + 1 # 0
      OBVIOUS
    <3> HIDE DEF G
    <3> QED
      BY <2>1, <3>1, <3>2 DEF LoopStep
  <2>2. CASE m # n + 1
    <3>1. m \in 0 .. n /\ G[m] = F[m]
      BY <2>2
    <3>2. F[m] = LoopStep(h, I, F, m)
      BY <1>1, <3>1
    <3>3. m # 0 => m - 1 \in 0 .. n + 1 /\ m - 1 # n + 1
      BY <3>1
    <3>4. m # 0 => G[m - 1] = F[m - 1]
      BY <3>3
    <3> HIDE DEF G
    <3> QED
      BY <3>1, <3>2, <3>4 DEF LoopStep
  <2> QED
    BY <2>1, <2>2
<1>3. DOMAIN G = 0 .. n + 1 /\ G = [m \in DOMAIN G |-> G[m]]
  OBVIOUS
<1> HIDE DEF G
<1>4. G = [m \in 0 .. n + 1 |-> LoopStep(h, I, G, m)]
  BY <1>2, <1>3
<1> QED
  BY <1>4 DEF Loops

LEMMA AlwaysLoops ==
  ASSUME NEW h, NEW I, NEW n \in Nat
  PROVE  Loops(h, I, n)
<1> DEFINE T == {m \in Nat : ~Loops(h, I, m)}
<1> SUFFICES ASSUME T # {} PROVE FALSE
  OBVIOUS
<1>1. PICK m \in T : \A y \in T : m <= y
  BY Least
<1>2. m # 0
  <2> DEFINE F == [k \in 0 .. 0 |-> <<>>]
  <2>1. F = [k \in 0 .. 0 |-> LoopStep(h, I, F, k)]
    BY DEF LoopStep
  <2>2. Loops(h, I, 0)
    <3> HIDE DEF F
    <3> QED
      BY <2>1 DEF Loops
  <2> QED
    BY <2>2
<1>3. m - 1 \in Nat /\ m - 1 \notin T /\ (m - 1) + 1 = m
  BY <1>1, <1>2
<1>4. Loops(h, I, m)
  BY <1>3, LoopsMore
<1> QED
  BY <1>1, <1>4

\* One more item: an index in I is appended, another one is not.
LEMMA PicksMore ==
  ASSUME NEW S, NEW h \in Seq(S), NEW I, NEW n \in Nat, n + 1 \in DOMAIN h,
         NEW g \in Seq(S), NEW e, Picks(h, I \cap (1 .. n), g, e)
  PROVE  \E f : Picks(h, I \cap (1 .. n + 1),
                      IF n + 1 \in I THEN Append(g, h[n + 1]) ELSE g, f)
<1>1. DOMAIN h = 1 .. Len(h) /\ Len(h) \in Nat /\ Len(g) \in Nat /\ n + 1 \in 1 .. Len(h)
  OBVIOUS
<1>2. CASE n + 1 \notin I
  <2>1. I \cap (1 .. n) = I \cap (1 .. n + 1)
    BY <1>2
  <2> QED
    BY <1>2, <2>1
<1>3. CASE n + 1 \in I
  <2> DEFINE G == Append(g, h[n + 1])
             f == [k \in 1 .. Len(g) + 1 |-> IF k = Len(g) + 1 THEN n + 1 ELSE e[k]]
  <2>1. Len(G) = Len(g) + 1 /\ G[Len(g) + 1] = h[n + 1] /\ \A k \in 1 .. Len(g) : G[k] = g[k]
    BY <1>1
  <2>2. f[Len(g) + 1] = n + 1 /\ \A k \in 1 .. Len(g) : f[k] = e[k]
    BY <1>1
  <2>3. \A k \in 1 .. Len(g) : e[k] \in 1 .. n /\ e[k] \in I /\ e[k] \in DOMAIN h /\ g[k] = h[e[k]]
    BY DEF Picks
  <2>4. \A k \in 1 .. Len(g) + 1 : k \in 1 .. Len(g) \/ k = Len(g) + 1
    BY <1>1
  <2>5. f \in [1 .. Len(G) -> DOMAIN h]
    BY <1>1, <2>1, <2>3, <2>4
  <2> HIDE DEF f, G
  <2>6. ASSUME NEW k \in 1 .. Len(G), NEW l \in 1 .. Len(G), k < l
        PROVE  f[k] < f[l]
    <3>1. k \in 1 .. Len(g)
      BY <2>6, <2>1, <1>1
    <3>2. CASE l \in 1 .. Len(g)
      <4>1. e[k] < e[l]
        BY <2>6, <3>1, <3>2 DEF Picks
      <4> QED
        BY <4>1, <3>1, <3>2, <2>2
    <3>3. CASE l = Len(g) + 1
      BY <3>1, <3>3, <2>2, <2>3, SMTT(30)
    <3> QED
      BY <3>2, <3>3, <2>4, <2>1
  <2>7. ASSUME NEW k \in 1 .. Len(G)
        PROVE  f[k] \in I \cap (1 .. n + 1) /\ G[k] = h[f[k]]
    <3>1. CASE k \in 1 .. Len(g)
      BY <3>1, <2>1, <2>2, <2>3
    <3>2. CASE k = Len(g) + 1
      BY <3>2, <2>1, <2>2, <1>3
    <3> QED
      BY <3>1, <3>2, <2>4, <2>1
  <2>8. ASSUME NEW i \in DOMAIN h, i \in I \cap (1 .. n + 1)
        PROVE  \E k \in 1 .. Len(G) : f[k] = i
    <3>1. CASE i = n + 1
      BY <3>1, <2>2, <2>1, <1>1
    <3>2. CASE i # n + 1
      <4>1. i \in I \cap (1 .. n)
        BY <2>8, <3>2
      <4>2. PICK k \in 1 .. Len(g) : e[k] = i
        BY <4>1 DEF Picks
      <4> QED
        BY <4>2, <2>2, <2>1, <1>1
    <3> QED
      BY <3>1, <3>2
  <2>9. Picks(h, I \cap (1 .. n + 1), G, f)
    BY <2>5, <2>6, <2>7, <2>8 DEF Picks
  <2> QED
    BY <2>9, <1>3 DEF G
<1> QED
  BY <1>2, <1>3

\* What Pick computes: the elements of h at the indices of I, in order.
LEMMA PickIs ==
  ASSUME NEW S, NEW h \in Seq(S), NEW I
  PROVE  Pick(h, I) \in Seq(S) /\ \E e : Picks(h, I, Pick(h, I), e)
<1> DEFINE N == Len(h)
           F == CHOOSE F : F = [n \in 0 .. N |-> LoopStep(h, I, F, n)]
<1>1. N \in Nat /\ DOMAIN h = 1 .. N
  OBVIOUS
<1>2. F = [n \in 0 .. N |-> LoopStep(h, I, F, n)]
  <2>1. \E G : G = [n \in 0 .. N |-> LoopStep(h, I, G, n)]
    BY <1>1, AlwaysLoops DEF Loops
  <2> QED
    BY <2>1
<1>3. Pick(h, I) = F[N]
  BY DEF Pick, LoopStep
<1> HIDE DEF F
<1> DEFINE Good(n) == F[n] \in Seq(S) /\ \E e : Picks(h, I \cap (1 .. n), F[n], e)
           T == {n \in 0 .. N : ~Good(n)}
<1>4. \A n \in 0 .. N : F[n] = LoopStep(h, I, F, n)
  BY <1>2
<1>5. Good(0)
  <2>1. F[0] = <<>>
    BY <1>1, <1>4 DEF LoopStep
  <2>2. Picks(h, I \cap (1 .. 0), <<>>, [k \in 1 .. 0 |-> 1])
    BY DEF Picks
  <2> QED
    BY <2>1, <2>2
<1>6. ASSUME NEW n \in 0 .. N - 1, Good(n)
      PROVE  Good(n + 1)
  <2>1. n \in Nat /\ n + 1 \in DOMAIN h /\ n + 1 \in 0 .. N /\ (n + 1) - 1 = n /\ n + 1 # 0
    BY <1>1
  <2>2. F[n + 1] = IF n + 1 \in I THEN Append(F[n], h[n + 1]) ELSE F[n]
    BY <1>4, <2>1 DEF LoopStep
  <2>3. PICK e : Picks(h, I \cap (1 .. n), F[n], e)
    BY <1>6
  <2>4. F[n] \in Seq(S)
    BY <1>6
  <2>5. \E f : Picks(h, I \cap (1 .. n + 1),
                     IF n + 1 \in I THEN Append(F[n], h[n + 1]) ELSE F[n], f)
    <3> HIDE DEF N
    <3> QED
      BY <2>1, <2>3, <2>4, PicksMore
  <2>6. F[n + 1] \in Seq(S)
    BY <2>1, <2>2, <2>4
  <2> QED
    BY <2>2, <2>5, <2>6
<1>7. T = {}
  <2> SUFFICES ASSUME T # {} PROVE FALSE
    OBVIOUS
  <2>1. PICK m \in T : \A y \in T : m <= y
    <3>1. T \subseteq Nat
      BY <1>1
    <3> HIDE DEF T
    <3> QED
      BY <3>1, Least
  <2>2. m \in 0 .. N /\ ~Good(m)
    BY <2>1
  <2>3. m # 0
    BY <2>2, <1>5
  <2>4. m - 1 \in 0 .. N - 1 /\ m - 1 \in 0 .. N /\ (m - 1) + 1 = m /\ ~ (m <= m - 1)
    BY <1>1, <2>2, <2>3
  <2>5. m - 1 \notin T
    BY <2>1, <2>4
  <2>6. Good(m - 1)
    BY <2>4, <2>5
  <2>7. Good((m - 1) + 1)
    <3> HIDE DEF Good, N
    <3> QED
      BY <2>4, <2>6, <1>6
  <2> QED
    BY <2>2, <2>4, <2>7
<1>8. Good(N)
  <2> SUFFICES ASSUME ~Good(N) PROVE FALSE
    OBVIOUS
  <2>1. N \in 0 .. N
    BY <1>1
  <2>2. N \in T
    <3> HIDE DEF Good
    <3> QED
      BY <2>1
  <2> QED
    BY <1>7, <2>2
<1>9. PICK e : Picks(h, I \cap (1 .. N), F[N], e)
  BY <1>8
<1>10. Picks(h, I, F[N], e)
  BY <1>1, <1>9 DEF Picks
<1> QED
  BY <1>3, <1>8, <1>10
=============================================================================
