---------------------------- MODULE CallLoopProofs ----------------------------
(***************************************************************************)
(* Proofs about the agent's turn, for every configuration of compaction,   *)
(* every set of responses and every limit: calls and outputs stay paired,  *)
(* compaction keeps what it must, requests stay within the limits, and the *)
(* hooks bracket the turn.                                                 *)
(***************************************************************************)
EXTENDS CallLoop, PickingProofs, FiniteSetTheorems, TLAPS

-----------------------------------------------------------------------------
(* Sets of indices.                                                        *)

\* Max is the greatest index of a nonempty set of indices.
LEMMA MaxIs ==
  ASSUME NEW n \in Nat, NEW I, I \subseteq 1 .. n, I # {}
  PROVE  Max(I) \in I /\ \A i \in I : i <= Max(I)
<1> DEFINE D == {n - i : i \in I}
<1>1. D \subseteq Nat /\ D # {}
  <2>1. \A i \in I : i \in 1 .. n /\ n - i \in Nat
    OBVIOUS
  <2> QED
    BY <2>1
<1>2. PICK d \in D : \A y \in D : d <= y
  BY <1>1, Least
<1>3. PICK m \in I : d = n - m
  BY <1>2
<1>4. ASSUME NEW i \in I
      PROVE  m >= i
  <2>1. n - i \in D
    OBVIOUS
  <2>2. n - m <= n - i
    BY <1>2, <1>3, <2>1
  <2> QED
    BY <2>2
<1>5. \E x \in I : \A y \in I : x >= y
  BY <1>4
<1>6. Max(I) \in I /\ \A y \in I : Max(I) >= y
  BY <1>5 DEF Max
<1> QED
  BY <1>6

\* It is the only one.
LEMMA MaxUnique ==
  ASSUME NEW n \in Nat, NEW I, I \subseteq 1 .. n, NEW m \in I, \A i \in I : i <= m
  PROVE  Max(I) = m
<1>1. Max(I) \in I /\ \A i \in I : i <= Max(I)
  BY MaxIs
<1>2. Max(I) \in Int /\ m \in Int
  <2>1. \A i \in I : i \in Int
    OBVIOUS
  <2> QED
    BY <1>1, <2>1
<1>3. m <= Max(I) /\ Max(I) <= m
  BY <1>1
<1> QED
  BY <1>2, <1>3

-----------------------------------------------------------------------------
(* Histories: pairing and order.                                           *)

\* Every output follows a call of its id, and answers the nearest one.
Paired(h) ==
  \A i \in OfKind(h, "output") :
    /\ CallsBefore(h, i) # {}
    /\ h[Max(CallsBefore(h, i))].n = h[i].of

\* Items are numbered in order, but for the summary, up to top.
Ordered(h, top) ==
  /\ \A i \in DOMAIN h : h[i].kind \in Kinds /\ h[i].n \in 0 .. top
  /\ \A i, j \in DOMAIN h : i < j /\ h[j].n # 0 => h[i].n < h[j].n

LEMMA NewestIs ==
  ASSUME NEW n \in Nat, NEW I, I \subseteq 1 .. n
  PROVE  Newest(I) \subseteq I
<1>1. CASE I = {}
  BY <1>1 DEF Newest
<1>2. CASE I # {}
  BY <1>2, MaxIs DEF Newest
<1> QED
  BY <1>1, <1>2

\* The call nearest before an output.
LEMMA NearestIs ==
  ASSUME NEW S, NEW h \in Seq(S), NEW i, CallsBefore(h, i) # {}
  PROVE  /\ Max(CallsBefore(h, i)) \in CallsBefore(h, i)
         /\ \A j \in CallsBefore(h, i) : j <= Max(CallsBefore(h, i))
<1>1. Len(h) \in Nat /\ CallsBefore(h, i) \subseteq 1 .. Len(h)
  BY DEF CallsBefore, OfKind
<1> QED
  BY <1>1, MaxIs

\* Picking items keeps outputs paired if their calls are picked too.
LEMMA PicksPaired ==
  ASSUME NEW S, NEW h \in Seq(S), NEW g \in Seq(S), NEW I, NEW e, Picks(h, I, g, e), Paired(h),
         \A i \in OfKind(h, "output") : i \in I => Max(CallsBefore(h, i)) \in I
  PROVE  Paired(g)
<1> SUFFICES ASSUME NEW k \in OfKind(g, "output")
             PROVE  CallsBefore(g, k) # {} /\ g[Max(CallsBefore(g, k))].n = g[k].of
  BY DEF Paired
<1>1. k \in 1 .. Len(g) /\ g[k].kind = "output" /\ Len(g) \in Nat
      /\ DOMAIN g = 1 .. Len(g) /\ DOMAIN h = 1 .. Len(h)
  BY DEF OfKind
<1>2. e[k] \in DOMAIN h /\ e[k] \in I /\ g[k] = h[e[k]]
  BY <1>1 DEF Picks
<1>3. e[k] \in OfKind(h, "output")
  BY <1>1, <1>2 DEF OfKind
<1>4. CallsBefore(h, e[k]) # {} /\ h[Max(CallsBefore(h, e[k]))].n = h[e[k]].of
  BY <1>3 DEF Paired
<1>5. PICK m : m = Max(CallsBefore(h, e[k]))
  OBVIOUS
<1>6. m \in CallsBefore(h, e[k]) /\ (\A j \in CallsBefore(h, e[k]) : j <= m) /\ m \in I
  BY <1>2, <1>3, <1>4, <1>5, NearestIs
<1>7. m \in DOMAIN h /\ m < e[k] /\ h[m].kind = "call" /\ h[m].call = h[e[k]].call
  BY <1>6 DEF CallsBefore, OfKind
<1>8. PICK l \in 1 .. Len(g) : e[l] = m
  BY <1>6, <1>7 DEF Picks
<1>9. l < k
  <2>1. k < l => e[k] < e[l]
    BY <1>1, <1>8 DEF Picks
  <2>2. e[k] \in Int /\ m \in Int /\ l \in Int /\ k \in Int
    BY <1>1, <1>2, <1>7
  <2> QED
    BY <2>1, <2>2, <1>7, <1>8
<1>10. g[l] = h[m]
  BY <1>8 DEF Picks
<1>11. l \in CallsBefore(g, k)
  BY <1>1, <1>2, <1>7, <1>8, <1>9, <1>10 DEF CallsBefore, OfKind
<1>12. ASSUME NEW j \in CallsBefore(g, k)
       PROVE  j <= l
  <2>1. j \in 1 .. Len(g) /\ j < k /\ g[j].kind = "call" /\ g[j].call = g[k].call
    BY <1>1 DEF CallsBefore, OfKind
  <2>2. e[j] \in DOMAIN h /\ g[j] = h[e[j]] /\ e[j] < e[k]
    BY <1>1, <2>1 DEF Picks
  <2>3. e[j] \in CallsBefore(h, e[k])
    BY <1>2, <2>1, <2>2 DEF CallsBefore, OfKind
  <2>4. e[j] <= e[l]
    BY <1>6, <1>8, <2>3
  <2>5. l < j => e[l] < e[j]
    BY <1>8, <2>1 DEF Picks
  <2>6. e[j] \in Int /\ e[l] \in Int /\ l \in Int /\ j \in Int
    BY <1>1, <1>7, <1>8, <2>1, <2>2
  <2> QED
    BY <2>4, <2>5, <2>6
<1>13. CallsBefore(g, k) \subseteq 1 .. Len(g)
  BY <1>1 DEF CallsBefore, OfKind
<1>14. Max(CallsBefore(g, k)) = l
  BY <1>1, <1>11, <1>12, <1>13, MaxUnique
<1> QED
  BY <1>2, <1>4, <1>5, <1>10, <1>11, <1>14

LEMMA PicksOrdered ==
  ASSUME NEW S, NEW h \in Seq(S), NEW g \in Seq(S), NEW I, NEW e, NEW top,
         Picks(h, I, g, e), Ordered(h, top)
  PROVE  Ordered(g, top)
<1>1. DOMAIN g = 1 .. Len(g)
  OBVIOUS
<1>2. \A k \in DOMAIN g : e[k] \in DOMAIN h /\ g[k] = h[e[k]]
  BY <1>1 DEF Picks
<1>3. \A k, l \in DOMAIN g : k < l => e[k] < e[l]
  BY <1>1 DEF Picks
<1> QED
  BY <1>2, <1>3, ZenonT(60) DEF Ordered

\* A history with one more item.
LEMMA AppendIs ==
  ASSUME NEW S, NEW h \in Seq(S), NEW x
  PROVE  /\ Append(h, x) \in Seq(S \cup {x})
         /\ Len(h) \in Nat /\ DOMAIN h = 1 .. Len(h)
         /\ Len(Append(h, x)) = Len(h) + 1 /\ DOMAIN Append(h, x) = 1 .. Len(h) + 1
         /\ Append(h, x)[Len(h) + 1] = x
         /\ \A i \in 1 .. Len(h) : Append(h, x)[i] = h[i]
         /\ \A i \in 1 .. Len(h) + 1 : i \in 1 .. Len(h) \/ i = Len(h) + 1
<1>1. h \in Seq(S \cup {x}) /\ Len(h) \in Nat
  OBVIOUS
<1> QED
  BY <1>1

LEMMA AppendOrdered ==
  ASSUME NEW S, NEW h \in Seq(S), NEW top \in Nat, Ordered(h, top), NEW x,
         x.kind \in Kinds, x.n = top + 1
  PROVE  Ordered(Append(h, x), top + 1)
<1>1. ASSUME NEW i \in DOMAIN Append(h, x)
      PROVE  /\ Append(h, x)[i].kind \in Kinds /\ Append(h, x)[i].n \in 0 .. top + 1
             /\ i \in 1 .. Len(h) => Append(h, x)[i].n \in 0 .. top
  BY <1>1, AppendIs DEF Ordered
<1>2. ASSUME NEW i \in DOMAIN Append(h, x), NEW j \in DOMAIN Append(h, x),
             i < j, Append(h, x)[j].n # 0
      PROVE  Append(h, x)[i].n < Append(h, x)[j].n
  <2>1. i \in 1 .. Len(h) /\ Len(h) \in Nat
    BY <1>2, AppendIs
  <2>2. CASE j \in 1 .. Len(h)
    <3>1. Append(h, x)[i] = h[i] /\ Append(h, x)[j] = h[j] /\ DOMAIN h = 1 .. Len(h)
      BY <2>1, <2>2, AppendIs
    <3> QED
      BY <2>1, <2>2, <1>2, <3>1 DEF Ordered
  <2>3. CASE j = Len(h) + 1
    <3>1. Append(h, x)[j].n = top + 1 /\ Append(h, x)[i].n \in 0 .. top
      BY <1>1, <2>1, <2>3, AppendIs
    <3> QED
      BY <3>1
  <2> QED
    BY <2>2, <2>3, AppendIs
<1> QED
  BY <1>1, <1>2 DEF Ordered

\* What comes before an item stays before it.
LEMMA AppendBefore ==
  ASSUME NEW S, NEW h \in Seq(S), NEW x, NEW i \in 1 .. Len(h)
  PROVE  CallsBefore(Append(h, x), i) = CallsBefore(h, i)
<1>1. \A j : j \in CallsBefore(Append(h, x), i) => j \in CallsBefore(h, i)
  <2> TAKE j
  <2> HAVE j \in CallsBefore(Append(h, x), i)
  <2>1. j \in 1 .. Len(h) + 1 /\ j < i /\ Append(h, x)[j].kind = "call"
        /\ Append(h, x)[j].call = Append(h, x)[i].call
    BY AppendIs DEF CallsBefore, OfKind
  <2>2. j \in 1 .. Len(h)
    BY <2>1, AppendIs
  <2> QED
    BY <2>1, <2>2, AppendIs DEF CallsBefore, OfKind
<1>2. \A j : j \in CallsBefore(h, i) => j \in CallsBefore(Append(h, x), i)
  <2> TAKE j
  <2> HAVE j \in CallsBefore(h, i)
  <2>1. j \in 1 .. Len(h) /\ j < i /\ h[j].kind = "call" /\ h[j].call = h[i].call
    BY DEF CallsBefore, OfKind
  <2>2. j \in 1 .. Len(h) + 1 /\ Append(h, x)[j] = h[j] /\ Append(h, x)[i] = h[i]
    BY <2>1, AppendIs
  <2> QED
    BY <2>1, <2>2, AppendIs DEF CallsBefore, OfKind
<1> QED
  BY <1>1, <1>2

LEMMA AppendPaired ==
  ASSUME NEW S, NEW h \in Seq(S), Paired(h), NEW x,
         \/ x.kind # "output"
         \/ /\ x.kind = "output" /\ h # <<>> /\ Last(h).kind = "call"
            /\ Last(h).call = x.call /\ x.of = Last(h).n
  PROVE  Paired(Append(h, x))
<1> SUFFICES ASSUME NEW i \in OfKind(Append(h, x), "output")
             PROVE  /\ CallsBefore(Append(h, x), i) # {}
                    /\ Append(h, x)[Max(CallsBefore(Append(h, x), i))].n = Append(h, x)[i].of
  BY DEF Paired
<1>1. i \in 1 .. Len(h) + 1 /\ Append(h, x)[i].kind = "output"
  BY AppendIs DEF OfKind
<1>2. CASE i \in 1 .. Len(h)
  <2>1. Append(h, x)[i] = h[i] /\ i \in OfKind(h, "output")
    BY <1>1, <1>2, AppendIs DEF OfKind
  <2>2. CallsBefore(h, i) # {} /\ h[Max(CallsBefore(h, i))].n = h[i].of
    BY <2>1 DEF Paired
  <2>3. Max(CallsBefore(h, i)) \in CallsBefore(h, i)
    BY <2>2, NearestIs
  <2>4. Max(CallsBefore(h, i)) \in 1 .. Len(h)
    BY <2>3 DEF CallsBefore, OfKind
  <2>5. Append(h, x)[Max(CallsBefore(h, i))] = h[Max(CallsBefore(h, i))]
    BY <2>4, AppendIs
  <2> QED
    BY <1>2, <2>1, <2>2, <2>5, AppendBefore
<1>3. CASE i = Len(h) + 1
  <2>1. Append(h, x)[i] = x /\ x.kind = "output" /\ Len(h) \in Nat
    BY <1>1, <1>3, AppendIs
  <2>2. h # <<>> /\ h[Len(h)].kind = "call" /\ h[Len(h)].call = x.call /\ x.of = h[Len(h)].n
    BY <2>1 DEF Last
  <2>3. Len(h) \in 1 .. Len(h) /\ Len(h) \in 1 .. Len(h) + 1 /\ Len(h) < i
    BY <2>1, <2>2, <1>3
  <2>4. Append(h, x)[Len(h)] = h[Len(h)]
    BY <2>3, AppendIs
  <2>5. Len(h) \in CallsBefore(Append(h, x), i)
    BY <2>1, <2>2, <2>3, <2>4, AppendIs DEF CallsBefore, OfKind
  <2>6. CallsBefore(Append(h, x), i) \subseteq 1 .. Len(h) + 1
    BY AppendIs DEF CallsBefore, OfKind
  <2>7. \A j \in CallsBefore(Append(h, x), i) : j <= Len(h)
    BY <2>6, <1>3, <2>1 DEF CallsBefore
  <2>8. Max(CallsBefore(Append(h, x), i)) = Len(h)
    <3>1. Len(h) + 1 \in Nat
      BY <2>1
    <3> QED
      BY <2>5, <2>6, <2>7, <3>1, MaxUnique
  <2> QED
    BY <2>1, <2>2, <2>4, <2>5, <2>8
<1> QED
  BY <1>1, <1>2, <1>3, AppendIs

-----------------------------------------------------------------------------
(* Compaction.                                                             *)

LEMMA PicksItems ==
  ASSUME NEW S, NEW h \in Seq(S), NEW g \in Seq(S), NEW I, NEW e, Picks(h, I, g, e)
  PROVE  /\ Items(g) \subseteq Items(h)
         /\ \A k \in DOMAIN g : \E i \in DOMAIN h : i \in I /\ g[k] = h[i]
         /\ \A i \in DOMAIN h : i \in I => h[i] \in Items(g)
<1>1. DOMAIN g = 1 .. Len(g)
  OBVIOUS
<1>2. \A k \in DOMAIN g : e[k] \in DOMAIN h /\ e[k] \in I /\ g[k] = h[e[k]]
  BY <1>1 DEF Picks
<1>3. \A i \in DOMAIN h : i \in I => \E k \in DOMAIN g : e[k] = i
  BY <1>1 DEF Picks
<1>4. Items(g) \subseteq Items(h)
  BY <1>2 DEF Items
<1>5. ASSUME NEW i \in DOMAIN h, i \in I
      PROVE  h[i] \in Items(g)
  <2>1. PICK k \in DOMAIN g : e[k] = i
    BY <1>3, <1>5
  <2>2. g[k] = h[i]
    BY <1>2, <2>1
  <2> QED
    BY <2>1, <2>2 DEF Items
<1> QED
  BY <1>2, <1>4, <1>5

\* The newest item of a kind is the newest of those picked, if all are.
LEMMA PicksNewest ==
  ASSUME NEW S, NEW h \in Seq(S), NEW g \in Seq(S), NEW I, NEW e, Picks(h, I, g, e),
         NEW kind, OfKind(h, kind) \subseteq I, OfKind(h, kind) # {}
  PROVE  /\ OfKind(g, kind) # {}
         /\ g[Max(OfKind(g, kind))] = h[Max(OfKind(h, kind))]
<1>1. DOMAIN g = 1 .. Len(g) /\ DOMAIN h = 1 .. Len(h) /\ Len(g) \in Nat /\ Len(h) \in Nat
      /\ OfKind(h, kind) \subseteq 1 .. Len(h) /\ OfKind(g, kind) \subseteq 1 .. Len(g)
  BY DEF OfKind
<1>2. PICK m : m = Max(OfKind(h, kind))
  OBVIOUS
<1>3. m \in OfKind(h, kind) /\ \A i \in OfKind(h, kind) : i <= m
  BY <1>1, <1>2, MaxIs
<1>4. PICK l \in 1 .. Len(g) : e[l] = m
  BY <1>1, <1>3 DEF Picks
<1>5. g[l] = h[m]
  BY <1>4 DEF Picks
<1>6. l \in OfKind(g, kind)
  BY <1>1, <1>3, <1>4, <1>5 DEF OfKind
<1>7. ASSUME NEW j \in OfKind(g, kind)
      PROVE  j <= l
  <2>1. j \in 1 .. Len(g) /\ g[j].kind = kind
    BY <1>1 DEF OfKind
  <2>2. e[j] \in DOMAIN h /\ g[j] = h[e[j]]
    BY <2>1 DEF Picks
  <2>3. e[j] \in OfKind(h, kind)
    BY <2>1, <2>2 DEF OfKind
  <2>4. e[j] <= e[l]
    BY <1>3, <1>4, <2>3
  <2>5. l < j => e[l] < e[j]
    BY <1>4, <2>1 DEF Picks
  <2>6. e[j] \in Int /\ e[l] \in Int /\ l \in Int /\ j \in Int
    BY <1>1, <1>3, <1>4, <2>1, <2>2
  <2> QED
    BY <2>4, <2>5, <2>6
<1>8. Max(OfKind(g, kind)) = l
  BY <1>1, <1>6, <1>7, MaxUnique
<1> QED
  BY <1>2, <1>5, <1>6, <1>8

LEMMA NewestItemsIs ==
  ASSUME NEW h, NEW kind
  PROVE  NewestItems(h, kind) =
           IF OfKind(h, kind) = {} THEN {} ELSE {h[Max(OfKind(h, kind))]}
BY DEF NewestItems, Newest

\* What is kept with an output: the call it answers.
LEMMA KeepClosed ==
  ASSUME NEW S, NEW h \in Seq(S), Paired(h), NEW i \in OfKind(h, "output"), i \in Keep(h)
  PROVE  Max(CallsBefore(h, i)) \in Keep(h)
<1>1. Len(h) \in Nat /\ \A kind : OfKind(h, kind) \subseteq 1 .. Len(h)
  BY DEF OfKind
<1>2. h[i].kind = "output"
  BY DEF OfKind
<1>3. i \notin KeepInstructions(h)
  BY <1>2 DEF KeepInstructions, OfKind
<1>4. i \notin LastEnvironment(h)
  <2>1. LastEnvironment(h) \subseteq OfKind(h, "environment")
    BY <1>1, NewestIs DEF LastEnvironment
  <2> QED
    BY <1>2, <2>1 DEF OfKind
<1>5. i \notin SelectRecentUserMessages(h)
  <2>1. Newest(OfKind(h, "user")) \subseteq OfKind(h, "user")
    BY <1>1, NewestIs
  <2>2. SelectRecentUserMessages(h) \subseteq OfKind(h, "user")
    BY <2>1 DEF SelectRecentUserMessages
  <2> QED
    BY <1>2, <2>2 DEF OfKind
<1>6. i \notin SelectToolCallsForOutputs(h, SelectToolOutputs(h))
  <2>1. ASSUME NEW o
        PROVE  FindToolCall(h, o) \subseteq OfKind(h, "call")
    <3>1. CallsBefore(h, o) \subseteq OfKind(h, "call")
      BY DEF CallsBefore
    <3>2. Newest(CallsBefore(h, o)) \subseteq CallsBefore(h, o)
      BY <1>1, <3>1, NewestIs
    <3> QED
      BY <3>1, <3>2 DEF FindToolCall
  <2> QED
    BY <1>2, <2>1 DEF SelectToolCallsForOutputs, OfKind
<1>7. i \in SelectToolOutputs(h)
  BY <1>3, <1>4, <1>5, <1>6 DEF Keep
<1>8. Max(CallsBefore(h, i)) \in FindToolCall(h, i)
  BY DEF Paired, FindToolCall, Newest
<1>9. Max(CallsBefore(h, i)) \in SelectToolCallsForOutputs(h, SelectToolOutputs(h))
  BY <1>7, <1>8 DEF SelectToolCallsForOutputs
<1> QED
  BY <1>9 DEF Keep

\* What is kept whatever the budgets: instructions, the newest environment and
\* user message, and an output the model has not seen.
LEMMA KeepHas ==
  ASSUME NEW S, NEW h \in Seq(S)
  PROVE  /\ OfKind(h, "developer") \cup OfKind(h, "instructions") \subseteq Keep(h)
         /\ Newest(OfKind(h, "environment")) \cup Newest(OfKind(h, "user")) \subseteq Keep(h)
         /\ h # <<>> /\ h[Len(h)].kind = "output" /\ OfKind(h, "user") # {} => Len(h) \in Keep(h)
<1>1. OfKind(h, "developer") \cup OfKind(h, "instructions") \subseteq Keep(h)
  BY DEF Keep, KeepInstructions
<1>2. Newest(OfKind(h, "environment")) \cup Newest(OfKind(h, "user")) \subseteq Keep(h)
  <2>1. Newest(OfKind(h, "user")) \subseteq SelectRecentUserMessages(h)
    BY DEF SelectRecentUserMessages
  <2> QED
    BY <2>1 DEF Keep, LastEnvironment
<1>3. ASSUME h # <<>>, h[Len(h)].kind = "output", OfKind(h, "user") # {}
      PROVE  Len(h) \in Keep(h)
  <2>1. Len(h) \in Nat /\ DOMAIN h = 1 .. Len(h) /\ Len(h) \in 1 .. Len(h)
    BY <1>3
  <2>2. Len(h) \in OfKind(h, "output")
    BY <1>3, <2>1 DEF OfKind
  <2>3. CASE Cfg.outputs > 0
    <3>1. {j \in OfKind(h, "output") : j > Len(h)} = {}
      BY <2>1 DEF OfKind
    <3>2. Cardinality({j \in OfKind(h, "output") : j > Len(h)}) < Cfg.outputs
      <4>1. Cfg.outputs \in Nat
        BY CompactionAssumption DEF Cfg, NormalizeCompactionConfig
      <4> QED
        BY <2>3, <3>1, <4>1, FS_EmptySet
    <3>3. Len(h) \in SelectToolOutputs(h)
      BY <2>2, <2>3, <3>2 DEF SelectToolOutputs
    <3> QED
      BY <3>3 DEF Keep
  <2>4. CASE ~(Cfg.outputs > 0)
    <3>1. OfKind(h, "user") \subseteq 1 .. Len(h)
      BY DEF OfKind
    <3>2. Max(OfKind(h, "user")) \in OfKind(h, "user")
      BY <1>3, <2>1, <3>1, MaxIs
    <3>3. Max(OfKind(h, "user")) \in 1 .. Len(h) /\ Max(OfKind(h, "user")) # Len(h)
      BY <1>3, <3>1, <3>2 DEF OfKind
    <3>4. Len(h) > Max(OfKind(h, "user"))
      BY <2>1, <3>3
    <3>5. Len(h) \in SelectToolOutputs(h)
      BY <1>3, <2>2, <2>4, <3>4 DEF SelectToolOutputs
    <3> QED
      BY <3>5 DEF Keep
  <2> QED
    BY <2>3, <2>4
<1> QED
  BY <1>1, <1>2, <1>3

\* The summaries are taken out, and nothing else.
LEMMA FilterIs ==
  ASSUME NEW S, NEW h \in Seq(S), Paired(h), NEW top, Ordered(h, top)
  PROVE  /\ FilterSummaryItems(h) \in Seq(S)
         /\ Paired(FilterSummaryItems(h)) /\ Ordered(FilterSummaryItems(h), top)
         /\ \A k \in DOMAIN FilterSummaryItems(h) : FilterSummaryItems(h)[k].kind # "summary"
         /\ \E e : Picks(h, DOMAIN h \ OfKind(h, "summary"), FilterSummaryItems(h), e)
<1> DEFINE I == DOMAIN h \ OfKind(h, "summary")
<1>1. PICK f : f = FilterSummaryItems(h)
  OBVIOUS
<1>2. f = ItemsAt(h, I)
  BY <1>1 DEF FilterSummaryItems
<1> HIDE DEF I
<1>3. f \in Seq(S) /\ \E e : Picks(h, I, f, e)
  BY <1>2, PickIs DEF ItemsAt
<1>4. PICK e : Picks(h, I, f, e)
  BY <1>3
<1>5. ASSUME NEW i \in OfKind(h, "output")
      PROVE  Max(CallsBefore(h, i)) \in I
  <2>1. Max(CallsBefore(h, i)) \in CallsBefore(h, i)
    BY NearestIs DEF Paired
  <2> QED
    BY <2>1 DEF CallsBefore, OfKind, I
<1>6. Paired(f)
  BY <1>3, <1>4, <1>5, PicksPaired
<1>7. Ordered(f, top)
  BY <1>3, <1>4, PicksOrdered
<1>8. \A k \in DOMAIN f : \E i \in DOMAIN h : i \in I /\ f[k] = h[i]
  BY <1>3, <1>4, PicksItems
<1>9. \A k \in DOMAIN f : f[k].kind # "summary"
  BY <1>8 DEF I, OfKind
<1> QED
  BY <1>1, <1>3, <1>4, <1>6, <1>7, <1>9 DEF I

\* Leaving the summaries out moves neither the newest items nor a last output.
LEMMA FilterMoves ==
  ASSUME NEW S, NEW h \in Seq(S), NEW f \in Seq(S), NEW e,
         Picks(h, DOMAIN h \ OfKind(h, "summary"), f, e)
  PROVE  /\ NewestItems(h, "environment") = NewestItems(f, "environment")
         /\ NewestItems(h, "user") = NewestItems(f, "user")
         /\ OfKind(h, "user") # {} => OfKind(f, "user") # {}
         /\ h # <<>> /\ Last(h).kind = "output" => f # <<>> /\ Last(f) = Last(h)
<1> DEFINE I == DOMAIN h \ OfKind(h, "summary")
<1>1. \A kind : kind # "summary" => OfKind(h, kind) \subseteq I
  BY DEF OfKind
<1>2. Picks(h, I, f, e)
  OBVIOUS
<1>3. \A k \in DOMAIN f : \E i \in DOMAIN h : i \in I /\ f[k] = h[i]
  <2> HIDE DEF I
  <2> QED
    BY <1>2, PicksItems
<1> HIDE DEF I
<1>4. ASSUME NEW kind, kind # "summary"
      PROVE  /\ NewestItems(h, kind) = NewestItems(f, kind)
             /\ OfKind(h, kind) # {} => OfKind(f, kind) # {}
  <2>1. CASE OfKind(h, kind) = {}
    <3>1. OfKind(f, kind) = {}
      BY <1>3, <2>1 DEF OfKind
    <3> QED
      BY <2>1, <3>1, NewestItemsIs
  <2>2. CASE OfKind(h, kind) # {}
    <3>1. OfKind(f, kind) # {} /\ f[Max(OfKind(f, kind))] = h[Max(OfKind(h, kind))]
      BY <1>1, <1>2, <1>4, <2>2, PicksNewest
    <3> QED
      BY <2>2, <3>1, NewestItemsIs
  <2> QED
    BY <2>1, <2>2
<1>5. ASSUME h # <<>>, Last(h).kind = "output"
      PROVE  f # <<>> /\ Last(f) = Last(h)
  <2>1. Len(h) \in Nat /\ DOMAIN h = 1 .. Len(h) /\ Len(h) \in DOMAIN h
        /\ Len(f) \in Nat /\ DOMAIN f = 1 .. Len(f)
    BY <1>5
  <2>2. Len(h) \in I
    BY <1>5, <2>1 DEF I, OfKind, Last
  <2>3. PICK l \in 1 .. Len(f) : e[l] = Len(h)
    BY <1>2, <2>1, <2>2 DEF Picks
  <2>4. Len(f) \in 1 .. Len(f)
    BY <2>1, <2>3
  <2>5. e[Len(f)] \in 1 .. Len(h)
    BY <1>2, <2>1, <2>4 DEF Picks
  <2>6. l < Len(f) => e[l] < e[Len(f)]
    BY <1>2, <2>3, <2>4 DEF Picks
  <2>7. l = Len(f)
    <3>1. ~(l < Len(f))
      <4>1. PICK b \in 1 .. Len(h) : b = e[Len(f)]
        BY <2>5
      <4>2. l < Len(f) => Len(h) < b
        BY <2>3, <2>6, <4>1
      <4> QED
        BY <2>1, <4>1, <4>2
    <3>2. l \in 1 .. Len(f) /\ Len(f) \in Nat
      BY <2>1
    <3> QED
      BY <3>1, <3>2
  <2>8. f[l] = h[e[l]]
    BY <1>2, <2>3 DEF Picks
  <2> QED
    BY <2>3, <2>4, <2>7, <2>8 DEF Last
<1> QED
  BY <1>4, <1>5

\* CompactHistory: what is left is paired, in order, and has what it must have.
LEMMA CompactedIs ==
  ASSUME NEW S, NEW h \in Seq(S), Paired(h), NEW top \in Nat, Ordered(h, top),
         OfKind(h, "user") # {}, NEW f, f = FilterSummaryItems(h), NEW summary,
         NEW g, g = Compacted(f, Keep(f), summary)
  PROVE  /\ \E U : g \in Seq(U)
         /\ Paired(g) /\ Ordered(g, top) /\ OfKind(g, "user") # {}
         /\ Keeps(h, g)
<1>1. f \in Seq(S) /\ Paired(f) /\ Ordered(f, top) /\ \A k \in DOMAIN f : f[k].kind # "summary"
  BY FilterIs
<1>2. PICK e : Picks(h, DOMAIN h \ OfKind(h, "summary"), f, e)
  BY FilterIs
<1>3. PICK p : p = ItemsAt(f, Keep(f))
  OBVIOUS
<1>4. p \in Seq(S) /\ \E d : Picks(f, Keep(f), p, d)
  BY <1>1, <1>3, PickIs DEF ItemsAt
<1>5. PICK d : Picks(f, Keep(f), p, d)
  BY <1>4
<1>6. Paired(p)
  BY <1>1, <1>4, <1>5, KeepClosed, PicksPaired
<1>7. Ordered(p, top)
  BY <1>1, <1>4, <1>5, PicksOrdered
<1>8. /\ Items(p) \subseteq Items(f)
      /\ \A i \in DOMAIN f : i \in Keep(f) => f[i] \in Items(p)
  BY <1>1, <1>4, <1>5, PicksItems
<1>9. \A k \in DOMAIN p : p[k].kind # "summary"
  <2>1. \A x \in Items(p) : x.kind # "summary"
    BY <1>1, <1>8, ZenonT(60) DEF Items
  <2> QED
    BY <2>1 DEF Items
<1>10. /\ Items(f) \subseteq Items(h)
       /\ \A i \in DOMAIN h : h[i].kind # "summary" => h[i] \in Items(f)
  <2>1. /\ Items(f) \subseteq Items(h)
        /\ \A i \in DOMAIN h : i \in DOMAIN h \ OfKind(h, "summary") => h[i] \in Items(f)
    BY <1>1, <1>2, PicksItems
  <2> QED
    BY <2>1 DEF OfKind
<1>11. {x \in Items(h) : x.kind \in {"developer", "instructions"}} \subseteq Items(p)
  <2> SUFFICES ASSUME NEW x \in Items(h), x.kind \in {"developer", "instructions"}
               PROVE  x \in Items(p)
    OBVIOUS
  <2>1. x \in Items(f)
    BY <1>10 DEF Items
  <2>2. PICK k \in DOMAIN f : x = f[k]
    BY <2>1 DEF Items
  <2>3. k \in Keep(f)
    BY <1>1, <2>2, KeepHas DEF OfKind
  <2> QED
    BY <1>8, <2>2, <2>3
<1>12. ASSUME NEW kind \in {"environment", "user"}
       PROVE  NewestItems(h, kind) \subseteq Items(p)
  <2>1. NewestItems(h, kind) = NewestItems(f, kind)
    BY <1>1, <1>2, FilterMoves
  <2>2. Newest(OfKind(f, kind)) \subseteq Keep(f)
    BY <1>1, KeepHas
  <2>3. Newest(OfKind(f, kind)) \subseteq DOMAIN f
    <3>1. Len(f) \in Nat /\ OfKind(f, kind) \subseteq 1 .. Len(f) /\ DOMAIN f = 1 .. Len(f)
      BY <1>1 DEF OfKind
    <3> QED
      BY <3>1, NewestIs
  <2> QED
    BY <1>8, <2>1, <2>2, <2>3 DEF NewestItems
<1>13. h # <<>> /\ OfKind(f, "user") # {}
  <2>1. h # <<>>
    BY DEF OfKind
  <2> QED
    BY <2>1, <1>1, <1>2, FilterMoves
<1>14. Last(h).kind = "output" => Last(h) \in Items(p)
  <2> HAVE Last(h).kind = "output"
  <2>1. f # <<>> /\ Last(f) = Last(h)
    BY <1>1, <1>2, <1>13, FilterMoves
  <2>2. Len(f) \in Keep(f)
    BY <1>1, <1>13, <2>1, KeepHas DEF Last
  <2>3. Len(f) \in DOMAIN f
    BY <1>1, <2>1
  <2> QED
    BY <1>8, <2>1, <2>2, <2>3 DEF Last
<1>15. OfKind(p, "user") # {}
  <2>1. NewestItems(f, "user") = {f[Max(OfKind(f, "user"))]}
    BY <1>13, NewestItemsIs
  <2>2. Max(OfKind(f, "user")) \in OfKind(f, "user")
    <3>1. Len(f) \in Nat /\ OfKind(f, "user") \subseteq 1 .. Len(f)
      BY <1>1 DEF OfKind
    <3> QED
      BY <1>13, <3>1, MaxIs
  <2>3. NewestItems(f, "user") \subseteq Items(p)
    BY <1>1, <1>2, <1>12, FilterMoves
  <2>4. PICK k \in DOMAIN p : p[k] = f[Max(OfKind(f, "user"))]
    BY <2>1, <2>3 DEF Items
  <2> QED
    BY <2>2, <2>4 DEF OfKind
<1>16. CASE summary = "none"
  <2>1. g = p
    BY <1>3, <1>16 DEF Compacted
  <2>2. OfKind(p, "summary") = {}
    BY <1>9 DEF OfKind
  <2>3. Cardinality(OfKind(p, "summary")) <= 1
    <3>1. Cardinality(OfKind(p, "summary")) = 0
      BY <2>2, FS_EmptySet
    <3> QED
      BY <3>1
  <2>4. Items(p) \subseteq Items(h)
    BY <1>8, <1>10
  <2>5. Keeps(h, p)
    BY <1>11, <1>12, <1>14, <2>3, <2>4 DEF Keeps
  <2> QED
    BY <1>4, <1>6, <1>7, <1>15, <2>1, <2>5
<1>17. CASE summary # "none"
  <2>1. PICK x : x = [kind |-> "summary", n |-> 0, call |-> "none", of |-> 0]
    OBVIOUS
  <2>2. x.kind = "summary" /\ x.n = 0 /\ x.kind \in Kinds
    BY <2>1 DEF Kinds
  <2>3. g = Append(p, x)
    BY <1>3, <1>17, <2>1 DEF Compacted
  <2>4. /\ g \in Seq(S \cup {x}) /\ Len(p) \in Nat /\ DOMAIN p = 1 .. Len(p)
        /\ DOMAIN g = 1 .. Len(p) + 1 /\ g[Len(p) + 1] = x
        /\ \A i \in 1 .. Len(p) : g[i] = p[i]
        /\ \A i \in 1 .. Len(p) + 1 : i \in 1 .. Len(p) \/ i = Len(p) + 1
    BY <1>4, <2>3, AppendIs
  <2>5. Paired(g)
    BY <1>4, <1>6, <2>2, <2>3, AppendPaired
  <2>6. Ordered(g, top)
    <3>1. ASSUME NEW i \in DOMAIN g
          PROVE  g[i].kind \in Kinds /\ g[i].n \in 0 .. top
      BY <1>7, <2>2, <2>4 DEF Ordered
    <3>2. ASSUME NEW i \in DOMAIN g, NEW j \in DOMAIN g, i < j, g[j].n # 0
          PROVE  g[i].n < g[j].n
      <4>1. j \in 1 .. Len(p)
        BY <3>2, <2>2, <2>4
      <4>2. i \in 1 .. Len(p)
        BY <3>2, <4>1, <2>4
      <4> QED
        BY <3>2, <4>1, <4>2, <2>4, <1>7 DEF Ordered
    <3> QED
      BY <3>1, <3>2 DEF Ordered
  <2>7. Items(p) \subseteq Items(g) /\ Items(g) \subseteq Items(p) \cup {x}
    <3>1. \A i \in DOMAIN p : i \in DOMAIN g /\ g[i] = p[i]
      BY <2>4
    <3>2. \A i \in DOMAIN g : g[i] = x \/ (i \in DOMAIN p /\ g[i] = p[i])
      BY <2>4
    <3> QED
      BY <3>1, <3>2 DEF Items
  <2>8. Cardinality(OfKind(g, "summary")) <= 1
    <3>1. OfKind(g, "summary") = {Len(p) + 1}
      BY <1>9, <2>2, <2>4 DEF OfKind
    <3>2. Cardinality(OfKind(g, "summary")) = 1
      BY <3>1, FS_Singleton
    <3> QED
      BY <3>2
  <2>9. {y \in Items(g) : y.kind # "summary"} \subseteq Items(h)
    BY <1>8, <1>10, <2>2, <2>7
  <2>10. Keeps(h, g)
    BY <1>11, <1>12, <1>14, <2>7, <2>8, <2>9 DEF Keeps
  <2>11. OfKind(g, "user") # {}
    <3>1. PICK k \in DOMAIN p : p[k].kind = "user"
      BY <1>15 DEF OfKind
    <3> QED
      BY <3>1, <2>4 DEF OfKind
  <2> QED
    BY <2>4, <2>5, <2>6, <2>10, <2>11
<1> QED
  BY <1>16, <1>17

-----------------------------------------------------------------------------
(* The invariant.                                                          *)

\* The values of the variables.
Shape ==
  /\ added \in Nat /\ steps \in Nat /\ turns \in Nat
  /\ pc \in {"idle", "compact", "limits", "request", "receive", "tool", "finish"}
  /\ MaxSteps > 0 => steps <= MaxSteps
  /\ before \in 0 .. Hooks /\ after \in 0 .. Hooks
  /\ failure \in {"none", "budget_exceeded", "runtime_error"}
  /\ output \in -1 .. added

\* The history is in order and paired, has a user message from the first turn
\* on, and ends with the call a tool is run for.
HistoryInv ==
  /\ history \in Seq(Items(history))
  /\ Ordered(history, added)
  /\ Paired(history)
  /\ turns > 0 => OfKind(history, "user") # {}
  /\ pc # "idle" => turns > 0
  /\ pc = "tool" => /\ history # <<>> /\ Last(history).kind = "call"
                    /\ Last(history).call = Head(stream).id

\* The limits were checked for the history and the count of the next request.
LimitInv == pc = "request" => ~ExceededLimits(history)

\* A turn that sent a request gave the prompt to all hooks; once it has ended,
\* none had its AfterCall unless all had their BeforeCall.
HookInv ==
  /\ pc # "idle" /\ steps > 0 => before = Hooks
  /\ pc = "idle" /\ turns > 0 => (after > 0 => before = Hooks) /\ (steps > 0 => after = Hooks)

LoopInv == Shape /\ HistoryInv /\ LimitInv /\ HookInv

LEMMA Limits == MaxSteps \in Nat /\ MaxTokens \in Nat /\ Hooks \in Nat /\ MaxTurns \in Nat
BY CallLoopAssumption

LEMMA InvIsType == LoopInv => TypeOK
<1> HAVE LoopInv
<1>1. MaxSteps > 0 => steps \in 0 .. MaxSteps
  <2>1. steps \in Nat /\ (MaxSteps > 0 => steps <= MaxSteps)
    BY DEF LoopInv, Shape
  <2> QED
    BY <2>1, Limits
<1> QED
  BY <1>1 DEF LoopInv, Shape, HistoryInv, Ordered, TypeOK

LEMMA Itself ==
  ASSUME NEW U, NEW h \in Seq(U)
  PROVE  h \in Seq(Items(h))
BY DEF Items

\* An item that is no output, or the output of the call it follows, is added.
LEMMA Appended ==
  ASSUME Shape, HistoryInv, NEW kind \in Kinds, NEW call, NEW of,
         AppendItem(Item(kind, added + 1, call, of)),
         \/ kind # "output"
         \/ /\ kind = "output" /\ pc = "tool"
            /\ call = Head(stream).id /\ of = Last(history).n
  PROVE  /\ history' \in Seq(Items(history')) /\ history' # <<>>
         /\ Ordered(history', added') /\ Paired(history')
         /\ kind = "user" \/ turns > 0 => OfKind(history', "user") # {}
         /\ Last(history') = Item(kind, added + 1, call, of)
         /\ added' \in Nat /\ output \in -1 .. added'
<1>1. PICK x : x = Item(kind, added + 1, call, of)
  OBVIOUS
<1>2. x.kind = kind /\ x.n = added + 1 /\ x.call = call /\ x.of = of
  BY <1>1 DEF Item
<1>3. PICK g : g = Append(history, x)
  OBVIOUS
<1>4. history' = g /\ added' = added + 1
  BY <1>1, <1>3 DEF AppendItem
<1>5. PICK U : history \in Seq(U)
  BY DEF HistoryInv
<1>6. /\ g \in Seq(U \cup {x}) /\ Len(history) \in Nat /\ DOMAIN history = 1 .. Len(history)
      /\ Len(g) = Len(history) + 1 /\ DOMAIN g = 1 .. Len(history) + 1
      /\ g[Len(history) + 1] = x
      /\ \A i \in 1 .. Len(history) : g[i] = history[i]
  BY <1>3, <1>5, AppendIs
<1>7. g \in Seq(Items(g)) /\ g # <<>>
  BY <1>6, Itself
<1>8. Ordered(g, added + 1)
  BY <1>2, <1>3, <1>5, AppendOrdered DEF HistoryInv, Shape
<1>9. Paired(g)
  BY <1>2, <1>3, <1>5, AppendPaired DEF HistoryInv
<1>10. kind = "user" => OfKind(g, "user") # {}
  BY <1>2, <1>6 DEF OfKind
<1>11. OfKind(history, "user") # {} => OfKind(g, "user") # {}
  BY <1>6 DEF OfKind
<1>12. Last(g) = x
  BY <1>6 DEF Last
<1>13. added + 1 \in Nat /\ output \in -1 .. added + 1
  <2>1. added \in Nat /\ output \in -1 .. added
    BY DEF Shape
  <2> QED
    BY <2>1
<1> QED
  BY <1>1, <1>4, <1>7, <1>8, <1>9, <1>10, <1>11, <1>12, <1>13 DEF HistoryInv

\* The optional items, and the environment.
LEMMA ContextIs ==
  \E kinds \in Seq({"developer", "instructions", "environment"}) :
    BuildInitialContext = [i \in DOMAIN kinds |-> Item(kinds[i], i, "none", 0)]
<1> DEFINE Texts == {"developer", "instructions", "environment"}
<1>1. PICK a : a = IF "developer" \in Context THEN <<"developer">> ELSE <<>>
  OBVIOUS
<1>2. PICK b : b = IF "instructions" \in Context THEN <<"instructions">> ELSE <<>>
  OBVIOUS
<1>3. <<"environment">> \in Seq(Texts) /\ a \in Seq(Texts) /\ b \in Seq(Texts)
  <2>1. ASSUME NEW x \in Texts
        PROVE  <<x>> \in Seq(Texts) /\ <<>> \in Seq(Texts)
    <3> HIDE DEF Texts
    <3> QED
      OBVIOUS
  <2>2. "developer" \in Texts /\ "instructions" \in Texts /\ "environment" \in Texts
    OBVIOUS
  <2> HIDE DEF Texts
  <2> QED
    BY <2>1, <2>2, <1>1, <1>2
<1>4. a \o b \o <<"environment">> \in Seq(Texts)
  <2> HIDE DEF Texts
  <2> QED
    BY <1>3
<1>5. BuildInitialContext = [i \in DOMAIN (a \o b \o <<"environment">>) |->
                              Item((a \o b \o <<"environment">>)[i], i, "none", 0)]
  BY <1>1, <1>2 DEF BuildInitialContext
<1> QED
  BY <1>4, <1>5

LEMMA ContextHas ==
  /\ BuildInitialContext \in Seq(Items(BuildInitialContext))
  /\ Ordered(BuildInitialContext, Len(BuildInitialContext))
  /\ Paired(BuildInitialContext)
  /\ Len(BuildInitialContext) \in Nat
<1> DEFINE Texts == {"developer", "instructions", "environment"}
<1>1. PICK kinds \in Seq(Texts) :
        BuildInitialContext = [i \in DOMAIN kinds |-> Item(kinds[i], i, "none", 0)]
  BY ContextIs
<1>2. PICK h : h = BuildInitialContext
  OBVIOUS
<1>3. Texts \subseteq Kinds /\ "output" \notin Texts
  BY DEF Kinds
<1> HIDE DEF Texts
<1>4. Len(kinds) \in Nat /\ DOMAIN kinds = 1 .. Len(kinds) /\ \A i \in DOMAIN kinds : kinds[i] \in Texts
  OBVIOUS
<1>5. DOMAIN h = 1 .. Len(kinds) /\ \A i \in DOMAIN h : h[i] = Item(kinds[i], i, "none", 0)
  BY <1>1, <1>2, <1>4
<1>6. h \in Seq(Items(h)) /\ Len(h) = Len(kinds)
  <2>1. \A i \in 1 .. Len(kinds) : Item(kinds[i], i, "none", 0) \in Items(h)
    BY <1>5 DEF Items
  <2>2. h = [i \in 1 .. Len(kinds) |-> Item(kinds[i], i, "none", 0)]
    BY <1>1, <1>2, <1>4
  <2> QED
    BY <1>4, <2>1, <2>2
<1>7. \A i \in DOMAIN h : h[i].kind \in Texts /\ h[i].n = i
  BY <1>4, <1>5 DEF Item
<1>8. Ordered(h, Len(h))
  BY <1>3, <1>4, <1>5, <1>6, <1>7 DEF Ordered
<1>9. Paired(h)
  BY <1>3, <1>7 DEF Paired, OfKind
<1> QED
  BY <1>2, <1>4, <1>6, <1>8, <1>9

\* StartSession.
LEMMA InitInv == Init => LoopInv
<1> HAVE Init
<1>1. history = BuildInitialContext /\ added = Len(BuildInitialContext)
  BY DEF Init
<1>2. pc = "idle" /\ steps = 0 /\ before = 0 /\ after = 0 /\ failure = "none" /\ output = -1 /\ turns = 0
  BY DEF Init
<1>3. HistoryInv
  BY <1>1, <1>2, ContextHas DEF HistoryInv
<1>4. Shape
  BY <1>1, <1>2, ContextHas, Limits DEF Shape
<1>5. LimitInv /\ HookInv
  BY <1>2 DEF LimitInv, HookInv
<1> QED
  BY <1>3, <1>4, <1>5 DEF LoopInv

\* A step of the loop that leaves the history, and is not about to run a tool.
LEMMA Quiet ==
  ASSUME HistoryInv, UNCHANGED <<history, added, turns>>, pc # "idle", pc' # "tool"
  PROVE  HistoryInv'
BY DEF HistoryInv

LEMMA AppendEnvironmentDiffInv ==
  ASSUME LoopInv, AppendEnvironmentDiff
  PROVE  LoopInv'
<1> USE DEF LoopInv
<1>1. AppendItem(Item("environment", added + 1, "none", 0)) /\ pc = "idle"
      /\ UNCHANGED <<pc, steps, stream, followUp, before, after, failure, output, turns>>
  BY DEF AppendEnvironmentDiff, Text
<1>2. "environment" \in Kinds /\ "environment" # "output"
  BY DEF Kinds
<1>3. /\ history' \in Seq(Items(history')) /\ Ordered(history', added') /\ Paired(history')
      /\ turns > 0 => OfKind(history', "user") # {}
      /\ added' \in Nat /\ output \in -1 .. added'
  BY <1>1, <1>2, Appended
<1>4. HistoryInv'
  BY <1>1, <1>3 DEF HistoryInv
<1>5. Shape'
  BY <1>1, <1>3 DEF Shape
<1>6. LimitInv' /\ HookInv'
  BY <1>1 DEF LimitInv, HookInv
<1> QED
  BY <1>4, <1>5, <1>6

LEMMA StartCallInv ==
  ASSUME LoopInv, StartCall
  PROVE  LoopInv'
<1> USE DEF LoopInv
<1>1. AppendItem(Item("user", added + 1, "none", 0)) /\ pc = "idle" /\ pc' = "compact"
      /\ turns' = turns + 1 /\ steps' = 0 /\ before' = 0 /\ after' = 0
      /\ failure' = "none" /\ output' = -1
  BY DEF StartCall, Text
<1>2. "user" \in Kinds /\ "user" # "output"
  BY DEF Kinds
<1>3. /\ history' \in Seq(Items(history')) /\ Ordered(history', added') /\ Paired(history')
      /\ OfKind(history', "user") # {} /\ added' \in Nat
  BY <1>1, <1>2, Appended
<1>4. turns \in Nat /\ turns' \in Nat /\ turns' > 0
  BY <1>1 DEF Shape
<1>5. HistoryInv'
  BY <1>1, <1>3, <1>4 DEF HistoryInv
<1>6. Shape'
  BY <1>1, <1>3, <1>4, Limits DEF Shape
<1>7. LimitInv' /\ HookInv'
  BY <1>1 DEF LimitInv, HookInv
<1> QED
  BY <1>5, <1>6, <1>7

\* What a compaction does, when there is one.
LEMMA CompactionIs ==
  ASSUME LoopInv, CompactHistory
  PROVE  \/ UNCHANGED history
         \/ /\ Keeps(history, history') /\ pc' = "limits" /\ UNCHANGED failure
            /\ history' \in Seq(Items(history'))
            /\ Ordered(history', added) /\ Paired(history')
            /\ OfKind(history', "user") # {}
<1> USE DEF LoopInv
<1>1. CASE NeedsCompaction(history)
  <2>1. PICK h, keep, summary :
          /\ h = FilterSummaryItems(history) /\ keep = Keep(h)
          /\ IF summary = "error" THEN Fails("runtime_error") /\ UNCHANGED history
             ELSE history' = Compacted(h, keep, summary) /\ pc' = "limits" /\ UNCHANGED failure
    BY <1>1 DEF CompactHistory
  <2>2. CASE summary # "error"
    <3>1. history' = Compacted(h, Keep(h), summary)
      BY <2>1, <2>2
    <3>2. OfKind(history, "user") # {} /\ history \in Seq(Items(history)) /\ added \in Nat
          /\ Paired(history) /\ Ordered(history, added)
      BY DEF CompactHistory, HistoryInv, Shape
    <3>3. PICK g : g = history'
      OBVIOUS
    <3>4. /\ \E U : g \in Seq(U)
          /\ Paired(g) /\ Ordered(g, added) /\ OfKind(g, "user") # {}
          /\ Keeps(history, g)
      BY <2>1, <3>1, <3>2, <3>3, CompactedIs
    <3>5. g \in Seq(Items(g))
      BY <3>4, Itself
    <3> QED
      BY <2>1, <2>2, <3>3, <3>4, <3>5
  <2> QED
    BY <2>1, <2>2
<1>2. CASE ~NeedsCompaction(history)
  BY <1>2 DEF CompactHistory
<1> QED
  BY <1>1, <1>2

LEMMA CompactHistoryInv ==
  ASSUME LoopInv, CompactHistory
  PROVE  LoopInv'
<1> USE DEF LoopInv
<1>1. pc = "compact" /\ pc' \in {"limits", "finish"}
      /\ UNCHANGED <<steps, stream, followUp, before, added, after, output, turns, diffs>>
      /\ failure' \in {failure, "runtime_error"}
  BY DEF CompactHistory, LoopOnly, Fails
<1>2. CASE UNCHANGED history
  <2>1. HistoryInv'
    BY <1>1, <1>2, Quiet
  <2>2. Shape'
    BY <1>1 DEF Shape
  <2>3. LimitInv' /\ HookInv'
    BY <1>1 DEF LimitInv, HookInv
  <2> QED
    BY <2>1, <2>2, <2>3
<1>3. CASE ~UNCHANGED history
  <2>1. /\ history' \in Seq(Items(history')) /\ Ordered(history', added) /\ Paired(history')
        /\ OfKind(history', "user") # {}
    BY <1>3, CompactionIs
  <2>2. HistoryInv'
    BY <1>1, <2>1 DEF HistoryInv
  <2>3. Shape'
    BY <1>1 DEF Shape
  <2>4. LimitInv' /\ HookInv'
    BY <1>1 DEF LimitInv, HookInv
  <2> QED
    BY <2>2, <2>3, <2>4
<1> QED
  BY <1>2, <1>3

LEMMA CheckLimitsInv ==
  ASSUME LoopInv, CheckLimits
  PROVE  LoopInv'
<1> USE DEF LoopInv
<1>1. pc = "limits" /\ pc' \in {"request", "finish"}
      /\ UNCHANGED <<history, steps, stream, followUp, before, added, after, output, turns, diffs>>
      /\ failure' \in {failure, "budget_exceeded"}
  BY DEF CheckLimits, LoopOnly, Fails
<1>2. HistoryInv'
  BY <1>1, Quiet
<1>3. Shape'
  BY <1>1 DEF Shape
<1>4. HookInv'
  BY <1>1 DEF HookInv
<1>5. LimitInv'
  <2>1. pc' = "request" => ~ExceededLimits(history)
    BY DEF CheckLimits, Fails
  <2> QED
    BY <1>1, <2>1 DEF LimitInv, ExceededLimits
<1> QED
  BY <1>2, <1>3, <1>4, <1>5

LEMMA BeforeHookInv ==
  ASSUME LoopInv, BeforeHook
  PROVE  LoopInv'
<1> USE DEF LoopInv
<1>1. pc = "request" /\ before < Hooks /\ pc' \in {"request", "finish"}
      /\ before' \in {before, before + 1}
      /\ UNCHANGED <<history, steps, stream, followUp, added, after, output, turns, diffs>>
      /\ failure' \in {failure, "runtime_error"}
  BY DEF BeforeHook, LoopOnly, Fails
<1>2. HistoryInv'
  BY <1>1, Quiet
<1>3. before \in 0 .. Hooks /\ before' \in 0 .. Hooks
  BY <1>1, Limits DEF Shape
<1>4. Shape'
  BY <1>1, <1>3 DEF Shape
<1>5. HookInv'
  BY <1>1, <1>3, Limits DEF HookInv
<1>6. LimitInv'
  BY <1>1 DEF LimitInv, ExceededLimits
<1> QED
  BY <1>2, <1>4, <1>5, <1>6

LEMMA RequestInv ==
  ASSUME LoopInv, Request
  PROVE  LoopInv'
<1> USE DEF LoopInv
<1>1. pc = "request" /\ before = Hooks /\ pc' \in {"receive", "finish"}
      /\ UNCHANGED <<history, before, added, after, output, turns, diffs>>
      /\ steps' \in {steps, steps + 1}
      /\ failure' \in {failure, "runtime_error"}
  BY DEF Request, LoopOnly, Fails
<1>2. HistoryInv'
  BY <1>1, Quiet
<1>3. steps \in Nat /\ steps' \in Nat /\ (MaxSteps > 0 => steps' <= MaxSteps)
  <2>1. steps \in Nat /\ (MaxSteps > 0 => steps <= MaxSteps)
    BY DEF Shape
  <2>2. MaxSteps > 0 => ~(steps >= MaxSteps)
    BY <1>1 DEF LimitInv, ExceededLimits
  <2> QED
    BY <1>1, <2>1, <2>2, Limits
<1>4. Shape'
  BY <1>1, <1>3 DEF Shape
<1>5. LimitInv' /\ HookInv'
  BY <1>1 DEF HookInv, LimitInv
<1> QED
  BY <1>2, <1>4, <1>5

LEMMA ReceiveMessageInv ==
  ASSUME LoopInv, ReceiveMessage
  PROVE  LoopInv'
<1> USE DEF LoopInv
<1>1. AppendItem(Item("assistant", added + 1, "none", 0)) /\ pc = "receive"
      /\ UNCHANGED <<pc, steps, followUp, before, failure, after, output, turns, diffs>>
  BY DEF ReceiveMessage, Text, LoopOnly
<1>2. "assistant" \in Kinds /\ "assistant" # "output"
  BY DEF Kinds
<1>3. /\ history' \in Seq(Items(history')) /\ Ordered(history', added') /\ Paired(history')
      /\ turns > 0 => OfKind(history', "user") # {}
      /\ added' \in Nat /\ output \in -1 .. added'
  BY <1>1, <1>2, Appended
<1>4. HistoryInv'
  BY <1>1, <1>3 DEF HistoryInv
<1>5. Shape'
  BY <1>1, <1>3 DEF Shape
<1>6. LimitInv' /\ HookInv'
  BY <1>1 DEF LimitInv, HookInv
<1> QED
  BY <1>4, <1>5, <1>6

\* The call is the last item until its tool has run.
LEMMA ReceiveCallInv ==
  ASSUME LoopInv, ReceiveCall
  PROVE  LoopInv'
<1> USE DEF LoopInv
<1>1. AppendItem(Item("call", added + 1, Head(stream).id, 0)) /\ pc = "receive" /\ pc' = "tool"
      /\ UNCHANGED <<steps, stream, followUp, before, failure, after, output, turns, diffs>>
  BY DEF ReceiveCall, LoopOnly
<1>2. "call" \in Kinds /\ "call" # "output"
  BY DEF Kinds
<1>3. /\ history' \in Seq(Items(history')) /\ Ordered(history', added') /\ Paired(history')
      /\ turns > 0 => OfKind(history', "user") # {}
      /\ history' # <<>> /\ Last(history') = Item("call", added + 1, Head(stream).id, 0)
      /\ added' \in Nat /\ output \in -1 .. added'
  BY <1>1, <1>2, Appended
<1>4. Last(history').kind = "call" /\ Last(history').call = Head(stream).id
  BY <1>3 DEF Item
<1>5. HistoryInv'
  BY <1>1, <1>3, <1>4 DEF HistoryInv
<1>6. Shape'
  BY <1>1, <1>3 DEF Shape
<1>7. LimitInv' /\ HookInv'
  BY <1>1 DEF LimitInv, HookInv
<1> QED
  BY <1>5, <1>6, <1>7

LEMMA ExecuteToolInv ==
  ASSUME LoopInv, ExecuteTool
  PROVE  LoopInv'
<1> USE DEF LoopInv
<1>1. AppendItem(Item("output", added + 1, Head(stream).id, Last(history).n))
      /\ pc = "tool" /\ pc' = "receive"
      /\ UNCHANGED <<steps, before, failure, after, output, turns, diffs>>
  BY DEF ExecuteTool, LoopOnly
<1>2. "output" \in Kinds
  BY DEF Kinds
<1>3. /\ history' \in Seq(Items(history')) /\ Ordered(history', added') /\ Paired(history')
      /\ turns > 0 => OfKind(history', "user") # {}
      /\ added' \in Nat /\ output \in -1 .. added'
  BY <1>1, <1>2, Appended
<1>4. HistoryInv'
  BY <1>1, <1>3 DEF HistoryInv
<1>5. Shape'
  BY <1>1, <1>3 DEF Shape
<1>6. LimitInv' /\ HookInv'
  BY <1>1 DEF LimitInv, HookInv
<1> QED
  BY <1>4, <1>5, <1>6

LEMMA ResponseEndsInv ==
  ASSUME LoopInv, ResponseEnds
  PROVE  LoopInv'
<1> USE DEF LoopInv
<1>1. pc = "receive" /\ pc' \in {"compact", "finish"}
      /\ UNCHANGED <<history, steps, stream, followUp, before, failure, added, after, output, turns, diffs>>
  BY DEF ResponseEnds, LoopOnly
<1>2. HistoryInv'
  BY <1>1, Quiet
<1>3. Shape'
  BY <1>1 DEF Shape
<1>4. LimitInv' /\ HookInv'
  BY <1>1 DEF LimitInv, HookInv
<1> QED
  BY <1>2, <1>3, <1>4

LEMMA FinishInv ==
  ASSUME LoopInv, Finish
  PROVE  LoopInv'
<1> USE DEF LoopInv
<1>1. pc = "finish" /\ pc' = "idle" /\ output' = LatestAssistantMessage
      /\ after' = (IF before = Hooks THEN Hooks ELSE 0)
      /\ UNCHANGED <<history, steps, stream, followUp, before, failure, added, turns, diffs>>
  BY DEF Finish
<1>2. HistoryInv'
  BY <1>1, Quiet
<1>3. LatestAssistantMessage \in -1 .. added
  <2> DEFINE texts == {i \in DOMAIN history : history[i].kind \in {"assistant", "summary"}}
  <2>1. CASE texts = {}
    BY <2>1 DEF LatestAssistantMessage, Shape
  <2>2. CASE texts # {}
    <3>1. Len(history) \in Nat /\ DOMAIN history = 1 .. Len(history) /\ added \in Nat
      BY DEF HistoryInv, Shape
    <3>2. texts \subseteq 1 .. Len(history)
      BY <3>1
    <3>3. LatestAssistantMessage = history[Max(texts)].n
      BY <2>2 DEF LatestAssistantMessage
    <3> HIDE DEF texts
    <3>4. Max(texts) \in 1 .. Len(history)
      BY <2>2, <3>1, <3>2, MaxIs
    <3>5. history[Max(texts)].n \in 0 .. added
      BY <3>1, <3>4 DEF HistoryInv, Ordered
    <3> QED
      BY <3>1, <3>3, <3>5
  <2> QED
    BY <2>1, <2>2
<1>4. Shape'
  BY <1>1, <1>3, Limits DEF Shape
<1>5. LimitInv'
  BY <1>1 DEF LimitInv
<1>6. HookInv'
  BY <1>1, Limits DEF HookInv
<1> QED
  BY <1>2, <1>4, <1>5, <1>6

LEMMA NextInv == LoopInv /\ [Next]_vars => LoopInv'
<1> SUFFICES ASSUME LoopInv, [Next]_vars
             PROVE  LoopInv'
  OBVIOUS
<1>1. CASE AppendEnvironmentDiff
  BY <1>1, AppendEnvironmentDiffInv
<1>2. CASE StartCall
  BY <1>2, StartCallInv
<1>3. CASE CompactHistory
  BY <1>3, CompactHistoryInv
<1>4. CASE CheckLimits
  BY <1>4, CheckLimitsInv
<1>5. CASE BeforeHook
  BY <1>5, BeforeHookInv
<1>6. CASE Request
  BY <1>6, RequestInv
<1>7. CASE ReceiveMessage
  BY <1>7, ReceiveMessageInv
<1>8. CASE ReceiveCall
  BY <1>8, ReceiveCallInv
<1>9. CASE ExecuteTool
  BY <1>9, ExecuteToolInv
<1>10. CASE ResponseEnds
  BY <1>10, ResponseEndsInv
<1>11. CASE Finish
  BY <1>11, FinishInv
<1>12. CASE UNCHANGED vars
  <2>1. Shape'
    BY <1>12 DEF vars, LoopInv, Shape
  <2>2. HistoryInv'
    BY <1>12 DEF vars, LoopInv, HistoryInv
  <2>3. LimitInv' /\ HookInv'
    BY <1>12 DEF vars, LoopInv, LimitInv, HookInv, ExceededLimits
  <2> QED
    BY <2>1, <2>2, <2>3 DEF LoopInv
<1> QED
  BY <1>1, <1>2, <1>3, <1>4, <1>5, <1>6, <1>7, <1>8, <1>9, <1>10, <1>11, <1>12 DEF Next, Loop

-----------------------------------------------------------------------------
(* The theorems.                                                           *)

LEMMA Inductive == Spec => []LoopInv
<1>1. Init => LoopInv
  BY InitInv
<1>2. LoopInv /\ [Next]_vars => LoopInv'
  BY NextInv
<1> QED
  BY <1>1, <1>2, PTL DEF Spec

\* For every configuration of compaction and whatever the model answers, every
\* output in the history follows the call it answers with no other call of the
\* same id between them, and items stay in the order they were added: the calls
\* kept for the outputs kept (selectToolCallsForOutputs) are the right ones.
THEOREM Pairing == Spec => []ToolsPaired
<1>1. LoopInv => ToolsPaired
  <2> HAVE LoopInv
  <2>1. TypeOK
    BY InvIsType
  <2>2. Paired(history)
    BY DEF LoopInv, HistoryInv
  <2> QED
    BY <2>1, <2>2 DEF ToolsPaired, Paired
<1> QED
  BY <1>1, Inductive, PTL

\* Whatever hooks fail and whatever ends a turn, no AfterCall runs unless every
\* BeforeCall did, and a turn that sent a request has all of both.
THEOREM Bracketing == Spec => []HooksBracket
<1>1. LoopInv => HooksBracket
  BY DEF LoopInv, HookInv, HooksBracket
<1> QED
  BY <1>1, Inductive, PTL

\* Every compaction leaves the instructions, the newest environment and user
\* message and an output not yet seen, adds nothing but one summary and drops
\* the one before it, for every budget of user messages and of outputs.
THEOREM CompactionSafe == Spec => CompactionKeeps
<1>1. LoopInv /\ [Next]_vars =>
        [pc = "compact" /\ history' # history => Keeps(history, history')]_vars
  <2> SUFFICES ASSUME LoopInv, [Next]_vars, pc = "compact", history' # history
               PROVE  Keeps(history, history')
    OBVIOUS
  <2>1. CompactHistory
    BY DEF Next, Loop, vars, AppendEnvironmentDiff, StartCall, CheckLimits, BeforeHook, Request,
           ReceiveMessage, ReceiveCall, ExecuteTool, ResponseEnds, Finish
  <2> QED
    BY <2>1, CompactionIs
<1> QED
  BY <1>1, Inductive, PTL DEF Spec, CompactionKeeps

\* No request is sent past the limit of requests or with a history over the
\* limit of tokens: nothing between the check and the request (the prompt, the
\* hooks) changes what was checked.
THEOREM WithinLimits == Spec => RequestsWithinLimits
<1>1. LoopInv /\ [Next]_vars =>
        [steps' > steps =>
           /\ MaxSteps > 0 => steps' <= MaxSteps
           /\ MaxTokens > 0 => ~(ApproxTokenCount(history) > MaxTokens)]_vars
  <2> SUFFICES ASSUME LoopInv, [Next]_vars, steps' > steps
               PROVE  /\ MaxSteps > 0 => steps' <= MaxSteps
                      /\ MaxTokens > 0 => ~(ApproxTokenCount(history) > MaxTokens)
    OBVIOUS
  <2>1. steps \in Nat
    BY DEF LoopInv, Shape
  <2>2. steps' # steps /\ steps' # 0
    BY <2>1
  <2>3. Request
    BY <2>2 DEF Next, Loop, vars, AppendEnvironmentDiff, StartCall, CompactHistory, CheckLimits,
           BeforeHook, ReceiveMessage, ReceiveCall, ExecuteTool, ResponseEnds, Finish
  <2>4. pc = "request"
    BY <2>3 DEF Request
  <2>5. ~ExceededLimits(history)
    BY <2>4 DEF LoopInv, LimitInv
  <2>6. MaxTokens > 0 => ~(ApproxTokenCount(history) > MaxTokens)
    BY <2>5 DEF ExceededLimits
  <2>7. Shape'
    BY NextInv DEF LoopInv
  <2> QED
    BY <2>6, <2>7 DEF Shape
<1> QED
  BY <1>1, Inductive, PTL DEF Spec, RequestsWithinLimits
=============================================================================
