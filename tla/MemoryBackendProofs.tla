------------------------- MODULE MemoryBackendProofs -------------------------
(***************************************************************************)
(* Proofs about MemoryBackend: types, exact accounting, the capacity bound,*)
(* the refinement of Limiter, retries and leases, for every set of keys,   *)
(* leases, definitions and requests.                                       *)
(***************************************************************************)
EXTENDS MemoryBackend, FiniteSetTheorems, WellFoundedInduction, TLAPS

-----------------------------------------------------------------------------
(* Finite sums as cardinalities.                                           *)

\* The image of a finite set under a function is finite.
LEMMA FiniteImage ==
  ASSUME NEW S, IsFiniteSet(S), NEW f, DOMAIN f = S
  PROVE  IsFiniteSet({f[x] : x \in S})
<1> DEFINE T == {f[x] : x \in S}
           g == [x \in S |-> f[x]]
<1>1. g \in Surjection(S, T)
  BY DEF Surjection
<1> QED
  BY <1>1, FS_Surjection

\* An injective function does not change the number of elements.
LEMMA InjectiveImage ==
  ASSUME NEW S, IsFiniteSet(S), NEW f, DOMAIN f = S,
         \A x, y \in S : f[x] = f[y] => x = y
  PROVE  Cardinality({f[x] : x \in S}) = Cardinality(S)
<1> DEFINE T == {f[x] : x \in S}
           g == [x \in S |-> f[x]]
<1>1. g \in Surjection(S, T)
  BY DEF Surjection
<1>2. g \in Injection(S, T)
  BY DEF Injection, IsInjective
<1> QED
  BY <1>1, <1>2, FS_Surjection

\* A set of reservations whose sum makes sense.
Weighable(H) == IsFiniteSet(H) /\ \A e \in H : e.amount \in Nat

\* The unit charges of a set of reservations, element by element.
LEMMA UnitsMember ==
  ASSUME NEW H, NEW u
  PROVE  u \in Units(H) <=> \E e \in H : \E n \in 1 .. e.amount : u = <<e, n>>
BY DEF Units

\* The unit charges of finitely many reservations are finitely many.
LEMMA UnitsFinite ==
  ASSUME NEW H, Weighable(H)
  PROVE  IsFiniteSet(Units(H)) /\ Weight(H) \in Nat
<1> DEFINE f == [e \in H |-> {e} \X (1 .. e.amount)]
           F == {f[e] : e \in H}
<1>1. IsFiniteSet(F)
  <2>1. IsFiniteSet(H) /\ DOMAIN f = H
    BY DEF Weighable
  <2> HIDE DEF f
  <2> QED
    BY <2>1, FiniteImage
<1>2. \A T \in F : IsFiniteSet(T)
  <2>1. ASSUME NEW e \in H
        PROVE  IsFiniteSet({e} \X (1 .. e.amount))
    <3>1. IsFiniteSet({e})
      BY FS_Singleton
    <3>2. IsFiniteSet(1 .. e.amount)
      BY FS_Interval DEF Weighable
    <3> QED
      BY <3>1, <3>2, FS_Product
  <2> QED
    BY <2>1
<1>3. Units(H) = UNION F
  BY DEF Units
<1> QED
  BY <1>1, <1>2, <1>3, FS_UNION, FS_CardinalityType DEF Weight

\* Disjoint sets of reservations add up.
LEMMA WeightUnion ==
  ASSUME NEW H, NEW G, Weighable(H), Weighable(G), H \cap G = {}
  PROVE  Weight(H \cup G) = Weight(H) + Weight(G)
<1>1. Units(H \cup G) = Units(H) \cup Units(G)
  BY UnitsMember
<1>2. Units(H) \cap Units(G) = {}
  BY UnitsMember
<1>3. IsFiniteSet(Units(H)) /\ IsFiniteSet(Units(G)) /\ Weight(H) \in Nat /\ Weight(G) \in Nat
  BY UnitsFinite
<1>4. Cardinality(Units(H) \cup Units(G)) =
        Cardinality(Units(H)) + Cardinality(Units(G)) - Cardinality(Units(H) \cap Units(G))
  BY <1>3, FS_Union
<1>5. Cardinality(Units(H) \cap Units(G)) = 0
  BY <1>2, FS_EmptySet
<1>6. Weight(H \cup G) = Cardinality(Units(H) \cup Units(G))
  BY <1>1, Zenon DEF Weight
<1>7. Weight(H) = Cardinality(Units(H)) /\ Weight(G) = Cardinality(Units(G))
  BY DEF Weight
<1> QED
  BY <1>3, <1>4, <1>5, <1>6, <1>7

\* One reservation weighs its amount.
LEMMA WeightSingle ==
  ASSUME NEW e, e.amount \in Nat
  PROVE  Weighable({e}) /\ Weight({e}) = e.amount
<1> DEFINE f == [n \in 1 .. e.amount |-> <<e, n>>]
<1>1. Units({e}) = {f[n] : n \in 1 .. e.amount}
  <2>1. \A u : u \in Units({e}) <=> \E n \in 1 .. e.amount : u = <<e, n>>
    BY UnitsMember
  <2>2. \A u : u \in {f[n] : n \in 1 .. e.amount} <=> \E n \in 1 .. e.amount : u = <<e, n>>
    OBVIOUS
  <2> HIDE DEF f
  <2> QED
    BY <2>1, <2>2
<1>2. IsFiniteSet(1 .. e.amount) /\ Cardinality(1 .. e.amount) = e.amount
  BY FS_Interval
<1>3. Cardinality({f[n] : n \in 1 .. e.amount}) = Cardinality(1 .. e.amount)
  <2>1. DOMAIN f = 1 .. e.amount /\ \A x, y \in 1 .. e.amount : f[x] = f[y] => x = y
    OBVIOUS
  <2> HIDE DEF f
  <2> QED
    BY <1>2, <2>1, InjectiveImage
<1>4. IsFiniteSet({e})
  BY FS_Singleton
<1> QED
  BY <1>1, <1>2, <1>3, <1>4 DEF Weight, Weighable

\* Taking reservations out takes their sum out.
LEMMA WeightDifference ==
  ASSUME NEW H, NEW G, Weighable(H), G \subseteq H
  PROVE  /\ Weighable(G) /\ Weighable(H \ G)
         /\ Weight(H) = Weight(H \ G) + Weight(G)
         /\ Weight(H \ G) \in Nat /\ Weight(G) \in Nat
<1>1. Weighable(G) /\ Weighable(H \ G)
  BY FS_Subset DEF Weighable
<1>2. H = (H \ G) \cup G /\ (H \ G) \cap G = {}
  OBVIOUS
<1> QED
  BY <1>1, <1>2, WeightUnion, UnitsFinite

\* An empty window weighs nothing.
LEMMA WeightEmpty == Weighable({}) /\ Weight({}) = 0
<1>1. Units({}) = {}
  BY DEF Units
<1> QED
  BY <1>1, FS_EmptySet DEF Weight, Weighable
-----------------------------------------------------------------------------
(* One rolling window: what each of its operations preserves.              *)

Reservation == [ref : Slot \X Nat, id : Lease, amount : Nat, ttl : Int]

\* A window of the right type over a finite heap.
WellFormed(limit) == limit \in RollingLimit /\ IsFiniteSet(limit.heap)

\* A well-formed heap can be summed.
LEMMA WellFormedWeighable ==
  ASSUME NEW limit, WellFormed(limit)
  PROVE  /\ Weighable(limit.heap) /\ Weight(limit.heap) \in Nat
         /\ limit.used \in Nat /\ limit.heap \subseteq Reservation
<1>1. limit.heap \subseteq Reservation /\ IsFiniteSet(limit.heap) /\ limit.used \in Nat
  BY ConstantsAssumption DEF WellFormed, RollingLimit, Reservation
<1>2. Weighable(limit.heap)
  BY <1>1 DEF Weighable, Reservation
<1> QED
  BY <1>1, <1>2, UnitsFinite

\* cleanupRolling keeps the window well formed, keeps its capacity, and
\* only lowers the counter.
LEMMA CleanupType ==
  ASSUME NEW limit, WellFormed(limit), NEW lag \in Nat
  PROVE  LET c == CleanupRolling(limit, lag)
         IN  /\ WellFormed(c) /\ c.cap = limit.cap /\ c.used <= limit.used
             /\ c.heap \subseteq limit.heap
<1> DEFINE gone == {e \in limit.heap : e.ttl <= -lag}
           c == CleanupRolling(limit, lag)
<1>1. Weight(gone) \in Nat /\ limit.used \in Nat
  BY WellFormedWeighable, WeightDifference, gone \subseteq limit.heap
<1>2. /\ c.heap = limit.heap \ gone /\ c.cap = limit.cap
      /\ c.used = Monus(limit.used, Weight(gone))
      /\ c.byID = [l \in Lease |-> IF \E e \in gone : e.id = l THEN None ELSE limit.byID[l]]
  BY DEF CleanupRolling, WellFormed, RollingLimit
<1>8. c = [cap |-> c.cap, used |-> c.used, heap |-> c.heap, byID |-> c.byID]
  BY DEF CleanupRolling
<1>3. c.used \in 0 .. Word - 1 /\ c.used <= limit.used
  <2>1. limit.used \in 0 .. Word - 1
    BY DEF WellFormed, RollingLimit
  <2> QED
    BY <1>1, <1>2, <2>1, ConstantsAssumption DEF Monus
<1>4. c.byID \in [Lease -> (Slot \X Nat) \cup {None}]
  <2>1. limit.byID \in [Lease -> (Slot \X Nat) \cup {None}]
    BY DEF WellFormed, RollingLimit
  <2> QED
    BY <1>2, <2>1
<1>5. IsFiniteSet(c.heap) /\ c.heap \subseteq Reservation
  BY <1>2, FS_Subset, WellFormedWeighable DEF WellFormed
<1>6. c.cap \in Nat
  BY <1>2 DEF WellFormed, RollingLimit
<1> HIDE DEF c
<1>7. c \in RollingLimit
  BY <1>8, <1>3, <1>4, <1>5, <1>6 DEF RollingLimit, Reservation
<1> QED
  BY <1>2, <1>3, <1>5, <1>7 DEF WellFormed, c

\* cleanupRolling subtracts exactly what it pops.
LEMMA CleanupExact ==
  ASSUME NEW limit, WellFormed(limit), NEW lag \in Nat,
         limit.used = Weight(limit.heap)
  PROVE  LET c == CleanupRolling(limit, lag) IN c.used = Weight(c.heap)
<1> DEFINE gone == {e \in limit.heap : e.ttl <= -lag}
<1>1. /\ Weight(limit.heap) = Weight(limit.heap \ gone) + Weight(gone)
      /\ Weight(limit.heap \ gone) \in Nat /\ Weight(gone) \in Nat
  BY WellFormedWeighable, WeightDifference, gone \subseteq limit.heap
<1>2. /\ CleanupRolling(limit, lag).heap = limit.heap \ gone
      /\ CleanupRolling(limit, lag).used = Monus(limit.used, Weight(gone))
  BY DEF CleanupRolling, WellFormed, RollingLimit
<1>3. Monus(limit.used, Weight(gone)) = Weight(limit.heap \ gone)
  <2> HIDE DEF gone
  <2> QED
    BY <1>1 DEF Monus
<1> QED
  BY <1>2, <1>3

\* The reservations a request adds are finitely many and well typed, and
\* its last index for a key is one of them.
LEMMA NewReservationsType ==
  ASSUME NEW l \in Lease, NEW reqs \in Request, NEW k \in KeysOf(reqs),
         NEW slot \in Slot, NEW ttl \in Int
  PROVE  LET new == NewReservations(l, reqs, k, slot, ttl)
         IN  /\ new \subseteq Reservation /\ IsFiniteSet(new)
             /\ Weighable(new) /\ Weight(new) \in Nat
<1> DEFINE I == {j \in DOMAIN reqs : reqs[j].key = k}
           f == [i \in I |-> [ref |-> <<slot, i>>, id |-> l,
                              amount |-> reqs[i].amount, ttl |-> ttl]]
           new == NewReservations(l, reqs, k, slot, ttl)
<1>1. reqs \in Seq(Requirement)
  BY ConstantsAssumption
<1>2. DOMAIN reqs = 1 .. Len(reqs) /\ Len(reqs) \in Nat
  BY <1>1
<1>3. IsFiniteSet(1 .. Len(reqs))
  BY <1>2, FS_Interval
<1>4. IsFiniteSet(I)
  BY <1>2, <1>3, FS_Subset, I \in SUBSET (1 .. Len(reqs))
<1>5. new = {f[i] : i \in I} /\ DOMAIN f = I
  BY DEF NewReservations
<1>6. \A i \in I : reqs[i].amount \in Nat /\ i \in Nat
  <2>1. \A i \in DOMAIN reqs : reqs[i] \in Requirement /\ i \in Nat
    BY <1>1, <1>2
  <2> QED
    BY <2>1 DEF Requirement
<1>7. new \subseteq Reservation
  BY <1>6 DEF NewReservations, Reservation
<1>8. IsFiniteSet(new)
  <2> HIDE DEF f, I, new
  <2> QED
    BY <1>4, <1>5, FiniteImage
<1>9. Weighable(new)
  <2> HIDE DEF new
  <2> QED
    BY <1>7, <1>8 DEF Weighable, Reservation
<1> QED
  BY <1>7, <1>8, <1>9, UnitsFinite

\* A nonempty set of numbers up to n has a greatest element.
LEMMA Greatest ==
  ASSUME NEW n \in Nat, NEW I, I \subseteq 1 .. n, I # {}
  PROVE  \E i \in I : \A j \in I : j <= i
<1> DEFINE R == OpToRel(<, Nat)
           T == {m \in Nat : \E i \in I : m = n - i}
<1>1. IsWellFoundedOn(R, Nat)
  BY NatLessThanWellFounded
<1>2. T \subseteq Nat /\ T # {}
  <2>1. PICK i \in I : TRUE
    OBVIOUS
  <2>2. n - i \in T
    BY <2>1
  <2> QED
    BY <2>2
<1>3. PICK m \in T : \A y \in T : ~ (<<y, m>> \in R)
  <2> HIDE DEF R, T
  <2> QED
    BY <1>1, <1>2, WFMin
<1>4. \A y \in T : m <= y
  <2>1. ASSUME NEW y \in T, y < m
        PROVE  FALSE
    <3>1. <<y, m>> \in Nat \X Nat /\ <<y, m>>[1] < <<y, m>>[2]
      BY <2>1
    <3>2. <<y, m>> \in R
      BY <3>1 DEF OpToRel
    <3> QED
      BY <1>3, <3>2
  <2> QED
    BY <2>1
<1>5. PICK i \in I : m = n - i
  OBVIOUS
<1>6. \A j \in I : n - j \in T
  OBVIOUS
<1> QED
  BY <1>4, <1>5, <1>6

\* The index that byID points at exists.
LEMMA LastIndexType ==
  ASSUME NEW reqs \in Request, NEW k \in KeysOf(reqs)
  PROVE  LastIndex(reqs, k) \in DOMAIN reqs /\ reqs[LastIndex(reqs, k)].key = k
<1> DEFINE I == {j \in DOMAIN reqs : reqs[j].key = k}
<1>1. DOMAIN reqs = 1 .. Len(reqs) /\ Len(reqs) \in Nat
  BY ConstantsAssumption
<1>2. I # {} /\ I \subseteq 1 .. Len(reqs)
  BY <1>1 DEF KeysOf
<1>3. \E i \in I : \A j \in I : j <= i
  <2> HIDE DEF I
  <2> QED
    BY <1>1, <1>2, Greatest
<1> QED
  BY <1>3 DEF LastIndex

\* addRollingReservation keeps the window well formed.
LEMMA AddType ==
  ASSUME NEW limit, WellFormed(limit),
         NEW l \in Lease, NEW reqs \in Request, NEW k \in KeysOf(reqs),
         NEW slot \in Slot, NEW ttl \in Int
  PROVE  LET a == AddRollingReservation(limit, l, reqs, k, slot, ttl)
         IN  WellFormed(a) /\ a.cap = limit.cap
<1> DEFINE new == NewReservations(l, reqs, k, slot, ttl)
           a == AddRollingReservation(limit, l, reqs, k, slot, ttl)
<1>1. new \subseteq Reservation /\ IsFiniteSet(new) /\ Weight(new) \in Nat
  BY NewReservationsType
<1>2. limit.heap \subseteq Reservation /\ IsFiniteSet(limit.heap) /\ limit.used \in Nat
  BY WellFormedWeighable DEF WellFormed
<1>3. IsFiniteSet(limit.heap \cup new) /\ limit.heap \cup new \subseteq Reservation
  BY <1>1, <1>2, FS_Union
<1>4. (limit.used + Weight(new)) % Word \in 0 .. Word - 1
  <2> HIDE DEF new
  <2> QED
    BY <1>1, <1>2, ConstantsAssumption, SMTT(30)
<1>5. LastIndex(reqs, k) \in Nat
  BY LastIndexType, ConstantsAssumption
<1>6. [limit.byID EXCEPT ![l] = <<slot, LastIndex(reqs, k)>>]
        \in [Lease -> (Slot \X Nat) \cup {None}]
  <2>1. limit.byID \in [Lease -> (Slot \X Nat) \cup {None}]
    BY DEF WellFormed, RollingLimit
  <2> QED
    BY <1>5, <2>1
<1>7. limit.cap \in Nat
  BY DEF WellFormed, RollingLimit
<1>8. a = [cap |-> limit.cap, used |-> (limit.used + Weight(new)) % Word,
           heap |-> limit.heap \cup new,
           byID |-> [limit.byID EXCEPT ![l] = <<slot, LastIndex(reqs, k)>>]]
  BY DEF AddRollingReservation
<1> HIDE DEF a, new
<1>9. a \in RollingLimit
  BY <1>3, <1>4, <1>6, <1>7, <1>8 DEF RollingLimit, Reservation
<1> QED
  BY <1>3, <1>8, <1>9 DEF WellFormed, a

\* A request that names a key once adds one reservation to its window.
LEMMA NewSingle ==
  ASSUME DistinctKeys, NEW l \in Lease, NEW reqs \in Request, NEW k \in KeysOf(reqs),
         NEW slot \in Slot, NEW ttl \in Int
  PROVE  \E i \in DOMAIN reqs :
           /\ reqs[i].key = k /\ reqs[i].amount \in Nat
           /\ NewReservations(l, reqs, k, slot, ttl) =
                {[ref |-> <<slot, i>>, id |-> l, amount |-> reqs[i].amount, ttl |-> ttl]}
           /\ Weight(NewReservations(l, reqs, k, slot, ttl)) = reqs[i].amount
<1>1. PICK i \in DOMAIN reqs : reqs[i].key = k
  BY DEF KeysOf
<1>2. {j \in DOMAIN reqs : reqs[j].key = k} = {i}
  BY <1>1 DEF DistinctKeys
<1>3. reqs[i].amount \in Nat
  <2>1. reqs[i] \in Requirement
    BY ConstantsAssumption
  <2> QED
    BY <2>1 DEF Requirement
<1> DEFINE e == [ref |-> <<slot, i>>, id |-> l, amount |-> reqs[i].amount, ttl |-> ttl]
<1>4. NewReservations(l, reqs, k, slot, ttl) = {e}
  BY <1>2 DEF NewReservations
<1>5. e.amount = reqs[i].amount
  OBVIOUS
<1>6. Weight({e}) = e.amount
  <2> HIDE DEF e
  <2> QED
    BY <1>3, <1>5, WeightSingle
<1> QED
  BY <1>1, <1>3, <1>4, <1>5, <1>6

\* References are identities: no two reservations of a heap share one.
UniqueRefs(H) == \A e, f \in H : e.ref = f.ref => e = f

\* A reservation made under a fresh slot adds its amount to the counter and
\* to the sum alike, as long as the sum stays below the word.
LEMMA AddExact ==
  ASSUME DistinctKeys, NEW limit, WellFormed(limit),
         limit.used = Weight(limit.heap), UniqueRefs(limit.heap),
         NEW l \in Lease, NEW reqs \in Request, NEW k \in KeysOf(reqs),
         NEW slot \in Slot, NEW ttl \in Int,
         \A e \in limit.heap : e.ref[1] # slot,
         \A i \in DOMAIN reqs : reqs[i].key = k => limit.used + reqs[i].amount < Word
  PROVE  LET a == AddRollingReservation(limit, l, reqs, k, slot, ttl)
         IN  /\ a.used = Weight(a.heap) /\ UniqueRefs(a.heap)
             /\ \E i \in DOMAIN reqs : reqs[i].key = k /\ a.used = limit.used + reqs[i].amount
<1> DEFINE new == NewReservations(l, reqs, k, slot, ttl)
           a == AddRollingReservation(limit, l, reqs, k, slot, ttl)
<1>1. PICK i \in DOMAIN reqs :
        /\ reqs[i].key = k /\ reqs[i].amount \in Nat
        /\ new = {[ref |-> <<slot, i>>, id |-> l, amount |-> reqs[i].amount, ttl |-> ttl]}
        /\ Weight(new) = reqs[i].amount
  BY NewSingle
<1>2. /\ Weighable(limit.heap) /\ Weighable(new)
      /\ limit.used \in Nat /\ Weight(limit.heap) \in Nat
  BY WellFormedWeighable, NewReservationsType
<1>3. \A e \in new : e.ref[1] = slot
  BY <1>1
<1>4. limit.heap \cap new = {}
  BY <1>3
<1>5. Weight(limit.heap \cup new) = limit.used + reqs[i].amount
  BY <1>1, <1>2, <1>4, WeightUnion
<1>6. a.heap = limit.heap \cup new /\ a.used = (limit.used + Weight(new)) % Word
  BY DEF AddRollingReservation
<1>7. (limit.used + reqs[i].amount) % Word = limit.used + reqs[i].amount
  <2>1. limit.used + reqs[i].amount < Word /\ limit.used + reqs[i].amount \in Nat
    BY <1>1, <1>2
  <2> DEFINE x == limit.used + reqs[i].amount
  <2> HIDE DEF x
  <2>2. x \in Nat /\ x < Word => x % Word = x
    BY ConstantsAssumption
  <2> QED
    BY <2>1, <2>2 DEF x
<1>8. UniqueRefs(a.heap)
  BY <1>1, <1>3, <1>6 DEF UniqueRefs
<1> QED
  BY <1>1, <1>5, <1>6, <1>7, <1>8

\* reduceRollingReservation keeps the window well formed and, when the
\* counter is exact, exact: it only lowers the counter.
LEMMA ReduceType ==
  ASSUME NEW limit, WellFormed(limit), NEW l \in Lease, NEW n \in Nat
  PROVE  LET r == ReduceRollingReservation(limit, l, n)
         IN  WellFormed(r) /\ r.cap = limit.cap /\ r.used <= limit.used
<1> DEFINE r == ReduceRollingReservation(limit, l, n)
           hit == {x \in limit.heap : x.ref = limit.byID[l] /\ n < x.amount}
           e == CHOOSE x \in hit : TRUE
           e2 == [ref |-> e.ref, id |-> e.id, amount |-> n, ttl |-> e.ttl]
<1>1. CASE hit = {}
  BY <1>1, WellFormedWeighable DEF ReduceRollingReservation
<1>2. CASE hit # {}
  <2>1. e \in limit.heap /\ n < e.amount
    BY <1>2
  <2>2. r = [cap |-> limit.cap, used |-> Monus(limit.used, e.amount - n),
             heap |-> (limit.heap \ {e}) \cup {e2}, byID |-> limit.byID]
    BY <1>2 DEF ReduceRollingReservation
  <2> HIDE DEF e, r
  <2>3. /\ limit.heap \subseteq Reservation /\ limit.used \in Nat
        /\ IsFiniteSet(limit.heap) /\ limit.used \in 0 .. Word - 1 /\ limit.cap \in Nat
        /\ limit.byID \in [Lease -> (Slot \X Nat) \cup {None}]
    BY WellFormedWeighable DEF WellFormed, RollingLimit
  <2>4. e2 \in Reservation /\ e.amount \in Nat
    BY <2>1, <2>3 DEF Reservation
  <2>5. IsFiniteSet((limit.heap \ {e}) \cup {e2})
    <3>1. IsFiniteSet(limit.heap \ {e})
      BY <2>3, FS_RemoveElement
    <3> QED
      BY <3>1, FS_AddElement
  <2>6. Monus(limit.used, e.amount - n) \in 0 .. Word - 1 /\ Monus(limit.used, e.amount - n) <= limit.used
    BY <2>1, <2>3, <2>4, ConstantsAssumption DEF Monus
  <2> HIDE DEF e2
  <2>7. r \in RollingLimit
    BY <2>2, <2>3, <2>4, <2>6 DEF RollingLimit, Reservation
  <2> QED
    BY <2>2, <2>5, <2>6, <2>7 DEF WellFormed, r
<1> QED
  BY <1>1, <1>2

\* What reduceRollingReservation takes off the counter it takes off the
\* reservation.
LEMMA ReduceExact ==
  ASSUME NEW limit, WellFormed(limit), NEW l \in Lease, NEW n \in Nat,
         limit.used = Weight(limit.heap), UniqueRefs(limit.heap)
  PROVE  LET r == ReduceRollingReservation(limit, l, n)
         IN  r.used = Weight(r.heap) /\ UniqueRefs(r.heap)
<1> DEFINE r == ReduceRollingReservation(limit, l, n)
           hit == {x \in limit.heap : x.ref = limit.byID[l] /\ n < x.amount}
           e == CHOOSE x \in hit : TRUE
           e2 == [ref |-> e.ref, id |-> e.id, amount |-> n, ttl |-> e.ttl]
<1>1. CASE hit = {}
  BY <1>1 DEF ReduceRollingReservation
<1>2. CASE hit # {}
  <2>1. e \in limit.heap /\ n < e.amount
    BY <1>2
  <2>2. r.heap = (limit.heap \ {e}) \cup {e2} /\ r.used = Monus(limit.used, e.amount - n)
    BY <1>2 DEF ReduceRollingReservation
  <2>3. e2.ref = e.ref /\ e2.amount = n
    OBVIOUS
  <2> HIDE DEF e, r, e2
  <2>4. e.amount \in Nat
    BY <2>1, WellFormedWeighable DEF Reservation
  <2>5. /\ Weighable({e}) /\ Weight({e}) = e.amount
        /\ Weighable({e2}) /\ Weight({e2}) = n
    BY <2>3, <2>4, WeightSingle
  <2>6. /\ Weighable(limit.heap \ {e}) /\ Weight(limit.heap \ {e}) \in Nat
        /\ Weight(limit.heap) = Weight(limit.heap \ {e}) + Weight({e})
    BY <2>1, {e} \subseteq limit.heap, WellFormedWeighable, WeightDifference
  <2>7. e2 \notin limit.heap \ {e}
    BY <2>1, <2>3 DEF UniqueRefs
  <2>8. Weight((limit.heap \ {e}) \cup {e2}) = Weight(limit.heap \ {e}) + n
    BY <2>5, <2>6, <2>7, WeightUnion
  <2>9. Monus(limit.used, e.amount - n) = Weight(limit.heap \ {e}) + n
    BY <2>1, <2>4, <2>5, <2>6 DEF Monus
  <2>10. UniqueRefs(r.heap)
    BY <2>1, <2>2, <2>3 DEF UniqueRefs
  <2> QED
    BY <2>2, <2>8, <2>9, <2>10 DEF r
<1> QED
  BY <1>1, <1>2

\* Time passing keeps the window well formed.
LEMMA AgedType ==
  ASSUME NEW limit, WellFormed(limit)
  PROVE  WellFormed(AgedRolling(limit))
<1> DEFINE f == [e \in limit.heap |-> AgedReservation(e)]
           H == {AgedReservation(e) : e \in limit.heap}
<1>1. limit.heap \subseteq Reservation /\ IsFiniteSet(limit.heap)
  BY WellFormedWeighable DEF WellFormed
<1>2. H = {f[e] : e \in limit.heap} /\ DOMAIN f = limit.heap
  OBVIOUS
<1>3. IsFiniteSet(H)
  <2> HIDE DEF f, H
  <2> QED
    BY <1>1, <1>2, FiniteImage
<1>4. H \subseteq Reservation
  BY <1>1, ConstantsAssumption DEF AgedReservation, Reservation, Down
<1>5. AgedRolling(limit) = [cap |-> limit.cap, used |-> limit.used, heap |-> H, byID |-> limit.byID]
  BY DEF AgedRolling
<1> HIDE DEF H
<1>6. AgedRolling(limit) \in RollingLimit
  BY <1>4, <1>5 DEF WellFormed, RollingLimit, Reservation
<1> QED
  BY <1>3, <1>5, <1>6 DEF WellFormed

\* Time passing does not change the sum.
LEMMA AgedExact ==
  ASSUME NEW limit, WellFormed(limit), UniqueRefs(limit.heap)
  PROVE  LET a == AgedRolling(limit)
         IN  Weight(a.heap) = Weight(limit.heap) /\ UniqueRefs(a.heap)
<1> DEFINE H == limit.heap
           A == {AgedReservation(e) : e \in H}
           g == [u \in Units(H) |-> <<AgedReservation(u[1]), u[2]>>]
<1>1. IsFiniteSet(Units(H))
  BY WellFormedWeighable, UnitsFinite
<1>2. \A e : AgedReservation(e).ref = e.ref /\ AgedReservation(e).amount = e.amount
  BY DEF AgedReservation
<1>3. \A u \in Units(H) : \A v \in Units(H) : g[u] = g[v] => u = v
  <2>1. ASSUME NEW u \in Units(H), NEW v \in Units(H), g[u] = g[v]
        PROVE  u = v
    <3>1. PICK e \in H : \E n \in 1 .. e.amount : u = <<e, n>>
      BY UnitsMember
    <3>2. PICK f \in H : \E n \in 1 .. f.amount : v = <<f, n>>
      BY UnitsMember
    <3>3. AgedReservation(e) = AgedReservation(f) /\ u[2] = v[2]
      BY <2>1, <3>1, <3>2
    <3>4. e = f
      BY <1>2, <3>3 DEF UniqueRefs
    <3> QED
      BY <3>1, <3>2, <3>3, <3>4
  <2> QED
    BY <2>1
<1>4. Units(A) = {g[u] : u \in Units(H)}
  <2>1. ASSUME NEW u \in Units(H)
        PROVE  g[u] \in Units(A)
    <3>1. PICK e \in H : \E n \in 1 .. e.amount : u = <<e, n>>
      BY UnitsMember
    <3>2. PICK n \in 1 .. e.amount : u = <<e, n>>
      BY <3>1
    <3>3. AgedReservation(e) \in A /\ n \in 1 .. AgedReservation(e).amount
      BY <1>2
    <3>4. g[u] = <<AgedReservation(e), n>>
      BY <3>2
    <3> QED
      BY <3>3, <3>4, UnitsMember
  <2>2. ASSUME NEW v \in Units(A)
        PROVE  \E u \in Units(H) : v = g[u]
    <3>1. PICK b \in A : \E n \in 1 .. b.amount : v = <<b, n>>
      BY UnitsMember
    <3>2. PICK n \in 1 .. b.amount : v = <<b, n>>
      BY <3>1
    <3>3. PICK e \in H : b = AgedReservation(e)
      OBVIOUS
    <3>4. n \in 1 .. e.amount
      BY <1>2, <3>3
    <3>5. <<e, n>> \in Units(H)
      BY <3>4, UnitsMember
    <3>6. g[<<e, n>>] = v
      BY <3>2, <3>3, <3>5
    <3> QED
      BY <3>5, <3>6
  <2> QED
    BY <2>1, <2>2
<1>5. Weight(A) = Weight(H)
  <2>1. DOMAIN g = Units(H)
    OBVIOUS
  <2> HIDE DEF g, A, H
  <2>2. Cardinality({g[u] : u \in Units(H)}) = Cardinality(Units(H))
    BY <1>1, <1>3, <2>1, InjectiveImage
  <2> QED
    BY <1>4, <2>2 DEF Weight
<1>6. UniqueRefs(A)
  BY <1>2 DEF UniqueRefs
<1> QED
  BY <1>5, <1>6 DEF AgedRolling
-----------------------------------------------------------------------------
(* One concurrency limit.                                                  *)

\* The holds of a limit are finitely many, and fewer holds count less.
LEMMA HeldFinite ==
  ASSUME NEW c
  PROVE  /\ IsFiniteSet(Held(c)) /\ Cardinality(Held(c)) \in Nat
         /\ \A d : Held(d) \subseteq Held(c) => Cardinality(Held(d)) <= Cardinality(Held(c))
<1>1. \A d : Held(d) \in SUBSET Lease
  BY DEF Held
<1>2. \A d : IsFiniteSet(Held(d))
  BY <1>1, FS_Subset, ConstantsAssumption
<1> QED
  BY <1>2, FS_Subset, FS_CardinalityType

\* cleanupConcurrency only removes holds.
LEMMA CleanupConcType ==
  ASSUME NEW limit \in ConcLimit, NEW lag \in Nat
  PROVE  LET c == CleanupConcurrency(limit, lag)
         IN  c \in ConcLimit /\ c.cap = limit.cap /\ Held(c) \subseteq Held(limit)
BY DEF CleanupConcurrency, ConcLimit, Held

\* addConcurrencyHold adds one hold.
LEMMA AddHoldType ==
  ASSUME NEW limit \in ConcLimit, NEW l \in Lease, NEW ttl \in Int
  PROVE  LET c == AddConcurrencyHold(limit, l, ttl)
         IN  c \in ConcLimit /\ c.cap = limit.cap /\ Held(c) = Held(limit) \cup {l}
<1> DEFINE c == AddConcurrencyHold(limit, l, ttl)
<1>1. c \in ConcLimit /\ c.cap = limit.cap
  BY DEF AddConcurrencyHold, ConcLimit
<1>2. c.holds = [limit.holds EXCEPT ![l] = ttl] /\ limit.holds \in [Lease -> Int \cup {None}]
  BY DEF AddConcurrencyHold, ConcLimit
<1>3. Held(c) = Held(limit) \cup {l}
  BY <1>2, ConstantsAssumption DEF Held
<1> QED
  BY <1>1, <1>3

\* Completing a lease drops its hold.
LEMMA DropHoldType ==
  ASSUME NEW limit \in ConcLimit, NEW l \in Lease
  PROVE  LET c == DropHold(limit, l)
         IN  c \in ConcLimit /\ c.cap = limit.cap /\ Held(c) \subseteq Held(limit)
BY DEF DropHold, ConcLimit, Held

\* Time passing keeps the holds.
LEMMA AgedConcType ==
  ASSUME NEW limit \in ConcLimit
  PROVE  LET c == AgedConc(limit)
         IN  c \in ConcLimit /\ c.cap = limit.cap /\ Held(c) = Held(limit)
<1> DEFINE c == AgedConc(limit)
<1>1. limit.holds \in [Lease -> Int \cup {None}] /\ limit.cap \in Nat
      /\ limit.heap \subseteq [id : Lease, ttl : Int]
  BY DEF ConcLimit
<1>2. \A n \in Int : Down(n, -MaxLag) \in Int
  BY ConstantsAssumption DEF Down
<1>3. c.cap = limit.cap
  BY DEF AgedConc
<1>4. c.holds \in [Lease -> Int \cup {None}]
  BY <1>1, <1>2 DEF AgedConc
<1>5. c.heap \subseteq [id : Lease, ttl : Int]
  BY <1>1, <1>2 DEF AgedConc
<1>6. c = [cap |-> c.cap, holds |-> c.holds, heap |-> c.heap]
  BY DEF AgedConc
<1>7. \A l \in Lease : c.holds[l] = None <=> limit.holds[l] = None
  BY <1>1, <1>2, ConstantsAssumption DEF AgedConc
<1> HIDE DEF c
<1>8. c \in ConcLimit
  BY <1>1, <1>3, <1>4, <1>5, <1>6 DEF ConcLimit
<1>9. Held(c) = Held(limit)
  BY <1>7 DEF Held
<1> QED
  BY <1>3, <1>8, <1>9 DEF c
-----------------------------------------------------------------------------
(* Type correctness.                                                       *)

Typed == TypeOK /\ \A k \in Key : IsFiniteSet(roll[k].heap)

\* Typed, window by window.
LEMMA TypedParts ==
  Typed <=> /\ defs \in [Key -> LimitDefinition \cup {None}]
            /\ states \in [Key -> LimitState \cup {None}]
            /\ DOMAIN roll = Key /\ roll = [k \in Key |-> roll[k]]
            /\ \A k \in Key : WellFormed(roll[k])
            /\ conc \in [Key -> ConcLimit]
            /\ debt \in [Key -> 0 .. Word - 1]
            /\ leases \in [Lease -> LeaseState \cup {None}]
            /\ retired \subseteq Lease
BY DEF Typed, TypeOK, WellFormed

\* A defined key of either kind has a positive span.
LEMMA SpanType ==
  ASSUME Typed, NEW k \in Key, defs[k] # None
  PROVE  defs[k] \in LimitDefinition /\ defs[k].span \in Nat /\ defs[k].capacity \in Nat
BY DEF Typed, TypeOK, LimitDefinition

\* The backend starts well typed.
LEMMA InitTyped == Init => Typed
<1> SUFFICES ASSUME Init PROVE Typed
  OBVIOUS
<1>1. states \in [Key -> LimitState \cup {None}]
  BY ConstantsAssumption DEF Init
<1>2. defs \in [Key -> LimitDefinition \cup {None}]
  BY <1>1 DEF Init, DefinitionIn, LimitState
<1>3. \A n \in Nat : WellFormed(NewRollingLimit(n)) /\ NewConcLimit(n) \in ConcLimit
  BY FS_EmptySet, ConstantsAssumption
     DEF WellFormed, RollingLimit, NewRollingLimit, ConcLimit, NewConcLimit
<1>4. \A k \in Key : /\ (IF IsRolling(k) THEN defs[k].capacity ELSE 0) \in Nat
                     /\ (IF IsConcurrency(k) THEN defs[k].capacity ELSE 0) \in Nat
  BY <1>2 DEF IsRolling, IsConcurrency, LimitDefinition
<1>5. \A k \in Key : WellFormed(roll[k])
  BY <1>3, <1>4 DEF Init
<1>6. conc \in [Key -> ConcLimit]
  BY <1>3, <1>4 DEF Init
<1>7. roll = [k \in Key |-> roll[k]] /\ DOMAIN roll = Key
  BY DEF Init
<1>8. debt \in [Key -> 0 .. Word - 1] /\ leases \in [Lease -> LeaseState \cup {None}] /\ retired \subseteq Lease
  BY ConstantsAssumption DEF Init
<1> QED
  BY <1>1, <1>2, <1>5, <1>6, <1>7, <1>8, TypedParts

\* The windows and holds a Reserve has cleaned are well typed.
LEMMA CleanedTyped ==
  ASSUME Typed, NEW reqs \in Request, NEW lag \in 0 .. MaxLag
  PROVE  /\ \A k \in Key : WellFormed(CleanRoll(reqs, lag)[k])
         /\ CleanConc(reqs, lag) \in [Key -> ConcLimit]
<1>1. lag \in Nat
  BY ConstantsAssumption
<1>2. \A k \in Key : WellFormed(CleanRoll(reqs, lag)[k])
  BY <1>1, TypedParts, CleanupType DEF CleanRoll
<1>3. CleanConc(reqs, lag) \in [Key -> ConcLimit]
  BY <1>1, TypedParts, CleanupConcType DEF CleanConc
<1> QED
  BY <1>2, <1>3

\* A denied Reserve leaves the state well typed.
LEMMA DeniedTyped ==
  ASSUME Typed, NEW l \in Lease, NEW reqs \in Request, NEW lag \in 0 .. MaxLag,
         ReserveDenied(l, reqs, lag)
  PROVE  Typed'
<1>1. \A k \in Key : WellFormed(roll'[k])
  BY CleanedTyped DEF ReserveDenied
<1>2. conc' \in [Key -> ConcLimit]
  BY CleanedTyped DEF ReserveDenied
<1>3. DOMAIN roll' = Key /\ roll' = [k \in Key |-> roll'[k]]
  BY DEF ReserveDenied, CleanRoll
<1> QED
  BY <1>1, <1>2, <1>3, TypedParts DEF ReserveDenied, Typed, TypeOK, WellFormed

\* A granted Reserve leaves the state well typed.
LEMMA GrantedTyped ==
  ASSUME Typed, NEW l \in Lease, NEW reqs \in Request, NEW lag \in 0 .. MaxLag,
         ReserveGranted(l, reqs, lag)
  PROVE  Typed'
<1> DEFINE slot == CHOOSE s \in FreeSlots : TRUE
<1>1. slot \in Slot
  BY DEF ReserveGranted, FreeSlots
<1>2. \A k \in Key : defs[k] # None => defs[k].span - lag \in Int
  BY SpanType, ConstantsAssumption
<1>3. ASSUME NEW k \in Key
      PROVE  WellFormed(roll'[k])
  <2>1. CASE k \in KeysOf(reqs) /\ IsRolling(k)
    <3>1. roll'[k] = AddRollingReservation(CleanRoll(reqs, lag)[k], l, reqs, k, slot, defs[k].span - lag)
      BY <2>1 DEF ReserveGranted
    <3>2. defs[k].span - lag \in Int
      BY <1>2, <2>1 DEF IsRolling
    <3> QED
      BY <1>1, <2>1, <3>1, <3>2, CleanedTyped, AddType
  <2>2. CASE ~(k \in KeysOf(reqs) /\ IsRolling(k))
    BY <2>2, TypedParts DEF ReserveGranted
  <2> QED
    BY <2>1, <2>2
<1>4. ASSUME NEW k \in Key
      PROVE  conc'[k] \in ConcLimit
  <2>1. CASE k \in KeysOf(reqs) /\ IsConcurrency(k)
    <3>1. conc'[k] = AddConcurrencyHold(CleanConc(reqs, lag)[k], l, defs[k].span - lag)
      BY <2>1 DEF ReserveGranted
    <3>2. defs[k].span - lag \in Int
      BY <1>2, <2>1 DEF IsConcurrency
    <3>3. CleanConc(reqs, lag)[k] \in ConcLimit
      BY CleanedTyped
    <3> QED
      BY <3>1, <3>2, <3>3, AddHoldType
  <2>2. CASE ~(k \in KeysOf(reqs) /\ IsConcurrency(k))
    BY <2>2, TypedParts DEF ReserveGranted
  <2> QED
    BY <2>1, <2>2
<1>5. leases' \in [Lease -> LeaseState \cup {None}]
  <2>1. \A k \in Key : (IF k \in KeysOf(reqs) THEN Monus(defs[k].span, lag) ELSE 0) \in Nat
    BY SpanType, ConstantsAssumption DEF ReserveGranted, Admissible, Monus
  <2>2. leases \in [Lease -> LeaseState \cup {None}]
    BY TypedParts
  <2> QED
    BY <2>1, <2>2 DEF ReserveGranted, LeaseState
<1>6. DOMAIN roll' = Key /\ roll' = [k \in Key |-> roll'[k]] /\ conc' = [k \in Key |-> conc'[k]]
  BY DEF ReserveGranted
<1>7. conc' \in [Key -> ConcLimit]
  BY <1>4, <1>6
<1>8. UNCHANGED <<defs, states, debt, retired>>
  BY DEF ReserveGranted
<1> QED
  BY <1>3, <1>5, <1>6, <1>7, <1>8 DEF Typed, TypeOK, WellFormed

\* What a lease reserved on a key is a number.
LEMMA ReservedAmountType ==
  ASSUME NEW reqs \in Request, NEW k
  PROVE  ReservedAmount(reqs, k) \in Nat
<1>1. CASE k \in KeysOf(reqs)
  <2>1. LastIndex(reqs, k) \in DOMAIN reqs /\ reqs \in Seq(Requirement)
    BY <1>1, LastIndexType, ConstantsAssumption
  <2>2. reqs[LastIndex(reqs, k)] \in Requirement
    BY <2>1
  <2> QED
    BY <1>1, <2>2 DEF ReservedAmount, Requirement
<1> QED
  BY <1>1 DEF ReservedAmount

\* Complete leaves the state well typed.
LEMMA CompleteTyped ==
  ASSUME Typed, NEW l \in Lease, NEW actuals \in Actuals, Complete(l, actuals)
  PROVE  Typed'
<1> DEFINE reqs == leases[l].requirements
<1>1. reqs \in Request
  BY TypedParts DEF Complete, LeaseState
<1>2. DOMAIN actuals \subseteq Key /\ \A k \in DOMAIN actuals : actuals[k] \in Nat
  BY ConstantsAssumption
<1>3. roll' = ReconcileRolling(l, reqs, actuals) /\ conc' = ReleaseHolds(l, reqs)
      /\ debt' = RecordDebt(reqs, actuals)
  BY DEF Complete
<1> HIDE DEF reqs
<1>4. \A k \in Key : WellFormed(roll'[k])
  BY <1>2, <1>3, TypedParts, ReduceType DEF ReconcileRolling
<1>5. conc' \in [Key -> ConcLimit]
  BY <1>3, TypedParts, DropHoldType DEF ReleaseHolds
<1>6. debt' \in [Key -> 0 .. Word - 1]
  <2>1. ASSUME NEW k \in Key, k \in DOMAIN actuals, actuals[k] > ReservedAmount(reqs, k)
        PROVE  (debt[k] + (actuals[k] - ReservedAmount(reqs, k))) % Word \in 0 .. Word - 1
    <3>1. debt[k] \in 0 .. Word - 1 /\ actuals[k] \in Nat /\ ReservedAmount(reqs, k) \in Nat
      BY <1>1, <1>2, <2>1, TypedParts, ReservedAmountType
    <3> QED
      BY <3>1, <2>1, ConstantsAssumption
  <2>2. debt \in [Key -> 0 .. Word - 1]
    BY TypedParts
  <2> QED
    BY <1>3, <2>1, <2>2 DEF RecordDebt
<1>7. DOMAIN roll' = Key /\ roll' = [k \in Key |-> roll'[k]]
  BY <1>3 DEF ReconcileRolling
<1>8. leases' \in [Lease -> LeaseState \cup {None}] /\ retired' \subseteq Lease /\ UNCHANGED <<defs, states>>
  BY TypedParts DEF Complete
<1> QED
  BY <1>4, <1>5, <1>6, <1>7, <1>8, TypedParts DEF Typed, TypeOK, WellFormed

\* Changing a capacity keeps the stores well typed.
LEMMA CapacityType ==
  /\ \A limit : \A n \in Nat : WellFormed(limit) => WellFormed(RollWithCapacity(limit, n))
  /\ \A limit \in ConcLimit : \A n \in Nat : ConcWithCapacity(limit, n) \in ConcLimit
BY DEF WellFormed, RollingLimit, RollWithCapacity, ConcLimit, ConcWithCapacity

\* ApplyDefinition leaves the state well typed.
LEMMA ApplyTyped ==
  ASSUME Typed, NEW def \in Definition, ApplyDefinition(def)
  PROVE  Typed'
<1>1. def \in LimitDefinition /\ def.key \in Key /\ def.capacity \in Nat
  BY ConstantsAssumption DEF LimitDefinition
<1>2. CASE ApplyIncrease(def)
  <2>1. defs' \in [Key -> LimitDefinition \cup {None}]
    BY <1>1, <1>2, TypedParts DEF ApplyIncrease
  <2>2. states' \in [Key -> LimitState \cup {None}]
    BY <1>1, <1>2, TypedParts DEF ApplyIncrease, LimitState
  <2>3. \A k \in Key : WellFormed(roll'[k])
    BY <1>1, <1>2, TypedParts, CapacityType DEF ApplyIncrease
  <2>4. DOMAIN roll' = Key /\ roll' = [k \in Key |-> roll'[k]]
    BY <1>2, TypedParts DEF ApplyIncrease
  <2>5. conc' \in [Key -> ConcLimit]
    BY <1>1, <1>2, TypedParts, CapacityType DEF ApplyIncrease
  <2>6. UNCHANGED <<debt, leases, retired>>
    BY <1>2 DEF ApplyIncrease
  <2> QED
    BY <2>1, <2>2, <2>3, <2>4, <2>5, <2>6, TypedParts DEF Typed, TypeOK, WellFormed
<1>3. CASE ApplyDecrease(def)
  <2>1. states' \in [Key -> LimitState \cup {None}]
    BY <1>1, <1>3, TypedParts DEF ApplyDecrease, LimitState
  <2> QED
    BY <1>3, <2>1 DEF ApplyDecrease, Typed, TypeOK
<1> QED
  BY <1>2, <1>3 DEF ApplyDefinition

\* The reconciliation of a pending decrease leaves the state well typed.
LEMMA TryApplyTyped ==
  ASSUME Typed, NEW k \in Key, TryApplyDecrease(k)
  PROVE  Typed'
<1>1. 0 \in Nat
  OBVIOUS
<1>2. WellFormed(CleanupRolling(roll[k], 0)) /\ CleanupConcurrency(conc[k], 0) \in ConcLimit
  BY <1>1, TypedParts, CleanupType, CleanupConcType
<1>3. CASE DecreaseWaits(k)
  <2>1. \A j \in Key : WellFormed(roll'[j])
    BY <1>2, <1>3, TypedParts DEF DecreaseWaits, CleanupLocked
  <2>2. DOMAIN roll' = Key /\ roll' = [j \in Key |-> roll'[j]]
    BY <1>3, TypedParts DEF DecreaseWaits, CleanupLocked
  <2>3. conc' \in [Key -> ConcLimit]
    BY <1>2, <1>3, TypedParts DEF DecreaseWaits, CleanupLocked
  <2>4. UNCHANGED <<defs, states, debt, leases, retired>>
    BY <1>3 DEF DecreaseWaits
  <2> QED
    BY <2>1, <2>2, <2>3, <2>4, TypedParts DEF Typed, TypeOK, WellFormed
<1>4. CASE DecreaseApplies(k)
  <2> DEFINE new == [states[k].definition EXCEPT !.capacity = states[k].pending]
  <2>1. states[k] \in LimitState /\ states[k].pending \in Nat \ {0}
    BY <1>4, TypedParts DEF DecreaseApplies, PendingDecrease, Decreasing, LimitState
  <2>2. new \in LimitDefinition /\ new.capacity \in Nat
    BY <2>1 DEF LimitState, LimitDefinition
  <2>3. /\ states' = [states EXCEPT ![k] = [definition |-> new, status |-> "active", pending |-> 0]]
        /\ defs' = [defs EXCEPT ![k] = new]
        /\ roll' = IF new.kind = "rolling"
                   THEN [roll EXCEPT ![k] = RollWithCapacity(CleanupRolling(roll[k], 0), new.capacity)]
                   ELSE roll
        /\ conc' = IF new.kind = "concurrency"
                   THEN [conc EXCEPT ![k] = ConcWithCapacity(CleanupConcurrency(conc[k], 0), new.capacity)]
                   ELSE conc
        /\ UNCHANGED <<debt, leases, retired>>
    BY <1>4 DEF DecreaseApplies
  <2> HIDE DEF new
  <2>4. defs' \in [Key -> LimitDefinition \cup {None}] /\ states' \in [Key -> LimitState \cup {None}]
    BY <2>2, <2>3, TypedParts DEF LimitState
  <2>5. \A j \in Key : WellFormed(roll'[j])
    BY <1>2, <2>2, <2>3, TypedParts, CapacityType
  <2>6. DOMAIN roll' = Key /\ roll' = [j \in Key |-> roll'[j]]
    BY <2>3, TypedParts
  <2>7. conc' \in [Key -> ConcLimit]
    BY <1>2, <2>2, <2>3, TypedParts, CapacityType
  <2> QED
    BY <2>3, <2>4, <2>5, <2>6, <2>7, TypedParts DEF Typed, TypeOK, WellFormed
<1> QED
  BY <1>3, <1>4 DEF TryApplyDecrease

\* Time passing leaves the state well typed.
LEMMA TickTyped == Typed /\ Tick => Typed'
<1> SUFFICES ASSUME Typed, Tick PROVE Typed'
  OBVIOUS
<1>1. \A k \in Key : WellFormed(roll'[k])
  BY TypedParts, AgedType DEF Tick
<1>2. conc' \in [Key -> ConcLimit]
  BY TypedParts, AgedConcType DEF Tick
<1>3. DOMAIN roll' = Key /\ roll' = [k \in Key |-> roll'[k]]
  BY DEF Tick
<1>4. \A n \in Nat : Down(n, 0) \in Nat
  BY DEF Down
<1>5. leases' \in [Lease -> LeaseState \cup {None}]
  BY <1>4, TypedParts DEF Tick, LeaseState
<1> QED
  BY <1>1, <1>2, <1>3, <1>5, TypedParts DEF Tick, Typed, TypeOK, WellFormed

\* Every step keeps the state well typed.
LEMMA NextTyped == Typed /\ [Next]_vars => Typed'
<1> SUFFICES ASSUME Typed, [Next]_vars PROVE Typed'
  OBVIOUS
<1>1. CASE UNCHANGED vars
  BY <1>1 DEF vars, Typed, TypeOK, RollingLimit, ConcLimit
<1>2. CASE \E l \in Lease, reqs \in Request : ReserveRejected(l, reqs)
  BY <1>1, <1>2 DEF ReserveRejected
<1>3. CASE \E l \in Lease, reqs \in Request, lag \in 0 .. MaxLag : ReserveDenied(l, reqs, lag)
  BY <1>3, DeniedTyped
<1>4. CASE \E l \in Lease, reqs \in Request, lag \in 0 .. MaxLag : ReserveGranted(l, reqs, lag)
  BY <1>4, GrantedTyped
<1>5. CASE \E l \in Lease, actuals \in Actuals : Complete(l, actuals)
  BY <1>5, CompleteTyped
<1>6. CASE \E l \in Lease : CompleteUnknown(l)
  BY <1>1, <1>6 DEF CompleteUnknown
<1>7. CASE \E def \in Definition : ApplyDefinition(def)
  BY <1>7, ApplyTyped
<1>8. CASE Tick
  BY <1>8, TickTyped
<1>9. CASE \E k \in Key : TryApplyDecrease(k)
  BY <1>9, TryApplyTyped
<1> QED
  BY <1>1, <1>2, <1>3, <1>4, <1>5, <1>6, <1>7, <1>8, <1>9 DEF Next, ServerNext

\* The maps of the backend keep their types whatever requests arrive: in
\* particular the uint64 counters stay below the word and byID never points
\* outside the heap's reference space.
THEOREM TypeCorrect == Spec => []TypeOK
<1>1. Init => Typed
  BY InitTyped
<1>2. Typed /\ [Next]_vars => Typed'
  BY NextTyped
<1>3. Typed => TypeOK
  BY DEF Typed
<1> QED
  BY <1>1, <1>2, <1>3, PTL DEF Spec
-----------------------------------------------------------------------------
(* Accounting.  The inductive invariant adds to the two properties what    *)
(* their steps need: references are unique, a store's capacity is the one  *)
(* of the definition in force, the state's definition is that definition,  *)
(* an undefined key has empty stores, and kinds do not change.             *)

Booked(k) == UniqueRefs(roll[k].heap) /\ roll[k].used = Weight(roll[k].heap)

Within(k) == /\ roll[k].used <= roll[k].cap
             /\ Cardinality(Held(conc[k])) <= conc[k].cap

Configured(k, kindOf) ==
  /\ defs[k] = None => states[k] = None /\ roll[k].cap = 0 /\ conc[k].cap = 0
  /\ defs[k] # None =>
       /\ states[k] # None /\ states[k].definition = defs[k]
       /\ defs[k].kind = kindOf[k]
       /\ defs[k].kind = "rolling" => roll[k].cap = defs[k].capacity /\ conc[k].cap = 0
       /\ defs[k].kind = "concurrency" => conc[k].cap = defs[k].capacity /\ roll[k].cap = 0
       /\ \A reqs \in Request : \A i \in DOMAIN reqs : defs[k].capacity + reqs[i].amount < Word

Accounted(kindOf) ==
  Typed /\ \A k \in Key : Booked(k) /\ Within(k) /\ Configured(k, kindOf)

\* A kind for each key, as KindStable provides it.
KindMap(kindOf) ==
  /\ kindOf \in [Key -> {"rolling", "concurrency"}]
  /\ \A d \in Definition : d.kind = kindOf[d.key]
  /\ \A p \in Persisted : \A k \in Key : p[k] # None => p[k].definition.kind = kindOf[k]

\* The invariant gives the two properties.
LEMMA AccountedGives ==
  ASSUME NEW kindOf, Accounted(kindOf)
  PROVE  UsedIsExact /\ NeverOverCommitted
<1>1. UsedIsExact
  BY DEF Accounted, Booked, UsedIsExact
<1>2. ASSUME NEW k \in Key, defs[k] # None
      PROVE  Load(k) <= defs[k].capacity
  <2>1. defs[k].kind \in {"rolling", "concurrency"}
    BY <1>2, SpanType DEF Accounted, LimitDefinition
  <2> QED
    BY <1>2, <2>1 DEF Accounted, Booked, Within, Configured, Load, IsConcurrency
<1> QED
  BY <1>1, <1>2 DEF NeverOverCommitted

\* A fresh backend is accounted.
LEMMA InitAccounted ==
  ASSUME NoWrap, NEW kindOf, KindMap(kindOf), Init
  PROVE  Accounted(kindOf)
<1>1. Typed
  BY InitTyped
<1>2. ASSUME NEW k \in Key
      PROVE  Booked(k) /\ Within(k)
  <2>1. roll[k].heap = {} /\ roll[k].used = 0 /\ Held(conc[k]) = {}
    BY DEF Init, NewRollingLimit, NewConcLimit, Held
  <2>2. roll[k].cap \in Nat /\ conc[k].cap \in Nat
    BY <1>1, TypedParts DEF WellFormed, RollingLimit, ConcLimit
  <2>3. Cardinality(Held(conc[k])) = 0
    BY <2>1, FS_EmptySet
  <2> QED
    BY <2>1, <2>2, <2>3, WeightEmpty DEF Booked, Within, UniqueRefs
<1>3. ASSUME NEW k \in Key
      PROVE  Configured(k, kindOf)
  <2>1. roll[k].cap = (IF IsRolling(k) THEN defs[k].capacity ELSE 0)
        /\ conc[k].cap = (IF IsConcurrency(k) THEN defs[k].capacity ELSE 0)
    BY DEF Init, NewRollingLimit, NewConcLimit
  <2>2. states \in Persisted /\ defs[k] = DefinitionIn(states[k])
    BY DEF Init
  <2>3. states[k] # None => states[k].definition # None
    BY <1>1, ConstantsAssumption DEF Typed, TypeOK, LimitState
  <2> QED
    BY <2>1, <2>2, <2>3 DEF Configured, DefinitionIn, IsRolling, IsConcurrency, NoWrap, KindMap
<1> QED
  BY <1>1, <1>2, <1>3 DEF Accounted

\* Cleaning a key, for any stamp, keeps it booked and within capacity.
LEMMA CleanedAccounted ==
  ASSUME NEW kindOf, Accounted(kindOf), NEW k \in Key, NEW lag \in Nat
  PROVE  LET c == CleanupRolling(roll[k], lag)
             d == CleanupConcurrency(conc[k], lag)
         IN  /\ WellFormed(c) /\ c.used = Weight(c.heap) /\ UniqueRefs(c.heap)
             /\ c.used <= roll[k].cap /\ c.cap = roll[k].cap /\ c.used \in Nat
             /\ c.heap \subseteq roll[k].heap
             /\ d \in ConcLimit /\ d.cap = conc[k].cap
             /\ Cardinality(Held(d)) <= conc[k].cap
<1> DEFINE c == CleanupRolling(roll[k], lag)
           d == CleanupConcurrency(conc[k], lag)
<1>1. WellFormed(roll[k]) /\ conc[k] \in ConcLimit /\ Booked(k) /\ Within(k)
  BY TypedParts DEF Accounted
<1>2. WellFormed(c) /\ c.cap = roll[k].cap /\ c.used <= roll[k].used /\ c.heap \subseteq roll[k].heap
  BY <1>1, CleanupType
<1>3. c.used = Weight(c.heap)
  BY <1>1, CleanupExact DEF Booked
<1>4. d \in ConcLimit /\ d.cap = conc[k].cap /\ Held(d) \subseteq Held(conc[k])
  BY <1>1, CleanupConcType
<1>5. Cardinality(Held(d)) <= Cardinality(Held(conc[k])) /\ Cardinality(Held(d)) \in Nat
      /\ Cardinality(Held(conc[k])) \in Nat /\ conc[k].cap \in Nat
  BY <1>1, <1>4, HeldFinite DEF ConcLimit
<1>6. c.used \in Nat /\ roll[k].used \in Nat /\ roll[k].cap \in Nat
  BY <1>1, <1>2, WellFormedWeighable DEF WellFormed, RollingLimit
<1> HIDE DEF c, d
<1>7. UniqueRefs(c.heap)
  BY <1>1, <1>2 DEF UniqueRefs, Booked
<1>8. c.used <= roll[k].cap /\ Cardinality(Held(d)) <= conc[k].cap
  BY <1>1, <1>2, <1>5, <1>6 DEF Within
<1> QED
  BY <1>2, <1>3, <1>4, <1>6, <1>7, <1>8 DEF c, d

\* A denied Reserve only cleans.
LEMMA DeniedAccounted ==
  ASSUME NEW kindOf, Accounted(kindOf),
         NEW l \in Lease, NEW reqs \in Request, NEW lag \in 0 .. MaxLag,
         ReserveDenied(l, reqs, lag)
  PROVE  Accounted(kindOf)'
<1>1. Typed'
  BY DeniedTyped DEF Accounted
<1>2. ASSUME NEW k \in Key
      PROVE  (Booked(k) /\ Within(k) /\ Configured(k, kindOf))'
  <2>1. lag \in Nat
    BY ConstantsAssumption
  <2>2. roll'[k] \in {roll[k], CleanupRolling(roll[k], lag)}
    BY DEF ReserveDenied, CleanRoll
  <2>3. conc'[k] \in {conc[k], CleanupConcurrency(conc[k], lag)}
    BY DEF ReserveDenied, CleanConc
  <2>4. Booked(k)' /\ roll'[k].used <= roll'[k].cap /\ roll'[k].cap = roll[k].cap
    BY <2>1, <2>2, CleanedAccounted DEF Accounted, Booked, Within
  <2>5. Cardinality(Held(conc'[k])) <= conc'[k].cap /\ conc'[k].cap = conc[k].cap
    BY <2>1, <2>3, CleanedAccounted DEF Accounted, Within
  <2> QED
    BY <2>4, <2>5 DEF ReserveDenied, Accounted, Within, Configured, Held
<1> QED
  BY <1>1, <1>2 DEF Accounted

\* A granted Reserve charges what its feasibility check allowed: the check
\* saw the window this step charges, and no wrap-around hid an excess.
LEMMA GrantedAccounted ==
  ASSUME DistinctKeys, NEW kindOf, Accounted(kindOf),
         NEW l \in Lease, NEW reqs \in Request, NEW lag \in 0 .. MaxLag,
         ReserveGranted(l, reqs, lag)
  PROVE  Accounted(kindOf)'
<1> DEFINE slot == CHOOSE s \in FreeSlots : TRUE
<1>1. Typed'
  BY GrantedTyped DEF Accounted
<1>2. lag \in Nat /\ slot \in Slot /\ slot \notin SlotsInUse
  BY ConstantsAssumption DEF ReserveGranted, FreeSlots
<1>charged. \A k \in Key : k \in KeysOf(reqs) /\ IsRolling(k) =>
        roll'[k] = AddRollingReservation(CleanupRolling(roll[k], lag), l, reqs, k,
                                         slot, defs[k].span - lag)
  BY DEF ReserveGranted, CleanRoll
<1> HIDE DEF slot
<1>3. ASSUME NEW k \in Key, k \in KeysOf(reqs), IsRolling(k)
      PROVE  /\ Booked(k)' /\ roll'[k].cap = roll[k].cap
             /\ roll'[k].used <= roll'[k].cap
  <2> DEFINE c == CleanupRolling(roll[k], lag)
             ttl == defs[k].span - lag
             a == AddRollingReservation(c, l, reqs, k, slot, ttl)
  <2>1. roll'[k] = a
    BY <1>3, <1>charged
  <2>2. /\ WellFormed(c) /\ c.used = Weight(c.heap) /\ UniqueRefs(c.heap)
        /\ c.used <= roll[k].cap /\ c.cap = roll[k].cap /\ c.used \in Nat
        /\ c.heap \subseteq roll[k].heap
    BY <1>2, CleanedAccounted
  <2>3. ttl \in Int /\ roll[k].cap = defs[k].capacity /\ defs[k].capacity \in Nat
    BY <1>3, <1>2, SpanType DEF Accounted, Configured, IsRolling
  <2>4. \A e \in c.heap : e.ref[1] # slot
    BY <1>2, <2>2 DEF SlotsInUse
  <2>5. \A i \in DOMAIN reqs : reqs[i].amount \in Nat /\ defs[k].capacity + reqs[i].amount < Word
    <3>1. \A i \in DOMAIN reqs : reqs[i] \in Requirement
      BY ConstantsAssumption
    <3> QED
      BY <1>3, <3>1 DEF Accounted, Configured, IsRolling, Requirement
  <2>6. \A i \in DOMAIN reqs : c.used + reqs[i].amount < Word
    BY <2>2, <2>3, <2>5, ConstantsAssumption
  <2>7. \A i \in DOMAIN reqs : reqs[i].key = k => (c.used + reqs[i].amount) % Word <= roll[k].cap
    BY <1>3 DEF ReserveGranted, Fits
  <2> HIDE DEF c, ttl
  <2>8. /\ a.used = Weight(a.heap) /\ UniqueRefs(a.heap)
        /\ \E i \in DOMAIN reqs : reqs[i].key = k /\ a.used = c.used + reqs[i].amount
    <3>1. \A i \in DOMAIN reqs : reqs[i].key = k => c.used + reqs[i].amount < Word
      BY <2>6
    <3>2. k \in KeysOf(reqs) /\ slot \in Slot /\ ttl \in Int
      BY <1>2, <1>3, <2>3
    <3> QED
      BY <2>2, <2>4, <3>1, <3>2, AddExact
  <2>9. a.cap = c.cap
    BY DEF AddRollingReservation
  <2> HIDE DEF a
  <2>10. a.used <= a.cap
    <3>1. PICK i \in DOMAIN reqs : reqs[i].key = k /\ a.used = c.used + reqs[i].amount
      BY <2>8
    <3>2. a.used \in Nat /\ a.used < Word
      BY <2>2, <2>5, <2>6, <3>1
    <3>3. a.used % Word = a.used
      <4> DEFINE x == a.used
      <4> HIDE DEF x
      <4>1. x \in Nat /\ x < Word => x % Word = x
        BY ConstantsAssumption
      <4> QED
        BY <3>2, <4>1 DEF x
    <3> QED
      BY <2>2, <2>7, <2>9, <3>1, <3>3
  <2> QED
    BY <2>1, <2>2, <2>8, <2>9, <2>10 DEF Booked
<1>4. ASSUME NEW k \in Key, k \in KeysOf(reqs), IsConcurrency(k)
      PROVE  conc'[k].cap = conc[k].cap /\ Cardinality(Held(conc'[k])) <= conc'[k].cap
  <2> DEFINE d == CleanupConcurrency(conc[k], lag)
             ttl == defs[k].span - lag
  <2>1. conc'[k] = AddConcurrencyHold(d, l, ttl)
    BY <1>4 DEF ReserveGranted, CleanConc
  <2>2. d \in ConcLimit /\ d.cap = conc[k].cap
    BY <1>2, CleanedAccounted
  <2>3. ttl \in Int
    BY <1>4, <1>2, SpanType DEF Accounted, IsConcurrency
  <2>4. Cardinality(Held(d)) + 1 <= conc[k].cap
    <3>1. PICK i \in DOMAIN reqs : reqs[i].key = k
      BY <1>4 DEF KeysOf
    <3> QED
      BY <1>4, <3>1 DEF ReserveGranted, Fits
  <2> HIDE DEF d, ttl
  <2>5. conc'[k].cap = d.cap /\ Held(conc'[k]) = Held(d) \cup {l}
    BY <2>1, <2>2, <2>3, AddHoldType
  <2>6. Cardinality(Held(d) \cup {l}) <= Cardinality(Held(d)) + 1 /\ Cardinality(Held(d)) \in Nat
        /\ Cardinality(Held(d) \cup {l}) \in Nat
    <3>1. IsFiniteSet(Held(d)) /\ Cardinality(Held(d)) \in Nat
      BY HeldFinite
    <3>2. IsFiniteSet(Held(d) \cup {l})
          /\ (Cardinality(Held(d) \cup {l}) = Cardinality(Held(d))
              \/ Cardinality(Held(d) \cup {l}) = Cardinality(Held(d)) + 1)
      BY <3>1, FS_AddElement
    <3> QED
      BY <3>1, <3>2
  <2>7. conc[k].cap \in Nat
    BY TypedParts DEF Accounted, ConcLimit
  <2> QED
    BY <2>2, <2>4, <2>5, <2>6, <2>7
<1>5. ASSUME NEW k \in Key
      PROVE  (Booked(k) /\ Within(k) /\ Configured(k, kindOf))'
  <2>1. Booked(k)' /\ roll'[k].cap = roll[k].cap /\ roll'[k].used <= roll'[k].cap
    <3>1. CASE k \in KeysOf(reqs) /\ IsRolling(k)
      BY <1>3, <3>1
    <3>2. CASE ~(k \in KeysOf(reqs) /\ IsRolling(k))
      <4>1. roll'[k] = roll[k]
        BY <3>2 DEF ReserveGranted
      <4> QED
        BY <4>1 DEF Accounted, Booked, Within
    <3> QED
      BY <3>1, <3>2
  <2>2. conc'[k].cap = conc[k].cap /\ Cardinality(Held(conc'[k])) <= conc'[k].cap
    <3>1. CASE k \in KeysOf(reqs) /\ IsConcurrency(k)
      BY <1>4, <3>1
    <3>2. CASE ~(k \in KeysOf(reqs) /\ IsConcurrency(k))
      <4>1. conc'[k] = conc[k]
        BY <3>2 DEF ReserveGranted
      <4> QED
        BY <4>1 DEF Accounted, Within
    <3> QED
      BY <3>1, <3>2
  <2>3. UNCHANGED <<defs, states>>
    BY DEF ReserveGranted
  <2> QED
    BY <2>1, <2>2, <2>3 DEF Accounted, Within, Configured, Held
<1> QED
  BY <1>1, <1>5 DEF Accounted

\* Complete takes what was not used off the counter and off the reservation
\* alike, and only removes holds.
LEMMA CompleteAccounted ==
  ASSUME NEW kindOf, Accounted(kindOf),
         NEW l \in Lease, NEW actuals \in Actuals, Complete(l, actuals)
  PROVE  Accounted(kindOf)'
<1> DEFINE reqs == leases[l].requirements
<1>1. Typed'
  BY CompleteTyped DEF Accounted
<1>2. roll' = ReconcileRolling(l, reqs, actuals) /\ conc' = ReleaseHolds(l, reqs) /\ UNCHANGED <<defs, states>>
  BY DEF Complete
<1> HIDE DEF reqs
<1>3. \A k \in DOMAIN actuals : actuals[k] \in Nat
  BY ConstantsAssumption
<1>4. ASSUME NEW k \in Key
      PROVE  (Booked(k) /\ Within(k) /\ Configured(k, kindOf))'
  <2>1. WellFormed(roll[k]) /\ Booked(k) /\ Within(k) /\ conc[k] \in ConcLimit
        /\ roll[k].used \in Nat /\ roll[k].cap \in Nat /\ conc[k].cap \in Nat
    BY TypedParts, WellFormedWeighable DEF Accounted, WellFormed, RollingLimit, ConcLimit
  <2>2. Booked(k)' /\ roll'[k].cap = roll[k].cap /\ roll'[k].used <= roll'[k].cap
    <3>1. CASE roll'[k] = roll[k]
      BY <2>1, <3>1 DEF Booked, Within
    <3>2. CASE k \in DOMAIN actuals /\ roll'[k] = ReduceRollingReservation(roll[k], l, actuals[k])
      <4> DEFINE r == ReduceRollingReservation(roll[k], l, actuals[k])
      <4>1. WellFormed(r) /\ r.cap = roll[k].cap /\ r.used <= roll[k].used
        BY <1>3, <2>1, <3>2, ReduceType
      <4>2. r.used = Weight(r.heap) /\ UniqueRefs(r.heap)
        BY <1>3, <2>1, <3>2, ReduceExact DEF Booked
      <4>3. r.used \in Nat
        BY <4>1, WellFormedWeighable
      <4> HIDE DEF r
      <4> QED
        BY <2>1, <3>2, <4>1, <4>2, <4>3 DEF Booked, Within, r
    <3> QED
      BY <1>2, <3>1, <3>2 DEF ReconcileRolling
  <2>3. conc'[k].cap = conc[k].cap /\ Cardinality(Held(conc'[k])) <= conc'[k].cap
    <3>1. conc'[k] \in {conc[k], DropHold(conc[k], l)}
      BY <1>2 DEF ReleaseHolds
    <3>2. conc'[k].cap = conc[k].cap /\ Held(conc'[k]) \subseteq Held(conc[k])
      BY <2>1, <3>1, DropHoldType
    <3>3. Cardinality(Held(conc'[k])) <= Cardinality(Held(conc[k]))
          /\ Cardinality(Held(conc'[k])) \in Nat /\ Cardinality(Held(conc[k])) \in Nat
      BY <3>2, HeldFinite
    <3> QED
      BY <2>1, <3>2, <3>3 DEF Within
  <2> QED
    BY <1>2, <2>2, <2>3 DEF Accounted, Within, Configured, Held
<1> QED
  BY <1>1, <1>4 DEF Accounted

\* ApplyDefinition: a capacity that grows keeps the load within it, and a
\* smaller one is not in force yet.
LEMMA ApplyAccounted ==
  ASSUME NoWrap, NEW kindOf, KindMap(kindOf), Accounted(kindOf),
         NEW def \in Definition, ApplyDefinition(def)
  PROVE  Accounted(kindOf)'
<1>1. Typed'
  BY ApplyTyped DEF Accounted
<1>2. def \in LimitDefinition /\ def.key \in Key /\ def.capacity \in Nat
      /\ def.kind \in {"rolling", "concurrency"} /\ def.kind = kindOf[def.key] /\ def # None
  BY ConstantsAssumption DEF LimitDefinition, KindMap
<1>3. \A reqs \in Request : \A i \in DOMAIN reqs : def.capacity + reqs[i].amount < Word
  BY DEF NoWrap
<1>4. ASSUME NEW k \in Key
      PROVE  (Booked(k) /\ Within(k) /\ Configured(k, kindOf))'
  <2>1. /\ Booked(k) /\ Within(k) /\ Configured(k, kindOf) /\ WellFormed(roll[k])
        /\ conc[k] \in ConcLimit /\ roll[k].used \in Nat /\ Cardinality(Held(conc[k])) \in Nat
        /\ roll[k].cap \in Nat /\ conc[k].cap \in Nat
    BY TypedParts, WellFormedWeighable, HeldFinite
       DEF Accounted, WellFormed, RollingLimit, ConcLimit
  <2>2. CASE ApplyDecrease(def)
    <3>1. roll' = roll /\ conc' = conc /\ defs' = defs
          /\ (states'[k] = states[k] \/ (defs[k] # None /\ states'[k] # None
                                         /\ states'[k].definition = defs[k]))
      <4>1. states' = [states EXCEPT ![def.key] =
                         [definition |-> defs[def.key], status |-> "decreasing",
                          pending |-> def.capacity]]
            /\ defs[def.key] # None /\ UNCHANGED <<defs, roll, conc>>
        BY <2>2 DEF ApplyDecrease
      <4>2. defs[def.key] \in LimitDefinition
        BY <1>2, <4>1, SpanType DEF Accounted
      <4>3. [definition |-> defs[def.key], status |-> "decreasing", pending |-> def.capacity]
              \in LimitState
        BY <1>2, <4>2 DEF LimitState
      <4>4. states \in [Key -> LimitState \cup {None}] /\ None \notin LimitState
        BY TypedParts, ConstantsAssumption DEF Accounted
      <4> QED
        BY <4>1, <4>3, <4>4
    <3> QED
      BY <2>1, <3>1 DEF Booked, Within, Configured, Held
  <2>3. CASE ApplyIncrease(def) /\ k # def.key
    <3>1. defs'[k] = defs[k] /\ states'[k] = states[k] /\ roll'[k] = roll[k] /\ conc'[k] = conc[k]
      BY <1>2, <2>3, TypedParts DEF ApplyIncrease, Accounted
    <3> QED
      BY <2>1, <3>1 DEF Booked, Within, Configured, Held
  <2>4. CASE ApplyIncrease(def) /\ k = def.key
    <3> DEFINE st == [definition |-> def, status |-> "active", pending |-> 0]
    <3>1. defs'[k] = def /\ states'[k] = st
      BY <1>2, <2>4, TypedParts DEF ApplyIncrease, Accounted
    <3>2. st # None /\ st.definition = def
      BY <1>2, ConstantsAssumption DEF LimitState
    <3>3. defs[k] # None => def.capacity >= defs[k].capacity /\ defs[k].kind = def.kind
                            /\ defs[k].capacity \in Nat
      BY <1>2, <2>1, <2>4, SpanType DEF ApplyIncrease, Configured, Accounted
    <3>4. roll'[k].heap = roll[k].heap /\ roll'[k].used = roll[k].used
          /\ roll'[k].cap = (IF def.kind = "rolling" THEN def.capacity ELSE roll[k].cap)
      BY <1>2, <2>4, TypedParts DEF ApplyIncrease, Accounted, RollWithCapacity
    <3>5. conc'[k].holds = conc[k].holds
          /\ conc'[k].cap = (IF def.kind = "concurrency" THEN def.capacity ELSE conc[k].cap)
      BY <1>2, <2>4, TypedParts DEF ApplyIncrease, Accounted, ConcWithCapacity
    <3>6. def.kind = "rolling" => roll[k].cap <= def.capacity /\ conc[k].cap = 0
      BY <1>2, <2>1, <3>3 DEF Configured
    <3>7. def.kind = "concurrency" => conc[k].cap <= def.capacity /\ roll[k].cap = 0
      BY <1>2, <2>1, <3>3 DEF Configured
    <3>8. Booked(k)'
      BY <2>1, <3>4 DEF Booked
    <3>9. Within(k)'
      <4>1. Held(conc'[k]) = Held(conc[k])
        BY <3>5 DEF Held
      <4>2. Cardinality(Held(conc'[k])) = Cardinality(Held(conc[k]))
        BY <4>1
      <4> DEFINE n == Cardinality(Held(conc[k]))
      <4>3. n \in Nat /\ n <= conc[k].cap /\ roll[k].used <= roll[k].cap
        BY <2>1 DEF Within
      <4> HIDE DEF n
      <4>4. roll'[k].used <= roll'[k].cap /\ n <= conc'[k].cap
        BY <1>2, <2>1, <3>4, <3>5, <3>6, <3>7, <4>3
      <4> QED
        BY <4>2, <4>4 DEF Within, Held, n
    <3> HIDE DEF st
    <3>10. Configured(k, kindOf)'
      BY <1>2, <1>3, <2>4, <3>1, <3>2, <3>4, <3>5, <3>6, <3>7 DEF Configured
    <3> QED
      BY <3>8, <3>9, <3>10
  <2> QED
    BY <2>2, <2>3, <2>4 DEF ApplyDefinition
<1> QED
  BY <1>1, <1>4 DEF Accounted

\* The reconciliation lowers a capacity only when that much is free.
LEMMA TryApplyAccounted ==
  ASSUME NEW kindOf, Accounted(kindOf), NEW key \in Key, TryApplyDecrease(key)
  PROVE  Accounted(kindOf)'
<1>1. Typed'
  BY TryApplyTyped DEF Accounted
<1>2. CASE DecreaseWaits(key)
  <2>1. ASSUME NEW k \in Key
        PROVE  (Booked(k) /\ Within(k) /\ Configured(k, kindOf))'
    <3>1. roll'[k] \in {roll[k], CleanupRolling(roll[k], 0)}
      BY <1>2, TypedParts DEF DecreaseWaits, CleanupLocked, Accounted
    <3>2. conc'[k] \in {conc[k], CleanupConcurrency(conc[k], 0)}
      BY <1>2, TypedParts DEF DecreaseWaits, CleanupLocked, Accounted
    <3>3. Booked(k)' /\ roll'[k].used <= roll'[k].cap /\ roll'[k].cap = roll[k].cap
      BY <3>1, CleanedAccounted DEF Accounted, Booked, Within
    <3>4. Cardinality(Held(conc'[k])) <= conc'[k].cap /\ conc'[k].cap = conc[k].cap
      BY <3>2, CleanedAccounted DEF Accounted, Within
    <3>5. UNCHANGED <<defs, states>>
      BY <1>2 DEF DecreaseWaits
    <3> QED
      BY <3>3, <3>4, <3>5 DEF Accounted, Within, Configured, Held
  <2> QED
    BY <1>1, <2>1 DEF Accounted
<1>3. CASE DecreaseApplies(key)
  <2> DEFINE old == states[key].definition
             n == states[key].pending
             new == [old EXCEPT !.capacity = n]
             c == CleanupRolling(roll[key], 0)
             d == CleanupConcurrency(conc[key], 0)
             st == [definition |-> new, status |-> "active", pending |-> 0]
  <2>1. states[key] \in LimitState /\ n \in Nat \ {0} /\ n < old.capacity
    BY <1>3, TypedParts DEF DecreaseApplies, PendingDecrease, Decreasing, LimitState, Accounted
  <2>2. /\ old \in LimitDefinition /\ new \in LimitDefinition /\ new.capacity = n
        /\ new.kind = old.kind /\ old.capacity \in Nat /\ old.kind \in {"rolling", "concurrency"}
    BY <2>1 DEF LimitState, LimitDefinition
  <2>3. /\ defs[key] = old /\ old.kind = kindOf[key]
        /\ old.kind = "rolling" => roll[key].cap = old.capacity /\ conc[key].cap = 0
        /\ old.kind = "concurrency" => conc[key].cap = old.capacity /\ roll[key].cap = 0
        /\ \A reqs \in Request : \A i \in DOMAIN reqs : old.capacity + reqs[i].amount < Word
    <3>1. states[key] # None
      BY <2>1, ConstantsAssumption
    <3>2. defs[key] # None
      BY <3>1 DEF Accounted, Configured
    <3> QED
      BY <3>2 DEF Accounted, Configured
  <2>4. /\ states' = [states EXCEPT ![key] = st]
        /\ defs' = [defs EXCEPT ![key] = new]
        /\ roll' = IF new.kind = "rolling"
                   THEN [roll EXCEPT ![key] = RollWithCapacity(c, n)] ELSE roll
        /\ conc' = IF new.kind = "concurrency"
                   THEN [conc EXCEPT ![key] = ConcWithCapacity(d, n)] ELSE conc
        /\ AvailableCapacity(key, old) >= old.capacity - n
    BY <1>3, <2>2 DEF DecreaseApplies
  <2>5. /\ c.used = Weight(c.heap) /\ UniqueRefs(c.heap)
        /\ c.used <= roll[key].cap /\ c.used \in Nat
        /\ Cardinality(Held(d)) <= conc[key].cap /\ Cardinality(Held(d)) \in Nat
    BY CleanedAccounted, HeldFinite
  <2>6. old.kind = "rolling" => Monus(roll[key].cap, c.used) >= old.capacity - n
    BY <2>4 DEF AvailableCapacity
  <2>7. old.kind = "concurrency" =>
          Monus(conc[key].cap, Cardinality(Held(d))) >= old.capacity - n
    BY <2>4, <2>2 DEF AvailableCapacity
  <2>8. st # None /\ st.definition = new /\ new # None
    <3>1. new \in LimitDefinition
      BY <2>2
    <3> HIDE DEF new
    <3>2. st \in LimitState /\ st.definition = new
      BY <3>1 DEF LimitState
    <3> HIDE DEF st
    <3> QED
      BY <3>1, <3>2, ConstantsAssumption
  <2> HIDE DEF old, n, new, c, d, st
  <2>9. old.kind = "rolling" => c.used <= n
    BY <2>1, <2>2, <2>3, <2>5, <2>6 DEF Monus
  <2>10. old.kind = "concurrency" => Cardinality(Held(d)) <= n
    BY <2>1, <2>2, <2>3, <2>5, <2>7 DEF Monus
  <2>11. \A reqs \in Request : \A i \in DOMAIN reqs : n + reqs[i].amount < Word
    <3>1. \A reqs \in Request : \A i \in DOMAIN reqs : reqs[i] \in Requirement
      BY ConstantsAssumption
    <3> QED
      BY <2>1, <2>2, <2>3, <3>1, ConstantsAssumption DEF Requirement
  <2>12. ASSUME NEW k \in Key
         PROVE  (Booked(k) /\ Within(k) /\ Configured(k, kindOf))'
    <3>1. CASE k # key
      <4>1. defs'[k] = defs[k] /\ states'[k] = states[k] /\ roll'[k] = roll[k] /\ conc'[k] = conc[k]
        BY <2>4, <3>1, TypedParts DEF Accounted
      <4> QED
        BY <4>1 DEF Accounted, Booked, Within, Configured, Held
    <3>2. CASE k = key /\ old.kind = "rolling"
      <4>1. defs'[k] = new /\ states'[k] = st /\ roll'[k] = RollWithCapacity(c, n) /\ conc'[k] = conc[k]
        BY <2>2, <2>4, <3>2, TypedParts DEF Accounted
      <4>2. roll'[k].heap = c.heap /\ roll'[k].used = c.used /\ roll'[k].cap = n
        BY <4>1 DEF RollWithCapacity
      <4>3. Booked(k)'
        BY <2>5, <4>2 DEF Booked
      <4>4. Within(k)'
        BY <2>9, <3>2, <4>1, <4>2 DEF Within, Accounted, Held
      <4>5. Configured(k, kindOf)'
        BY <2>2, <2>3, <2>8, <2>11, <3>2, <4>1, <4>2 DEF Configured
      <4> QED
        BY <4>3, <4>4, <4>5
    <3>3. CASE k = key /\ old.kind = "concurrency"
      <4>1. defs'[k] = new /\ states'[k] = st /\ roll'[k] = roll[k] /\ conc'[k] = ConcWithCapacity(d, n)
        BY <2>2, <2>4, <3>3, TypedParts DEF Accounted
      <4>2. conc'[k].holds = d.holds /\ conc'[k].cap = n
        BY <4>1 DEF ConcWithCapacity
      <4>3. Booked(k)'
        BY <4>1 DEF Booked, Accounted
      <4>4. Within(k)'
        <5>1. Held(conc'[k]) = Held(d)
          BY <4>2 DEF Held
        <5> QED
          BY <2>10, <3>3, <4>1, <4>2, <5>1 DEF Within, Accounted, Held
      <4>5. Configured(k, kindOf)'
        BY <2>2, <2>3, <2>8, <2>11, <3>3, <4>1, <4>2 DEF Configured
      <4> QED
        BY <4>3, <4>4, <4>5
    <3> QED
      BY <2>2, <3>1, <3>2, <3>3
  <2> QED
    BY <1>1, <2>12 DEF Accounted
<1> QED
  BY <1>2, <1>3 DEF TryApplyDecrease

\* Time passing changes no sum and no count.
LEMMA TickAccounted ==
  ASSUME NEW kindOf, Accounted(kindOf), Tick
  PROVE  Accounted(kindOf)'
<1>1. Typed'
  BY TickTyped DEF Accounted
<1>2. ASSUME NEW k \in Key
      PROVE  (Booked(k) /\ Within(k) /\ Configured(k, kindOf))'
  <2>1. WellFormed(roll[k]) /\ conc[k] \in ConcLimit /\ Booked(k) /\ Within(k) /\ Configured(k, kindOf)
    BY TypedParts DEF Accounted
  <2>2. roll'[k] = AgedRolling(roll[k]) /\ conc'[k] = AgedConc(conc[k]) /\ UNCHANGED <<defs, states>>
    BY DEF Tick
  <2>3. Weight(roll'[k].heap) = Weight(roll[k].heap) /\ UniqueRefs(roll'[k].heap)
    BY <2>1, <2>2, AgedExact DEF Booked
  <2>4. roll'[k].used = roll[k].used /\ roll'[k].cap = roll[k].cap
    BY <2>2 DEF AgedRolling
  <2>5. conc'[k].cap = conc[k].cap /\ Held(conc'[k]) = Held(conc[k])
    BY <2>1, <2>2, AgedConcType
  <2>6. Booked(k)'
    BY <2>1, <2>3, <2>4 DEF Booked
  <2>7. Within(k)'
    BY <2>1, <2>4, <2>5 DEF Within, Held
  <2> QED
    BY <2>1, <2>2, <2>4, <2>5, <2>6, <2>7 DEF Configured
<1> QED
  BY <1>1, <1>2 DEF Accounted

\* Every step keeps the books.
LEMMA NextAccounted ==
  ASSUME DistinctKeys, NoWrap, NEW kindOf, KindMap(kindOf), Accounted(kindOf), [Next]_vars
  PROVE  Accounted(kindOf)'
<1>1. CASE UNCHANGED vars
  BY <1>1 DEF vars, Accounted, Typed, TypeOK, Booked, Within, Configured, Held
<1>2. CASE \E l \in Lease, reqs \in Request : ReserveRejected(l, reqs)
  BY <1>1, <1>2 DEF ReserveRejected
<1>3. CASE \E l \in Lease, reqs \in Request, lag \in 0 .. MaxLag : ReserveDenied(l, reqs, lag)
  BY <1>3, DeniedAccounted
<1>4. CASE \E l \in Lease, reqs \in Request, lag \in 0 .. MaxLag : ReserveGranted(l, reqs, lag)
  BY <1>4, GrantedAccounted
<1>5. CASE \E l \in Lease, actuals \in Actuals : Complete(l, actuals)
  BY <1>5, CompleteAccounted
<1>6. CASE \E l \in Lease : CompleteUnknown(l)
  BY <1>1, <1>6 DEF CompleteUnknown
<1>7. CASE \E def \in Definition : ApplyDefinition(def)
  BY <1>7, ApplyAccounted
<1>8. CASE Tick
  BY <1>8, TickAccounted
<1>9. CASE \E k \in Key : TryApplyDecrease(k)
  BY <1>9, TryApplyAccounted
<1> QED
  BY <1>1, <1>2, <1>3, <1>4, <1>5, <1>6, <1>7, <1>8, <1>9 DEF Next, ServerNext

\* For every set of keys, leases, requests and definitions, and every clock
\* lag and order of Reserve, Complete, ApplyDefinition, reconciliation and
\* expiry: the used counter is the sum of the live reservations, and no limit
\* is ever over its capacity.  The three hypotheses are what the code relies
\* on and does not check itself.
THEOREM Accounting ==
  ASSUME DistinctKeys, NoWrap, KindStable
  PROVE  Spec => [](UsedIsExact /\ NeverOverCommitted)
<1>1. PICK kindOf : KindMap(kindOf)
  BY DEF KindStable, KindMap
<1>2. Init => Accounted(kindOf)
  BY <1>1, InitAccounted
<1>3. Accounted(kindOf) /\ [Next]_vars => Accounted(kindOf)'
  BY <1>1, NextAccounted
<1>4. Accounted(kindOf) => UsedIsExact /\ NeverOverCommitted
  BY AccountedGives
<1> QED
  BY <1>2, <1>3, <1>4, PTL DEF Spec

-----------------------------------------------------------------------------
(* MemoryBackend implements Limiter: every operation of the backend is a   *)
(* release, a grant or a resize of the abstract limiter, or leaves its     *)
(* loads and capacities alone.  Then, what the backend promises a lease: a *)
(* retry charges nothing, and what it was granted stays its own for as     *)
(* long as it was granted.                                                 *)

\* With exact books a key's load is the counter, or the number of holds, and
\* never more than the capacity.
LoadBooked(k) ==
  /\ IsConcurrency(k) => Load(k) = Cardinality(Held(conc[k])) /\ Capacity(k) = conc[k].cap
  /\ ~IsConcurrency(k) => Load(k) = roll[k].used /\ Capacity(k) = roll[k].cap
  /\ Load(k) \in Nat /\ Capacity(k) \in Nat /\ Load(k) <= Capacity(k)

LEMMA LoadIs ==
  ASSUME NEW kindOf
  PROVE  Accounted(kindOf) => \A k \in Key : LoadBooked(k)
<1> SUFFICES ASSUME Accounted(kindOf), NEW k \in Key PROVE LoadBooked(k)
  OBVIOUS
<1>1. WellFormed(roll[k]) /\ Booked(k) /\ Within(k) /\ conc[k] \in ConcLimit
      /\ roll[k].used \in Nat /\ roll[k].cap \in Nat /\ conc[k].cap \in Nat
  BY TypedParts, WellFormedWeighable DEF Accounted, WellFormed, RollingLimit, ConcLimit
<1>2. Cardinality(Held(conc[k])) \in Nat
  BY HeldFinite
<1> QED
  BY <1>1, <1>2 DEF LoadBooked, Load, Capacity, Booked, Within

\* The same of the next state.
LEMMA LoadWillBe ==
  ASSUME NEW kindOf
  PROVE  Accounted(kindOf)' => (\A k \in Key : LoadBooked(k))'
<1>1. Accounted(kindOf) => \A k \in Key : LoadBooked(k)
  BY LoadIs
<1> QED
  BY <1>1, PTL

\* A key's load and capacity before and after a step.
LEMMA LoadsOf ==
  ASSUME NEW kindOf, Accounted(kindOf), Accounted(kindOf)', NEW k \in Key
  PROVE  /\ IsConcurrency(k) => Load(k) = Cardinality(Held(conc[k])) /\ Capacity(k) = conc[k].cap
         /\ ~IsConcurrency(k) => Load(k) = roll[k].used /\ Capacity(k) = roll[k].cap
         /\ IsConcurrency(k)' =>
              Load(k)' = Cardinality(Held(conc'[k])) /\ Capacity(k)' = conc'[k].cap
         /\ ~IsConcurrency(k)' => Load(k)' = roll'[k].used /\ Capacity(k)' = roll'[k].cap
         /\ Load(k) \in Nat /\ Capacity(k) \in Nat /\ Load(k) <= Capacity(k)
         /\ Load(k)' \in Nat /\ Capacity(k)' \in Nat /\ Load(k)' <= Capacity(k)'
<1>1. LoadBooked(k) /\ LoadBooked(k)'
  BY LoadIs, LoadWillBe
<1> QED
  BY <1>1 DEF LoadBooked, Held

\* A step that raises no load and moves no capacity is a Release.
LEMMA ReleaseStep ==
  ASSUME UNCHANGED defs,
         \A k \in Key : Load(k)' \in 0 .. Load(k),
         \A k \in Key : Capacity(k)' = Capacity(k)
  PROVE  Lim!Release
BY DEF Lim!Release, Lim!Shrinks, IsConcurrency

\* The initial backend carries no load.
LEMMA InitImplements ==
  ASSUME NEW kindOf, Accounted(kindOf), Init
  PROVE  Lim!Init
<1>1. ASSUME NEW k \in Key
      PROVE  Load(k) = 0 /\ Capacity(k) \in Nat
  <2>1. roll[k].heap = {} /\ Held(conc[k]) = {}
    BY DEF Init, NewRollingLimit, NewConcLimit, Held
  <2> QED
    BY <2>1, LoadIs, WeightEmpty, FS_EmptySet DEF Load, LoadBooked
<1> QED
  BY <1>1 DEF Lim!Init

\* The load that cleanup leaves.
LEMMA CleanupReleases ==
  ASSUME NEW kindOf, Accounted(kindOf), Accounted(kindOf)', UNCHANGED defs, NEW lag \in Nat,
         \A k \in Key : roll'[k] \in {roll[k], CleanupRolling(roll[k], lag)},
         \A k \in Key : conc'[k] \in {conc[k], CleanupConcurrency(conc[k], lag)}
  PROVE  Lim!Release
<1>1. ASSUME NEW k \in Key
      PROVE  Load(k)' \in 0 .. Load(k) /\ Capacity(k)' = Capacity(k)
  <2>1. WellFormed(roll[k]) /\ conc[k] \in ConcLimit /\ roll[k].used \in Nat
    BY TypedParts, WellFormedWeighable DEF Accounted
  <2>2. roll'[k].used <= roll[k].used /\ roll'[k].cap = roll[k].cap
    BY <2>1, CleanupType
  <2>3. Held(conc'[k]) \subseteq Held(conc[k]) /\ conc'[k].cap = conc[k].cap
    BY <2>1, CleanupConcType
  <2>4. Cardinality(Held(conc'[k])) <= Cardinality(Held(conc[k]))
    BY <2>3, HeldFinite
  <2>5. IsConcurrency(k)' <=> IsConcurrency(k)
    BY DEF IsConcurrency
  <2> QED
    BY <2>2, <2>3, <2>4, <2>5, LoadsOf
<1> QED
  BY <1>1, ReleaseStep

\* Complete gives back what was not used, and the hold.
LEMMA CompleteReleases ==
  ASSUME NEW kindOf, Accounted(kindOf), Accounted(kindOf)',
         NEW l \in Lease, NEW actuals \in Actuals, Complete(l, actuals)
  PROVE  Lim!Release
<1> DEFINE reqs == leases[l].requirements
<1>1. roll' = ReconcileRolling(l, reqs, actuals) /\ conc' = ReleaseHolds(l, reqs) /\ UNCHANGED defs
  BY DEF Complete
<1> HIDE DEF reqs
<1>2. \A k \in DOMAIN actuals : actuals[k] \in Nat
  BY ConstantsAssumption
<1>3. ASSUME NEW k \in Key
      PROVE  Load(k)' \in 0 .. Load(k) /\ Capacity(k)' = Capacity(k)
  <2>1. WellFormed(roll[k]) /\ conc[k] \in ConcLimit /\ roll[k].used \in Nat
    BY TypedParts, WellFormedWeighable DEF Accounted
  <2>2. roll'[k].used <= roll[k].used /\ roll'[k].cap = roll[k].cap
    <3>1. \/ roll'[k] = roll[k]
          \/ k \in DOMAIN actuals /\ roll'[k] = ReduceRollingReservation(roll[k], l, actuals[k])
      BY <1>1 DEF ReconcileRolling
    <3> QED
      BY <1>2, <2>1, <3>1, ReduceType
  <2>3. Held(conc'[k]) \subseteq Held(conc[k]) /\ conc'[k].cap = conc[k].cap
    <3>1. conc'[k] \in {conc[k], DropHold(conc[k], l)}
      BY <1>1 DEF ReleaseHolds
    <3> QED
      BY <2>1, <3>1, DropHoldType
  <2>4. Cardinality(Held(conc'[k])) <= Cardinality(Held(conc[k]))
    BY <2>3, HeldFinite
  <2>5. IsConcurrency(k)' <=> IsConcurrency(k)
    BY <1>1 DEF IsConcurrency
  <2> QED
    BY <2>2, <2>3, <2>4, <2>5, LoadsOf
<1> QED
  BY <1>1, <1>3, ReleaseStep

\* Time alone changes no load: an expired charge counts until a cleanup.
LEMMA TickReleases ==
  ASSUME NEW kindOf, Accounted(kindOf), Accounted(kindOf)', Tick
  PROVE  Lim!Release
<1>1. ASSUME NEW k \in Key
      PROVE  Load(k)' \in 0 .. Load(k) /\ Capacity(k)' = Capacity(k)
  <2>1. conc[k] \in ConcLimit
    BY TypedParts DEF Accounted
  <2>2. roll'[k] = AgedRolling(roll[k]) /\ conc'[k] = AgedConc(conc[k])
    BY DEF Tick
  <2>3. roll'[k].used = roll[k].used /\ roll'[k].cap = roll[k].cap
    BY <2>2 DEF AgedRolling
  <2>4. Held(conc'[k]) = Held(conc[k]) /\ conc'[k].cap = conc[k].cap
    BY <2>1, <2>2, AgedConcType
  <2>5. IsConcurrency(k)' <=> IsConcurrency(k)
    BY DEF IsConcurrency, Tick
  <2> QED
    BY <2>3, <2>4, <2>5, LoadsOf
<1> QED
  BY <1>1, ReleaseStep DEF Tick

\* A denied Reserve is a cleanup of its keys.
LEMMA DeniedReleases ==
  ASSUME NEW kindOf, Accounted(kindOf), Accounted(kindOf)',
         NEW l \in Lease, NEW reqs \in Request, NEW lag \in 0 .. MaxLag,
         ReserveDenied(l, reqs, lag)
  PROVE  Lim!Release
<1>1. lag \in Nat
  BY ConstantsAssumption
<1>2. \A k \in Key : roll'[k] \in {roll[k], CleanupRolling(roll[k], lag)}
  BY DEF ReserveDenied, CleanRoll
<1>3. \A k \in Key : conc'[k] \in {conc[k], CleanupConcurrency(conc[k], lag)}
  BY DEF ReserveDenied, CleanConc
<1> QED
  BY <1>1, <1>2, <1>3, CleanupReleases DEF ReserveDenied
-----------------------------------------------------------------------------
(* A granted Reserve.                                                      *)

\* A request that names a key once asks for that requirement's amount.
LEMMA AmountIs ==
  ASSUME DistinctKeys, NEW reqs \in Request, NEW i \in DOMAIN reqs
  PROVE  AmountsOf(reqs)[reqs[i].key] = reqs[i].amount
<1> DEFINE k == reqs[i].key
           n == reqs[i].amount
           S == 1 .. n
           f == [m \in S |-> <<i, m>>]
           U == UNION {{j} \X (1 .. reqs[j].amount) : j \in {x \in DOMAIN reqs : reqs[x].key = k}}
<1>1. n \in Nat
  <2>1. reqs[i] \in Requirement
    BY ConstantsAssumption
  <2> QED
    BY <2>1 DEF Requirement
<1>2. {x \in DOMAIN reqs : reqs[x].key = k} = {i}
  BY DEF DistinctKeys
<1>3. U = {f[m] : m \in S}
  <2>1. U = {i} \X S
    BY <1>2
  <2>2. \A u : u \in {i} \X S <=> \E m \in S : u = <<i, m>>
    OBVIOUS
  <2>3. \A u : u \in {f[m] : m \in S} <=> \E m \in S : u = <<i, m>>
    OBVIOUS
  <2> HIDE DEF f, S, U, n
  <2> QED
    BY <2>1, <2>2, <2>3
<1>4. IsFiniteSet(S) /\ Cardinality(S) = n
  BY <1>1, FS_Interval
<1>5. Cardinality({f[m] : m \in S}) = Cardinality(S)
  <2>1. DOMAIN f = S /\ \A x, y \in S : f[x] = f[y] => x = y
    OBVIOUS
  <2> HIDE DEF f, S
  <2> QED
    BY <1>4, <2>1, InjectiveImage
<1>6. AmountsOf(reqs)[k] = Cardinality(U)
  BY DEF AmountsOf, KeysOf
<1> QED
  BY <1>3, <1>4, <1>5, <1>6

\* What a granted Reserve does to one of its keys.
LEMMA GrantedCharges ==
  ASSUME DistinctKeys, NEW kindOf, Accounted(kindOf), Accounted(kindOf)',
         NEW l \in Lease, NEW reqs \in Request, NEW lag \in 0 .. MaxLag,
         ReserveGranted(l, reqs, lag), NEW k \in KeysOf(reqs)
  PROVE  LET charge == IF IsConcurrency(k) THEN 1 ELSE AmountsOf(reqs)[k]
         IN  /\ k \in Key /\ Capacity(k)' = Capacity(k)
             /\ Load(k)' \in charge .. Capacity(k)
             /\ Load(k)' - charge <= Load(k)
<1>1. PICK i \in DOMAIN reqs : reqs[i].key = k
  BY DEF KeysOf
<1>2. k \in Key /\ reqs[i].amount \in Nat
  <2>1. reqs[i] \in Requirement
    BY ConstantsAssumption
  <2> QED
    BY <1>1, <2>1 DEF Requirement
<1>3. lag \in Nat /\ UNCHANGED defs /\ defs[k] # None
  BY ConstantsAssumption DEF ReserveGranted, Admissible
<1>4. IsConcurrency(k)' <=> IsConcurrency(k)
  BY <1>3 DEF IsConcurrency
<1>5. WellFormed(roll[k]) /\ conc[k] \in ConcLimit /\ roll[k].used \in Nat
  BY <1>2, TypedParts, WellFormedWeighable DEF Accounted
<1>6. CASE IsConcurrency(k)
  <2> DEFINE d == CleanupConcurrency(conc[k], lag)
             ttl == defs[k].span - lag
  <2>1. conc'[k] = AddConcurrencyHold(d, l, ttl)
    BY <1>2, <1>6 DEF ReserveGranted, CleanConc
  <2>2. d \in ConcLimit /\ d.cap = conc[k].cap /\ Held(d) \subseteq Held(conc[k])
    BY <1>3, <1>5, CleanupConcType
  <2>3. ttl \in Int
    BY <1>2, <1>3, SpanType DEF Accounted
  <2> HIDE DEF d, ttl
  <2>4. conc'[k].cap = conc[k].cap /\ Held(conc'[k]) = Held(d) \cup {l}
    BY <2>1, <2>2, <2>3, AddHoldType
  <2>5. /\ IsFiniteSet(Held(d)) /\ Cardinality(Held(d)) \in Nat
        /\ Cardinality(Held(conc[k])) \in Nat
        /\ Cardinality(Held(d)) <= Cardinality(Held(conc[k]))
    BY <2>2, HeldFinite
  <2>6. Cardinality(Held(conc'[k])) \in {Cardinality(Held(d)), Cardinality(Held(d)) + 1}
    BY <2>4, <2>5, FS_AddElement
  <2>7. Cardinality(Held(conc'[k])) >= 1
    <3>1. IsFiniteSet(Held(conc'[k])) /\ Held(conc'[k]) # {}
      BY <2>4, HeldFinite
    <3> QED
      BY <3>1, FS_EmptySet, FS_CardinalityType
  <2>8. /\ Load(k) = Cardinality(Held(conc[k])) /\ Load(k)' = Cardinality(Held(conc'[k]))
        /\ Capacity(k)' = Capacity(k) /\ Load(k)' <= Capacity(k)' /\ Capacity(k) \in Nat
    BY <1>2, <1>4, <1>6, <2>4, LoadsOf
  <2> QED
    BY <1>2, <1>6, <2>5, <2>6, <2>7, <2>8
<1>7. CASE ~IsConcurrency(k)
  <2> DEFINE slot == CHOOSE s \in FreeSlots : TRUE
             c == CleanupRolling(roll[k], lag)
             new == NewReservations(l, reqs, k, slot, defs[k].span - lag)
  <2>1. IsRolling(k)
    BY <1>2, <1>3, <1>7, SpanType DEF Accounted, LimitDefinition, IsRolling, IsConcurrency
  <2>2. roll'[k] = AddRollingReservation(c, l, reqs, k, slot, defs[k].span - lag)
    BY <1>2, <2>1 DEF ReserveGranted, CleanRoll
  <2>3. slot \in Slot /\ defs[k].span - lag \in Int
    BY <1>2, <1>3, SpanType DEF ReserveGranted, FreeSlots, Accounted
  <2> HIDE DEF slot
  <2>4. c.cap = roll[k].cap /\ c.used <= roll[k].used /\ c.used \in Nat /\ c.used <= roll[k].cap
    BY <1>2, <1>3, <1>5, CleanupType, CleanedAccounted
  <2>5. Weight(new) = reqs[i].amount
    <3>1. PICK j \in DOMAIN reqs : reqs[j].key = k /\ Weight(new) = reqs[j].amount
      BY <2>3, NewSingle
    <3> QED
      BY <1>1, <3>1 DEF DistinctKeys
  <2>6. roll'[k].used = (c.used + Weight(new)) % Word /\ roll'[k].cap = c.cap
    BY <2>2 DEF AddRollingReservation
  <2>7. c.used + reqs[i].amount < Word
    <3>1. roll[k].cap = defs[k].capacity /\ defs[k].capacity + reqs[i].amount < Word
      BY <1>1, <1>2, <2>1 DEF Accounted, Configured, IsRolling
    <3>2. defs[k].capacity \in Nat
      BY <1>2, <1>3, SpanType DEF Accounted
    <3> HIDE DEF c
    <3> QED
      BY <1>2, <2>4, <3>1, <3>2, ConstantsAssumption
  <2> HIDE DEF c, new
  <2>8. roll'[k].used = c.used + reqs[i].amount
    <3>1. \A x \in Nat : x < Word => x % Word = x
      BY ConstantsAssumption
    <3> QED
      BY <1>2, <2>4, <2>5, <2>6, <2>7, <3>1
  <2>9. AmountsOf(reqs)[k] = reqs[i].amount
    BY <1>1, AmountIs
  <2> QED
    BY <1>2, <1>4, <1>5, <1>7, <2>4, <2>6, <2>8, <2>9, LoadsOf
<1> QED
  BY <1>6, <1>7

\* A granted Reserve is a Grant of what its request asks for.
LEMMA GrantedGrants ==
  ASSUME DistinctKeys, NEW kindOf, Accounted(kindOf), Accounted(kindOf)',
         NEW l \in Lease, NEW reqs \in Request, NEW lag \in 0 .. MaxLag,
         ReserveGranted(l, reqs, lag)
  PROVE  Lim!Grant(AmountsOf(reqs))
<1>1. UNCHANGED defs
  BY DEF ReserveGranted
<1>2. DOMAIN AmountsOf(reqs) = KeysOf(reqs)
  BY DEF AmountsOf
<1>3. ASSUME NEW k \in Key \ KeysOf(reqs)
      PROVE  Load(k)' = Load(k) /\ Capacity(k)' = Capacity(k)
  <2>1. roll'[k] = roll[k] /\ conc'[k] = conc[k]
    BY DEF ReserveGranted
  <2> QED
    BY <1>1, <2>1 DEF Load, Capacity, IsConcurrency, Held
<1>4. \A k \in Key : Capacity(k)' = Capacity(k)
  BY <1>3, GrantedCharges
<1>5. ASSUME NEW k \in KeysOf(reqs)
      PROVE  LET charge == IF IsConcurrency(k) THEN 1 ELSE AmountsOf(reqs)[k]
             IN  k \in Key /\ Load(k)' \in charge .. Capacity(k) /\ Load(k)' - charge <= Load(k)
  BY GrantedCharges
<1>6. {k \in Key : IsConcurrency(k)}' = {k \in Key : IsConcurrency(k)}
  BY <1>1 DEF IsConcurrency
<1> QED
  BY <1>2, <1>3, <1>4, <1>5, <1>6 DEF Lim!Grant, Lim!Charge
-----------------------------------------------------------------------------
(* Administration.                                                         *)

\* A step that touches one key, and leaves its load covered, is a Resize.
LEMMA ResizeStep ==
  ASSUME NEW key \in Key,
         \A k \in Key \ {key} : /\ Load(k)' = Load(k) /\ Capacity(k)' = Capacity(k)
                                /\ IsConcurrency(k)' <=> IsConcurrency(k),
         Load(key)' \in 0 .. Load(key), Capacity(key)' \in Nat, Load(key)' <= Capacity(key)'
  PROVE  Lim!Resize(key)
<1> DEFINE C == {k \in Key : IsConcurrency(k)}
<1>1. C' \in {C \ {key}, C \cup {key}}
  <2>1. \A k \in Key \ {key} : k \in C' <=> k \in C
    OBVIOUS
  <2>2. C \subseteq Key /\ C' \subseteq Key
    OBVIOUS
  <2> HIDE DEF C
  <2> QED
    BY <2>1, <2>2
<1> QED
  BY <1>1 DEF Lim!Resize, Lim!Shrinks

\* ApplyDefinition resizes its key, or only records a decrease.
LEMMA ApplyResizes ==
  ASSUME NEW kindOf, KindMap(kindOf), Accounted(kindOf), Accounted(kindOf)',
         NEW def \in Definition, ApplyDefinition(def)
  PROVE  Lim!Release \/ Lim!Resize(def.key)
<1> DEFINE key == def.key
<1>1. key \in Key /\ def.kind \in {"rolling", "concurrency"} /\ def.kind = kindOf[key] /\ def # None
  BY ConstantsAssumption DEF LimitDefinition, KindMap
<1>2. CASE ApplyDecrease(def)
  <2>1. \A k \in Key : Load(k)' = Load(k) /\ Capacity(k)' = Capacity(k)
    BY <1>2 DEF ApplyDecrease, Load, Capacity, IsConcurrency, Held
  <2>2. \A k \in Key : Load(k)' \in 0 .. Load(k)
    BY <2>1, LoadsOf
  <2> QED
    BY <1>2, <2>1, <2>2, ReleaseStep DEF ApplyDecrease
<1>3. CASE ApplyIncrease(def)
  <2>1. ASSUME NEW k \in Key \ {key}
        PROVE  /\ Load(k)' = Load(k) /\ Capacity(k)' = Capacity(k)
               /\ IsConcurrency(k)' <=> IsConcurrency(k)
    <3>1. defs'[k] = defs[k] /\ roll'[k] = roll[k] /\ conc'[k] = conc[k]
      BY <1>3, TypedParts DEF ApplyIncrease, Accounted
    <3> QED
      BY <3>1 DEF Load, Capacity, IsConcurrency, Held
  <2>2. /\ defs'[key] = def
        /\ roll'[key].used = roll[key].used /\ conc'[key].holds = conc[key].holds
    BY <1>1, <1>3, TypedParts
    DEF ApplyIncrease, Accounted, RollWithCapacity, ConcWithCapacity
  <2>3. Held(conc'[key]) = Held(conc[key])
    BY <2>2 DEF Held
  <2>4. IsConcurrency(key)' <=> def.kind = "concurrency"
    BY <1>1, <2>2 DEF IsConcurrency
  <2>5. Load(key)' = Load(key)
    <3>1. CASE defs[key] # None
      <4>1. IsConcurrency(key) <=> def.kind = "concurrency"
        BY <1>1, <3>1 DEF Accounted, Configured, IsConcurrency
      <4> QED
        BY <1>1, <2>2, <2>3, <2>4, <4>1, LoadsOf
    <3>2. CASE defs[key] = None
      <4>1. roll[key].used <= 0 /\ Cardinality(Held(conc[key])) <= 0
        BY <1>1, <3>2 DEF Accounted, Configured, Within
      <4>2. roll[key].used \in Nat /\ Cardinality(Held(conc[key])) \in Nat
        BY <1>1, TypedParts, WellFormedWeighable, HeldFinite DEF Accounted
      <4> QED
        BY <1>1, <2>2, <2>3, <4>1, <4>2, LoadsOf
    <3> QED
      BY <3>1, <3>2
  <2>6. Load(key) \in Nat /\ Capacity(key)' \in Nat /\ Load(key)' <= Capacity(key)'
    BY <1>1, LoadsOf
  <2> QED
    BY <1>1, <2>1, <2>5, <2>6, ResizeStep
<1> QED
  BY <1>2, <1>3 DEF ApplyDefinition

\* The reconciliation cleans its key, and resizes it when enough is free.
LEMMA TryApplyResizes ==
  ASSUME NEW kindOf, Accounted(kindOf), Accounted(kindOf)', NEW key \in Key, TryApplyDecrease(key)
  PROVE  Lim!Release \/ Lim!Resize(key)
<1>1. CASE DecreaseWaits(key)
  <2>1. \A k \in Key : roll'[k] \in {roll[k], CleanupRolling(roll[k], 0)}
    BY <1>1, TypedParts DEF DecreaseWaits, CleanupLocked, Accounted
  <2>2. \A k \in Key : conc'[k] \in {conc[k], CleanupConcurrency(conc[k], 0)}
    BY <1>1, TypedParts DEF DecreaseWaits, CleanupLocked, Accounted
  <2>3. 0 \in Nat /\ UNCHANGED defs
    BY <1>1 DEF DecreaseWaits
  <2> QED
    BY <2>1, <2>2, <2>3, CleanupReleases
<1>2. CASE DecreaseApplies(key)
  <2> DEFINE new == [states[key].definition EXCEPT !.capacity = states[key].pending]
  <2>1. ASSUME NEW k \in Key \ {key}
        PROVE  /\ Load(k)' = Load(k) /\ Capacity(k)' = Capacity(k)
               /\ IsConcurrency(k)' <=> IsConcurrency(k)
    <3>1. defs'[k] = defs[k] /\ roll'[k] = roll[k] /\ conc'[k] = conc[k]
      BY <1>2, TypedParts DEF DecreaseApplies, Accounted
    <3> QED
      BY <3>1 DEF Load, Capacity, IsConcurrency, Held
  <2>2. /\ defs[key] # None /\ defs[key] \in LimitDefinition
        /\ states[key].definition = defs[key]
    <3>1. defs[key] # None /\ states[key].definition = defs[key]
      BY <1>2 DEF DecreaseApplies, PendingDecrease, Decreasing, Accounted, Configured
    <3> QED
      BY <3>1, SpanType DEF Accounted
  <2>3. defs'[key] = new /\ new.kind = defs[key].kind
    BY <1>2, <2>2, TypedParts DEF DecreaseApplies, Accounted, LimitDefinition
  <2>4. defs'[key] # None
    <3>1. states[key] \in LimitState /\ states[key].pending # 0
      BY <1>2, TypedParts DEF DecreaseApplies, PendingDecrease, Decreasing, Accounted
    <3>2. new \in LimitDefinition
      BY <2>2, <3>1 DEF LimitDefinition, LimitState
    <3> QED
      BY <2>3, <3>2, ConstantsAssumption
  <2>5. IsConcurrency(key)' <=> IsConcurrency(key)
    BY <2>2, <2>3, <2>4 DEF IsConcurrency
  <2>6. WellFormed(roll[key]) /\ conc[key] \in ConcLimit /\ roll[key].used \in Nat /\ 0 \in Nat
    BY TypedParts, WellFormedWeighable DEF Accounted
  <2>7. roll'[key].used <= roll[key].used
    <3>1. roll'[key].used \in {roll[key].used, CleanupRolling(roll[key], 0).used}
      BY <1>2, TypedParts DEF DecreaseApplies, Accounted, RollWithCapacity
    <3> QED
      BY <2>6, <3>1, CleanupType
  <2>8. Cardinality(Held(conc'[key])) <= Cardinality(Held(conc[key]))
    <3>1. conc'[key].holds \in {conc[key].holds, CleanupConcurrency(conc[key], 0).holds}
      BY <1>2, TypedParts DEF DecreaseApplies, Accounted, ConcWithCapacity
    <3>2. Held(conc'[key]) \in {Held(conc[key]), Held(CleanupConcurrency(conc[key], 0))}
      BY <3>1 DEF Held
    <3> QED
      BY <2>6, <3>2, CleanupConcType, HeldFinite
  <2>9. Load(key)' \in 0 .. Load(key) /\ Capacity(key)' \in Nat /\ Load(key)' <= Capacity(key)'
    BY <2>5, <2>7, <2>8, LoadsOf
  <2> QED
    BY <2>1, <2>9, ResizeStep
<1> QED
  BY <1>1, <1>2 DEF TryApplyDecrease
-----------------------------------------------------------------------------
(* The refinement.                                                         *)

\* Every step of the backend is a step of the abstract limiter.
LEMMA NextImplements ==
  ASSUME DistinctKeys, NEW kindOf, KindMap(kindOf), Accounted(kindOf), Accounted(kindOf)',
         [Next]_vars
  PROVE  [Lim!Next]_(Lim!lvars)
<1>1. CASE UNCHANGED vars
  <2>1. \A k \in Key : /\ Load(k)' = Load(k) /\ Capacity(k)' = Capacity(k)
                       /\ IsConcurrency(k)' <=> IsConcurrency(k)
    BY <1>1 DEF vars, Load, Capacity, IsConcurrency, Held
  <2>2. \A k \in Key : Load(k)' \in 0 .. Load(k)
    BY <2>1, LoadsOf
  <2> QED
    BY <1>1, <2>1, <2>2, ReleaseStep DEF vars, Lim!Next
<1>2. CASE \E l \in Lease, reqs \in Request : ReserveRejected(l, reqs)
  BY <1>1, <1>2 DEF ReserveRejected
<1>3. CASE \E l \in Lease, reqs \in Request, lag \in 0 .. MaxLag : ReserveDenied(l, reqs, lag)
  BY <1>3, DeniedReleases DEF Lim!Next
<1>4. CASE \E l \in Lease, reqs \in Request, lag \in 0 .. MaxLag : ReserveGranted(l, reqs, lag)
  BY <1>4, GrantedGrants DEF Lim!Next
<1>5. CASE \E l \in Lease, actuals \in Actuals : Complete(l, actuals)
  BY <1>5, CompleteReleases DEF Lim!Next
<1>6. CASE \E l \in Lease : CompleteUnknown(l)
  BY <1>1, <1>6 DEF CompleteUnknown
<1>7. CASE \E def \in Definition : ApplyDefinition(def)
  <2>1. \A def \in Definition : def.key \in Key
    BY ConstantsAssumption DEF LimitDefinition
  <2> QED
    BY <1>7, <2>1, ApplyResizes DEF Lim!Next
<1>8. CASE Tick
  BY <1>8, TickReleases DEF Lim!Next
<1>9. CASE \E k \in Key : TryApplyDecrease(k)
  BY <1>9, TryApplyResizes DEF Lim!Next
<1> QED
  BY <1>1, <1>2, <1>3, <1>4, <1>5, <1>6, <1>7, <1>8, <1>9 DEF Next, ServerNext

\* Under the three hypotheses of the accounting, the in-memory backend with
\* its heaps, counters, stale expiries and pending decreases implements the
\* abstract limiter: a request is charged to all of its keys or to none and
\* within capacity, and a capacity moves only to a value that covers the load.
THEOREM Refinement ==
  ASSUME DistinctKeys, NoWrap, KindStable
  PROVE  Spec => ImplementsLimiter
<1>1. PICK kindOf : KindMap(kindOf)
  BY DEF KindStable, KindMap
<1>2. Init => Accounted(kindOf)
  BY <1>1, InitAccounted
<1>3. Accounted(kindOf) /\ [Next]_vars => Accounted(kindOf)'
  BY <1>1, NextAccounted
<1>4. Init => Lim!Init
  BY <1>2, InitImplements
<1>5. Accounted(kindOf) /\ Accounted(kindOf)' /\ [Next]_vars => [Lim!Next]_(Lim!lvars)
  BY <1>1, NextImplements
<1> QED
  BY <1>2, <1>3, <1>4, <1>5, PTL DEF Spec, ImplementsLimiter, Lim!Spec
-----------------------------------------------------------------------------
(* Retries.                                                                *)

\* A reduction replaces one reservation of the heap.
LEMMA ReduceHeap ==
  ASSUME NEW limit, NEW l, NEW n,
         {e \in limit.heap : e.ref = limit.byID[l] /\ n < e.amount} # {}
  PROVE  LET x == CHOOSE e \in {e \in limit.heap : e.ref = limit.byID[l] /\ n < e.amount} : TRUE
         IN  ReduceRollingReservation(limit, l, n).heap =
               (limit.heap \ {x}) \cup {[ref |-> x.ref, id |-> x.id, amount |-> n, ttl |-> x.ttl]}
<1>1. PICK hit : hit = {e \in limit.heap : e.ref = limit.byID[l] /\ n < e.amount}
  OBVIOUS
<1>2. PICK x : x = CHOOSE e \in hit : TRUE
  OBVIOUS
<1>3. ReduceRollingReservation(limit, l, n) =
        [cap  |-> limit.cap, used |-> Monus(limit.used, x.amount - n),
         heap |-> (limit.heap \ {x}) \cup {[ref |-> x.ref, id |-> x.id, amount |-> n, ttl |-> x.ttl]},
         byID |-> limit.byID]
  BY <1>1, <1>2, Zenon DEF ReduceRollingReservation
<1>4. ReduceRollingReservation(limit, l, n).heap =
        (limit.heap \ {x}) \cup {[ref |-> x.ref, id |-> x.id, amount |-> n, ttl |-> x.ttl]}
  BY <1>3
<1> QED
  BY <1>1, <1>2, <1>4, Zenon

\* No operation but the grant of a lease adds a charge of that lease.
LEMMA NextAddsNoCharge ==
  ASSUME Typed, [Next]_vars, NEW l \in Lease, leases[l] # None, leases'[l] # None
  PROVE  AddsNoCharge(l)
<1>1. ASSUME NEW k \in Key,
             \A e \in roll'[k].heap : \E x \in roll[k].heap : x.ref = e.ref /\ x.id = e.id,
             conc[k].holds[l] = None => conc'[k].holds[l] = None
      PROVE  /\ {e.ref : e \in {x \in roll'[k].heap : x.id = l}}
                  \subseteq {e.ref : e \in {x \in roll[k].heap : x.id = l}}
             /\ conc[k].holds[l] = None => conc'[k].holds[l] = None
  BY <1>1
<1>2. \A k \in Key : \A lag : /\ CleanupRolling(roll[k], lag).heap \subseteq roll[k].heap
                              /\ conc[k].holds[l] = None =>
                                   CleanupConcurrency(conc[k], lag).holds[l] = None
  BY DEF CleanupRolling, CleanupConcurrency
<1>3. CASE UNCHANGED vars
  BY <1>3 DEF vars, AddsNoCharge
<1>4. ASSUME NEW h \in Lease, NEW reqs \in Request, NEW lag \in 0 .. MaxLag,
             ReserveDenied(h, reqs, lag)
      PROVE  AddsNoCharge(l)
  <2>1. \A k \in Key : /\ roll'[k] \in {roll[k], CleanupRolling(roll[k], lag)}
                       /\ conc'[k] \in {conc[k], CleanupConcurrency(conc[k], lag)}
    BY <1>4 DEF ReserveDenied, CleanRoll, CleanConc
  <2> QED
    BY <1>1, <1>2, <2>1, ZenonT(60) DEF AddsNoCharge
<1>5. ASSUME NEW h \in Lease, NEW reqs \in Request, NEW lag \in 0 .. MaxLag,
             ReserveGranted(h, reqs, lag)
      PROVE  AddsNoCharge(l)
  <2>1. h # l
    BY <1>5 DEF ReserveGranted, Admissible
  <2>2. ASSUME NEW k \in Key
        PROVE  {e.ref : e \in {x \in roll'[k].heap : x.id = l}}
                  \subseteq {e.ref : e \in {x \in roll[k].heap : x.id = l}}
    <3>1. CASE k \in KeysOf(reqs) /\ IsRolling(k)
      <4> DEFINE slot == CHOOSE s \in FreeSlots : TRUE
                 new == NewReservations(h, reqs, k, slot, defs[k].span - lag)
      <4>1. roll'[k].heap = CleanupRolling(roll[k], lag).heap \cup new
        BY <1>5, <3>1 DEF ReserveGranted, CleanRoll, AddRollingReservation
      <4>2. \A e \in new : e.id = h
        BY DEF NewReservations
      <4> HIDE DEF new
      <4> QED
        BY <1>2, <2>1, <4>1, <4>2
    <3>2. CASE ~(k \in KeysOf(reqs) /\ IsRolling(k))
      BY <1>5, <3>2 DEF ReserveGranted
    <3> QED
      BY <3>1, <3>2
  <2>3. ASSUME NEW k \in Key, conc[k].holds[l] = None
        PROVE  conc'[k].holds[l] = None
    <3>1. CASE k \in KeysOf(reqs) /\ IsConcurrency(k)
      <4> DEFINE c == CleanupConcurrency(conc[k], lag)
      <4>1. conc'[k] = AddConcurrencyHold(c, h, defs[k].span - lag)
        BY <1>5, <3>1 DEF ReserveGranted, CleanConc
      <4>2. c.holds[l] = None
        BY <1>2, <2>3
      <4> HIDE DEF c
      <4> QED
        BY <2>1, <4>1, <4>2 DEF AddConcurrencyHold
    <3>2. CASE ~(k \in KeysOf(reqs) /\ IsConcurrency(k))
      BY <1>5, <2>3, <3>2 DEF ReserveGranted
    <3> QED
      BY <3>1, <3>2
  <2> QED
    BY <2>2, <2>3 DEF AddsNoCharge
<1>6. ASSUME NEW h \in Lease, NEW actuals \in Actuals, Complete(h, actuals)
      PROVE  AddsNoCharge(l)
  <2> DEFINE reqs == leases[h].requirements
  <2>1. h # l
    BY <1>6, TypedParts DEF Complete
  <2>2. roll' = ReconcileRolling(h, reqs, actuals) /\ conc' = ReleaseHolds(h, reqs)
    BY <1>6 DEF Complete
  <2> HIDE DEF reqs
  <2>3. ASSUME NEW k \in Key
        PROVE  \A e \in roll'[k].heap : \E x \in roll[k].heap : x.ref = e.ref /\ x.id = e.id
    <3> DEFINE n == actuals[k]
               hit == {e \in roll[k].heap : e.ref = roll[k].byID[h] /\ n < e.amount}
               x == CHOOSE e \in hit : TRUE
    <3>1. CASE roll'[k] = roll[k]
      BY <3>1
    <3>2. CASE roll'[k] = ReduceRollingReservation(roll[k], h, n) /\ hit # {}
      <4>1. x \in hit
        BY <3>2
      <4>2. roll'[k].heap = (roll[k].heap \ {x})
                              \cup {[ref |-> x.ref, id |-> x.id, amount |-> n, ttl |-> x.ttl]}
        BY <3>2, ReduceHeap
      <4>3. x \in roll[k].heap
        BY <4>1
      <4> HIDE DEF x, hit
      <4> QED
        BY <4>2, <4>3
    <3>3. CASE roll'[k] = ReduceRollingReservation(roll[k], h, n) /\ hit = {}
      BY <3>1, <3>3 DEF ReduceRollingReservation
    <3> QED
      BY <2>2, <3>1, <3>2, <3>3 DEF ReconcileRolling
  <2>4. ASSUME NEW k \in Key, conc[k].holds[l] = None
        PROVE  conc'[k].holds[l] = None
    BY <2>1, <2>2, <2>4 DEF ReleaseHolds, DropHold
  <2> QED
    BY <1>1, <2>3, <2>4 DEF AddsNoCharge
<1>7. ASSUME NEW def \in Definition, ApplyDefinition(def)
      PROVE  AddsNoCharge(l)
  <2>1. \A k \in Key : roll'[k].heap = roll[k].heap /\ conc'[k].holds = conc[k].holds
    BY <1>7, TypedParts
    DEF ApplyDefinition, ApplyIncrease, ApplyDecrease, RollWithCapacity, ConcWithCapacity
  <2> QED
    BY <2>1 DEF AddsNoCharge
<1>8. CASE Tick
  <2>1. ASSUME NEW k \in Key
        PROVE  \A e \in roll'[k].heap : \E x \in roll[k].heap : x.ref = e.ref /\ x.id = e.id
    BY <1>8 DEF Tick, AgedRolling, AgedReservation
  <2>2. \A k \in Key : conc[k].holds[l] = None => conc'[k].holds[l] = None
    BY <1>8 DEF Tick, AgedConc
  <2> QED
    BY <1>1, <2>1, <2>2 DEF AddsNoCharge
<1>9. ASSUME NEW key \in Key, TryApplyDecrease(key)
      PROVE  AddsNoCharge(l)
  <2>1. ASSUME NEW k \in Key
        PROVE  /\ roll'[k].heap \subseteq roll[k].heap
               /\ conc[k].holds[l] = None => conc'[k].holds[l] = None
    <3>1. roll'[k].heap \in {roll[k].heap, CleanupRolling(roll[k], 0).heap}
      BY <1>9, TypedParts
      DEF TryApplyDecrease, DecreaseWaits, DecreaseApplies, CleanupLocked, RollWithCapacity
    <3>2. conc'[k].holds \in {conc[k].holds, CleanupConcurrency(conc[k], 0).holds}
      BY <1>9, TypedParts
      DEF TryApplyDecrease, DecreaseWaits, DecreaseApplies, CleanupLocked, ConcWithCapacity
    <3> QED
      BY <1>2, <3>1, <3>2
  <2> QED
    BY <1>1, <2>1 DEF AddsNoCharge
<1> QED
  BY <1>3, <1>4, <1>5, <1>6, <1>7, <1>8, <1>9
  DEF Next, ServerNext, ReserveRejected, CompleteUnknown

\* Whatever is retried, delivered late, expired, completed or resized: while
\* a lease is live no step adds a reservation or a hold of that lease.
THEOREM RetriesAreFree == Spec => RetryChargesNothing
<1>1. Init => Typed
  BY InitTyped
<1>2. Typed /\ [Next]_vars => Typed'
  BY NextTyped
<1>3. Typed /\ [Next]_vars =>
        [\A l \in Lease : leases[l] # None /\ leases'[l] # None => AddsNoCharge(l)]_vars
  BY NextAddsNoCharge
<1> QED
  BY <1>1, <1>2, <1>3, PTL DEF Spec, RetryChargesNothing
-----------------------------------------------------------------------------
(* Leases.  The inductive invariant says how long each charge still has:   *)
(* at least as long as the lease was promised.  byID has no stale entry,   *)
(* so that a reconciliation reaches its own lease's reservation only.  A   *)
(* concurrency heap holds no older element of a lease that was never       *)
(* completed: such an element would take the hold away when it expires,    *)
(* and that is what may happen to a lease granted again.                   *)

Kinds(kindOf) ==
  \A k \in Key : /\ defs[k] # None => defs[k].kind = kindOf[k]
                 /\ states[k] # None => states[k].definition.kind = kindOf[k]

\* An entry of byID is a reservation of its lease.
Pointing(limit) ==
  \A l \in Lease : limit.byID[l] # None =>
    /\ \E e \in limit.heap : e.ref = limit.byID[l]
    /\ \A e \in limit.heap : e.ref = limit.byID[l] => e.id = l

\* The reservation that pays for a requirement.
Pays(e, l, amount, left) == e.id = l /\ e.amount = amount /\ e.ttl >= left

\* The charge of lease l on key k.
Backed(l, k, kindOf) ==
  leases[l] # None /\ k \in KeysOf(leases[l].requirements) =>
    /\ defs[k] # None
    /\ kindOf[k] = "rolling" /\ leases[l].left[k] > 0 =>
         \A i \in DOMAIN leases[l].requirements : leases[l].requirements[i].key = k =>
           \E e \in roll[k].heap :
             Pays(e, l, leases[l].requirements[i].amount, leases[l].left[k])
    /\ kindOf[k] = "concurrency" /\ leases[l].left[k] > 0 /\ l \notin retired =>
         /\ \A h \in conc[k].heap : h.id = l => h.ttl >= leases[l].left[k]
         /\ conc[k].holds[l] # None

\* A lease that was never granted has left nothing behind.
Fresh(l) ==
  leases[l] = None /\ l \notin retired => \A k \in Key : \A h \in conc[k].heap : h.id # l

LeaseInv(kindOf) ==
  /\ Typed /\ Kinds(kindOf)
  /\ \A k \in Key : Pointing(roll[k])
  /\ \A l \in Lease : Fresh(l) /\ \A k \in Key : Backed(l, k, kindOf)

\* Kinds do not change.
LEMMA NextKinds ==
  ASSUME NEW kindOf, KindMap(kindOf), Typed, Kinds(kindOf), [Next]_vars
  PROVE  Kinds(kindOf)'
<1>1. CASE UNCHANGED <<defs, states>>
  BY <1>1 DEF Kinds
<1>2. ASSUME NEW def \in Definition, ApplyDefinition(def)
      PROVE  Kinds(kindOf)'
  <2>1. def.key \in Key /\ def.kind = kindOf[def.key]
    BY ConstantsAssumption DEF LimitDefinition, KindMap
  <2>2. CASE ApplyIncrease(def)
    BY <2>1, <2>2, TypedParts DEF ApplyIncrease, Kinds
  <2>3. CASE ApplyDecrease(def)
    <3>1. /\ defs' = defs /\ defs[def.key] # None
          /\ states' = [states EXCEPT ![def.key] =
                          [definition |-> defs[def.key], status |-> "decreasing",
                           pending |-> def.capacity]]
      BY <2>3 DEF ApplyDecrease
    <3>2. \A k \in Key : \/ states'[k] = states[k]
                         \/ k = def.key /\ states'[k].definition = defs[k]
      BY <2>1, <3>1, TypedParts
    <3> QED
      BY <3>1, <3>2 DEF Kinds
  <2> QED
    BY <1>2, <2>2, <2>3 DEF ApplyDefinition
<1>3. ASSUME NEW key \in Key, DecreaseApplies(key)
      PROVE  Kinds(kindOf)'
  <2> DEFINE new == [states[key].definition EXCEPT !.capacity = states[key].pending]
  <2>1. states[key] \in LimitState
    BY <1>3, TypedParts DEF DecreaseApplies, PendingDecrease, Decreasing
  <2>2. new.kind = states[key].definition.kind
    BY <2>1 DEF LimitState, LimitDefinition
  <2>3. states[key].definition.kind = kindOf[key]
    BY <1>3 DEF DecreaseApplies, PendingDecrease, Decreasing, Kinds
  <2>4. defs' = [defs EXCEPT ![key] = new]
        /\ states' = [states EXCEPT ![key] = [definition |-> new, status |-> "active", pending |-> 0]]
    BY <1>3 DEF DecreaseApplies
  <2> HIDE DEF new
  <2> QED
    BY <2>2, <2>3, <2>4, TypedParts DEF Kinds
<1> QED
  BY <1>1, <1>2, <1>3
  DEF Next, ServerNext, vars, ReserveRejected, ReserveDenied, ReserveGranted, Complete,
      CompleteUnknown, Tick, TryApplyDecrease, DecreaseWaits

\* A cleanup takes no charge whose time is not over, whatever the stamp.
LEMMA CleanupKeeps ==
  ASSUME NEW kindOf, Typed, NEW l \in Lease, NEW k \in Key, Backed(l, k, kindOf),
         NEW lag \in 0 .. MaxLag, leases'[l] = leases[l], l \notin retired' => l \notin retired,
         defs[k] # None => defs'[k] # None,
         roll'[k].heap \in {roll[k].heap, CleanupRolling(roll[k], lag).heap},
         \/ conc'[k].heap = conc[k].heap /\ conc'[k].holds = conc[k].holds
         \/ /\ conc'[k].heap = CleanupConcurrency(conc[k], lag).heap
            /\ conc'[k].holds = CleanupConcurrency(conc[k], lag).holds
  PROVE  Backed(l, k, kindOf)'
<1> SUFFICES ASSUME leases[l] # None, k \in KeysOf(leases[l].requirements)
             PROVE  Backed(l, k, kindOf)'
  BY DEF Backed
<1> DEFINE left == leases[l].left[k]
           reqs == leases[l].requirements
<1>1. left \in Nat /\ lag \in Nat /\ MaxLag \in Nat
  BY TypedParts, ConstantsAssumption DEF LeaseState
<1>2. \A e \in roll[k].heap : e.ttl \in Int
  BY TypedParts DEF WellFormed, RollingLimit
<1>3. \A h \in conc[k].heap : h.ttl \in Int
  BY TypedParts DEF ConcLimit
<1> HIDE DEF left, reqs
<1>4. ASSUME kindOf[k] = "rolling", left > 0, NEW i \in DOMAIN reqs, reqs[i].key = k
      PROVE  \E e \in roll'[k].heap : Pays(e, l, reqs[i].amount, left)
  <2>1. PICK e \in roll[k].heap : Pays(e, l, reqs[i].amount, left)
    BY <1>4 DEF Backed, left, reqs
  <2>2. ~(e.ttl <= -lag)
    BY <1>1, <1>2, <1>4, <2>1 DEF Pays
  <2>3. e \in CleanupRolling(roll[k], lag).heap
    BY <2>2 DEF CleanupRolling
  <2> QED
    BY <2>1, <2>3
<1>5. ASSUME kindOf[k] = "concurrency", left > 0, l \notin retired'
      PROVE  /\ \A h \in conc'[k].heap : h.id = l => h.ttl >= left
             /\ conc'[k].holds[l] # None
  <2>1. /\ \A h \in conc[k].heap : h.id = l => h.ttl >= left
        /\ conc[k].holds[l] # None
    BY <1>5 DEF Backed, left
  <2>2. CleanupConcurrency(conc[k], lag).heap \subseteq conc[k].heap
    BY DEF CleanupConcurrency
  <2>3. ~ \E h \in {x \in conc[k].heap : x.ttl <= -lag} : h.id = l
    BY <1>1, <1>3, <1>5, <2>1
  <2>4. CleanupConcurrency(conc[k], lag).holds[l] # None
    BY <2>1, <2>3 DEF CleanupConcurrency
  <2> QED
    BY <2>1, <2>2, <2>4
<1>6. defs'[k] # None
  BY DEF Backed
<1> QED
  BY <1>4, <1>5, <1>6 DEF Backed, left, reqs

\* A granted Reserve: the leases that were there keep their charges, ...
LEMMA GrantedKeeps ==
  ASSUME NEW kindOf, Typed, Kinds(kindOf), NEW h \in Lease, NEW reqs \in Request,
         NEW lag \in 0 .. MaxLag, ReserveGranted(h, reqs, lag),
         NEW l \in Lease, l # h, NEW k \in Key, Backed(l, k, kindOf)
  PROVE  Backed(l, k, kindOf)'
<1> DEFINE slot == CHOOSE s \in FreeSlots : TRUE
           new == NewReservations(h, reqs, k, slot, defs[k].span - lag)
           c == CleanupRolling(roll[k], lag)
           d == CleanupConcurrency(conc[k], lag)
<1> SUFFICES ASSUME leases[l] # None, k \in KeysOf(leases[l].requirements)
             PROVE  Backed(l, k, kindOf)'
  BY TypedParts DEF Backed, ReserveGranted
<1>1. leases'[l] = leases[l] /\ defs' = defs
  BY TypedParts DEF ReserveGranted
<1> DEFINE left == leases[l].left[k]
           ours == leases[l].requirements
<1>2. left \in Nat /\ lag \in Nat /\ MaxLag \in Nat
  BY TypedParts, ConstantsAssumption DEF LeaseState
<1>3. \A e \in roll[k].heap : e.ttl \in Int
  BY TypedParts DEF WellFormed, RollingLimit
<1>4. \A x \in conc[k].heap : x.ttl \in Int
  BY TypedParts DEF ConcLimit
<1>5. roll'[k].heap = roll[k].heap \/ c.heap \subseteq roll'[k].heap
  BY DEF ReserveGranted, CleanRoll, AddRollingReservation
<1>6. \/ conc'[k].heap = conc[k].heap /\ conc'[k].holds = conc[k].holds
      \/ /\ conc'[k].heap = d.heap \cup {[id |-> h, ttl |-> defs[k].span - lag]}
         /\ conc'[k].holds = [d.holds EXCEPT ![h] = defs[k].span - lag]
  BY DEF ReserveGranted, CleanConc, AddConcurrencyHold
<1> HIDE DEF left, ours
<1>7. ASSUME kindOf[k] = "rolling", left > 0, NEW i \in DOMAIN ours, ours[i].key = k
      PROVE  \E e \in roll'[k].heap : Pays(e, l, ours[i].amount, left)
  <2>1. PICK e \in roll[k].heap : Pays(e, l, ours[i].amount, left)
    BY <1>7 DEF Backed, left, ours
  <2>2. ~(e.ttl <= -lag)
    BY <1>2, <1>3, <1>7, <2>1 DEF Pays
  <2>3. e \in c.heap
    BY <2>2 DEF CleanupRolling
  <2> QED
    BY <1>5, <2>1, <2>3
<1>8. ASSUME kindOf[k] = "concurrency", left > 0, l \notin retired
      PROVE  /\ \A x \in conc'[k].heap : x.id = l => x.ttl >= left
             /\ conc'[k].holds[l] # None
  <2>1. /\ \A x \in conc[k].heap : x.id = l => x.ttl >= left
        /\ conc[k].holds[l] # None
    BY <1>8 DEF Backed, left
  <2>2. d.heap \subseteq conc[k].heap /\ DOMAIN d.holds = Lease
    BY DEF CleanupConcurrency
  <2>3. \A x \in conc'[k].heap : x.id = l => x \in conc[k].heap
    BY <1>6, <2>2
  <2>4. d.holds[l] # None
    <3>1. ~ \E x \in {y \in conc[k].heap : y.ttl <= -lag} : x.id = l
      BY <1>2, <1>4, <1>8, <2>1
    <3> QED
      BY <2>1, <3>1 DEF CleanupConcurrency
  <2>5. conc'[k].holds[l] # None
    <3> HIDE DEF d
    <3> QED
      BY <1>6, <2>1, <2>2, <2>4
  <2> QED
    BY <2>1, <2>3, <2>5
<1>9. defs'[k] # None /\ retired' = retired
  BY <1>1 DEF Backed, ReserveGranted
<1> QED
  BY <1>1, <1>7, <1>8, <1>9 DEF Backed, left, ours

\* ... and the new lease gets all of its own.
LEMMA GrantedBacks ==
  ASSUME NEW kindOf, Typed, Kinds(kindOf), NEW l \in Lease, NEW reqs \in Request,
         NEW lag \in 0 .. MaxLag, ReserveGranted(l, reqs, lag), Fresh(l),
         NEW k \in Key
  PROVE  Backed(l, k, kindOf)'
<1> DEFINE slot == CHOOSE s \in FreeSlots : TRUE
           ttl == defs[k].span - lag
           new == NewReservations(l, reqs, k, slot, ttl)
           d == CleanupConcurrency(conc[k], lag)
<1>1. leases'[l] = [requirements |-> reqs,
                    left |-> [j \in Key |-> IF j \in KeysOf(reqs) THEN Monus(defs[j].span, lag) ELSE 0]]
      /\ defs' = defs /\ retired' = retired /\ leases[l] = None
  BY TypedParts DEF ReserveGranted, Admissible
<1> SUFFICES ASSUME k \in KeysOf(reqs)
             PROVE  Backed(l, k, kindOf)'
  BY <1>1 DEF Backed
<1>2. defs[k] # None /\ defs[k].kind = kindOf[k]
      /\ leases'[l].left[k] = Monus(defs[k].span, lag)
  BY <1>1 DEF ReserveGranted, Admissible, Kinds
<1>3. ttl \in Int /\ (Monus(defs[k].span, lag) > 0 => ttl >= Monus(defs[k].span, lag))
  BY <1>2, SpanType, ConstantsAssumption DEF Monus
<1>4. ASSUME kindOf[k] = "rolling", Monus(defs[k].span, lag) > 0, NEW i \in DOMAIN reqs, reqs[i].key = k
      PROVE  \E e \in roll'[k].heap : Pays(e, l, reqs[i].amount, Monus(defs[k].span, lag))
  <2> DEFINE e == [ref |-> <<slot, i>>, id |-> l, amount |-> reqs[i].amount, ttl |-> ttl]
  <2>1. roll'[k].heap = CleanupRolling(roll[k], lag).heap \cup new
    BY <1>2, <1>4 DEF ReserveGranted, CleanRoll, AddRollingReservation, IsRolling
  <2>2. e \in new
    BY <1>4 DEF NewReservations
  <2>3. e.id = l /\ e.amount = reqs[i].amount /\ e.ttl = ttl
    OBVIOUS
  <2> HIDE DEF new, ttl, slot, e
  <2>4. Pays(e, l, reqs[i].amount, Monus(defs[k].span, lag))
    BY <1>3, <1>4, <2>3 DEF Pays
  <2> QED
    BY <2>1, <2>2, <2>4
<1>5. ASSUME kindOf[k] = "concurrency", Monus(defs[k].span, lag) > 0, l \notin retired
      PROVE  /\ \A x \in conc'[k].heap : x.id = l => x.ttl >= Monus(defs[k].span, lag)
             /\ conc'[k].holds[l] # None
  <2>1. /\ conc'[k].heap = d.heap \cup {[id |-> l, ttl |-> ttl]}
        /\ conc'[k].holds = [d.holds EXCEPT ![l] = ttl]
    BY <1>2, <1>5 DEF ReserveGranted, CleanConc, AddConcurrencyHold, IsConcurrency
  <2>2. \A x \in conc[k].heap : x.id # l
    BY <1>1, <1>5 DEF Fresh
  <2>3. d.heap \subseteq conc[k].heap /\ DOMAIN d.holds = Lease
    BY DEF CleanupConcurrency
  <2>4. ttl # None
    BY <1>3, ConstantsAssumption
  <2> HIDE DEF d, ttl
  <2> QED
    BY <1>3, <1>5, <2>1, <2>2, <2>3, <2>4
<1> QED
  BY <1>1, <1>2, <1>4, <1>5 DEF Backed

\* Complete of another lease takes none of this one's charges.
LEMMA CompleteKeeps ==
  ASSUME NEW kindOf, Typed, NEW h \in Lease, NEW actuals \in Actuals, Complete(h, actuals),
         NEW l \in Lease, l # h, NEW k \in Key, Pointing(roll[k]), Backed(l, k, kindOf)
  PROVE  Backed(l, k, kindOf)'
<1> DEFINE reqs == leases[h].requirements
           n == actuals[k]
           hit == {e \in roll[k].heap : e.ref = roll[k].byID[h] /\ n < e.amount}
           x == CHOOSE e \in hit : TRUE
<1>1. leases'[l] = leases[l] /\ defs' = defs /\ (l \notin retired' => l \notin retired)
  BY TypedParts DEF Complete
<1>2. roll' = ReconcileRolling(h, reqs, actuals) /\ conc' = ReleaseHolds(h, reqs)
  BY DEF Complete
<1> HIDE DEF reqs
<1>3. \A e \in roll[k].heap : e.id = l => e \in roll'[k].heap
  <2>1. CASE roll'[k] = roll[k]
    BY <2>1
  <2>2. CASE roll'[k] = ReduceRollingReservation(roll[k], h, n) /\ hit # {}
    <3>1. roll'[k].heap = (roll[k].heap \ {x})
                            \cup {[ref |-> x.ref, id |-> x.id, amount |-> n, ttl |-> x.ttl]}
      BY <2>2, ReduceHeap
    <3>2. x \in hit
      BY <2>2
    <3>3. x.ref = roll[k].byID[h] /\ x \in roll[k].heap /\ x.ref # None
      BY <3>2, TypedParts, ConstantsAssumption DEF WellFormed, RollingLimit
    <3> HIDE DEF x, hit
    <3>4. x.id = h
      BY <3>3 DEF Pointing
    <3> QED
      BY <3>1, <3>4
  <2>3. CASE roll'[k] = ReduceRollingReservation(roll[k], h, n) /\ hit = {}
    BY <2>1, <2>3 DEF ReduceRollingReservation
  <2> QED
    BY <1>2, <2>1, <2>2, <2>3 DEF ReconcileRolling
<1>4. conc'[k].heap = conc[k].heap /\ conc'[k].holds[l] = conc[k].holds[l]
  <2>1. conc[k].holds \in [Lease -> Int \cup {None}]
    BY TypedParts DEF ConcLimit
  <2> QED
    BY <1>2, <2>1 DEF ReleaseHolds, DropHold
<1> QED
  BY <1>1, <1>3, <1>4 DEF Backed, Pays

\* Time passes for a charge and for what was promised alike.
LEMMA TickKeeps ==
  ASSUME NEW kindOf, Typed, Tick, NEW l \in Lease, NEW k \in Key, Backed(l, k, kindOf)
  PROVE  Backed(l, k, kindOf)'
<1> SUFFICES ASSUME leases'[l] # None, k \in KeysOf(leases'[l].requirements)
             PROVE  Backed(l, k, kindOf)'
  BY DEF Backed
<1> DEFINE left == leases[l].left[k]
           later == leases'[l].left[k]
           reqs == leases[l].requirements
<1>1. leases[l] # None /\ leases'[l].requirements = reqs /\ later = Down(left, 0)
      /\ defs' = defs /\ retired' = retired
  BY DEF Tick
<1>2. left \in Nat /\ MaxLag \in Nat
  BY <1>1, TypedParts, ConstantsAssumption DEF LeaseState
<1>3. \A e \in roll[k].heap : e.ttl \in Int
  BY TypedParts DEF WellFormed, RollingLimit
<1>4. \A x \in conc[k].heap : x.ttl \in Int
  BY TypedParts DEF ConcLimit
<1> HIDE DEF left, later, reqs
<1>5. later > 0 => /\ left > 0
                   /\ \A t \in Int : t >= left => Down(t, -MaxLag) >= later
  BY <1>1, <1>2 DEF Down
<1>7. roll'[k].heap = {AgedReservation(e) : e \in roll[k].heap}
  BY DEF Tick, AgedRolling
<1>8. /\ conc'[k].heap = {[id |-> x.id, ttl |-> Down(x.ttl, -MaxLag)] : x \in conc[k].heap}
      /\ conc'[k].holds[l] = IF conc[k].holds[l] = None THEN None ELSE Down(conc[k].holds[l], -MaxLag)
  BY DEF Tick, AgedConc
<1>9. ASSUME kindOf[k] = "rolling", later > 0, NEW i \in DOMAIN reqs, reqs[i].key = k
      PROVE  \E e \in roll'[k].heap : Pays(e, l, reqs[i].amount, later)
  <2>1. PICK e \in roll[k].heap : Pays(e, l, reqs[i].amount, left)
    BY <1>1, <1>5, <1>9 DEF Backed, left, reqs
  <2>2. /\ AgedReservation(e).id = e.id /\ AgedReservation(e).amount = e.amount
        /\ AgedReservation(e).ttl = Down(e.ttl, -MaxLag)
    BY DEF AgedReservation
  <2>3. Pays(AgedReservation(e), l, reqs[i].amount, later)
    BY <1>3, <1>5, <1>9, <2>1, <2>2 DEF Pays
  <2> QED
    BY <1>7, <2>3
<1>10. ASSUME kindOf[k] = "concurrency", later > 0, l \notin retired
       PROVE  /\ \A x \in conc'[k].heap : x.id = l => x.ttl >= later
              /\ conc'[k].holds[l] # None
  <2>1. /\ \A x \in conc[k].heap : x.id = l => x.ttl >= left
        /\ conc[k].holds[l] # None
    BY <1>1, <1>5, <1>10 DEF Backed, left, reqs
  <2>2. conc[k].holds[l] \in Int \cup {None}
    BY TypedParts DEF ConcLimit
  <2>3. Down(conc[k].holds[l], -MaxLag) \in Int
    BY <1>2, <2>1, <2>2 DEF Down
  <2>4. \A x \in conc'[k].heap : x.id = l => x.ttl >= later
    BY <1>4, <1>5, <1>8, <1>10, <2>1
  <2>5. conc'[k].holds[l] # None
    BY <1>8, <2>1, <2>3, ConstantsAssumption
  <2> QED
    BY <2>4, <2>5
<1>11. defs'[k] # None
  BY <1>1 DEF Backed, reqs
<1> QED
  BY <1>1, <1>9, <1>10, <1>11 DEF Backed, later

\* What no step leaves behind of a lease that was never granted.
LEMMA NextFresh ==
  ASSUME Typed, [Next]_vars, NEW l \in Lease, Fresh(l)
  PROVE  Fresh(l)'
<1> SUFFICES ASSUME leases'[l] = None, l \notin retired', NEW k \in Key
             PROVE  \A h \in conc'[k].heap : h.id # l
  BY DEF Fresh
<1>1. \A lag : CleanupConcurrency(conc[k], lag).heap \subseteq conc[k].heap
  BY DEF CleanupConcurrency
<1>2. CASE UNCHANGED vars
  BY <1>2 DEF vars, Fresh
<1>3. ASSUME NEW h \in Lease, NEW reqs \in Request, NEW lag \in 0 .. MaxLag,
             ReserveDenied(h, reqs, lag)
      PROVE  \A x \in conc'[k].heap : x.id # l
  BY <1>1, <1>3 DEF ReserveDenied, CleanConc, Fresh
<1>4. ASSUME NEW h \in Lease, NEW reqs \in Request, NEW lag \in 0 .. MaxLag,
             ReserveGranted(h, reqs, lag)
      PROVE  \A x \in conc'[k].heap : x.id # l
  <2>1. leases' = [leases EXCEPT ![h] =
                      [requirements |-> reqs,
                       left |-> [j \in Key |-> IF j \in KeysOf(reqs) THEN Monus(defs[j].span, lag) ELSE 0]]]
        /\ UNCHANGED retired
    BY <1>4 DEF ReserveGranted
  <2>2. leases'[h] # None
    <3>1. \A j \in KeysOf(reqs) : j \in Key /\ defs[j] # None
      <4>1. \A i \in DOMAIN reqs : reqs[i] \in Requirement
        BY ConstantsAssumption
      <4> QED
        BY <1>4, <4>1 DEF ReserveGranted, Admissible, KeysOf, Requirement
    <3>2. \A j \in KeysOf(reqs) : Monus(defs[j].span, lag) \in Nat
      BY <3>1, SpanType, ConstantsAssumption DEF Monus
    <3>3. leases'[h] \in LeaseState
      BY <2>1, <3>2, TypedParts DEF LeaseState
    <3> QED
      BY <3>3, ConstantsAssumption
  <2>3. h # l /\ leases[l] = None
    BY <2>1, <2>2, TypedParts
  <2>4. \/ conc'[k] = conc[k]
        \/ conc'[k].heap = CleanupConcurrency(conc[k], lag).heap
                             \cup {[id |-> h, ttl |-> defs[k].span - lag]}
    BY <1>4 DEF ReserveGranted, CleanConc, AddConcurrencyHold
  <2> QED
    BY <1>1, <2>1, <2>3, <2>4 DEF Fresh
<1>5. ASSUME NEW h \in Lease, NEW actuals \in Actuals, Complete(h, actuals)
      PROVE  \A x \in conc'[k].heap : x.id # l
  <2>1. h # l /\ l \notin retired /\ leases[l] = None
    BY <1>5, TypedParts DEF Complete
  <2>2. conc'[k].heap = conc[k].heap
    BY <1>5 DEF Complete, ReleaseHolds, DropHold
  <2> QED
    BY <2>1, <2>2 DEF Fresh
<1>6. ASSUME NEW def \in Definition, ApplyDefinition(def)
      PROVE  \A x \in conc'[k].heap : x.id # l
  <2>1. conc'[k].heap = conc[k].heap /\ UNCHANGED <<leases, retired>>
    BY <1>6, TypedParts DEF ApplyDefinition, ApplyIncrease, ApplyDecrease, ConcWithCapacity
  <2> QED
    BY <2>1 DEF Fresh
<1>7. CASE Tick
  <2>1. leases[l] = None /\ l \notin retired
    <3>1. leases[l] # None => leases[l] \in LeaseState
      BY TypedParts
    <3>2. leases[l] # None => leases'[l] \in LeaseState
      BY <1>7, <3>1 DEF Tick, LeaseState, Down
    <3> QED
      BY <1>7, <3>2, ConstantsAssumption DEF Tick
  <2>2. \A x \in conc'[k].heap : \E y \in conc[k].heap : y.id = x.id
    BY <1>7 DEF Tick, AgedConc
  <2> QED
    BY <2>1, <2>2 DEF Fresh
<1>8. ASSUME NEW key \in Key, TryApplyDecrease(key)
      PROVE  \A x \in conc'[k].heap : x.id # l
  <2>1. conc'[k].heap \in {conc[k].heap, CleanupConcurrency(conc[k], 0).heap}
        /\ UNCHANGED <<leases, retired>>
    BY <1>8, TypedParts
    DEF TryApplyDecrease, DecreaseWaits, DecreaseApplies, CleanupLocked, ConcWithCapacity
  <2> QED
    BY <1>1, <2>1 DEF Fresh
<1> QED
  BY <1>2, <1>3, <1>4, <1>5, <1>6, <1>7, <1>8
  DEF Next, ServerNext, ReserveRejected, CompleteUnknown

\* No operation on a window leaves a stale entry in byID.
LEMMA CleanupPoints ==
  ASSUME NEW limit \in RollingLimit, Pointing(limit), NEW lag \in Nat
  PROVE  Pointing(CleanupRolling(limit, lag))
<1> DEFINE c == CleanupRolling(limit, lag)
<1> SUFFICES ASSUME NEW l \in Lease, c.byID[l] # None
             PROVE  /\ \E e \in c.heap : e.ref = c.byID[l]
                    /\ \A e \in c.heap : e.ref = c.byID[l] => e.id = l
  BY DEF Pointing
<1>1. c.byID[l] = limit.byID[l] /\ ~ \E e \in {x \in limit.heap : x.ttl <= -lag} : e.id = l
  BY DEF CleanupRolling
<1>2. PICK e \in limit.heap : e.ref = limit.byID[l]
  BY <1>1 DEF Pointing
<1>3. e.id = l
  BY <1>1, <1>2 DEF Pointing
<1>4. e \in c.heap /\ c.heap \subseteq limit.heap
  BY <1>1, <1>3 DEF CleanupRolling
<1> QED
  BY <1>1, <1>2, <1>4 DEF Pointing

LEMMA AddPoints ==
  ASSUME NEW limit \in RollingLimit, Pointing(limit), NEW l \in Lease, NEW reqs \in Request,
         NEW k \in KeysOf(reqs), NEW slot \in Slot, NEW ttl,
         \A e \in limit.heap : e.ref[1] # slot
  PROVE  Pointing(AddRollingReservation(limit, l, reqs, k, slot, ttl))
<1> DEFINE new == NewReservations(l, reqs, k, slot, ttl)
           last == LastIndex(reqs, k)
           a == AddRollingReservation(limit, l, reqs, k, slot, ttl)
<1>1. last \in DOMAIN reqs /\ reqs[last].key = k
  BY LastIndexType
<1>2. a.heap = limit.heap \cup new /\ a.byID = [limit.byID EXCEPT ![l] = <<slot, last>>]
  BY DEF AddRollingReservation
<1>3. limit.byID \in [Lease -> (Slot \X Nat) \cup {None}]
  BY DEF RollingLimit
<1>4. \A e \in new : e.id = l /\ e.ref[1] = slot
  BY DEF NewReservations
<1>5. \E e \in new : e.ref = <<slot, last>>
  <2>1. [ref |-> <<slot, last>>, id |-> l, amount |-> reqs[last].amount, ttl |-> ttl] \in new
    BY <1>1 DEF NewReservations
  <2> HIDE DEF new, last
  <2> QED
    BY <2>1
<1> HIDE DEF new, last, a
<1>6. ASSUME NEW h \in Lease, a.byID[h] # None
      PROVE  /\ \E e \in a.heap : e.ref = a.byID[h]
             /\ \A e \in a.heap : e.ref = a.byID[h] => e.id = h
  <2>1. CASE h = l
    <3>1. a.byID[h] = <<slot, last>>
      BY <1>2, <1>3, <2>1
    <3> QED
      BY <1>2, <1>4, <1>5, <2>1, <3>1
  <2>2. CASE h # l
    <3>1. a.byID[h] = limit.byID[h]
      BY <1>2, <1>3, <2>2
    <3>2. PICK e \in limit.heap : e.ref = limit.byID[h]
      BY <1>6, <3>1 DEF Pointing
    <3>3. \A x \in new : x.ref # limit.byID[h]
      BY <1>4, <3>2
    <3> QED
      BY <1>2, <1>6, <3>1, <3>2, <3>3 DEF Pointing
  <2> QED
    BY <2>1, <2>2
<1> QED
  BY <1>6 DEF Pointing, a

LEMMA ReducePoints ==
  ASSUME NEW limit, Pointing(limit), NEW l, NEW n
  PROVE  Pointing(ReduceRollingReservation(limit, l, n))
<1> DEFINE hit == {e \in limit.heap : e.ref = limit.byID[l] /\ n < e.amount}
           x == CHOOSE e \in hit : TRUE
           y == [ref |-> x.ref, id |-> x.id, amount |-> n, ttl |-> x.ttl]
           r == ReduceRollingReservation(limit, l, n)
<1>1. CASE hit = {}
  BY <1>1 DEF ReduceRollingReservation
<1>2. CASE hit # {}
  <2>1. x \in limit.heap
    BY <1>2
  <2>2. r.heap = (limit.heap \ {x}) \cup {y}
    BY <1>2, ReduceHeap
  <2>3. r.byID = limit.byID
    BY <1>2 DEF ReduceRollingReservation
  <2>4. y.ref = x.ref /\ y.id = x.id
    OBVIOUS
  <2> HIDE DEF x, y, r, hit
  <2>5. Pointing(r)
    BY <2>1, <2>2, <2>3, <2>4 DEF Pointing
  <2> QED
    BY <2>5 DEF r
<1> QED
  BY <1>1, <1>2

LEMMA AgedPoints ==
  ASSUME NEW limit, Pointing(limit)
  PROVE  Pointing(AgedRolling(limit))
<1>1. /\ AgedRolling(limit).byID = limit.byID
      /\ AgedRolling(limit).heap = {AgedReservation(e) : e \in limit.heap}
  BY DEF AgedRolling
<1>2. \A e : AgedReservation(e).ref = e.ref /\ AgedReservation(e).id = e.id
  BY DEF AgedReservation
<1> QED
  BY <1>1, <1>2 DEF Pointing

\* So no step does.
LEMMA NextPoints ==
  ASSUME Typed, NEW k \in Key, Pointing(roll[k]), [Next]_vars
  PROVE  Pointing(roll'[k])
<1>1. roll[k] \in RollingLimit
  BY TypedParts DEF WellFormed
<1>2. \A lag \in 0 .. MaxLag : Pointing(CleanupRolling(roll[k], lag))
  BY <1>1, CleanupPoints, ConstantsAssumption
<1>3. CASE UNCHANGED vars
  BY <1>3 DEF vars
<1>4. ASSUME NEW h \in Lease, NEW reqs \in Request, NEW lag \in 0 .. MaxLag,
             ReserveDenied(h, reqs, lag)
      PROVE  Pointing(roll'[k])
  BY <1>2, <1>4 DEF ReserveDenied, CleanRoll
<1>5. ASSUME NEW h \in Lease, NEW reqs \in Request, NEW lag \in 0 .. MaxLag,
             ReserveGranted(h, reqs, lag)
      PROVE  Pointing(roll'[k])
  <2> DEFINE slot == CHOOSE s \in FreeSlots : TRUE
             c == CleanupRolling(roll[k], lag)
  <2>1. slot \in FreeSlots
    BY <1>5 DEF ReserveGranted
  <2>2. slot \in Slot /\ \A e \in c.heap : e.ref[1] # slot
    BY <2>1 DEF FreeSlots, SlotsInUse, CleanupRolling
  <2>3. c \in RollingLimit
    BY <1>1, TypedParts, CleanupType, ConstantsAssumption DEF WellFormed
  <2>4. \/ roll'[k] = roll[k]
        \/ k \in KeysOf(reqs) /\ roll'[k] = AddRollingReservation(c, h, reqs, k, slot, defs[k].span - lag)
    BY <1>5 DEF ReserveGranted, CleanRoll
  <2> HIDE DEF slot, c
  <2> QED
    BY <1>2, <2>2, <2>3, <2>4, AddPoints DEF c
<1>6. ASSUME NEW h \in Lease, NEW actuals \in Actuals, Complete(h, actuals)
      PROVE  Pointing(roll'[k])
  BY <1>6, ReducePoints DEF Complete, ReconcileRolling
<1>7. ASSUME NEW def \in Definition, ApplyDefinition(def)
      PROVE  Pointing(roll'[k])
  <2>1. roll'[k].heap = roll[k].heap /\ roll'[k].byID = roll[k].byID
    BY <1>7, TypedParts DEF ApplyDefinition, ApplyIncrease, ApplyDecrease, RollWithCapacity
  <2> QED
    BY <2>1 DEF Pointing
<1>8. CASE Tick
  BY <1>8, AgedPoints DEF Tick
<1>9. ASSUME NEW key \in Key, TryApplyDecrease(key)
      PROVE  Pointing(roll'[k])
  <2>1. \/ roll'[k].heap = roll[k].heap /\ roll'[k].byID = roll[k].byID
        \/ /\ roll'[k].heap = CleanupRolling(roll[k], 0).heap
           /\ roll'[k].byID = CleanupRolling(roll[k], 0).byID
    BY <1>9, TypedParts
    DEF TryApplyDecrease, DecreaseWaits, DecreaseApplies, CleanupLocked, RollWithCapacity
  <2>2. Pointing(CleanupRolling(roll[k], 0))
    BY <1>2, ConstantsAssumption
  <2> QED
    BY <2>1, <2>2 DEF Pointing
<1> QED
  BY <1>3, <1>4, <1>5, <1>6, <1>7, <1>8, <1>9
  DEF Next, ServerNext, ReserveRejected, CompleteUnknown

\* Every step keeps every lease backed.
LEMMA NextBacked ==
  ASSUME NEW kindOf, KindMap(kindOf), LeaseInv(kindOf), [Next]_vars,
         NEW l \in Lease, NEW k \in Key
  PROVE  Backed(l, k, kindOf)'
<1>1. Typed /\ Kinds(kindOf) /\ Pointing(roll[k]) /\ Fresh(l) /\ Backed(l, k, kindOf)
  BY DEF LeaseInv
<1>2. 0 \in 0 .. MaxLag
  BY ConstantsAssumption
<1>3. CASE UNCHANGED vars
  BY <1>1, <1>3 DEF vars, Backed
<1>4. ASSUME NEW h \in Lease, NEW reqs \in Request, NEW lag \in 0 .. MaxLag,
             ReserveDenied(h, reqs, lag)
      PROVE  Backed(l, k, kindOf)'
  <2>1. roll'[k] \in {roll[k], CleanupRolling(roll[k], lag)}
    BY <1>4 DEF ReserveDenied, CleanRoll
  <2>2. conc'[k] \in {conc[k], CleanupConcurrency(conc[k], lag)}
    BY <1>4 DEF ReserveDenied, CleanConc
  <2>3. leases' = leases /\ defs' = defs /\ retired' = retired
    BY <1>4 DEF ReserveDenied
  <2> QED
    BY <1>1, <2>1, <2>2, <2>3, CleanupKeeps
<1>5. ASSUME NEW h \in Lease, NEW reqs \in Request, NEW lag \in 0 .. MaxLag,
             ReserveGranted(h, reqs, lag)
      PROVE  Backed(l, k, kindOf)'
  BY <1>1, <1>5, GrantedKeeps, GrantedBacks
<1>6. ASSUME NEW h \in Lease, NEW actuals \in Actuals, Complete(h, actuals)
      PROVE  Backed(l, k, kindOf)'
  <2>1. CASE h = l
    <3>1. leases'[l] = None
      BY <1>1, <1>6, <2>1, TypedParts DEF Complete
    <3> QED
      BY <3>1 DEF Backed
  <2> QED
    BY <1>1, <1>6, <2>1, CompleteKeeps
<1>7. ASSUME NEW def \in Definition, ApplyDefinition(def)
      PROVE  Backed(l, k, kindOf)'
  <2>1. /\ conc'[k].heap = conc[k].heap /\ conc'[k].holds = conc[k].holds
        /\ roll'[k].heap = roll[k].heap /\ UNCHANGED <<leases, retired>>
    BY <1>1, <1>7, TypedParts
    DEF ApplyDefinition, ApplyIncrease, ApplyDecrease, RollWithCapacity, ConcWithCapacity
  <2>2. defs'[k] \in {defs[k], def}
    BY <1>1, <1>7, TypedParts DEF ApplyDefinition, ApplyIncrease, ApplyDecrease
  <2>3. def # None
    BY ConstantsAssumption
  <2> QED
    BY <1>1, <1>2, <2>1, <2>2, <2>3, CleanupKeeps
<1>8. CASE Tick
  BY <1>1, <1>8, TickKeeps
<1>9. ASSUME NEW key \in Key, TryApplyDecrease(key)
      PROVE  Backed(l, k, kindOf)'
  <2>1. roll'[k].heap \in {roll[k].heap, CleanupRolling(roll[k], 0).heap}
        /\ UNCHANGED <<leases, retired>>
    BY <1>1, <1>9, TypedParts
    DEF TryApplyDecrease, DecreaseWaits, DecreaseApplies, CleanupLocked, RollWithCapacity
  <2>2. \/ conc'[k].heap = conc[k].heap /\ conc'[k].holds = conc[k].holds
        \/ /\ conc'[k].heap = CleanupConcurrency(conc[k], 0).heap
           /\ conc'[k].holds = CleanupConcurrency(conc[k], 0).holds
    BY <1>1, <1>9, TypedParts
    DEF TryApplyDecrease, DecreaseWaits, DecreaseApplies, CleanupLocked, ConcWithCapacity
  <2>3. defs[k] # None => defs'[k] # None
    <3>1. CASE DecreaseWaits(key)
      BY <3>1 DEF DecreaseWaits
    <3>2. CASE DecreaseApplies(key)
      <4> DEFINE new == [states[key].definition EXCEPT !.capacity = states[key].pending]
      <4>1. states[key] \in LimitState /\ states[key].pending # 0
        BY <1>1, <3>2, TypedParts DEF DecreaseApplies, PendingDecrease, Decreasing
      <4>2. new \in LimitDefinition
        BY <4>1 DEF LimitDefinition, LimitState
      <4>3. new # None
        BY <4>2, ConstantsAssumption
      <4>4. defs' = [defs EXCEPT ![key] = new]
        BY <3>2 DEF DecreaseApplies
      <4> HIDE DEF new
      <4> QED
        BY <1>1, <4>3, <4>4, TypedParts
    <3> QED
      BY <1>9, <3>1, <3>2 DEF TryApplyDecrease
  <2> QED
    BY <1>1, <1>2, <2>1, <2>2, <2>3, CleanupKeeps
<1> QED
  BY <1>3, <1>4, <1>5, <1>6, <1>7, <1>8, <1>9
  DEF Next, ServerNext, ReserveRejected, CompleteUnknown

LEMMA InitLeases ==
  ASSUME NEW kindOf, KindMap(kindOf), Init
  PROVE  LeaseInv(kindOf)
<1>1. Typed
  BY InitTyped
<1>2. Kinds(kindOf)
  BY DEF Init, Kinds, KindMap, DefinitionIn
<1>3. \A l \in Lease : leases[l] = None /\ \A k \in Key : conc[k].heap = {}
  BY DEF Init, NewConcLimit
<1>4. \A k \in Key : Pointing(roll[k])
  BY DEF Init, NewRollingLimit, Pointing
<1> QED
  BY <1>1, <1>2, <1>3, <1>4 DEF LeaseInv, Fresh, Backed

LEMMA LeasesGive ==
  ASSUME NEW kindOf, KindMap(kindOf), LeaseInv(kindOf)
  PROVE  LeaseBacked
<1> SUFFICES ASSUME NEW l \in Lease, leases[l] # None,
                    NEW i \in DOMAIN leases[l].requirements,
                    leases[l].left[leases[l].requirements[i].key] > 0
             PROVE  LET k == leases[l].requirements[i].key
                    IN  \/ IsRolling(k) /\ \E e \in roll[k].heap :
                             Pays(e, l, leases[l].requirements[i].amount, leases[l].left[k])
                        \/ IsConcurrency(k) /\ (conc[k].holds[l] # None \/ l \in retired)
  BY DEF LeaseBacked, Pays
<1> DEFINE k == leases[l].requirements[i].key
<1>1. k \in Key /\ k \in KeysOf(leases[l].requirements)
  <2>1. leases[l].requirements \in Seq(Requirement)
    BY TypedParts, ConstantsAssumption DEF LeaseInv, LeaseState
  <2>2. leases[l].requirements[i] \in Requirement
    BY <2>1
  <2> QED
    BY <2>2 DEF KeysOf, Requirement
<1>2. Backed(l, k, kindOf) /\ Kinds(kindOf) /\ kindOf[k] \in {"rolling", "concurrency"}
  BY <1>1 DEF LeaseInv, KindMap
<1> QED
  BY <1>1, <1>2 DEF Backed, Kinds, IsRolling, IsConcurrency

\* When no limit changes its kind: a live lease keeps every charge of its
\* request, on all of its keys and with its whole amount, until that charge's
\* own window or timeout is over, whatever other leases, late duplicates,
\* cleanups with any stamp, capacity changes and reconciliations do; but for
\* the holds of leases granted again after their Complete.
THEOREM LeasesBacked ==
  ASSUME KindStable
  PROVE  Spec => []LeaseBacked
<1>1. PICK kindOf : KindMap(kindOf)
  BY DEF KindStable, KindMap
<1>2. Init => LeaseInv(kindOf)
  BY <1>1, InitLeases
<1>3. LeaseInv(kindOf) /\ [Next]_vars => LeaseInv(kindOf)'
  <2> SUFFICES ASSUME LeaseInv(kindOf), [Next]_vars PROVE LeaseInv(kindOf)'
    OBVIOUS
  <2>1. Typed'
    BY NextTyped DEF LeaseInv
  <2>2. Kinds(kindOf)'
    BY <1>1, NextKinds DEF LeaseInv
  <2>3. \A l \in Lease : Fresh(l)'
    BY NextFresh DEF LeaseInv
  <2>4. \A l \in Lease : \A k \in Key : Backed(l, k, kindOf)'
    BY <1>1, NextBacked
  <2>5. \A k \in Key : Pointing(roll'[k])
    BY NextPoints DEF LeaseInv
  <2> QED
    BY <2>1, <2>2, <2>3, <2>4, <2>5 DEF LeaseInv, Pointing
<1>4. LeaseInv(kindOf) => LeaseBacked
  BY <1>1, LeasesGive
<1> QED
  BY <1>2, <1>3, <1>4, PTL DEF Spec
=============================================================================
