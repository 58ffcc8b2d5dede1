---------------------------- MODULE MemoryBackend ----------------------------
(***************************************************************************)
(* The in-process limiter backend (internal/backend/memory).  Every        *)
(* operation runs under one mutex, so each is one atomic action.           *)
(*                                                                         *)
(* Times are relative.  The code stores an absolute expiresAt; the model   *)
(* stores ttl = expiresAt - clock, which Tick decrements, so that the      *)
(* clock needs no bound.  The HTTP handler reads the clock before it takes *)
(* the mutex, so a Reserve works with a stamp that lags the clock by `lag' *)
(* in 0..MaxLag.  expiresAt.After(at) is therefore ttl > -lag.             *)
(*                                                                         *)
(* A request of any lease may arrive at any time: the network and the      *)
(* clients' timeouts delay and repeat requests, so that a Reserve may come *)
(* after the Complete of its lease.                                        *)
(***************************************************************************)
EXTENDS Integers, FiniteSets, Sequences

CONSTANTS
  Key,            \* limit keys
  Lease,          \* lease ids (ULIDs)
  Slot,           \* bounds the grants whose rolling reservations are alive
  Definition,     \* limit definitions the admin may PUT
  Persisted,      \* registry contents the backend may be started with
  Request,        \* requirement lists of Reserve
  Actuals,        \* reported usage of Complete: functions from some keys
  MaxLag,         \* how far a request's time stamp may lag the clock
  Word,           \* 2^64 in the code: the modulus of uint64 arithmetic
  None            \* the absent map entry

Requirement == [key : Key, amount : Nat \ {0}]

\* span is WindowSeconds of a rolling limit, TimeoutSeconds of a
\* concurrency limit.
LimitDefinition ==
  [key : Key, kind : {"rolling", "concurrency"}, capacity : Nat \ {0},
   span : Nat \ {0}, overage : {"debt", "deny"}]

LimitState ==
  [definition : LimitDefinition, status : {"active", "decreasing"}, pending : Nat]

LeaseState == [requirements : Request, left : [Key -> Nat]]

ASSUME ConstantsAssumption ==
  /\ IsFiniteSet(Lease)
  /\ Definition \subseteq LimitDefinition
  /\ Request \subseteq Seq(Requirement)
  /\ Persisted \subseteq [Key -> LimitState \cup {None}]
  /\ \A p \in Persisted : \A k \in Key : p[k] # None => p[k].definition.key = k
  /\ \A a \in Actuals : DOMAIN a \subseteq Key /\ \A k \in DOMAIN a : a[k] \in Nat
  /\ MaxLag \in Nat
  /\ Word \in Nat \ {0}
  /\ None \notin LimitDefinition \cup LimitState
  /\ None \notin LeaseState
  /\ None \notin Slot \X Nat
  /\ None \notin Int

VARIABLES
  defs,     \* m.defs: the definition in force
  states,   \* m.states: definition, status and pending decrease
  roll,     \* m.roll: rolling windows
  conc,     \* m.conc: concurrency holds
  debt,     \* m.debt: recorded overage
  leases,   \* m.leases: granted and not yet completed
  retired   \* history: the leases some Complete has ended

vars == <<defs, states, roll, conc, debt, leases, retired>>
-----------------------------------------------------------------------------
(* Rolling windows: cap, the used counter, the heap, and byID, which       *)
(* points at the newest reservation of a lease.  A heap element is a       *)
(* pointer in the code; ref is its identity here.                          *)

KeysOf(reqs) == {reqs[i].key : i \in DOMAIN reqs}

\* The amounts of a set of reservations laid out as unit charges, so that
\* their sum is a cardinality.
Units(H) == UNION {{e} \X (1 .. e.amount) : e \in H}
Weight(H) == Cardinality(Units(H))

\* Subtraction as cleanupRolling and reduceRollingReservation do it.
Monus(a, b) == IF a >= b THEN a - b ELSE 0

NewRollingLimit(n) ==
  [cap |-> n, used |-> 0, heap |-> {}, byID |-> [l \in Lease |-> None]]

\* MUTANT: gives back one unit for each expired reservation.
CleanupByCount(limit, lag) ==
  LET gone == {e \in limit.heap : e.ttl <= -lag}
  IN  [cap  |-> limit.cap,
       used |-> Monus(limit.used, Cardinality(gone)),
       heap |-> limit.heap \ gone,
       byID |-> [l \in Lease |->
                   IF \E e \in gone : e.id = l THEN None ELSE limit.byID[l]]]

CleanupRolling(limit, lag) ==
  LET gone == {e \in limit.heap : e.ttl <= -lag}
  IN  [cap  |-> limit.cap,
       used |-> Monus(limit.used, Weight(gone)),
       heap |-> limit.heap \ gone,
       byID |-> [l \in Lease |->
                   IF \E e \in gone : e.id = l THEN None ELSE limit.byID[l]]]

\* The reservations a granted request adds to one window.
NewReservations(l, reqs, k, slot, ttl) ==
  {[ref |-> <<slot, i>>, id |-> l, amount |-> reqs[i].amount, ttl |-> ttl] :
     i \in {j \in DOMAIN reqs : reqs[j].key = k}}

LastIndex(reqs, k) ==
  CHOOSE i \in DOMAIN reqs : /\ reqs[i].key = k
                             /\ \A j \in DOMAIN reqs : reqs[j].key = k => j <= i

AddRollingReservation(limit, l, reqs, k, slot, ttl) ==
  LET new == NewReservations(l, reqs, k, slot, ttl)
  IN  [cap  |-> limit.cap,
       used |-> (limit.used + Weight(new)) % Word,
       heap |-> limit.heap \cup new,
       byID |-> [limit.byID EXCEPT ![l] = <<slot, LastIndex(reqs, k)>>]]

\* MUTANT: lowers the counter and forgets the reservation's own amount.
ReduceCounterOnly(limit, l, newAmount) ==
  LET hit == {e \in limit.heap : e.ref = limit.byID[l] /\ newAmount < e.amount}
      e   == CHOOSE x \in hit : TRUE
  IN  IF hit = {} THEN limit
      ELSE [limit EXCEPT !.used = Monus(@, e.amount - newAmount)]

ReduceRollingReservation(limit, l, newAmount) ==
  LET hit == {e \in limit.heap : e.ref = limit.byID[l] /\ newAmount < e.amount}
      e   == CHOOSE x \in hit : TRUE
  IN  IF hit = {} THEN limit
      ELSE [cap  |-> limit.cap,
            used |-> Monus(limit.used, e.amount - newAmount),
            heap |-> (limit.heap \ {e})
                       \cup {[ref |-> e.ref, id |-> e.id, amount |-> newAmount, ttl |-> e.ttl]},
            byID |-> limit.byID]
-----------------------------------------------------------------------------
(* Concurrency limits: holds maps a lease to its expiry.  Complete removes *)
(* the hold but leaves its heap element behind.                            *)

NewConcLimit(n) == [cap |-> n, holds |-> [l \in Lease |-> None], heap |-> {}]

Held(limit) == {l \in Lease : limit.holds[l] # None}

\* MUTANT: a hold expires one unit of time early.
CleanupEarly(limit, lag) ==
  LET gone == {h \in limit.heap : h.ttl <= 1 - lag}
  IN  [cap   |-> limit.cap,
       holds |-> [l \in Lease |->
                    IF \E h \in gone : h.id = l THEN None ELSE limit.holds[l]],
       heap  |-> limit.heap \ gone]

CleanupConcurrency(limit, lag) ==
  LET gone == {h \in limit.heap : h.ttl <= -lag}
  IN  [cap   |-> limit.cap,
       holds |-> [l \in Lease |->
                    IF \E h \in gone : h.id = l THEN None ELSE limit.holds[l]],
       heap  |-> limit.heap \ gone]

AddConcurrencyHold(limit, l, ttl) ==
  [cap   |-> limit.cap,
   holds |-> [limit.holds EXCEPT ![l] = ttl],
   heap  |-> limit.heap \cup {[id |-> l, ttl |-> ttl]}]

DropHold(limit, l) ==
  [cap |-> limit.cap, holds |-> [limit.holds EXCEPT ![l] = None], heap |-> limit.heap]
-----------------------------------------------------------------------------
(* Reserve.                                                                *)

IsRolling(k) == defs[k] # None /\ defs[k].kind = "rolling"
IsConcurrency(k) == defs[k] # None /\ defs[k].kind = "concurrency"

Decreasing(k) == states[k] # None /\ states[k].status = "decreasing"

\* The windows and holds after the cleanup loop over the requested keys.
CleanRoll(reqs, lag) ==
  [k \in Key |-> IF k \in KeysOf(reqs) /\ IsRolling(k)
                 THEN CleanupRolling(roll[k], lag) ELSE roll[k]]
CleanConc(reqs, lag) ==
  [k \in Key |-> IF k \in KeysOf(reqs) /\ IsConcurrency(k)
                 THEN CleanupConcurrency(conc[k], lag) ELSE conc[k]]

\* MUTANT: compares what is held before the new hold.
FitsOffByOne(r, lag) ==
  /\ IsRolling(r.key) =>
       (CleanupRolling(roll[r.key], lag).used + r.amount) % Word <= roll[r.key].cap
  /\ IsConcurrency(r.key) =>
       Cardinality(Held(CleanupConcurrency(conc[r.key], lag))) <= conc[r.key].cap

\* The feasibility check of one requirement, on its own.
Fits(r, lag) ==
  /\ IsRolling(r.key) =>
       (CleanupRolling(roll[r.key], lag).used + r.amount) % Word <= roll[r.key].cap
  /\ IsConcurrency(r.key) =>
       Cardinality(Held(CleanupConcurrency(conc[r.key], lag))) + 1 <= conc[r.key].cap

\* MUTANT: no lookup of the lease in m.leases.
AdmissibleAgain(l, reqs) ==
  reqs # <<>> /\ \A k \in KeysOf(reqs) : defs[k] # None /\ ~Decreasing(k)

\* MUTANT: a decreasing limit still grants.
AdmissibleDecreasing(l, reqs) ==
  reqs # <<>> /\ leases[l] = None /\ \A k \in KeysOf(reqs) : defs[k] # None

\* What Reserve gets past its early returns with: some requirement, a lease
\* it does not know and keys that are defined and not decreasing.
Admissible(l, reqs) ==
  /\ reqs # <<>>
  /\ leases[l] = None
  /\ \A k \in KeysOf(reqs) : defs[k] # None /\ ~Decreasing(k)

\* invalid_request, a known lease (idempotent answer or invalid_request),
\* limit_decreasing or unknown_limit_key: nothing changes.
ReserveRejected(l, reqs) ==
  /\ ~Admissible(l, reqs)
  /\ UNCHANGED vars

\* Some requirement does not fit: only the cleanup has an effect.
ReserveDenied(l, reqs, lag) ==
  /\ Admissible(l, reqs)
  /\ \E i \in DOMAIN reqs : ~Fits(reqs[i], lag)
  /\ roll' = CleanRoll(reqs, lag)
  /\ conc' = CleanConc(reqs, lag)
  /\ UNCHANGED <<defs, states, debt, leases, retired>>

SlotsInUse == UNION {{e.ref[1] : e \in roll[k].heap} : k \in Key}
FreeSlots == Slot \ SlotsInUse

\* All requirements fit: charge them all and remember the lease.  left is
\* history: for how long each charge counts from now on.
ReserveGranted(l, reqs, lag) ==
  LET slot == CHOOSE s \in FreeSlots : TRUE
  IN  /\ Admissible(l, reqs)
      /\ \A i \in DOMAIN reqs : Fits(reqs[i], lag)
      /\ FreeSlots # {}
      /\ roll' = [k \in Key |->
                    IF k \in KeysOf(reqs) /\ IsRolling(k)
                    THEN AddRollingReservation(CleanRoll(reqs, lag)[k], l, reqs, k,
                                               slot, defs[k].span - lag)
                    ELSE roll[k]]
      /\ conc' = [k \in Key |->
                    IF k \in KeysOf(reqs) /\ IsConcurrency(k)
                    THEN AddConcurrencyHold(CleanConc(reqs, lag)[k], l,
                                            defs[k].span - lag)
                    ELSE conc[k]]
      /\ leases' = [leases EXCEPT ![l] =
                      [requirements |-> reqs,
                       left |-> [k \in Key |-> IF k \in KeysOf(reqs)
                                           THEN Monus(defs[k].span, lag) ELSE 0]]]
      /\ UNCHANGED <<defs, states, debt, retired>>
-----------------------------------------------------------------------------
(* Complete.                                                               *)

\* indexByKey: the last requirement of a key wins, an absent key reads 0.
ReservedAmount(reqs, k) ==
  IF k \in KeysOf(reqs) THEN reqs[LastIndex(reqs, k)].amount ELSE 0

\* MUTANT: sets the reservation to the actual usage, more or less.
ReconcileBothWays(l, reqs, actuals) ==
  [k \in Key |->
     IF k \in DOMAIN actuals /\ IsRolling(k)
     THEN LET hit == {e \in roll[k].heap : e.ref = roll[k].byID[l]}
              now == {[e EXCEPT !.amount = actuals[k]] : e \in hit}
          IN  [roll[k] EXCEPT !.used = @ - Weight(hit) + Weight(now),
                              !.heap = (@ \ hit) \cup now]
     ELSE roll[k]]

ReconcileRolling(l, reqs, actuals) ==
  [k \in Key |->
     IF k \in DOMAIN actuals /\ IsRolling(k)
        /\ actuals[k] < ReservedAmount(reqs, k)
     THEN ReduceRollingReservation(roll[k], l, actuals[k])
     ELSE roll[k]]

ReleaseHolds(l, reqs) ==
  [k \in Key |-> IF k \in KeysOf(reqs) /\ IsConcurrency(k)
                 THEN DropHold(conc[k], l)
                 ELSE conc[k]]

RecordDebt(reqs, actuals) ==
  [k \in Key |->
     IF k \in DOMAIN actuals /\ IsRolling(k) /\ defs[k].overage = "debt"
        /\ actuals[k] > ReservedAmount(reqs, k)
     THEN (debt[k] + (actuals[k] - ReservedAmount(reqs, k))) % Word
     ELSE debt[k]]

Complete(l, actuals) ==
  /\ leases[l] # None
  /\ LET reqs == leases[l].requirements
     IN  /\ conc' = ReleaseHolds(l, reqs)
         /\ roll' = ReconcileRolling(l, reqs, actuals)
         /\ debt' = RecordDebt(reqs, actuals)
  /\ leases' = [leases EXCEPT ![l] = None]
  /\ retired' = retired \cup {l}
  /\ UNCHANGED <<defs, states>>

\* A Complete for a lease the backend does not know answers ok.
CompleteUnknown(l) ==
  /\ leases[l] = None
  /\ UNCHANGED vars
-----------------------------------------------------------------------------
(* Administration.                                                         *)

\* updateCapacityLocked, for the store of the definition's kind.
RollWithCapacity(limit, n) ==
  [cap |-> n, used |-> limit.used, heap |-> limit.heap, byID |-> limit.byID]
ConcWithCapacity(limit, n) == [cap |-> n, holds |-> limit.holds, heap |-> limit.heap]

\* A new limit, or a capacity that does not shrink: in force at once.
ApplyIncrease(def) ==
  /\ defs[def.key] # None => def.capacity >= defs[def.key].capacity
  /\ defs' = [defs EXCEPT ![def.key] = def]
  /\ states' = [states EXCEPT ![def.key] =
                  [definition |-> def, status |-> "active", pending |-> 0]]
  /\ roll' = IF def.kind = "rolling"
             THEN [roll EXCEPT ![def.key] = RollWithCapacity(@, def.capacity)] ELSE roll
  /\ conc' = IF def.kind = "concurrency"
             THEN [conc EXCEPT ![def.key] = ConcWithCapacity(@, def.capacity)] ELSE conc
  /\ UNCHANGED <<debt, leases, retired>>

\* MUTANT: records the difference instead of the target.
ApplyDecreaseDelta(def) ==
  /\ defs[def.key] # None
  /\ def.capacity < defs[def.key].capacity
  /\ states' = [states EXCEPT ![def.key] =
                  [definition |-> defs[def.key], status |-> "decreasing",
                   pending |-> def.capacity - defs[def.key].capacity]]
  /\ UNCHANGED <<defs, roll, conc, debt, leases, retired>>

\* A smaller capacity is only recorded; the limit stops granting.
ApplyDecrease(def) ==
  /\ defs[def.key] # None
  /\ def.capacity < defs[def.key].capacity
  /\ states' = [states EXCEPT ![def.key] =
                  [definition |-> defs[def.key], status |-> "decreasing",
                   pending |-> def.capacity]]
  /\ UNCHANGED <<defs, roll, conc, debt, leases, retired>>

ApplyDefinition(def) == ApplyIncrease(def) \/ ApplyDecrease(def)

\* cleanupLocked: the reconciler cleans with the current clock.
CleanupLocked(k) ==
  /\ roll' = IF IsRolling(k) THEN [roll EXCEPT ![k] = CleanupRolling(@, 0)] ELSE roll
  /\ conc' = IF IsConcurrency(k) THEN [conc EXCEPT ![k] = CleanupConcurrency(@, 0)] ELSE conc

\* availableCapacityLocked, after the cleanup.
AvailableCapacity(k, def) ==
  IF def.kind = "rolling"
  THEN Monus(roll[k].cap, CleanupRolling(roll[k], 0).used)
  ELSE Monus(conc[k].cap, Cardinality(Held(CleanupConcurrency(conc[k], 0))))

PendingDecrease(k) ==
  /\ Decreasing(k)
  /\ states[k].pending # 0
  /\ states[k].pending < states[k].definition.capacity

\* Not enough is free yet: only the cleanup has an effect.
DecreaseWaits(k) ==
  LET def == states[k].definition
  IN  /\ PendingDecrease(k)
      /\ AvailableCapacity(k, def) < def.capacity - states[k].pending
      /\ CleanupLocked(k)
      /\ UNCHANGED <<defs, states, debt, leases, retired>>

DecreaseApplies(k) ==
  LET old == states[k].definition
      new == [old EXCEPT !.capacity = states[k].pending]
  IN  /\ PendingDecrease(k)
      /\ AvailableCapacity(k, old) >= old.capacity - states[k].pending
      /\ states' = [states EXCEPT ![k] =
                      [definition |-> new, status |-> "active", pending |-> 0]]
      /\ defs' = [defs EXCEPT ![k] = new]
      /\ roll' = IF new.kind = "rolling"
                 THEN [roll EXCEPT ![k] = RollWithCapacity(CleanupRolling(@, 0), new.capacity)]
                 ELSE roll
      /\ conc' = IF new.kind = "concurrency"
                 THEN [conc EXCEPT ![k] = ConcWithCapacity(CleanupConcurrency(@, 0), new.capacity)]
                 ELSE conc
      /\ UNCHANGED <<debt, leases, retired>>

\* With a registry attached it would also be put and saved there, after the
\* mutex is released; the backend's own state does not depend on it.
TryApplyDecrease(k) == DecreaseWaits(k) \/ DecreaseApplies(k)
-----------------------------------------------------------------------------
(* Time.  An element -MaxLag past its expiry is expired for every stamp,   *)
(* so ttl needs no smaller value.                                          *)

Down(n, floor) == IF n > floor THEN n - 1 ELSE floor

AgedReservation(e) ==
  [ref |-> e.ref, id |-> e.id, amount |-> e.amount, ttl |-> Down(e.ttl, -MaxLag)]

AgedRolling(limit) ==
  [cap |-> limit.cap, used |-> limit.used,
   heap |-> {AgedReservation(e) : e \in limit.heap}, byID |-> limit.byID]

AgedConc(limit) ==
  [cap   |-> limit.cap,
   holds |-> [l \in Lease |-> IF limit.holds[l] = None THEN None
                              ELSE Down(limit.holds[l], -MaxLag)],
   heap  |-> {[id |-> h.id, ttl |-> Down(h.ttl, -MaxLag)] : h \in limit.heap}]

Tick ==
  /\ roll' = [k \in Key |-> AgedRolling(roll[k])]
  /\ conc' = [k \in Key |-> AgedConc(conc[k])]
  /\ leases' = [l \in Lease |->
       IF leases[l] = None THEN None
       ELSE [requirements |-> leases[l].requirements,
             left |-> [k \in Key |-> Down(leases[l].left[k], 0)]]]
  /\ UNCHANGED <<defs, states, debt, retired>>
-----------------------------------------------------------------------------
(* New() and then ApplyState for every persisted limit.  A key without a   *)
(* store of some kind reads here as an empty store of capacity 0.          *)

DefinitionIn(state) == IF state = None THEN None ELSE state.definition

Init ==
  /\ states \in Persisted
  /\ defs = [k \in Key |-> DefinitionIn(states[k])]
  /\ roll = [k \in Key |-> NewRollingLimit(IF IsRolling(k) THEN defs[k].capacity ELSE 0)]
  /\ conc = [k \in Key |-> NewConcLimit(IF IsConcurrency(k) THEN defs[k].capacity ELSE 0)]
  /\ debt = [k \in Key |-> 0]
  /\ leases = [l \in Lease |-> None]
  /\ retired = {}

\* What the server's handlers do.
ServerNext ==
  \/ \E l \in Lease, reqs \in Request : ReserveRejected(l, reqs)
  \/ \E l \in Lease, reqs \in Request, lag \in 0 .. MaxLag : ReserveDenied(l, reqs, lag)
  \/ \E l \in Lease, reqs \in Request, lag \in 0 .. MaxLag : ReserveGranted(l, reqs, lag)
  \/ \E l \in Lease, actuals \in Actuals : Complete(l, actuals)
  \/ \E l \in Lease : CompleteUnknown(l)
  \/ \E def \in Definition : ApplyDefinition(def)
  \/ Tick

Next == ServerNext \/ \E k \in Key : TryApplyDecrease(k)

Spec == Init /\ [][Next]_vars
-----------------------------------------------------------------------------
(* Properties.                                                             *)

RollingLimit ==
  [cap : Nat, used : 0 .. Word - 1,
   heap : SUBSET [ref : Slot \X Nat, id : Lease, amount : Nat, ttl : Int],
   byID : [Lease -> (Slot \X Nat) \cup {None}]]
ConcLimit ==
  [cap : Nat, holds : [Lease -> Int \cup {None}], heap : SUBSET [id : Lease, ttl : Int]]

\* The types of the backend's maps (backend.go, rolling.go, concurrency.go,
\* leases.go).
TypeOK ==
  /\ defs \in [Key -> LimitDefinition \cup {None}]
  /\ states \in [Key -> LimitState \cup {None}]
  /\ roll \in [Key -> RollingLimit]
  /\ conc \in [Key -> ConcLimit]
  /\ debt \in [Key -> 0 .. Word - 1]
  /\ leases \in [Lease -> LeaseState \cup {None}]
  /\ retired \subseteq Lease

\* What the accounting relies on: a request names a key once, ...
DistinctKeys ==
  \A reqs \in Request : \A i, j \in DOMAIN reqs : reqs[i].key = reqs[j].key => i = j

\* ... no capacity plus an amount reaches 2^64, ...
NoWrap ==
  \A reqs \in Request : \A i \in DOMAIN reqs :
    /\ \A d \in Definition : d.capacity + reqs[i].amount < Word
    /\ \A p \in Persisted : \A k \in Key :
         p[k] # None => p[k].definition.capacity + reqs[i].amount < Word

\* ... and no limit changes from rolling to concurrency or back.
KindStable ==
  \E kindOf \in [Key -> {"rolling", "concurrency"}] :
    /\ \A d \in Definition : d.kind = kindOf[d.key]
    /\ \A p \in Persisted : \A k \in Key : p[k] # None => p[k].definition.kind = kindOf[k]

\* The load a key carries: the sum of the amounts of its reservations, or
\* the number of its holds.
Load(k) == IF IsConcurrency(k) THEN Cardinality(Held(conc[k])) ELSE Weight(roll[k].heap)
Capacity(k) == IF IsConcurrency(k) THEN conc[k].cap ELSE roll[k].cap

\* Whatever Reserve, Complete, expiry and capacity changes do to a limit,
\* the reservations alive in a rolling window never sum to more than its
\* capacity, and no more leases hold a concurrency limit than it allows.
NeverOverCommitted ==
  \A k \in Key : defs[k] # None => Load(k) <= defs[k].capacity

\* The used counter that Reserve decides on is the sum of the reservations
\* in the heap: cleanupRolling, addRollingReservation and
\* reduceRollingReservation update the two alike and the clipping at zero
\* never hides a difference.
UsedIsExact == \A k \in Key : roll[k].used = Weight(roll[k].heap)

\* A live lease keeps every charge of its request for exactly as long as the
\* grant promised it, whatever other leases' traffic, expiry, stale heap
\* elements, late duplicates and capacity changes do: in a rolling window a
\* reservation of its own, with the whole amount; on a concurrency limit its
\* hold.  A lease granted again after a Complete may lose the hold, though
\* not the reservation: the heap still has the element of its former hold.
LeaseBacked ==
  \A l \in Lease : leases[l] # None =>
    LET reqs == leases[l].requirements
        left == leases[l].left
    IN  \A i \in DOMAIN reqs : left[reqs[i].key] > 0 =>
          \/ /\ IsRolling(reqs[i].key)
             /\ \E e \in roll[reqs[i].key].heap :
                  e.id = l /\ e.amount = reqs[i].amount /\ e.ttl >= left[reqs[i].key]
          \/ /\ IsConcurrency(reqs[i].key)
             /\ conc[reqs[i].key].holds[l] # None \/ l \in retired

\* The step adds no reservation and no hold of the lease.
AddsNoCharge(l) ==
  \A k \in Key :
    /\ {e.ref : e \in {x \in roll'[k].heap : x.id = l}}
         \subseteq {e.ref : e \in {x \in roll[k].heap : x.id = l}}
    /\ conc[k].holds[l] = None => conc'[k].holds[l] = None

\* A retry of a Reserve whose answer was lost charges nothing: while a
\* lease is live no step adds a reservation or a heap element of that lease
\* (the idempotent branch of Reserve).
RetryChargesNothing ==
  [][\A l \in Lease : leases[l] # None /\ leases'[l] # None => AddsNoCharge(l)]_vars

\* While a decrease is pending, nothing new is charged to the limit: what a
\* reconciliation would find free never shrinks, whatever requests, late
\* duplicates, completions and PUTs of a still smaller capacity come in
\* between, so that expiry alone lets it apply in the end.
DecreaseDrains ==
  [][\A k \in Key :
       PendingDecrease(k) /\ PendingDecrease(k)' =>
         AvailableCapacity(k, states[k].definition)'
           >= AvailableCapacity(k, states[k].definition)]_vars

\* backend-memory.md calls the reconciliation "called periodically": a limit
\* marked decreasing becomes active again, for nothing is granted on it
\* meanwhile and its usage expires.
DecreaseResolves ==
  \A k \in Key : Decreasing(k) ~> (states[k] # None /\ states[k].status = "active")

\* ratelimiterd in memory mode: nothing in the program calls
\* TryApplyDecrease.  Time passes.
ServerSpec == Init /\ [][ServerNext]_vars /\ WF_vars(Tick)

\* The backend implements the abstract limiter: every step either releases
\* load, or charges a whole request within capacity, or moves a capacity
\* without leaving it below the load.
AmountsOf(reqs) ==
  [k \in KeysOf(reqs) |->
     Cardinality(UNION {{i} \X (1 .. reqs[i].amount) :
                          i \in {j \in DOMAIN reqs : reqs[j].key = k}})]

Lim == INSTANCE Limiter WITH
         load <- [k \in Key |-> Load(k)],
         cap  <- [k \in Key |-> Capacity(k)],
         counted <- {k \in Key : IsConcurrency(k)},
         Need <- {AmountsOf(reqs) : reqs \in Request}

ImplementsLimiter == Lim!Spec
=============================================================================
