------------------------------ MODULE TBBackend ------------------------------
(***************************************************************************)
(* The TigerBeetle limiter backend (internal/backend/tb) with its ledger.  *)
(*                                                                         *)
(* A limit is an account whose posted balance is its capacity; a           *)
(* reservation is a pending debit with a timeout.  The backend's mutex is  *)
(* released around every ledger call, so an operation is several actions:  *)
(* what it reads under the mutex, the item it puts on the wire, and what   *)
(* it does with the answer.  The ledger executes an item when it likes; a  *)
(* caller whose context ends gives up and its item stays on the wire.      *)
(*                                                                         *)
(* Times are relative: a pending debit keeps what is left of its timeout,  *)
(* a lease its age.  A PUT changes the capacity only; kind, span and       *)
(* overage of a key are constants, and so is what a lease asks for.        *)
(***************************************************************************)
EXTENDS Integers, FiniteSets, Sequences

CONSTANTS
  Key, Lease, Handler,
  Kind,           \* [Key -> {"rolling", "concurrency"}]
  Span,           \* [Key -> Nat \ {0}]: window or timeout in seconds
  Overage,        \* [Key -> {"debt", "deny"}]
  Ask,            \* [Lease -> sequence of requirements]
  Actuals,        \* [Lease -> what its Complete may report: sequences of [key, amount]]
  Start,          \* [Key -> Nat]: capacities in the first registry
  Targets,        \* [Key -> set of Nat]: capacities an administrator may PUT
  MaxPuts,
  MaxFaults,      \* crashes and callers that give up, together
  LateDuplicates, \* TRUE: a Reserve may be under way when its lease completes
  None

ASSUME ConstantsAssumption ==
  /\ Kind \in [Key -> {"rolling", "concurrency"}]
  /\ Span \in [Key -> Nat \ {0}]
  /\ Overage \in [Key -> {"debt", "deny"}]
  /\ Ask \in [Lease -> Seq([key : Key, amount : Nat \ {0}])]
  /\ Actuals \in [Lease -> SUBSET Seq([key : Key, amount : Nat])]
  /\ Start \in [Key -> Nat \ {0}]
  /\ Targets \in [Key -> SUBSET (Nat \ {0})]
  /\ MaxPuts \in Nat /\ MaxFaults \in Nat
  /\ IsFiniteSet(Key) /\ IsFiniteSet(Lease)

VARIABLES
  ledger,   \* TigerBeetle: posted balances, transfers, ids that failed
  wire,     \* items handed to the submitter and not yet executed
  states,   \* b.states
  leases,   \* b.leases
  failed,   \* b.failed: leases denied for lack of capacity
  reg,      \* the registry, as persisted
  hs,       \* the Reserve and Complete calls under way
  adm,      \* the PUT under way, or the loading of the registry at start
  loop,     \* the decrease loop
  puts, faults,
  denied,   \* history: leases whose caller was told there is no capacity
  done,     \* history: leases some Complete has ended
  mixed     \* history: keys whose capacity changes overlapped or recurred

vars == <<ledger, wire, states, leases, failed, reg, hs, adm, loop, puts,
          faults, denied, done, mixed>>
-----------------------------------------------------------------------------
(* The ledger: create_transfers of TigerBeetle.                            *)

Pending(L, k) == {e \in L.book : e.key = k /\ e.st = "pending"}
Units(H) == UNION {{e.id} \X (1 .. e.amount) : e \in H}
Load(L, k) == Cardinality(Units(Pending(L, k)))

Entry(L, id) == CHOOSE e \in L.book : e.id = id
Recorded(L, id) == \E e \in L.book : e.id = id

\* The answer to one transfer.  "ok" is not reported by the ledger.
Verdict(L, t) ==
  IF t.id \in L.burnt THEN "id_already_failed"
  ELSE IF Recorded(L, t.id)
  THEN LET e == Entry(L, t.id)
       IN  IF e.amount = t.amount /\ e.span = t.span
           THEN "exists" ELSE "exists_with_different"
  ELSE CASE t.op = "void" ->
              IF ~Recorded(L, t.pending) THEN "pending_transfer_not_found"
              ELSE CASE Entry(L, t.pending).st = "pending" -> "ok"
                     [] Entry(L, t.pending).st = "voided"  -> "pending_transfer_already_voided"
                     [] OTHER                              -> "pending_transfer_expired"
         [] t.op \in {"hold", "debit"} ->
              IF Load(L, t.key) + t.amount > L.balance[t.key] THEN "exceeds_credits" ELSE "ok"
         [] OTHER -> "ok"

Transient == {"exceeds_credits", "pending_transfer_not_found"}

NewEntry(t) ==
  [id |-> t.id, key |-> t.key, amount |-> t.amount, span |-> t.span, ttl |-> t.span,
   st |-> IF t.op = "hold" THEN "pending" ELSE "posted"]

Applied(L, t) ==
  LET kept == IF t.op = "void"
              THEN {IF e.id = t.pending THEN [e EXCEPT !.st = "voided", !.ttl = 0] ELSE e :
                      e \in L.book}
              ELSE L.book
  IN  [balance |-> [L.balance EXCEPT ![t.key] = CASE t.op = "credit" -> @ + t.amount
                                                  [] t.op = "debit"  -> @ - t.amount
                                                  [] OTHER           -> @],
       book    |-> kept \cup {NewEntry(t)},
       burnt   |-> L.burnt]

\* A chain of linked transfers is executed whole or not at all; the one that
\* fails is reported with its reason, the others as linked_event_failed.
ChainOutcome(L, chain) ==
  LET after[i \in 0 .. Len(chain)] == IF i = 0 THEN L ELSE Applied(after[i - 1], chain[i])
      bad   == {i \in DOMAIN chain : Verdict(after[i - 1], chain[i]) # "ok"}
      first == CHOOSE i \in bad : \A j \in bad : i <= j
      why   == Verdict(after[first - 1], chain[first])
  IN  IF bad = {} THEN [ledger |-> after[Len(chain)], codes |-> {}]
      ELSE [ledger |-> IF why \in Transient
                       THEN [L EXCEPT !.burnt = @ \cup {chain[first].id}] ELSE L,
            codes  |-> {why} \cup IF Len(chain) > 1 THEN {"linked_event_failed"} ELSE {}]

\* The chains of an item one after the other.
ItemOutcome(L, chains) ==
  LET after[i \in 0 .. Len(chains)] ==
        IF i = 0 THEN [ledger |-> L, codes |-> {}]
        ELSE LET o == ChainOutcome(after[i - 1].ledger, chains[i])
             IN  [ledger |-> o.ledger, codes |-> after[i - 1].codes \cup o.codes]
  IN  after[Len(chains)]
-----------------------------------------------------------------------------
(* Transfers: the id says what a retry will find.  It is a hash of a label *)
(* made of these parts; two labels never have the same hash.               *)

ID128(prefix, a, b) == <<prefix, a, b>>

Xfer(op, id, k, amount, span, pending) ==
  [op |-> op, id |-> id, key |-> k, amount |-> amount, span |-> span, pending |-> pending]

ReserveID(l, k) == ID128("reserve", l, k)
TimeoutSeconds(k) == Span[k]

ReserveTransfer(l, r) ==
  Xfer("hold", ReserveID(l, r.key), r.key, r.amount, TimeoutSeconds(r.key), None)
VoidTransfer(l, k, amount) ==
  Xfer("void", ID128("void", l, k), k, amount, 0, ReserveID(l, k))
PendingTransfer(l, k, amount, timeout) ==
  Xfer("hold", ID128("rereserve", l, k), k, amount, timeout, None)
DebtTransfer(l, k, amount) == Xfer("debt", ID128("debt", l, k), k, amount, 0, None)
CapacityTransfer(k, target, delta) ==
  Xfer("credit", ID128("capacity", k, target), k, delta, 0, None)
DecreaseTransfer(k, target, delta) ==
  Xfer("debit", ID128("decrease", k, target), k, delta, 0, None)

\* MUTANT: the transfers of a request are not linked.
UnlinkedReserve(l) == [i \in DOMAIN Ask[l] |-> <<ReserveTransfer(l, Ask[l][i])>>]

ReserveItem(l) == <<[i \in DOMAIN Ask[l] |-> ReserveTransfer(l, Ask[l][i])]>>
-----------------------------------------------------------------------------
(* What the backend makes of the answers.                                  *)

\* MUTANT: an id that failed before is taken for one that exists.
LenientDecision(codes) ==
  CASE codes = {} -> "allowed"
    [] "exceeds_credits" \in codes -> "denied"
    [] codes \subseteq {"exists", "id_already_failed"} -> "allowed"
    [] OTHER -> "error"

ReserveDecision(codes) ==
  CASE codes = {} -> "allowed"
    [] "exceeds_credits" \in codes -> "denied"
    [] codes = {"exists"} -> "allowed"
    [] OTHER -> "error"

Ignorable == {"exists", "pending_transfer_expired", "pending_transfer_already_voided",
              "pending_transfer_not_found"}

HasNonIgnorableErrors(codes) ==
  /\ codes # {}
  /\ \/ \E c \in codes : c \notin Ignorable \cup {"linked_event_failed"}
     \/ codes \cap Ignorable = {}

FirstTransferError(codes) == \E c \in codes : c # "exists"

RemainingWindowSeconds(age, k) == IF Span[k] - age < 1 THEN 1 ELSE Span[k] - age
-----------------------------------------------------------------------------
Idle == [pc |-> "idle", lease |-> None, todo |-> <<>>, codes |-> None]
NoPut == [pc |-> "idle", key |-> None, next |-> None, record |-> None, codes |-> None]
NoDecrease == [pc |-> "idle", todo |-> {}, codes |-> None]

Active(n) == [capacity |-> n, status |-> "active", to |-> 0]

Init ==
  /\ ledger = [balance |-> Start, burnt |-> {},
               book |-> {NewEntry(CapacityTransfer(k, Start[k], Start[k])) : k \in Key}]
  /\ wire = {}
  /\ states = [k \in Key |-> Active(Start[k])]
  /\ reg = states
  /\ leases = [l \in Lease |-> None]
  /\ failed = {} /\ denied = {} /\ done = {} /\ mixed = {}
  /\ hs = [h \in Handler |-> Idle]
  /\ adm = NoPut /\ loop = NoDecrease
  /\ puts = 0 /\ faults = 0

\* No call is served while the registry is being loaded.
Up == adm.pc # "down" /\ adm.pc # "boot" /\ \A k \in Key : states[k] # None
Amounts(l, k) == {Ask[l][i].amount : i \in {j \in DOMAIN Ask[l] : Ask[l][j].key = k}}
KeysOf(l) == {Ask[l][i].key : i \in DOMAIN Ask[l]}
-----------------------------------------------------------------------------
(* Reserve.  The early returns change nothing: a lease that is held is     *)
(* allowed, one that failed is denied again, and so is one that asks for a *)
(* limit that is decreasing.                                               *)

Reserving(l) == \E h \in Handler : hs[h].pc = "reserve" /\ hs[h].lease = l

ReserveStart(h, l) ==
  /\ Up /\ hs[h].pc = "idle"
  /\ LateDuplicates \/ l \notin done
  /\ leases[l] = None /\ l \notin failed
  /\ \A k \in KeysOf(l) : states[k].status = "active"
  /\ hs' = [hs EXCEPT ![h] = [pc |-> "reserve", lease |-> l, todo |-> <<>>, codes |-> None]]
  /\ wire' = wire \cup {[owner |-> h, chains |-> ReserveItem(l)]}
  /\ UNCHANGED <<ledger, states, leases, failed, reg, adm, loop, puts, faults, denied, done, mixed>>

ReserveFinish(h) ==
  LET l == hs[h].lease
      decision == ReserveDecision(hs[h].codes)
  IN  /\ hs[h].pc = "reserve" /\ hs[h].codes # None
      /\ leases' = IF decision = "allowed" THEN [leases EXCEPT ![l] = [age |-> 0]] ELSE leases
      /\ failed' = IF decision = "denied" THEN failed \cup {l} ELSE failed
      /\ denied' = IF decision = "denied" THEN denied \cup {l} ELSE denied
      /\ hs' = [hs EXCEPT ![h] = Idle]
      /\ UNCHANGED <<ledger, wire, states, reg, adm, loop, puts, faults, done, mixed>>
-----------------------------------------------------------------------------
(* Complete: the lease is forgotten first, then its concurrency holds are  *)
(* voided, then each reported rolling usage is reconciled, in order.       *)

Step(chains, debt) == [chains |-> chains, debt |-> debt]

ReleaseConcurrency(l) ==
  LET held == SelectSeq(Ask[l], LAMBDA r : Kind[r.key] = "concurrency")
  IN  IF held = <<>> THEN <<>>
      ELSE <<Step([i \in DOMAIN held |-> <<VoidTransfer(l, held[i].key, held[i].amount)>>],
                  None)>>

ReconcileUnderuse(l, k, reserved, actual, age) ==
  LET void == VoidTransfer(l, k, reserved)
  IN  IF actual = 0 THEN Step(<< <<void>> >>, None)
      ELSE Step(<< <<void, PendingTransfer(l, k, actual, RemainingWindowSeconds(age, k))>> >>,
                None)

ReconcileOveruse(l, k, diff, age) ==
  Step(<< <<PendingTransfer(l, k, diff, RemainingWindowSeconds(age, k))>> >>,
       IF Overage[k] = "debt" THEN DebtTransfer(l, k, diff) ELSE None)

ReconcileRolling(l, actuals, age) ==
  LET due == SelectSeq(actuals, LAMBDA a : /\ Kind[a.key] = "rolling" /\ a.key \in KeysOf(l)
                                           /\ a.amount \notin Amounts(l, a.key))
      One(a) == LET reserved == CHOOSE n \in Amounts(l, a.key) : TRUE
                IN  IF a.amount < reserved
                    THEN ReconcileUnderuse(l, a.key, reserved, a.amount, age)
                    ELSE ReconcileOveruse(l, a.key, a.amount - reserved, age)
  IN  [i \in DOMAIN due |-> One(due[i])]

CompleteStart(h, l, actuals) ==
  LET todo == ReleaseConcurrency(l) \o ReconcileRolling(l, actuals, leases[l].age)
  IN  /\ Up /\ hs[h].pc = "idle"
      /\ leases[l] # None
      /\ LateDuplicates \/ ~Reserving(l)
      /\ leases' = [leases EXCEPT ![l] = None]
      /\ done' = done \cup {l}
      /\ hs' = [hs EXCEPT ![h] = IF todo = <<>> THEN Idle
                                 ELSE [pc |-> "complete", lease |-> l, todo |-> todo,
                                       codes |-> None]]
      /\ wire' = IF todo = <<>> THEN wire
                 ELSE wire \cup {[owner |-> h, chains |-> todo[1].chains]}
      /\ UNCHANGED <<ledger, states, failed, reg, adm, loop, puts, faults, denied, mixed>>

\* The answer to one step.  An overuse that does not fit is recorded as debt;
\* an answer that cannot be ignored ends the call with backend_error.
CompleteStep(h) ==
  LET now  == hs[h].todo[1]
      over == Len(now.chains) = 1 /\ Len(now.chains[1]) = 1 /\ now.chains[1][1].op = "hold"
      deny == over /\ "exceeds_credits" \in hs[h].codes
      rest == (IF deny /\ now.debt # None THEN <<Step(<< <<now.debt>> >>, None)>> ELSE <<>>)
                \o Tail(hs[h].todo)
      stop == rest = <<>> \/ (~deny /\ HasNonIgnorableErrors(hs[h].codes))
  IN  /\ hs[h].pc = "complete" /\ hs[h].codes # None
      /\ hs' = [hs EXCEPT ![h] = IF stop THEN Idle ELSE [@ EXCEPT !.todo = rest, !.codes = None]]
      /\ wire' = IF stop THEN wire ELSE wire \cup {[owner |-> h, chains |-> rest[1].chains]}
      /\ UNCHANGED <<ledger, states, leases, failed, reg, adm, loop, puts, faults, denied, done, mixed>>

\* The caller's context ends while the item is on the wire.
GiveUp(h) ==
  /\ faults < MaxFaults /\ hs[h].pc # "idle" /\ hs[h].codes = None
  /\ faults' = faults + 1
  /\ wire' = {IF w.owner = h THEN [w EXCEPT !.owner = None] ELSE w : w \in wire}
  /\ hs' = [hs EXCEPT ![h] = Idle]
  /\ UNCHANGED <<ledger, states, leases, failed, reg, adm, loop, puts, denied, done, mixed>>
-----------------------------------------------------------------------------
(* PUT of a limit: ApplyDefinition between the registry's NextState and    *)
(* its Put.  Loading the registry at start goes through the same steps,    *)
(* with the persisted state as the one to set.                             *)

NextState(prev, n) ==
  IF n >= prev.capacity THEN Active(n)
  ELSE [capacity |-> prev.capacity, status |-> "decreasing", to |-> n]

\* A change of k is under way elsewhere, or its target was used before.
Mixes(k, target) ==
  \/ \E s \in loop.todo : s.key = k
  \/ Recorded(ledger, ID128("decrease", k, target))
  \/ Recorded(ledger, ID128("capacity", k, target)) /\ target > ledger.balance[k]

PutBegin(k, n) ==
  /\ Up /\ adm.pc = "idle" /\ puts < MaxPuts
  /\ puts' = puts + 1
  /\ mixed' = IF Mixes(k, n) THEN mixed \cup {k} ELSE mixed
  /\ adm' = [pc |-> "read", key |-> k, next |-> Active(n),
             record |-> NextState(reg[k], n), codes |-> None]
  /\ UNCHANGED <<ledger, wire, states, leases, failed, reg, hs, loop, faults, denied, done>>

\* ApplyDefinition reads the previous state and decides on it.
PutRead ==
  LET prev == states[adm.key]
      n    == adm.next.capacity
  IN  /\ adm.pc = "read"
      /\ adm' = IF n >= prev.capacity THEN [adm EXCEPT !.pc = "lookup"]
                ELSE [adm EXCEPT !.pc = "set", !.next = NextState(prev, n)]
      /\ UNCHANGED <<ledger, wire, states, leases, failed, reg, hs, loop, puts, faults, denied, done, mixed>>

\* MUTANT: reservations alive count as missing capacity.
MissingAvailable(L, k, n) == n - (L.balance[k] - Load(L, k))

Missing(L, k, n) == n - L.balance[k]

\* ensureCapacity.
PutLookup ==
  LET delta == Missing(ledger, adm.key, adm.next.capacity)
  IN  /\ adm.pc = "lookup"
      /\ adm' = [adm EXCEPT !.pc = IF delta <= 0 THEN "set" ELSE "wait"]
      /\ wire' = IF delta <= 0 THEN wire
                 ELSE wire \cup {[owner |-> "admin", chains |->
                        << <<CapacityTransfer(adm.key, adm.next.capacity, delta)>> >>]}
      /\ UNCHANGED <<ledger, states, leases, failed, reg, hs, loop, puts, faults, denied, done, mixed>>

\* An error ends the PUT with backend_error, and a start with an exit.
PutAnswer ==
  /\ adm.pc = "wait" /\ adm.codes # None
  /\ adm' = IF ~FirstTransferError(adm.codes) THEN [adm EXCEPT !.pc = "set", !.codes = None]
            ELSE IF adm.record = None THEN [NoPut EXCEPT !.pc = "down"] ELSE NoPut
  /\ IF adm'.pc = "down" THEN loop' = NoDecrease /\ wire' = {} ELSE UNCHANGED <<loop, wire>>
  /\ UNCHANGED <<ledger, states, leases, failed, reg, hs, puts, faults, denied, done, mixed>>

\* The administrator's connection ends while the transfer is on the wire.
PutGiveUp ==
  /\ adm.pc = "wait" /\ adm.codes = None /\ adm.record # None /\ faults < MaxFaults
  /\ faults' = faults + 1
  /\ wire' = {IF w.owner = "admin" THEN [w EXCEPT !.owner = None] ELSE w : w \in wire}
  /\ mixed' = mixed \cup {adm.key}
  /\ adm' = NoPut
  /\ UNCHANGED <<ledger, states, leases, failed, reg, hs, loop, puts, denied, done>>

\* b.states is written; of a PUT, the registry is next.
PutSet ==
  /\ adm.pc = "set"
  /\ states' = [states EXCEPT ![adm.key] = adm.next]
  /\ adm' = IF adm.record = None THEN [NoPut EXCEPT !.pc = "boot"]
            ELSE [adm EXCEPT !.pc = "registry"]
  /\ UNCHANGED <<ledger, wire, leases, failed, reg, hs, loop, puts, faults, denied, done, mixed>>

PutRegistry ==
  /\ adm.pc = "registry"
  /\ reg' = [reg EXCEPT ![adm.key] = adm.record]
  /\ adm' = NoPut
  /\ UNCHANGED <<ledger, wire, states, leases, failed, hs, loop, puts, faults, denied, done, mixed>>
-----------------------------------------------------------------------------
(* The decrease loop works on a snapshot of the decreasing limits.         *)

Decreasing == {k \in Key : states[k] # None /\ states[k].status = "decreasing"}

LoopSnapshot ==
  /\ loop.pc = "idle" /\ adm.pc # "down" /\ Decreasing # {}
  /\ loop' = [pc |-> "scan", codes |-> None,
              todo |-> {[key |-> k, capacity |-> states[k].capacity, to |-> states[k].to] :
                          k \in Decreasing}]
  /\ mixed' = IF adm.key \in Decreasing THEN mixed \cup {adm.key} ELSE mixed
  /\ UNCHANGED <<ledger, wire, states, leases, failed, reg, hs, adm, puts, faults, denied, done>>

LoopNext(s) == IF loop.todo = {s} THEN NoDecrease
               ELSE [pc |-> "scan", codes |-> None, todo |-> loop.todo \ {s}]

\* tryApplyDecrease up to the transfer.
LoopTry(s) ==
  LET delta == s.capacity - s.to
      free  == ledger.balance[s.key] - Load(ledger, s.key)
      go    == s.to # 0 /\ s.to < s.capacity /\ free >= delta
  IN  /\ loop.pc = "scan" /\ s \in loop.todo
      /\ loop' = IF go THEN [pc |-> s.key, codes |-> None, todo |-> loop.todo] ELSE LoopNext(s)
      /\ wire' = IF ~go THEN wire
                 ELSE wire \cup {[owner |-> "loop", chains |->
                                   << <<DecreaseTransfer(s.key, s.to, delta)>> >>]}
      /\ UNCHANGED <<ledger, states, leases, failed, reg, hs, adm, puts, faults, denied, done, mixed>>

LoopAnswer(s) ==
  /\ loop.pc = s.key /\ loop.codes # None /\ loop.codes # {"recorded"} /\ s \in loop.todo
  /\ IF FirstTransferError(loop.codes)
     THEN loop' = LoopNext(s) /\ UNCHANGED states
     ELSE /\ states' = [states EXCEPT ![s.key] = Active(s.to)]
          /\ loop' = [loop EXCEPT !.codes = {"recorded"}]
  /\ UNCHANGED <<ledger, wire, leases, failed, reg, hs, adm, puts, faults, denied, done, mixed>>

LoopRegistry(s) ==
  /\ loop.pc = s.key /\ loop.codes = {"recorded"} /\ s \in loop.todo
  /\ reg' = [reg EXCEPT ![s.key] = Active(s.to)]
  /\ loop' = LoopNext(s)
  /\ UNCHANGED <<ledger, wire, states, leases, failed, hs, adm, puts, faults, denied, done, mixed>>
-----------------------------------------------------------------------------
(* The ledger and time.                                                    *)

\* The submitter hands an item to the ledger; whoever waits gets the answer.
Execute(w) ==
  LET o == ItemOutcome(ledger, w.chains)
  IN  /\ ledger' = o.ledger
      /\ wire' = wire \ {w}
      /\ hs' = IF w.owner \in Handler THEN [hs EXCEPT ![w.owner].codes = o.codes] ELSE hs
      /\ adm' = IF w.owner = "admin" THEN [adm EXCEPT !.codes = o.codes] ELSE adm
      /\ loop' = IF w.owner = "loop" THEN [loop EXCEPT !.codes = o.codes] ELSE loop
      /\ UNCHANGED <<states, leases, failed, reg, puts, faults, denied, done, mixed>>

Aged(e) == IF e.st # "pending" THEN e
           ELSE IF e.ttl = 1 THEN [e EXCEPT !.ttl = 0, !.st = "expired"]
           ELSE [e EXCEPT !.ttl = @ - 1]

MaxAge == CHOOSE n \in {Span[k] : k \in Key} : \A k \in Key : Span[k] <= n

Tick ==
  /\ \/ \E e \in ledger.book : e.st = "pending"
     \/ \E l \in Lease : leases[l] # None /\ leases[l].age < MaxAge
  /\ ledger' = [ledger EXCEPT !.book = {Aged(e) : e \in @}]
  /\ leases' = [l \in Lease |-> IF leases[l] = None \/ leases[l].age = MaxAge THEN leases[l]
                                ELSE [age |-> leases[l].age + 1]]
  /\ UNCHANGED <<wire, states, failed, reg, hs, adm, loop, puts, faults, denied, done, mixed>>

\* Everything but ledger and registry is lost.  An item on its way may still
\* reach the ledger.
Crash ==
  /\ faults < MaxFaults
  /\ faults' = faults + 1
  /\ \E sent \in SUBSET wire : wire' = {[w EXCEPT !.owner = None] : w \in sent}
  /\ states' = [k \in Key |-> None]
  /\ leases' = [l \in Lease |-> None] /\ failed' = {}
  /\ hs' = [h \in Handler |-> Idle]
  /\ adm' = [NoPut EXCEPT !.pc = "boot"] /\ loop' = NoDecrease
  /\ mixed' = Key
  /\ UNCHANGED <<ledger, reg, puts, denied, done>>

\* loadStates: ApplyState of the next persisted state; no call is served
\* before the last.
Load1(k) ==
  /\ adm.pc = "boot" /\ states[k] = None
  /\ adm' = [pc |-> "lookup", key |-> k, next |-> reg[k], record |-> None, codes |-> None]
  /\ UNCHANGED <<ledger, wire, states, leases, failed, reg, hs, loop, puts, faults, denied, done, mixed>>

Loaded ==
  /\ adm.pc = "boot" /\ \A k \in Key : states[k] # None
  /\ adm' = NoPut
  /\ UNCHANGED <<ledger, wire, states, leases, failed, reg, hs, loop, puts, faults, denied, done, mixed>>

Next ==
  \/ \E h \in Handler, l \in Lease : \/ ReserveStart(h, l)
                                     \/ \E a \in Actuals[l] : CompleteStart(h, l, a)
  \/ \E h \in Handler : ReserveFinish(h) \/ CompleteStep(h) \/ GiveUp(h)
  \/ \E k \in Key : (\E n \in Targets[k] : PutBegin(k, n)) \/ Load1(k)
  \/ PutRead \/ PutLookup \/ PutAnswer \/ PutGiveUp \/ PutSet \/ PutRegistry
  \/ LoopSnapshot
  \/ \E s \in loop.todo : LoopTry(s) \/ LoopAnswer(s) \/ LoopRegistry(s)
  \/ \E w \in wire : Execute(w)
  \/ Tick \/ Crash \/ Loaded

Spec == Init /\ [][Next]_vars
-----------------------------------------------------------------------------
(* Properties.                                                             *)

LimitState == [capacity : Nat \ {0}, status : {"active", "decreasing"}, to : Nat]

\* Balances and what is pending never go below zero, states and registry hold
\* limit states, and a call is in one of its stages.
TypeOK ==
  /\ ledger.balance \in [Key -> Nat]
  /\ \A e \in ledger.book : e.key \in Key /\ e.amount \in Nat /\ e.ttl \in Nat
  /\ states \in [Key -> LimitState \cup {None}] /\ reg \in [Key -> LimitState]
  /\ leases \in [Lease -> [age : 0 .. MaxAge] \cup {None}]
  /\ failed \subseteq Lease /\ denied \subseteq Lease /\ done \subseteq Lease
  /\ \A h \in Handler : hs[h].pc \in {"idle", "reserve", "complete"}
  /\ puts \in 0 .. MaxPuts /\ faults \in 0 .. MaxFaults /\ mixed \subseteq Key

\* A request is charged to all of its keys or to none, whatever failed, timed
\* out or was sent again (reserve.go: one linked chain).
ChargedWhole ==
  /\ TypeOK
  /\ \A l \in Lease :
       LET charged == {k \in KeysOf(l) : Recorded(ledger, ReserveID(l, k))}
       IN  charged = {} \/ charged = KeysOf(l)

\* A lease the backend holds stands for transfers that are pending or ran out
\* by themselves: nobody voided them (the answer "exists" is taken as a grant).
\* And a lease that was denied for lack of capacity is never granted later, not
\* even after a restart forgot it (b.failed, and the ledger's failed ids).
GrantedIsHeld ==
  /\ ~LateDuplicates =>
       \A l \in Lease : leases[l] # None =>
         \A k \in KeysOf(l) : /\ Recorded(ledger, ReserveID(l, k))
                              /\ Entry(ledger, ReserveID(l, k)).st \in {"pending", "expired"}
  /\ \A l \in denied : leases[l] = None

\* When no change of an active limit is under way, and none of its changes has
\* overlapped another or reused a target, the balance in the ledger is the
\* capacity the backend works with.
CapacityHonest ==
  \A k \in Key \ mixed :
    states[k].status = "active" /\ adm.key # k /\ (\A s \in loop.todo : s.key # k)
      => ledger.balance[k] = states[k].capacity

\* While no PUT of a limit is under way, its reservations alive fit in the
\* capacity the limit is recorded with.
NeverOverCommitted ==
  \A k \in Key : adm.key # k => Load(ledger, k) <= states[k].capacity

\* The ledger's accounts as the variables of the abstract limiter.
Limits == INSTANCE Limiter WITH
  Need    <- {[k \in KeysOf(l) |-> CHOOSE n \in Amounts(l, k) : TRUE] : l \in Lease}
               \cup {[k \in {x} |-> n] : x \in {y \in Key : Kind[y] = "rolling"}, n \in 1 .. 3},
  load    <- [k \in Key |-> Load(ledger, k)],
  cap     <- ledger.balance,
  counted <- {}

\* The ledger's accounts are a limiter: load is charged whole and within the
\* capacity, and a capacity only moves to a value that covers the load
\* (create_transfers with linked pending debits, and the loop's decrease).
ImplementsLimiter == Limits!Spec
=============================================================================
