# A TLA+ verification of cogni

cogni runs benchmark questions through LLM agents. Three parts of it are hard to get right
and hard to test: its rate limiter, a server (`cmd/ratelimiterd`) that hands out capacity
of shared limits under *leases*, over memory or over a TigerBeetle ledger, with a client
library (`pkg/ratelimiter`) that schedules jobs against it; the runner, which runs
questions as such jobs and shows them in a live UI; and the agent's call loop, which keeps
a conversation within its budgets by compacting it. This directory holds TLA+ models of
these parts, TLC configurations that check them on small instances, and TLAPS proofs.

- [Inventory](#inventory): the parts of the system, their state and their hard behaviours
- [Modules](#modules): what models what
- [Runs](#runs): what TLC checks, the bounds, the fairness
- [Proofs](#proofs): what TLAPS proves and from what
- [Disagreements](#disagreements): where code and documents differ
- [Plan](#plan) and [what is not modelled](#not-modelled)

Check a run with `tlc -config X.cfg MCModule`, the proofs with
`tlapm MProofs.tla`. `PROJECT.json` lists runs, mutants, the lines each
definition stands for, hazards and theorems.

## Inventory

| part | state | operations | interacts with | hard behaviour |
|---|---|---|---|---|
| memory backend `internal/backend/memory` | definitions, limit states, rolling windows (counter, heap, index), concurrency holds (map, heap), debt, leases; one mutex | `Reserve`, `Complete`, `ApplyDefinition`, `ApplyState`, `TryApplyDecrease` | called by the HTTP handlers or, embedded, by the local client; writes the registry | redundant data that must agree; retries and late duplicates; expiry with stale time stamps; pending decreases; `uint64` |
| TigerBeetle backend `internal/backend/tb` | limit states, leases, failed leases, deny streaks; balances in an external ledger | the same, and a loop that applies decreases | ledger through the submitter | lock released around every ledger call; ids of transfers decide what a retry does |
| submitter and pool `internal/tbutil` | pending items, clients | `Run`, `flush`, `Acquire`, `Release` | ledger | batching, positional results, shutdown |
| registry `internal/registry` | map of limit states, JSON file | `Put`, `NextState`, `List`, `Save`, `Load` | PUT handler, reconcilers | Saves overlap; crash in the middle of a Save |
| HTTP API `internal/api` | none | reserve, complete, batch forms, PUT and GET of limits | backend, registry | a PUT is several critical sections; how errors are reported |
| ratelimiterd `cmd/ratelimiterd` | none | start, shutdown | all of the above | which reconciler runs in which mode |
| scheduler `pkg/ratelimiter/scheduler*.go` | ready and blocked queues per provider and model, three bounded channels, one timer | `Submit`, loop, workers, `Shutdown` | limiter, `job.Execute` | goroutines, bounded channels both ways, lease id rules, starvation, shutdown |
| batcher `pkg/ratelimiter/batcher*.go` | channel, pending batch, reply channels | `Reserve`, `Complete`, loop, `Shutdown` | limiter | positional results, deadlines shared by a batch, shutdown |
| limiter clients `local`, `httpclient`, `noop` | none | forward calls | server or backend | which failures become errors |
| runner `internal/runner` | results, observer state | runs tasks, submits questions, collects results | scheduler, agent, UI | waits for one result per question |
| agent `internal/agent` | session history, metrics | `RunCall`, `CompactHistory`, stream and tool handling | provider, tools | budgets between steps, what compaction keeps |
| live UI `internal/ui/live` | rows per question | `Reduce` over an event channel | runner | channel drops events when full |
| tools, questions, configuration, reports, results database, git, command line | mostly none | sequential | files, processes | left to unit tests |

What makes each part correct:

- **backend**: no limit ever carries more than its capacity; a request is charged to
  all of its keys or to none; a retry is charged once; a charge lasts its window or
  timeout and no longer; a pending decrease is applied in the end.
- **registry and PUT**: the file loads and an acknowledged PUT survives a crash, unless
  Saves met; registry and backend agree, unless PUTs of a key met.
- **scheduler**: a job is neither lost nor executed twice, holds at most one lease
  beside those it was told are denied, and is not starved by denied jobs; shutdown ends.
- **batcher**: every caller gets its own answer, once; order per kind is kept; every
  call returns.
- **TigerBeetle backend**: as the memory backend, over an account per key whose transfers
  have ids that decide what a retry does; a denial is final; the balance in the ledger is
  the recorded capacity.
- **submitter and pool**: every item gets the ledger's verdict on its own transfers, none
  is lost or overtaken, no client is lost.
- **limiter clients and handlers**: the i-th answer is that of the i-th item; who is told
  "allowed" has a lease; a lease whose every Reserve was denied holds nothing; hints are
  bounded; a call returns.
- **runner, UI**: every question gets a result or the run fails; the verdict is that of
  the results; the screen shows them; nobody sends on the closed event channel.
- **agent**: no request beyond the limits; outputs stay with their calls; compaction keeps
  what the prompt needs; hooks are bracketed; a turn ends.

## Modules

| module | models | remarks |
|---|---|---|
| `Limiter` | the promise of a backend | abstract: load and capacity per key; release, grant, resize |
| `MemoryBackend` | `internal/backend/memory` | one action per operation and outcome |
| `MemoryBackendProofs` | | accounting of `MemoryBackend`; it implements `Limiter`; retries; leases |
| `Scheduler` | `pkg/ratelimiter/scheduler*.go` | limiter external |
| `SchedulerProofs` | | jobs and leases |
| `Picking` | the loop that appends the wanted elements of a slice to another | one recursive function, used by `Batcher` and `Compaction` |
| `PickingProofs` | | what that loop computes |
| `Batcher` | `pkg/ratelimiter/batcher*.go` | limiter external |
| `BatcherProofs` | | answers and order |
| `LimitServer` | PUT handler, registry, its file, crash and restart | backend reduced to its limit states |
| `LimitServerProofs` | | types; durability with concurrent handlers |
| `TBBackend` | `internal/backend/tb`, start of `ratelimiterd` in that mode | composed with the PUT handler, the registry and an external ledger; refines `Limiter` |
| `Submitter` | `internal/tbutil`: submitter, client pool, calls with a context | ledger external |
| `SubmitterProofs` | | verdicts, items and clients |
| `LimiterCalls` | limiter configuration, `internal/ratelimit`, the clients, the handlers, the backends' answers and hints | client, network, server and backend composed |
| `QuestionRun` | `internal/runner`, `internal/ui/live`, the run command | runner, jobs, event channel and UI composed |
| `QuestionRunProofs` | | results, selection, event channel and screen |
| `Compaction` | `internal/agent/compaction*.go`, `tokens.go` | operators on histories, no state |
| `CallLoop` | `internal/agent/call`, session start, stream assembly, tool calls | extends `Compaction` |
| `CallLoopProofs` | | pairing, hooks, compaction, limits |
| `MC*` | small instances | constants only |

Definitions marked `MUTANT` are plausible bugs; they are used by no specification and
only serve to show that a property can fail (`PROJECT.json`, `mutants`).

### MemoryBackend

Every operation of the backend holds `m.mu` from its first to its last access, so each is
one atomic action. `defs`, `states`, `roll`, `conc`, `debt` and `leases` are the maps of
the struct. `Reserve` is three actions by its outcome: `ReserveRejected` (the early
returns), `ReserveDenied` (the cleanup happens, nothing is charged) and `ReserveGranted`;
`Complete` is `Complete` and `CompleteUnknown`; `ApplyDefinition` is an increase or a
recorded decrease; `TryApplyDecrease` waits or applies. `ApplyState` for the persisted
limits is the initial state.

- *Time* is relative: an entry keeps what is left until its `expiresAt` and `Tick`
  decrements it. A request's stamp is taken before the mutex and may lag the clock by
  up to `MaxLag`.
- *The heap* is the set of its elements; the code pops every element whose time has come,
  and the order among them has no effect on the result. An element is a pointer in the
  code: `ref` is its identity, from a set of `Slot`s that bounds the grants alive.
- *Sums* of amounts are cardinalities of sets of unit charges (`Weight`), which both TLC
  and TLAPS can handle.
- *Arithmetic* on the counter and the debt is modulo `Word` (2^64 in the code).
- A Reserve may arrive at any time, also after the Complete of its lease, as requests are
  delayed and repeated between client and server.
- `left` and `retired` are history: for how long each charge of a live lease counts from
  now on, and which leases a Complete has ended. `LeaseBacked` promises a charge for as long
  as its grant did, except the hold of a lease that is granted again after a Complete.
- An absent store reads as an empty store with capacity 0.
- `retry_after_ms` is left out: it is positive for every denial and only advises.

`Limiter` is what a client may rely on: in every step load is given back, or one whole
request is charged within the capacities, or one capacity moves to a value that covers
the load. `ImplementsLimiter` maps a window to the sum of its reservations and a
concurrency limit to the number of its holds.

### Scheduler

The loop goroutine is a cycle `top` (promote) → `dispatch` → `select`; each worker goes
`idle` → `reserve` → `execute` → `complete`, or → `requeue`. Channels are bounded
sequences. A not-before time is the delay left. The limiter is the set `granted` of the
leases it holds for a job; a Reserve that fails, or is cancelled by Shutdown, may or may
not have been granted. `handleJob` takes a new lease whenever `Allowed` is false, whatever
the limiter holds (`Refused`): after `ReserveBackendError`, the server's 200 answer with
`backend_error`, and after a `ReserveDenied` of a lease held since an attempt whose answer was
lost, as `validateReserve` denies a decreasing limit before any lease is looked up. The
history `refused` has those leases; `SpareLeases` bounds their number. Lease ids are drawn from ids neither held nor just used, so a small set
is enough. `Submit` after the end may still find room in the buffer, as Go's `select` may.
A blocked queue is sorted by not-before time, so the due items, which `popReady` takes one
by one, are a prefix (`DueCount`).

### Batcher

A call is `Start`, `Enqueue`, then one of `Return`, `Expired`, `Closed`. The loop collects
up to `MaxBatch` items, splits them by kind (`Pick`) and makes two batch calls, each an action. A
batch call may fail when the limiter is flaky or when some item has a deadline (the batch
inherits the earliest), having processed any prefix. A call that failed is taken to process
nothing afterwards; over HTTP (`httpclient/client.go:115`) the server may go on after its
client gave up, so that `OnceInOrder` speaks of the order in which the limiter is called.

### LimitServer

A PUT is `PutBegin` (decode, `NextState` from the registry), `PutApply` (backend),
`RegistryPut`, and the steps of `Save`: snapshot, open with truncation, write, rename, or
a failure followed by the removal of the temporary file. Names and files are distinct
(`tmp` and `path` name an inode, `disk` holds its contents), because two Saves may have
the same file open and a rename moves it while the other still writes to it. A write over
other contents may leave a mixture (`Torn`). net/http runs handlers concurrently and nothing
serialises them, so any number of PUTs and Saves overlap. What then goes wrong is told apart by
three history variables: `clash` has the keys of which a PUT began while another was between
`NextState` and `registry.Put`, `lapped` the Saves under way that met another, and `crossed`
says that the last Save to replace the file was one of those. A Save that meets no other makes
the file good again, and a restart brings registry and backend together. `Crash` loses everything but the files;
`Restart` loads, or fails to. In memory mode nothing else writes the registry: the write
that ends `TryApplyDecrease` is that of a PUT without the handler, and is not called.

### TBBackend

The backend's mutex is released around every ledger call, so each stretch between two
calls is an action. Reserve: `ReserveStart` (early returns, or one linked chain of pending
transfers on its way) and `ReserveFinish` (what the answers mean). Complete:
`CompleteStart`, which forgets the lease first, and one `CompleteStep` per answer. A PUT
goes `PutBegin`, `PutRead`, `PutLookup`, `PutAnswer`, `PutSet`, `PutRegistry`; the
decrease loop takes `LoopSnapshot` and then, key by key, `LoopTry`, `LoopAnswer`,
`LoopRegistry`. A request on `wire` is executed at any later time, also when its caller
gave up (`GiveUp`, `PutGiveUp`) or the process crashed (`Crash`, then `Load1` per key and
`Loaded`).

- *The ledger* is external: a balance per key and the set of recorded transfers, with what
  `create_transfers` does for linked chains, pending transfers and their timeouts, posting
  and voiding, and ids: an id that is recorded answers `exists` or
  `exists_with_different...`, one that failed for lack of credit answers
  `id_already_failed`. Accounts of resources and operators are one number per key.
- *Late duplicates* of a Reserve are left out of both runs (`LateDuplicates` = FALSE: no Reserve of
  a lease is under way when its Complete starts, and none arrives after it). The first conjunct of
  `GrantedIsHeld` needs this: the ledger answers the late Reserve of a completed lease with
  `exists`, and the backend takes that as a grant although the transfers are voided. The second
  conjunct and the other properties do not mention the constant; TLC finds them true with it TRUE
  as well, in a run that is too long to keep.
- *Keys* have a limit from the start. The PUT that creates one (`tb/apply.go:22`), the creation
  of its accounts and the answer `unknown_limit_key` (`tb/reserve.go:39`) are left out.
- *Ids* are `ID128`: a tag and the values that are hashed into them. Hashes are taken not to
  collide.
- `denied`, `done` and `mixed` are history; `mixed` has the limits whose changes
  overlapped or reused a target.
- Debt and the reconciliation of actual amounts are transfers of `CompleteStep`; retry
  hints are in `LimiterCalls`.

### Submitter

The goroutine is `Take`, `Timer`, `Stop`, then a flush: `Acquire`, the call, and
`SubmitReturn` or, when the context ends, `AcquireCancelled` or `SubmitAbandon`. An item
that does not fit is kept aside until the flush before it is over. A request may still be
on a client that its caller has released: `calls` is a queue per client. Lookers stand for
the ledger calls that do not go through the goroutine. Transfers are positions in a batch;
which of them the ledger refuses is a constant of the item.

### LimiterCalls

One configuration is chosen, normalised and validated (`ValidRateLimiter`), and builds a
limiter (`BuildLimiter`): noop, local, or HTTP with or without batches. A call goes
through `HandlerBegins`, per item `ValidateItem` and `ServeItem`, `HandlerEnds`, and
`Deliver` at the client; `Lose` loses a request or an
answer, `Timeout` ends the client's wait while the server goes on, `ChangeBackend` and
`ChangeRegistry` are the two halves of a PUT, `Expire` ends a hold. `Outcomes` is what
either backend may answer, reduced to leases, holds and streaks: their inner workings are
`MemoryBackend` and `TBBackend`. `ServeItem` is one step, also of a TigerBeetle Reserve, which
releases its mutex around the ledger call: what happens in between is in `TBBackend`. The hint of a denial is computed as in `retry.go`, with
`MaxInt` for the largest integer of a conversion from floating point.

### QuestionRun

`Main` is the command's goroutine: plan, tasks, and per task either the sequential loop or
submission to a scheduler, one result per question, shutdown, verdict, outputs, and the end
of the UI. A job is one behaviour of `Scheduler`: queued, denied some times, running, tool
calls, parsing, judged, result sent, Complete. An event is put in the bounded channel or
dropped; `UIReceive` applies `ApplyEvent`, the reducer; `UIDies` is the end of the UI's
goroutine. Outcomes come from `Script`, so that failures happen at each stage. `NoAgent` is
the empty string that stands for an agent not named. `main.asked` is what the command line
asked for, so that `RanAsSelected` compares the run with its own selectors and no others.
`ScreenMatchesResults` is about tasks whose questions were announced.

### Compaction and CallLoop

An item of a history is its kind, its number and, for tool calls and outputs, the call's
id; lengths are per kind. A pass of the loop is `compact`, `limits`, `request`, `receive`,
one `tool` step per call, back to `compact`, and `finish`. The response is a sequence of
fragments, assembled as the provider does, with ids that repeat from one response to the
next. Provider, summary, tools, hooks and the clock may fail at each step.
A compaction first decides which indices to keep (`Keep`), then `Pick`s them in order.
`CompactionKeeps` is the reference definition for what compaction computes.

## Runs

| run | instance | checks |
|---|---|---|
| `memory` | 2 leases, late duplicates, a window and a concurrency limit, each resized, lag 1; 154 thousand states | `TypeOK`, `NeverOverCommitted`, `UsedIsExact`, `LeaseBacked`, `RetryChargesNothing`, `ImplementsLimiter`, `DecreaseDrains` |
| `memory_decrease` | 2 leases, every limit shrinks and grows, nothing reconciles; TLC must refute it | `DecreaseResolves` |
| `scheduler` | 3 jobs, 2 queues, 2 workers, channels of 2, one job denied and failing, 3 lease ids; 3.5 million states | `JobsConserved`, `LeaseDiscipline` |
| `scheduler_live` | 2 jobs, 1 worker, channels of 1, one job denied, failing or answered `backend_error` for ever | `AdmittedJobsRun`, `ShutdownEnds` |
| `batcher` | 1 Reserve, 2 Completes, batches of 2, one deadline, shutdown | `OwnAnswer`, `OnceInOrder`, `CallsReturn` |
| `server` | 2 handlers, 2 keys, 3 PUTs, disk errors, crashes | `FileLoadable`, `AckedDurable`, `InStep` |
| `tb` | 2 handlers, 2 leases, 2 keys, 1 PUT, decrease loop, 1 fault; 700 thousand states | `ChargedWhole`, `GrantedIsHeld`, `CapacityHonest`, `ImplementsLimiter` |
| `submitter` | 3 callers, 1 direct call, 2 clients, batches of 3 transfers; 440 thousand states | `OwnResults`, `ItemsConserved`, `ClientsConserved`, `CallsReturn` |
| `question_run` | a task with 2 workers and 2 questions, then a sequential one with 1 question, 5 selections, event channel of 2; 217 thousand states | `VerdictMatches`, `RanAsSelected`, `NoSendOnClosed`, `ScreenMatchesResults`, `RowsSettle`, `RunEnds` |
| `call_loop` | 2 turns, 1 change of the environment, 2 hooks, 6 steps, 16 tokens with a soft limit of 13; 90 thousand states | `ToolsPaired`, `HooksBracket`, `CompactionKeeps`, `RequestsWithinLimits`, `TurnEnds` |
| `limiter_calls` | 2 calls of up to 3 items, server limit 2, 9 configurations, both backends, 1 fault, 1 change, 1 expiry | `OwnAnswers`, `LeasesMatchAnswers`, `HintBounded`, `CallsReturn` |
| `tb_overcommit` | 1 key, 1 handler, 2 PUTs; TLC must refute it | `NeverOverCommitted` |

`TypeOK` is checked in every module: by itself for `MemoryBackend`, and elsewhere as the
first conjunct of one of the properties above (`JobsConserved`, `OnceInOrder`, `InStep`,
`ChargedWhole`, `ItemsConserved`, `VerdictMatches`, `ToolsPaired`, `OwnAnswers`).

*Why the bounds are enough.* `memory`: the two leases do not fit together when both ask for
2 of 3, and do otherwise; a reservation can be reduced, expire, and its lease be retried,
completed, and granted again before its old heap element is gone, while a decrease is
pending or finished. The state space is finite without a bound on time. Its limits deny an overage,
as a debt grows through all values below `Word`; debt is in `memory_decrease` and in the proofs.
Requests name a key once and no sum wraps: see the hypotheses below.
`scheduler`: each channel can be full while its sender waits, and a job can be blocked,
due, or ready behind another of its queue; the one job that is denied and fails can have an
answer lost and then be denied, and be refused one lease that it keeps. `batcher`: a batch can be filled by size or by
timer, hold both kinds, and leave items in the channel. `server`: three PUTs of capacities
1 and 2 give an increase, a decrease and a change of a decreasing limit, with a crash
between any two steps; two handlers work on one key or on two and their Saves overlap at every
step, and the third PUT's Save may follow such a pair alone. `tb`: two handlers can work on the same lease (a retry while the
first call is on its way) or on two leases that do not fit together, one of which asks
for both keys, while a PUT or the decrease loop is between two of its ledger calls; `MaxFaults` = 1
gives a crash or a caller that gives up at any point; the window ends before the timeout,
so one key of a lease runs out before the other; `MaxPuts` = 1 keeps overlapping
changes of one limit out, which `tb_overcommit` is about. `submitter`: two items
fill a batch and the third overflows it, in every order of arrival, so an item can share a
batch, be kept aside or wait in the channel, and a client can be taken by the direct call;
the refusal of an item larger than any batch is in `Take`, but a fourth caller for it would
be too many for the run. `question_run`: two workers finish in either order, the channel
of 2 overflows when the UI is slow, and the last job of a task may outlive it into the next;
`MaxDrops` = 1 bounds only the drops of a living UI. `call_loop`: a context and a message have
5 tokens, and one call with its output takes a history to 16, so the next request
comes after a compaction. With one output kept, what compaction leaves is 16 tokens, over the
soft limit and just within the hard one, or 17 with a summary, and beyond both; `MaxDiffs`,
`MaxTurns` bound the session. `limiter_calls`: a batch
can be larger than the server's limit, contain an invalid item, and one lease can be asked
for twice; `Streaks` and `MaxInt` are such that the conversion of the hint overflows within
the run. `ChanFactor` is 4 in the code and 1 here; a smaller buffer
fills earlier.

*Deadlock* is checked for `MemoryBackend` and `Scheduler`. In the other
modules the modelled work ends (the PUTs are used up, calls have returned, the command has
exited, the turns are over, every lease is completed); where waiting for ever would be a fault, a liveness
property excludes it.

*Fairness.* `FairSpec` of `Scheduler` and `Batcher`: goroutines run, the limiter and
`Execute` return, timers fire, time passes (weak fairness). Strong fairness stands for two
guarantees of Go: `select` chooses uniformly among its ready cases, so a case that is ready
again and again is chosen, and senders blocked on a channel are served in turn. Nothing is
assumed of `Submit`, `Shutdown`, or of which answer a limiter gives to a job that may be
denied. `ServerSpec` of `MemoryBackend` has what `ratelimiterd` does in memory mode: its
handlers, and time, which passes; nothing calls `TryApplyDecrease` there. `Submitter`: the goroutine, senders and returning callers run and the ledger answers;
whether a context ends is left open. `QuestionRun`: main goroutine, UI and each job take
steps, so calls of limiter, model and tools return, and a job is denied finitely often
(`Script`). `CallLoop`: the loop runs, so model and tools answer; the limits, not fairness,
end the turn. `LimiterCalls`: each call goes on or times out. `TBBackend` is checked for
safety only. No fairness is assumed of clients or the administrator.

## Proofs

TLC checks each property below on one instance; these theorems hold for every value of the
constants that satisfies the module's `ASSUME`. A hypothesis of a theorem is written in it;
for each, the property fails without it, and `Disagreements` or the text below says how.

| theorem | states | hypotheses |
|---|---|---|
| `MemoryBackendProofs!TypeCorrect` | `TypeOK` | |
| `MemoryBackendProofs!Accounting` | `UsedIsExact`, `NeverOverCommitted` | `DistinctKeys`, `NoWrap`, `KindStable` |
| `MemoryBackendProofs!Refinement` | `ImplementsLimiter` | the same |
| `MemoryBackendProofs!RetriesAreFree` | `RetryChargesNothing` | |
| `MemoryBackendProofs!LeasesBacked` | `LeaseBacked` | `KindStable` |
| `LimitServerProofs!TypeCorrect` | `TypeOK` | |
| `LimitServerProofs!RegistryDurable` | `FileLoadable`, `AckedDurable`, `InStep` | |
| `SchedulerProofs!NoJobLost` | `JobsConserved` | |
| `SchedulerProofs!OneLease` | `LeaseDiscipline` | |
| `BatcherProofs!Answers` | `OwnAnswer` | |
| `BatcherProofs!Order` | `OnceInOrder` | |
| `SubmitterProofs!Verdicts` | `OwnResults` | |
| `SubmitterProofs!NoItemLost` | `ItemsConserved` | |
| `SubmitterProofs!NoClientLost` | `ClientsConserved` | |
| `CallLoopProofs!Pairing` | `ToolsPaired` | |
| `CallLoopProofs!Bracketing` | `HooksBracket` | |
| `CallLoopProofs!CompactionSafe` | `CompactionKeeps` | |
| `CallLoopProofs!WithinLimits` | `RequestsWithinLimits` | |
| `QuestionRunProofs!VerdictsMatch` | `VerdictMatches` | |
| `QuestionRunProofs!RunsWhatIsSelected` | `RanAsSelected` | |
| `QuestionRunProofs!NothingSentOnClosed` | `NoSendOnClosed` | |
| `QuestionRunProofs!ScreenIsTrue` | `ScreenMatchesResults` | |
| `QuestionRunProofs!RowsStaySettled` | `RowsSettle` | |

*Hypotheses.* `DistinctKeys`: a request names a key once. `NoWrap`: no capacity plus an
amount reaches the word size. `KindStable`: no limit changes its kind. The code checks none
of the three. Without `DistinctKeys` the accounting fails for a window of capacity 3 and the
request `<<(tpm, 2), (tpm, 2)>>`: each requirement is checked against the counter as it was
before the request (`reserve.go:62`). Without `NoWrap` it fails for `Word` = 8 and amounts 1
and 7: `used+Amount` wraps around in the same line. No theorem assumes anything of the order
in which requests arrive, of the number of handlers or workers, or of what the limiter answers.
Where the code breaks a promise in some case, the property itself names the case (`retired` in
`LeaseBacked`, `clash` and `crossed` in `LimitServer`, `refused` in `Scheduler`), and
`Disagreements` says what happens there.

**Accounting.** Neither property is inductive. `Accounted` adds: references in a window are
unique (otherwise a union of reservations could weigh less than its parts, and a reduction
could hit two); a store's capacity is that of the definition in force and the recorded state
has that definition (a decrease is decided on the recorded state and applied to the store);
an undefined key has empty stores; kinds are as `KindStable` says. The argument has three
layers: lemmas about `Weight` (additive over disjoint unions, computed for one element);
what each operation on a window does to it (`CleanupExact`, `AddExact`, `ReduceExact`,
`AgedExact`: counter and weight move alike, and the clipping at zero is never reached);
and one lemma per action.

**Refinement.** Under the same invariant each action is a step of `Limiter` or a stutter:
expiry and completion are releases, a granted Reserve is one grant of the whole request
(every key it names is charged, no other is), a change of a definition or an applied decrease
is one resize. The mapping of a window is the weight of its heap, which the accounting
equates with the counter the code compares. `RetriesAreFree` needs only the types: a Reserve
of a live lease returns before it touches a store. `LeasesBacked` needs the age of every
entry: `Backed` says that each requirement of a live lease has a reservation of that amount
(`Pays`) or a hold that expires no earlier than the lease was promised; `Pointing` that `byID`
leads to a reservation of its own lease, so that a Complete reduces no other's; and `Fresh` that
a lease not yet granted has left no heap element behind that could end its hold. Only the last
fails for a lease that comes back after its Complete, hence `retired`.

**Registry.** `KeepInv` is about any number of handlers. `Apart`: a Save that met no other is the
only one, and if the last to replace the file met no other, none writes to that file.
`SaveInFile`: what such a Save has done to the temporary file at each of its steps.
`UpdateInStep`: a key outside `clash` has one PUT at most between `NextState` and `registry.Put`,
which has what it computed from the registry's present entry, so that backend and registry decide
alike. `AckedEverywhere`: the registry, and the file unless `crossed`, have at least the
acknowledged version of each key, and a Save has the version of its own PUT. The types bound the
versions by the PUTs that began.

**Scheduler.** `JobsConserved` counts the copies of a job in seven places. The proof gives
each place its own count, shows what each sequence operation (append, tail, insertion in
order, splitting a list in due and not due) does to a count, and then each action moves one
unit from one place to another. Beside the types it needs that the blocked lists are sorted
(the due jobs are a prefix) and that the round robin lists every queue with work once.
`OneLease` adds (`Leases`, `Spare`) that an id which travels with a job is the only one that may
be granted to it beside the refused ones, and is not itself refused: a refusal moves the id to
`refused`, when it is granted, in the step that gives the job a new one.

**Batcher.** The invariant ties the queues to the history of acceptance: what is pending and
in the channel is the last part of `accepted`, in order, and `Base` counts the calls before
it; the log and both batches hold calls from those, rising in the order of acceptance within
a kind, and nothing of a batch's kind in the log comes after the batch (`BatchOf`). A call
has a reply only when it has left its batch, which is why its channel is empty when the
reply is sent. Both theorems are consequences.

**Submitter.** `SubmitterInv` puts the unanswered items in one line (`Line`): those at the
front (pending, or the batch of the flush), the one kept aside, those in the channel, each
part and each after the one before it in the order of sending. Every step of the goroutine
leaves the line as it is, takes away its front, drops the first of the channel, or moves that
one up; `Send` appends. Until Close the log is in the order of sending too, and ahead of all
that the ledger has not executed (`Logs`). The request on a client whose `who` is the
submitter is unique, is the batch in hand, and has no reply yet (`Requests`): a request that
was given up cannot answer a later flush. `Verdicts` rests on `SpansDisjoint`: the cursor of
`flush` never moves back, so no place of a batch is in two spans.

**Call loop.** `LoopInv` says that outputs are paired with the nearest call of their id, that
the call a tool runs for is the last item, that the limits checked before a request still hold
when it is sent, and how many hooks have run. The hard step is compaction: for any budget, a
kept output keeps its call, and no other call of the id comes between (`CompactionIs`).

**Question run.** One invariant, `Inv`, carries the five theorems (`InvHolds`). `Control`: the
plan is that of what was asked for, and the place of the command decides how many of its tasks have
ended and what it may return. `JobsRun`: a job that may still report or send an event belongs to
the task under way, and the command is asking for results. This is the reason why nothing is sent
on the closed channel: Shutdown may give up on a worker after two seconds, but one result per
question has then been collected, so the worker is past its last event. `Answers`: what is kept
and what is in the channel of results comes from a job that reported that outcome, each question
once, and the counters are the cardinalities of what is kept; with the number of answers this
gives that a task that shuts down has one for each question. `Recorded`: each task's result has
the outcomes of its jobs and the verdict they give. `Channel`: the UI's counters are
those of its rows, and the channel is closed only after the last task. `Screen` relates the
screen and the events still on their way to the jobs: the last task start among them is that of
the task under way and no task starts twice (`Follows`), no event is beyond the task's questions
(`Wide`), a settled outcome is on the screen or on its way and no other terminal status is
(`Told`), and nothing follows a terminal status of a question within its task (`Final`). Each
sender appends to these sequences (`Grown`) and the UI takes their head (`Shrunk`), so the proof
has one lemma per part and kind of event instead of one per action. `RanAsSelected` rests on
`PickIs`: the plan is in the order of the configuration because `OrderedTasks` picks from it.
`ConstantsAssumption` says that task ids differ, as the configuration's validation has it;
`InputsAssumption` that selectors are a list, that a denial is one of the three kinds of waiting,
and that `None` is not one of the values it stands beside.

The attempt to prove `VerdictMatches` found `Status` of the model with overlapping `CASE` guards.
TLC takes the first that holds, but in TLA+ such a value is any of those, and a task with a
runtime error and an exceeded budget could have been recorded as failed. Its guards, and those of `Verdict` in `TBBackend`, now exclude
each other.

**Loops.** `Pick` is a recursive function over the prefix lengths of a sequence. The library's
induction theorems cannot be instantiated by the provers here, so `PickIs` (the result has the
elements at the wanted indices, in order, and no others) is proved with a least
counterexample: the lengths for which the claim fails have a least element (`Least`, from the
well-foundedness of the natural numbers), which is not 0 and whose predecessor is no
counterexample, and one turn of the loop takes the claim from there to it. The cursor of the
submitter (`CursorIs`, `CursorRises`, `CursorAgrees`) is treated in the same way.

*Only model-checked*: `LimiterCalls` (`OwnAnswers`, `LeasesMatchAnswers`, `HintBounded`) and
`TBBackend` (`ChargedWhole`, `GrantedIsHeld`, `CapacityHonest`, `ImplementsLimiter`). What a
ledger does with a chain of transfers is a loop over a list of any length (`ChainOutcome`), next
to an invariant over every request on the wire, and `HintBounded` rests on powers of a factor:
these need induction over data, by least counterexamples as above. `OwnAnswers` and
`LeasesMatchAnswers` do not, and come next. `DecreaseDrains` of `MemoryBackend` is not proved
either. All liveness (`AdmittedJobsRun`,
`ShutdownEnds`, `CallsReturn`, `RunEnds`, `TurnEnds`) stays with TLC, as liveness under fairness
is outside what the prover handles.

## Disagreements

Two runs are there for TLC to refute.

- `tb_overcommit`: `tryApplyDecrease` of the TigerBeetle backend writes the limit's
  state from the snapshot it began with (`tb/decrease.go:87`); a PUT that raises the limit while the
  loop waits for the ledger is overwritten, and the limit is recorded with the old target while
  the ledger has the balance of the raise. `test-suite.md:57`: "At any time, the sum of amounts
  of active reservations must be `<= capacity`."
- `memory_decrease`: in memory mode nothing calls `TryApplyDecrease`
  (`cmd/ratelimiterd/main.go:70`), so that a lowered limit denies everything until it is raised
  again (`DecreaseResolves`). `backend-memory.md:75`: "Decrease reconciliation (called
  periodically):". `DecreaseDrains` says that the call would succeed in the end.

The models also show the following. Where a formula or instance is named, TLC refutes it
when it is added to the cfg.

*Memory backend and server.*

- The heap element left by a completed hold ends a later hold of the same lease early
  (`memory/complete.go:26`, `concurrency.go:67`; `LeaseBacked` without `\/ l \in retired`): a
  Reserve is granted, completed, and its late duplicate granted again; the first
  element's time comes, and another Reserve's cleanup deletes the second hold. `test-suite.md:86`:
  "Concurrency holds are released on Complete or by timeout."
- Two Saves share `path+".tmp"`, so a truncated or mixed file may be put in place
  (`registry/persistence.go:47`; `FileLoadable` without `~crossed`). `persistence.go:37`: "Save
  persists registry state to a JSON file using an atomic rename." An older snapshot may also be
  saved over a newer one (`AckedDurable` without `~crossed`).
- Two PUTs of a key interleave between `NextState`, the backend and `registry.Put`, and leave the
  registry with one's capacity and the backend with the other's, until the next restart
  (`admin_put.go:22`; `InStep` for every key, without `\ clash`).

*Scheduler and batcher.*

- The loop sleeps until a denied job's retry although a ready job and an idle worker are
  there (`scheduler_run.go:69`; `ReadyNotBehindDenied` with one worker, three lease ids, no
  flaky job, `RetryDelays` = {0, 3} and `ChanFactor` = 4). `test-suite.md:81`: "Jobs that could be
  allowed must not be blocked behind denied jobs."
- Any answer with `Allowed` = false makes `handleJob` take a new lease
  (`scheduler_worker.go:27-30`), while the limiter may hold the old one: after `backend_error`, and
  when the retry of a Reserve whose answer was lost is denied with `limit_decreasing`, which
  `validateReserve` does before any lease is looked up (`api/reserve_validation.go:46`). The job
  then has two leases until the first expires (`Cardinality(granted[j]) <= 1`).
  `decisions/0012-error-model-idempotency.md:58`: "Items with error responses are treated as
  **unknown** and retried with the same LeaseID."
- Items in the channel get `ErrBatcherClosed` (`batcher_run.go:26`; `ShutdownFlushes`).
  `batcher.go:131`: "Shutdown stops the batcher loop after flushing queued work."
- An error of a batch call goes to all of its items, so that the deadline of one call fails
  the others of its batch.

*TigerBeetle backend and submitter.*

- A transfer that changes a capacity has an id of key and target (`tb/apply.go:107`): a target
  that recurs is taken for done, or refused for ever. A decrease that once exceeded the
  credits is burnt, and the limit stays decreasing. After a crash between the decrease
  transfer and the registry's write, the start finds a transfer that differs and fails.
  `CapacityHonest` leaves these limits out (`mixed`).
- The retry of a granted Reserve with several keys is answered with `exists` and
  `linked_event_failed`, and reported as an error for ever (`tb/reserve.go:130`).
  `test-suite.md:487`: "Reserve leaseA again with same reqs: must be allowed (treat
  id_already_exists as ok)".
- Complete forgets the lease before its ledger calls, so a failed call leaves the holds to
  their timeouts. `b.failed` only grows.
- A client is released while an abandoned call is still on it. `backend-tb.md:8`: "A TB client
  has at most one in-flight request." After Close, a caller without a deadline whose item is
  in the channel waits for ever.

*Clients and handlers.*

- The hint is converted to an integer before it is clamped (`tb/retry.go:69`): beyond the range
  of an integer it falls back to the base, after some 58 denials in a row. A window of more
  than 50 s has a base above the maximum, and its hint jumps from the maximum to the base after
  some 69. `HintBounded` therefore allows the longer of base and maximum.
- The client's batch size is not bounded by the server's 256: full batches are refused as a
  whole (`reserve_validation.go:7`, `validate_rate_limiter.go:35`).
- Who is told "denied" may hold a lease: a Reserve is granted, its answer is lost, the limit turns
  decreasing in backend and registry, and the retry is answered `limit_decreasing` (`ToldDenied(n, i)
  /\ Asks(n, i, l) => leases[l].holds = {}`), against the same line of `0012`. `LeasesMatchAnswers`
  is therefore about leases of which every Reserve was denied.
- A Reserve that timed out keeps its lease until it expires.

*Runner, UI and agent.*

- The override wins over a selector's agent (`runner/run_plan.go:41`). `cli.feature:31`: after
  "cogni run auth_flow billing_summary@fast --agent default", line 33 says `And "billing_summary" uses
  agent "fast"`. `RanAsSelected` says what the code does; with the selector's agent
  before the override it fails for the third selection of the run.
- A task that fails before its questions run leaves an empty screen (`question_eval.go:36-56`).
  `output-live-ui/integration.md:59`: "If the task fails before questions run, emit `skipped` for
  all.", and `ui.md:51` lists that status. `QuestionSkipped` (`runner/observer.go:36`) is never
  sent. `ScreenMatchesResults` leaves such tasks out.
- A request no limit can admit is denied and retried for ever, and the run waits for it.
- The footer says "Ctrl+C to stop", but `Update` ignores keys; errors after `OnRunStart` return
  without `OnRunEnd`; the runner passes `context.Background()`.
- A lost task start mixes the rows of two tasks: `RowsSettle` and `ScreenMatchesResults` hold
  for runs without a dropped event.
- An empty final response makes the output an earlier text or the summary
  (`call/helpers.go:35`). A failing second `BeforeCall` leaves the first hook without
  `AfterCall`. Requests for a summary are not counted as steps.
- `trimSummaryItems` may separate an output from its call in the summary request
  (`compaction_summary.go:54`). `builtin-agent.md:214` lists the summary before the retained
  tool calls; the code appends it last.

## Plan

1. *done* `Limiter`, `MemoryBackend` and their accounting proofs; `Scheduler`; `Batcher`;
   `LimitServer`.
2. *done* `TBBackend` with its ledger and its refinement of `Limiter`; `Submitter`.
3. *done* `QuestionRun` with the live UI.
4. *done* `Compaction` and `CallLoop`.
5. *done* `LimiterCalls`.
6. *done* Proofs of the invariants and action properties of `MemoryBackend` (but
   `DecreaseDrains`), `Scheduler`, `Batcher`, `LimitServer`, `CallLoop`, `Submitter` and
   `QuestionRun`.
7. Proofs: `DecreaseDrains` of `MemoryBackend`; `OwnAnswers` and `LeasesMatchAnswers` of `LimiterCalls`; `ChargedWhole` of
   `TBBackend`.

## Not modelled

- Rendering, formatting and wording: reports, verbose output, layout of the UI, the web viewer
  and site layouts. They compute text from data and keep no state.
- Parsing and normalisation of question files, answers and the rest of the configuration:
  `QuestionRun` takes an answer's verdict as a choice, and only the limiter's settings are
  validated in `LimiterCalls`.
- File and search tools, git, the message format and HTTP exchange with the provider: I/O of
  other programs. A tool is an output or a failure in `CallLoop`.
- The results database: a schema and its fixtures, without code that updates it concurrently.
- Other commands, environment variables and signals; the load test, documentation tools and
  the Python experiment.
- ULIDs are taken to be unique, and hashed transfer ids not to collide.
