------------------------------ MODULE Scheduler ------------------------------
(***************************************************************************)
(* The client-side scheduler (pkg/ratelimiter/scheduler*.go): one loop     *)
(* goroutine that owns the queues, a pool of worker goroutines, and the    *)
(* bounded channels submitCh, requeueCh and workCh between them.           *)
(*                                                                         *)
(* A not-before time is kept as the delay that is left of it; Tick         *)
(* decrements every delay and the loop's timer.  A delay of 0 is a time    *)
(* that has come.                                                          *)
(*                                                                         *)
(* The limiter is external.  It is represented by the leases it holds for  *)
(* a job; a Reserve whose answer is lost may or may not have been granted. *)
(***************************************************************************)
EXTENDS Integers, FiniteSets, SequencesExt

CONSTANTS
  Job, Worker, Queue,
  QueueOf,        \* queueKey: the queue of a job (its provider and model)
  LeaseId,        \* lease ids; an id no longer held anywhere is used again
  NoLease,        \* LeaseID = ""
  Deniable,       \* jobs the limiter may deny
  Flaky,          \* jobs whose Reserve or Complete may fail
  RetryDelays,    \* retry_after_ms + jitter of a denial
  ErrorDelay,     \* errorRetryDelay
  IdleInterval,   \* idleInterval
  ChanFactor      \* 4 in the code: channel capacity per worker

ASSUME SchedulerAssumption ==
  /\ IsFiniteSet(Worker) /\ Worker # {}
  /\ QueueOf \in [Job -> Queue]
  /\ NoLease \notin LeaseId
  /\ \E m, n \in LeaseId : m # n
  /\ RetryDelays \subseteq Nat /\ ErrorDelay \in Nat
  /\ IdleInterval \in Nat \ {0} /\ ChanFactor \in Nat \ {0}

VARIABLES
  submitCh, requeueCh, workCh,
  ready,      \* queue -> the jobs that may be dispatched
  blocked,    \* queue -> the denied jobs, sorted by delay
  order,      \* the queues in order of creation
  rrIndex,    \* round-robin position (from 0)
  loop,       \* where the loop goroutine is
  timer,      \* what is left of its timer
  worker,     \* what each worker is doing
  stopped,    \* Shutdown has been called
  submitted, finished,   \* history: jobs that were submitted, that completed
  granted,    \* job -> the leases the limiter holds for it
  refused     \* history: those of them that the job was answered Allowed = false for

channels == <<submitCh, requeueCh, workCh>>
queues == <<ready, blocked, order, rrIndex>>
leases == <<granted, refused>>
vars == <<channels, queues, loop, timer, worker, stopped, submitted, finished, leases>>

Item == [job : Job, lease : LeaseId \cup {NoLease}]
BlockedItem == [job : Job, lease : LeaseId \cup {NoLease}, delay : Nat]

SubmitCap == ChanFactor * Cardinality(Worker)
RequeueCap == ChanFactor * Cardinality(Worker)
WorkCap == Cardinality(Worker)
-----------------------------------------------------------------------------
(* Submit and Shutdown, called by the scheduler's user.                    *)

\* Go chooses among the ready cases of a select: a full or an open channel
\* decides, and after doneCh is closed a free buffer may still take the job.
SubmitAccepted(j) ==
  /\ j \notin submitted
  /\ Len(submitCh) < SubmitCap
  /\ submitCh' = Append(submitCh, [job |-> j, lease |-> NoLease])
  /\ submitted' = submitted \cup {j}
  /\ UNCHANGED <<requeueCh, workCh, queues, loop, timer, worker, stopped, finished, leases>>

SubmitRefused(j) ==
  /\ j \notin submitted
  /\ loop = "done"
  /\ submitted' = submitted \cup {j}
  /\ UNCHANGED <<channels, queues, loop, timer, worker, stopped, finished, leases>>

Shutdown ==
  /\ ~stopped
  /\ stopped' = TRUE
  /\ UNCHANGED <<channels, queues, loop, timer, worker, submitted, finished, leases>>
-----------------------------------------------------------------------------
(* The queues.                                                             *)

\* queue(): a queue joins the round-robin order when it is first used.
OrderWith(q) == IF \E i \in DOMAIN order : order[i] = q THEN order ELSE Append(order, q)

\* How often popReady finds its first item ready.
DueCount(items) ==
  CHOOSE n \in 0 .. Len(items) : /\ \A i \in 1 .. n : items[i].delay = 0
                                 /\ n < Len(items) => items[n + 1].delay > 0
Due(items) == SubSeq(items, 1, DueCount(items))
NotDue(items) == SubSeq(items, DueCount(items) + 1, Len(items))

\* Where push puts an item: before the first that is not earlier.  Items
\* whose time has come have lost their order here, so that any place among
\* them is possible.
PushIndexes(items, delay) ==
  {i \in 1 .. Len(items) + 1 :
     /\ \A k \in 1 .. i - 1 : items[k].delay < delay \/ (items[k].delay = 0 /\ delay = 0)
     /\ i <= Len(items) => items[i].delay >= delay}

\* MUTANT: nextReady scans from the first queue every time.
NextOffsetFromStart ==
  CHOOSE i \in 0 .. Len(order) - 1 :
    /\ ready[order[i + 1]] # <<>>
    /\ \A k \in 0 .. i - 1 : ready[order[k + 1]] = <<>>

\* nextReady: the first queue with work, from rrIndex on, wrapping around.
NextOffset ==
  LET at(i) == (rrIndex + i) % Len(order)
      first == CHOOSE i \in 0 .. Len(order) - 1 :
                 /\ ready[order[at(i) + 1]] # <<>>
                 /\ \A k \in 0 .. i - 1 : ready[order[at(k) + 1]] = <<>>
  IN  at(first)

SomeReady == \E q \in Queue : ready[q] # <<>>

NextWakeDelay ==
  LET delays == {blocked[q][1].delay : q \in {p \in Queue : blocked[p] # <<>>}}
  IN  IF delays = {} THEN IdleInterval
      ELSE CHOOSE d \in delays : \A e \in delays : d <= e
-----------------------------------------------------------------------------
(* The loop goroutine: run, dispatchReady, nextWakeDelay.                  *)

Promote ==
  /\ loop = "top"
  /\ ready' = [q \in Queue |-> ready[q] \o [i \in DOMAIN Due(blocked[q]) |->
                 [job |-> Due(blocked[q])[i].job, lease |-> Due(blocked[q])[i].lease]]]
  /\ blocked' = [q \in Queue |-> NotDue(blocked[q])]
  /\ loop' = "dispatch"
  /\ UNCHANGED <<channels, order, rrIndex, timer, worker, stopped, submitted, finished, leases>>

\* MUTANT: the dispatched job is not taken off its ready list.
DispatchKeeps ==
  LET q == order[NextOffset + 1]
  IN  /\ loop = "dispatch"
      /\ Len(workCh) < WorkCap /\ SomeReady
      /\ workCh' = Append(workCh, Head(ready[q]))
      /\ rrIndex' = (NextOffset + 1) % Len(order)
      /\ UNCHANGED <<submitCh, requeueCh, ready, blocked, order, loop, timer, worker, stopped,
                     submitted, finished, leases>>

\* The loop is workCh's only sender, so the send never waits.
Dispatch ==
  LET q == order[NextOffset + 1]
  IN  /\ loop = "dispatch"
      /\ Len(workCh) < WorkCap /\ SomeReady
      /\ workCh' = Append(workCh, Head(ready[q]))
      /\ ready' = [ready EXCEPT ![q] = Tail(@)]
      /\ rrIndex' = (NextOffset + 1) % Len(order)
      /\ UNCHANGED <<submitCh, requeueCh, blocked, order, loop, timer, worker, stopped,
                     submitted, finished, leases>>

Arm ==
  /\ loop = "dispatch"
  /\ Len(workCh) = WorkCap \/ ~SomeReady
  /\ timer' = NextWakeDelay
  /\ loop' = "select"
  /\ UNCHANGED <<channels, queues, worker, stopped, submitted, finished, leases>>

ReceiveSubmit ==
  /\ loop = "select" /\ submitCh # <<>>
  /\ LET item == Head(submitCh)
         q    == QueueOf[item.job]
     IN  /\ ready' = [ready EXCEPT ![q] = Append(@, item)]
         /\ order' = OrderWith(q)
  /\ submitCh' = Tail(submitCh)
  /\ loop' = "top"
  /\ UNCHANGED <<requeueCh, workCh, blocked, rrIndex, timer, worker, stopped,
                 submitted, finished, leases>>

ReceiveRequeue ==
  /\ loop = "select" /\ requeueCh # <<>>
  /\ LET item == Head(requeueCh)
         q    == QueueOf[item.job]
     IN  /\ \E i \in PushIndexes(blocked[q], item.delay) :
              blocked' = [blocked EXCEPT ![q] = InsertAt(@, i, item)]
         /\ order' = OrderWith(q)
  /\ requeueCh' = Tail(requeueCh)
  /\ loop' = "top"
  /\ UNCHANGED <<submitCh, workCh, ready, rrIndex, timer, worker, stopped,
                 submitted, finished, leases>>

TimerFires ==
  /\ loop = "select" /\ timer = 0
  /\ loop' = "top"
  /\ UNCHANGED <<channels, queues, timer, worker, stopped, submitted, finished, leases>>

\* Closes workCh and doneCh; what is in the queues stays there.
Stop ==
  /\ loop = "select" /\ stopped
  /\ loop' = "done"
  /\ UNCHANGED <<channels, queues, timer, worker, stopped, submitted, finished, leases>>
-----------------------------------------------------------------------------
(* A worker goroutine: worker, handleJob, requeue, complete.               *)

Idle == [pc |-> "idle"]

\* newLeaseID: an id the limiter does not hold and the job does not carry.
NewLeaseId(j, old) == CHOOSE n \in LeaseId : n # old /\ n \notin granted[j]

\* The range over workCh, then ensureLeaseID.
Take(w) ==
  /\ worker[w].pc = "idle" /\ workCh # <<>>
  /\ LET item  == Head(workCh)
         lease == IF item.lease = NoLease THEN NewLeaseId(item.job, NoLease) ELSE item.lease
     IN  worker' = [worker EXCEPT ![w] = [pc |-> "reserve", job |-> item.job, lease |-> lease]]
  /\ workCh' = Tail(workCh)
  /\ UNCHANGED <<submitCh, requeueCh, queues, loop, timer, stopped, submitted, finished, leases>>

ReserveAllowed(w) ==
  /\ worker[w].pc = "reserve"
  /\ granted' = [granted EXCEPT ![worker[w].job] = @ \cup {worker[w].lease}]
  /\ worker' = [worker EXCEPT ![w] = [pc |-> "execute", job |-> @.job, lease |-> @.lease]]
  /\ UNCHANGED <<channels, queues, loop, timer, stopped, submitted, finished, refused>>

Requeueing(item, lease, delay) ==
  [pc |-> "requeue", job |-> item.job, lease |-> lease, delay |-> delay]

\* handleJob only looks at Allowed: the next attempt uses a new lease, held
\* or not the old one is by the limiter.
Refused(w, delay) ==
  LET j == worker[w].job
  IN  /\ refused' = [refused EXCEPT ![j] =
                       IF worker[w].lease \in granted'[j] THEN @ \cup {worker[w].lease} ELSE @]
      /\ worker' = [worker EXCEPT ![w] = Requeueing(@, NewLeaseId(@.job, @.lease), delay)]
      /\ UNCHANGED <<channels, queues, loop, timer, stopped, submitted, finished>>

\* Bounds how often a lease is refused although it is held: an id is kept
\* for the job's other denials.
SpareLeases(w) == \E m, n \in LeaseId \ (granted[worker[w].job] \cup {worker[w].lease}) : m # n

\* The limiter holds no such lease and does not grant it.  Or it holds it,
\* from an attempt whose answer was lost, and one of its limits is decreasing
\* by now: validateReserve denies that before any lease is looked up.
ReserveDenied(w) ==
  /\ worker[w].pc = "reserve" /\ worker[w].job \in Deniable
  /\ worker[w].lease \in granted[worker[w].job] => SpareLeases(w)
  /\ UNCHANGED granted
  /\ \E d \in RetryDelays : Refused(w, d)

\* MUTANT: a failed Reserve is retried under a new lease.
ReserveErrorNewLease(w) ==
  /\ worker[w].pc = "reserve" /\ (worker[w].job \in Flaky \/ stopped)
  /\ granted' \in {granted, [granted EXCEPT ![worker[w].job] = @ \cup {worker[w].lease}]}
  /\ worker' = [worker EXCEPT ![w] = Requeueing(@, NewLeaseId(@.job, @.lease), ErrorDelay)]
  /\ UNCHANGED <<channels, queues, loop, timer, stopped, submitted, finished, refused>>

\* Transport error or timeout, or the context that Shutdown cancels: whether
\* it was granted is unknown, and the next attempt uses the same lease.
ReserveError(w) ==
  /\ worker[w].pc = "reserve" /\ (worker[w].job \in Flaky \/ stopped)
  /\ granted' \in {granted, [granted EXCEPT ![worker[w].job] = @ \cup {worker[w].lease}]}
  /\ worker' = [worker EXCEPT ![w] = Requeueing(@, @.lease, ErrorDelay)]
  /\ UNCHANGED <<channels, queues, loop, timer, stopped, submitted, finished, refused>>

\* The server answers 200 with Allowed = false and Error = "backend_error"
\* when its backend fails, before or after it has taken the lease.
ReserveBackendError(w) ==
  /\ worker[w].pc = "reserve" /\ worker[w].job \in Flaky
  /\ SpareLeases(w)
  /\ granted' \in {granted, [granted EXCEPT ![worker[w].job] = @ \cup {worker[w].lease}]}
  /\ Refused(w, 0)

Requeue(w) ==
  /\ worker[w].pc = "requeue"
  /\ Len(requeueCh) < RequeueCap
  /\ requeueCh' = Append(requeueCh, [job |-> worker[w].job, lease |-> worker[w].lease,
                                     delay |-> worker[w].delay])
  /\ worker' = [worker EXCEPT ![w] = Idle]
  /\ UNCHANGED <<submitCh, workCh, queues, loop, timer, stopped, submitted, finished, leases>>

\* MUTANT: requeue without the doneCh case.
RequeueNeverDropped(w) == FALSE /\ worker[w].pc = "requeue" /\ UNCHANGED vars

RequeueDropped(w) ==
  /\ worker[w].pc = "requeue" /\ loop = "done"
  /\ worker' = [worker EXCEPT ![w] = Idle]
  /\ UNCHANGED <<channels, queues, loop, timer, stopped, submitted, finished, leases>>

\* job.Execute returns, with or without an error.
Execute(w) ==
  /\ worker[w].pc = "execute"
  /\ worker' = [worker EXCEPT ![w] = [pc |-> "complete", job |-> @.job, lease |-> @.lease]]
  /\ UNCHANGED <<channels, queues, loop, timer, stopped, submitted, finished, leases>>

\* complete ignores an error: the limiter may keep the lease.
Complete(w) ==
  LET released == [granted EXCEPT ![worker[w].job] = @ \ {worker[w].lease}]
  IN  /\ worker[w].pc = "complete"
      /\ granted' \in IF worker[w].job \in Flaky THEN {granted, released} ELSE {released}
      /\ finished' = finished \cup {worker[w].job}
      /\ worker' = [worker EXCEPT ![w] = Idle]
      /\ UNCHANGED <<channels, queues, loop, timer, stopped, submitted, refused>>

Exit(w) ==
  /\ worker[w].pc = "idle" /\ loop = "done" /\ workCh = <<>>
  /\ worker' = [worker EXCEPT ![w] = [pc |-> "gone"]]
  /\ UNCHANGED <<channels, queues, loop, timer, stopped, submitted, finished, leases>>
-----------------------------------------------------------------------------
Down(n) == IF n > 0 THEN n - 1 ELSE 0
Sooner(items) ==
  [i \in DOMAIN items |->
     [job |-> items[i].job, lease |-> items[i].lease, delay |-> Down(items[i].delay)]]

Tick ==
  /\ timer' = Down(timer)
  /\ blocked' = [q \in Queue |-> Sooner(blocked[q])]
  /\ requeueCh' = Sooner(requeueCh)
  /\ worker' = [w \in Worker |->
       IF worker[w].pc = "requeue"
       THEN Requeueing(worker[w], worker[w].lease, Down(worker[w].delay)) ELSE worker[w]]
  /\ UNCHANGED <<submitCh, workCh, ready, order, rrIndex, loop, stopped,
                 submitted, finished, leases>>

Init ==
  /\ submitCh = <<>> /\ requeueCh = <<>> /\ workCh = <<>>
  /\ ready = [q \in Queue |-> <<>>] /\ blocked = [q \in Queue |-> <<>>]
  /\ order = <<>> /\ rrIndex = 0
  /\ loop = "top" /\ timer = IdleInterval
  /\ worker = [w \in Worker |-> Idle]
  /\ stopped = FALSE
  /\ submitted = {} /\ finished = {}
  /\ granted = [j \in Job |-> {}] /\ refused = [j \in Job |-> {}]

Loop == Promote \/ Dispatch \/ Arm \/ ReceiveSubmit \/ ReceiveRequeue \/ TimerFires \/ Stop

Answered(w) ==
  ReserveAllowed(w) \/ ReserveDenied(w) \/ ReserveError(w) \/ ReserveBackendError(w)

Work(w) ==
  \/ Take(w) \/ Answered(w) \/ Requeue(w) \/ RequeueDropped(w)
  \/ Execute(w) \/ Complete(w) \/ Exit(w)

Next ==
  \/ \E j \in Job : SubmitAccepted(j) \/ SubmitRefused(j)
  \/ Shutdown \/ Loop \/ (\E w \in Worker : Work(w)) \/ Tick

Spec == Init /\ [][Next]_vars

\* Goroutines run when they can, calls to the limiter and Execute return,
\* time passes.  A select chooses at random among its ready cases and a
\* channel serves blocked senders in turn: no ready case loses forever.
FairSpec ==
  /\ Spec
  /\ WF_vars(Promote \/ Dispatch \/ Arm \/ TimerFires)
  /\ SF_vars(ReceiveSubmit) /\ SF_vars(ReceiveRequeue) /\ SF_vars(Stop)
  /\ WF_vars(\E w \in Worker : Take(w))
  /\ \A w \in Worker :
       /\ WF_vars(Answered(w)) /\ SF_vars(Requeue(w)) /\ WF_vars(RequeueDropped(w))
       /\ WF_vars(Execute(w)) /\ WF_vars(Complete(w)) /\ WF_vars(Exit(w))
  /\ WF_vars(Tick)
-----------------------------------------------------------------------------
(* Properties.                                                             *)

WorkerState ==
  [pc : {"idle", "gone"}]
    \cup [pc : {"reserve", "execute", "complete"}, job : Job, lease : LeaseId]
    \cup [pc : {"requeue"}, job : Job, lease : LeaseId, delay : Nat]

\* The types of the channels, queues and goroutines; a channel holds no more
\* than its buffer, and the blocked lists are sorted.
TypeOK ==
  /\ submitCh \in Seq(Item) /\ Len(submitCh) <= SubmitCap
  /\ requeueCh \in Seq(BlockedItem) /\ Len(requeueCh) <= RequeueCap
  /\ workCh \in Seq(Item) /\ Len(workCh) <= WorkCap
  /\ \A q \in Queue :
       /\ ready[q] \in Seq(Item) /\ blocked[q] \in Seq(BlockedItem)
       /\ \A i, k \in DOMAIN blocked[q] : i <= k => blocked[q][i].delay <= blocked[q][k].delay
       /\ ready[q] # <<>> \/ blocked[q] # <<>> => \E i \in DOMAIN order : order[i] = q
  /\ order \in Seq(Queue) /\ rrIndex \in 0 .. Len(order)
  /\ loop \in {"top", "dispatch", "select", "done"} /\ timer \in Nat
  /\ worker \in [Worker -> WorkerState]
  /\ stopped \in BOOLEAN /\ submitted \subseteq Job /\ finished \subseteq Job
  /\ granted \in [Job -> SUBSET LeaseId] /\ refused \in [Job -> SUBSET LeaseId]

CountIn(s, j) == Cardinality({i \in DOMAIN s : s[i].job = j})

\* How many copies of a job the scheduler holds, counting its completion.
Copies(j) ==
  CountIn(submitCh, j) + CountIn(requeueCh, j) + CountIn(workCh, j)
  + CountIn(ready[QueueOf[j]], j) + CountIn(blocked[QueueOf[j]], j)
  + Cardinality({w \in Worker : worker[w].pc \notin {"idle", "gone"} /\ worker[w].job = j})
  + (IF j \in finished THEN 1 ELSE 0)

\* On its way through submitCh, the queues, workCh, a worker, requeueCh and
\* back, through denials, errors and round-robin dispatch, a submitted job is
\* never lost and never doubled, so it is executed at most once; only the
\* shutdown drops jobs.  Channels stay within their buffers meanwhile.
JobsConserved ==
  /\ TypeOK
  /\ \A j \in Job : /\ Copies(j) <= 1
                    /\ j \in submitted /\ loop # "done" => Copies(j) = 1
                    /\ j \notin submitted => Copies(j) = 0

\* However many attempts a job takes and whichever answers are lost, it holds
\* one lease at the limiter at most, beside those it was itself answered
\* Allowed = false for, by a backend error or by a limit that turned
\* decreasing; and it executes only under the one it holds.
LeaseDiscipline ==
  /\ \A j \in Job : Cardinality(granted[j] \ refused[j]) <= 1
  /\ \A w \in Worker : worker[w].pc \in {"execute", "complete"} =>
       worker[w].lease \in granted[worker[w].job] \ refused[worker[w].job]

\* A job that the limiter always admits is executed, although other jobs,
\* of its own queue or of others, are denied or fail again and again.
AdmittedJobsRun ==
  \A j \in Job \ (Deniable \cup Flaky) : j \in submitted ~> (j \in finished \/ stopped)

\* After Shutdown the loop and every worker end: nobody waits on a channel
\* that nobody serves.
ShutdownEnds == stopped ~> (loop = "done" /\ \A w \in Worker : worker[w].pc = "gone")

\* Nothing will wake the loop before its timer.
Asleep == loop = "select" /\ submitCh = <<>> /\ requeueCh = <<>> /\ ~stopped

\* A job that could run now, with a worker free to take it, waits at most
\* for the loop's idle interval and not for the retry time of a denied job.
ReadyNotBehindDenied ==
  Asleep /\ SomeReady /\ workCh = <<>> /\ (\E w \in Worker : worker[w].pc = "idle")
    => timer <= IdleInterval
=============================================================================
