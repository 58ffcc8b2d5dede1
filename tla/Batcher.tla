------------------------------- MODULE Batcher -------------------------------
(***************************************************************************)
(* The client-side batcher (pkg/ratelimiter/batcher.go, batcher_run.go):   *)
(* callers put their Reserve or Complete into the bounded channel `in' and *)
(* wait; one loop goroutine collects the items and hands them to the       *)
(* limiter, all Reserves of a batch first, then all Completes.             *)
(*                                                                         *)
(* The limiter is external: it processes the requests of a batch in order  *)
(* and its result for a request is represented by the request.  When the   *)
(* call fails it may have processed some of them.                          *)
(***************************************************************************)
EXTENDS Picking, SequencesExt

CONSTANTS
  Call,
  KindOf,       \* Call -> "reserve" or "complete"
  Impatient,    \* the calls whose context has a deadline
  MaxBatch,
  FlakyLimiter, \* TRUE: a batch call may fail or return too few results
  None

ASSUME BatcherAssumption ==
  /\ KindOf \in [Call -> {"reserve", "complete"}]
  /\ Impatient \subseteq Call
  /\ MaxBatch \in Nat \ {0}
  /\ FlakyLimiter \in BOOLEAN
  /\ None \notin Call

VARIABLES
  caller,    \* where each caller is
  got,       \* the result it returned with
  in, pending,
  reserves, completes,   \* the batch being flushed, by kind
  replies,   \* the buffered reply and error channels of each call
  loop,      \* where the loop goroutine is; "done" when doneCh is closed
  stopped,   \* stopCh closed
  log,       \* history: the calls the limiter processed, in order
  accepted,  \* history: the calls that entered `in', in order
  mark       \* history: how many had when Shutdown was called

vars == <<caller, got, in, pending, reserves, completes, replies, loop, stopped,
          log, accepted, mark>>

Failed == "failed"
Cap == 2 * MaxBatch

\* The place of a call in a sequence of calls.
At(s, c) == CHOOSE i \in DOMAIN s : s[i] = c
-----------------------------------------------------------------------------
(* A caller of Reserve or Complete: enqueue, then the select on the reply. *)

Start(c) ==
  /\ caller[c] = "idle"
  /\ caller' = [caller EXCEPT ![c] = "enqueue"]
  /\ UNCHANGED <<got, in, pending, reserves, completes, replies, loop, stopped, log, accepted, mark>>

Enqueue(c) ==
  /\ caller[c] = "enqueue" /\ Len(in) < Cap
  /\ in' = Append(in, c)
  /\ accepted' = Append(accepted, c)
  /\ caller' = [caller EXCEPT ![c] = "wait"]
  /\ UNCHANGED <<got, pending, reserves, completes, replies, loop, stopped, log, mark>>

\* MUTANT: the wait for the reply has no doneCh case.
ClosedBeforeEnqueueOnly(c) ==
  /\ caller[c] = "enqueue" /\ loop = "done"
  /\ caller' = [caller EXCEPT ![c] = "closed"]
  /\ UNCHANGED <<got, in, pending, reserves, completes, replies, loop, stopped, log, accepted, mark>>

\* Both selects have a doneCh case, and a reply that is there too may lose.
Closed(c) ==
  /\ caller[c] \in {"enqueue", "wait"} /\ loop = "done"
  /\ caller' = [caller EXCEPT ![c] = "closed"]
  /\ UNCHANGED <<got, in, pending, reserves, completes, replies, loop, stopped, log, accepted, mark>>

Expired(c) ==
  /\ caller[c] \in {"enqueue", "wait"} /\ c \in Impatient
  /\ caller' = [caller EXCEPT ![c] = "expired"]
  /\ UNCHANGED <<got, in, pending, reserves, completes, replies, loop, stopped, log, accepted, mark>>

Return(c) ==
  /\ caller[c] = "wait" /\ replies[c] # <<>>
  /\ caller' = [caller EXCEPT ![c] = "returned"]
  /\ got' = [got EXCEPT ![c] = Head(replies[c])]
  /\ replies' = [replies EXCEPT ![c] = Tail(@)]
  /\ UNCHANGED <<in, pending, reserves, completes, loop, stopped, log, accepted, mark>>

Shutdown ==
  /\ ~stopped
  /\ stopped' = TRUE
  /\ mark' = Len(accepted)
  /\ UNCHANGED <<caller, got, in, pending, reserves, completes, replies, loop, log, accepted>>
-----------------------------------------------------------------------------
(* The loop goroutine.                                                     *)

OfKind(items, kind) == Pick(items, {i \in DOMAIN items : KindOf[items[i]] = kind})

\* The start of flush: items split by kind.
BeginFlush(items) ==
  /\ pending' = <<>>
  /\ reserves' = OfKind(items, "reserve")
  /\ completes' = OfKind(items, "complete")
  /\ loop' = "flush"

Receive ==
  /\ loop = "select" /\ in # <<>>
  /\ in' = Tail(in)
  /\ LET items == Append(pending, Head(in))
     IN  IF Len(items) >= MaxBatch THEN BeginFlush(items)
         ELSE pending' = items /\ UNCHANGED <<reserves, completes, loop>>
  /\ UNCHANGED <<caller, got, replies, stopped, log, accepted, mark>>

TimerFires ==
  /\ loop = "select" /\ pending # <<>>
  /\ BeginFlush(pending)
  /\ UNCHANGED <<caller, got, in, replies, stopped, log, accepted, mark>>

\* The stopCh case: flush what is pending, then end.
Stop ==
  /\ loop = "select" /\ stopped
  /\ pending' = <<>>
  /\ reserves' = OfKind(pending, "reserve")
  /\ completes' = OfKind(pending, "complete")
  /\ loop' = "lastFlush"
  /\ UNCHANGED <<caller, got, in, replies, stopped, log, accepted, mark>>

\* MUTANT: results are handed to the items one place off.
RoutedShifted(items, results) ==
  [c \in Call |-> IF Contains(items, c)
                  THEN Append(replies[c], results[(At(items, c) % Len(items)) + 1])
                  ELSE replies[c]]

\* The i-th result goes to the i-th item.
Routed(items, results) ==
  [c \in Call |-> IF Contains(items, c) THEN Append(replies[c], results[At(items, c)])
                  ELSE replies[c]]

\* batchContext: the earliest deadline of the items is that of the call.
MayFail(items) == FlakyLimiter \/ \E i \in DOMAIN items : items[i] \in Impatient

\* MUTANT: no return after the error has been sent.
CallLimiterGoesOn(items) ==
  \/ /\ replies' = Routed(items, items)
     /\ log' = log \o items
  \/ /\ MayFail(items)
     /\ replies' = [c \in Call |-> IF Contains(items, c) THEN replies[c] \o <<Failed, c>>
                                   ELSE replies[c]]
     /\ \E n \in 0 .. Len(items) : log' = log \o SubSeq(items, 1, n)

\* One call of BatchReserve or BatchComplete and the routing of its answer:
\* an error, or a number of results that is not the number of items, is
\* reported to every item.
CallLimiter(items) ==
  \/ /\ replies' = Routed(items, items)
     /\ log' = log \o items
  \/ /\ MayFail(items)
     /\ replies' = Routed(items, [i \in DOMAIN items |-> Failed])
     /\ \E n \in 0 .. Len(items) : log' = log \o SubSeq(items, 1, n)

FlushReserve ==
  /\ loop \in {"flush", "lastFlush"} /\ reserves # <<>>
  /\ CallLimiter(reserves)
  /\ reserves' = <<>>
  /\ UNCHANGED <<caller, got, in, pending, completes, loop, stopped, accepted, mark>>

FlushComplete ==
  /\ loop \in {"flush", "lastFlush"} /\ reserves = <<>> /\ completes # <<>>
  /\ CallLimiter(completes)
  /\ completes' = <<>>
  /\ UNCHANGED <<caller, got, in, pending, reserves, loop, stopped, accepted, mark>>

FlushDone ==
  /\ loop \in {"flush", "lastFlush"} /\ reserves = <<>> /\ completes = <<>>
  /\ loop' = IF loop = "flush" THEN "select" ELSE "done"
  /\ UNCHANGED <<caller, got, in, pending, reserves, completes, replies, stopped,
                 log, accepted, mark>>
-----------------------------------------------------------------------------
Init ==
  /\ caller = [c \in Call |-> "idle"]
  /\ got = [c \in Call |-> None]
  /\ in = <<>> /\ pending = <<>> /\ reserves = <<>> /\ completes = <<>>
  /\ replies = [c \in Call |-> <<>>]
  /\ loop = "select" /\ stopped = FALSE
  /\ log = <<>> /\ accepted = <<>> /\ mark = 0

Flush == FlushReserve \/ FlushComplete \/ FlushDone

Next ==
  \/ \E c \in Call : Start(c) \/ Enqueue(c) \/ Closed(c) \/ Expired(c) \/ Return(c)
  \/ Shutdown \/ Receive \/ TimerFires \/ Stop \/ Flush

Spec == Init /\ [][Next]_vars

\* The loop runs, its limiter answers, the timer fires, and a blocked sender
\* or a ready case of a select is not passed over forever.
FairSpec ==
  /\ Spec
  /\ WF_vars(Flush) /\ SF_vars(Receive) /\ SF_vars(TimerFires) /\ SF_vars(Stop)
  /\ \A c \in Call : SF_vars(Enqueue(c)) /\ WF_vars(Return(c)) /\ WF_vars(Closed(c))
-----------------------------------------------------------------------------
(* Properties.                                                             *)

Over == {"returned", "closed", "expired"}

\* The types of the channels and goroutines; neither `in' nor a batch
\* outgrows its limit.
TypeOK ==
  /\ caller \in [Call -> {"idle", "enqueue", "wait"} \cup Over]
  /\ got \in [Call -> Call \cup {None, Failed}]
  /\ in \in Seq(Call) /\ Len(in) <= Cap
  /\ pending \in Seq(Call) /\ Len(pending) < MaxBatch
  /\ reserves \in Seq(Call) /\ completes \in Seq(Call)
  /\ Len(reserves) + Len(completes) <= MaxBatch
  /\ replies \in [Call -> Seq(Call \cup {Failed})]
  /\ loop \in {"select", "flush", "lastFlush", "done"} /\ stopped \in BOOLEAN
  /\ log \in Seq(Call) /\ accepted \in Seq(Call) /\ mark \in 0 .. Len(accepted)

\* A caller that returns with a result has the result the limiter gave for
\* its own request, and the limiter has processed that request.
OwnAnswer ==
  \A c \in Call : got[c] \notin {None, Failed} =>
    got[c] = c /\ Contains(log, c)

\* The limiter sees a call at most once, calls of one kind in the order in
\* which they entered the batcher, and the loop sends each at most one reply:
\* the one-place reply channels never block the loop.
OnceInOrder ==
  /\ TypeOK
  /\ \A i, k \in DOMAIN log : log[i] = log[k] => i = k
  /\ \A c \in Call : Len(replies[c]) <= 1 /\ (got[c] # None => replies[c] = <<>>)
  /\ \A i, k \in DOMAIN log :
       i < k /\ KindOf[log[i]] = KindOf[log[k]] => At(accepted, log[i]) < At(accepted, log[k])

\* Every call of Reserve or Complete returns, with an answer, an error or
\* ErrBatcherClosed, whatever Shutdown does to the items still queued.
CallsReturn == \A c \in Call : caller[c] = "enqueue" ~> caller[c] \in Over

\* When the loop has stopped, every item that was queued when Shutdown was
\* called has been handed to the limiter.
ShutdownFlushes ==
  loop = "done" => \A i \in 1 .. mark : Contains(log, accepted[i])
=============================================================================
