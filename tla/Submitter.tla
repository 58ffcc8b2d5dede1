------------------------------ MODULE Submitter ------------------------------
(***************************************************************************)
(* The TigerBeetle submitter and its client pool (internal/tbutil), with   *)
(* the backend calls that use them (submitTransfers, lookupAccount and     *)
(* createAccounts of internal/backend/tb).                                 *)
(*                                                                         *)
(* A caller sends one work item, a number of transfers, into the channel   *)
(* In and waits at the item's Done channel.  One goroutine gathers items   *)
(* into batches, sends a batch through a pooled client, and deals the      *)
(* ledger's answer out by position.  A caller whose context ends leaves;   *)
(* a ledger call whose context ends is left to itself, and its client goes *)
(* back to the pool with the request still on it.                          *)
(***************************************************************************)
EXTENDS Integers, Sequences, FiniteSets

CONSTANTS
  Caller,      \* one submitTransfers call each
  Looker,      \* one direct ledger call each (LookupAccounts, CreateAccounts)
  Impatient,   \* the callers and lookers whose context may end
  Size,        \* [Caller -> Nat \ {0}]: transfers of the item
  Refused,     \* [Caller -> positions of the transfers the ledger refuses]
  MaxEvents,   \* transfers of a batch, and places in the channel In
  Client,      \* the pool's sessions
  None

Answers == [err : BOOLEAN, refused : SUBSET (0 .. MaxEvents)]

ASSUME ConstantsAssumption ==
  /\ Impatient \subseteq Caller \cup Looker
  /\ Size \in [Caller -> Nat \ {0}]
  /\ \A c \in Caller : Refused[c] \subseteq 0 .. Size[c] - 1
  /\ MaxEvents \in Nat \ {0}
  /\ IsFiniteSet(Client) /\ Client # {}
  /\ None \notin Caller \cup Client \cup Answers \cup {"submitter"}
  /\ "submitter" \notin Looker /\ Client \cap {"new", "returned"} = {}

VARIABLES
  ctx,       \* FALSE once the backend is closed
  caller,    \* [Caller -> "new" | "waiting" | "returned" | "left"]
  doneCh,    \* [Caller -> the content of the item's Done channel]
  inCh,      \* the channel In
  pending,   \* items gathered
  sub,       \* where the goroutine is, the batch it flushes and what comes next
  free,      \* clients available in the pool
  calls,     \* [Client -> requests on that client, the first under way]
  looker,    \* [Looker -> "new" | its client | "returned"]
  log,       \* items in the order the ledger executed them
  sent       \* items in the order they entered the channel

vars == <<ctx, caller, doneCh, inCh, pending, sub, free, calls, looker, log, sent>>
submitterVars == <<pending, sub>>

Selecting == [pc |-> "select", batch |-> <<>>, then |-> None, last |-> FALSE,
              client |-> None, reply |-> None]
Stopped == [Selecting EXCEPT !.pc = "stopped"]

Init ==
  /\ ctx = TRUE
  /\ caller = [c \in Caller |-> "new"]
  /\ doneCh = [c \in Caller |-> None]
  /\ inCh = <<>> /\ pending = <<>> /\ sub = Selecting
  /\ free = Client /\ calls = [k \in Client |-> <<>>]
  /\ looker = [l \in Looker |-> "new"]
  /\ log = <<>> /\ sent = <<>>
-----------------------------------------------------------------------------
(* submitTransfers.                                                        *)

Send(c) ==
  /\ caller[c] = "new" /\ Len(inCh) < MaxEvents
  /\ caller' = [caller EXCEPT ![c] = "waiting"]
  /\ inCh' = Append(inCh, c) /\ sent' = Append(sent, c)
  /\ UNCHANGED <<ctx, doneCh, submitterVars, free, calls, looker, log>>

\* Before the item is sent, or while the answer is awaited.
Leave(c) ==
  /\ c \in Impatient /\ caller[c] \in {"new", "waiting"}
  /\ caller' = [caller EXCEPT ![c] = "left"]
  /\ UNCHANGED <<ctx, doneCh, inCh, submitterVars, free, calls, looker, log, sent>>

Return(c) ==
  /\ caller[c] = "waiting" /\ doneCh[c] # None
  /\ caller' = [caller EXCEPT ![c] = "returned"]
  /\ UNCHANGED <<ctx, doneCh, inCh, submitterVars, free, calls, looker, log, sent>>
-----------------------------------------------------------------------------
(* The goroutine.                                                          *)

\* The transfers of the first i items.
Cursor(items) ==
  LET at[i \in 0 .. Len(items)] == IF i = 0 THEN 0 ELSE at[i - 1] + Size[items[i]]
  IN  at

TotalTransfers(items) == Cursor(items)[Len(items)]

\* MUTANT: the cursor moves by one per item.
SpanStartByItem(items, j) == j - 1

SpanStart(items, j) == Cursor(items)[j - 1]

\* The part of an answer that belongs to the j-th item of a batch.
ItemErrors(items, j, refused) ==
  {i \in 0 .. Size[items[j]] - 1 : SpanStart(items, j) + i \in refused}

IndexOf(items, c) == CHOOSE j \in DOMAIN items : items[j] = c
Items(seq) == {seq[i] : i \in DOMAIN seq}

Failing(items) == [c \in Items(items) |-> [err |-> TRUE, refused |-> {}]]

\* respond: a Done channel has one place, and what does not fit is dropped.
Respond(answers) ==
  doneCh' = [c \in Caller |-> IF c \in DOMAIN answers /\ doneCh[c] = None
                              THEN answers[c] ELSE doneCh[c]]

Flushing(items, then, last) ==
  [Selecting EXCEPT !.pc = "acquire", !.batch = items, !.then = then, !.last = last]

\* MUTANT: the newcomer is flushed in place of what was gathered before it.
OverflowNewcomer(item) == /\ pending' = pending
                          /\ sub' = Flushing(<<item>>, None, FALSE)

\* No room for the item: what is pending goes first.
Overflow(item) == /\ pending' = <<>>
                  /\ sub' = Flushing(pending, item, FALSE)

Gather(items) ==
  IF TotalTransfers(items) >= MaxEvents
  THEN pending' = <<>> /\ sub' = Flushing(items, None, FALSE)
  ELSE pending' = items /\ sub' = Selecting

Fits(item) == pending = <<>> \/ TotalTransfers(pending) + Size[item] <= MaxEvents

Take ==
  LET item == Head(inCh)
  IN  /\ sub.pc = "select" /\ inCh # <<>>
      /\ inCh' = Tail(inCh)
      /\ IF Size[item] > MaxEvents
         THEN Respond(Failing(<<item>>)) /\ UNCHANGED submitterVars
         ELSE /\ IF Fits(item) THEN Gather(Append(pending, item)) ELSE Overflow(item)
              /\ UNCHANGED doneCh
      /\ UNCHANGED <<ctx, caller, free, calls, looker, log, sent>>

\* MUTANT: the timer waits for a full batch.
TimerFull ==
  /\ sub.pc = "select" /\ TotalTransfers(pending) >= MaxEvents
  /\ pending' = <<>> /\ sub' = Flushing(pending, None, FALSE)
  /\ UNCHANGED <<ctx, caller, doneCh, inCh, free, calls, looker, log, sent>>

Timer ==
  /\ sub.pc = "select" /\ pending # <<>>
  /\ pending' = <<>> /\ sub' = Flushing(pending, None, FALSE)
  /\ UNCHANGED <<ctx, caller, doneCh, inCh, free, calls, looker, log, sent>>

\* The select may prefer another ready case to a context that has ended.
Stop ==
  /\ sub.pc = "select" /\ ~ctx
  /\ pending' = <<>>
  /\ sub' = IF pending = <<>> THEN Stopped ELSE Flushing(pending, None, TRUE)
  /\ UNCHANGED <<ctx, caller, doneCh, inCh, free, calls, looker, log, sent>>

AfterFlush ==
  IF sub.last THEN sub' = Stopped /\ pending' = <<>>
  ELSE IF sub.then = None THEN sub' = Selecting /\ UNCHANGED pending
  ELSE Gather(<<sub.then>>)

Acquire(k) ==
  /\ sub.pc = "acquire" /\ k \in free
  /\ free' = free \ {k}
  /\ calls' = [calls EXCEPT ![k] = Append(@, [who |-> "submitter", batch |-> sub.batch])]
  /\ sub' = [sub EXCEPT !.pc = "call", !.client = k]
  /\ UNCHANGED <<ctx, caller, doneCh, inCh, pending, looker, log, sent>>

AcquireCancelled ==
  /\ sub.pc = "acquire" /\ ~ctx
  /\ Respond(Failing(sub.batch))
  /\ AfterFlush
  /\ UNCHANGED <<ctx, caller, inCh, free, calls, looker, log, sent>>

SubmitReturn ==
  /\ sub.pc = "call" /\ sub.reply # None
  /\ Respond(IF sub.reply.err THEN Failing(sub.batch)
             ELSE [c \in Items(sub.batch) |->
                     [err |-> FALSE,
                      refused |-> ItemErrors(sub.batch, IndexOf(sub.batch, c), sub.reply.refused)]])
  /\ free' = free \cup {sub.client}
  /\ AfterFlush
  /\ UNCHANGED <<ctx, caller, inCh, calls, looker, log, sent>>

\* Nobody waits for the requests of who any more.
Orphaned(who) ==
  [k \in Client |-> [i \in DOMAIN calls[k] |-> IF calls[k][i].who = who
                                               THEN [calls[k][i] EXCEPT !.who = None]
                                               ELSE calls[k][i]]]

\* MUTANT: the client of a call that is given up is not released.
SubmitAbandonKeeps ==
  /\ sub.pc = "call" /\ ~ctx
  /\ Respond(Failing(sub.batch))
  /\ calls' = Orphaned("submitter")
  /\ AfterFlush
  /\ UNCHANGED <<ctx, caller, inCh, free, looker, log, sent>>

SubmitAbandon ==
  /\ sub.pc = "call" /\ ~ctx
  /\ Respond(Failing(sub.batch))
  /\ free' = free \cup {sub.client}
  /\ calls' = Orphaned("submitter")
  /\ AfterFlush
  /\ UNCHANGED <<ctx, caller, inCh, looker, log, sent>>
-----------------------------------------------------------------------------
(* Direct calls: lookupAccount and createAccounts.                         *)

LookupStart(l, k) ==
  /\ looker[l] = "new" /\ k \in free
  /\ free' = free \ {k}
  /\ calls' = [calls EXCEPT ![k] = Append(@, [who |-> l, batch |-> <<>>])]
  /\ looker' = [looker EXCEPT ![l] = k]
  /\ UNCHANGED <<ctx, caller, doneCh, inCh, submitterVars, log, sent>>

Unanswered(l) == \E k \in Client : \E i \in DOMAIN calls[k] : calls[k][i].who = l

\* The call ends with its answer, or with its context.
LookupEnd(l) ==
  /\ looker[l] \in Client
  /\ Unanswered(l) => l \in Impatient
  /\ free' = free \cup {looker[l]}
  /\ calls' = Orphaned(l)
  /\ looker' = [looker EXCEPT ![l] = "returned"]
  /\ UNCHANGED <<ctx, caller, doneCh, inCh, submitterVars, log, sent>>
-----------------------------------------------------------------------------
(* The ledger, and Close.                                                  *)

\* The ledger reports the transfers it refuses by their place in the batch.
Results(batch) ==
  LET place(j, i) == Cursor(batch)[j - 1] + i
  IN  UNION {{place(j, i) : i \in Refused[batch[j]]} : j \in DOMAIN batch}

\* A client works on one request at a time.  The ledger executes it, and the
\* answer arrives or the call fails; or it fails without being executed.
Execute(k) ==
  LET req == Head(calls[k])
  IN  /\ calls[k] # <<>>
      /\ calls' = [calls EXCEPT ![k] = Tail(@)]
      /\ \E err, run \in BOOLEAN :
           /\ run \/ err
           /\ log' = IF run THEN log \o req.batch ELSE log
           /\ sub' = IF req.who = "submitter"
                     THEN [sub EXCEPT !.reply = [err |-> err, refused |-> Results(req.batch)]]
                     ELSE sub
      /\ UNCHANGED <<ctx, caller, doneCh, inCh, pending, free, looker, sent>>

Close ==
  /\ ctx
  /\ ctx' = FALSE
  /\ UNCHANGED <<caller, doneCh, inCh, submitterVars, free, calls, looker, log, sent>>

Goroutine == \/ Take \/ Timer \/ Stop \/ (\E k \in Client : Acquire(k))
             \/ AcquireCancelled \/ SubmitReturn \/ SubmitAbandon

Next ==
  \/ \E c \in Caller : Send(c) \/ Leave(c) \/ Return(c)
  \/ Goroutine
  \/ \E l \in Looker : (\E k \in Client : LookupStart(l, k)) \/ LookupEnd(l)
  \/ \E k \in Client : Execute(k)
  \/ Close

\* The goroutine runs, the ledger answers, and so do those who wait.
Fairness ==
  /\ WF_vars(Goroutine)
  /\ \A c \in Caller : WF_vars(Send(c)) /\ WF_vars(Return(c))
  /\ \A l \in Looker : WF_vars(LookupEnd(l) /\ ~Unanswered(l))
  /\ \A k \in Client : WF_vars(Execute(k))

Spec == Init /\ [][Next]_vars /\ Fairness
-----------------------------------------------------------------------------
(* Properties.                                                             *)

\* An answer refers to transfers of a batch only, no batch on a client exceeds
\* MaxEvents, and the goroutine and its callers are in one of their states.
TypeOK ==
  /\ ctx \in BOOLEAN
  /\ caller \in [Caller -> {"new", "waiting", "returned", "left"}]
  /\ doneCh \in [Caller -> Answers \cup {None}]
  /\ Len(inCh) <= MaxEvents
  /\ \A k \in Client : \A i \in DOMAIN calls[k] : TotalTransfers(calls[k][i].batch) <= MaxEvents
  /\ sub.pc \in {"select", "acquire", "call", "stopped"}
  /\ sub.then \in Caller \cup {None} /\ sub.client \in Client \cup {None}
  /\ free \subseteq Client
  /\ \A l \in Looker : looker[l] \in Client \cup {"new", "returned"}

\* A caller that is answered without an error gets the ledger's verdict on its
\* own transfers, whatever shared the batch with them (flush: spans).
OwnResults ==
  \A c \in Caller : doneCh[c] # None /\ ~doneCh[c].err => doneCh[c].refused = Refused[c]

Gathered == inCh \o pending \o sub.batch \o
            (IF sub.then = None THEN <<>> ELSE <<sub.then>>)

\* An item that was sent and has no answer is in one place: the channel, the
\* pending items, the batch or the item kept aside for the next one.  Until the
\* backend is closed the ledger executes items once each and in the order they
\* entered the channel (Run flushes before it appends what does not fit).
ItemsConserved ==
  /\ TypeOK
  /\ \A c \in Caller :
       LET places == {i \in DOMAIN Gathered : Gathered[i] = c}
       IN  IF c \in Items(sent) /\ doneCh[c] = None
           THEN Cardinality(places) = 1 ELSE places = {}
  /\ ctx => \A i, j \in DOMAIN log : i < j => IndexOf(sent, log[i]) < IndexOf(sent, log[j])

\* A client is in the pool or with one of those that call the ledger: none is
\* lost when calls fail or are given up (submit and lookupAccount: defer Release).
ClientsConserved ==
  \A k \in Client :
    Cardinality({l \in Looker : looker[l] = k}) + (IF sub.client = k THEN 1 ELSE 0)
      = (IF k \in free THEN 0 ELSE 1)

\* Every call returns, unless the backend is closed.
CallsReturn ==
  \A c \in Caller : caller[c] = "waiting" ~> caller[c] \in {"returned", "left"} \/ ~ctx
=============================================================================
