---------------------------- MODULE LimiterCalls ----------------------------
(***************************************************************************)
(* The calls of a limiter: what is built from the configuration            *)
(* (internal/ratelimit), the clients it may be (pkg/ratelimiter/httpclient,*)
(* local, noop), and behind the HTTP client the handlers of the server     *)
(* (internal/api), which serve a batch item by item.                       *)
(*                                                                         *)
(* A remote call is a request that may be lost, handlers that run by       *)
(* themselves, and an answer that may come after the client gave up.  The  *)
(* backend is reduced to what a call can see of it: which leases it holds, *)
(* what is left of a key, and how it computes the hint of a denial.  The   *)
(* modules MemoryBackend and TBBackend model the backends in detail.       *)
(***************************************************************************)
EXTENDS Integers, Sequences, FiniteSets, Folds, Functions, SequencesExt

CONSTANTS
  Configs,      \* configurations of the limiter
  Engines,      \* backends of a server: "memory", "tb"
  Key,          \* limits
  Kind,         \* key -> "concurrency" or "rolling"
  Span,         \* key -> its timeout or window, in milliseconds
  Capacity,     \* key -> capacity
  Batches,      \* kind of call -> sequences of items a client may send, an item
                \* being [lease, reqs], with "" for a lease that is missing
  MaxCalls,     \* bounds the calls
  MaxBatch, MaxRequirements,   \* limits of the handlers
  MaxFaults,    \* bounds lost requests and answers and errors of a backend
  Adjusted,     \* keys whose limit an administrator changes
  MaxChanges,   \* bounds the changes of a limit's status
  MaxExpiries,  \* bounds the holds that end by themselves
  Policy,       \* the retry policy: kind -> [base, max, num, den, jitter]
  MaxInt,       \* the largest integer a conversion from floating point yields
  Streaks,      \* streaks of denials the keys may have at the start
  MaxStreak     \* bounds the streaks of denials

DecreaseRetry == 10000
MinOf(a, b) == IF a < b THEN a ELSE b
MaxOf(a, b) == IF a > b THEN a ELSE b

ASSUME LimiterCallsAssumption ==
  /\ {MaxCalls, MaxBatch, MaxRequirements, MaxFaults, MaxChanges, MaxExpiries,
      MaxInt, MaxStreak} \subseteq Nat
  /\ Adjusted \subseteq Key /\ Streaks \subseteq 0 .. MaxStreak /\ Engines \subseteq {"memory", "tb"}
  /\ \A k \in Key : Kind[k] \in {"concurrency", "rolling"} /\ Span[k] \in Nat /\ Capacity[k] \in Nat
-----------------------------------------------------------------------------
(* Configuration.                                                          *)

\* Defaults of what is not set: disabled, a timeout, batches.
NormalizeRateLimiter(cfg) ==
  [cfg EXCEPT !.mode = IF @ = "" THEN "disabled" ELSE @,
              !.timeout = IF @ = 0 THEN 2000 ELSE @,
              !.batch = IF @ = 0 THEN 128 ELSE @]

\* MUTANT: any timeout will do.
ValidRateLimiterAnyTimeout(cfg) ==
  /\ cfg.mode \in {"", "disabled", "remote", "embedded"}
  /\ cfg.mode = "remote" => cfg.url
  /\ cfg.mode = "embedded" => cfg.limitsPath # cfg.limits
  /\ cfg.batch >= 1

\* Exactly one source of limits when they are embedded, an address when remote.
ValidRateLimiter(cfg) ==
  /\ cfg.mode \in {"", "disabled", "remote", "embedded"}
  /\ cfg.mode = "remote" => cfg.url
  /\ cfg.mode = "embedded" => cfg.limitsPath # cfg.limits
  /\ cfg.timeout >= 1 /\ cfg.batch >= 1

BuildLimiter(cfg) ==
  CASE cfg.mode \in {"", "disabled"}                -> "noop"
    [] cfg.mode = "remote" /\ cfg.url               -> "http"
    [] cfg.mode = "embedded" /\ cfg.limits /\ ~cfg.limitsPath -> "local"
    [] cfg.mode = "embedded" /\ cfg.limitsPath /\ ~cfg.limits /\ cfg.fileLoads -> "local"
    [] OTHER                                        -> "error"
-----------------------------------------------------------------------------
(* Requests.                                                               *)

\* BuildLLMRequirements: one request, its tokens, one place, and perhaps the
\* tokens again from a daily budget.
Requirements(tokens, keys, daily) ==
  <<[key |-> keys.rpm, amount |-> 1], [key |-> keys.tpm, amount |-> tokens],
    [key |-> keys.concurrency, amount |-> 1]>>
  \o (IF daily THEN <<[key |-> keys.daily, amount |-> tokens]>> ELSE <<>>)

Leases == {x.lease : x \in UNION {Range(b) : b \in Batches["reserve"] \cup Batches["complete"]}} \ {""}
KeysOf(reqs) == {reqs[i].key : i \in DOMAIN reqs}
AmountOf(reqs, k) == IF k \in KeysOf(reqs)
                     THEN reqs[CHOOSE i \in DOMAIN reqs : reqs[i].key = k].amount ELSE 0
First(S) == CHOOSE i \in S : \A j \in S : i <= j

Result(ok, error, hint) == [ok |-> ok, error |-> error, hint |-> hint]
Allowed == Result(TRUE, "", 0)

VARIABLES
  cfg,        \* the configuration of the client
  engine,     \* the backend behind the limiter
  calls,      \* the calls made: the request, its client, its handler and its results
  backend,    \* key -> status of the limit in the backend
  registry,   \* key -> status in the registry
  leases,     \* lease -> the backend's entry for it, what it holds, the keys the
              \* ledger has seen it with, its requirements and the hint of its denial
  streak,     \* key -> denials since the last grant
  faults, changes, expiries

vars == <<cfg, engine, calls, backend, registry, leases, streak, faults, changes, expiries>>
static == <<cfg, engine>>
limits == <<backend, registry, changes>>
book   == <<leases, streak, faults, expiries>>

NoLease == [entry |-> "none", holds |-> {}, seen |-> {}, reqs |-> <<>>, hint |-> 0]
-----------------------------------------------------------------------------
(* The backend.                                                            *)

Load(k) == LET of == [l \in Leases |-> IF k \in leases[l].holds THEN AmountOf(leases[l].reqs, k) ELSE 0]
           IN  FoldFunction(+, 0, of)

Power[x \in 1 .. 3, n \in 0 .. MaxStreak] == IF n = 0 THEN 1 ELSE x * Power[x, n - 1]

Clamp(value, low, high) == IF value < low THEN low ELSE IF value > high THEN high ELSE value

\* What int() may make of a number too large for an integer: the smallest or the
\* largest, by the processor.
ToInt(value) == IF value > MaxInt THEN {-MaxInt - 1, MaxInt} ELSE {value}

\* The base and the maximum of a key's delay: its timeout lowers the maximum, its
\* window raises the base.
BaseMs(k) == LET p == Policy[Kind[k]]
             IN  IF Kind[k] = "rolling" THEN MaxOf(p.base, Span[k] \div 10) ELSE p.base
MaxMs(k)  == LET p == Policy[Kind[k]]
             IN  IF Kind[k] = "concurrency" THEN MinOf(p.max, Span[k]) ELSE p.max

\* The base times a power of the factor.
Delays(k, n) == LET p == Policy[Kind[k]]
                IN  ToInt((BaseMs(k) * Power[p.num, n]) \div Power[p.den, n])

\* MUTANT: the delay is not clamped.
RetryAfterMsUnclamped(k, n) == {d + j : d \in Delays(k, n), j \in {0, Policy[Kind[k]].jitter}}

\* A delay within the base and the maximum, and a jitter.
RetryAfterMs(k, n) ==
  {Clamp(d, BaseMs(k), MaxMs(k)) + j : d \in Delays(k, n), j \in {0, Policy[Kind[k]].jitter}}

\* The memory backend's hint: no streak, no jitter.
retryAfter(k) ==
  IF Kind[k] = "concurrency" THEN MinOf(Policy[Kind[k]].base, MaxMs(k))
  ELSE MinOf(BaseMs(k), Policy[Kind[k]].max)

\* The limit that denies a request, by its definition: the first that the
\* backend does not know or that is decreasing, a decreasing one before all
\* others in memory.
Blocking(reqs) ==
  LET unknown    == {i \in DOMAIN reqs : reqs[i].key \notin Key}
      decreasing == {i \in DOMAIN reqs : reqs[i].key \in Key /\ backend[reqs[i].key] = "decreasing"}
  IN  IF engine = "memory" /\ decreasing # {} THEN decreasing ELSE unknown \cup decreasing

\* One Reserve of the backend: each possible result, with the lease's entry and
\* the streaks after it.
Reserved(item) ==
  LET l    == leases[item.lease]
      reqs == item.reqs
      keys == KeysOf(reqs)
      bad  == Blocking(reqs)
      k    == reqs[First(bad)].key
      full == {i \in DOMAIN reqs : Load(reqs[i].key) + reqs[i].amount > Capacity[reqs[i].key]}
      f    == reqs[First(full)].key
      n    == MinOf(streak[f] + 1, MaxStreak)
      Out(r, e, s) == [r |-> r, lease |-> e, streak |-> s]
      Same(r)      == Out(r, l, streak)
      held == [l EXCEPT !.entry = "lease", !.reqs = reqs, !.holds = @ \cup keys,
                        !.seen = IF engine = "tb" THEN @ \cup keys ELSE @]
      reset == [i \in Key |-> IF i \in keys THEN 0 ELSE streak[i]]
  IN  CASE l.entry = "lease" -> {Same(IF l.reqs = reqs THEN Allowed ELSE Result(FALSE, "invalid_request", 0))}
        [] l.entry = "failed" -> {Same(Result(FALSE, "", l.hint))}
        [] l.entry = "none" /\ bad # {} ->
             {Same(IF k \in Key THEN Result(FALSE, "limit_decreasing", DecreaseRetry)
                   ELSE Result(FALSE, "unknown_limit_key", 0))}
        [] l.entry = "none" /\ bad = {} /\ keys \cap l.seen # {} ->
             {IF Len(reqs) = 1 THEN Out(Allowed, [l EXCEPT !.entry = "lease", !.reqs = reqs], reset)
              ELSE Same(Result(FALSE, "backend_error", 0))}
        [] l.entry = "none" /\ bad = {} /\ keys \cap l.seen = {} /\ full = {} ->
             {Out(Allowed, held, IF engine = "tb" THEN reset ELSE streak)}
        [] OTHER ->
             IF engine = "memory"
             THEN {Same(Result(FALSE, "", CHOOSE h \in {retryAfter(reqs[i].key) : i \in full} :
                                            \A i \in full : h >= retryAfter(reqs[i].key)))}
             ELSE {Out(Result(FALSE, "", h), [l EXCEPT !.entry = "failed", !.hint = h],
                       [streak EXCEPT ![f] = n]) : h \in RetryAfterMs(f, n)}

\* One Complete: places are given back, what a rolling window counts stays.
Completed(item) ==
  LET l == leases[item.lease]
  IN  IF l.entry # "lease" THEN l
      ELSE [l EXCEPT !.entry = "none", !.holds = {k \in @ : Kind[k] = "rolling"}]

Outcome(r, lease, s, fault) == [r |-> r, lease |-> lease, streak |-> s, fault |-> fault]

\* The ledger may fail, or refuse a client that is gone, before it has the
\* reservation or after; a Complete has forgotten the lease by then.
Failures(kind, item) ==
  LET l == leases[item.lease]
      Failed(e) == Outcome(Result(FALSE, "backend_error", 0), e, streak, 1)
  IN  IF engine = "memory" \/ faults = MaxFaults THEN {}
      ELSE IF kind = "complete"
      THEN IF l.entry = "lease" THEN {Failed([l EXCEPT !.entry = "none"])} ELSE {}
      ELSE {Failed(l)} \cup IF l.entry # "none" THEN {}
                            ELSE {Failed([x.lease EXCEPT !.entry = "none"]) : x \in {y \in Reserved(item) : y.r.ok}}

\* What the backend may make of an item.
Outcomes(kind, item) ==
  Failures(kind, item) \cup
  IF kind = "complete" THEN {Outcome(Allowed, Completed(item), streak, 0)}
  ELSE {Outcome(x.r, x.lease, x.streak, 0) : x \in Reserved(item)}

\* A window passes, a timeout fires.
Expire(l, k) ==
  /\ k \in leases[l].holds
  /\ expiries < MaxExpiries /\ expiries' = expiries + 1
  /\ leases' = [leases EXCEPT ![l].holds = @ \ {k}]
  /\ UNCHANGED <<static, calls, limits, streak, faults>>

\* A limit of a server is lowered or raised: the backend knows first.
ChangeBackend(k) ==
  /\ BuildLimiter(cfg) = "http"
  /\ changes < MaxChanges /\ changes' = changes + 1
  /\ backend' = [backend EXCEPT ![k] = IF @ = "active" THEN "decreasing" ELSE "active"]
  /\ UNCHANGED <<static, calls, registry, book>>

ChangeRegistry(k) ==
  /\ registry[k] # backend[k]
  /\ registry' = [registry EXCEPT ![k] = backend[k]]
  /\ UNCHANGED <<static, calls, backend, changes, book>>

Init ==
  /\ cfg \in {NormalizeRateLimiter(c) : c \in {x \in Configs : ValidRateLimiter(NormalizeRateLimiter(x))}}
  /\ engine \in IF BuildLimiter(cfg) = "http" THEN Engines ELSE {"memory"}
  /\ calls = <<>>
  /\ backend = [k \in Key |-> "active"] /\ registry = backend
  /\ leases = [l \in Leases |-> NoLease]
  /\ streak \in IF engine = "tb" THEN {[k \in Key |-> n] : n \in Streaks} ELSE {[k \in Key |-> 0]}
  /\ faults = 0 /\ changes = 0 /\ expiries = 0
-----------------------------------------------------------------------------
(* The clients.                                                            *)

Limiter == BuildLimiter(cfg)

\* wrapBatcher: with batches the limiter behind the batcher is called with
\* several items at a time, without it with one.
Batching == Limiter # "noop" /\ cfg.batch > 1

NewCall(kind, items, client, server, results) ==
  [kind |-> kind, items |-> items, batch |-> Batching, client |-> client,
   server |-> server, at |-> 0, checked |-> FALSE, results |-> results]

Make(call) == Len(calls) < MaxCalls /\ calls' = Append(calls, call)

\* noopLimiter: everything is allowed.
CallNoop(kind, items) ==
  /\ Limiter = "noop"
  /\ Make(NewCall(kind, items, "answered", "none", [i \in DOMAIN items |-> Allowed]))
  /\ UNCHANGED <<static, limits, book>>

\* The local client calls the backend for one item after the other in the
\* caller's own goroutine, and no handler validates them.
CallLocal(kind, items) ==
  /\ Limiter = "local" /\ \A i \in DOMAIN items : items[i].lease # "" /\ items[i].reqs # <<>>
  /\ Make(NewCall(kind, items, "waiting", "local", <<>>))
  /\ UNCHANGED <<static, limits, book>>

CallHTTP(kind, items) ==
  /\ Limiter = "http"
  /\ Make(NewCall(kind, items, "waiting", "sent", <<>>))
  /\ UNCHANGED <<static, limits, book>>

Update(n, call) == calls' = [calls EXCEPT ![n] = call]

\* The timeout of the client, zero or less being none; the request may be served
\* still.
Timeout(n) ==
  /\ Limiter = "http" /\ cfg.timeout > 0 /\ calls[n].client = "waiting"
  /\ Update(n, [calls[n] EXCEPT !.client = "error"])
  /\ UNCHANGED <<static, limits, book>>

\* The request or its answer is lost, or its handler ends with the server.
Lose(n) ==
  /\ Limiter = "http" /\ calls[n].server \in {"sent", "serving", "answered"}
  /\ faults < MaxFaults /\ faults' = faults + 1
  /\ Update(n, [calls[n] EXCEPT !.server = "lost"])
  /\ UNCHANGED <<static, limits, leases, streak, expiries>>

\* MUTANT: the answer of a batch is its first item's.
DeliverFirst(n) ==
  LET c == calls[n]
  IN  /\ c.client = "waiting" /\ c.server \in {"answered", "bad_request"}
      /\ Update(n, [c EXCEPT !.client = IF c.server = "answered" THEN "answered" ELSE "error",
                            !.server = "none", !.results = [i \in DOMAIN @ |-> @[1]]])
      /\ UNCHANGED <<static, limits, book>>

\* The answer reaches a client that still waits; a status that is not 200 is an
\* error to it.
Deliver(n) ==
  LET c == calls[n]
  IN  /\ c.client = "waiting" /\ c.server \in {"answered", "bad_request"}
      /\ Update(n, [c EXCEPT !.client = IF c.server = "answered" THEN "answered" ELSE "error",
                            !.server = "none"])
      /\ UNCHANGED <<static, limits, book>>
-----------------------------------------------------------------------------
(* The handlers.                                                           *)

\* validateReserve: the first requirement that is malformed, unknown or, as far as
\* the registry knows, decreasing is the answer; the backend is not asked.
validateReserve(item) ==
  LET reqs == item.reqs
      bad == {i \in DOMAIN reqs : \/ reqs[i].amount = 0
                                  \/ reqs[i].key \notin Key
                                  \/ registry[reqs[i].key] = "decreasing"}
      r   == reqs[First(bad)]
  IN  IF item.lease = "" \/ Len(reqs) \notin 1 .. MaxRequirements
      THEN <<Result(FALSE, "invalid_request", 0)>>
      ELSE IF bad = {} THEN <<>>
      ELSE IF r.amount = 0 THEN <<Result(FALSE, "invalid_request", 0)>>
      ELSE IF r.key \notin Key THEN <<Result(FALSE, "unknown_limit_key", 0)>>
      ELSE <<Result(FALSE, "limit_decreasing", DecreaseRetry)>>

\* What is wrong with an item before the backend sees it: nothing, or its result.
Rejection(kind, item) ==
  IF kind = "reserve" THEN validateReserve(item)
  ELSE IF item.lease = "" THEN <<Result(FALSE, "invalid_request", 0)>> ELSE <<>>

\* The body is decoded: a batch that is empty or too large is a bad request.
HandlerBegins(n) ==
  LET c == calls[n]
  IN  /\ c.server = "sent"
      /\ Update(n, [c EXCEPT !.server =
            IF c.batch /\ Len(c.items) \notin 1 .. MaxBatch THEN "bad_request" ELSE "serving"])
      /\ UNCHANGED <<static, limits, book>>

NextItem(c) == c.items[c.at + 1]
More(c) == c.at < Len(c.items)

\* MUTANT: an item that is rejected is skipped.
ValidateItemSkips(n) ==
  LET c == calls[n]
      rejection == Rejection(c.kind, NextItem(c))
  IN  /\ c.server = "serving" /\ More(c) /\ ~c.checked
      /\ Update(n, IF rejection = <<>> THEN [c EXCEPT !.checked = TRUE] ELSE [c EXCEPT !.at = @ + 1])
      /\ UNCHANGED <<static, limits, book>>

\* Each item is validated by itself, just before it is served.  In a batch the
\* rejection is the item's result; a single request that is not valid is a bad
\* request.
ValidateItem(n) ==
  LET c == calls[n]
      rejection == Rejection(c.kind, NextItem(c))
  IN  /\ c.server = "serving" /\ More(c) /\ ~c.checked
      /\ Update(n, IF rejection = <<>> THEN [c EXCEPT !.checked = TRUE]
                   ELSE IF ~c.batch /\ rejection[1].error = "invalid_request"
                   THEN [c EXCEPT !.server = "bad_request"]
                   ELSE [c EXCEPT !.results = @ \o rejection, !.at = @ + 1])
      /\ UNCHANGED <<static, limits, book>>

\* The backend's answer for the item, its error being a result and not a status.
ServeItem(n) ==
  LET c == calls[n]
  IN  /\ More(c) /\ ((c.server = "serving" /\ c.checked) \/ c.server = "local")
      /\ \E x \in Outcomes(c.kind, NextItem(c)) :
           /\ Update(n, [c EXCEPT !.results = Append(@, x.r), !.at = @ + 1, !.checked = FALSE])
           /\ leases' = [leases EXCEPT ![NextItem(c).lease] = x.lease]
           /\ streak' = x.streak /\ faults' = faults + x.fault
      /\ UNCHANGED <<static, limits, expiries>>

\* The handler writes its response; the local client returns.
HandlerEnds(n) ==
  LET c == calls[n]
  IN  /\ c.server \in {"serving", "local"} /\ ~More(c)
      /\ Update(n, [c EXCEPT !.server = "answered"])
      /\ UNCHANGED <<static, limits, book>>

Step(n) == HandlerBegins(n) \/ ValidateItem(n) \/ ServeItem(n) \/ HandlerEnds(n) \/ Deliver(n)

\* A batch is at most as large as the batcher makes it.
Requests(kind) == {b \in Batches[kind] : Len(b) <= IF Batching THEN cfg.batch ELSE 1}

Next ==
  \/ \E kind \in {"reserve", "complete"} : \E items \in Requests(kind) :
       CallNoop(kind, items) \/ CallLocal(kind, items) \/ CallHTTP(kind, items)
  \/ \E n \in DOMAIN calls : Step(n) \/ Timeout(n) \/ Lose(n)
  \/ \E l \in Leases, k \in Key : Expire(l, k)
  \/ \E k \in Adjusted : ChangeBackend(k) \/ ChangeRegistry(k)

\* Handlers run, answers arrive and a timer fires.
Spec == /\ Init /\ [][Next]_vars
        /\ \A n \in 1 .. MaxCalls : WF_vars(n \in DOMAIN calls /\ (Step(n) \/ Timeout(n)))
-----------------------------------------------------------------------------
(* Properties.                                                             *)

\* A call, its request and its results are in one of their states, and a valid
\* configuration builds a limiter unless the file it names cannot be loaded.
TypeOK ==
  /\ Limiter \in {"noop", "local", "http", "error"}
  /\ Limiter = "error" => cfg.mode = "embedded" /\ cfg.limitsPath /\ ~cfg.fileLoads
  /\ Len(calls) <= MaxCalls
  /\ \A n \in DOMAIN calls :
       /\ calls[n].client \in {"waiting", "answered", "error"}
       /\ calls[n].server \in {"none", "sent", "serving", "local", "answered", "bad_request", "lost"}
       /\ \A i \in DOMAIN calls[n].results : calls[n].results[i].error \in
            {"", "invalid_request", "unknown_limit_key", "limit_decreasing", "backend_error"}
  /\ \A l \in Leases : leases[l].entry \in {"none", "lease", "failed"} /\ leases[l].holds \subseteq Key
  /\ streak \in [Key -> 0 .. MaxStreak]

Answered(n) == calls[n].client = "answered" /\ Limiter # "noop"

\* The batcher hands the i-th result to the i-th caller: an answered call has one
\* result per item, and an item without a lease has the one that says so
\* (internal/api/reserve_handler.go, complete_handler.go, local/client.go).
OwnAnswers ==
  /\ TypeOK
  /\ \A n \in DOMAIN calls : Answered(n) =>
       /\ Len(calls[n].results) = Len(calls[n].items)
       /\ \A i \in DOMAIN calls[n].items :
            calls[n].items[i].lease = "" => calls[n].results[i].error = "invalid_request"

\* The item asks to reserve the lease.
Asks(n, i, l) == calls[n].kind = "reserve" /\ calls[n].items[i].lease = l
\* Its caller was told that it was denied; an error of the backend leaves it open.
ToldDenied(n, i) == Answered(n) /\ ~calls[n].results[i].ok /\ calls[n].results[i].error # "backend_error"

\* A caller that is told its reservation is allowed has a lease in the backend,
\* until a call completes it; and a lease whose every Reserve was answered with a
\* denial holds nothing.  One denial of several says less: the handler denies a
\* decreasing limit before the backend looks the lease up
\* (internal/api/reserve_validation.go:46), so that the retry of a call whose answer
\* was lost may be denied while the lease holds what that call reserved.
LeasesMatchAnswers ==
  /\ \A n \in DOMAIN calls : Answered(n) /\ calls[n].kind = "reserve" =>
       \A i \in DOMAIN calls[n].results : calls[n].results[i].ok =>
         \/ leases[calls[n].items[i].lease].entry = "lease"
         \/ \E m \in DOMAIN calls : /\ calls[m].kind = "complete"
                                    /\ \E j \in DOMAIN calls[m].items : calls[m].items[j].lease = calls[n].items[i].lease
  /\ \A l \in Leases :
       (\A n \in DOMAIN calls : \A i \in DOMAIN calls[n].items : Asks(n, i, l) => ToldDenied(n, i))
         => leases[l].holds = {}

\* A denial says when to come back, and a denial that only time can lift neither
\* says at once nor beyond the longer of the base and the maximum, whatever the
\* streak (tb/retry.go, memory/retry.go).
HintBounded ==
  \A n \in DOMAIN calls : \A i \in DOMAIN calls[n].results :
    LET r == calls[n].results[i]
    IN  ~r.ok /\ r.error = "" =>
          \E k \in KeysOf(calls[n].items[i].reqs) :
             r.hint \in 1 .. MaxOf(BaseMs(k), MaxMs(k)) + Policy[Kind[k]].jitter

\* Every call returns: an answer, an error or its timeout.
CallsReturn == \A n \in 1 .. MaxCalls : n \in DOMAIN calls ~> (n \in DOMAIN calls /\ calls[n].client # "waiting")
=============================================================================
