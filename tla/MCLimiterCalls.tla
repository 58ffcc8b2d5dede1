--------------------------- MODULE MCLimiterCalls ---------------------------
(* Small instances of LimiterCalls for TLC. *)
EXTENDS LimiterCalls, TLC

Req(key, amount) == [key |-> key, amount |-> amount]
Item(lease, reqs) == [lease |-> lease, reqs |-> reqs]

\* One place, and a window of a long day: its base is beyond the maximum.
McKind == "slots" :> "concurrency" @@ "tokens" :> "rolling" @@ "requests" :> "rolling"
McSpan == "slots" :> 30 @@ "tokens" :> 900 @@ "requests" :> 60
McCapacity == "slots" :> 1 @@ "tokens" :> 3 @@ "requests" :> 2
McPolicy == "concurrency" :> [base |-> 5, max |-> 20, num |-> 2, den |-> 1, jitter |-> 2]
            @@ "rolling" :> [base |-> 10, max |-> 50, num |-> 3, den |-> 2, jitter |-> 5]

McKeys == [rpm |-> "requests", tpm |-> "tokens", concurrency |-> "slots", daily |-> "none"]

Long    == Item("l1", Requirements(2, McKeys, FALSE))
Short   == Item("l2", <<Req("slots", 1)>>)
Unknown == Item("l3", <<Req("slots", 1), Req("none", 1)>>)
NoId    == Item("", Requirements(1, McKeys, TRUE))

\* The last batch is larger than the server takes.
McBatches ==
  "reserve" :> {<<Long>>, <<Short>>, <<NoId>>, <<NoId, Long>>, <<Unknown, Short>>,
                <<Long, Short, Unknown>>}
  @@ "complete" :> {<<Long>>}

Cfg(mode, url, path, limitsGiven, loads, timeout, batch) ==
  [mode |-> mode, url |-> url, limitsPath |-> path, limits |-> limitsGiven,
   fileLoads |-> loads, timeout |-> timeout, batch |-> batch]

McConfigs ==
  {Cfg("", FALSE, FALSE, FALSE, FALSE, 0, 0),
   Cfg("remote", TRUE, FALSE, FALSE, FALSE, 0, 1), Cfg("remote", TRUE, FALSE, FALSE, FALSE, -1, 1),
   Cfg("remote", TRUE, FALSE, FALSE, FALSE, 500, 0), Cfg("remote", FALSE, FALSE, FALSE, FALSE, 0, 0),
   Cfg("embedded", FALSE, FALSE, TRUE, FALSE, 0, 1), Cfg("embedded", FALSE, TRUE, FALSE, TRUE, 0, 0),
   Cfg("embedded", FALSE, TRUE, FALSE, FALSE, 0, 0), Cfg("embedded", FALSE, TRUE, TRUE, TRUE, 0, 0)}
=============================================================================
