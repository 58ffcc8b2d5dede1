-------------------------- MODULE QuestionRunProofs --------------------------
(***************************************************************************)
(* Proofs about QuestionRun: whatever the configuration, the selection and *)
(* the interleaving of jobs, runner and UI, each question keeps the result *)
(* of its own job, the selected tasks run once and in order, no event is   *)
(* sent on the closed channel, and a screen that lost nothing is true.     *)
(***************************************************************************)
EXTENDS QuestionRun, PickingProofs, FiniteSetTheorems, TLAPS

-----------------------------------------------------------------------------
(* The invariant.                                                          *)

Working == {"load", "queue", "announce", "submit", "collect", "shutdown", "taskend"}
Asking == {"announce", "submit", "collect"}
Ending == {"stop", "wait", "exit"}
Pcs == {"begin", "plan", "task", "close", "write"} \cup Working \cup Ending

Mains == [pc : Pcs, task : Nat, q : Nat, asked : Selections]

\* The plan is that of what was asked for; no task is in it twice.
Planned == /\ ValidSelectors(main.asked.picks) /\ Runnable(PlanTaskRuns(main.asked))
           /\ plan = PlanTaskRuns(main.asked)
PlanOK ==
  /\ plan \in Seq(TaskConfigs(Agents)) /\ Len(plan) <= Len(Tasks)
  /\ \A i, k \in DOMAIN plan : plan[i].id = plan[k].id => i = k

\* Every planned task ended; or nothing was planned.
Ended == Planned /\ main.task = Len(plan) + 1 /\ Len(results) = Len(plan)
Nothing == main.task = 0 /\ plan = <<>> /\ results = <<>>

\* Where the command is decides how many tasks ended and what it may return.
Control ==
  /\ main \in Mains
  /\ PlanOK
  /\ main.pc \in {"begin", "plan"} => Nothing
  /\ main.pc = "task" => /\ Planned /\ main.task \in 1 .. Len(plan) + 1
                         /\ Len(results) = main.task - 1
  /\ main.pc \in Working => /\ Planned /\ main.task \in 1 .. Len(plan)
                            /\ Len(results) = (IF main.pc = "taskend" THEN main.task
                                               ELSE main.task - 1)
  /\ main.pc \in {"close", "write"} => Ended
  /\ main.pc \in Ending => Ended \/ Nothing
  /\ exit \in {None, "ok", "error"}
  /\ exit = "ok" => main.pc \in Ending /\ Ended
  /\ main.q <= MaxQuestions
  /\ main.pc \in {"queue", "shutdown"} \cup Asking => main.q \in 1 .. Task.questions

Settled == {"judged", "completing", "done"}
Reported(j, o) == jobs[j].st \in {"completing", "done"} /\ jobs[j].outcome = o

JobRecords == [st : JobStates, retries : Nat, tools : Nat, outcome : Outcomes \cup {None}]
JobOK(b) == /\ b \in JobRecords
            /\ b.st = "none" => b = NoJob
            /\ b.st \in Settled => b.outcome \in Outcomes

\* The question's job may have been submitted.
Reached(q) == \/ main.pc \in {"announce", "submit"} /\ q < main.q
              \/ main.pc = "collect" /\ q <= main.q
              \/ main.pc \in {"shutdown", "taskend"}

\* A job runs only while its task asks for results.
JobsRun ==
  /\ DOMAIN jobs = JobIds
  /\ \A j \in JobIds : JobOK(jobs[j])
  /\ \A j \in JobIds : jobs[j].st \notin {"none", "completing", "done"} =>
       j[1] = main.task /\ main.pc \in Asking
  /\ \A j \in JobIds : jobs[j].st # "none" =>
       /\ j[1] \in 1 .. Len(plan) /\ j[2] <= plan[j[1]].questions
       /\ j[1] < main.task \/ (j[1] = main.task /\ Reached(j[2]))

\* What the runner counts is what it keeps.
CurRecords == [results : [Questions -> Outcomes \cup {None}], correct : Nat, got : Nat,
               runtimeError : BOOLEAN, budgetExceeded : BOOLEAN]
Kept(c) == {q \in Questions : c.results[q] # None}
Of(f, o) == {q \in Questions : f[q] = o}
CurOK(c) ==
  /\ c \in CurRecords
  /\ c.got = Cardinality(Kept(c))
  /\ c.correct = Cardinality(Of(c.results, "correct"))
  /\ Of(c.results, "runtime_error") # {} => c.runtimeError

\* Results on their way: each of a job that reported, none twice, none kept already.
OnTheWay ==
  \A k \in DOMAIN resultCh :
    /\ Reported(<<main.task, resultCh[k].q>>, resultCh[k].outcome)
    /\ cur.results[resultCh[k].q] = None
    /\ \A l \in DOMAIN resultCh : resultCh[k].q = resultCh[l].q => k = l

Answers ==
  /\ CurOK(cur)
  /\ resultCh \in Seq([q : Questions, outcome : Outcomes]) /\ Len(resultCh) <= MaxQuestions
  /\ main.pc \in {"load", "queue"} => cur = NoTask /\ resultCh = <<>>
  /\ main.pc \in Asking => OnTheWay
  /\ main.pc \in Asking \cup {"shutdown", "taskend"} =>
       \A q \in Questions : cur.results[q] # None => Reported(<<main.task, q>>, cur.results[q])
  /\ main.pc \in Asking =>
       /\ Task.workers = 1 => cur.got = main.q - 1
       /\ Task.workers > 1 => IF main.pc = "collect" THEN main.q = Task.questions
                              ELSE cur.got = 0
  /\ main.pc = "shutdown" => \A q \in 1 .. Task.questions : cur.results[q] # None

\* The result of a task: its own id, agent and outcomes, and the status they give.
ResultRecords == [id : TaskIds, agent : Agents, status : {"pass", "fail", "error"},
                  reason : {None, "not_loaded", "runtime_error", "budget_exceeded", "incorrect_answers"},
                  questions : 0 .. MaxQuestions, correct : Nat,
                  outcomes : [Questions -> Outcomes \cup {None}]]
Judged(r) ==
  /\ r.status = "pass" => Cardinality(Of(r.outcomes, "correct")) = r.questions /\ r.questions > 0
  /\ Of(r.outcomes, "runtime_error") # {} => r.status = "error"
  /\ r.correct = Cardinality(Of(r.outcomes, "correct"))
  /\ \A q \in Questions : r.outcomes[q] # None <=> q <= r.questions
ResultOf(i, r) ==
  /\ r \in ResultRecords /\ Judged(r)
  /\ r.id = plan[i].id /\ r.agent = plan[i].agent
  /\ \A q \in Questions : r.outcomes[q] # None => Reported(<<i, q>>, r.outcomes[q])
Recorded ==
  /\ results \in Seq(ResultRecords) /\ Len(results) <= Len(plan)
  /\ \A i \in 1 .. Len(results) : ResultOf(i, results[i])

-----------------------------------------------------------------------------
(* The screen and the events on their way to it.                           *)

ToolEvents == {"tool_start", "tool_finish"}
EventRecords == [kind : {"run_start", "task_start", "question", "task_end", "run_end"},
                 task : TaskIds \cup {None}, q : 0 .. MaxQuestions,
                 type : Statuses \cup ToolEvents \cup {None}]
EventOK(e) == /\ e \in EventRecords
              /\ e.kind = "task_start" => e.task \in TaskIds
              /\ e.kind = "question" => e.q \in Questions /\ e.type \in Statuses \cup ToolEvents

RowRecords == [status : Statuses, tool : {"none", "running", "done"}]
Rows(r, S) == {i \in DOMAIN r : r[i].status \in S}
ScreenRecords == [pc : {"wait", "quit", "died"}, task : TaskIds \cup {None}, rows : Seq(RowRecords),
                  counts : [Counts -> Nat]]
ScreenOK(u) ==
  /\ u \in ScreenRecords
  /\ u.counts.correct = Cardinality(Rows(u.rows, {"correct"}))
  /\ u.counts.open = Cardinality(Rows(u.rows, Statuses \ Terminal))

Channel ==
  /\ events \in Seq(EventRecords) /\ Len(events) <= EventCap
  /\ \A k \in DOMAIN events : EventOK(events[k])
  /\ ScreenOK(ui)
  /\ ui.pc = "quit" => closed /\ events = <<>>
  /\ dropped \in Nat /\ panicked = FALSE /\ closed \in BOOLEAN
  /\ closed => main.pc \in {"write"} \cup Ending

Starts(e) == e.kind = "task_start"
Tells(e, q) == e.kind = "question" /\ e.q = q /\ e.type \in Statuses
\* No task starts between the k-th event and the l-th.
Same(evs, k, l) == \A m \in DOMAIN evs : k <= m /\ m <= l => ~Starts(evs[m])
Fresh(evs, k) == Same(evs, k, Len(evs))

\* The screen u with the events still to come: id is the task under way, old are
\* the tasks before it, width its number of rows and found the outcomes of its
\* questions that are settled.
Follows(evs, u, id, old) ==
  /\ Fresh(evs, 1) => u.task = id
  /\ \A k \in DOMAIN evs : Starts(evs[k]) /\ Fresh(evs, k + 1) => evs[k].task = id
  /\ \A k \in DOMAIN evs : Starts(evs[k]) => evs[k].task \in old \cup {id}
  /\ u.task \in old \cup {id, None}
  /\ \A k \in DOMAIN evs : Starts(evs[k]) => evs[k].task # u.task
  /\ \A k, l \in DOMAIN evs : k < l /\ Starts(evs[k]) /\ Starts(evs[l]) => evs[k].task # evs[l].task
  /\ u.task = None => /\ u.rows = <<>>
                      /\ \A k \in DOMAIN evs : evs[k].kind = "question" => ~Same(evs, 1, k)
Wide(evs, u, width) ==
  /\ \A k \in DOMAIN evs : evs[k].kind = "question" /\ Fresh(evs, k) => evs[k].q <= width
  /\ Fresh(evs, 1) => Len(u.rows) <= width
Shows(evs, u, q, o) ==
  \/ \E k \in DOMAIN evs : Tells(evs[k], q) /\ evs[k].type = o /\ Fresh(evs, k)
  \/ Fresh(evs, 1) /\ q \in DOMAIN u.rows /\ u.rows[q].status = o
Told(evs, u, found) ==
  /\ \A q \in Questions : found[q] # None => Shows(evs, u, q, found[q])
  /\ \A q \in Questions : found[q] = None => \A o \in Terminal : ~Shows(evs, u, q, o)
Final(evs, u) ==
  /\ \A l \in DOMAIN evs : \A q \in DOMAIN u.rows :
       Tells(evs[l], q) /\ Same(evs, 1, l) => u.rows[q].status \notin Terminal
  /\ \A k, l \in DOMAIN evs : \A q \in Questions :
       k < l /\ Tells(evs[k], q) /\ Tells(evs[l], q) /\ Same(evs, k, l) => evs[k].type \notin Terminal
Seen(evs, u, id, old, width, found) ==
  Follows(evs, u, id, old) /\ Wide(evs, u, width) /\ Told(evs, u, found) /\ Final(evs, u)

\* The task the events are about.
Shown == IF main.pc \in Working THEN main.task
         ELSE IF main.task = 0 THEN 0 ELSE main.task - 1
ShownId == IF Shown = 0 THEN None ELSE plan[Shown].id
OldIds == {plan[i].id : i \in 1 .. Shown - 1}
Width == IF main.pc \in {"queue", "shutdown"} \cup Asking THEN Task.questions
         ELSE IF Shown = 0 \/ Shown > Len(results) THEN 0 ELSE results[Shown].questions
FoundIn(t, js) == [q \in Questions |-> IF t # 0 /\ js[<<t, q>>].st \in Settled
                                       THEN js[<<t, q>>].outcome ELSE None]
Found == FoundIn(Shown, jobs)
Screen ==
  dropped = 0 /\ ui.pc # "died" => Seen(events, ui, ShownId, OldIds, Width, Found)

Inv == Control /\ JobsRun /\ Answers /\ Recorded /\ Channel /\ Screen

-----------------------------------------------------------------------------
(* Sequences of events.                                                    *)

EvsOK(evs) == evs \in Seq(EventRecords) /\ \A k \in DOMAIN evs : EventOK(evs[k])

\* new is evs with e at its end.
Grown(evs, e, new) ==
  /\ Len(evs) \in Nat /\ DOMAIN evs = 1 .. Len(evs)
  /\ Len(new) = Len(evs) + 1 /\ DOMAIN new = 1 .. Len(evs) + 1
  /\ \A k \in 1 .. Len(evs) : new[k] = evs[k]
  /\ new[Len(evs) + 1] = e

LEMMA AppendGrows ==
  ASSUME NEW evs, EvsOK(evs), NEW e, EventOK(e)
  PROVE  Grown(evs, e, Append(evs, e)) /\ EvsOK(Append(evs, e))
<1>1. evs \in Seq(EventRecords) /\ e \in EventRecords
  BY DEF EvsOK, EventOK
<1> DEFINE new == Append(evs, e)
<1>2. Grown(evs, e, new) /\ new \in Seq(EventRecords)
  BY <1>1 DEF Grown
<1>3. ASSUME NEW k \in DOMAIN new
      PROVE  EventOK(new[k])
  <2>1. k \in 1 .. Len(evs) \/ k = Len(evs) + 1
    BY <1>2 DEF Grown
  <2> HIDE DEF new
  <2> QED
    BY <2>1, <1>2 DEF Grown, EvsOK
<1> QED
  BY <1>2, <1>3 DEF EvsOK

LEMMA SameGrown ==
  ASSUME NEW evs, NEW e, NEW new, Grown(evs, e, new)
  PROVE  /\ \A k, l \in 1 .. Len(evs) : Same(new, k, l) <=> Same(evs, k, l)
         /\ \A k \in 1 .. Len(evs) + 1 : Same(new, k, Len(evs) + 1) <=> Fresh(evs, k) /\ ~Starts(e)
         /\ \A k \in 1 .. Len(evs) + 1 : Fresh(new, k) <=> Fresh(evs, k) /\ ~Starts(e)
         /\ Fresh(evs, Len(evs) + 1)
<1>1. PICK n \in Nat : n = Len(evs)
  BY DEF Grown
<1>2. DOMAIN evs = 1 .. n /\ DOMAIN new = 1 .. n + 1 /\ Len(new) = n + 1
      /\ (\A k \in 1 .. n : new[k] = evs[k]) /\ new[n + 1] = e
  BY <1>1 DEF Grown
<1>3. \A k, l \in 1 .. n : Same(new, k, l) <=> Same(evs, k, l)
  BY <1>2 DEF Same
<1>4. \A k \in 1 .. n + 1 : Same(new, k, n + 1) <=> Fresh(evs, k) /\ ~Starts(e)
  BY <1>1, <1>2 DEF Same, Fresh
<1>5. Fresh(evs, n + 1)
  BY <1>1, <1>2 DEF Same, Fresh
<1> QED
  BY <1>1, <1>2, <1>3, <1>4, <1>5 DEF Fresh

\* new is evs without its first event.
Shrunk(evs, new) ==
  /\ Len(evs) \in Nat \ {0} /\ DOMAIN evs = 1 .. Len(evs)
  /\ Len(new) = Len(evs) - 1 /\ DOMAIN new = 1 .. Len(evs) - 1
  /\ \A k \in 1 .. Len(evs) - 1 : new[k] = evs[k + 1] /\ k + 1 \in DOMAIN evs

LEMMA TailShrinks ==
  ASSUME NEW evs, EvsOK(evs), evs # <<>>
  PROVE  /\ Shrunk(evs, Tail(evs)) /\ EvsOK(Tail(evs))
         /\ Head(evs) = evs[1] /\ 1 \in DOMAIN evs /\ EventOK(Head(evs))
<1>1. evs \in Seq(EventRecords) /\ Len(evs) \in Nat \ {0} /\ DOMAIN evs = 1 .. Len(evs)
  BY DEF EvsOK
<1>2. Len(Tail(evs)) = Len(evs) - 1 /\ Tail(evs) \in Seq(EventRecords)
      /\ DOMAIN Tail(evs) = 1 .. Len(evs) - 1
      /\ \A k \in 1 .. Len(evs) - 1 : Tail(evs)[k] = evs[k + 1]
  BY <1>1
<1>3. \A k \in 1 .. Len(evs) - 1 : k + 1 \in DOMAIN evs
  BY <1>1
<1>4. Head(evs) = evs[1] /\ 1 \in DOMAIN evs
  BY <1>1
<1> QED
  BY <1>1, <1>2, <1>3, <1>4 DEF Shrunk, EvsOK

LEMMA SameShrunk ==
  ASSUME NEW evs, NEW new, Shrunk(evs, new)
  PROVE  /\ \A k, l \in DOMAIN new : Same(new, k, l) <=> Same(evs, k + 1, l + 1)
         /\ \A k \in 1 .. Len(evs) : Fresh(new, k) <=> Fresh(evs, k + 1)
         /\ \A k \in DOMAIN evs : Same(evs, 1, k) <=> ~Starts(evs[1]) /\ Same(evs, 2, k)
         /\ Fresh(evs, 1) <=> ~Starts(evs[1]) /\ Fresh(evs, 2)
         /\ Fresh(new, 1) <=> Fresh(evs, 2)
<1>1. PICK n \in Nat \ {0} : n = Len(evs)
  BY DEF Shrunk
<1>2. DOMAIN evs = 1 .. n /\ DOMAIN new = 1 .. n - 1 /\ Len(new) = n - 1
      /\ (\A k \in 1 .. n - 1 : new[k] = evs[k + 1])
  BY <1>1 DEF Shrunk
<1>3. ASSUME NEW k \in 1 .. n, NEW l \in 0 .. n - 1
      PROVE  Same(new, k, l) <=> Same(evs, k + 1, l + 1)
  <2>1. ASSUME Same(new, k, l), NEW m \in DOMAIN evs, k + 1 <= m, m <= l + 1
        PROVE  ~Starts(evs[m])
    <3>1. m - 1 \in 1 .. n - 1 /\ k <= m - 1 /\ m - 1 <= l /\ (m - 1) + 1 = m
      BY <2>1, <1>2
    <3> QED
      BY <2>1, <3>1, <1>2 DEF Same
  <2>2. ASSUME Same(evs, k + 1, l + 1), NEW m \in DOMAIN new, k <= m, m <= l
        PROVE  ~Starts(new[m])
    <3>1. m + 1 \in 1 .. n /\ k + 1 <= m + 1 /\ m + 1 <= l + 1
      BY <2>2, <1>2
    <3> QED
      BY <2>2, <3>1, <1>2 DEF Same
  <2> QED
    BY <2>1, <2>2 DEF Same
<1>4. \A k \in DOMAIN evs : Same(evs, 1, k) <=> ~Starts(evs[1]) /\ Same(evs, 2, k)
  BY <1>2 DEF Same
<1>5. n - 1 \in 0 .. n - 1 /\ (n - 1) + 1 = n /\ n \in DOMAIN evs /\ 1 \in 1 .. n /\ 1 + 1 = 2
  BY <1>2
<1>6. \A k, l \in DOMAIN new : Same(new, k, l) <=> Same(evs, k + 1, l + 1)
  BY <1>2, <1>3
<1>7. \A k \in 1 .. n : Fresh(new, k) <=> Fresh(evs, k + 1)
  BY <1>1, <1>2, <1>3, <1>5 DEF Fresh
<1>8. Fresh(new, 1) <=> Fresh(evs, 2)
  BY <1>7, <1>5
<1>9. Fresh(evs, 1) <=> ~Starts(evs[1]) /\ Fresh(evs, 2)
  BY <1>1, <1>4, <1>5 DEF Fresh
<1> QED
  BY <1>1, <1>4, <1>6, <1>7, <1>8, <1>9

-----------------------------------------------------------------------------
(* The screen when an event is sent.                                       *)

\* An event about a question keeps what the screen follows.
LEMMA QuestionFollows ==
  ASSUME NEW evs, NEW e, NEW new, Grown(evs, e, new), NEW u, NEW id, NEW old,
         e.kind = "question", id # None, Follows(evs, u, id, old)
  PROVE  Follows(new, u, id, old)
<1> DEFINE n == Len(evs)
<1>1. n \in Nat /\ DOMAIN evs = 1 .. n /\ DOMAIN new = 1 .. n + 1
      /\ (\A k \in 1 .. n : new[k] = evs[k]) /\ new[n + 1] = e
  BY DEF Grown
<1>2. ~Starts(e)
  BY DEF Starts
<1>3. \A k \in DOMAIN new : k \in 1 .. n \/ k = n + 1
  BY <1>1
<1>4. \A k \in 1 .. n : k + 1 \in 1 .. n + 1
  BY <1>1
<1>5. \A k \in 1 .. n + 1 : Fresh(new, k) <=> Fresh(evs, k)
  BY <1>2, SameGrown
<1>6. 1 \in 1 .. n + 1
  BY <1>1
<1>7. Same(new, 1, n + 1) <=> Fresh(evs, 1)
  BY <1>2, <1>6, SameGrown
<1>8. \A k \in 1 .. n : Same(new, 1, k) <=> Same(evs, 1, k)
  <2>1. \A k \in 1 .. n : 1 \in 1 .. n
    BY <1>1
  <2> QED
    BY <2>1, SameGrown
<1> HIDE DEF n
<1>9. Fresh(new, 1) => u.task = id
  BY <1>5, <1>6 DEF Follows
<1>10. \A k \in DOMAIN new : Starts(new[k]) => k \in 1 .. n /\ new[k] = evs[k]
  BY <1>1, <1>2, <1>3
<1>11. u.task = None => u.rows = <<>> /\ \A k \in DOMAIN new : new[k].kind = "question" => ~Same(new, 1, k)
  <2> SUFFICES ASSUME u.task = None, NEW k \in DOMAIN new, new[k].kind = "question"
               PROVE  ~Same(new, 1, k)
    BY DEF Follows
  <2>1. CASE k = n + 1
    BY <2>1, <1>7 DEF Follows
  <2>2. CASE k \in 1 .. n
    BY <2>2, <1>1, <1>8 DEF Follows
  <2> QED
    BY <2>1, <2>2, <1>3
<1>12. \A k \in DOMAIN new : Starts(new[k]) /\ Fresh(new, k + 1) => new[k].task = id
  BY <1>1, <1>4, <1>5, <1>10 DEF Follows
<1>13. \A k \in DOMAIN new : Starts(new[k]) => new[k].task \in old \cup {id} /\ new[k].task # u.task
  BY <1>1, <1>10 DEF Follows
<1>14. \A k, l \in DOMAIN new : k < l /\ Starts(new[k]) /\ Starts(new[l]) => new[k].task # new[l].task
  BY <1>1, <1>10 DEF Follows
<1>15. u.task \in old \cup {id, None}
  BY DEF Follows
<1> QED
  BY <1>9, <1>11, <1>12, <1>13, <1>14, <1>15 DEF Follows

\* The outcomes found when e, about a question that had none, is sent.
Finds(e, found, now) ==
  /\ found \in [Questions -> Outcomes \cup {None}] /\ now \in [Questions -> Outcomes \cup {None}]
  /\ \A q \in Questions : ~Tells(e, q) => now[q] = found[q]
  /\ \A q \in Questions : Tells(e, q) =>
       found[q] = None /\ (e.type \in Terminal => now[q] = e.type) /\ (e.type \notin Terminal => now[q] = None)

\* What was shown stays shown.
LEMMA ShowsGrown ==
  ASSUME NEW evs, NEW e, NEW new, Grown(evs, e, new), ~Starts(e), NEW u, NEW q, NEW o
  PROVE  Shows(new, u, q, o) <=> Shows(evs, u, q, o) \/ (Tells(e, q) /\ e.type = o)
<1> DEFINE n == Len(evs)
<1>1. n \in Nat /\ DOMAIN evs = 1 .. n /\ DOMAIN new = 1 .. n + 1
      /\ (\A k \in 1 .. n : new[k] = evs[k]) /\ new[n + 1] = e
  BY DEF Grown
<1>2. \A k \in DOMAIN new : k \in 1 .. n \/ k = n + 1
  BY <1>1
<1>3. \A k \in 1 .. n + 1 : Fresh(new, k) <=> Fresh(evs, k)
  BY SameGrown
<1>4. Fresh(new, n + 1)
  BY SameGrown, <1>1
<1>5. 1 \in 1 .. n + 1 /\ n + 1 \in 1 .. n + 1 /\ \A k \in 1 .. n : k \in 1 .. n + 1
  BY <1>1
<1> HIDE DEF n
<1> QED
  BY <1>1, <1>2, <1>3, <1>4, <1>5 DEF Shows

LEMMA QuestionTold ==
  ASSUME NEW evs, NEW e, NEW new, Grown(evs, e, new), NEW u, NEW found, NEW now,
         e.kind = "question", Finds(e, found, now), Told(evs, u, found)
  PROVE  Told(new, u, now)
<1>1. ~Starts(e) /\ None \notin Outcomes
  BY InputsAssumption DEF Starts, Statuses, Terminal
<1>2. \A q, o : Shows(new, u, q, o) <=> Shows(evs, u, q, o) \/ (Tells(e, q) /\ e.type = o)
  BY <1>1, ShowsGrown
<1>3. ASSUME NEW q \in Questions, now[q] # None
      PROVE  Shows(new, u, q, now[q])
  BY <1>2, <1>3 DEF Finds, Told
<1>4. ASSUME NEW q \in Questions, now[q] = None, NEW o \in Terminal
      PROVE  ~Shows(new, u, q, o)
  <2>1. None \notin Terminal
    BY InputsAssumption DEF Statuses
  <2> QED
    BY <1>2, <1>4, <2>1 DEF Finds, Told
<1> QED
  BY <1>3, <1>4 DEF Told

LEMMA QuestionFinal ==
  ASSUME NEW evs, EvsOK(evs), NEW e, EventOK(e), NEW new, Grown(evs, e, new), NEW u, NEW found, NEW now,
         e.kind = "question", Finds(e, found, now), Told(evs, u, found), Final(evs, u)
  PROVE  Final(new, u)
<1> DEFINE n == Len(evs)
<1>1. n \in Nat /\ DOMAIN evs = 1 .. n /\ DOMAIN new = 1 .. n + 1
      /\ (\A k \in 1 .. n : new[k] = evs[k]) /\ new[n + 1] = e
  BY DEF Grown
<1>2. ~Starts(e)
  BY DEF Starts
<1>3. \A k \in DOMAIN new : k \in 1 .. n \/ k = n + 1
  BY <1>1
<1>4. \A k \in 1 .. n + 1 : Same(new, k, n + 1) => Fresh(evs, k)
  BY <1>2, SameGrown
<1>5. \A k, l \in 1 .. n : Same(new, k, l) <=> Same(evs, k, l)
  BY SameGrown
<1>6. \A l \in 1 .. n : 1 \in 1 .. n
  BY <1>1
<1>7. 1 \in 1 .. n + 1 /\ \A k \in 1 .. n : k \in 1 .. n + 1
  BY <1>1
<1>8. \A q : Tells(e, q) => q \in Questions
  BY DEF Tells, EventOK
<1>9. ASSUME NEW q, Tells(e, q), NEW o \in Terminal
      PROVE  ~Shows(evs, u, q, o)
  BY <1>8, <1>9 DEF Finds, Told
<1> HIDE DEF n
<1>10. ASSUME NEW l \in DOMAIN new, NEW q \in DOMAIN u.rows, Tells(new[l], q), Same(new, 1, l)
       PROVE  u.rows[q].status \notin Terminal
  <2>1. CASE l = n + 1
    <3>1. Fresh(evs, 1)
      BY <1>4, <1>7, <1>10, <2>1
    <3> QED
      BY <3>1, <1>1, <1>9, <1>10, <2>1 DEF Shows
  <2>2. CASE l \in 1 .. n
    BY <2>2, <1>1, <1>5, <1>6, <1>10 DEF Final
  <2> QED
    BY <2>1, <2>2, <1>3
<1>11. ASSUME NEW k \in DOMAIN new, NEW l \in DOMAIN new, NEW q \in Questions,
              k < l, Tells(new[k], q), Tells(new[l], q), Same(new, k, l)
       PROVE  new[k].type \notin Terminal
  <2>1. CASE l = n + 1
    <3>1. k \in 1 .. n
      BY <2>1, <1>1, <1>11
    <3>2. Fresh(evs, k) /\ new[k] = evs[k]
      BY <1>1, <1>4, <1>7, <1>11, <2>1, <3>1
    <3> QED
      BY <3>1, <3>2, <1>1, <1>9, <1>11, <2>1 DEF Shows
  <2>2. CASE l \in 1 .. n
    <3>1. k \in 1 .. n
      BY <2>2, <1>1, <1>11
    <3> QED
      BY <3>1, <2>2, <1>1, <1>5, <1>11 DEF Final
  <2> QED
    BY <2>1, <2>2, <1>3
<1> QED
  BY <1>10, <1>11 DEF Final

LEMMA QuestionSent ==
  ASSUME NEW evs, EvsOK(evs), NEW e, EventOK(e), NEW new, Grown(evs, e, new), NEW u, NEW id, NEW old,
         NEW width, NEW found, NEW now, e.kind = "question", e.q <= width, id # None,
         Finds(e, found, now), Seen(evs, u, id, old, width, found)
  PROVE  Seen(new, u, id, old, width, now)
<1>1. Follows(new, u, id, old)
  BY QuestionFollows DEF Seen
<1>2. Told(new, u, now) /\ Final(new, u)
  BY QuestionTold, QuestionFinal DEF Seen
<1>3. Wide(new, u, width)
  <2> DEFINE n == Len(evs)
  <2>1. n \in Nat /\ DOMAIN evs = 1 .. n /\ DOMAIN new = 1 .. n + 1
        /\ (\A k \in 1 .. n : new[k] = evs[k]) /\ new[n + 1] = e
    BY DEF Grown
  <2>2. ~Starts(e)
    BY DEF Starts
  <2>3. \A k \in 1 .. n + 1 : Fresh(new, k) <=> Fresh(evs, k)
    BY <2>2, SameGrown
  <2>4. \A k \in DOMAIN new : k \in 1 .. n \/ k = n + 1
    BY <2>1
  <2>5. 1 \in 1 .. n + 1 /\ \A k \in 1 .. n : k \in 1 .. n + 1
    BY <2>1
  <2> HIDE DEF n
  <2> QED
    BY <2>1, <2>3, <2>4, <2>5 DEF Wide, Seen
<1> QED
  BY <1>1, <1>2, <1>3 DEF Seen

\* The start or end of the run and the end of a task change nothing on the screen.
LEMMA OtherSent ==
  ASSUME NEW evs, NEW e, NEW new, Grown(evs, e, new), NEW u, NEW id, NEW old,
         NEW width, NEW found, e.kind \notin {"question", "task_start"},
         Seen(evs, u, id, old, width, found)
  PROVE  Seen(new, u, id, old, width, found)
<1> DEFINE n == Len(evs)
<1>1. n \in Nat /\ DOMAIN evs = 1 .. n /\ DOMAIN new = 1 .. n + 1
      /\ (\A k \in 1 .. n : new[k] = evs[k]) /\ new[n + 1] = e
  BY DEF Grown
<1>2. ~Starts(e) /\ \A q : ~Tells(e, q)
  BY DEF Starts, Tells
<1>3. \A k \in DOMAIN new : k \in 1 .. n \/ k = n + 1
  BY <1>1
<1>4. \A k \in 1 .. n + 1 : Fresh(new, k) <=> Fresh(evs, k)
  BY <1>2, SameGrown
<1>5. \A k, l \in 1 .. n : Same(new, k, l) <=> Same(evs, k, l)
  BY SameGrown
<1>6. \A l \in 1 .. n : 1 \in 1 .. n
  BY <1>1
<1>7. 1 \in 1 .. n + 1 /\ \A k \in 1 .. n : k \in 1 .. n + 1 /\ k + 1 \in 1 .. n + 1
  BY <1>1
<1>8. \A q, o : Shows(new, u, q, o) <=> Shows(evs, u, q, o)
  BY <1>2, ShowsGrown
<1> HIDE DEF n
<1>9. \A k \in DOMAIN new : (Starts(new[k]) \/ new[k].kind = "question" \/ \E q : Tells(new[k], q))
                              => k \in DOMAIN evs /\ k \in 1 .. n /\ new[k] = evs[k]
  BY <1>1, <1>2, <1>3
<1>10. Follows(new, u, id, old)
  BY <1>4, <1>5, <1>6, <1>7, <1>9 DEF Follows, Seen
<1>11. Wide(new, u, width)
  BY <1>4, <1>7, <1>9 DEF Wide, Seen
<1>12. Told(new, u, found)
  BY <1>8 DEF Told, Seen
<1>13. Final(new, u)
  <2>1. ASSUME NEW l \in DOMAIN new, NEW q \in DOMAIN u.rows, Tells(new[l], q), Same(new, 1, l)
        PROVE  u.rows[q].status \notin Terminal
    BY <2>1, <1>5, <1>6, <1>9 DEF Final, Seen
  <2>2. ASSUME NEW k \in DOMAIN new, NEW l \in DOMAIN new, NEW q \in Questions,
               k < l, Tells(new[k], q), Tells(new[l], q), Same(new, k, l)
        PROVE  new[k].type \notin Terminal
    BY <2>2, <1>5, <1>9 DEF Final, Seen
  <2> QED
    BY <2>1, <2>2 DEF Final
<1> QED
  BY <1>10, <1>11, <1>12, <1>13 DEF Seen

\* A task starts: nothing is known of its questions yet.
LEMMA StartSent ==
  ASSUME NEW evs, EvsOK(evs), NEW e, EventOK(e), NEW new, Grown(evs, e, new), NEW u, NEW id, NEW old,
         NEW width, NEW found, NEW older, NEW wide, Starts(e), Seen(evs, u, id, old, width, found),
         old \cup {id} \subseteq older \cup {None}, e.task \notin older
  PROVE  Seen(new, u, e.task, older, wide, [q \in Questions |-> None])
<1> DEFINE n == Len(evs)
           none == [q \in Questions |-> None]
<1>1. n \in Nat /\ DOMAIN evs = 1 .. n /\ DOMAIN new = 1 .. n + 1
      /\ (\A k \in 1 .. n : new[k] = evs[k]) /\ new[n + 1] = e
  BY DEF Grown
<1>2. e.task \in TaskIds /\ None \notin TaskIds /\ \A q : ~Tells(e, q)
  BY InputsAssumption DEF EventOK, Starts, Tells
<1>3. \A k \in DOMAIN new : k \in 1 .. n \/ k = n + 1
  BY <1>1
<1>4. \A k \in 1 .. n + 1 : ~Fresh(new, k)
  BY SameGrown
<1>5. \A k, l \in 1 .. n : Same(new, k, l) <=> Same(evs, k, l)
  BY SameGrown
<1>6. \A l \in 1 .. n : 1 \in 1 .. n
  BY <1>1
<1>7. 1 \in 1 .. n + 1 /\ \A k \in 1 .. n : k \in 1 .. n + 1 /\ k + 1 \in 1 .. n + 1
  BY <1>1
<1>8. \A k \in DOMAIN evs : Starts(evs[k]) => evs[k].task \in TaskIds
  BY DEF EvsOK, EventOK, Starts
<1>9. ~Same(new, 1, n + 1)
  BY <1>7, SameGrown
<1> HIDE DEF n
<1>10. \A k \in 1 .. n : Starts(new[k]) => new[k].task \in older /\ new[k].task # u.task
  BY <1>1, <1>2, <1>8 DEF Seen, Follows
<1>11. u.task \in older \cup {None}
  BY DEF Seen, Follows
<1>12. Follows(new, u, e.task, older)
  <2>1. ~Fresh(new, 1)
    BY <1>4, <1>7
  <2>2. ASSUME NEW k \in DOMAIN new, Starts(new[k]), Fresh(new, k + 1)
        PROVE  new[k].task = e.task
    BY <2>2, <1>1, <1>3, <1>4, <1>7
  <2>3. ASSUME NEW k \in DOMAIN new, Starts(new[k])
        PROVE  new[k].task \in older \cup {e.task} /\ new[k].task # u.task
    BY <2>3, <1>1, <1>2, <1>3, <1>10, <1>11
  <2>4. ASSUME NEW k \in DOMAIN new, NEW l \in DOMAIN new, k < l, Starts(new[k]), Starts(new[l])
        PROVE  new[k].task # new[l].task
    <3>1. k \in 1 .. n
      BY <2>4, <1>1
    <3>2. CASE l \in 1 .. n
      BY <3>1, <3>2, <2>4, <1>1 DEF Seen, Follows
    <3>3. CASE l = n + 1
      BY <3>1, <3>3, <2>4, <1>1, <1>10
    <3> QED
      BY <3>2, <3>3, <1>3
  <2>5. ASSUME u.task = None, NEW k \in DOMAIN new, new[k].kind = "question"
        PROVE  ~Same(new, 1, k)
    <3>1. CASE k = n + 1
      BY <3>1, <1>9
    <3>2. CASE k \in 1 .. n
      BY <3>2, <2>5, <1>1, <1>5, <1>6 DEF Seen, Follows
    <3> QED
      BY <3>1, <3>2, <1>3
  <2>6. u.task = None => u.rows = <<>>
    BY DEF Seen, Follows
  <2> QED
    BY <2>1, <2>2, <2>3, <2>4, <2>5, <2>6, <1>11 DEF Follows
<1>13. Wide(new, u, wide)
  BY <1>1, <1>4, <1>7 DEF Wide
<1>14. Told(new, u, none)
  <2>1. \A q, o : ~Shows(new, u, q, o)
    BY <1>1, <1>4, <1>7 DEF Shows
  <2> QED
    BY <2>1 DEF Told
<1>15. Final(new, u)
  <2>1. \A k \in DOMAIN new : \A q : Tells(new[k], q) => k \in 1 .. n /\ new[k] = evs[k]
    BY <1>1, <1>2, <1>3
  <2>2. ASSUME NEW l \in DOMAIN new, NEW q \in DOMAIN u.rows, Tells(new[l], q), Same(new, 1, l)
        PROVE  u.rows[q].status \notin Terminal
    BY <2>1, <2>2, <1>1, <1>5, <1>6 DEF Final, Seen
  <2>3. ASSUME NEW k \in DOMAIN new, NEW l \in DOMAIN new, NEW q \in Questions,
               k < l, Tells(new[k], q), Tells(new[l], q), Same(new, k, l)
        PROVE  new[k].type \notin Terminal
    BY <2>1, <2>3, <1>1, <1>5 DEF Final, Seen
  <2> QED
    BY <2>2, <2>3 DEF Final
<1> QED
  BY <1>12, <1>13, <1>14, <1>15 DEF Seen

-----------------------------------------------------------------------------
(* The screen when an event is received.                                   *)

\* What an event about a question makes of the rows.
StatusAfter(u, e, i) == IF i = e.q /\ e.type \in Statuses THEN e.type
                        ELSE IF i \in DOMAIN u.rows THEN u.rows[i].status ELSE "queued"
Updates(u, e, v) ==
  /\ v.task = u.task /\ v.pc = u.pc
  /\ v.rows \in Seq(RowRecords) /\ DOMAIN u.rows \subseteq DOMAIN v.rows /\ e.q \in DOMAIN v.rows
  /\ Len(v.rows) = IF e.q > Len(u.rows) THEN e.q ELSE Len(u.rows)
  /\ \A i \in DOMAIN v.rows : v.rows[i].status = StatusAfter(u, e, i)
Clears(u, e, v) == v.task = e.task /\ v.pc = u.pc /\ v.rows = <<>>

\* The rows counted are rows there are.
LEMMA RowsFinite ==
  ASSUME NEW r \in Seq(RowRecords), NEW S
  PROVE  IsFiniteSet(Rows(r, S)) /\ Cardinality(Rows(r, S)) \in Nat
<1>1. Len(r) \in Nat /\ DOMAIN r = 1 .. Len(r)
  OBVIOUS
<1>2. IsFiniteSet(1 .. Len(r))
  BY <1>1, FS_Interval
<1>3. Rows(r, S) \subseteq 1 .. Len(r)
  BY <1>1 DEF Rows
<1> QED
  BY <1>2, <1>3, FS_Subset, FS_CardinalityType

LEMMA ReduceUpdates ==
  ASSUME NEW u, ScreenOK(u), NEW e, EventOK(e), e.kind = "question"
  PROVE  Updates(u, e, Reduce(u, e)) /\ ScreenOK(Reduce(u, e))
<1>1. u.rows \in Seq(RowRecords) /\ e.q \in 1 .. MaxQuestions /\ e.type \in Statuses \cup ToolEvents
      /\ u \in ScreenRecords
  BY DEF ScreenOK, ScreenRecords, EventOK, Questions
<1>2. PICK n \in Nat : n = Len(u.rows)
  BY <1>1
<1>3. PICK q \in Nat \ {0} : q = e.q
  BY <1>1, ConstantsAssumption
<1>4. PICK m \in Nat : m = (IF q > n THEN q ELSE n)
  BY <1>2, <1>3
<1> DEFINE g == EnsureRow(u.rows, e.q)
           rows == ApplyQuestionEvent(g, e)
<1>5. DOMAIN u.rows = 1 .. n /\ \A i \in 1 .. n : u.rows[i] \in RowRecords
  BY <1>1, <1>2
<1>6. [status |-> "queued", tool |-> "none"] \in RowRecords
  BY DEF RowRecords, Statuses
<1>7. g = [i \in 1 .. m |-> IF i <= n THEN u.rows[i] ELSE [status |-> "queued", tool |-> "none"]]
  BY <1>2, <1>3, <1>4 DEF EnsureRow
<1>8. q \in 1 .. m /\ n <= m
  BY <1>3, <1>4
<1>9. \A i \in 1 .. m : i <= n <=> i \in 1 .. n
  BY <1>2, <1>4
<1>10. \A i \in 1 .. m : g[i] \in RowRecords
  <2>1. ASSUME NEW i \in 1 .. m
        PROVE  g[i] \in RowRecords
    <3>1. g[i] = IF i <= n THEN u.rows[i] ELSE [status |-> "queued", tool |-> "none"]
      BY <1>7
    <3> QED
      BY <3>1, <1>5, <1>6, <1>9
  <2> QED
    BY <2>1
<1>11. \A i \in 1 .. m : g[i].status = IF i \in DOMAIN u.rows THEN u.rows[i].status ELSE "queued"
  <2>1. ASSUME NEW i \in 1 .. m
        PROVE  g[i].status = IF i \in DOMAIN u.rows THEN u.rows[i].status ELSE "queued"
    <3>1. g[i] = IF i <= n THEN u.rows[i] ELSE [status |-> "queued", tool |-> "none"]
      BY <1>7
    <3> QED
      BY <3>1, <1>5, <1>9
  <2> QED
    BY <2>1
<1>12. DOMAIN g = 1 .. m
  BY <1>7
<1> DEFINE row == CASE e.type = "tool_start"  -> [g[q] EXCEPT !.tool = "running"]
                    [] e.type = "tool_finish" -> [g[q] EXCEPT !.tool = "done"]
                    [] OTHER                  -> [g[q] EXCEPT !.status = e.type]
<1>13. rows = [g EXCEPT ![q] = row]
  BY <1>3 DEF ApplyQuestionEvent
<1> HIDE DEF g
<1>14. g[q] \in RowRecords
  BY <1>8, <1>10
<1>15. row \in RowRecords /\ row.status = IF e.type \in Statuses THEN e.type ELSE g[q].status
  <2>1. CASE e.type = "tool_start"
    <3>1. row = [g[q] EXCEPT !.tool = "running"] /\ e.type \notin Statuses
      BY <2>1 DEF Statuses, Waiting, Terminal, Outcomes
    <3> QED
      BY <3>1, <1>14 DEF RowRecords
  <2>2. CASE e.type = "tool_finish"
    <3>1. row = [g[q] EXCEPT !.tool = "done"] /\ e.type \notin Statuses
      BY <2>2 DEF Statuses, Waiting, Terminal, Outcomes
    <3> QED
      BY <3>1, <1>14 DEF RowRecords
  <2>3. CASE e.type \notin ToolEvents
    <3>1. row = [g[q] EXCEPT !.status = e.type] /\ e.type \in Statuses
      BY <2>3, <1>1 DEF ToolEvents
    <3> QED
      BY <3>1, <1>14 DEF RowRecords
  <2> QED
    BY <2>1, <2>2, <2>3 DEF ToolEvents
<1> HIDE DEF row
<1>16. DOMAIN rows = 1 .. m /\ rows[q] = row /\ \A i \in 1 .. m : i # q => rows[i] = g[i]
  BY <1>8, <1>12, <1>13
<1> HIDE DEF rows
<1>17. \A i \in 1 .. m : rows[i] \in RowRecords
  BY <1>10, <1>15, <1>16
<1>18. rows \in Seq(RowRecords) /\ Len(rows) = m
  <2>1. rows = [i \in 1 .. m |-> rows[i]]
    BY <1>13, <1>12, <1>16
  <2>2. rows \in [1 .. m -> RowRecords]
    BY <2>1, <1>17
  <2> QED
    BY <2>2, <1>4
<1>19. \A i \in DOMAIN rows : rows[i].status = StatusAfter(u, e, i)
  BY <1>3, <1>8, <1>11, <1>15, <1>16 DEF StatusAfter
<1>20. Reduce(u, e) = [u EXCEPT !.rows = rows, !.counts = Recount(rows)]
  BY DEF Reduce, rows, g
<1> DEFINE v == Reduce(u, e)
<1>21. v.task = u.task /\ v.pc = u.pc /\ v.rows = rows /\ v.counts = Recount(rows)
  BY <1>1, <1>20 DEF ScreenRecords
<1>22. Recount(rows) = [open |-> Cardinality(Rows(rows, Statuses \ Terminal)),
                        done |-> Cardinality(Rows(rows, Terminal)),
                        correct |-> Cardinality(Rows(rows, {"correct"}))]
  BY DEF Recount, Rows
<1>23. \A S : Cardinality(Rows(rows, S)) \in Nat
  BY <1>18, RowsFinite
<1>24. Recount(rows) \in [Counts -> Nat]
  <2>1. PICK a, b, c \in Nat : a = Cardinality(Rows(rows, Statuses \ Terminal))
                 /\ b = Cardinality(Rows(rows, Terminal)) /\ c = Cardinality(Rows(rows, {"correct"}))
    BY <1>23
  <2>2. Recount(rows) = [open |-> a, done |-> b, correct |-> c]
    BY <2>1, <1>22
  <2>3. [open |-> a, done |-> b, correct |-> c] \in [Counts -> Nat]
    BY DEF Counts
  <2> QED
    BY <2>2, <2>3
<1>25. v \in ScreenRecords
  <2>1. v = [pc |-> u.pc, task |-> u.task, rows |-> rows, counts |-> Recount(rows)]
    BY <1>1, <1>20 DEF ScreenRecords
  <2> QED
    BY <2>1, <1>1, <1>18, <1>24 DEF ScreenRecords
<1>26. v.counts.open = Cardinality(Rows(v.rows, Statuses \ Terminal))
       /\ v.counts.correct = Cardinality(Rows(v.rows, {"correct"}))
  BY <1>21, <1>22
<1>27. Len(v.rows) = (IF e.q > Len(u.rows) THEN e.q ELSE Len(u.rows))
       /\ DOMAIN u.rows \subseteq DOMAIN v.rows /\ e.q \in DOMAIN v.rows
  BY <1>2, <1>3, <1>4, <1>5, <1>8, <1>16, <1>18, <1>21
<1> HIDE DEF v
<1>28. Updates(u, e, v)
  BY <1>18, <1>19, <1>21, <1>27 DEF Updates
<1> QED
  BY <1>25, <1>26, <1>28 DEF ScreenOK, v

LEMMA StartClears ==
  ASSUME NEW u, ScreenOK(u), NEW e, EventOK(e), Starts(e)
  PROVE  Clears(u, e, ApplyEvent(u, e)) /\ ScreenOK(ApplyEvent(u, e))
<1> DEFINE zero == [c \in Counts |-> 0]
           v == ApplyEvent(u, e)
<1>1. v = [u EXCEPT !.task = e.task, !.rows = <<>>, !.counts = zero]
  BY DEF Starts, ApplyEvent
<1>2. u \in ScreenRecords
  BY DEF ScreenOK
<1>3. v = [pc |-> u.pc, task |-> e.task, rows |-> <<>>, counts |-> zero]
  BY <1>1, <1>2 DEF ScreenRecords
<1>4. zero \in [Counts -> Nat] /\ zero.correct = 0 /\ zero.open = 0
  BY DEF Counts
<1>5. <<>> \in Seq(RowRecords)
  OBVIOUS
<1>6. e.task \in TaskIds
  BY DEF EventOK, Starts
<1> HIDE DEF zero, v
<1>7. v \in ScreenRecords
  BY <1>2, <1>3, <1>4, <1>5, <1>6 DEF ScreenRecords
<1>8. \A S : Rows(v.rows, S) = {}
  BY <1>3 DEF Rows
<1>9. ScreenOK(v)
  BY <1>3, <1>4, <1>7, <1>8, FS_EmptySet DEF ScreenOK
<1> QED
  BY <1>3, <1>9 DEF Clears, v

\* The screen does not show any event but starts of tasks and those of questions.
LEMMA OtherIgnored ==
  ASSUME NEW u, NEW e, e.kind \notin {"question", "task_start"}
  PROVE  ApplyEvent(u, e) = u
BY DEF ApplyEvent

LEMMA StartSeen ==
  ASSUME NEW evs, EvsOK(evs), evs # <<>>, NEW u, NEW v, NEW id, NEW old, NEW width \in Nat, NEW found,
         Starts(evs[1]), Clears(u, evs[1], v), Seen(evs, u, id, old, width, found)
  PROVE  Seen(Tail(evs), v, id, old, width, found)
<1> DEFINE new == Tail(evs)
           e == evs[1]
<1>1. Shrunk(evs, new) /\ 1 \in DOMAIN evs /\ EventOK(e)
  BY TailShrinks
<1>2. PICK n \in Nat \ {0} : n = Len(evs)
  BY <1>1 DEF Shrunk
<1>3. DOMAIN evs = 1 .. n /\ DOMAIN new = 1 .. n - 1
      /\ \A k \in DOMAIN new : new[k] = evs[k + 1] /\ k + 1 \in DOMAIN evs
  BY <1>1, <1>2 DEF Shrunk
<1>4. /\ \A k, l \in DOMAIN new : Same(new, k, l) <=> Same(evs, k + 1, l + 1)
      /\ \A k \in 1 .. n : Fresh(new, k) <=> Fresh(evs, k + 1)
      /\ ~Fresh(evs, 1)
      /\ Fresh(new, 1) <=> Fresh(evs, 2)
  BY <1>1, <1>2, SameShrunk
<1>5. \A k \in DOMAIN new : k \in 1 .. n /\ k + 1 \in 1 .. n /\ 1 < k + 1
  BY <1>2, <1>3
<1>6. e.task \in TaskIds /\ None \notin TaskIds /\ v.task = e.task /\ v.rows = <<>>
  BY <1>1, InputsAssumption DEF EventOK, Starts, Clears
<1> HIDE DEF new
<1>7. Follows(new, v, id, old)
  <2>1. Fresh(new, 1) => v.task = id
    BY <1>1, <1>4, <1>6 DEF Seen, Follows
  <2>2. \A k \in DOMAIN new : Starts(new[k]) /\ Fresh(new, k + 1) => new[k].task = id
    BY <1>3, <1>4, <1>5 DEF Seen, Follows
  <2>3. \A k \in DOMAIN new : Starts(new[k]) => new[k].task \in old \cup {id} /\ new[k].task # v.task
    BY <1>1, <1>3, <1>5, <1>6 DEF Seen, Follows
  <2>4. v.task \in old \cup {id, None} /\ v.task # None
    BY <1>1, <1>6 DEF Seen, Follows
  <2>5. ASSUME NEW k \in DOMAIN new, NEW l \in DOMAIN new, k < l, Starts(new[k]), Starts(new[l])
        PROVE  new[k].task # new[l].task
    <3>1. k + 1 < l + 1 /\ k + 1 \in DOMAIN evs /\ l + 1 \in DOMAIN evs
      BY <2>5, <1>3
    <3> QED
      BY <3>1, <2>5, <1>3 DEF Seen, Follows
  <2> QED
    BY <2>1, <2>2, <2>3, <2>4, <2>5 DEF Follows
<1>8. Wide(new, v, width)
  BY <1>3, <1>4, <1>5, <1>6 DEF Seen, Wide
<1>9. \A q, o : Shows(new, v, q, o) <=> Shows(evs, u, q, o)
  <2>1. ASSUME NEW q, NEW o, Shows(new, v, q, o)
        PROVE  Shows(evs, u, q, o)
    BY <2>1, <1>3, <1>4, <1>5, <1>6 DEF Shows
  <2>2. ASSUME NEW q, NEW o, Shows(evs, u, q, o)
        PROVE  Shows(new, v, q, o)
    <3>1. PICK k \in DOMAIN evs : Tells(evs[k], q) /\ evs[k].type = o /\ Fresh(evs, k)
      BY <2>2, <1>4 DEF Shows
    <3>2. k # 1
      BY <3>1 DEF Tells, Starts
    <3>3. k - 1 \in DOMAIN new /\ (k - 1) + 1 = k
      BY <3>1, <3>2, <1>2, <1>3
    <3>4. new[k - 1] = evs[k] /\ Fresh(new, k - 1)
      BY <3>1, <3>3, <1>3, <1>4, <1>5
    <3> QED
      BY <3>1, <3>3, <3>4 DEF Shows
  <2> QED
    BY <2>1, <2>2
<1>10. Told(new, v, found)
  BY <1>9 DEF Seen, Told
<1>11. Final(new, v)
  <2>1. ASSUME NEW k \in DOMAIN new, NEW l \in DOMAIN new, NEW q \in Questions,
               k < l, Tells(new[k], q), Tells(new[l], q), Same(new, k, l)
        PROVE  new[k].type \notin Terminal
    <3>1. k + 1 < l + 1 /\ k + 1 \in DOMAIN evs /\ l + 1 \in DOMAIN evs
      BY <2>1, <1>3
    <3>2. Same(evs, k + 1, l + 1) /\ new[k] = evs[k + 1] /\ new[l] = evs[l + 1]
      BY <2>1, <1>3, <1>4
    <3> QED
      BY <3>1, <3>2, <2>1 DEF Seen, Final
  <2> QED
    BY <2>1, <1>6 DEF Final
<1> QED
  BY <1>7, <1>8, <1>10, <1>11 DEF Seen, new

LEMMA QuestionSeen ==
  ASSUME NEW evs, EvsOK(evs), evs # <<>>, NEW u, u.rows \in Seq(RowRecords), NEW v, NEW id, NEW old,
         NEW width \in Nat, NEW found \in [Questions -> Outcomes \cup {None}],
         evs[1].kind = "question", Updates(u, evs[1], v), Seen(evs, u, id, old, width, found)
  PROVE  Seen(Tail(evs), v, id, old, width, found)
<1> DEFINE new == Tail(evs)
           e == evs[1]
<1>1. Shrunk(evs, new) /\ 1 \in DOMAIN evs /\ EventOK(e)
  BY TailShrinks
<1>2. PICK n \in Nat \ {0} : n = Len(evs)
  BY <1>1 DEF Shrunk
<1>3. DOMAIN evs = 1 .. n /\ DOMAIN new = 1 .. n - 1
      /\ \A k \in DOMAIN new : new[k] = evs[k + 1] /\ k + 1 \in DOMAIN evs
  BY <1>1, <1>2 DEF Shrunk
<1>4. ~Starts(e)
  BY DEF Starts
<1>5. /\ \A k, l \in DOMAIN new : Same(new, k, l) <=> Same(evs, k + 1, l + 1)
      /\ \A k \in 1 .. n : Fresh(new, k) <=> Fresh(evs, k + 1)
      /\ \A k \in DOMAIN evs : Same(evs, 1, k) <=> Same(evs, 2, k)
      /\ Fresh(new, 1) <=> Fresh(evs, 1)
  BY <1>1, <1>2, <1>4, SameShrunk
<1>6. \A k \in DOMAIN new : k \in 1 .. n /\ k + 1 \in 1 .. n /\ 1 < k + 1 /\ 1 \in DOMAIN new
  BY <1>2, <1>3
<1>7. Same(evs, 1, 1)
  BY <1>3, <1>4 DEF Same
<1>8. u.task # None /\ v.task = u.task
  BY <1>1, <1>7 DEF Updates, Seen, Follows
<1>9. Len(u.rows) \in Nat /\ DOMAIN u.rows = 1 .. Len(u.rows) /\ e.q \in Questions /\ e.q \in Nat
  BY <1>1, ConstantsAssumption DEF EventOK, Questions
<1>10. \A i \in DOMAIN v.rows : v.rows[i].status = StatusAfter(u, e, i)
  BY DEF Updates
<1>11. \A k \in DOMAIN new : Same(new, 1, k) <=> Same(evs, 1, k + 1)
  <2>1. \A k \in DOMAIN new : 1 \in DOMAIN new /\ 1 + 1 = 2 /\ k + 1 \in DOMAIN evs
    BY <1>3, <1>6
  <2>2. ASSUME NEW k \in DOMAIN new
        PROVE  Same(new, 1, k) <=> Same(evs, 1, k + 1)
    <3>1. Same(new, 1, k) <=> Same(evs, 1 + 1, k + 1)
      BY <2>1, <1>5
    <3> QED
      BY <3>1, <2>1, <1>5
  <2> QED
    BY <2>2
<1> HIDE DEF new
<1>12. Follows(new, v, id, old)
  <2>1. Fresh(new, 1) => v.task = id
    BY <1>5, <1>8 DEF Seen, Follows
  <2>2. \A k \in DOMAIN new : Starts(new[k]) /\ Fresh(new, k + 1) => new[k].task = id
    BY <1>3, <1>5, <1>6 DEF Seen, Follows
  <2>3. \A k \in DOMAIN new : Starts(new[k]) => new[k].task \in old \cup {id} /\ new[k].task # v.task
    BY <1>3, <1>8 DEF Seen, Follows
  <2>4. v.task \in old \cup {id, None} /\ v.task # None
    BY <1>8 DEF Seen, Follows
  <2>5. ASSUME NEW k \in DOMAIN new, NEW l \in DOMAIN new, k < l, Starts(new[k]), Starts(new[l])
        PROVE  new[k].task # new[l].task
    <3>1. k + 1 < l + 1 /\ k + 1 \in DOMAIN evs /\ l + 1 \in DOMAIN evs
      BY <2>5, <1>3
    <3> QED
      BY <3>1, <2>5, <1>3 DEF Seen, Follows
  <2> QED
    BY <2>1, <2>2, <2>3, <2>4, <2>5 DEF Follows
<1>13. Wide(new, v, width)
  <2>1. ASSUME NEW k \in DOMAIN new, new[k].kind = "question", Fresh(new, k)
        PROVE  new[k].q <= width
    BY <2>1, <1>3, <1>5, <1>6 DEF Seen, Wide
  <2>2. ASSUME Fresh(new, 1)
        PROVE  Len(v.rows) <= width
    <3>1. Len(u.rows) <= width /\ e.q <= width
      BY <2>2, <1>1, <1>5 DEF Seen, Wide
    <3> QED
      BY <3>1, <1>9 DEF Updates
  <2> QED
    BY <2>1, <2>2 DEF Wide
<1>14. ASSUME NEW q \in DOMAIN v.rows, v.rows[q].status \in Terminal
       PROVE  \/ Tells(e, q) /\ e.type = v.rows[q].status
              \/ q \in DOMAIN u.rows /\ u.rows[q].status = v.rows[q].status
  <2>1. "queued" \notin Terminal
    BY DEF Terminal, Outcomes
  <2> QED
    BY <2>1, <1>10, <1>14 DEF StatusAfter, Tells
<1>15. ASSUME NEW q \in Questions, NEW o \in Terminal, Shows(new, v, q, o)
       PROVE  Shows(evs, u, q, o)
  <2>1. CASE Fresh(new, 1) /\ q \in DOMAIN v.rows /\ v.rows[q].status = o
    BY <2>1, <1>1, <1>5, <1>14 DEF Shows
  <2>2. CASE \E k \in DOMAIN new : Tells(new[k], q) /\ new[k].type = o /\ Fresh(new, k)
    BY <2>2, <1>3, <1>5, <1>6 DEF Shows
  <2> QED
    BY <2>1, <2>2, <1>15 DEF Shows
<1>16. ASSUME NEW q \in Questions, NEW o \in Terminal, Shows(evs, u, q, o)
       PROVE  Shows(new, v, q, o)
  <2>1. CASE Fresh(evs, 1) /\ q \in DOMAIN u.rows /\ u.rows[q].status = o
    <3>1. ~Tells(e, q)
      BY <2>1, <1>1, <1>7 DEF Seen, Final
    <3>2. q \in DOMAIN v.rows /\ StatusAfter(u, e, q) = o
      BY <2>1, <3>1 DEF Updates, StatusAfter, Tells
    <3> QED
      BY <2>1, <3>2, <1>5, <1>10 DEF Shows
  <2>2. ASSUME NEW k \in DOMAIN evs, Tells(evs[k], q), evs[k].type = o, Fresh(evs, k)
        PROVE  Shows(new, v, q, o)
    <3>1. CASE k = 1
      <4>1. q = e.q /\ e.type \in Statuses /\ e.type = o
        BY <2>2, <3>1 DEF Tells
      <4>2. q \in DOMAIN v.rows /\ StatusAfter(u, e, q) = o
        BY <4>1 DEF Updates, StatusAfter
      <4> QED
        BY <4>2, <2>2, <3>1, <1>5, <1>10 DEF Shows
    <3>2. CASE k # 1
      <4>1. k - 1 \in DOMAIN new /\ (k - 1) + 1 = k
        BY <2>2, <3>2, <1>2, <1>3
      <4>2. new[k - 1] = evs[k] /\ Fresh(new, k - 1)
        BY <2>2, <4>1, <1>3, <1>5, <1>6
      <4> QED
        BY <4>1, <4>2, <2>2 DEF Shows
    <3> QED
      BY <3>1, <3>2
  <2> QED
    BY <2>1, <2>2, <1>16 DEF Shows
<1>17. Told(new, v, found)
  <2>1. \A q \in Questions : found[q] # None => found[q] \in Terminal
    BY DEF Terminal
  <2> QED
    BY <2>1, <1>15, <1>16 DEF Seen, Told
<1>18. Final(new, v)
  <2>1. ASSUME NEW l \in DOMAIN new, NEW q \in DOMAIN v.rows, Tells(new[l], q), Same(new, 1, l),
               v.rows[q].status \in Terminal
        PROVE  FALSE
    <3>1. new[l] = evs[l + 1] /\ l + 1 \in DOMAIN evs /\ Same(evs, 1, l + 1) /\ 1 < l + 1
      BY <2>1, <1>3, <1>6, <1>11
    <3>2. q \in Questions
      <4>1. EventOK(evs[l + 1])
        BY <3>1 DEF EvsOK
      <4> QED
        BY <2>1, <3>1, <4>1 DEF Tells, EventOK
    <3> QED
      BY <2>1, <3>1, <3>2, <1>1, <1>14 DEF Seen, Final
  <2>2. ASSUME NEW k \in DOMAIN new, NEW l \in DOMAIN new, NEW q \in Questions,
               k < l, Tells(new[k], q), Tells(new[l], q), Same(new, k, l)
        PROVE  new[k].type \notin Terminal
    <3>1. k + 1 < l + 1 /\ k + 1 \in DOMAIN evs /\ l + 1 \in DOMAIN evs
      BY <2>2, <1>3
    <3>2. Same(evs, k + 1, l + 1) /\ new[k] = evs[k + 1] /\ new[l] = evs[l + 1]
      BY <2>2, <1>3, <1>5
    <3> QED
      BY <3>1, <3>2, <2>2 DEF Seen, Final
  <2> QED
    BY <2>1, <2>2 DEF Final
<1> QED
  BY <1>12, <1>13, <1>17, <1>18 DEF Seen, new

LEMMA OtherSeen ==
  ASSUME NEW evs, EvsOK(evs), evs # <<>>, NEW u, NEW id, NEW old, NEW width, NEW found,
         evs[1].kind \notin {"question", "task_start"}, Seen(evs, u, id, old, width, found)
  PROVE  Seen(Tail(evs), u, id, old, width, found)
<1> DEFINE new == Tail(evs)
<1>1. Shrunk(evs, new) /\ 1 \in DOMAIN evs
  BY TailShrinks
<1>2. PICK n \in Nat \ {0} : n = Len(evs)
  BY <1>1 DEF Shrunk
<1>3. DOMAIN evs = 1 .. n /\ DOMAIN new = 1 .. n - 1
      /\ \A k \in DOMAIN new : new[k] = evs[k + 1] /\ k + 1 \in DOMAIN evs
  BY <1>1, <1>2 DEF Shrunk
<1>4. ~Starts(evs[1]) /\ \A q : ~Tells(evs[1], q)
  BY DEF Starts, Tells
<1>5. /\ \A k, l \in DOMAIN new : Same(new, k, l) <=> Same(evs, k + 1, l + 1)
      /\ \A k \in 1 .. n : Fresh(new, k) <=> Fresh(evs, k + 1)
      /\ \A k \in DOMAIN evs : Same(evs, 1, k) <=> Same(evs, 2, k)
      /\ Fresh(new, 1) <=> Fresh(evs, 1)
  BY <1>1, <1>2, <1>4, SameShrunk
<1>6. \A k \in DOMAIN new : k \in 1 .. n /\ k + 1 \in 1 .. n /\ 1 < k + 1 /\ 1 \in DOMAIN new
  BY <1>2, <1>3
<1>7. \A k \in DOMAIN new : Same(new, 1, k) <=> Same(evs, 1, k + 1)
  <2>1. \A k \in DOMAIN new : 1 \in DOMAIN new /\ 1 + 1 = 2 /\ k + 1 \in DOMAIN evs
    BY <1>3, <1>6
  <2>2. ASSUME NEW k \in DOMAIN new
        PROVE  Same(new, 1, k) <=> Same(evs, 1, k + 1)
    <3>1. Same(new, 1, k) <=> Same(evs, 1 + 1, k + 1)
      BY <2>1, <1>5
    <3> QED
      BY <3>1, <2>1, <1>5
  <2> QED
    BY <2>2
<1>8. \A k, l \in DOMAIN new : k < l => k + 1 < l + 1
  BY <1>3
<1> HIDE DEF new
<1>9. Follows(new, u, id, old)
  BY <1>3, <1>5, <1>6, <1>7, <1>8 DEF Seen, Follows
<1>10. Wide(new, u, width)
  BY <1>3, <1>5, <1>6 DEF Seen, Wide
<1>11. ASSUME NEW q, NEW o
       PROVE  Shows(new, u, q, o) <=> Shows(evs, u, q, o)
  <2>1. ASSUME NEW k \in DOMAIN evs, Tells(evs[k], q), evs[k].type = o, Fresh(evs, k)
        PROVE  Shows(new, u, q, o)
    <3>1. k # 1
      BY <2>1, <1>4
    <3>2. k - 1 \in DOMAIN new /\ (k - 1) + 1 = k
      BY <2>1, <3>1, <1>2, <1>3
    <3>3. new[k - 1] = evs[k] /\ Fresh(new, k - 1)
      BY <2>1, <3>2, <1>3, <1>5, <1>6
    <3> QED
      BY <3>2, <3>3, <2>1 DEF Shows
  <2>2. ASSUME NEW k \in DOMAIN new, Tells(new[k], q), new[k].type = o, Fresh(new, k)
        PROVE  Shows(evs, u, q, o)
    BY <2>2, <1>3, <1>5, <1>6 DEF Shows
  <2> QED
    BY <2>1, <2>2, <1>5 DEF Shows
<1>12. Told(new, u, found)
  BY <1>11 DEF Seen, Told
<1>13. Final(new, u)
  <2>1. ASSUME NEW l \in DOMAIN new, NEW q \in DOMAIN u.rows, Tells(new[l], q), Same(new, 1, l)
        PROVE  u.rows[q].status \notin Terminal
    BY <2>1, <1>3, <1>7 DEF Seen, Final
  <2>2. ASSUME NEW k \in DOMAIN new, NEW l \in DOMAIN new, NEW q \in Questions,
               k < l, Tells(new[k], q), Tells(new[l], q), Same(new, k, l)
        PROVE  new[k].type \notin Terminal
    BY <2>2, <1>3, <1>5, <1>8 DEF Seen, Final
  <2> QED
    BY <2>1, <2>2 DEF Final
<1> QED
  BY <1>9, <1>10, <1>12, <1>13 DEF Seen, new

-----------------------------------------------------------------------------
(* Planning.                                                               *)

\* The user asked for the task t.
Wanted(picks, t) == picks = <<>> \/ \E i \in DOMAIN picks : picks[i].task = t

\* o are the tasks asked for, in the order of the configuration: its k-th is e[k] there.
Ordered(picks, o, e) ==
  /\ o \in Seq(TaskConfigs(Agents \cup {NoAgent}))
  /\ e \in [1 .. Len(o) -> DOMAIN Tasks]
  /\ \A k, l \in 1 .. Len(o) : k < l => e[k] < e[l]
  /\ \A k \in 1 .. Len(o) : o[k] = Tasks[e[k]] /\ Wanted(picks, o[k].id)
  /\ \A i \in DOMAIN Tasks : Wanted(picks, Tasks[i].id) => \E k \in 1 .. Len(o) : e[k] = i

LEMMA OrderedIs ==
  ASSUME NEW picks
  PROVE  \E e : Ordered(picks, OrderedTasks(picks), e)
<1>1. Tasks \in Seq(TaskConfigs(Agents \cup {NoAgent}))
  BY ConstantsAssumption
<1>2. DOMAIN Tasks = 1 .. Len(Tasks) /\ Len(Tasks) \in Nat
  BY <1>1
<1>3. CASE picks = <<>>
  <2>1. OrderedTasks(picks) = Tasks
    BY <1>3 DEF OrderedTasks
  <2>2. Ordered(picks, Tasks, [k \in 1 .. Len(Tasks) |-> k])
    BY <1>1, <1>2, <1>3 DEF Ordered, Wanted
  <2> QED
    BY <2>1, <2>2
<1>4. CASE picks # <<>>
  <2> DEFINE I == {k \in DOMAIN Tasks : \E i \in DOMAIN picks : picks[i].task = Tasks[k].id}
             o == Pick(Tasks, I)
  <2>1. OrderedTasks(picks) = o
    BY <1>4 DEF OrderedTasks
  <2>2. o \in Seq(TaskConfigs(Agents \cup {NoAgent})) /\ \E e : Picks(Tasks, I, o, e)
    BY <1>1, PickIs
  <2>3. PICK e : Picks(Tasks, I, o, e)
    BY <2>2
  <2>4. \A k \in DOMAIN Tasks : k \in I <=> Wanted(picks, Tasks[k].id)
    BY <1>4 DEF Wanted
  <2> HIDE DEF I, o
  <2>5. /\ e \in [1 .. Len(o) -> DOMAIN Tasks]
        /\ \A k, l \in 1 .. Len(o) : k < l => e[k] < e[l]
    BY <2>3 DEF Picks
  <2>6. \A k \in 1 .. Len(o) : o[k] = Tasks[e[k]] /\ e[k] \in I
    BY <2>3 DEF Picks
  <2>7. \A i \in DOMAIN Tasks : i \in I => \E k \in 1 .. Len(o) : e[k] = i
    BY <2>3 DEF Picks
  <2>8. \A k \in 1 .. Len(o) : Wanted(picks, o[k].id)
    BY <2>4, <2>5, <2>6
  <2>9. Ordered(picks, o, e)
    BY <2>2, <2>4, <2>5, <2>6, <2>7, <2>8 DEF Ordered
  <2> QED
    BY <2>1, <2>9
<1> QED
  BY <1>3, <1>4

LEMMA FitsIn ==
  ASSUME NEW n \in Nat, NEW m \in Nat, NEW f \in [1 .. n -> 1 .. m],
         \A k, l \in 1 .. n : k < l => f[k] < f[l]
  PROVE  n <= m
<1>1. IsFiniteSet(1 .. m) /\ Cardinality(1 .. m) = m /\ Cardinality(1 .. n) = n
  BY FS_Interval
<1>2. \A k \in 1 .. n : f[k] \in Nat
  OBVIOUS
<1>3. \A k, l \in 1 .. n : f[k] = f[l] => k = l
  <2> SUFFICES ASSUME NEW k \in 1 .. n, NEW l \in 1 .. n, f[k] = f[l], k # l
               PROVE  FALSE
    OBVIOUS
  <2>1. k < l \/ l < k
    OBVIOUS
  <2> QED
    BY <2>1, <1>2
<1>4. f \in Injection(1 .. n, 1 .. m)
  BY <1>3 DEF Injection, IsInjective
<1> QED
  BY <1>1, <1>4, FS_Injection

\* The plan of a selection: its tasks, and for each the agent.
Plans(sel, p, e) ==
  /\ p \in Seq(TaskConfigs(Agents)) /\ Len(p) <= Len(Tasks)
  /\ e \in [1 .. Len(p) -> DOMAIN Tasks]
  /\ \A k, l \in 1 .. Len(p) : k < l => e[k] < e[l]
  /\ \A k \in 1 .. Len(p) : /\ p[k].id = Tasks[e[k]].id /\ Wanted(sel.picks, p[k].id)
                            /\ p[k].questions = Tasks[e[k]].questions
                            /\ p[k].agent = SelectedAgent(sel, Tasks[e[k]])
  /\ \A i \in DOMAIN Tasks : Wanted(sel.picks, Tasks[i].id) => \E k \in 1 .. Len(p) : e[k] = i

LEMMA PlanIs ==
  ASSUME NEW sel, Runnable(PlanTaskRuns(sel))
  PROVE  \E e : Plans(sel, PlanTaskRuns(sel), e)
<1> DEFINE o == OrderedTasks(sel.picks)
           p == PlanTaskRuns(sel)
<1>1. PICK e : Ordered(sel.picks, o, e)
  BY OrderedIs
<1>2. p = [i \in DOMAIN o |-> [o[i] EXCEPT !.agent = SelectedAgent(sel, o[i])]]
  BY DEF PlanTaskRuns
<1> HIDE DEF o, p
<1>3. o \in Seq(TaskConfigs(Agents \cup {NoAgent}))
  BY <1>1 DEF Ordered
<1>4. PICK n \in Nat : n = Len(o)
  BY <1>3
<1>5. DOMAIN o = 1 .. n /\ DOMAIN p = 1 .. n /\ \A i \in 1 .. n : o[i] \in TaskConfigs(Agents \cup {NoAgent})
  BY <1>2, <1>3, <1>4
<1>6. ASSUME NEW i \in 1 .. n
      PROVE  /\ p[i] \in TaskConfigs(Agents) /\ p[i].id = o[i].id /\ p[i].agent = SelectedAgent(sel, o[i])
             /\ p[i].questions = o[i].questions
  <2>1. p[i] = [o[i] EXCEPT !.agent = SelectedAgent(sel, o[i])]
    BY <1>2, <1>5
  <2>2. p[i].agent \in Agents
    BY <1>5 DEF Runnable, p
  <2>3. o[i] \in TaskConfigs(Agents \cup {NoAgent})
    BY <1>5
  <2>4. p[i] = [id |-> o[i].id, agent |-> SelectedAgent(sel, o[i]), questions |-> o[i].questions,
                workers |-> o[i].workers]
    BY <2>1, <2>3 DEF TaskConfigs
  <2> QED
    BY <2>2, <2>3, <2>4 DEF TaskConfigs
<1>7. p \in Seq(TaskConfigs(Agents)) /\ Len(p) = n
  <2>1. p \in [1 .. n -> TaskConfigs(Agents)]
    BY <1>2, <1>5, <1>6
  <2> QED
    BY <2>1
<1>8. n <= Len(Tasks)
  <2>1. PICK m \in Nat : m = Len(Tasks) /\ DOMAIN Tasks = 1 .. m
    BY ConstantsAssumption
  <2>2. e \in [1 .. n -> 1 .. m] /\ \A k, l \in 1 .. n : k < l => e[k] < e[l]
    BY <1>1, <1>4, <2>1 DEF Ordered
  <2> QED
    BY <2>1, <2>2, FitsIn
<1>9. Plans(sel, p, e)
  BY <1>1, <1>4, <1>6, <1>7, <1>8 DEF Plans, Ordered
<1> QED
  BY <1>9 DEF p

\* No task is planned twice.
LEMMA PlansApart ==
  ASSUME NEW sel, NEW p, NEW e, Plans(sel, p, e)
  PROVE  \A i, k \in 1 .. Len(p) : p[i].id = p[k].id => i = k
<1> SUFFICES ASSUME NEW i \in 1 .. Len(p), NEW k \in 1 .. Len(p), p[i].id = p[k].id, i # k
             PROVE  FALSE
  OBVIOUS
<1>1. Len(p) \in Nat /\ DOMAIN Tasks = 1 .. Len(Tasks)
  BY ConstantsAssumption DEF Plans
<1>2. e[i] \in DOMAIN Tasks /\ e[k] \in DOMAIN Tasks /\ Tasks[e[i]].id = Tasks[e[k]].id
  BY DEF Plans
<1>3. e[i] = e[k] /\ e[i] \in Nat
  BY <1>1, <1>2, ConstantsAssumption
<1>4. i < k \/ k < i
  BY <1>1
<1> QED
  BY <1>3, <1>4 DEF Plans

LEMMA PlanTyped ==
  ASSUME NEW sel, Runnable(PlanTaskRuns(sel)), plan = PlanTaskRuns(sel)
  PROVE  PlanOK
<1>1. PICK e : Plans(sel, plan, e)
  BY PlanIs
<1>2. DOMAIN plan = 1 .. Len(plan)
  BY <1>1 DEF Plans
<1>3. \A i, k \in 1 .. Len(plan) : plan[i].id = plan[k].id => i = k
  BY <1>1, PlansApart
<1> QED
  BY <1>1, <1>2, <1>3 DEF PlanOK, Plans

-----------------------------------------------------------------------------
(* What a step leaves as it was.                                           *)

LEMMA ElementOf ==
  ASSUME NEW S, NEW s \in Seq(S), NEW k \in DOMAIN s
  PROVE  s[k] \in S
OBVIOUS

LEMMA InJobIds ==
  ASSUME Control, NEW t \in 1 .. Len(plan), NEW q \in Questions
  PROVE  <<t, q>> \in JobIds
<1>1. Len(plan) <= Len(Tasks) /\ Len(plan) \in Nat
  BY DEF Control, PlanOK
<1>2. Len(Tasks) \in Nat /\ DOMAIN Tasks = 1 .. Len(Tasks)
  BY ConstantsAssumption
<1>3. t \in DOMAIN Tasks
  BY <1>1, <1>2
<1> QED
  BY <1>3 DEF JobIds

LEMMA ControlStays ==
  ASSUME Control, UNCHANGED <<main, plan, results, exit>>
  PROVE  Control'
BY DEF Control, PlanOK, Planned, Nothing, Ended, Task

\* A reported outcome stays reported.
Persist == \A j \in JobIds : \A o \in Outcomes : Reported(j, o) => Reported(j, o)'

LEMMA AnswersStay ==
  ASSUME Control, Answers, Persist, UNCHANGED <<main, plan, cur, resultCh>>
  PROVE  Answers'
<1>1. CurOK(cur)' /\ (resultCh \in Seq([q : Questions, outcome : Outcomes]) /\ Len(resultCh) <= MaxQuestions)'
  BY DEF Answers
<1>2. (main.pc \in {"load", "queue"} => cur = NoTask /\ resultCh = <<>>)'
  BY DEF Answers
<1>3. main.pc \in Asking \cup {"shutdown", "taskend"} => \A q \in Questions : <<main.task, q>> \in JobIds
  BY InJobIds DEF Control, Asking, Working
<1>4. (main.pc \in Asking => OnTheWay)'
  <2> SUFFICES ASSUME main.pc \in Asking, NEW k \in DOMAIN resultCh
               PROVE  Reported(<<main.task, resultCh[k].q>>, resultCh[k].outcome)'
    BY DEF Answers, OnTheWay
  <2>1. resultCh[k] \in [q : Questions, outcome : Outcomes]
    <3>1. resultCh \in Seq([q : Questions, outcome : Outcomes])
      BY DEF Answers
    <3> QED
      BY <3>1, ElementOf
  <2>2. <<main.task, resultCh[k].q>> \in JobIds /\ resultCh[k].outcome \in Outcomes
    BY <2>1, <1>3
  <2>3. Reported(<<main.task, resultCh[k].q>>, resultCh[k].outcome)
    BY DEF Answers, OnTheWay
  <2> QED
    BY <2>2, <2>3 DEF Persist, Reported
<1>5. (main.pc \in Asking \cup {"shutdown", "taskend"} =>
         \A q \in Questions : cur.results[q] # None => Reported(<<main.task, q>>, cur.results[q]))'
  <2> SUFFICES ASSUME main.pc \in Asking \cup {"shutdown", "taskend"}, NEW q \in Questions, cur.results[q] # None
               PROVE  Reported(<<main.task, q>>, cur.results[q])'
    OBVIOUS
  <2>1. Reported(<<main.task, q>>, cur.results[q])
    BY DEF Answers
  <2>2. cur.results[q] \in Outcomes
    BY DEF Answers, CurOK, CurRecords
  <2> QED
    BY <2>1, <2>2, <1>3 DEF Persist, Reported
<1>6. (main.pc \in Asking =>
         /\ Task.workers = 1 => cur.got = main.q - 1
         /\ Task.workers > 1 => IF main.pc = "collect" THEN main.q = Task.questions
                                ELSE cur.got = 0)'
  BY DEF Answers, Task
<1>7. (main.pc = "shutdown" => \A q \in 1 .. Task.questions : cur.results[q] # None)'
  BY DEF Answers, Task
<1> QED
  BY <1>1, <1>2, <1>4, <1>5, <1>6, <1>7 DEF Answers

LEMMA ResultStays ==
  ASSUME Control, NEW i \in 1 .. Len(plan), NEW r, ResultOf(i, r), Persist, UNCHANGED plan
  PROVE  ResultOf(i, r)'
<1>1. ASSUME NEW q \in Questions, r.outcomes[q] # None
      PROVE  Reported(<<i, q>>, r.outcomes[q])'
  <2>1. Reported(<<i, q>>, r.outcomes[q]) /\ r.outcomes[q] \in Outcomes
    BY <1>1 DEF ResultOf, ResultRecords
  <2>2. <<i, q>> \in JobIds
    BY InJobIds
  <2> QED
    BY <2>1, <2>2 DEF Persist
<1>2. r \in ResultRecords /\ Judged(r) /\ r.id = plan[i].id /\ r.agent = plan[i].agent
  BY DEF ResultOf
<1> QED
  BY <1>1, <1>2 DEF ResultOf

LEMMA RecordedStays ==
  ASSUME Control, Recorded, Persist, UNCHANGED <<plan, results>>
  PROVE  Recorded'
<1>1. Len(results) \in Nat /\ Len(plan) \in Nat /\ Len(results) <= Len(plan)
  BY DEF Recorded, Control, PlanOK
<1>2. ASSUME NEW i \in 1 .. Len(results)
      PROVE  ResultOf(i, results[i])'
  <2>1. i \in 1 .. Len(plan) /\ ResultOf(i, results[i])
    BY <1>1 DEF Recorded
  <2>2. PICK r : r = results[i]
    OBVIOUS
  <2>3. ResultOf(i, r)'
    BY <2>1, <2>2, ResultStays
  <2>4. r = results'[i]
    BY <2>2
  <2> QED
    BY <2>3, <2>4
<1> QED
  BY <1>2 DEF Recorded

LEMMA JobsPersist ==
  ASSUME UNCHANGED jobs
  PROVE  Persist
BY DEF Persist, Reported

\* Jobs that do not run, while the command moves on.
Calm == \A j \in JobIds : jobs[j].st \in {"none", "completing", "done"}
LEMMA JobsStay ==
  ASSUME JobsRun, UNCHANGED <<plan, jobs>>, Calm \/ (main'.task = main.task /\ main'.pc \in Asking),
         \A j \in JobIds : jobs[j].st # "none" =>
           j[1] < main'.task \/ (j[1] = main'.task /\ Reached(j[2])')
  PROVE  JobsRun'
BY DEF JobsRun, Calm, JobOK

-----------------------------------------------------------------------------
(* Sending.                                                                *)

\* What is known once e was sent.
Sent(e) ==
  /\ EvsOK(events)
  /\ dropped' = 0 /\ ui.pc # "died" => dropped = 0 /\ events' = Append(events, e)

LEMMA ChannelSent ==
  ASSUME Channel, NEW e, Send(e), EventOK(e), ~closed, UNCHANGED ui
  PROVE  Channel' /\ Sent(e)
<1>1. EvsOK(events) /\ Len(events) \in Nat /\ Len(events) <= EventCap /\ EventCap \in Nat
  BY ConstantsAssumption DEF Channel, EvsOK
<1>2. EvsOK(Append(events, e)) /\ Len(Append(events, e)) = Len(events) + 1
  BY <1>1, AppendGrows DEF Grown
<1>3. ui.pc \in {"wait", "died"}
  BY DEF Channel, ScreenOK, ScreenRecords
<1>4. panicked' = FALSE /\ closed' = closed
  BY DEF Send, Channel
<1>5. CASE ui.pc = "wait" /\ Len(events) < EventCap /\ events' = Append(events, e) /\ UNCHANGED dropped
  <2>1. EvsOK(events') /\ Len(events') <= EventCap
    BY <1>1, <1>2, <1>5
  <2> QED
    BY <1>1, <1>3, <1>4, <1>5, <2>1 DEF Channel, Sent, EvsOK, ScreenOK
<1>6. CASE dropped' = dropped + 1 /\ UNCHANGED events
  <2>1. dropped' \in Nat /\ dropped' # 0
    BY <1>6 DEF Channel
  <2> QED
    BY <1>1, <1>3, <1>4, <1>6, <2>1 DEF Channel, Sent, EvsOK, ScreenOK
<1>7. CASE ui.pc # "wait" /\ UNCHANGED <<events, dropped>>
  BY <1>1, <1>3, <1>4, <1>7 DEF Channel, Sent, EvsOK, ScreenOK
<1> QED
  BY <1>5, <1>6, <1>7 DEF Send

LEMMA ChannelStays ==
  ASSUME Channel, Silent, UNCHANGED ui, ~closed \/ main'.pc \in {"write"} \cup Ending
  PROVE  Channel'
BY DEF Channel, Silent, ScreenOK

\* The screen still has to show the same.
ViewStays == ShownId' = ShownId /\ OldIds' = OldIds /\ Width' = Width /\ Found' = Found

LEMMA ScreenStays ==
  ASSUME Screen, ViewStays, UNCHANGED <<events, ui, dropped>>
  PROVE  Screen'
BY DEF Screen, ViewStays

LEMMA ScreenOther ==
  ASSUME Screen, ViewStays, UNCHANGED ui, NEW e, Sent(e), EventOK(e), e.kind \notin {"question", "task_start"}
  PROVE  Screen'
<1> SUFFICES ASSUME dropped' = 0, ui.pc # "died"
             PROVE  Seen(events', ui, ShownId, OldIds, Width, Found)
  BY DEF Screen, ViewStays
<1>1. EvsOK(events) /\ dropped = 0 /\ events' = Append(events, e)
  BY DEF Sent
<1>2. Seen(events, ui, ShownId, OldIds, Width, Found)
  BY <1>1 DEF Screen
<1>3. Grown(events, e, Append(events, e))
  BY <1>1, AppendGrows
<1> QED
  BY <1>1, <1>2, <1>3, OtherSent

LEMMA ScreenQuestion ==
  ASSUME Screen, UNCHANGED ui, ShownId' = ShownId, OldIds' = OldIds, Width' = Width, ShownId # None,
         NEW e, Sent(e), EventOK(e), e.kind = "question", e.q <= Width, Finds(e, Found, Found')
  PROVE  Screen'
<1> SUFFICES ASSUME dropped' = 0, ui.pc # "died"
             PROVE  Seen(events', ui, ShownId, OldIds, Width, Found')
  BY DEF Screen
<1>1. EvsOK(events) /\ dropped = 0 /\ events' = Append(events, e)
  BY DEF Sent
<1>2. Seen(events, ui, ShownId, OldIds, Width, Found)
  BY <1>1 DEF Screen
<1>3. Grown(events, e, Append(events, e))
  BY <1>1, AppendGrows
<1> QED
  BY <1>1, <1>2, <1>3, QuestionSent

-----------------------------------------------------------------------------
(* Jobs.                                                                   *)

Running == {"queued", "reserving", "running", "tool", "parsing"}

\* A job that runs becomes b and tells the UI.
Sends(j, b, type) ==
  /\ jobs[j].st \in Running
  /\ JobOK(b) /\ b.st \notin {"none", "completing", "done"}
  /\ jobs' = [jobs EXCEPT ![j] = b]
  /\ type \in Statuses \cup ToolEvents
  /\ IF b.st = "judged" THEN type = b.outcome ELSE type \notin Terminal
  /\ EmitFor(j[1], j[2], type)
  /\ UNCHANGED <<main, plan, cur, results, resultCh, ui, exit>>

\* The kinds of waiting are the only denials a job meets.
LEMMA DenialsWait ==
  ASSUME Control, JobsRun, NEW j \in JobIds, jobs[j].st \in Running
  PROVE  Befalls(j).denials \subseteq Waiting
<1>1. j[1] = main.task /\ main.pc \in Asking /\ j[1] \in 1 .. Len(plan) /\ j[2] <= plan[j[1]].questions
  BY DEF JobsRun, Running
<1>2. PICK sel : Runnable(PlanTaskRuns(sel)) /\ plan = PlanTaskRuns(sel)
  BY <1>1 DEF Control, Planned, Asking, Working
<1>3. PICK e : Plans(sel, plan, e)
  BY <1>2, PlanIs
<1>4. plan[j[1]].id = Tasks[e[j[1]]].id /\ plan[j[1]].questions = Tasks[e[j[1]]].questions
      /\ e[j[1]] \in DOMAIN Tasks
  BY <1>1, <1>3 DEF Plans
<1>5. j[2] \in Nat /\ 1 <= j[2]
  BY ConstantsAssumption DEF JobIds, Questions
<1>6. Tasks[e[j[1]]].questions \in Nat
  <2>1. Tasks[e[j[1]]] \in TaskConfigs(Agents \cup {NoAgent})
    BY <1>4, ConstantsAssumption, ElementOf
  <2> QED
    BY <2>1, ConstantsAssumption DEF TaskConfigs
<1>7. j[2] \in 1 .. Tasks[e[j[1]]].questions
  BY <1>1, <1>4, <1>5, <1>6
<1>8. Script[<<Tasks[e[j[1]]].id, j[2]>>].denials \subseteq Waiting
  BY <1>4, <1>7, InputsAssumption
<1> QED
  BY <1>4, <1>8 DEF Befalls

LEMMA JobTyped ==
  ASSUME JobsRun, NEW j \in JobIds
  PROVE  JobOK(jobs[j]) /\ jobs[j] \in JobRecords /\ j \in DOMAIN jobs
BY DEF JobsRun, JobOK

\* A running job that only changes its state.
LEMMA StepSends ==
  ASSUME JobsRun, NEW j \in JobIds, NEW from \in Running, NEW to \in Running, Step(j, from, to),
         NEW type \in (Statuses \ Terminal) \cup ToolEvents, EmitFor(j[1], j[2], type), JobOnly, UNCHANGED resultCh
  PROVE  \E b, ty : Sends(j, b, ty)
<1> DEFINE b == [jobs[j] EXCEPT !.st = to]
<1>1. jobs[j] \in JobRecords /\ JobOK(jobs[j]) /\ jobs[j].st = from
  BY JobTyped DEF Step
<1>2. to \in JobStates /\ to \notin {"none", "judged", "completing", "done"} /\ to \notin Settled
  BY DEF Running, JobStates, Settled
<1>3. b \in JobRecords /\ b.st = to
  BY <1>1, <1>2 DEF JobRecords
<1>4. jobs' = [jobs EXCEPT ![j] = b]
  BY DEF Step
<1>5. JobOK(b)
  BY <1>2, <1>3 DEF JobOK
<1>6. type \notin Terminal
  BY DEF ToolEvents, Terminal, Outcomes
<1> HIDE DEF b
<1>7. Sends(j, b, type)
  BY <1>1, <1>2, <1>3, <1>4, <1>5, <1>6 DEF Sends, JobOnly
<1> QED
  BY <1>7

LEMMA AgainSends ==
  ASSUME Control, JobsRun, NEW j \in JobIds, ReserveAgain(j)
  PROVE  \E b, ty : Sends(j, b, ty)
<1> DEFINE a == [jobs[j] EXCEPT !.st = "queued"]
           b == [a EXCEPT !.retries = jobs[j].retries + 1]
<1>1. jobs[j] \in JobRecords /\ jobs[j].st = "reserving" /\ jobs[j].st \in Running
  BY JobTyped DEF ReserveAgain, Running
<1>2. PICK n \in Nat : n = jobs[j].retries
  BY <1>1 DEF JobRecords
<1>3. b = [st |-> "queued", retries |-> n + 1, tools |-> jobs[j].tools, outcome |-> jobs[j].outcome]
  <2>1. a = [st |-> "queued", retries |-> jobs[j].retries, tools |-> jobs[j].tools, outcome |-> jobs[j].outcome]
    BY <1>1 DEF JobRecords
  <2> HIDE DEF a
  <2> QED
    BY <1>2, <2>1
<1>4. b \in JobRecords
  BY <1>1, <1>3 DEF JobRecords, JobStates
<1>5. JobOK(b) /\ b.st = "queued"
  BY <1>3, <1>4 DEF JobOK, Settled
<1>6. jobs' = [jobs EXCEPT ![j] = b]
  BY DEF ReserveAgain
<1> HIDE DEF a
<1>7. PICK w \in Befalls(j).denials : EmitFor(j[1], j[2], w)
  BY DEF ReserveAgain
<1>8. w \in Waiting
  BY <1>1, <1>7, DenialsWait
<1>9. w \in Statuses /\ w \notin Terminal
  BY <1>8 DEF Statuses, Waiting, Terminal, Outcomes
<1> HIDE DEF b
<1>10. Sends(j, b, w)
  BY <1>1, <1>5, <1>6, <1>7, <1>9 DEF Sends, ReserveAgain, JobOnly
<1> QED
  BY <1>10

LEMMA ToolSends ==
  ASSUME JobsRun, NEW j \in JobIds, ToolStart(j)
  PROVE  \E b, ty : Sends(j, b, ty)
<1> DEFINE a == [jobs[j] EXCEPT !.st = "tool"]
           b == [a EXCEPT !.tools = jobs[j].tools + 1]
<1>1. jobs[j] \in JobRecords /\ jobs[j].st = "running" /\ jobs[j].st \in Running
  BY JobTyped DEF ToolStart, Running
<1>2. PICK n \in Nat : n = jobs[j].tools
  BY <1>1 DEF JobRecords
<1>3. b = [st |-> "tool", retries |-> jobs[j].retries, tools |-> n + 1, outcome |-> jobs[j].outcome]
  <2>1. a = [st |-> "tool", retries |-> jobs[j].retries, tools |-> jobs[j].tools, outcome |-> jobs[j].outcome]
    BY <1>1 DEF JobRecords
  <2> HIDE DEF a
  <2> QED
    BY <1>2, <2>1
<1>4. b \in JobRecords
  BY <1>1, <1>3 DEF JobRecords, JobStates
<1>5. JobOK(b) /\ b.st = "tool"
  BY <1>3, <1>4 DEF JobOK, Settled
<1>6. jobs' = [jobs EXCEPT ![j] = b] /\ EmitFor(j[1], j[2], "tool_start")
  BY DEF ToolStart
<1>7. "tool_start" \in ToolEvents /\ "tool_start" \notin Terminal
  BY DEF ToolEvents, Terminal, Outcomes
<1> HIDE DEF b
<1>8. Sends(j, b, "tool_start")
  BY <1>1, <1>5, <1>6, <1>7 DEF Sends, ToolStart, JobOnly
<1> QED
  BY <1>8

LEMMA JudgeSends ==
  ASSUME JobsRun, NEW j \in JobIds, NEW o \in Outcomes, Judge(j, o)
  PROVE  \E b, ty : Sends(j, b, ty)
<1> DEFINE a == [NoJob EXCEPT !.st = "judged"]
           b == [a EXCEPT !.outcome = o]
<1>1. jobs[j].st \in Running
  BY DEF Judge, Running
<1>2. b = [st |-> "judged", retries |-> 0, tools |-> 0, outcome |-> o]
  <2>1. a = [st |-> "judged", retries |-> 0, tools |-> 0, outcome |-> None]
    BY DEF NoJob
  <2> HIDE DEF a
  <2> QED
    BY <2>1
<1> HIDE DEF a, b
<1>3. b \in JobRecords
  BY <1>2 DEF JobRecords, JobStates
<1>4. JobOK(b) /\ b.st = "judged" /\ b.outcome = o
  BY <1>2, <1>3 DEF JobOK
<1>5. jobs' = [jobs EXCEPT ![j] = b] /\ EmitFor(j[1], j[2], o) /\ o \in Statuses
  BY DEF Judge, Statuses, Terminal, a, b
<1>6. Sends(j, b, o)
  BY <1>1, <1>4, <1>5 DEF Sends, Judge, JobOnly
<1> QED
  BY <1>6

\* Every step of a job that tells the UI something, but the last.
JobTells(j) == \/ ReserveStart(j) \/ ReserveAgain(j) \/ Execute(j) \/ ToolStart(j)
               \/ ToolFinish(j) \/ CallEnds(j) \/ (\E o \in Outcomes : Judge(j, o))

LEMMA TellsSends ==
  ASSUME Control, JobsRun, NEW j \in JobIds, JobTells(j)
  PROVE  \E b, ty : Sends(j, b, ty)
<1> USE DEF Running
<1>1. \A ty \in {"reserving", "running", "parsing", "tool_finish"} : ty \in (Statuses \ Terminal) \cup ToolEvents
  BY DEF Statuses, Terminal, Outcomes, ToolEvents
<1>2. CASE ReserveStart(j)
  BY <1>1, <1>2, StepSends DEF ReserveStart
<1>3. CASE Execute(j)
  BY <1>1, <1>3, StepSends DEF Execute
<1>4. CASE ToolFinish(j)
  BY <1>1, <1>4, StepSends DEF ToolFinish
<1>5. CASE CallEnds(j)
  BY <1>1, <1>5, StepSends DEF CallEnds
<1> QED
  BY <1>2, <1>3, <1>4, <1>5, AgainSends, ToolSends, JudgeSends DEF JobTells

\* The jobs after one of them moved.
LEMMA JobMoves ==
  ASSUME JobsRun, NEW j \in JobIds, NEW b, JobOK(b), b.st # "none", jobs[j].st # "none",
         jobs[j].st \in {"completing", "done"} => b.st \in {"completing", "done"},
         jobs[j].st \notin {"completing", "done"} \/ b.st \in {"completing", "done"},
         jobs' = [jobs EXCEPT ![j] = b], UNCHANGED <<main, plan>>
  PROVE  JobsRun'
<1>1. DOMAIN jobs' = JobIds /\ jobs'[j] = b /\ \A i \in JobIds : i # j => jobs'[i] = jobs[i]
  BY DEF JobsRun
<1>2. ASSUME NEW i \in JobIds
      PROVE  JobOK(jobs'[i])
  BY <1>1 DEF JobsRun
<1>3. ASSUME NEW i \in JobIds, jobs'[i].st \notin {"none", "completing", "done"}
      PROVE  i[1] = main.task /\ main.pc \in Asking
  BY <1>1, <1>3 DEF JobsRun
<1>4. ASSUME NEW i \in JobIds, jobs'[i].st # "none"
      PROVE  jobs[i].st # "none"
  BY <1>1, <1>4
<1>5. (\A i \in JobIds : jobs[i].st # "none" =>
         /\ i[1] \in 1 .. Len(plan) /\ i[2] <= plan[i[1]].questions
         /\ i[1] < main.task \/ (i[1] = main.task /\ Reached(i[2])))'
  BY <1>4 DEF JobsRun, Reached
<1>6. (\A i \in JobIds : JobOK(jobs[i]))'
  BY <1>2 DEF JobOK
<1> QED
  BY <1>1, <1>3, <1>5, <1>6 DEF JobsRun

LEMMA FoundTyped ==
  ASSUME NEW t, NEW js, t # 0 => \A q \in Questions : JobOK(js[<<t, q>>])
  PROVE  FoundIn(t, js) \in [Questions -> Outcomes \cup {None}]
<1>1. ASSUME NEW q \in Questions
      PROVE  FoundIn(t, js)[q] \in Outcomes \cup {None}
  BY DEF FoundIn, JobOK
<1>2. FoundIn(t, js) = [q \in Questions |-> FoundIn(t, js)[q]]
  BY DEF FoundIn
<1> QED
  BY <1>1, <1>2

\* The task under way.
LEMMA UnderWay ==
  ASSUME Control, main.pc \in Working
  PROVE  /\ main.task \in 1 .. Len(plan) /\ Task \in TaskConfigs(Agents) /\ Task = plan[main.task]
         /\ Shown = main.task /\ ShownId = Task.id /\ ShownId \in TaskIds /\ ShownId # None
         /\ Task.questions \in 0 .. MaxQuestions /\ main.task \in Nat \ {0}
<1>1. main.task \in 1 .. Len(plan) /\ plan \in Seq(TaskConfigs(Agents)) /\ main.task \in Nat
  BY DEF Control, PlanOK
<1>2. main.task # 0 /\ main.task \in DOMAIN plan
  BY <1>1
<1>3. Task \in TaskConfigs(Agents) /\ Task = plan[main.task]
  BY <1>1, <1>2, ElementOf DEF Task
<1>4. Task.id \in TaskIds /\ Task.questions \in 0 .. MaxQuestions
  BY <1>3 DEF TaskConfigs
<1>5. Shown = main.task /\ ShownId = Task.id
  BY <1>2, <1>3 DEF Shown, ShownId
<1> QED
  BY <1>1, <1>2, <1>3, <1>4, <1>5, InputsAssumption

LEMMA AskingWorks ==
  ASSUME main.pc \in Asking
  PROVE  main.pc \in Working /\ main.pc \notin {"write"} \cup Ending
BY DEF Asking, Working, Ending

\* The outcomes found when a job of the task under way becomes b.
LEMMA FoundMoves ==
  ASSUME NEW t, t # 0, NEW q \in Questions, NEW js, NEW now, NEW b,
         \A p \in Questions : JobOK(js[<<t, p>>]), JobOK(b),
         now[<<t, q>>] = b, \A p \in Questions : p # q => now[<<t, p>>] = js[<<t, p>>],
         js[<<t, q>>].st \notin Settled, NEW e, e.kind = "question", e.q = q, e.type \in Statuses \cup ToolEvents,
         IF b.st = "judged" THEN e.type = b.outcome ELSE e.type \notin Terminal /\ b.st \notin Settled
  PROVE  Finds(e, FoundIn(t, js), FoundIn(t, now))
<1> DEFINE F == FoundIn(t, js)
           G == FoundIn(t, now)
<1>1. F \in [Questions -> Outcomes \cup {None}]
  BY FoundTyped
<1>2. \A p \in Questions : JobOK(now[<<t, p>>])
  OBVIOUS
<1>3. G \in [Questions -> Outcomes \cup {None}]
  BY <1>2, FoundTyped
<1>4. \A p \in Questions : p # q => G[p] = F[p]
  BY DEF FoundIn
<1>5. F[q] = None
  BY DEF FoundIn
<1>6. b.st = "judged" => G[q] = b.outcome /\ b.outcome \in Outcomes
  BY DEF FoundIn, Settled, JobOK
<1>7. b.st # "judged" => G[q] = None
  BY DEF FoundIn
<1> HIDE DEF F, G
<1>8. ToolEvents \cap Statuses = {} /\ \A o \in Outcomes : o \in Terminal /\ o \in Statuses
  BY DEF ToolEvents, Statuses, Terminal, Waiting, Outcomes
<1>9. \A p : Tells(e, p) <=> p = q /\ e.type \in Statuses
  BY DEF Tells
<1>10. Finds(e, F, G)
  BY <1>1, <1>3, <1>4, <1>5, <1>6, <1>7, <1>8, <1>9 DEF Finds
<1> QED
  BY <1>10 DEF F, G

LEMMA SendsKeeps ==
  ASSUME Inv, NEW j \in JobIds, NEW b, NEW ty, Sends(j, b, ty)
  PROVE  Inv'
<1> USE DEF Inv
<1>1. j[1] = main.task /\ main.pc \in Asking /\ j[1] \in 1 .. Len(plan) /\ j[2] <= plan[j[1]].questions
  BY DEF JobsRun, Sends, Running
<1>2. main.pc \in Working /\ ~closed
  BY <1>1, AskingWorks DEF Channel
<1> DEFINE e == Ev("question", plan[j[1]].id, j[2], ty)
<1>3. j = <<main.task, j[2]>> /\ j[2] \in Questions
  BY <1>1 DEF JobIds
<1>4. ShownId \in TaskIds /\ ShownId # None /\ ShownId = plan[j[1]].id /\ Shown = main.task /\ main.task # 0
      /\ Task = plan[main.task]
  BY <1>1, <1>2, UnderWay
<1>5. e.kind = "question" /\ e.q = j[2] /\ e.type = ty /\ e.task = ShownId
  BY <1>4 DEF Ev
<1>6. e = [kind |-> "question", task |-> ShownId, q |-> j[2], type |-> ty] /\ ty \in Statuses \cup ToolEvents
  BY <1>4 DEF Ev, Sends
<1>7. j[2] \in 0 .. MaxQuestions
  BY <1>3, ConstantsAssumption DEF Questions
<1>8. Send(e)
  BY DEF Sends, EmitFor
<1> HIDE DEF e
<1>9. e \in EventRecords
  BY <1>4, <1>6, <1>7 DEF EventRecords
<1>10. EventOK(e)
  BY <1>3, <1>5, <1>6, <1>9 DEF EventOK
<1>11. Channel' /\ Sent(e)
  BY <1>2, <1>8, <1>10, ChannelSent DEF Sends
<1>12. Control'
  BY ControlStays DEF Sends
<1>13. JobOK(b) /\ b.st \notin {"none", "completing", "done"} /\ jobs' = [jobs EXCEPT ![j] = b]
       /\ jobs[j].st \in Running
  BY DEF Sends
<1>14. jobs[j].st \notin {"none", "completing", "done"} \cup Settled
  BY <1>13 DEF Running, Settled
<1>15. JobsRun'
  BY <1>13, <1>14, JobMoves DEF Sends
<1>16. DOMAIN jobs = JobIds /\ jobs'[j] = b /\ \A i \in JobIds : i # j => jobs'[i] = jobs[i]
  BY <1>13 DEF JobsRun
<1>17. Persist
  BY <1>14, <1>16 DEF Persist, Reported
<1>18. Answers' /\ Recorded'
  BY <1>17, AnswersStay, RecordedStays DEF Sends
<1>19. ShownId' = ShownId /\ OldIds' = OldIds /\ Shown' = Shown /\ Width' = Width
  BY DEF Sends, ShownId, OldIds, Shown, Width, Task
<1>20. Width = Task.questions /\ e.q <= Width
  BY <1>1, <1>4, <1>5 DEF Width
<1>21. Finds(e, Found, Found')
  <2>1. \A q \in Questions : <<main.task, q>> \in JobIds
    BY <1>1, InJobIds
  <2>2. \A q \in Questions : JobOK(jobs[<<main.task, q>>])
    BY <2>1 DEF JobsRun
  <2>3. \A q \in Questions : q # j[2] => jobs'[<<main.task, q>>] = jobs[<<main.task, q>>]
    BY <1>3, <1>16, <2>1
  <2>4. jobs'[<<main.task, j[2]>>] = b /\ jobs[<<main.task, j[2]>>].st \notin Settled
    BY <1>3, <1>14, <1>16
  <2>5. IF b.st = "judged" THEN e.type = b.outcome ELSE e.type \notin Terminal /\ b.st \notin Settled
    BY <1>5, <1>13 DEF Sends, Settled
  <2>6. PICK t, js, now : t = main.task /\ js = jobs /\ now = jobs'
    OBVIOUS
  <2>7. Finds(e, FoundIn(t, js), FoundIn(t, now))
    BY <1>3, <1>4, <1>5, <1>6, <1>13, <2>2, <2>3, <2>4, <2>5, <2>6, FoundMoves
  <2> QED
    BY <1>4, <1>19, <2>6, <2>7 DEF Found
<1>22. Screen'
  BY <1>4, <1>5, <1>10, <1>11, <1>19, <1>20, <1>21, ScreenQuestion DEF Sends
<1> QED
  BY <1>11, <1>12, <1>15, <1>18, <1>22

\* The task shown is one of the plan.
LEMMA ShownIn ==
  ASSUME Control
  PROVE  Shown # 0 => Shown \in 1 .. Len(plan)
<1>1. Len(plan) \in Nat /\ main.task \in Nat
  BY DEF Control, Mains, PlanOK
<1>2. main.pc \in {"begin", "plan", "task"} \cup Working \cup {"close", "write"} \cup Ending
  BY DEF Control, Mains, Pcs
<1>3. main.pc \in {"begin", "plan"} => main.task = 0
  BY DEF Control, Nothing
<1>4. main.pc = "task" => main.task \in 1 .. Len(plan) + 1
  BY DEF Control
<1>5. main.pc \in Working => main.task \in 1 .. Len(plan)
  BY DEF Control
<1>6. main.pc \in {"close", "write"} \cup Ending => main.task = 0 \/ main.task = Len(plan) + 1
  BY DEF Control, Ended, Nothing
<1> QED
  BY <1>1, <1>2, <1>3, <1>4, <1>5, <1>6 DEF Shown

\* A settled job that moves on keeps its outcome.
LEMMA SettledMoves ==
  ASSUME Control, JobsRun, Screen, NEW j \in JobIds, NEW to \in {"completing", "done"},
         jobs[j].st \in Settled, jobs' = [jobs EXCEPT ![j].st = to],
         UNCHANGED <<main, plan, cur, results, ui, exit, events, dropped>>
  PROVE  Control' /\ JobsRun' /\ Persist /\ Screen'
         /\ jobs'[j].st \in {"completing", "done"} /\ jobs'[j].outcome = jobs[j].outcome
         /\ jobs[j].outcome \in Outcomes
         /\ j[1] \in 1 .. Len(plan)
<1> DEFINE b == [jobs[j] EXCEPT !.st = to]
<1>1. jobs[j] \in JobRecords /\ JobOK(jobs[j])
  BY JobTyped
<1>2. b = [st |-> to, retries |-> jobs[j].retries, tools |-> jobs[j].tools, outcome |-> jobs[j].outcome]
  BY <1>1 DEF JobRecords
<1>3. jobs' = [jobs EXCEPT ![j] = b]
  OBVIOUS
<1>4. jobs[j].outcome \in Outcomes
  BY <1>1 DEF JobOK
<1> HIDE DEF b
<1>5. b.st = to /\ b.outcome = jobs[j].outcome
  BY <1>2
<1>6. b \in JobRecords
  BY <1>1, <1>2 DEF JobRecords, JobStates
<1>7. JobOK(b)
  BY <1>4, <1>5, <1>6 DEF JobOK
<1>8. jobs[j].st # "none"
  BY DEF Settled
<1>9. JobsRun'
  BY <1>3, <1>5, <1>7, <1>8, JobMoves
<1>10. DOMAIN jobs = JobIds /\ jobs'[j] = b /\ \A i \in JobIds : i # j => jobs'[i] = jobs[i]
  BY <1>3 DEF JobsRun
<1>11. Persist
  BY <1>5, <1>10 DEF Persist, Reported
<1>12. Control'
  BY ControlStays
<1>13. \A i \in JobIds : /\ jobs'[i].st \in Settled <=> jobs[i].st \in Settled
                         /\ jobs'[i].outcome = jobs[i].outcome
  BY <1>5, <1>10 DEF Settled
<1>14. ShownId' = ShownId /\ OldIds' = OldIds /\ Shown' = Shown /\ Width' = Width
  BY DEF ShownId, OldIds, Shown, Width, Task
<1>15. Shown # 0 => Shown \in 1 .. Len(plan)
  BY ShownIn
<1>16. Found' = Found
  <2>1. Shown # 0 => \A q \in Questions : <<Shown, q>> \in JobIds
    BY <1>15, InJobIds
  <2> QED
    BY <1>13, <1>14, <2>1 DEF Found, FoundIn
<1>17. Screen'
  BY <1>14, <1>16, ScreenStays DEF ViewStays
<1>18. j[1] \in 1 .. Len(plan)
  BY <1>8 DEF JobsRun
<1>19. jobs'[j].st \in {"completing", "done"} /\ jobs'[j].outcome = jobs[j].outcome
  BY <1>5, <1>10
<1> QED
  BY <1>4, <1>9, <1>11, <1>12, <1>17, <1>18, <1>19

LEMMA CompleteKeeps ==
  ASSUME Inv, NEW j \in JobIds, CompleteJob(j)
  PROVE  Inv'
<1> USE DEF Inv
<1>1. jobs[j].st \in Settled /\ "done" \in {"completing", "done"}
  BY DEF CompleteJob, Step, Settled
<1>2. jobs' = [jobs EXCEPT ![j].st = "done"]
  BY DEF CompleteJob, Step
<1>3. UNCHANGED <<main, plan, cur, results, ui, exit, events, dropped, closed, panicked, resultCh>>
  BY DEF CompleteJob, JobOnly, Silent
<1>4. Control' /\ JobsRun' /\ Persist /\ Screen'
  BY <1>1, <1>2, <1>3, SettledMoves
<1>5. Answers' /\ Recorded'
  BY <1>3, <1>4, AnswersStay, RecordedStays
<1>6. Channel'
  BY <1>3, ChannelStays DEF Silent, Channel
<1> QED
  BY <1>4, <1>5, <1>6

LEMMA ReportKeeps ==
  ASSUME Inv, NEW j \in JobIds, Report(j)
  PROVE  Inv'
<1> USE DEF Inv
<1>1. jobs[j].st = "judged" /\ jobs[j].st \in Settled /\ "completing" \in {"completing", "done"}
  BY DEF Report, Step, Settled
<1>2. jobs' = [jobs EXCEPT ![j].st = "completing"]
  BY DEF Report, Step
<1>3. UNCHANGED <<main, plan, cur, results, ui, exit, events, dropped, closed, panicked>>
  BY DEF Report, JobOnly, Silent
<1>4. Control' /\ JobsRun' /\ Persist /\ Screen'
      /\ jobs'[j].st \in {"completing", "done"} /\ jobs'[j].outcome = jobs[j].outcome
      /\ jobs[j].outcome \in Outcomes /\ j[1] \in 1 .. Len(plan)
  BY <1>1, <1>2, <1>3, SettledMoves
<1>5. j[1] = main.task /\ main.pc \in Asking
  BY <1>1 DEF JobsRun
<1>6. j = <<main.task, j[2]>> /\ j[2] \in Questions
  BY <1>5 DEF JobIds
<1>7. Recorded'
  BY <1>3, <1>4, RecordedStays
<1>8. Channel'
  BY <1>3, ChannelStays DEF Silent, Channel
<1> DEFINE S == [q : Questions, outcome : Outcomes]
           r == [q |-> j[2], outcome |-> jobs[j].outcome]
<1>9. r \in S /\ resultCh \in Seq(S) /\ resultCh' = Append(resultCh, r)
  BY <1>4, <1>6 DEF Report, Answers
<1>10. r.q = j[2] /\ r.outcome = jobs[j].outcome
  OBVIOUS
<1> HIDE DEF S, r
<1>11. PICK n \in Nat : n = Len(resultCh)
  BY <1>9
<1>12. DOMAIN resultCh = 1 .. n /\ DOMAIN resultCh' = 1 .. n + 1 /\ resultCh' \in Seq(S) /\ Len(resultCh') = n + 1
       /\ resultCh'[n + 1] = r /\ \A k \in 1 .. n : resultCh'[k] = resultCh[k]
  BY <1>9, <1>11
<1>13. Len(resultCh') <= MaxQuestions
  <2>1. n < (IF plan[j[1]].workers > 1 THEN plan[j[1]].questions ELSE 1)
    BY <1>11 DEF Report
  <2>2. plan[j[1]] \in TaskConfigs(Agents)
    <3>1. plan \in Seq(TaskConfigs(Agents)) /\ j[1] \in DOMAIN plan
      BY <1>4 DEF Control, PlanOK
    <3> QED
      BY <3>1, ElementOf
  <2>3. PICK m \in Nat : m = MaxQuestions /\ plan[j[1]].questions \in 0 .. m /\ j[2] \in 1 .. m
    BY <1>6, <2>2, ConstantsAssumption DEF TaskConfigs, Questions
  <2>4. PICK k \in 0 .. m : k = plan[j[1]].questions
    BY <2>3
  <2>5. n < k \/ n < 1
    BY <2>1, <2>4
  <2>6. 1 <= m
    BY <2>3
  <2> QED
    BY <1>12, <2>3, <2>5, <2>6
<1>14. \A q \in Questions : <<main.task, q>> \in JobIds
  BY <1>4, <1>5, InJobIds
<1>15. cur.results[j[2]] = None
  <2> SUFFICES ASSUME cur.results[j[2]] # None PROVE FALSE
    OBVIOUS
  <2>1. Reported(<<main.task, j[2]>>, cur.results[j[2]])
    BY <1>5, <1>6 DEF Answers
  <2> QED
    BY <1>1, <1>6, <2>1 DEF Reported
<1>16. \A k \in 1 .. n : /\ Reported(<<main.task, resultCh[k].q>>, resultCh[k].outcome)
                         /\ cur.results[resultCh[k].q] = None
                         /\ resultCh[k].q \in Questions /\ resultCh[k].outcome \in Outcomes
                         /\ \A l \in 1 .. n : resultCh[k].q = resultCh[l].q => k = l
  <2>1. OnTheWay
    BY <1>5 DEF Answers
  <2>2. \A k \in 1 .. n : resultCh[k] \in S
    BY <1>9, <1>12, ElementOf
  <2> QED
    BY <2>1, <2>2, <1>12 DEF OnTheWay, S
<1>17. \A k \in 1 .. n : resultCh[k].q # j[2]
  BY <1>1, <1>6, <1>16 DEF Reported
<1>18. \A k \in 1 .. n + 1 : k \in 1 .. n \/ k = n + 1
  OBVIOUS
<1>19. OnTheWay'
  <2> DEFINE Told0(k) == /\ jobs'[<<main.task, resultCh'[k].q>>].st \in {"completing", "done"}
                         /\ jobs'[<<main.task, resultCh'[k].q>>].outcome = resultCh'[k].outcome
  <2>1. ASSUME NEW k \in 1 .. n + 1
        PROVE  Told0(k)
    <3>1. CASE k = n + 1
      BY <3>1, <1>4, <1>6, <1>10, <1>12
    <3>2. CASE k \in 1 .. n
      <4>1. <<main.task, resultCh[k].q>> \in JobIds /\ resultCh'[k] = resultCh[k]
        BY <3>2, <1>12, <1>14, <1>16
      <4>2. Reported(<<main.task, resultCh[k].q>>, resultCh[k].outcome) /\ resultCh[k].outcome \in Outcomes
        BY <3>2, <1>16
      <4>3. PICK i \in JobIds, o \in Outcomes : i = <<main.task, resultCh[k].q>> /\ o = resultCh[k].outcome
        BY <4>1, <4>2
      <4>4. Reported(i, o)'
        BY <1>4, <4>2, <4>3 DEF Persist
      <4> QED
        BY <4>1, <4>3, <4>4 DEF Reported
    <3> QED
      BY <3>1, <3>2, <1>18
  <2>2. ASSUME NEW k \in 1 .. n + 1
        PROVE  cur'.results[resultCh'[k].q] = None
    BY <1>3, <1>10, <1>12, <1>15, <1>16, <1>18
  <2>3. ASSUME NEW k \in 1 .. n + 1, NEW l \in 1 .. n + 1, resultCh'[k].q = resultCh'[l].q
        PROVE  k = l
    <3>1. CASE k = n + 1
      BY <3>1, <2>3, <1>10, <1>12, <1>17, <1>18
    <3>2. CASE k \in 1 .. n
      <4>1. resultCh'[k] = resultCh[k] /\ resultCh[k].q # j[2]
        BY <3>2, <1>12, <1>17
      <4>2. l # n + 1
        BY <4>1, <2>3, <1>10, <1>12
      <4>3. l \in 1 .. n /\ resultCh'[l] = resultCh[l]
        BY <4>2, <1>12, <1>18
      <4> QED
        BY <3>2, <4>1, <4>3, <2>3, <1>16
    <3> QED
      BY <3>1, <3>2, <1>18
  <2> QED
    BY <2>1, <2>2, <2>3, <1>3, <1>12 DEF OnTheWay, Reported
<1>20. (main.pc \in Asking \cup {"shutdown", "taskend"} =>
         \A q \in Questions : cur.results[q] # None => Reported(<<main.task, q>>, cur.results[q]))'
  <2> SUFFICES ASSUME NEW q \in Questions, cur.results[q] # None
               PROVE  Reported(<<main.task, q>>, cur.results[q])'
    BY <1>3
  <2>1. Reported(<<main.task, q>>, cur.results[q]) /\ cur.results[q] \in Outcomes
    BY <1>5 DEF Answers, CurOK, CurRecords
  <2> QED
    BY <2>1, <1>3, <1>4, <1>14 DEF Persist, Reported
<1>21. main.pc \notin {"load", "queue", "shutdown"}
  BY <1>5 DEF Asking
<1>22. CurOK(cur)'
  BY <1>3 DEF Answers
<1>23. (main.pc \in Asking =>
         /\ Task.workers = 1 => cur.got = main.q - 1
         /\ Task.workers > 1 => IF main.pc = "collect" THEN main.q = Task.questions
                                ELSE cur.got = 0)'
  BY <1>3 DEF Answers, Task
<1>24. Answers'
  BY <1>3, <1>12, <1>13, <1>19, <1>20, <1>21, <1>22, <1>23 DEF Answers, S
<1> QED
  BY <1>4, <1>7, <1>8, <1>24

-----------------------------------------------------------------------------
(* The UI.                                                                 *)

LEMMA ViewTyped ==
  ASSUME Control, JobsRun, Recorded
  PROVE  Width \in Nat /\ Found \in [Questions -> Outcomes \cup {None}]
<1>1. Shown # 0 => Shown \in 1 .. Len(plan)
  BY ShownIn
<1>2. Shown # 0 => \A q \in Questions : JobOK(jobs[<<Shown, q>>])
  BY <1>1, InJobIds DEF JobsRun
<1>3. Found \in [Questions -> Outcomes \cup {None}]
  BY <1>2, FoundTyped DEF Found
<1>4. CASE main.pc \in {"queue", "shutdown"} \cup Asking
  <2>1. main.pc \in Working
    BY <1>4 DEF Working, Asking
  <2>2. PICK m \in Nat : m = MaxQuestions
    BY ConstantsAssumption
  <2>3. Task.questions \in 0 .. m
    BY <2>1, <2>2, UnderWay
  <2> QED
    BY <1>3, <1>4, <2>3 DEF Width
<1>5. CASE ~(main.pc \in {"queue", "shutdown"} \cup Asking) /\ (Shown = 0 \/ Shown > Len(results))
  BY <1>3, <1>5 DEF Width
<1>6. CASE ~(main.pc \in {"queue", "shutdown"} \cup Asking) /\ ~(Shown = 0 \/ Shown > Len(results))
  <2>1. results \in Seq(ResultRecords) /\ Len(plan) \in Nat
    BY DEF Recorded, Control, PlanOK
  <2>2. Shown \in DOMAIN results
    BY <1>1, <1>6, <2>1
  <2>3. results[Shown] \in ResultRecords
    BY <2>1, <2>2, ElementOf
  <2>4. PICK m \in Nat : m = MaxQuestions
    BY ConstantsAssumption
  <2>5. results[Shown].questions \in 0 .. m
    BY <2>3, <2>4 DEF ResultRecords
  <2> QED
    BY <1>3, <1>6, <2>5 DEF Width
<1> QED
  BY <1>4, <1>5, <1>6

LEMMA SeenSame ==
  ASSUME NEW evs, NEW u, NEW v, u.task = v.task, u.rows = v.rows, NEW id, NEW old, NEW width, NEW found,
         Seen(evs, u, id, old, width, found)
  PROVE  Seen(evs, v, id, old, width, found)
BY DEF Seen, Follows, Wide, Told, Final, Shows

\* The screen shows the first event.
LEMMA ReceiptKeeps ==
  ASSUME NEW evs, EvsOK(evs), evs # <<>>, NEW u, ScreenOK(u), NEW id, NEW old, NEW width \in Nat,
         NEW found \in [Questions -> Outcomes \cup {None}]
  PROVE  /\ ScreenOK(ApplyEvent(u, Head(evs))) /\ ApplyEvent(u, Head(evs)).pc = u.pc
         /\ Seen(evs, u, id, old, width, found) =>
              Seen(Tail(evs), ApplyEvent(u, Head(evs)), id, old, width, found)
<1> DEFINE e == evs[1]
           v == ApplyEvent(u, e)
<1>1. Head(evs) = e /\ EventOK(e)
  BY TailShrinks
<1> SUFFICES /\ ScreenOK(v) /\ v.pc = u.pc
             /\ Seen(evs, u, id, old, width, found) => Seen(Tail(evs), v, id, old, width, found)
  BY <1>1
<1>2. u.rows \in Seq(RowRecords)
  BY DEF ScreenOK, ScreenRecords
<1>3. CASE Starts(e)
  <2>1. Clears(u, e, v) /\ ScreenOK(v)
    BY <1>1, <1>3, StartClears
  <2> HIDE DEF v
  <2> QED
    BY <1>3, <2>1, StartSeen DEF Clears
<1>4. CASE e.kind = "question"
  <2>1. v = Reduce(u, e)
    BY <1>4 DEF ApplyEvent
  <2>2. Updates(u, e, v) /\ ScreenOK(v)
    BY <1>1, <1>4, <2>1, ReduceUpdates
  <2> HIDE DEF v
  <2> QED
    BY <1>2, <1>4, <2>2, QuestionSeen DEF Updates
<1>5. CASE e.kind \notin {"question", "task_start"}
  <2>1. v = u
    BY <1>5, OtherIgnored
  <2> HIDE DEF v
  <2> QED
    BY <1>5, <2>1, OtherSeen
<1> QED
  BY <1>3, <1>4, <1>5 DEF Starts

LEMMA ReceiveKeeps ==
  ASSUME Inv, UIReceive
  PROVE  Inv'
<1> USE DEF Inv
<1>1. UNCHANGED <<main, plan, cur, results, jobs, resultCh, closed, exit, dropped, panicked>> /\ ui.pc = "wait"
  BY DEF UIReceive
<1>2. Persist
  BY <1>1, JobsPersist
<1>3. Control' /\ Answers' /\ Recorded'
  BY <1>1, <1>2, ControlStays, AnswersStay, RecordedStays
<1>4. JobsRun'
  BY <1>1 DEF JobsRun, Reached, JobOK
<1>5. ViewStays
  BY <1>1 DEF ViewStays, ShownId, OldIds, Shown, Width, Task, Found, FoundIn
<1>6. Width \in Nat /\ Found \in [Questions -> Outcomes \cup {None}]
  BY ViewTyped
<1>7. EvsOK(events) /\ ScreenOK(ui)
  BY DEF Channel, EvsOK
<1>8. CASE events # <<>>
  <2>1. ui' = ApplyEvent(ui, Head(events)) /\ events' = Tail(events)
    BY <1>8 DEF UIReceive
  <2>2. ScreenOK(ui') /\ ui'.pc = "wait"
        /\ (Seen(events, ui, ShownId, OldIds, Width, Found) => Seen(events', ui', ShownId, OldIds, Width, Found))
    BY <1>1, <1>6, <1>7, <1>8, <2>1, ReceiptKeeps
  <2>3. EvsOK(events') /\ Len(events') <= EventCap
    <3>1. EvsOK(Tail(events)) /\ Shrunk(events, Tail(events))
      BY <1>7, <1>8, TailShrinks
    <3>2. Len(events) <= EventCap
      BY DEF Channel
    <3> QED
      BY <2>1, <3>1, <3>2, ConstantsAssumption DEF Shrunk
  <2>4. Channel'
    BY <1>1, <2>2, <2>3 DEF Channel, EvsOK, ScreenOK
  <2>5. Screen'
    BY <1>1, <1>5, <2>2 DEF Screen, ViewStays
  <2> QED
    BY <1>3, <1>4, <2>4, <2>5
<1>9. CASE events = <<>>
  <2>1. closed /\ ui' = [ui EXCEPT !.pc = "quit"] /\ events' = <<>>
    BY <1>9 DEF UIReceive
  <2>2. ui \in ScreenRecords
    BY <1>7 DEF ScreenOK
  <2>3. ui' = [pc |-> "quit", task |-> ui.task, rows |-> ui.rows, counts |-> ui.counts]
    BY <2>1, <2>2 DEF ScreenRecords
  <2>4. ui' \in ScreenRecords
    BY <2>2, <2>3 DEF ScreenRecords
  <2>5. ScreenOK(ui') /\ ui'.task = ui.task /\ ui'.rows = ui.rows
    BY <1>7, <2>3, <2>4 DEF ScreenOK
  <2>6. Channel'
    BY <1>1, <1>9, <2>1, <2>5 DEF Channel, ScreenOK
  <2>7. Seen(events, ui, ShownId, OldIds, Width, Found) => Seen(events', ui', ShownId, OldIds, Width, Found)
    BY <1>9, <2>1, <2>5, SeenSame
  <2>8. Screen'
    BY <1>1, <1>5, <2>7 DEF Screen, ViewStays
  <2> QED
    BY <1>3, <1>4, <2>6, <2>8
<1> QED
  BY <1>8, <1>9

LEMMA DiesKeeps ==
  ASSUME Inv, UIDies
  PROVE  Inv'
<1> USE DEF Inv
<1>1. UNCHANGED <<main, plan, cur, results, jobs, resultCh, closed, exit, dropped, panicked>>
      /\ ui' = [EmptyScreen EXCEPT !.pc = "died"] /\ events' = <<>>
  BY DEF UIDies
<1>2. Persist
  BY <1>1, JobsPersist
<1>3. Control' /\ Answers' /\ Recorded'
  BY <1>1, <1>2, ControlStays, AnswersStay, RecordedStays
<1>4. JobsRun'
  BY <1>1 DEF JobsRun, Reached, JobOK
<1> DEFINE zero == [c \in Counts |-> 0]
<1>5. ui' = [pc |-> "died", task |-> None, rows |-> <<>>, counts |-> zero]
  BY <1>1 DEF EmptyScreen
<1>6. zero \in [Counts -> Nat] /\ zero.correct = 0 /\ zero.open = 0
  BY DEF Counts
<1> HIDE DEF zero
<1>7. ui' \in ScreenRecords
  <2>1. <<>> \in Seq(RowRecords)
    OBVIOUS
  <2> QED
    BY <1>5, <1>6, <2>1 DEF ScreenRecords
<1>8. ui'.pc = "died" /\ ui'.rows = <<>> /\ ui'.counts = zero
  BY <1>5
<1>9. \A S : Rows(ui'.rows, S) = {}
  BY <1>8 DEF Rows
<1>10. ui'.counts.correct = Cardinality(Rows(ui'.rows, {"correct"}))
       /\ ui'.counts.open = Cardinality(Rows(ui'.rows, Statuses \ Terminal))
  BY <1>6, <1>8, <1>9, FS_EmptySet
<1>11. events' \in Seq(EventRecords) /\ Len(events') <= EventCap /\ DOMAIN events' = {}
  BY <1>1, ConstantsAssumption
<1>12. Channel'
  BY <1>1, <1>7, <1>8, <1>10, <1>11 DEF Channel, ScreenOK
<1>13. Screen'
  BY <1>8 DEF Screen
<1> QED
  BY <1>3, <1>4, <1>12, <1>13

-----------------------------------------------------------------------------
(* The command.                                                            *)

LEMMA GotoIs ==
  ASSUME Control, NEW p \in Pcs, main' = Goto(p)
  PROVE  main' \in Mains /\ main'.asked = main.asked
         /\ main'.pc = p /\ main'.task = main.task /\ main'.q = main.q
<1>1. main \in Mains
  BY DEF Control
<1>2. main' = [pc |-> p, task |-> main.task, q |-> main.q, asked |-> main.asked]
  BY <1>1 DEF Goto, Mains
<1> QED
  BY <1>1, <1>2 DEF Mains

\* Between tasks nothing is expected of the answers kept.
LEMMA AnswersIdle ==
  ASSUME Answers, UNCHANGED <<cur, resultCh>>,
         main'.pc \notin {"load", "queue", "shutdown", "taskend"} \cup Asking
  PROVE  Answers'
BY DEF Answers, CurOK, CurRecords

\* Jobs of tasks that have not begun do not exist.
LEMMA NotYet ==
  ASSUME JobsRun, NEW j \in JobIds, j[1] >= main.task, main.pc \notin Asking \cup {"shutdown", "taskend"},
         main.task \in Nat
  PROVE  jobs[j] = NoJob
<1>1. ~Reached(j[2])
  BY DEF Reached, Asking
<1>2. jobs[j].st = "none"
  <2> SUFFICES ASSUME jobs[j].st # "none" PROVE FALSE
    OBVIOUS
  <2>1. j[1] < main.task
    BY <1>1 DEF JobsRun
  <2>2. j[1] \in Nat
    BY ConstantsAssumption DEF JobIds
  <2> QED
    BY <2>1, <2>2
<1> QED
  BY <1>2 DEF JobsRun, JobOK

LEMMA CalmOutside ==
  ASSUME JobsRun, main.pc \notin Asking
  PROVE  Calm
BY DEF JobsRun, Calm

LEMMA SeenWider ==
  ASSUME NEW evs, EvsOK(evs), NEW u, u.rows \in Seq(RowRecords), NEW id, NEW old, NEW width \in Nat,
         NEW wider \in Nat, width <= wider, NEW found, Seen(evs, u, id, old, width, found)
  PROVE  Seen(evs, u, id, old, wider, found)
<1>1. Len(u.rows) \in Nat
  OBVIOUS
<1>2. ASSUME NEW k \in DOMAIN evs, evs[k].kind = "question", Fresh(evs, k)
      PROVE  evs[k].q <= wider
  <2>1. evs[k].q \in Nat
    BY <1>2, ConstantsAssumption DEF EvsOK, EventOK, Questions
  <2>2. evs[k].q <= width
    BY <1>2 DEF Seen, Wide
  <2> QED
    BY <2>1, <2>2
<1>3. Fresh(evs, 1) => Len(u.rows) <= wider
  BY <1>1 DEF Seen, Wide
<1> QED
  BY <1>2, <1>3 DEF Seen, Wide

LEMMA NoTaskOK == CurOK(NoTask) /\ \A q \in Questions : NoTask.results[q] = None
<1>1. NoTask \in CurRecords
  BY DEF NoTask, CurRecords
<1>2. \A q \in Questions : NoTask.results[q] = None
  BY DEF NoTask
<1>3. NoTask.got = 0 /\ NoTask.correct = 0
  BY DEF NoTask
<1>4. None \notin {"correct", "runtime_error"}
  BY InputsAssumption DEF Statuses, Terminal, Outcomes
<1>5. Kept(NoTask) = {} /\ Of(NoTask.results, "correct") = {} /\ Of(NoTask.results, "runtime_error") = {}
  BY <1>2, <1>4 DEF Kept, Of
<1> QED
  BY <1>1, <1>2, <1>3, <1>5, FS_EmptySet DEF CurOK

LEMMA InvInit ==
  ASSUME Init
  PROVE  Inv
<1>1. PICK sel \in Selections :
      /\ main = [pc |-> "begin", task |-> 0, q |-> 0, asked |-> sel]
      /\ plan = <<>> /\ cur = NoTask /\ results = <<>>
      /\ jobs = [j \in JobIds |-> NoJob] /\ resultCh = <<>>
      /\ events = <<>> /\ closed = FALSE /\ ui = EmptyScreen
      /\ exit = None /\ dropped = 0 /\ panicked = FALSE
  BY DEF Init
<1>2. main.pc = "begin" /\ main.task = 0 /\ main.q = 0
  BY <1>1
<1>3. MaxQuestions \in Nat /\ Len(Tasks) \in Nat /\ EventCap \in Nat
  BY ConstantsAssumption
<1>4. main.pc \notin {"plan", "task", "close", "write"} \cup Working \cup Ending \cup Asking
  BY <1>2 DEF Working, Ending, Asking
<1>5. Control
  <2>1. main \in Mains
    BY <1>1 DEF Mains, Pcs
  <2>2. <<>> \in Seq(TaskConfigs(Agents))
    OBVIOUS
  <2>3. PlanOK
    BY <1>1, <1>3, <2>2 DEF PlanOK
  <2>4. None # "ok"
    BY InputsAssumption
  <2> QED
    BY <1>1, <1>2, <1>3, <1>4, <2>1, <2>3, <2>4 DEF Control, Nothing
<1>6. NoJob.st = "none" /\ JobOK(NoJob)
  BY DEF NoJob, JobOK, JobRecords, JobStates, Settled
<1>7. JobsRun
  BY <1>1, <1>6 DEF JobsRun, JobOK
<1>8. CurOK(NoTask)
  BY NoTaskOK
<1>9. <<>> \in Seq([q : Questions, outcome : Outcomes]) /\ <<>> \in Seq(ResultRecords)
      /\ <<>> \in Seq(EventRecords) /\ <<>> \in Seq(RowRecords)
  OBVIOUS
<1>10. Answers
  BY <1>1, <1>2, <1>3, <1>4, <1>8, <1>9 DEF Answers
<1>11. Recorded
  BY <1>1, <1>9 DEF Recorded
<1> DEFINE zero == [c \in Counts |-> 0]
<1>12. ui = [pc |-> "wait", task |-> None, rows |-> <<>>, counts |-> zero]
  BY <1>1 DEF EmptyScreen
<1>13. zero \in [Counts -> Nat] /\ zero.correct = 0 /\ zero.open = 0
  BY DEF Counts
<1> HIDE DEF zero
<1>14. ScreenOK(ui)
  <2>1. ui \in ScreenRecords
    BY <1>9, <1>12, <1>13 DEF ScreenRecords
  <2>2. \A S : Rows(ui.rows, S) = {}
    BY <1>12 DEF Rows
  <2> QED
    BY <1>12, <1>13, <2>1, <2>2, FS_EmptySet DEF ScreenOK
<1>15. Channel
  <2>1. events \in Seq(EventRecords) /\ Len(events) <= EventCap /\ \A k \in DOMAIN events : EventOK(events[k])
    BY <1>1, <1>3, <1>9
  <2>2. closed = FALSE /\ panicked = FALSE /\ dropped \in Nat /\ ui.pc # "quit"
    BY <1>1, <1>12
  <2> QED
    BY <1>14, <2>1, <2>2 DEF Channel
<1>16. Shown = 0 /\ ShownId = None
  BY <1>2, <1>4 DEF Shown, ShownId
<1>17. Width = 0
  BY <1>2, <1>4, <1>16 DEF Width
<1>18. \A q \in Questions : Found[q] = None
  BY <1>16 DEF Found, FoundIn
<1>19. \A u, id, old, width, found : Fresh(<<>>, 1) /\ DOMAIN <<>> = {}
  BY DEF Fresh, Same
<1>20. Screen
  <2>1. Follows(<<>>, ui, None, OldIds)
    BY <1>12, <1>19 DEF Follows
  <2>2. Wide(<<>>, ui, 0)
    BY <1>12, <1>19 DEF Wide
  <2>3. Told(<<>>, ui, Found)
    BY <1>12, <1>18, <1>19 DEF Told, Shows
  <2>4. Final(<<>>, ui)
    BY <1>19 DEF Final
  <2> QED
    BY <1>1, <1>16, <1>17, <2>1, <2>2, <2>3, <2>4 DEF Screen, Seen
<1> QED
  BY <1>5, <1>7, <1>10, <1>11, <1>15, <1>20 DEF Inv

-----------------------------------------------------------------------------
(* The steps of the command.                                               *)

\* Nothing was planned yet: no job exists and nothing is shown.
LEMMA Blank ==
  ASSUME Control, JobsRun, main.pc \in {"begin", "plan"}
  PROVE  /\ Nothing /\ Shown = 0 /\ ShownId = None /\ OldIds = {} /\ Width = 0
         /\ Found = [q \in Questions |-> None]
         /\ \A j \in JobIds : jobs[j].st = "none"
         /\ main.pc \notin {"write"} \cup Ending \cup Working \cup Asking
<1>1. Nothing /\ main.pc \notin {"queue", "shutdown", "write"} \cup Ending \cup Working \cup Asking
  BY DEF Control, Ending, Working, Asking
<1>2. Shown = 0 /\ ShownId = None
  BY <1>1 DEF Shown, ShownId, Nothing
<1>3. OldIds = {}
  <2>1. \A i : i \notin 1 .. 0 - 1
    OBVIOUS
  <2> QED
    BY <1>2, <2>1 DEF OldIds
<1>4. Width = 0
  BY <1>1, <1>2 DEF Width
<1>5. Found = [q \in Questions |-> None]
  BY <1>2 DEF Found, FoundIn
<1>6. \A j \in JobIds : jobs[j].st = "none"
  <2> SUFFICES ASSUME NEW j \in JobIds, jobs[j].st # "none" PROVE FALSE
    OBVIOUS
  <2>1. j[1] \in 1 .. Len(plan) /\ Len(plan) = 0
    BY <1>1 DEF JobsRun, Nothing
  <2> QED
    BY <2>1
<1> QED
  BY <1>1, <1>2, <1>3, <1>4, <1>5, <1>6

\* The command gives up before anything was planned, or takes its first step.
LEMMA BeginKeeps ==
  ASSUME Inv, Begin
  PROVE  Inv'
<1> USE DEF Inv
<1>1. main.pc = "begin" /\ UNCHANGED <<plan, cur, results, jobs, resultCh, ui>>
  BY DEF Begin
<1>2. /\ Nothing /\ Shown = 0 /\ ShownId = None /\ OldIds = {} /\ Width = 0
      /\ Found = [q \in Questions |-> None]
      /\ \A j \in JobIds : jobs[j].st = "none"
      /\ main.pc \notin {"write"} \cup Ending
  BY <1>1, Blank
<1>3. PICK p \in {"stop", "plan"} : main' = Goto(p)
        /\ \/ p = "stop" /\ exit' = "error" /\ Silent
           \/ p = "plan" /\ UNCHANGED exit /\ Send(Ev("run_start", None, 0, None))
  BY DEF Begin, Fail
<1>4. p \in Pcs
  BY DEF Pcs, Ending
<1>5. main' \in Mains /\ main'.asked = main.asked /\ main'.pc = p /\ main'.task = main.task /\ main'.q = main.q
  BY <1>3, <1>4, GotoIs
<1>6. p \notin {"task", "close", "write", "load", "queue", "shutdown", "taskend"} \cup Asking \cup Working
  BY DEF Asking, Working
<1>7. exit' \in {None, "ok", "error"} /\ exit' # "ok"
  <2>1. exit # "ok"
    BY <1>1 DEF Control, Ending
  <2> QED
    BY <1>3, <2>1 DEF Control
<1>8. Nothing'
  BY <1>1, <1>2, <1>5 DEF Nothing
<1>9. Control'
  <2>1. PlanOK'
    BY <1>1 DEF Control, PlanOK
  <2>2. (main.q <= MaxQuestions)'
    BY <1>5 DEF Control
  <2> QED
    BY <1>5, <1>6, <1>7, <1>8, <2>1, <2>2 DEF Control
<1>10. JobsRun'
  BY <1>1, <1>2, JobsStay DEF Calm
<1>11. Answers' /\ Recorded'
  BY <1>1, <1>5, <1>6, AnswersIdle, RecordedStays, JobsPersist
<1>12. Shown' = 0 /\ ViewStays
  <2>1. Shown' = 0
    BY <1>5, <1>6, <1>8 DEF Shown, Nothing
  <2>2. ShownId' = None /\ OldIds' = OldIds /\ Found' = Found
    BY <1>1, <1>2, <2>1 DEF ShownId, OldIds, Found, FoundIn
  <2>3. Width' = 0
    BY <1>5, <1>6, <2>1 DEF Width
  <2> QED
    BY <1>2, <2>1, <2>2, <2>3 DEF ViewStays
<1>13. ~closed
  BY <1>2 DEF Channel
<1>14. CASE p = "stop"
  <2>1. Silent
    BY <1>3, <1>14
  <2> QED
    BY <1>1, <1>9, <1>10, <1>11, <1>12, <1>13, <2>1, ChannelStays, ScreenStays DEF Silent
<1>15. CASE p = "plan"
  <2> DEFINE e == Ev("run_start", None, 0, None)
  <2>1. Send(e)
    BY <1>3, <1>15
  <2>2. EventOK(e) /\ e.kind = "run_start"
    BY ConstantsAssumption DEF Ev, EventOK, EventRecords
  <2> HIDE DEF e
  <2>3. Channel' /\ Sent(e)
    BY <1>1, <1>13, <2>1, <2>2, ChannelSent
  <2> QED
    BY <1>1, <1>9, <1>10, <1>11, <1>12, <2>2, <2>3, ScreenOther
<1> QED
  BY <1>14, <1>15

LEMMA PlanKeeps ==
  ASSUME Inv, Plan
  PROVE  Inv'
<1> USE DEF Inv
<1>1. main.pc = "plan" /\ Silent /\ UNCHANGED <<cur, results, jobs, resultCh, ui>>
  BY DEF Plan
<1>2. /\ Nothing /\ Shown = 0 /\ ShownId = None /\ OldIds = {} /\ Width = 0
      /\ Found = [q \in Questions |-> None]
      /\ \A j \in JobIds : jobs[j].st = "none"
      /\ main.pc \notin {"write"} \cup Ending
  BY <1>1, Blank
<1>3. ~closed /\ exit # "ok" /\ exit \in {None, "ok", "error"}
  BY <1>1, <1>2 DEF Channel, Control
<1>4. Channel'
  BY <1>1, <1>3, ChannelStays
<1>5. ASSUME main'.pc \in {"stop", "task"}, Shown' = 0, main'.task = 0 \/ main'.task = 1
      PROVE  Answers' /\ Screen' /\ JobsRun' /\ Recorded'
  <2>1. Answers'
    <3>1. main'.pc \notin {"load", "queue", "shutdown", "taskend"} \cup Asking
      BY <1>5 DEF Asking
    <3> QED
      BY <1>1, <3>1, AnswersIdle
  <2>2. ShownId' = None /\ Found' = Found
    BY <1>1, <1>2, <1>5 DEF ShownId, Found, FoundIn
  <2>3. OldIds' = {}
    <3>1. \A i : i \notin 1 .. 0 - 1
      OBVIOUS
    <3> QED
      BY <1>5, <3>1 DEF OldIds
  <2>4. Width' = 0
    BY <1>5 DEF Width, Asking
  <2>5. Screen'
    BY <1>1, <1>2, <2>2, <2>3, <2>4, ScreenStays DEF ViewStays, Silent
  <2>6. JobsRun'
    BY <1>1, <1>2 DEF JobsRun, JobOK
  <2>7. results' = <<>> /\ <<>> \in Seq(ResultRecords)
    BY <1>1, <1>2 DEF Nothing
  <2> QED
    BY <2>1, <2>5, <2>6, <2>7 DEF Recorded
<1>6. CASE Fail /\ UNCHANGED plan
  <2>1. main' = Goto("stop") /\ exit' = "error" /\ "stop" \in Pcs
    BY <1>6 DEF Fail, Pcs, Ending
  <2>2. main' \in Mains /\ main'.asked = main.asked /\ main'.pc = "stop" /\ main'.task = 0 /\ main'.q = main.q
    BY <1>2, <2>1, GotoIs DEF Nothing
  <2>3. Shown' = 0
    BY <2>2 DEF Shown, Working
  <2>4. PlanOK' /\ Nothing' /\ main'.q <= MaxQuestions
    BY <1>1, <1>2, <1>6, <2>2 DEF Control, PlanOK, Nothing
  <2>5. Control'
    BY <2>1, <2>2, <2>4 DEF Control, Working, Asking
  <2>6. Answers' /\ Screen' /\ JobsRun'
    BY <1>5, <2>2, <2>3
  <2>7. Recorded'
    BY <1>1, <1>6, RecordedStays, JobsPersist
  <2> QED
    BY <1>4, <2>5, <2>6, <2>7
<1>7. CASE /\ ValidSelectors(main.asked.picks) /\ Runnable(PlanTaskRuns(main.asked)) /\ plan' = PlanTaskRuns(main.asked)
           /\ main' = [main EXCEPT !.pc = "task", !.task = 1, !.q = 0] /\ UNCHANGED exit
  <2>1. main'.pc = "task" /\ main'.task = 1 /\ main'.q = 0 /\ main' \in Mains /\ main'.asked = main.asked
    BY <1>7 DEF Control, Mains, Pcs
  <2>2. Shown' = 0
    BY <2>1 DEF Shown, Working
  <2>3. PlanOK'
    <3>1. PICK p, sel : sel = main.asked /\ p = PlanTaskRuns(sel) /\ Runnable(PlanTaskRuns(sel))
      BY <1>7
    <3>2. PICK e : Plans(sel, p, e)
      BY <3>1, PlanIs
    <3>3. DOMAIN p = 1 .. Len(p)
      BY <3>2 DEF Plans
    <3>4. \A i, k \in 1 .. Len(p) : p[i].id = p[k].id => i = k
      BY <3>2, PlansApart
    <3> QED
      BY <1>7, <3>1, <3>2, <3>3, <3>4 DEF PlanOK, Plans
  <2>4. Planned'
    BY <1>7, <2>1 DEF Planned
  <2>5. Len(plan') \in Nat
    BY <2>3 DEF PlanOK
  <2>6. results' = <<>> /\ main'.task \in 1 .. Len(plan') + 1
    BY <1>1, <1>2, <2>1, <2>5 DEF Nothing
  <2>7. Len(results') = main'.task - 1
    BY <2>1, <2>6
  <2>8. Control'
    BY <1>3, <1>7, <2>1, <2>3, <2>4, <2>6, <2>7, ConstantsAssumption DEF Control, Working, Ending, Asking
  <2>9. Answers' /\ Screen' /\ JobsRun' /\ Recorded'
    BY <1>5, <2>1, <2>2
  <2> QED
    BY <1>4, <2>8, <2>9
<1> QED
  BY <1>6, <1>7 DEF Plan

\* The next task starts: its screen follows that of the task before.
LEMMA TaskStartKeeps ==
  ASSUME Inv, TaskStart
  PROVE  Inv'
<1> USE DEF Inv
<1>1. main.pc = "task" /\ main.task \in DOMAIN plan /\ cur' = NoTask /\ resultCh' = <<>>
      /\ main' = Goto("load") /\ UNCHANGED <<plan, results, jobs, ui, exit>>
  BY DEF TaskStart
<1>2. Planned /\ main.task \in 1 .. Len(plan) + 1 /\ Len(results) = main.task - 1
      /\ plan \in Seq(TaskConfigs(Agents)) /\ PlanOK /\ exit # "ok" /\ exit \in {None, "ok", "error"}
      /\ main.q <= MaxQuestions
  BY <1>1 DEF Control, PlanOK, Ending
<1>3. main'.pc = "load" /\ main'.task = main.task /\ main'.q = main.q
      /\ main' \in Mains /\ main'.asked = main.asked
  <2>1. "load" \in Pcs
    BY DEF Pcs, Working
  <2> QED
    BY <1>1, <2>1, GotoIs
<1>4. PICK t \in Nat : t = main.task /\ t \in 1 .. Len(plan) /\ t # 0
  BY <1>1, <1>2
<1>5. PlanOK' /\ Planned'
  BY <1>1, <1>2, <1>3 DEF PlanOK, Planned
<1>6. main'.pc \in Working /\ main'.pc \notin {"queue", "shutdown", "close", "write", "begin", "plan", "task", "taskend"}
      /\ main'.pc \notin Asking \cup Ending
  BY <1>3 DEF Working, Asking, Ending
<1>7. Control'
  BY <1>1, <1>2, <1>3, <1>4, <1>5, <1>6 DEF Control
<1>8. main.pc \notin Asking \cup {"shutdown", "taskend", "write"} \cup Ending \cup Working
  BY <1>1 DEF Asking, Ending, Working
<1>9. Calm /\ \A j \in JobIds : j[1] >= t => jobs[j] = NoJob
  BY <1>4, <1>8, CalmOutside, NotYet
<1>10. \A j \in JobIds : jobs[j].st # "none" => j[1] < t
  BY <1>4, <1>8 DEF JobsRun, Reached, Asking
<1>11. JobsRun'
  BY <1>1, <1>3, <1>4, <1>9, <1>10, JobsStay
<1>12. Answers'
  <2>1. <<>> \in Seq([q : Questions, outcome : Outcomes]) /\ Len(<<>>) <= MaxQuestions
    BY ConstantsAssumption
  <2>2. CurOK(cur)'
    BY <1>1, NoTaskOK DEF CurOK
  <2> QED
    BY <1>1, <1>3, <1>6, <2>1, <2>2 DEF Answers
<1>13. Recorded'
  BY <1>1, RecordedStays, JobsPersist
<1> DEFINE e == Ev("task_start", Task.id, 0, None)
<1>14. Task \in TaskConfigs(Agents) /\ Task = plan[t]
  BY <1>1, <1>2, <1>4, ElementOf DEF Task
<1>15. EventOK(e) /\ Starts(e) /\ e.task = plan[t].id
  <2>1. Task.id \in TaskIds
    BY <1>14 DEF TaskConfigs
  <2>2. e = [kind |-> "task_start", task |-> Task.id, q |-> 0, type |-> None] /\ 0 \in 0 .. MaxQuestions
    BY ConstantsAssumption DEF Ev
  <2> HIDE DEF e
  <2> QED
    BY <1>14, <2>1, <2>2 DEF EventOK, EventRecords, Starts
<1>16. Send(e) /\ ~closed
  BY <1>8 DEF TaskStart, Channel
<1> HIDE DEF e
<1>17. Channel' /\ Sent(e)
  BY <1>1, <1>15, <1>16, ChannelSent
<1>18. Shown = t - 1 /\ Shown' = t
  BY <1>3, <1>4, <1>6, <1>8 DEF Shown
<1>19. ShownId' = plan[t].id /\ Width' = 0
  <2>1. Shown' > Len(results')
    BY <1>1, <1>2, <1>4, <1>18
  <2> QED
    BY <1>1, <1>4, <1>6, <1>18, <2>1 DEF ShownId, Width
<1>20. OldIds' = {plan[i].id : i \in 1 .. t - 1}
  BY <1>1, <1>18 DEF OldIds
<1>21. Found' = [q \in Questions |-> None]
  <2>1. ASSUME NEW q \in Questions
        PROVE  jobs[<<t, q>>] = NoJob
    <3>1. PICK j \in JobIds : j = <<t, q>>
      BY <1>4, InJobIds
    <3> QED
      BY <1>4, <1>9, <3>1
  <2>2. NoJob.st \notin Settled
    BY DEF NoJob, Settled
  <2> QED
    BY <1>1, <1>18, <2>1, <2>2 DEF Found, FoundIn
<1>22. OldIds \cup {ShownId} \subseteq OldIds' \cup {None}
  <2>1. \A i \in 1 .. Shown - 1 : i \in 1 .. t - 1
    BY <1>4, <1>18
  <2>2. OldIds \subseteq OldIds'
    BY <1>20, <2>1 DEF OldIds
  <2>3. Shown # 0 => Shown \in 1 .. t - 1
    BY <1>4, <1>18
  <2> QED
    BY <1>20, <2>2, <2>3 DEF ShownId
<1>23. plan[t].id \notin OldIds'
  <2>1. \A i \in 1 .. t - 1 : i \in DOMAIN plan /\ i # t /\ t \in DOMAIN plan
    BY <1>2, <1>4
  <2> QED
    BY <1>2, <1>20, <2>1 DEF PlanOK
<1>24. Screen'
  <2> SUFFICES ASSUME dropped' = 0, ui.pc # "died"
               PROVE  Seen(events', ui, ShownId', OldIds', Width', Found')
    BY <1>1 DEF Screen
  <2>1. EvsOK(events) /\ dropped = 0 /\ events' = Append(events, e)
    BY <1>17 DEF Sent
  <2>2. Seen(events, ui, ShownId, OldIds, Width, Found)
    BY <2>1 DEF Screen
  <2>3. Grown(events, e, Append(events, e))
    BY <1>15, <2>1, AppendGrows
  <2>4. Seen(Append(events, e), ui, e.task, OldIds', Width', [q \in Questions |-> None])
    <3>1. PICK older, wide : older = OldIds' /\ wide = Width'
      OBVIOUS
    <3> QED
      BY <1>15, <1>22, <1>23, <2>1, <2>2, <2>3, <3>1, StartSent
  <2> QED
    BY <1>15, <1>19, <1>21, <2>1, <2>4
<1> QED
  BY <1>7, <1>11, <1>12, <1>13, <1>17, <1>24

LEMMA NextIs ==
  ASSUME Control, NEW p \in Pcs, NEW v \in Nat, main' = [main EXCEPT !.pc = p, !.q = v]
  PROVE  main' \in Mains /\ main'.asked = main.asked
         /\ main'.pc = p /\ main'.task = main.task /\ main'.q = v
<1> DEFINE a == [main EXCEPT !.pc = p]
           b == [a EXCEPT !.q = v]
<1>1. main \in Mains
  BY DEF Control
<1>2. a = [pc |-> p, task |-> main.task, q |-> main.q, asked |-> main.asked]
  BY <1>1 DEF Mains
<1>3. b = [pc |-> p, task |-> main.task, q |-> v, asked |-> main.asked]
  <2> HIDE DEF a
  <2> QED
    BY <1>2
<1>4. main' = b
  OBVIOUS
<1> HIDE DEF a, b
<1> QED
  BY <1>1, <1>3, <1>4 DEF Mains

\* A result is added to those of the tasks that ended.
LEMMA ResultAdded ==
  ASSUME Control, Recorded, NEW r, ResultOf(main.task, r), results' = Append(results, r), UNCHANGED <<plan, jobs>>,
         main.task \in 1 .. Len(plan), Len(results) = main.task - 1
  PROVE  Recorded' /\ Len(results') = main.task /\ results'[main.task] = r
<1>1. results \in Seq(ResultRecords) /\ r \in ResultRecords /\ Len(plan) \in Nat
  BY DEF Recorded, ResultOf, Control, PlanOK
<1>2. PICK t \in Nat : t = main.task /\ t \in 1 .. Len(plan)
  BY <1>1
<1>3. results' \in Seq(ResultRecords) /\ Len(results') = t /\ results'[t] = r
      /\ \A i \in 1 .. t - 1 : results'[i] = results[i]
  BY <1>1, <1>2
<1>4. ASSUME NEW i \in 1 .. t
      PROVE  ResultOf(i, results[i])'
  <2>1. i \in 1 .. t - 1 \/ i = t
    OBVIOUS
  <2>2. PICK x : x = results'[i]
    OBVIOUS
  <2>3. i \in 1 .. Len(plan) /\ ResultOf(i, x)
    BY <1>2, <1>3, <2>1, <2>2 DEF Recorded
  <2>4. ResultOf(i, x)'
    BY <2>3, ResultStays, JobsPersist
  <2> QED
    BY <2>2, <2>4
<1> QED
  BY <1>2, <1>3, <1>4 DEF Recorded

\* The questions of the task are read, or the task ends without any.
LEMMA LoadTaskKeeps ==
  ASSUME Inv, LoadTask
  PROVE  Inv'
<1> USE DEF Inv
<1>1. main.pc = "load" /\ Silent /\ UNCHANGED <<plan, cur, jobs, resultCh, ui, exit>>
  BY DEF LoadTask
<1>2. main.pc \in Working /\ main.pc \notin {"queue", "shutdown", "taskend", "write"} \cup Asking \cup Ending
  BY <1>1 DEF Working, Asking, Ending
<1>3. /\ Planned /\ PlanOK /\ Len(results) = main.task - 1 /\ main.task \in 1 .. Len(plan)
      /\ exit # "ok" /\ exit \in {None, "ok", "error"} /\ main.q <= MaxQuestions
  BY <1>1, <1>2 DEF Control
<1>4. PICK t \in Nat \ {0} : t = main.task
  BY <1>2, UnderWay
<1>5. Task \in TaskConfigs(Agents) /\ Task = plan[t] /\ Shown = t /\ ShownId = plan[t].id
      /\ Task.questions \in 0 .. MaxQuestions
  BY <1>2, <1>4, UnderWay
<1>6. Width = 0
  BY <1>2, <1>3, <1>4, <1>5 DEF Width
<1>7. cur = NoTask /\ resultCh = <<>> /\ CurOK(cur)
  BY <1>1 DEF Answers
<1>8. Calm /\ \A j \in JobIds : jobs[j].st # "none" => j[1] < t
  <2>1. Calm
    BY <1>2, CalmOutside
  <2>2. \A j \in JobIds : jobs[j].st # "none" => j[1] < t
    BY <1>1, <1>2, <1>4 DEF JobsRun, Reached, Asking
  <2> QED
    BY <2>1, <2>2
<1>9. ~closed
  BY <1>2 DEF Channel
<1>10. Channel'
  BY <1>1, <1>9, ChannelStays
<1>11. PlanOK' /\ Planned'
  <2>1. main'.asked = main.asked
    BY DEF LoadTask, Goto, Control, Mains
  <2> QED
    BY <1>1, <1>3, <2>1 DEF PlanOK, Planned
<1>12. ASSUME main'.task = t, main'.pc \in {"queue", "taskend"}
       PROVE  JobsRun' /\ Shown' = t /\ ShownId' = ShownId /\ OldIds' = OldIds /\ Found' = Found
  <2>1. JobsRun'
    BY <1>1, <1>8, <1>12, JobsStay
  <2>2. Shown' = t
    BY <1>12 DEF Shown, Working
  <2> QED
    BY <1>1, <1>5, <2>1, <2>2 DEF ShownId, OldIds, Found, FoundIn
<1>13. (\A q \in Questions : cur.results[q] = None) /\ CurOK(cur)' /\ resultCh' = <<>>
       /\ <<>> \in Seq([q : Questions, outcome : Outcomes]) /\ Len(<<>>) <= MaxQuestions
  BY <1>1, <1>7, NoTaskOK, ConstantsAssumption DEF CurOK
<1>14. CASE results' = Append(results, TaskResult("error", "not_loaded")) /\ main' = Goto("taskend")
  <2>1. main'.pc = "taskend" /\ main'.task = t /\ main'.q = main.q /\ main' \in Mains /\ main'.asked = main.asked
    <3>1. "taskend" \in Pcs
      BY DEF Pcs, Working
    <3> QED
      BY <1>4, <1>14, <3>1, GotoIs
  <2> DEFINE r == TaskResult("error", "not_loaded")
  <2>2. r = [id |-> plan[t].id, agent |-> plan[t].agent, status |-> "error", reason |-> "not_loaded",
             questions |-> 0, correct |-> cur.correct, outcomes |-> cur.results]
    BY <1>5 DEF TaskResult
  <2>3. 0 \in 0 .. MaxQuestions /\ plan[t].id \in TaskIds /\ plan[t].agent \in Agents
    BY <1>5, ConstantsAssumption DEF TaskConfigs
  <2>4. cur \in CurRecords /\ cur.correct = Cardinality(Of(cur.results, "correct"))
    BY <1>7 DEF CurOK
  <2> HIDE DEF r
  <2>5. r \in ResultRecords
    BY <2>2, <2>3, <2>4 DEF ResultRecords, CurRecords
  <2>6. r.status = "error" /\ r.questions = 0 /\ r.correct = cur.correct /\ r.outcomes = cur.results
        /\ r.id = plan[t].id /\ r.agent = plan[t].agent
    BY <2>2
  <2>7. \A q \in Questions : ~(q <= 0)
    BY ConstantsAssumption DEF Questions
  <2>8. Judged(r)
    BY <1>13, <2>4, <2>6, <2>7 DEF Judged
  <2>9. ResultOf(main.task, r)
    BY <1>4, <1>13, <2>5, <2>6, <2>8 DEF ResultOf
  <2>10. Recorded' /\ Len(results') = t /\ results'[t] = r
    BY <1>1, <1>3, <1>4, <1>14, <2>9, ResultAdded DEF r
  <2>11. JobsRun' /\ Shown' = t /\ ShownId' = ShownId /\ OldIds' = OldIds /\ Found' = Found
    BY <1>12, <2>1
  <2>12. Width' = 0
    BY <2>1, <2>6, <2>10, <2>11 DEF Width, Asking
  <2>13. Screen'
    BY <1>1, <1>6, <2>11, <2>12, ScreenStays DEF ViewStays, Silent
  <2>14. Control'
    BY <1>1, <1>3, <1>4, <1>11, <2>1, <2>10 DEF Control, Working, Ending, Asking
  <2>15. Answers'
    BY <1>1, <1>13, <2>1 DEF Answers, Asking
  <2> QED
    BY <1>10, <2>10, <2>11, <2>13, <2>14, <2>15
<1>15. CASE Task.questions > 0 /\ main' = [main EXCEPT !.pc = "queue", !.q = 1] /\ UNCHANGED results
  <2>1. main'.pc = "queue" /\ main'.task = t /\ main'.q = 1 /\ main' \in Mains /\ main'.asked = main.asked
    <3>1. "queue" \in Pcs /\ 1 \in Nat
      BY DEF Pcs, Working
    <3> QED
      BY <1>4, <1>15, <3>1, NextIs
  <2>2. PICK n \in Nat : n = Task.questions /\ n <= MaxQuestions
    BY <1>5, ConstantsAssumption
  <2>3. Task' = Task /\ 1 \in 1 .. n /\ 1 <= MaxQuestions
    BY <1>1, <1>4, <1>15, <2>1, <2>2, ConstantsAssumption DEF Task
  <2>4. JobsRun' /\ Shown' = t /\ ShownId' = ShownId /\ OldIds' = OldIds /\ Found' = Found
    BY <1>12, <2>1
  <2>5. Width' = n
    BY <2>1, <2>2, <2>3 DEF Width
  <2>6. Control'
    BY <1>1, <1>3, <1>4, <1>11, <1>15, <2>1, <2>2, <2>3 DEF Control, Working, Ending, Asking
  <2>7. Answers'
    BY <1>1, <1>7, <1>13, <2>1 DEF Answers, Asking
  <2>8. Recorded'
    BY <1>1, <1>15, RecordedStays, JobsPersist
  <2>9. Screen'
    <3> SUFFICES ASSUME dropped = 0, ui.pc # "died"
                 PROVE  Seen(events, ui, ShownId, OldIds, n, Found)
      BY <1>1, <2>4, <2>5 DEF Screen, Silent
    <3>1. Seen(events, ui, ShownId, OldIds, 0, Found)
      BY <1>6 DEF Screen
    <3>2. EvsOK(events) /\ ui.rows \in Seq(RowRecords)
      BY DEF Channel, EvsOK, ScreenOK, ScreenRecords
    <3>3. 0 \in Nat /\ 0 <= n
      OBVIOUS
    <3> QED
      BY <3>1, <3>2, <3>3, SeenWider
  <2> QED
    BY <1>10, <2>4, <2>6, <2>7, <2>8, <2>9
<1> QED
  BY <1>14, <1>15 DEF LoadTask

\* The command tells the UI of a question whose job does not exist yet.
LEMMA EmitTold ==
  ASSUME Inv, main.pc \in {"queue", "announce"}, NEW ty \in {"queued", "scheduled"}, Emit(main.q, ty),
         jobs[<<main.task, main.q>>].st = "none", UNCHANGED <<plan, jobs, ui>>,
         main'.task = main.task, main'.pc \in {"queue"} \cup Asking
  PROVE  Channel' /\ Screen'
<1> USE DEF Inv
<1>1. main.pc \in Working /\ main'.pc \in Working /\ main.pc \in {"queue"} \cup Asking
      /\ main.pc \notin {"write"} \cup Ending
  BY DEF Working, Asking, Ending
<1>2. PICK t \in Nat \ {0} : t = main.task /\ t \in 1 .. Len(plan)
  BY <1>1, UnderWay
<1>3. Task = plan[t] /\ Shown = t /\ ShownId = plan[t].id /\ ShownId \in TaskIds /\ ShownId # None
      /\ Task.questions \in 0 .. MaxQuestions
  BY <1>1, <1>2, UnderWay
<1>4. PICK n \in Nat : n = Task.questions /\ n <= MaxQuestions
  BY <1>3, ConstantsAssumption
<1>5. PICK m \in 1 .. n : m = main.q
  BY <1>1, <1>4 DEF Control
<1>6. m \in Questions /\ m \in 0 .. MaxQuestions
  BY <1>4, <1>5, ConstantsAssumption DEF Questions
<1> DEFINE e == Ev("question", plan[t].id, m, ty)
<1>7. e = [kind |-> "question", task |-> ShownId, q |-> m, type |-> ty] /\ Send(e)
  BY <1>2, <1>3, <1>5 DEF Ev, Emit, EmitFor
<1>8. ty \in Statuses /\ ty \notin Terminal
  BY DEF Statuses, Terminal, Outcomes
<1> HIDE DEF e
<1>9. e.kind = "question" /\ e.q = m /\ e.type = ty /\ e.task = ShownId
  BY <1>7
<1>10. e \in EventRecords
  BY <1>3, <1>6, <1>7, <1>8 DEF EventRecords
<1>11. EventOK(e)
  BY <1>6, <1>8, <1>9, <1>10 DEF EventOK
<1>12. ~closed
  BY <1>1 DEF Channel
<1>13. Channel' /\ Sent(e)
  BY <1>7, <1>11, <1>12, ChannelSent
<1>14. Shown' = t
  BY <1>1, <1>2 DEF Shown
<1>15. ShownId' = ShownId /\ OldIds' = OldIds /\ Found' = Found
  BY <1>3, <1>14 DEF ShownId, OldIds, Found, FoundIn
<1>16. Width = n /\ Width' = n
  <2>1. Task' = Task
    BY DEF Task
  <2> QED
    BY <1>1, <1>4, <2>1 DEF Width
<1>17. Found[m] = None
  BY <1>2, <1>3, <1>5, <1>6 DEF Found, FoundIn, Settled
<1>18. Finds(e, Found, Found')
  <2>1. Found \in [Questions -> Outcomes \cup {None}]
    BY ViewTyped
  <2> QED
    BY <1>8, <1>9, <1>15, <1>17, <2>1 DEF Finds, Tells
<1>19. e.q <= Width
  BY <1>5, <1>9, <1>16
<1>20. Screen'
  BY <1>3, <1>9, <1>11, <1>13, <1>15, <1>16, <1>18, <1>19, ScreenQuestion
<1> QED
  BY <1>13, <1>20

\* What the command knows while it asks.
LEMMA AskingKnows ==
  ASSUME Control, main.pc \in {"queue", "shutdown"} \cup Asking
  PROVE  /\ main.pc \in Working \ {"taskend", "load"} /\ main.pc \notin {"write"} \cup Ending
         /\ PlanOK /\ Planned /\ main.task \in 1 .. Len(plan) /\ Len(results) = main.task - 1
         /\ exit # "ok" /\ exit \in {None, "ok", "error"}
         /\ main.q \in 1 .. Task.questions /\ Task.questions \in Nat /\ Task.questions <= MaxQuestions
         /\ Task.workers \in Nat \ {0}
         /\ main.task \in Nat \ {0}
<1>1. main.pc \in Working \ {"taskend", "load"} /\ main.pc \notin {"write"} \cup Ending
  BY DEF Working, Asking, Ending
<1>2. PICK m \in Nat : m = MaxQuestions
  BY ConstantsAssumption
<1>3. Task \in TaskConfigs(Agents) /\ main.task \in Nat \ {0} /\ Task.questions \in 0 .. m
  BY <1>1, <1>2, UnderWay
<1>4. Task.workers \in Nat \ {0}
  BY <1>3 DEF TaskConfigs
<1>5. PlanOK /\ Planned /\ main.task \in 1 .. Len(plan) /\ Len(results) = main.task - 1
         /\ exit # "ok" /\ exit \in {None, "ok", "error"} /\ main.q \in 1 .. Task.questions
  BY <1>1 DEF Control
<1> QED
  BY <1>1, <1>2, <1>3, <1>4, <1>5

LEMMA EmitQueuedKeeps ==
  ASSUME Inv, EmitQueued
  PROVE  Inv'
<1> USE DEF Inv
<1>1. main.pc = "queue" /\ Emit(main.q, "queued") /\ UNCHANGED <<plan, cur, results, jobs, resultCh, ui, exit>>
  BY DEF EmitQueued
<1>2. /\ PlanOK /\ Planned /\ main.task \in 1 .. Len(plan) /\ Len(results) = main.task - 1
      /\ exit # "ok" /\ exit \in {None, "ok", "error"}
      /\ main.q \in 1 .. Task.questions /\ Task.questions \in Nat /\ Task.questions <= MaxQuestions
      /\ Task.workers \in Nat \ {0} /\ main.task \in Nat \ {0}
  BY <1>1, AskingKnows
<1>3. PICK p \in {"queue", "announce"}, v \in Nat : /\ main' = [main EXCEPT !.pc = p, !.q = v]
                                                    /\ v \in 1 .. Task.questions /\ (p = "announce" => v = 1)
  <2>1. CASE main.q < Task.questions
    <3>1. main.q + 1 \in Nat /\ main.q + 1 \in 1 .. Task.questions
      BY <1>2, <2>1
    <3>2. main' = [main EXCEPT !.q = main.q + 1]
      BY <2>1 DEF EmitQueued
    <3>3. main \in Mains
      BY DEF Control
    <3>4. main' = [main EXCEPT !.pc = "queue", !.q = main.q + 1]
      BY <1>1, <3>2, <3>3 DEF Mains
    <3> QED
      BY <3>1, <3>4
  <2>2. CASE ~(main.q < Task.questions)
    <3>1. main' = [main EXCEPT !.pc = "announce", !.q = 1]
      BY <2>2 DEF EmitQueued
    <3>2. 1 \in 1 .. Task.questions
      BY <1>2
    <3> QED
      BY <3>1, <3>2
  <2> QED
    BY <2>1, <2>2
<1>4. main'.pc = p /\ main'.task = main.task /\ main'.q = v /\ main' \in Mains /\ main'.asked = main.asked
  <2>1. p \in Pcs
    BY DEF Pcs, Working
  <2> QED
    BY <1>3, <2>1, NextIs
<1>5. Task' = Task /\ v <= MaxQuestions
  <2>1. Task' = Task
    BY <1>1, <1>4 DEF Task
  <2> QED
    BY <1>2, <1>3, <2>1, ConstantsAssumption
<1>6. PlanOK' /\ Planned'
  BY <1>1, <1>2, <1>4 DEF PlanOK, Planned
<1>7. Control'
  BY <1>1, <1>2, <1>3, <1>4, <1>5, <1>6 DEF Control, Working, Ending, Asking
<1>8. main.pc \notin Asking \cup {"shutdown", "taskend"}
  BY <1>1 DEF Asking
<1>9. Calm /\ \A j \in JobIds : jobs[j].st # "none" => j[1] < main.task
  <2>1. Calm
    BY <1>8, CalmOutside
  <2>2. \A j \in JobIds : jobs[j].st # "none" => j[1] < main.task
    BY <1>1, <1>8 DEF JobsRun, Reached, Asking
  <2> QED
    BY <2>1, <2>2
<1>10. JobsRun'
  BY <1>1, <1>4, <1>9, JobsStay
<1>11. jobs[<<main.task, main.q>>].st = "none"
  <2>1. main.q \in Questions
    BY <1>2, ConstantsAssumption DEF Questions
  <2>2. PICK j \in JobIds : j = <<main.task, main.q>>
    BY <1>2, <2>1, InJobIds
  <2>3. j[1] = main.task
    BY <2>2
  <2> QED
    BY <1>2, <1>9, <2>2, <2>3
<1>12. main'.pc \in {"queue"} \cup Asking
  BY <1>4 DEF Asking
<1>13. Channel' /\ Screen'
  BY <1>1, <1>4, <1>11, <1>12, EmitTold
<1>14. Recorded'
  BY <1>1, RecordedStays, JobsPersist
<1>15. Answers'
  <2>1. cur' = NoTask /\ resultCh' = <<>>
    BY <1>1 DEF Answers
  <2>2. <<>> \in Seq([q : Questions, outcome : Outcomes]) /\ Len(<<>>) <= MaxQuestions
    BY ConstantsAssumption
  <2>3. CurOK(cur)' /\ (\A q \in Questions : cur'.results[q] = None) /\ cur'.got = 0
    BY <2>1, NoTaskOK DEF CurOK, NoTask
  <2>4. OnTheWay'
    BY <2>1 DEF OnTheWay
  <2>5. main'.pc \in Asking => main'.q = 1 /\ main'.pc = "announce"
    BY <1>3, <1>4 DEF Asking
  <2> QED
    BY <1>4, <2>1, <2>2, <2>3, <2>4, <2>5 DEF Answers
<1> QED
  BY <1>7, <1>10, <1>13, <1>14, <1>15

\* The answers on their way while the command goes from one question to the next.
LEMMA AnswersMove ==
  ASSUME Control, Answers, Persist, UNCHANGED <<plan, cur, resultCh>>, main'.task = main.task,
         main.pc \in Asking, main'.pc \in Asking,
         Task.workers = 1 => cur.got = main'.q - 1,
         Task.workers > 1 => IF main'.pc = "collect" THEN main'.q = Task.questions ELSE cur.got = 0
  PROVE  Answers'
<1>1. CurOK(cur)' /\ (resultCh \in Seq([q : Questions, outcome : Outcomes]) /\ Len(resultCh) <= MaxQuestions)'
  BY DEF Answers
<1>2. main'.pc \notin {"load", "queue", "shutdown", "taskend"}
  BY DEF Asking
<1>3. \A q \in Questions : <<main.task, q>> \in JobIds
  BY InJobIds, AskingWorks DEF Control
<1>4. OnTheWay'
  <2> SUFFICES ASSUME NEW k \in DOMAIN resultCh
               PROVE  Reported(<<main.task, resultCh[k].q>>, resultCh[k].outcome)'
    BY DEF Answers, OnTheWay
  <2>1. resultCh[k] \in [q : Questions, outcome : Outcomes]
    <3>1. resultCh \in Seq([q : Questions, outcome : Outcomes])
      BY DEF Answers
    <3> QED
      BY <3>1, ElementOf
  <2>2. <<main.task, resultCh[k].q>> \in JobIds /\ resultCh[k].outcome \in Outcomes
    BY <2>1, <1>3
  <2>3. Reported(<<main.task, resultCh[k].q>>, resultCh[k].outcome)
    BY DEF Answers, OnTheWay
  <2> QED
    BY <2>2, <2>3 DEF Persist, Reported
<1>5. ASSUME NEW q \in Questions, cur.results[q] # None
      PROVE  Reported(<<main.task, q>>, cur.results[q])'
  <2>1. Reported(<<main.task, q>>, cur.results[q])
    BY <1>5 DEF Answers
  <2>2. cur.results[q] \in Outcomes
    BY <1>5 DEF Answers, CurOK, CurRecords
  <2> QED
    BY <2>1, <2>2, <1>3 DEF Persist, Reported
<1>6. Task' = Task
  BY DEF Task
<1> QED
  BY <1>1, <1>2, <1>4, <1>5, <1>6 DEF Answers

\* A question is announced before its job exists.
LEMMA AnnounceKeeps ==
  ASSUME Inv, Announce
  PROVE  Inv'
<1> USE DEF Inv
<1>1. main.pc = "announce" /\ Emit(main.q, "scheduled") /\ main' = Goto("submit")
      /\ UNCHANGED <<plan, cur, results, jobs, resultCh, ui, exit>>
  BY DEF Announce
<1>2. main.pc \in Asking /\ "submit" \in Asking /\ "submit" \in Pcs
  BY <1>1 DEF Asking, Pcs, Working
<1>3. /\ PlanOK /\ Planned /\ main.task \in 1 .. Len(plan) /\ Len(results) = main.task - 1
      /\ exit # "ok" /\ exit \in {None, "ok", "error"} /\ main.q <= MaxQuestions
      /\ main.q \in 1 .. Task.questions /\ Task.questions \in Nat /\ Task.questions <= MaxQuestions
      /\ Task.workers \in Nat \ {0} /\ main.task \in Nat \ {0}
  BY <1>2, AskingKnows DEF Control
<1>4. main'.pc = "submit" /\ main'.task = main.task /\ main'.q = main.q /\ main' \in Mains /\ main'.asked = main.asked
  BY <1>1, <1>2, GotoIs
<1>5. PlanOK' /\ Planned' /\ Task' = Task
  BY <1>1, <1>3, <1>4 DEF PlanOK, Planned, Task
<1>6. Control'
  BY <1>1, <1>3, <1>4, <1>5 DEF Control, Working, Ending, Asking
<1>7. \A j \in JobIds : jobs[j].st # "none" => j[1] < main.task \/ (j[1] = main.task /\ j[2] < main.q)
  BY <1>1 DEF JobsRun, Reached
<1>8. JobsRun'
  BY <1>1, <1>2, <1>4, <1>7, JobsStay DEF Reached
<1>9. jobs[<<main.task, main.q>>].st = "none"
  <2>1. main.q \in Questions
    BY <1>3, ConstantsAssumption DEF Questions
  <2>2. PICK j \in JobIds : j = <<main.task, main.q>>
    BY <1>3, <2>1, InJobIds
  <2>3. j[1] = main.task /\ j[2] = main.q /\ main.task \in Nat /\ main.q \in Nat
    BY <1>3, <2>2
  <2> QED
    BY <1>7, <2>2, <2>3
<1>10. Channel' /\ Screen'
  BY <1>1, <1>2, <1>4, <1>9, EmitTold
<1>11. Recorded' /\ Persist
  BY <1>1, RecordedStays, JobsPersist
<1>12. Answers'
  <2>1. Task.workers = 1 => cur.got = main'.q - 1
    BY <1>2, <1>4 DEF Answers
  <2>2. Task.workers > 1 => cur.got = 0
    BY <1>1, <1>2 DEF Answers
  <2> QED
    BY <1>1, <1>2, <1>4, <1>11, <2>1, <2>2, AnswersMove
<1> QED
  BY <1>6, <1>8, <1>10, <1>11, <1>12

\* The job goes to the scheduler; with one worker its answer is waited for.
LEMMA SubmitKeeps ==
  ASSUME Inv, Submit
  PROVE  Inv'
<1> USE DEF Inv
<1>1. main.pc = "submit" /\ SubmitJob(Job) /\ Silent /\ UNCHANGED <<plan, cur, results, resultCh, ui, exit>>
  BY DEF Submit
<1>2. main.pc \in Asking
  BY <1>1 DEF Asking
<1>3. /\ PlanOK /\ Planned /\ main.task \in 1 .. Len(plan) /\ Len(results) = main.task - 1
      /\ exit # "ok" /\ exit \in {None, "ok", "error"} /\ main.q <= MaxQuestions
      /\ main.q \in 1 .. Task.questions /\ Task.questions \in Nat /\ Task.questions <= MaxQuestions
      /\ Task.workers \in Nat \ {0} /\ main.task \in Nat \ {0}
      /\ main.pc \in Working /\ main.pc \notin {"write"} \cup Ending
  BY <1>2, AskingKnows DEF Control
<1>4. PICK p \in {"announce", "collect"}, v \in 1 .. Task.questions :
        /\ main'.pc = p /\ main'.task = main.task /\ main'.q = v /\ main' \in Mains /\ main'.asked = main.asked
        /\ IF p = "announce" THEN Task.workers > 1 /\ v = main.q + 1
           ELSE v = main.q /\ (Task.workers > 1 => v = Task.questions)
  <2>1. CASE Task.workers > 1 /\ main.q < Task.questions
    <3>1. main' = [main EXCEPT !.pc = "announce", !.q = main.q + 1]
      BY <2>1 DEF Submit
    <3>2. main.q + 1 \in 1 .. Task.questions /\ main.q + 1 \in Nat
      BY <1>3, <2>1
    <3>3. "announce" \in Pcs
      BY DEF Pcs, Working
    <3>4. main'.pc = "announce" /\ main'.task = main.task /\ main'.q = main.q + 1
          /\ main' \in Mains /\ main'.asked = main.asked
      BY <3>1, <3>2, <3>3, NextIs
    <3> QED
      BY <2>1, <3>2, <3>4
  <2>2. CASE ~(Task.workers > 1 /\ main.q < Task.questions)
    <3>1. main' = Goto("collect") /\ "collect" \in Pcs
      BY <2>2 DEF Submit, Pcs, Working
    <3>2. main'.pc = "collect" /\ main'.task = main.task /\ main'.q = main.q
          /\ main' \in Mains /\ main'.asked = main.asked
      BY <3>1, GotoIs
    <3>3. Task.workers > 1 => main.q = Task.questions
      BY <1>3, <2>2
    <3> QED
      BY <1>3, <3>2, <3>3
  <2> QED
    BY <2>1, <2>2
<1>5. PlanOK' /\ Planned' /\ Task' = Task /\ v <= MaxQuestions
  <2>1. PlanOK' /\ Planned' /\ Task' = Task
    BY <1>1, <1>3, <1>4 DEF PlanOK, Planned, Task
  <2>2. v <= MaxQuestions
    BY <1>3, <1>4, ConstantsAssumption
  <2> QED
    BY <2>1, <2>2
<1>6. Control'
  BY <1>1, <1>3, <1>4, <1>5 DEF Control, Working, Ending, Asking
<1>7. PICK j \in JobIds : j = <<main.task, main.q>> /\ j = Job /\ j[1] = main.task /\ j[2] = main.q
  <2>1. main.q \in Questions
    BY <1>3, ConstantsAssumption DEF Questions
  <2> QED
    BY <1>3, <2>1, InJobIds DEF Job
<1>8. \A i \in JobIds : jobs[i].st # "none" => i[1] < main.task \/ (i[1] = main.task /\ i[2] < main.q)
  BY <1>1 DEF JobsRun, Reached
<1>9. jobs[j] = NoJob
  <2>1. main.task \in Nat /\ main.q \in Nat
    BY <1>3
  <2>2. jobs[j].st = "none"
    BY <1>7, <1>8, <2>1
  <2> QED
    BY <2>2 DEF JobsRun, JobOK
<1> DEFINE b == [st |-> "queued", retries |-> 0, tools |-> 0, outcome |-> None]
<1>10. jobs' = [jobs EXCEPT ![j] = b]
  <2>1. jobs' = [jobs EXCEPT ![j] = [jobs[j] EXCEPT !.st = "queued"]]
    BY <1>1, <1>7 DEF SubmitJob
  <2>2. [jobs[j] EXCEPT !.st = "queued"] = b
    BY <1>9 DEF NoJob
  <2> QED
    BY <2>1, <2>2
<1>11. JobOK(b) /\ b.st = "queued"
  BY DEF JobOK, JobRecords, JobStates, Settled
<1> HIDE DEF b
<1>12. DOMAIN jobs' = JobIds /\ jobs'[j] = b /\ \A i \in JobIds : i # j => jobs'[i] = jobs[i]
  BY <1>10 DEF JobsRun
<1>13. \A i \in JobIds : i[2] \in Nat /\ i[1] \in Nat
  BY ConstantsAssumption DEF JobIds, Questions
<1>14. JobsRun'
  <2>1. ASSUME NEW i \in JobIds
        PROVE  JobOK(jobs'[i])
    BY <1>11, <1>12 DEF JobsRun
  <2>2. ASSUME NEW i \in JobIds, jobs'[i].st \notin {"none", "completing", "done"}
        PROVE  i[1] = main'.task /\ main'.pc \in Asking
    BY <1>4, <1>7, <1>12, <2>2 DEF JobsRun, Asking
  <2>3. ASSUME NEW i \in JobIds, jobs'[i].st # "none"
        PROVE  /\ i[1] \in 1 .. Len(plan') /\ i[2] <= plan'[i[1]].questions
               /\ i[1] < main'.task \/ (i[1] = main'.task /\ Reached(i[2])')
    <3>1. CASE i = j
      <4>1. i[1] \in 1 .. Len(plan') /\ i[2] <= plan'[i[1]].questions
        BY <1>1, <1>3, <1>7, <3>1 DEF Task
      <4>2. IF main'.pc = "announce" THEN main.q < main'.q ELSE main'.pc = "collect" /\ main.q <= main'.q
        BY <1>3, <1>4
      <4>3. Reached(i[2])'
        BY <1>4, <1>7, <3>1, <4>2 DEF Reached
      <4> QED
        BY <1>4, <1>7, <3>1, <4>1, <4>3
    <3>2. CASE i # j
      <4>1. jobs[i].st # "none"
        BY <1>12, <2>3, <3>2
      <4>2. i[1] \in 1 .. Len(plan') /\ i[2] <= plan'[i[1]].questions
        BY <1>1, <4>1 DEF JobsRun
      <4>3. CASE i[1] < main.task
        BY <1>4, <4>2, <4>3
      <4>4. CASE i[1] = main.task /\ i[2] < main.q
        <5>1. IF main'.pc = "announce" THEN i[2] < main'.q ELSE main'.pc = "collect" /\ i[2] <= main'.q
          BY <1>3, <1>4, <1>13, <4>4
        <5>2. Reached(i[2])'
          BY <1>4, <5>1 DEF Reached
        <5> QED
          BY <1>4, <4>2, <4>4, <5>2
      <4> QED
        BY <1>8, <4>1, <4>3, <4>4
    <3> QED
      BY <3>1, <3>2
  <2> QED
    BY <1>12, <2>1, <2>2, <2>3 DEF JobsRun, JobOK
<1>15. Persist
  BY <1>9, <1>12 DEF Persist, Reported, NoJob
<1>16. Recorded'
  BY <1>1, <1>15, RecordedStays
<1>17. Answers'
  <2>1. main'.pc \in Asking /\ (Task.workers > 1 => IF main'.pc = "collect" THEN main'.q = Task.questions ELSE cur.got = 0)
    BY <1>1, <1>2, <1>4 DEF Answers, Asking
  <2>2. Task.workers = 1 => cur.got = main'.q - 1
    BY <1>2, <1>3, <1>4 DEF Answers
  <2> QED
    BY <1>1, <1>2, <1>4, <1>15, <2>1, <2>2, AnswersMove
<1>18. Channel'
  <2>1. ~closed
    BY <1>3 DEF Channel
  <2> QED
    BY <1>1, <2>1, ChannelStays
<1>19. Screen'
  <2>1. Shown' = main.task /\ Shown = main.task
    BY <1>3, <1>4 DEF Shown, Working
  <2>2. ShownId' = ShownId /\ OldIds' = OldIds
    BY <1>1, <2>1 DEF ShownId, OldIds
  <2>3. Width' = Width
    BY <1>2, <1>4, <1>5 DEF Width, Asking
  <2>4. \A i \in JobIds : /\ jobs'[i].st \in Settled <=> jobs[i].st \in Settled
                          /\ jobs[i].st \in Settled => jobs'[i].outcome = jobs[i].outcome
    BY <1>9, <1>11, <1>12 DEF Settled, NoJob
  <2>5. \A q \in Questions : <<main.task, q>> \in JobIds
    BY <1>3, InJobIds
  <2>6. Found' = Found
    BY <2>1, <2>4, <2>5 DEF Found, FoundIn
  <2> QED
    BY <1>1, <2>2, <2>3, <2>6, ScreenStays DEF ViewStays, Silent
<1> QED
  BY <1>6, <1>14, <1>16, <1>17, <1>18, <1>19

\* The counters of the runner are bounded by the questions.
LEMMA KeptCounts ==
  ASSUME NEW c, CurOK(c)
  PROVE  /\ IsFiniteSet(Kept(c)) /\ \A o : IsFiniteSet(Of(c.results, o))
         /\ c.correct \in 0 .. c.got /\ c.got \in 0 .. MaxQuestions
<1>1. PICK m \in Nat : m = MaxQuestions
  BY ConstantsAssumption
<1>2. IsFiniteSet(Questions) /\ Cardinality(Questions) = m
  <2>1. IsFiniteSet(1 .. m) /\ Cardinality(1 .. m) = IF 1 > m THEN 0 ELSE m - 1 + 1
    BY <1>1, FS_Interval
  <2> QED
    BY <1>1, <2>1 DEF Questions
<1>3. Kept(c) \subseteq Questions /\ \A o : Of(c.results, o) \subseteq Questions
  BY DEF Kept, Of
<1>4. IsFiniteSet(Kept(c)) /\ Cardinality(Kept(c)) <= Cardinality(Questions)
  BY <1>2, <1>3, FS_Subset
<1>5. \A o : IsFiniteSet(Of(c.results, o))
  BY <1>2, <1>3, FS_Subset
<1>6. Of(c.results, "correct") \subseteq Kept(c)
  <2>1. None # "correct"
    BY InputsAssumption DEF Statuses, Terminal, Outcomes
  <2> QED
    BY <2>1 DEF Of, Kept
<1>7. Cardinality(Of(c.results, "correct")) <= Cardinality(Kept(c))
  BY <1>4, <1>6, FS_Subset
<1>8. PICK g, k \in Nat : g = Cardinality(Kept(c)) /\ k = Cardinality(Of(c.results, "correct"))
  BY <1>4, <1>5, FS_CardinalityType
<1>9. c.got = g /\ c.correct = k
  BY <1>8 DEF CurOK
<1> QED
  BY <1>1, <1>2, <1>4, <1>5, <1>7, <1>8, <1>9

LEMMA CurTyped ==
  ASSUME NEW f \in [Questions -> Outcomes \cup {None}], NEW n \in Nat, NEW g \in Nat,
         NEW re \in BOOLEAN, NEW be \in BOOLEAN
  PROVE  [results |-> f, correct |-> n, got |-> g, runtimeError |-> re, budgetExceeded |-> be] \in CurRecords
BY DEF CurRecords

\* d is c with the result of a question that had none.
Collected(c, q, o, d) ==
  d = [results |-> [c.results EXCEPT ![q] = o],
         correct |-> c.correct + (IF o = "correct" THEN 1 ELSE 0),
         got |-> c.got + 1,
         runtimeError |-> c.runtimeError \/ o = "runtime_error",
         budgetExceeded |-> c.budgetExceeded \/ o = "budget_exceeded"]

LEMMA CurCollects ==
  ASSUME NEW c, CurOK(c), NEW q \in Questions, NEW o \in Outcomes, c.results[q] = None, NEW d, Collected(c, q, o, d)
  PROVE  /\ CurOK(d) /\ d.got = c.got + 1
         /\ d.results[q] = o /\ \A p \in Questions : p # q => d.results[p] = c.results[p]
<1> DEFINE f == [c.results EXCEPT ![q] = o]
<1>1. c \in CurRecords /\ c.results \in [Questions -> Outcomes \cup {None}]
  BY DEF CurOK, CurRecords
<1>2. f \in [Questions -> Outcomes \cup {None}] /\ f[q] = o /\ \A p \in Questions : p # q => f[p] = c.results[p]
  BY <1>1
<1>3. d.results = f
  BY DEF Collected
<1> HIDE DEF f
<1>4. PICK g, k \in Nat : g = c.got /\ k = c.correct
  BY <1>1 DEF CurRecords
<1>5. None \notin Outcomes /\ None # "correct" /\ None # "runtime_error"
  BY InputsAssumption DEF Statuses, Terminal, Outcomes
<1>6. Kept(d) = Kept(c) \cup {q} /\ q \notin Kept(c)
  BY <1>2, <1>3, <1>5 DEF Kept
<1>7. IsFiniteSet(Kept(c)) /\ \A x : IsFiniteSet(Of(c.results, x))
  BY KeptCounts
<1>8. Cardinality(Kept(d)) = g + 1
  <2>1. Cardinality(Kept(c)) = g
    BY <1>4 DEF CurOK
  <2> QED
    BY <1>6, <1>7, <2>1, FS_AddElement
<1>9. Cardinality(Of(c.results, "correct")) = k
  BY <1>4 DEF CurOK
<1> DEFINE re == c.runtimeError \/ o = "runtime_error"
           be == c.budgetExceeded \/ o = "budget_exceeded"
           n == IF o = "correct" THEN k + 1 ELSE k
<1>10. re \in BOOLEAN /\ be \in BOOLEAN /\ n \in Nat
  OBVIOUS
<1>11. n = k + (IF o = "correct" THEN 1 ELSE 0)
  OBVIOUS
<1>12. d = [results |-> f, correct |-> n, got |-> g + 1, runtimeError |-> re, budgetExceeded |-> be]
  <2> HIDE DEF n
  <2> QED
    BY <1>4, <1>11 DEF f, Collected
<1>13. Cardinality(Of(f, "correct")) = n
  <2>1. CASE o = "correct"
    <3>1. Of(f, "correct") = Of(c.results, "correct") \cup {q} /\ q \notin Of(c.results, "correct")
      BY <1>2, <1>5, <2>1 DEF Of
    <3> QED
      BY <1>7, <1>9, <2>1, <3>1, FS_AddElement
  <2>2. CASE o # "correct"
    <3>1. Of(f, "correct") = Of(c.results, "correct")
      BY <1>2, <1>5, <2>2 DEF Of
    <3> QED
      BY <1>9, <2>2, <3>1
  <2> QED
    BY <2>1, <2>2
<1>14. Of(f, "runtime_error") # {} => re
  <2>1. CASE o = "runtime_error"
    BY <2>1
  <2>2. CASE o # "runtime_error"
    <3>1. Of(f, "runtime_error") = Of(c.results, "runtime_error")
      BY <1>2, <1>5, <2>2 DEF Of
    <3> QED
      BY <3>1 DEF CurOK
  <2> QED
    BY <2>1, <2>2
<1> HIDE DEF re, be, n
<1>15. d.got = g + 1 /\ d.correct = n /\ d.results = f /\ d.runtimeError = re
  BY <1>12
<1>16. d \in CurRecords
  <2>1. g + 1 \in Nat
    OBVIOUS
  <2> DEFINE x == g + 1
  <2>2. [results |-> f, correct |-> n, got |-> x, runtimeError |-> re, budgetExceeded |-> be] \in CurRecords
    <3> HIDE DEF x, f
    <3>1. x \in Nat
      BY <2>1 DEF x
    <3>2. f \in [Questions -> Outcomes \cup {None}]
      BY <1>2
    <3> QED
      BY <1>10, <3>1, <3>2, CurTyped, Zenon
  <2> QED
    BY <1>12, <2>2, Zenon
<1>17. CurOK(d)
  BY <1>8, <1>13, <1>14, <1>15, <1>16 DEF CurOK
<1> QED
  BY <1>2, <1>4, <1>15, <1>17

\* The questions whose results are kept are questions of the task.
LEMMA KeptAsked ==
  ASSUME Control, JobsRun, NEW t \in 1 .. Len(plan), NEW f \in [Questions -> Outcomes \cup {None}],
         \A q \in Questions : f[q] # None => Reported(<<t, q>>, f[q])
  PROVE  \A q \in Questions : f[q] # None => q \in 1 .. plan[t].questions
<1> SUFFICES ASSUME NEW q \in Questions, f[q] # None
             PROVE  q \in 1 .. plan[t].questions
  OBVIOUS
<1>1. PICK j \in JobIds : j = <<t, q>> /\ j[1] = t /\ j[2] = q
  BY InJobIds
<1>2. jobs[j].st # "none"
  BY <1>1 DEF Reported
<1>3. q <= plan[t].questions
  BY <1>1, <1>2 DEF JobsRun
<1>4. plan[t] \in TaskConfigs(Agents)
  <2>1. plan \in Seq(TaskConfigs(Agents)) /\ t \in DOMAIN plan
    BY DEF Control, PlanOK
  <2> QED
    BY <2>1, ElementOf
<1>5. PICK m \in Nat : m = MaxQuestions
  BY ConstantsAssumption
<1>6. plan[t].questions \in 0 .. m /\ q \in 1 .. m
  BY <1>4, <1>5 DEF TaskConfigs, Questions
<1> QED
  BY <1>3, <1>6

\* A result arrives: it is kept for its own question, and the last ends the asking.
LEMMA CollectKeeps ==
  ASSUME Inv, Collect
  PROVE  Inv'
<1> USE DEF Inv
<1> DEFINE h == Head(resultCh)
           S == [q : Questions, outcome : Outcomes]
<1>1. main.pc = "collect" /\ resultCh # <<>> /\ resultCh' = Tail(resultCh) /\ Silent
      /\ UNCHANGED <<plan, results, jobs, ui, exit>>
  BY DEF Collect
<1>2. main.pc \in Asking
  BY <1>1 DEF Asking
<1>3. /\ PlanOK /\ Planned /\ main.task \in 1 .. Len(plan) /\ Len(results) = main.task - 1
      /\ exit # "ok" /\ exit \in {None, "ok", "error"} /\ main.q <= MaxQuestions
      /\ main.q \in 1 .. Task.questions /\ Task.questions \in Nat /\ Task.questions <= MaxQuestions
      /\ Task.workers \in Nat \ {0} /\ main.task \in Nat \ {0}
      /\ main.pc \in Working /\ main.pc \notin {"write"} \cup Ending
  BY <1>2, AskingKnows DEF Control
<1>4. resultCh \in Seq(S) /\ CurOK(cur) /\ OnTheWay
  BY <1>2 DEF Answers
<1>5. PICK n \in Nat : n = Len(resultCh) /\ n # 0
  BY <1>1, <1>4
<1>6. DOMAIN resultCh = 1 .. n /\ h = resultCh[1] /\ 1 \in 1 .. n
  BY <1>1, <1>4, <1>5
<1>7. DOMAIN resultCh' = 1 .. n - 1 /\ resultCh' \in Seq(S) /\ Len(resultCh') = n - 1
      /\ \A k \in 1 .. n - 1 : resultCh'[k] = resultCh[k + 1] /\ k + 1 \in 1 .. n
  BY <1>1, <1>4, <1>5
<1>8. \A k \in 1 .. n : /\ resultCh[k] \in S /\ resultCh[k].q \in Questions /\ resultCh[k].outcome \in Outcomes
                        /\ Reported(<<main.task, resultCh[k].q>>, resultCh[k].outcome)
                        /\ cur.results[resultCh[k].q] = None
                        /\ \A l \in 1 .. n : resultCh[k].q = resultCh[l].q => k = l
  <2>1. \A k \in 1 .. n : resultCh[k] \in S
    BY <1>4, <1>6, ElementOf
  <2> QED
    BY <1>4, <1>6, <2>1 DEF OnTheWay
<1>9. PICK m \in Questions, o \in Outcomes : m = h.q /\ o = h.outcome
  BY <1>6, <1>8
<1>10. Reported(<<main.task, m>>, o) /\ cur.results[m] = None
       /\ \A k \in 1 .. n - 1 : resultCh'[k].q # m
  <2>1. Reported(<<main.task, m>>, o) /\ cur.results[m] = None
    BY <1>6, <1>8, <1>9
  <2>2. ASSUME NEW k \in 1 .. n - 1
        PROVE  resultCh'[k].q # m
    <3>1. k + 1 \in 1 .. n /\ k + 1 # 1 /\ resultCh'[k] = resultCh[k + 1]
      BY <1>7
    <3> QED
      BY <1>6, <1>8, <1>9, <3>1
  <2> QED
    BY <2>1, <2>2
<1> HIDE DEF S
<1>11. CurOK(cur') /\ cur'.got = cur.got + 1
       /\ cur'.results[m] = o /\ \A p \in Questions : p # m => cur'.results[p] = cur.results[p]
  <2>1. PICK c, d : c = cur /\ d = cur'
    OBVIOUS
  <2>2. Collected(c, m, o, d)
    BY <1>9, <2>1 DEF Collect, Place, Collected
  <2>3. CurOK(d) /\ d.got = c.got + 1
        /\ d.results[m] = o /\ \A p \in Questions : p # m => d.results[p] = c.results[p]
    BY <1>4, <1>10, <2>1, <2>2, CurCollects
  <2> QED
    BY <2>1, <2>3
<1>12. PICK g \in Nat : g = cur.got
  BY <1>4 DEF CurOK, CurRecords
<1>13. PICK N \in Nat, t \in Nat \ {0} : N = Task.questions /\ t = main.task /\ N = plan[t].questions
       /\ t \in 1 .. Len(plan)
  BY <1>3 DEF Task
<1>14. \A q \in Questions : cur'.results[q] # None => Reported(<<t, q>>, cur'.results[q])
  BY <1>2, <1>10, <1>11, <1>13 DEF Answers
<1>15. \A q \in Questions : cur'.results[q] # None => q \in 1 .. N
  <2>1. PICK f : f = cur'.results
    OBVIOUS
  <2>2. f \in [Questions -> Outcomes \cup {None}]
    BY <1>11, <2>1 DEF CurOK, CurRecords
  <2>3. \A q \in Questions : f[q] # None => Reported(<<t, q>>, f[q])
    BY <1>14, <2>1
  <2> QED
    BY <1>13, <2>1, <2>2, <2>3, KeptAsked
<1>16. IsFiniteSet(1 .. N) /\ Cardinality(1 .. N) = N /\ Kept(cur') \subseteq 1 .. N
       /\ Cardinality(Kept(cur')) = g + 1 /\ g + 1 <= N
       /\ (g + 1 = N => \A q \in 1 .. N : cur'.results[q] # None)
  <2>1. IsFiniteSet(1 .. N) /\ Cardinality(1 .. N) = N
    BY FS_Interval
  <2>2. Kept(cur') \subseteq 1 .. N
    BY <1>15 DEF Kept
  <2>3. Cardinality(Kept(cur')) = g + 1
    BY <1>11, <1>12 DEF CurOK
  <2>4. Cardinality(Kept(cur')) <= Cardinality(1 .. N)
        /\ (Cardinality(1 .. N) = Cardinality(Kept(cur')) => 1 .. N = Kept(cur'))
    BY <2>1, <2>2, FS_Subset
  <2>5. g + 1 = N => 1 .. N = Kept(cur')
    BY <2>1, <2>3, <2>4
  <2>6. \A q \in Kept(cur') : cur'.results[q] # None
    BY DEF Kept
  <2>7. g + 1 <= N
    BY <2>1, <2>3, <2>4
  <2> QED
    BY <2>1, <2>2, <2>3, <2>5, <2>6, <2>7
<1>17. Task.workers = 1 => g = main.q - 1
  BY <1>2, <1>12 DEF Answers
<1>18. Task.workers > 1 => main.q = N
  BY <1>1, <1>2, <1>13 DEF Answers
<1>19. PICK p \in {"shutdown", "collect", "announce"}, v \in 1 .. N :
         /\ main'.pc = p /\ main'.task = t /\ main'.q = v /\ main' \in Mains /\ main'.asked = main.asked
         /\ p = "shutdown" => g + 1 = N
         /\ p = "collect" => Task.workers > 1 /\ v = main.q
         /\ p = "announce" => Task.workers = 1 /\ v = main.q + 1
  <2>1. main.q \in 1 .. N /\ main \in Mains
    BY <1>3, <1>13 DEF Control
  <2>2. CASE g + 1 = N
    <3>1. main' = Goto("shutdown") /\ "shutdown" \in Pcs
      BY <1>12, <1>13, <2>2 DEF Collect, Pcs, Working
    <3>2. main'.pc = "shutdown" /\ main'.task = main.task /\ main'.q = main.q
          /\ main' \in Mains /\ main'.asked = main.asked
      BY <3>1, GotoIs
    <3> QED
      BY <1>13, <2>1, <2>2, <3>2
  <2>3. CASE g + 1 # N /\ Task.workers > 1
    <3>1. main' = main
      BY <1>12, <1>13, <2>3 DEF Collect
    <3> QED
      BY <1>1, <1>13, <2>1, <2>3, <3>1
  <2>4. CASE g + 1 # N /\ ~(Task.workers > 1)
    <3>1. main' = [main EXCEPT !.pc = "announce", !.q = main.q + 1] /\ "announce" \in Pcs
      BY <1>12, <1>13, <2>4 DEF Collect, Pcs, Working
    <3>2. Task.workers = 1
      BY <1>3, <2>4
    <3>3. main.q + 1 \in 1 .. N /\ main.q + 1 \in Nat
      BY <1>16, <1>17, <2>1, <2>4, <3>2
    <3>4. main'.pc = "announce" /\ main'.task = main.task /\ main'.q = main.q + 1
          /\ main' \in Mains /\ main'.asked = main.asked
      BY <3>1, <3>3, NextIs
    <3> QED
      BY <1>13, <3>2, <3>3, <3>4
  <2> QED
    BY <2>2, <2>3, <2>4
<1>20. PlanOK' /\ Planned' /\ Task' = Task /\ v <= MaxQuestions
  <2>1. PlanOK' /\ Planned'
    BY <1>1, <1>3, <1>19 DEF PlanOK, Planned
  <2>2. Task' = Task
    BY <1>1, <1>13, <1>19 DEF Task
  <2>3. v <= MaxQuestions
    BY <1>3, <1>13, <1>19, ConstantsAssumption
  <2> QED
    BY <2>1, <2>2, <2>3
<1>21. Control'
  BY <1>1, <1>3, <1>13, <1>19, <1>20 DEF Control, Working, Ending, Asking
<1>22. \A j \in JobIds : j = <<j[1], j[2]>> /\ j[2] \in Questions /\ j[1] \in Nat /\ j[2] \in Nat
  BY ConstantsAssumption DEF JobIds, Questions
<1>23. \A j \in JobIds : jobs[j].st # "none" =>
         j[1] < t \/ (j[1] = t /\ j[2] <= main.q /\ j[2] \in 1 .. N)
  <2> SUFFICES ASSUME NEW j \in JobIds, jobs[j].st # "none", ~(j[1] < t)
               PROVE  j[1] = t /\ j[2] <= main.q /\ j[2] \in 1 .. N
    OBVIOUS
  <2>1. j[1] = t /\ j[2] <= main.q /\ j[2] <= N
    BY <1>1, <1>13 DEF JobsRun, Reached
  <2>2. j[2] \in Nat /\ 1 <= j[2]
    BY <1>22, ConstantsAssumption DEF Questions
  <2> QED
    BY <2>1, <2>2
<1>24. p = "shutdown" => Calm
  <2> SUFFICES ASSUME p = "shutdown", NEW j \in JobIds, jobs[j].st \notin {"none", "completing", "done"}
               PROVE  FALSE
    BY DEF Calm
  <2>1. j[1] = t
    BY <1>13 DEF JobsRun
  <2>2. j[2] \in 1 .. N /\ j[2] \in Questions /\ j = <<t, j[2]>>
    BY <1>22, <1>23, <2>1
  <2>3. cur'.results[j[2]] # None
    BY <1>16, <1>19, <2>2
  <2> QED
    BY <1>14, <2>2, <2>3 DEF Reported
<1>25. JobsRun'
  <2>1. ASSUME NEW j \in JobIds, jobs[j].st # "none"
        PROVE  j[1] < main'.task \/ (j[1] = main'.task /\ Reached(j[2])')
    <3>1. CASE j[1] < t
      BY <1>19, <3>1
    <3>2. CASE j[1] = t /\ j[2] <= main.q
      <4>1. main.q \in Nat /\ j[2] \in Nat
        BY <1>3, <1>22
      <4>2. p = "announce" => j[2] < v
        BY <1>19, <3>2, <4>1
      <4>3. Reached(j[2])'
        BY <1>19, <3>2, <4>2 DEF Reached
      <4> QED
        BY <1>19, <3>2, <4>3
    <3> QED
      BY <1>23, <2>1, <3>1, <3>2
  <2>2. Calm \/ (main'.task = main.task /\ main'.pc \in Asking)
    BY <1>13, <1>19, <1>24 DEF Asking
  <2> QED
    BY <1>1, <2>1, <2>2, JobsStay
<1>26. Recorded' /\ Persist
  BY <1>1, RecordedStays, JobsPersist
<1>28. OnTheWay'
  <2>1. ASSUME NEW k \in 1 .. n - 1
        PROVE  /\ Reported(<<main'.task, resultCh'[k].q>>, resultCh'[k].outcome)
               /\ cur'.results[resultCh'[k].q] = None
    <3>1. resultCh'[k] = resultCh[k + 1] /\ k + 1 \in 1 .. n /\ resultCh'[k].q # m
      BY <1>7, <1>10
    <3> QED
      BY <1>8, <1>11, <1>13, <1>19, <3>1
  <2>2. ASSUME NEW k \in 1 .. n - 1, NEW l \in 1 .. n - 1, resultCh'[k].q = resultCh'[l].q
        PROVE  k = l
    <3>1. resultCh'[k] = resultCh[k + 1] /\ k + 1 \in 1 .. n /\ resultCh'[l] = resultCh[l + 1] /\ l + 1 \in 1 .. n
      BY <1>7
    <3>2. k + 1 = l + 1
      BY <1>8, <2>2, <3>1
    <3> QED
      BY <3>2
  <2> QED
    BY <2>1, <2>2, <1>1, <1>7 DEF OnTheWay, Reported
<1>29. Answers'
  <2>1. Len(resultCh') <= MaxQuestions
    <3>1. n <= MaxQuestions
      BY <1>5 DEF Answers
    <3> QED
      BY <1>5, <1>7, <3>1, ConstantsAssumption
  <2>2. main'.pc \notin {"load", "queue", "taskend"}
    BY <1>19
  <2>3. main'.pc \in Asking => /\ Task.workers = 1 => cur'.got = main'.q - 1
                               /\ Task.workers > 1 => main'.pc = "collect" /\ main'.q = Task.questions
    <3>1. SUFFICES ASSUME main'.pc \in Asking
                   PROVE  /\ Task.workers = 1 => cur'.got = main'.q - 1
                          /\ Task.workers > 1 => main'.pc = "collect" /\ main'.q = Task.questions
      OBVIOUS
    <3>2. p \in {"announce", "collect"}
      BY <1>19, <3>1 DEF Asking
    <3>3. CASE p = "announce"
      <4>1. Task.workers = 1 /\ v = main.q + 1 /\ main.q \in Nat
        BY <1>3, <1>19, <3>3
      <4> QED
        BY <1>11, <1>12, <1>17, <1>19, <4>1
    <3>4. CASE p = "collect"
      <4>1. Task.workers > 1 /\ v = main.q /\ Task.workers # 1
        BY <1>3, <1>19, <3>4
      <4> QED
        BY <1>13, <1>18, <1>19, <3>4, <4>1
    <3> QED
      BY <3>2, <3>3, <3>4
  <2>4. main'.pc = "shutdown" => \A q \in 1 .. N : cur'.results[q] # None
    BY <1>16, <1>19
  <2>5. \A q \in Questions : cur'.results[q] # None => Reported(<<main'.task, q>>, cur'.results[q])
    BY <1>14, <1>19
  <2>6. CurOK(cur)'
    BY <1>11 DEF CurOK
  <2>7. resultCh' \in Seq([q : Questions, outcome : Outcomes])
    BY <1>7 DEF S
  <2>8. \A q \in Questions : cur'.results[q] # None => Reported(<<main.task, q>>, cur.results[q])'
    BY <1>1, <2>5 DEF Reported
  <2> QED
    BY <1>13, <1>20, <1>28, <2>1, <2>2, <2>3, <2>4, <2>6, <2>7, <2>8 DEF Answers
<1>30. Channel'
  <2>1. ~closed
    BY <1>3 DEF Channel
  <2> QED
    BY <1>1, <2>1, ChannelStays
<1>31. Screen'
  <2>1. Shown' = t /\ Shown = t
    BY <1>3, <1>13, <1>19 DEF Shown, Working
  <2>2. ShownId' = ShownId /\ OldIds' = OldIds /\ Found' = Found
    BY <1>1, <2>1 DEF ShownId, OldIds, Found, FoundIn
  <2>3. Width' = Width
    BY <1>2, <1>19, <1>20 DEF Width, Asking
  <2> QED
    BY <1>1, <2>2, <2>3, ScreenStays DEF ViewStays, Silent
<1> QED
  BY <1>21, <1>25, <1>26, <1>29, <1>30, <1>31

\* What the status of a task says of its answers.
LEMMA StatusSays ==
  ASSUME NEW late, cur.runtimeError \in BOOLEAN, cur.budgetExceeded \in BOOLEAN, late \in BOOLEAN
  PROVE  \E st \in {"pass", "fail", "error"}, re \in {None, "runtime_error", "budget_exceeded", "incorrect_answers"} :
           /\ Status(late)[1] = st /\ Status(late)[2] = re
           /\ cur.runtimeError => st = "error"
           /\ st = "pass" => cur.correct = Task.questions
<1> DEFINE says(st, re) == /\ Status(late)[1] = st /\ Status(late)[2] = re
                           /\ cur.runtimeError => st = "error"
                           /\ st = "pass" => cur.correct = Task.questions
<1>1. CASE cur.runtimeError \/ late
  <2>1. Status(late) = <<"error", "runtime_error">>
    BY <1>1 DEF Status
  <2>2. says("error", "runtime_error")
    BY <2>1
  <2> HIDE DEF says
  <2>3. "error" \in {"pass", "fail", "error"}
        /\ "runtime_error" \in {None, "runtime_error", "budget_exceeded", "incorrect_answers"}
    OBVIOUS
  <2>4. \E st \in {"pass", "fail", "error"}, re \in {None, "runtime_error", "budget_exceeded", "incorrect_answers"} : says(st, re)
    BY <2>2, <2>3, Zenon
  <2> QED
    BY <2>4 DEF says
<1>2. CASE ~(cur.runtimeError \/ late) /\ cur.budgetExceeded
  <2>1. Status(late) = <<"fail", "budget_exceeded">>
    BY <1>2 DEF Status
  <2>2. says("fail", "budget_exceeded")
    BY <1>2, <2>1
  <2> HIDE DEF says
  <2>3. "fail" \in {"pass", "fail", "error"}
        /\ "budget_exceeded" \in {None, "runtime_error", "budget_exceeded", "incorrect_answers"}
    OBVIOUS
  <2>4. \E st \in {"pass", "fail", "error"}, re \in {None, "runtime_error", "budget_exceeded", "incorrect_answers"} : says(st, re)
    BY <2>2, <2>3, Zenon
  <2> QED
    BY <2>4 DEF says
<1>3. CASE ~(cur.runtimeError \/ late) /\ ~cur.budgetExceeded /\ cur.correct = Task.questions
  <2>1. Status(late) = <<"pass", None>>
    BY <1>3 DEF Status
  <2>2. says("pass", None)
    BY <1>3, <2>1
  <2> QED
    BY <2>2
<1>4. CASE ~(cur.runtimeError \/ late) /\ ~cur.budgetExceeded /\ cur.correct # Task.questions
  <2>1. Status(late) = <<"fail", "incorrect_answers">>
    BY <1>4 DEF Status
  <2>2. says("fail", "incorrect_answers")
    BY <1>4, <2>1
  <2> QED
    BY <2>2
<1> QED
  BY <1>1, <1>2, <1>3, <1>4

\* Every question of the task has its answer: the task gets its result.
LEMMA ShutdownKeeps ==
  ASSUME Inv, Shutdown
  PROVE  Inv'
<1> USE DEF Inv
<1>1. main.pc = "shutdown" /\ main' = Goto("taskend") /\ Silent /\ UNCHANGED <<plan, cur, jobs, resultCh, ui, exit>>
  BY DEF Shutdown
<1>2. /\ PlanOK /\ Planned /\ main.task \in 1 .. Len(plan) /\ Len(results) = main.task - 1
      /\ exit # "ok" /\ exit \in {None, "ok", "error"} /\ main.q <= MaxQuestions
      /\ main.q \in 1 .. Task.questions /\ Task.questions \in Nat /\ Task.questions <= MaxQuestions
      /\ main.task \in Nat \ {0}
      /\ main.pc \in Working /\ main.pc \notin {"write"} \cup Ending
  BY <1>1, AskingKnows DEF Control
<1>3. PICK t \in Nat \ {0}, n \in Nat : t = main.task /\ t \in 1 .. Len(plan) /\ n = Task.questions /\ n = plan[t].questions
  BY <1>2 DEF Task
<1>4. main'.pc = "taskend" /\ main'.task = t /\ main'.q = main.q /\ main' \in Mains /\ main'.asked = main.asked
  <2>1. "taskend" \in Pcs
    BY DEF Pcs, Working
  <2> QED
    BY <1>1, <1>3, <2>1, GotoIs
<1>5. CurOK(cur) /\ cur \in CurRecords /\ \A q \in Questions : cur.results[q] # None => Reported(<<t, q>>, cur.results[q])
  BY <1>1, <1>3 DEF Answers, CurOK
<1>6. \A q \in Questions : cur.results[q] # None <=> q <= n
  <2>1. PICK f \in [Questions -> Outcomes \cup {None}] : f = cur.results
    BY <1>5 DEF CurRecords
  <2>2. \A q \in Questions : f[q] # None => q \in 1 .. n
    <3>1. \A q \in Questions : f[q] # None => Reported(<<t, q>>, f[q])
      BY <1>5, <2>1
    <3> QED
      BY <1>3, <3>1, KeptAsked
  <2>3. \A q \in 1 .. n : cur.results[q] # None
    BY <1>1, <1>3 DEF Answers
  <2>4. \A q \in Questions : q \in Nat /\ 1 <= q
    BY ConstantsAssumption DEF Questions
  <2> QED
    BY <2>1, <2>2, <2>3, <2>4
<1>7. PICK late \in BOOLEAN : results' = Append(results, TaskResult(Status(late)[1], Status(late)[2]))
  BY DEF Shutdown
<1>8. PICK st \in {"pass", "fail", "error"}, re \in {None, "runtime_error", "budget_exceeded", "incorrect_answers"} :
        /\ Status(late)[1] = st /\ Status(late)[2] = re
        /\ cur.runtimeError => st = "error"
        /\ st = "pass" => cur.correct = Task.questions
  <2>1. cur.runtimeError \in BOOLEAN /\ cur.budgetExceeded \in BOOLEAN
    BY <1>5 DEF CurRecords
  <2> QED
    BY <2>1, StatusSays
<1> DEFINE r == TaskResult(st, re)
<1>9. Task \in TaskConfigs(Agents) /\ Task = plan[t] /\ Shown = t /\ ShownId = plan[t].id
  BY <1>2, <1>3, UnderWay
<1>10. r = [id |-> plan[t].id, agent |-> plan[t].agent, status |-> st, reason |-> re,
            questions |-> n, correct |-> cur.correct, outcomes |-> cur.results]
  <2>1. re # "not_loaded"
    BY InputsAssumption
  <2> QED
    BY <1>3, <1>9, <2>1 DEF TaskResult
<1>11. results' = Append(results, r)
  BY <1>7, <1>8
<1> HIDE DEF r
<1>12. r \in ResultRecords
  <2>1. plan[t].id \in TaskIds /\ plan[t].agent \in Agents /\ n \in 0 .. MaxQuestions
    BY <1>2, <1>3, <1>9, ConstantsAssumption DEF TaskConfigs
  <2>2. cur.correct \in Nat /\ cur.results \in [Questions -> Outcomes \cup {None}]
    BY <1>5 DEF CurRecords
  <2>3. re \in {None, "not_loaded", "runtime_error", "budget_exceeded", "incorrect_answers"}
    OBVIOUS
  <2> QED
    BY <1>10, <2>1, <2>2, <2>3 DEF ResultRecords
<1>13. r.status = st /\ r.questions = n /\ r.correct = cur.correct /\ r.outcomes = cur.results
       /\ r.id = plan[t].id /\ r.agent = plan[t].agent
  BY <1>10
<1>14. Judged(r)
  <2>1. n > 0
    BY <1>2, <1>3
  <2>2. cur.correct = Cardinality(Of(cur.results, "correct"))
        /\ (Of(cur.results, "runtime_error") # {} => cur.runtimeError)
    BY <1>5 DEF CurOK
  <2>3. st = "pass" => Cardinality(Of(cur.results, "correct")) = n
    BY <1>3, <1>8, <2>2
  <2> QED
    BY <1>6, <1>8, <1>13, <2>1, <2>2, <2>3 DEF Judged
<1>15. ResultOf(main.task, r)
  BY <1>3, <1>5, <1>12, <1>13, <1>14 DEF ResultOf
<1>16. Recorded' /\ Len(results') = t /\ results'[t] = r
  BY <1>1, <1>2, <1>3, <1>11, <1>15, ResultAdded
<1>17. PlanOK' /\ Planned'
  BY <1>1, <1>2, <1>4 DEF PlanOK, Planned
<1>18. Control'
  BY <1>1, <1>2, <1>3, <1>4, <1>16, <1>17 DEF Control, Working, Ending, Asking
<1>19. JobsRun'
  <2>1. Calm
    <3>1. main.pc \notin Asking
      BY <1>1 DEF Asking
    <3> QED
      BY <3>1, CalmOutside
  <2>2. ASSUME NEW j \in JobIds, jobs[j].st # "none"
        PROVE  j[1] < main'.task \/ (j[1] = main'.task /\ Reached(j[2])')
    BY <1>3, <1>4, <2>2 DEF JobsRun, Reached
  <2> QED
    BY <1>1, <2>1, <2>2, JobsStay
<1>20. Answers'
  <2>1. CurOK(cur)' /\ (resultCh \in Seq([q : Questions, outcome : Outcomes]) /\ Len(resultCh) <= MaxQuestions)'
    BY <1>1 DEF Answers, CurOK
  <2>2. \A q \in Questions : cur'.results[q] # None => Reported(<<main.task, q>>, cur.results[q])'
    BY <1>1, <1>4, <1>5 DEF Reported
  <2> QED
    BY <1>4, <2>1, <2>2 DEF Answers, Asking
<1>21. Channel'
  <2>1. ~closed
    BY <1>2 DEF Channel
  <2> QED
    BY <1>1, <2>1, ChannelStays
<1>22. Screen'
  <2>1. Shown' = t
    BY <1>4 DEF Shown, Working
  <2>2. ShownId' = ShownId /\ OldIds' = OldIds /\ Found' = Found
    BY <1>1, <1>9, <2>1 DEF ShownId, OldIds, Found, FoundIn
  <2>3. Width = n
    BY <1>1, <1>3 DEF Width
  <2>4. Width' = n
    BY <1>4, <1>13, <1>16, <2>1 DEF Width, Asking
  <2> QED
    BY <1>1, <2>2, <2>3, <2>4, ScreenStays DEF ViewStays, Silent
<1> QED
  BY <1>16, <1>18, <1>19, <1>20, <1>21, <1>22

LEMMA TaskEndKeeps ==
  ASSUME Inv, TaskEnd
  PROVE  Inv'
<1> USE DEF Inv
<1>1. main.pc = "taskend" /\ main' = [main EXCEPT !.pc = "task", !.task = main.task + 1, !.q = 0]
      /\ UNCHANGED <<plan, cur, results, jobs, resultCh, ui, exit>>
  BY DEF TaskEnd
<1>2. main.pc \in Working /\ main.pc \notin {"write", "queue", "shutdown"} \cup Ending \cup Asking
  BY <1>1 DEF Working, Ending, Asking
<1>3. /\ PlanOK /\ Planned /\ main.task \in 1 .. Len(plan) /\ Len(results) = main.task
      /\ exit # "ok" /\ exit \in {None, "ok", "error"}
  BY <1>1, <1>2 DEF Control
<1>4. PICK t \in Nat \ {0} : t = main.task /\ t \in 1 .. Len(plan)
  BY <1>2, UnderWay
<1>5. Task \in TaskConfigs(Agents) /\ Task = plan[t] /\ Shown = t /\ ShownId = plan[t].id /\ ShownId \in TaskIds
  BY <1>2, <1>4, UnderWay
<1>6. main'.pc = "task" /\ main'.task = t + 1 /\ main'.q = 0 /\ main' \in Mains /\ main'.asked = main.asked
  <2>1. main' = [main EXCEPT !.pc = "task", !.task = t + 1, !.q = 0] /\ t + 1 \in Nat /\ "task" \in Pcs
    BY <1>1, <1>4 DEF Pcs
  <2> QED
    BY <2>1 DEF Control, Mains
<1>7. PlanOK' /\ Planned' /\ Len(plan) \in Nat
  BY <1>1, <1>3, <1>6 DEF PlanOK, Planned
<1>8. Control'
  <2>1. t + 1 \in 1 .. Len(plan) + 1 /\ Len(results) = t + 1 - 1 /\ 0 <= MaxQuestions
    BY <1>3, <1>4, <1>7, ConstantsAssumption
  <2> QED
    BY <1>1, <1>3, <1>6, <1>7, <2>1 DEF Control, Working, Ending, Asking
<1>9. JobsRun'
  <2>1. Calm
    BY <1>2, CalmOutside
  <2>2. ASSUME NEW j \in JobIds, jobs[j].st # "none"
        PROVE  j[1] < main'.task
    <3>1. j[1] \in 1 .. Len(plan) /\ (j[1] < t \/ j[1] = t)
      BY <1>4, <2>2 DEF JobsRun
    <3> QED
      BY <1>6, <1>7, <3>1
  <2> QED
    BY <1>1, <2>1, <2>2, JobsStay
<1>10. main'.pc \notin {"load", "queue", "shutdown", "taskend"} \cup Asking
  BY <1>6 DEF Asking
<1>11. Answers' /\ Recorded'
  BY <1>1, <1>10, AnswersIdle, RecordedStays, JobsPersist
<1> DEFINE e == Ev("task_end", Task.id, 0, None)
<1>12. EventOK(e) /\ e.kind = "task_end"
  <2>1. e = [kind |-> "task_end", task |-> ShownId, q |-> 0, type |-> None] /\ 0 \in 0 .. MaxQuestions
    BY <1>5, ConstantsAssumption DEF Ev
  <2> HIDE DEF e
  <2> QED
    BY <1>5, <2>1 DEF EventOK, EventRecords
<1>13. Send(e) /\ ~closed
  BY <1>2 DEF TaskEnd, Channel
<1> HIDE DEF e
<1>14. Channel' /\ Sent(e)
  BY <1>1, <1>12, <1>13, ChannelSent
<1>15. Shown' = t
  <2>1. main'.pc \notin Working /\ main'.task # 0 /\ main'.task - 1 = t
    BY <1>6 DEF Working
  <2> QED
    BY <2>1 DEF Shown
<1>16. ShownId' = ShownId /\ OldIds' = OldIds /\ Found' = Found
  BY <1>1, <1>5, <1>15 DEF ShownId, OldIds, Found, FoundIn
<1>17. Width' = Width
  BY <1>1, <1>2, <1>5, <1>10, <1>15 DEF Width
<1>18. Screen'
  BY <1>1, <1>12, <1>14, <1>16, <1>17, ScreenOther DEF ViewStays
<1> QED
  BY <1>8, <1>9, <1>11, <1>14, <1>18

-----------------------------------------------------------------------------
(* The end of the run.                                                     *)

\* Once no task is under way, only the command moves.
LEMMA AtTheEnd ==
  ASSUME Control, JobsRun, Answers, Recorded, Screen,
         main.pc \in {"task", "close", "write"} \cup Ending, main'.pc \in {"close", "write"} \cup Ending,
         main'.task = main.task, UNCHANGED <<plan, cur, results, jobs, resultCh>>
  PROVE  JobsRun' /\ Answers' /\ Recorded' /\ ViewStays
<1>1. /\ main.pc \notin Working \cup Asking \cup {"shutdown", "taskend", "queue"}
      /\ main'.pc \notin Working \cup Asking \cup {"load", "queue", "shutdown", "taskend"}
  BY DEF Working, Asking, Ending
<1>2. Calm
  BY <1>1, CalmOutside
<1>3. \A j \in JobIds : jobs[j].st # "none" => j[1] < main'.task
  BY <1>1 DEF JobsRun, Reached, Asking, Ending
<1>4. JobsRun'
  BY <1>2, <1>3, JobsStay
<1>5. Answers' /\ Recorded'
  BY <1>1, AnswersIdle, RecordedStays, JobsPersist
<1>6. Shown' = Shown
  BY <1>1 DEF Shown
<1>7. ShownId' = ShownId /\ OldIds' = OldIds /\ Found' = Found
  BY <1>6 DEF ShownId, OldIds, Found, FoundIn
<1>8. Width' = Width
  BY <1>1, <1>6 DEF Width
<1> QED
  BY <1>4, <1>5, <1>7, <1>8 DEF ViewStays

LEMMA RunEndKeeps ==
  ASSUME Inv, RunEnd
  PROVE  Inv'
<1> USE DEF Inv
<1>1. main.pc = "task" /\ main.task \notin DOMAIN plan /\ main' = Goto("close")
      /\ UNCHANGED <<plan, cur, results, jobs, resultCh, ui, exit>>
  BY DEF RunEnd
<1>2. main'.pc = "close" /\ main'.task = main.task /\ main'.q = main.q /\ main' \in Mains /\ main'.asked = main.asked
  <2>1. "close" \in Pcs
    BY DEF Pcs
  <2> QED
    BY <1>1, <2>1, GotoIs
<1>3. Planned /\ PlanOK /\ main.task \in 1 .. Len(plan) + 1 /\ Len(results) = main.task - 1
      /\ exit \in {None, "ok", "error"} /\ main.q <= MaxQuestions
  BY <1>1 DEF Control
<1>4. Len(plan) \in Nat /\ DOMAIN plan = 1 .. Len(plan)
  BY <1>3 DEF PlanOK
<1>5. main.task = Len(plan) + 1 /\ Len(results) = Len(plan)
  BY <1>1, <1>3, <1>4
<1>6. PlanOK' /\ Ended'
  BY <1>1, <1>2, <1>3, <1>5 DEF PlanOK, Ended, Planned
<1>7. exit # "ok"
  BY <1>1 DEF Control, Ending
<1>8. Control'
  BY <1>1, <1>2, <1>3, <1>6, <1>7 DEF Control, Working, Ending, Asking
<1>9. JobsRun' /\ Answers' /\ Recorded' /\ ViewStays
  BY <1>1, <1>2, AtTheEnd
<1> DEFINE e == Ev("run_end", None, 0, None)
<1>10. EventOK(e) /\ e.kind = "run_end"
  BY ConstantsAssumption DEF Ev, EventOK, EventRecords
<1>11. Send(e) /\ ~closed
  BY <1>1 DEF RunEnd, Channel, Ending
<1> HIDE DEF e
<1>12. Channel' /\ Sent(e)
  BY <1>1, <1>10, <1>11, ChannelSent
<1>13. Screen'
  BY <1>1, <1>9, <1>10, <1>12, ScreenOther
<1> QED
  BY <1>8, <1>9, <1>12, <1>13

\* The command where the last steps leave it.
LEMMA LastStep ==
  ASSUME Control, UNCHANGED <<plan, results>>, NEW p \in {"write"} \cup Ending, main' = Goto(p),
         main.pc \in {"close", "write"} \/ (main.pc \in Ending /\ p # "write"),
         UNCHANGED exit \/ (main.pc = "write" /\ p = "stop" /\ exit' \in {"ok", "error"})
  PROVE  Control' /\ main'.pc = p /\ main'.task = main.task
<1>1. main'.pc = p /\ main'.task = main.task /\ main'.q = main.q /\ main' \in Mains /\ main'.asked = main.asked
  <2>1. p \in Pcs
    BY DEF Pcs
  <2> QED
    BY <2>1, GotoIs
<1>2. PlanOK' /\ main.q <= MaxQuestions /\ (exit \in {None, "ok", "error"})'
  BY DEF Control, PlanOK
<1>3. main.pc \in {"close", "write"} => Ended
  BY DEF Control
<1>4. main.pc \in Ending => (Ended \/ Nothing) /\ (exit = "ok" => Ended)
  BY DEF Control
<1>5. (Ended => Ended') /\ (Nothing => Nothing')
  BY <1>1 DEF Ended, Nothing, Planned
<1>6. p = "write" => Ended' /\ exit' # "ok"
  BY <1>3, <1>5 DEF Control, Ending
<1>7. p \in Ending => (Ended' \/ Nothing') /\ (exit' = "ok" => Ended')
  BY <1>3, <1>4, <1>5 DEF Control
<1>8. p \notin {"begin", "plan", "task", "close", "queue", "shutdown"} \cup Working \cup Asking
  BY DEF Working, Asking, Ending
<1>9. p \in Ending => p # "write"
  BY DEF Ending
<1> QED
  BY <1>1, <1>2, <1>6, <1>7, <1>8, <1>9 DEF Control

LEMMA CloseKeeps ==
  ASSUME Inv, Close
  PROVE  Inv'
<1> USE DEF Inv
<1>1. main.pc \in {"close", "stop"} /\ closed' = TRUE
      /\ UNCHANGED <<plan, cur, results, jobs, resultCh, events, ui, exit, dropped, panicked>>
  BY DEF Close
<1>2. PICK p \in {"write", "wait"} : main' = Goto(p) /\ (p = "write" => main.pc = "close")
      /\ (p = "wait" => main.pc = "stop")
  BY <1>1 DEF Close
<1>3. Control' /\ main'.pc = p /\ main'.task = main.task
  BY <1>1, <1>2, LastStep DEF Ending
<1>4. JobsRun' /\ Answers' /\ Recorded' /\ ViewStays
  BY <1>1, <1>3, AtTheEnd DEF Ending
<1>5. Channel'
  BY <1>1, <1>3 DEF Channel, ScreenOK, Ending
<1>6. Screen'
  BY <1>1, <1>4, ScreenStays
<1> QED
  BY <1>3, <1>4, <1>5, <1>6

LEMMA WriteKeeps ==
  ASSUME Inv, WriteRunOutputs
  PROVE  Inv'
<1> USE DEF Inv
<1>1. main.pc = "write" /\ main' = Goto("stop") /\ exit' \in {"ok", "error"} /\ Silent
      /\ UNCHANGED <<plan, cur, results, jobs, resultCh, ui>>
  BY DEF WriteRunOutputs
<1>2. Control' /\ main'.pc = "stop" /\ main'.task = main.task
  BY <1>1, LastStep DEF Ending
<1>3. JobsRun' /\ Answers' /\ Recorded' /\ ViewStays
  BY <1>1, <1>2, AtTheEnd DEF Ending
<1>4. Channel'
  BY <1>1, <1>2, ChannelStays DEF Ending
<1>5. Screen'
  BY <1>1, <1>3, ScreenStays DEF Silent
<1> QED
  BY <1>2, <1>3, <1>4, <1>5

LEMMA WaitKeeps ==
  ASSUME Inv, WaitUI
  PROVE  Inv'
<1> USE DEF Inv
<1>1. main.pc = "wait" /\ main' = Goto("exit") /\ Silent /\ UNCHANGED <<plan, cur, results, jobs, resultCh, ui, exit>>
  BY DEF WaitUI
<1>2. Control' /\ main'.pc = "exit" /\ main'.task = main.task
  BY <1>1, LastStep DEF Ending
<1>3. JobsRun' /\ Answers' /\ Recorded' /\ ViewStays
  BY <1>1, <1>2, AtTheEnd DEF Ending
<1>4. Channel'
  BY <1>1, <1>2, ChannelStays DEF Ending
<1>5. Screen'
  BY <1>1, <1>3, ScreenStays DEF Silent
<1> QED
  BY <1>2, <1>3, <1>4, <1>5

LEMMA IdleKeeps ==
  ASSUME Inv, UNCHANGED vars
  PROVE  Inv'
<1> USE DEF Inv, vars
<1>1. Control' /\ Answers' /\ Recorded'
  BY ControlStays, AnswersStay, RecordedStays, JobsPersist
<1>2. JobsRun'
  BY DEF JobsRun, Reached, JobOK
<1>3. Channel'
  BY DEF Channel, ScreenOK
<1>4. ViewStays
  BY DEF ViewStays, ShownId, OldIds, Shown, Width, Task, Found, FoundIn
<1>5. Screen'
  BY <1>4, ScreenStays
<1> QED
  BY <1>1, <1>2, <1>3, <1>5

LEMMA InvNext ==
  ASSUME Inv, [Next]_vars
  PROVE  Inv'
<1>1. CASE Main
  BY <1>1, BeginKeeps, PlanKeeps, TaskStartKeeps, LoadTaskKeeps, EmitQueuedKeeps, AnnounceKeeps, SubmitKeeps,
     CollectKeeps, ShutdownKeeps, TaskEndKeeps, RunEndKeeps, CloseKeeps, WriteKeeps, WaitKeeps DEF Main, SubmitStep
<1>2. ASSUME NEW j \in JobIds, JobStep(j)
      PROVE  Inv'
  <2>1. CASE JobTells(j)
    <3>1. \E b, ty : Sends(j, b, ty)
      BY <2>1, TellsSends DEF Inv
    <3> QED
      BY <3>1, SendsKeeps
  <2>2. CASE Report(j) \/ CompleteJob(j)
    BY <2>2, ReportKeeps, CompleteKeeps
  <2> QED
    BY <1>2, <2>1, <2>2 DEF JobStep, JobTells
<1>3. CASE UIReceive \/ UIDies
  BY <1>3, ReceiveKeeps, DiesKeeps
<1> QED
  BY <1>1, <1>2, <1>3, IdleKeeps DEF Next

\* Control, jobs, answers, records, channel and screen agree at every step of
\* command, jobs and UI.
THEOREM InvHolds == Spec => []Inv
BY InvInit, InvNext, PTL DEF Spec

-----------------------------------------------------------------------------
(* What the invariant says.                                                *)

LEMMA Typed ==
  ASSUME Inv
  PROVE  TypeOK
<1> USE DEF Inv
<1>1. MaxQuestions \in Nat /\ EventCap \in Nat
  BY ConstantsAssumption
<1>2. main.task \in 0 .. Len(plan) + 1 /\ main.q \in 0 .. MaxQuestions
  <2>1. main.task \in Nat /\ main.q \in Nat /\ Len(plan) \in Nat /\ main.q <= MaxQuestions
    BY DEF Control, Mains, PlanOK
  <2>2. main.pc \in {"begin", "plan", "task"} \cup Working \cup {"close", "write"} \cup Ending
    BY DEF Control, Mains, Pcs
  <2>3. main.pc \in {"begin", "plan"} => main.task = 0
    BY DEF Control, Nothing
  <2>4. main.pc = "task" => main.task \in 1 .. Len(plan) + 1
    BY DEF Control
  <2>5. main.pc \in Working => main.task \in 1 .. Len(plan)
    BY DEF Control
  <2>6. main.pc \in {"close", "write"} \cup Ending => main.task = 0 \/ main.task = Len(plan) + 1
    BY DEF Control, Ended, Nothing
  <2>7. main.task <= Len(plan) + 1
    BY <2>1, <2>2, <2>3, <2>4, <2>5, <2>6
  <2> QED
    BY <1>1, <2>1, <2>7
<1>3. CurOK(cur)
  BY DEF Answers
<1>4. cur.correct \in 0 .. cur.got /\ cur.got \in 0 .. MaxQuestions
  <2>1. PICK c : c = cur
    OBVIOUS
  <2>2. c.correct \in 0 .. c.got /\ c.got \in 0 .. MaxQuestions
    BY <1>3, <2>1, KeptCounts
  <2> QED
    BY <2>1, <2>2
<1>5. cur.results \in [Questions -> Outcomes \cup {None}]
  BY <1>3 DEF CurOK, CurRecords
<1>6. \A j \in JobIds : jobs[j].st \in JobStates
  BY DEF JobsRun, JobOK, JobRecords
<1>7. Len(resultCh) <= MaxQuestions /\ Len(events) <= EventCap
  BY DEF Answers, Channel
<1>8. ui \in ScreenRecords
  BY DEF Channel, ScreenOK
<1>9. ui.pc \in {"wait", "quit", "died"} /\ ui.rows \in Seq(RowRecords)
  BY <1>8 DEF ScreenRecords
<1>10. \A i \in DOMAIN ui.rows : ui.rows[i].status \in Statuses
  <2>1. \A i \in DOMAIN ui.rows : ui.rows[i] \in RowRecords
    BY <1>9, ElementOf
  <2> QED
    BY <2>1 DEF RowRecords
<1>11. exit \in {None, "ok", "error"}
  BY DEF Control
<1> QED
  BY <1>2, <1>4, <1>5, <1>6, <1>7, <1>9, <1>10, <1>11 DEF TypeOK

LEMMA Matches ==
  ASSUME Inv
  PROVE  VerdictMatches
<1> USE DEF Inv
<1>1. TypeOK
  BY Typed
<1>2. main.pc \in {"announce", "collect", "shutdown", "taskend"} =>
        \A q \in Questions : cur.results[q] # None => cur.results[q] = jobs[<<main.task, q>>].outcome
  BY DEF Answers, Asking, Reported
<1>3. DOMAIN results = 1 .. Len(results)
  BY DEF Recorded
<1>4. ASSUME NEW i \in DOMAIN results
      PROVE  LET r == results[i]
                 of(o) == {q \in Questions : r.outcomes[q] = o}
             IN  /\ r.status = "pass" => Cardinality(of("correct")) = r.questions /\ r.questions > 0
                 /\ of("runtime_error") # {} => r.status = "error"
                 /\ r.correct = Cardinality(of("correct"))
  <2>1. Judged(results[i])
    BY <1>3 DEF Recorded, ResultOf
  <2> QED
    BY <2>1 DEF Judged, Of
<1> QED
  BY <1>1, <1>2, <1>4 DEF VerdictMatches

\* The last selector that names an agent for a task gives the agent.
LEMMA LastNames ==
  ASSUME NEW sel \in Selections, NEW t, sel.agent = NoAgent, NEW i \in Naming(sel.picks, t),
         \A k \in Naming(sel.picks, t) : k <= i
  PROVE  SelectedAgent(sel, t) = sel.picks[i].agent
<1> DEFINE picks == sel.picks
           named == Naming(picks, t)
           m == CHOOSE k \in named : \A j \in named : j <= k
<1>1. DOMAIN picks = 1 .. Len(picks) /\ Len(picks) \in Nat
  BY InputsAssumption
<1>2. \A j \in named : j \in 1 .. Len(picks) /\ picks[j].task = t.id
  BY <1>1 DEF Naming
<1>3. \A j \in named : j <= i
  OBVIOUS
<1>4. m \in named /\ \A j \in named : j <= m
  BY <1>3
<1>5. m = i
  BY <1>2, <1>3, <1>4
<1>6. SelectedAgent(sel, t) = picks[m].agent
  BY DEF SelectedAgent
<1> QED
  BY <1>5, <1>6

LEMMA Selected ==
  ASSUME Inv
  PROVE  RanAsSelected
<1> USE DEF Inv
<1> SUFFICES ASSUME exit = "ok"
             PROVE  RanAsSelected
  BY DEF RanAsSelected
<1>1. Ended /\ main.asked \in Selections
  BY DEF Control, Mains
<1>2. PICK sel \in Selections : /\ sel = main.asked /\ Runnable(PlanTaskRuns(sel)) /\ plan = PlanTaskRuns(sel)
  BY <1>1 DEF Ended, Planned
<1>3. PICK e : Plans(sel, plan, e)
  BY <1>2, PlanIs
<1> DEFINE picks == sel.picks
           At(x) == CHOOSE k \in DOMAIN Tasks : Tasks[k].id = x
           Named(x) == {i \in DOMAIN picks : picks[i].task = x /\ picks[i].agent # NoAgent}
           T == {x \in TaskIds : picks = <<>> \/ \E i \in DOMAIN picks : picks[i].task = x}
<1>4. PICK n \in Nat : n = Len(plan) /\ n = Len(results)
  BY <1>1, <1>3 DEF Ended, Plans
<1>5. DOMAIN results = 1 .. n
  BY <1>4 DEF Recorded
<1>6. \A i \in 1 .. n : /\ results[i].id = Tasks[e[i]].id /\ results[i].agent = SelectedAgent(sel, Tasks[e[i]])
                        /\ Wanted(picks, Tasks[e[i]].id) /\ e[i] \in DOMAIN Tasks
  BY <1>3, <1>4 DEF Recorded, ResultOf, Plans
<1>7. \A i, j \in DOMAIN Tasks : Tasks[i].id = Tasks[j].id => i = j
  BY ConstantsAssumption
<1>8. \A i \in 1 .. n : At(results[i].id) = e[i]
  BY <1>6, <1>7
<1>9. \A i, j \in 1 .. n : i < j => e[i] < e[j]
  BY <1>3, <1>4 DEF Plans
<1>10. {results[i].id : i \in 1 .. n} = T
  <2>1. ASSUME NEW x \in T
        PROVE  \E i \in 1 .. n : results[i].id = x
    <3>1. PICK k \in DOMAIN Tasks : Tasks[k].id = x
      BY DEF TaskIds
    <3>2. Wanted(picks, Tasks[k].id)
      BY <3>1 DEF Wanted
    <3>3. PICK i \in 1 .. n : e[i] = k
      BY <1>3, <1>4, <3>2 DEF Plans
    <3> QED
      BY <1>6, <3>1, <3>3
  <2>2. \A i \in 1 .. n : results[i].id \in T
    BY <1>6 DEF Wanted, TaskIds
  <2> QED
    BY <2>1, <2>2
<1>11. ASSUME NEW i \in 1 .. n
       PROVE  LET r   == results[i]
                  own == Tasks[At(r.id)].agent
              IN  /\ sel.agent # NoAgent => r.agent = sel.agent
                  /\ sel.agent = NoAgent => \A k \in Named(r.id) :
                       (\A l \in Named(r.id) : l <= k) => r.agent = picks[k].agent
                  /\ sel.agent = NoAgent /\ Named(r.id) = {} =>
                       r.agent = IF own # NoAgent THEN own ELSE DefaultAgent
  <2> DEFINE t == Tasks[e[i]]
  <2>1. results[i].agent = SelectedAgent(sel, t) /\ Named(results[i].id) = Naming(sel.picks, t)
    BY <1>6 DEF Naming
  <2>2. Tasks[At(results[i].id)] = t
    BY <1>8
  <2> HIDE DEF At, Named, t
  <2>3. sel.agent # NoAgent => SelectedAgent(sel, t) = sel.agent
    BY DEF SelectedAgent
  <2>4. ASSUME sel.agent = NoAgent, NEW k \in Naming(sel.picks, t), \A l \in Naming(sel.picks, t) : l <= k
        PROVE  SelectedAgent(sel, t) = sel.picks[k].agent
    BY <2>4, LastNames
  <2>5. sel.agent = NoAgent /\ Naming(sel.picks, t) = {} => SelectedAgent(sel, t) = OwnAgent(t)
    BY DEF SelectedAgent
  <2> QED
    BY <2>1, <2>2, <2>3, <2>4, <2>5 DEF OwnAgent
<1>12. \A i, j \in DOMAIN results : i < j => At(results[i].id) < At(results[j].id)
  <2> HIDE DEF At
  <2> QED
    BY <1>5, <1>8, <1>9
<1> HIDE DEF T, At, Named
<1>13. {results[i].id : i \in DOMAIN results} = T
  BY <1>5, <1>10
<1> QED
  BY <1>2, <1>5, <1>11, <1>12, <1>13 DEF RanAsSelected, T, At, Named

\* When every event was shown, the screen shows what was found.
LEMMA ShownAll ==
  ASSUME NEW u, u.rows \in Seq(RowRecords), NEW id, NEW old, NEW width \in Nat,
         NEW found, NEW evs, evs = <<>>, Seen(evs, u, id, old, width, found)
  PROVE  /\ u.task = id /\ Len(u.rows) <= width
         /\ \A q \in Questions : found[q] # None => q \in DOMAIN u.rows /\ u.rows[q].status = found[q]
<1>1. Fresh(evs, 1) /\ DOMAIN evs = {}
  BY DEF Fresh, Same
<1> QED
  BY <1>1 DEF Seen, Follows, Wide, Told, Shows

LEMMA ScreenTrue ==
  ASSUME Inv
  PROVE  ScreenMatchesResults
<1> USE DEF Inv
<1> SUFFICES ASSUME ui.pc = "quit", dropped = 0, results # <<>>, main.pc \in {"wait", "exit"},
                    results[Len(results)].reason # "not_loaded"
             PROVE  LET r == results[Len(results)]
                    IN  /\ ui.task = r.id
                        /\ [q \in 1 .. Len(ui.rows) |-> ui.rows[q].status]
                             = [q \in 1 .. r.questions |-> r.outcomes[q]]
                        /\ ui.counts.correct = r.correct /\ ui.counts.open = 0
  BY DEF ScreenMatchesResults
<1>1. events = <<>> /\ ScreenOK(ui) /\ ui \in ScreenRecords
  BY DEF Channel, ScreenOK
<1>2. ui.rows \in Seq(RowRecords)
  BY <1>1 DEF ScreenRecords
<1>3. results \in Seq(ResultRecords)
  BY DEF Recorded
<1>4. PICK n \in Nat \ {0} : n = Len(results) /\ n \in 1 .. Len(results) /\ n \in DOMAIN results
  BY <1>3
<1>5. Ended /\ main.pc \notin Working \cup Asking \cup {"queue", "shutdown"}
  BY DEF Control, Ending, Nothing, Working, Asking
<1>6. Len(plan) = n /\ main.task = n + 1
  BY <1>4, <1>5 DEF Ended
<1>7. Shown = n
  BY <1>5, <1>6 DEF Shown
<1> DEFINE r == results[n]
<1>8. ResultOf(n, r) /\ r \in ResultRecords /\ Judged(r)
  BY <1>4 DEF Recorded, ResultOf
<1>9. ShownId = r.id /\ Width = r.questions
  BY <1>4, <1>5, <1>7, <1>8 DEF ShownId, Width, ResultOf
<1>10. Width \in Nat
  BY ViewTyped
<1>11. Seen(events, ui, ShownId, OldIds, Width, Found)
  BY <1>1 DEF Screen
<1>12. /\ ui.task = ShownId /\ Len(ui.rows) <= Width
       /\ \A q \in Questions : Found[q] # None => q \in DOMAIN ui.rows /\ ui.rows[q].status = Found[q]
  BY <1>1, <1>2, <1>10, <1>11, ShownAll
<1> HIDE DEF r
<1>13. PICK w \in Nat, l \in Nat, m \in Nat : w = r.questions /\ l = Len(ui.rows) /\ m = MaxQuestions /\ w <= m /\ l <= w
  <2>1. r.questions \in 0 .. MaxQuestions
    BY <1>8 DEF ResultRecords
  <2> QED
    BY <1>2, <1>9, <1>10, <1>12, <2>1, ConstantsAssumption
<1>14. \A q \in 1 .. w : q \in Questions /\ r.outcomes[q] # None /\ r.outcomes[q] \in Outcomes
                         /\ Found[q] = r.outcomes[q]
  <2> SUFFICES ASSUME NEW q \in 1 .. w
               PROVE  q \in Questions /\ r.outcomes[q] # None /\ r.outcomes[q] \in Outcomes
                      /\ Found[q] = r.outcomes[q]
    OBVIOUS
  <2>1. q \in Questions /\ q <= r.questions
    BY <1>13 DEF Questions
  <2>2. r.outcomes[q] # None /\ r.outcomes[q] \in Outcomes
    BY <1>8, <2>1 DEF Judged, ResultRecords
  <2>3. Reported(<<n, q>>, r.outcomes[q])
    BY <1>8, <2>1, <2>2 DEF ResultOf
  <2> QED
    BY <1>7, <2>1, <2>2, <2>3 DEF Found, FoundIn, Reported, Settled
<1>15. \A q \in 1 .. w : q \in 1 .. l /\ ui.rows[q].status = r.outcomes[q]
  BY <1>2, <1>12, <1>13, <1>14
<1>16. l = w
  <2>1. w = 0 \/ w \in 1 .. w
    OBVIOUS
  <2>2. w <= l
    BY <1>15, <2>1
  <2> QED
    BY <1>13, <2>2
<1>17. DOMAIN ui.rows = 1 .. w
  <2>1. DOMAIN ui.rows = 1 .. Len(ui.rows)
    BY <1>2
  <2>2. Len(ui.rows) = w
    BY <1>13, <1>16
  <2> QED
    BY <2>1, <2>2, Zenon
<1>18. ui.counts.correct = r.correct
  <2>1. Rows(ui.rows, {"correct"}) = Of(r.outcomes, "correct")
    <3>1. \A q \in Questions : r.outcomes[q] = "correct" => q \in 1 .. w
      <4>1. \A q \in Questions : r.outcomes[q] # None => q <= w
        BY <1>8, <1>13 DEF Judged
      <4>2. None # "correct"
        BY InputsAssumption DEF Statuses, Terminal, Outcomes
      <4>3. \A q \in Questions : q \in Nat /\ 1 <= q
        BY <1>13 DEF Questions
      <4> QED
        BY <4>1, <4>2, <4>3
    <3> QED
      BY <1>14, <1>15, <1>17, <3>1 DEF Rows, Of
  <2> QED
    BY <1>1, <1>8, <2>1 DEF ScreenOK, Judged
<1>19. ui.counts.open = 0
  <2>1. \A q \in 1 .. w : ui.rows[q].status \in Terminal
    BY <1>14, <1>15 DEF Terminal
  <2>2. Rows(ui.rows, Statuses \ Terminal) = {}
    BY <1>17, <2>1 DEF Rows
  <2> QED
    BY <1>1, <2>2, FS_EmptySet DEF ScreenOK
<1>20. [q \in 1 .. Len(ui.rows) |-> ui.rows[q].status] = [q \in 1 .. r.questions |-> r.outcomes[q]]
  BY <1>13, <1>15, <1>16
<1> QED
  BY <1>4, <1>9, <1>12, <1>18, <1>19, <1>20 DEF r

\* Only the UI changes what it shows.
LEMMA OthersWatch ==
  ASSUME [Next]_vars, ~UIReceive, ~UIDies
  PROVE  UNCHANGED ui
<1>1. CASE UNCHANGED vars
  BY <1>1 DEF vars
<1>2. CASE Main
  BY <1>2 DEF Main, Begin, Plan, TaskStart, LoadTask, EmitQueued, SubmitStep, Announce, Submit, Collect, Shutdown,
              TaskEnd, RunEnd, Close, WriteRunOutputs, WaitUI
<1>3. ASSUME NEW j \in JobIds, JobStep(j)
      PROVE  UNCHANGED ui
  BY <1>3 DEF JobStep, ReserveStart, ReserveAgain, Execute, ToolStart, ToolFinish, CallEnds, Judge, Report,
              CompleteJob, JobOnly
<1> QED
  BY <1>1, <1>2, <1>3 DEF Next

Settles == ui'.task = ui.task /\ dropped = 0 =>
             \A i \in DOMAIN ui.rows :
               ui.rows[i].status \in Terminal => ui'.rows[i].status = ui.rows[i].status

LEMMA StepSettles ==
  ASSUME Inv, [Next]_vars
  PROVE  Settles
<1> USE DEF Inv
<1> SUFFICES ASSUME ui'.task = ui.task, dropped = 0, NEW i \in DOMAIN ui.rows, ui.rows[i].status \in Terminal
             PROVE  ui'.rows[i].status = ui.rows[i].status
  BY DEF Settles
<1>1. ScreenOK(ui) /\ EvsOK(events)
  BY DEF Channel, EvsOK
<1>2. CASE UIReceive
  <2>1. ui.pc = "wait" /\ Seen(events, ui, ShownId, OldIds, Width, Found)
    BY <1>2 DEF UIReceive, Screen
  <2>2. CASE events = <<>>
    <3>1. ui' = [ui EXCEPT !.pc = "quit"] /\ ui \in ScreenRecords
      BY <1>1, <1>2, <2>2 DEF UIReceive, ScreenOK
    <3> QED
      BY <3>1 DEF ScreenRecords
  <2>3. CASE events # <<>>
    <3> DEFINE e == events[1]
    <3>1. ui' = ApplyEvent(ui, e) /\ 1 \in DOMAIN events /\ EventOK(e)
      BY <1>1, <1>2, <2>3, TailShrinks DEF UIReceive
    <3>2. CASE Starts(e)
      <4>1. ui'.task = e.task
        BY <1>1, <3>1, <3>2, StartClears DEF Clears
      <4>2. e.task # ui.task
        BY <2>1, <3>1, <3>2 DEF Seen, Follows
      <4> QED
        BY <4>1, <4>2
    <3>3. CASE e.kind = "question"
      <4>1. ui' = Reduce(ui, e)
        BY <3>1, <3>3 DEF ApplyEvent
      <4>2. Updates(ui, e, ui')
        BY <1>1, <3>1, <3>3, <4>1, ReduceUpdates
      <4>3. i \in DOMAIN ui'.rows /\ ui'.rows[i].status = StatusAfter(ui, e, i)
        BY <4>2 DEF Updates
      <4>4. Same(events, 1, 1)
        <5>1. \A m \in DOMAIN events : m \in Nat
          BY <1>1 DEF EvsOK
        <5>2. \A m \in DOMAIN events : 1 <= m /\ m <= 1 => m = 1
          BY <5>1
        <5> QED
          BY <3>3, <5>2 DEF Same, Starts
      <4>5. ~Tells(e, i)
        BY <2>1, <3>1, <4>4 DEF Seen, Final
      <4> QED
        BY <3>3, <4>3, <4>5 DEF StatusAfter, Tells
    <3>4. CASE e.kind \notin {"question", "task_start"}
      BY <3>1, <3>4, OtherIgnored
    <3> QED
      BY <3>2, <3>3, <3>4 DEF Starts
  <2> QED
    BY <2>2, <2>3
<1>3. CASE UIDies
  <2>1. ui.pc = "wait" /\ Seen(events, ui, ShownId, OldIds, Width, Found)
    BY <1>3 DEF UIDies, Screen
  <2>2. ui'.task = None
    BY <1>3 DEF UIDies, EmptyScreen
  <2>3. ui.rows = <<>>
    BY <2>1, <2>2 DEF Seen, Follows
  <2> QED
    BY <2>3
<1>4. CASE ~UIReceive /\ ~UIDies
  BY <1>4, OthersWatch
<1> QED
  BY <1>2, <1>3, <1>4

\* No event is sent on the closed channel: every job of a task has reported, and sends
\* nothing more, before the task ends, and the channel is closed after the last task.
THEOREM NothingSentOnClosed == Spec => []NoSendOnClosed
<1>1. Inv => NoSendOnClosed
  BY DEF Inv, Channel, NoSendOnClosed
<1> QED
  BY <1>1, InvHolds, PTL

\* Each question keeps the outcome of its own job, whatever the order of the answers,
\* and the status and count of a task are those its outcomes give.
THEOREM VerdictsMatch == Spec => []VerdictMatches
BY InvHolds, Matches, PTL

\* A run that succeeds ran the tasks asked for, each once, in the order of the
\* configuration, with the agent of the override, of the last selector that names one
\* for the task, of the task, or the default (run_plan.go).
THEOREM RunsWhatIsSelected == Spec => []RanAsSelected
BY InvHolds, Selected, PTL

\* A screen that closed with the run, and lost no event, shows what the run found for
\* the last task, if its questions were announced.
THEOREM ScreenIsTrue == Spec => []ScreenMatchesResults
BY InvHolds, ScreenTrue, PTL

\* A question shown as finished stays so until the next task starts.
THEOREM RowsStaySettled == Spec => RowsSettle
<1>1. Inv /\ [Next]_vars => Settles
  BY StepSettles
<1>2. Spec => [][Settles]_vars
  BY <1>1, InvHolds, PTL DEF Spec
<1> QED
  BY <1>2 DEF RowsSettle, Settles
=============================================================================
