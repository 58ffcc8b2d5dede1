----------------------------- MODULE QuestionRun -----------------------------
(***************************************************************************)
(* A cogni run: the command (internal/cli/run.go), the runner with its     *)
(* question jobs (internal/runner) and the live UI (internal/ui/live).     *)
(*                                                                         *)
(* The runner takes the planned tasks one after the other.  It announces   *)
(* each question, submits it to a scheduler of its own, and waits for one  *)
(* result per question.  Jobs run in the scheduler's workers, which the    *)
(* module Scheduler models in detail: here a job is reserved, perhaps      *)
(* after some denials, executed once, reported, and completed.  Runner and *)
(* jobs send events to the UI through a channel that drops what does not   *)
(* fit; the UI reduces them to one row per question.                       *)
(***************************************************************************)
EXTENDS Picking, FiniteSets

CONSTANTS
  Tasks,        \* the configuration: sequence of [id, agent, questions, workers]
  Agents,       \* configured agents
  DefaultAgent, \* the agent of a task that names none
  Selections,   \* what a user may ask for: [picks, agent], picks being a sequence of
                \* selectors [task, agent] and agent the override, or NoAgent
  MaxQuestions, \* questions of a task
  EventCap,     \* places in the channel of events
  MaxDrops,     \* events that a running UI loses
  Script,       \* [task id, question] -> what may befall it: its denials, how often
                \* it may be denied, its tool calls and the outcomes it may have
  None

NoAgent == ""
TaskIds == {Tasks[i].id : i \in DOMAIN Tasks}
TaskConfigs(agents) == [id : TaskIds, agent : agents, questions : 0 .. MaxQuestions,
                        workers : Nat \ {0}]

ASSUME ConstantsAssumption ==
  /\ Tasks \in Seq(TaskConfigs(Agents \cup {NoAgent}))
  /\ \A i, j \in DOMAIN Tasks : Tasks[i].id = Tasks[j].id => i = j
  /\ DefaultAgent \in Agents
  /\ MaxQuestions \in Nat /\ EventCap \in Nat \ {0} /\ MaxDrops \in Nat

Questions == 1 .. MaxQuestions
Outcomes == {"correct", "incorrect", "parse_error", "budget_exceeded", "runtime_error"}
Waiting == {"waiting_rate_limit", "waiting_limit_decreasing", "waiting_limiter_error"}
Terminal == Outcomes \cup {"skipped"}
Statuses == {"queued", "scheduled", "reserving", "running", "parsing"} \cup Waiting \cup Terminal

\* Selectors come as a list, a denial is one of the three kinds of waiting, and None
\* is not mistaken for a value.
ASSUME InputsAssumption ==
  /\ \A sel \in Selections : sel.picks \in Seq({sel.picks[i] : i \in DOMAIN sel.picks})
  /\ \A i \in DOMAIN Tasks : \A q \in 1 .. Tasks[i].questions :
       Script[<<Tasks[i].id, q>>].denials \subseteq Waiting
  /\ None \notin Statuses \cup TaskIds \cup {"ok", "error", "not_loaded"}

VARIABLES
  main,       \* the goroutine of the command: where it is, task and question, and
              \* what it was asked to run
  plan,       \* the planned task runs
  cur,        \* the task under way: results by question, counters and flags
  results,    \* results of the tasks that ended
  jobs,       \* [task, question] -> state of its job
  resultCh,   \* the channel of job results
  events,     \* the channel of events
  closed,     \* the channel of events is closed
  ui,         \* the UI program: its state, task, rows and counts
  exit,       \* what the command returns
  dropped,    \* history: events dropped
  panicked    \* history: an event was sent on the closed channel

vars == <<main, plan, cur, results, jobs, resultCh, events, closed, ui, exit, dropped, panicked>>

JobIds == (DOMAIN Tasks) \X Questions

NoTask == [results |-> [q \in Questions |-> None], correct |-> 0, got |-> 0,
           runtimeError |-> FALSE, budgetExceeded |-> FALSE]
NoJob == [st |-> "none", retries |-> 0, tools |-> 0, outcome |-> None]
Counts == {"open", "done", "correct"}
EmptyScreen == [pc |-> "wait", task |-> None, rows |-> <<>>, counts |-> [c \in Counts |-> 0]]

Init ==
  /\ \E sel \in Selections : main = [pc |-> "begin", task |-> 0, q |-> 0, asked |-> sel]
  /\ plan = <<>> /\ cur = NoTask /\ results = <<>>
  /\ jobs = [j \in JobIds |-> NoJob]
  /\ resultCh = <<>>
  /\ events = <<>> /\ closed = FALSE
  /\ ui = EmptyScreen
  /\ exit = None /\ dropped = 0 /\ panicked = FALSE

Goto(pc) == [main EXCEPT !.pc = pc]
Task == plan[main.task]
Befalls(j) == Script[<<plan[j[1]].id, j[2]>>]
-----------------------------------------------------------------------------
(* Events.                                                                 *)

Ev(kind, task, q, type) == [kind |-> kind, task |-> task, q |-> q, type |-> type]

\* The channel drops what does not fit.  The bound MaxDrops lets a running UI
\* catch up before more is lost; a UI that has ended receives nothing.
Send(e) ==
  /\ panicked' = (panicked \/ closed)
  /\ \/ /\ ~closed /\ ui.pc = "wait" /\ Len(events) < EventCap
        /\ events' = Append(events, e) /\ UNCHANGED dropped
     \/ /\ ~closed /\ ui.pc = "wait" /\ Len(events) = EventCap /\ dropped < MaxDrops
        /\ dropped' = dropped + 1 /\ UNCHANGED events
     \/ (closed \/ ui.pc # "wait") /\ UNCHANGED <<events, dropped>>
  /\ UNCHANGED closed

EmitFor(t, q, type) == Send(Ev("question", plan[t].id, q, type))
Emit(q, type) == EmitFor(main.task, q, type)

Silent == UNCHANGED <<events, closed, dropped, panicked>>
-----------------------------------------------------------------------------
(* Planning: ValidateSelectors, OrderedTasks and planTaskRuns.             *)

ValidSelectors(picks) ==
  \A i \in DOMAIN picks :
    picks[i].task \in TaskIds /\ (picks[i].agent # NoAgent => picks[i].agent \in Agents)

OrderedTasks(picks) ==
  IF picks = <<>> THEN Tasks
  ELSE Pick(Tasks, {k \in DOMAIN Tasks : \E i \in DOMAIN picks : picks[i].task = Tasks[k].id})

\* The selectors that name an agent for the task.
Naming(picks, t) == {i \in DOMAIN picks : picks[i].task = t.id /\ picks[i].agent # NoAgent}
OwnAgent(t) == IF t.agent # NoAgent THEN t.agent ELSE DefaultAgent

\* MUTANT: the first selector that names an agent wins.
SelectedAgentFirst(sel, t) ==
  LET named == Naming(sel.picks, t)
  IN  CASE sel.agent # NoAgent -> sel.agent
        [] sel.agent = NoAgent /\ named # {} ->
             sel.picks[CHOOSE i \in named : \A j \in named : i <= j].agent
        [] OTHER -> OwnAgent(t)

\* The override, the last selector that names an agent for the task, the task's
\* own agent, or the default.
SelectedAgent(sel, t) ==
  LET named == Naming(sel.picks, t)
  IN  CASE sel.agent # NoAgent -> sel.agent
        [] sel.agent = NoAgent /\ named # {} ->
             sel.picks[CHOOSE i \in named : \A j \in named : j <= i].agent
        [] OTHER -> OwnAgent(t)

PlanTaskRuns(sel) ==
  LET ordered == OrderedTasks(sel.picks)
  IN  [i \in DOMAIN ordered |-> [ordered[i] EXCEPT !.agent = SelectedAgent(sel, ordered[i])]]

\* An agent that is not configured is an error.
Runnable(runs) == \A i \in DOMAIN runs : runs[i].agent \in Agents
-----------------------------------------------------------------------------
(* Run and RunAndWrite.                                                    *)

Fail == main' = Goto("stop") /\ exit' = "error"

\* Repository, metadata, setup commands and run id come before the first event.
Begin ==
  /\ main.pc = "begin"
  /\ \/ Fail /\ Silent
     \/ /\ main' = Goto("plan") /\ UNCHANGED exit
        /\ Send(Ev("run_start", None, 0, None))
  /\ UNCHANGED <<plan, cur, results, jobs, resultCh, ui>>

\* The plan, the limiter and the tools; none of their errors is told the UI.
Plan ==
  /\ main.pc = "plan"
  /\ \/ Fail /\ UNCHANGED plan
     \/ /\ ValidSelectors(main.asked.picks) /\ Runnable(PlanTaskRuns(main.asked))
        /\ plan' = PlanTaskRuns(main.asked)
        /\ main' = [main EXCEPT !.pc = "task", !.task = 1, !.q = 0] /\ UNCHANGED exit
  /\ Silent
  /\ UNCHANGED <<cur, results, jobs, resultCh, ui>>

TaskStart ==
  /\ main.pc = "task" /\ main.task \in DOMAIN plan
  /\ cur' = NoTask
  /\ resultCh' = <<>>
  /\ main' = Goto("load")
  /\ Send(Ev("task_start", Task.id, 0, None))
  /\ UNCHANGED <<plan, results, jobs, ui, exit>>

TaskResult(status, reason) ==
  [id |-> Task.id, agent |-> Task.agent, status |-> status, reason |-> reason,
   questions |-> IF reason = "not_loaded" THEN 0 ELSE Task.questions,
   correct |-> cur.correct, outcomes |-> cur.results]

\* An unreadable or empty question file, or a compaction prompt that cannot be
\* read, ends the task before any question is announced.
LoadTask ==
  /\ main.pc = "load"
  /\ \/ /\ results' = Append(results, TaskResult("error", "not_loaded"))
        /\ main' = Goto("taskend")
     \/ /\ Task.questions > 0
        /\ main' = [main EXCEPT !.pc = "queue", !.q = 1]
        /\ UNCHANGED results
  /\ Silent
  /\ UNCHANGED <<plan, cur, jobs, resultCh, ui, exit>>

EmitQueued ==
  /\ main.pc = "queue"
  /\ Emit(main.q, "queued")
  /\ main' = IF main.q < Task.questions THEN [main EXCEPT !.q = @ + 1]
             ELSE [main EXCEPT !.pc = "announce", !.q = 1]
  /\ UNCHANGED <<plan, cur, results, jobs, resultCh, ui, exit>>
-----------------------------------------------------------------------------
(* runQuestionJobsSequential and runQuestionJobsConcurrent.                *)

Job == <<main.task, main.q>>
SubmitJob(j) == jobs' = [jobs EXCEPT ![j].st = "queued"]

\* MUTANT: the job is submitted before it is announced.
AnnounceLate ==
  /\ main.pc = "announce"
  /\ SubmitJob(Job)
  /\ main' = Goto("submit")
  /\ Silent
  /\ UNCHANGED <<plan, cur, results, resultCh, ui, exit>>
SubmitEarly ==
  /\ main.pc = "submit"
  /\ Emit(main.q, "scheduled")
  /\ main' = IF Task.workers > 1 /\ main.q < Task.questions
             THEN [main EXCEPT !.pc = "announce", !.q = @ + 1] ELSE Goto("collect")
  /\ UNCHANGED <<plan, cur, results, jobs, resultCh, ui, exit>>

SubmitStepEarly == AnnounceLate \/ SubmitEarly

\* RegisterJob and the event; then the job goes to the scheduler.
Announce ==
  /\ main.pc = "announce"
  /\ Emit(main.q, "scheduled")
  /\ main' = Goto("submit")
  /\ UNCHANGED <<plan, cur, results, jobs, resultCh, ui, exit>>

Submit ==
  /\ main.pc = "submit"
  /\ SubmitJob(Job)
  /\ main' = IF Task.workers > 1 /\ main.q < Task.questions
             THEN [main EXCEPT !.pc = "announce", !.q = @ + 1] ELSE Goto("collect")
  /\ Silent
  /\ UNCHANGED <<plan, cur, results, resultCh, ui, exit>>

SubmitStep == Announce \/ Submit

\* MUTANT: results are kept in the order they arrive.
PlaceByArrival(r) == cur.got + 1

Place(r) == r.q

Collect ==
  LET r    == Head(resultCh)
      last == cur.got + 1 = Task.questions
  IN  /\ main.pc = "collect" /\ resultCh # <<>>
      /\ resultCh' = Tail(resultCh)
      /\ cur' = [results |-> [cur.results EXCEPT ![Place(r)] = r.outcome],
                 correct |-> cur.correct + (IF r.outcome = "correct" THEN 1 ELSE 0),
                 got |-> cur.got + 1,
                 runtimeError |-> cur.runtimeError \/ r.outcome = "runtime_error",
                 budgetExceeded |-> cur.budgetExceeded \/ r.outcome = "budget_exceeded"]
      /\ main' = IF last THEN Goto("shutdown")
                 ELSE IF Task.workers > 1 THEN main
                 ELSE [main EXCEPT !.pc = "announce", !.q = @ + 1]
      /\ Silent
      /\ UNCHANGED <<plan, results, jobs, ui, exit>>

Busy(t) == {q \in Questions : jobs[<<t, q>>].st \notin {"none", "queued", "done"}}

Status(late) ==
  LET broken == cur.runtimeError \/ late
      within == ~broken /\ ~cur.budgetExceeded
  IN  CASE broken                                    -> <<"error", "runtime_error">>
        [] ~broken /\ cur.budgetExceeded             -> <<"fail", "budget_exceeded">>
        [] within /\ cur.correct = Task.questions    -> <<"pass", None>>
        [] within /\ cur.correct # Task.questions    -> <<"fail", "incorrect_answers">>

\* Shutdown ends when the workers have, or after two seconds with an error.
Shutdown ==
  /\ main.pc = "shutdown"
  /\ \E late \in BOOLEAN :
       /\ ~late => Busy(main.task) = {}
       /\ late => Busy(main.task) # {}
       /\ results' = Append(results, TaskResult(Status(late)[1], Status(late)[2]))
  /\ main' = Goto("taskend")
  /\ Silent
  /\ UNCHANGED <<plan, cur, jobs, resultCh, ui, exit>>

TaskEnd ==
  /\ main.pc = "taskend"
  /\ main' = [main EXCEPT !.pc = "task", !.task = @ + 1, !.q = 0]
  /\ Send(Ev("task_end", Task.id, 0, None))
  /\ UNCHANGED <<plan, cur, results, jobs, resultCh, ui, exit>>

RunEnd ==
  /\ main.pc = "task" /\ main.task \notin DOMAIN plan
  /\ main' = Goto("close")
  /\ Send(Ev("run_end", None, 0, None))
  /\ UNCHANGED <<plan, cur, results, jobs, resultCh, ui, exit>>

\* OnRunEnd closes the channel, once; stopUI closes it if that has not happened.
Close ==
  /\ main.pc \in {"close", "stop"}
  /\ closed' = TRUE
  /\ main' = IF main.pc = "close" THEN Goto("write") ELSE Goto("wait")
  /\ UNCHANGED <<plan, cur, results, jobs, resultCh, events, ui, exit, dropped, panicked>>

\* results.json, report.html and the directory of logs; any may fail.
WriteRunOutputs ==
  /\ main.pc = "write"
  /\ exit' \in {"ok", "error"}
  /\ main' = Goto("stop")
  /\ Silent
  /\ UNCHANGED <<plan, cur, results, jobs, resultCh, ui>>

WaitUI ==
  /\ main.pc = "wait" /\ ui.pc # "wait"
  /\ main' = Goto("exit")
  /\ Silent
  /\ UNCHANGED <<plan, cur, results, jobs, resultCh, ui, exit>>
-----------------------------------------------------------------------------
(* A job in a worker of the scheduler.                                     *)

Step(j, from, to) == jobs[j].st = from /\ jobs' = [jobs EXCEPT ![j].st = to]
JobOnly == UNCHANGED <<main, plan, cur, results, ui, exit>>

ReserveStart(j) ==
  /\ Step(j, "queued", "reserving")
  /\ Cardinality(Busy(j[1])) < plan[j[1]].workers
  /\ EmitFor(j[1], j[2], "reserving")
  /\ JobOnly /\ UNCHANGED resultCh

\* Denied, or the limiter failed: the job is queued again.
ReserveAgain(j) ==
  /\ jobs[j].st = "reserving" /\ jobs[j].retries < Befalls(j).retries
  /\ jobs' = [jobs EXCEPT ![j].st = "queued", ![j].retries = @ + 1]
  /\ \E w \in Befalls(j).denials : EmitFor(j[1], j[2], w)
  /\ JobOnly /\ UNCHANGED resultCh

Execute(j) ==
  /\ Step(j, "reserving", "running")
  /\ EmitFor(j[1], j[2], "running")
  /\ JobOnly /\ UNCHANGED resultCh

ToolStart(j) ==
  /\ jobs[j].st = "running" /\ jobs[j].tools < Befalls(j).tools
  /\ jobs' = [jobs EXCEPT ![j].st = "tool", ![j].tools = @ + 1]
  /\ EmitFor(j[1], j[2], "tool_start")
  /\ JobOnly /\ UNCHANGED resultCh

ToolFinish(j) ==
  /\ Step(j, "tool", "running")
  /\ EmitFor(j[1], j[2], "tool_finish")
  /\ JobOnly /\ UNCHANGED resultCh

CallEnds(j) ==
  /\ Step(j, "running", "parsing")
  /\ EmitFor(j[1], j[2], "parsing")
  /\ JobOnly /\ UNCHANGED resultCh

\* MUTANT: a question without a provider is not reported.
JudgeSkips(j, outcome) ==
  /\ \/ jobs[j].st = "parsing"
     \/ jobs[j].st = "running" /\ jobs[j].tools = 0 /\ outcome = "runtime_error"
  /\ outcome \in Befalls(j).outcomes
  /\ jobs' = [jobs EXCEPT ![j].st = IF @ = "running" THEN "completing" ELSE "judged",
                          ![j].outcome = outcome]
  /\ EmitFor(j[1], j[2], outcome)
  /\ JobOnly /\ UNCHANGED resultCh

\* The answer is parsed and compared; or the provider could not be built, which
\* ends the question without the call.
Judge(j, outcome) ==
  /\ \/ jobs[j].st = "parsing"
     \/ jobs[j].st = "running" /\ jobs[j].tools = 0 /\ outcome = "runtime_error"
  /\ outcome \in Befalls(j).outcomes
  /\ jobs' = [jobs EXCEPT ![j] = [NoJob EXCEPT !.st = "judged", !.outcome = outcome]]
  /\ EmitFor(j[1], j[2], outcome)
  /\ JobOnly /\ UNCHANGED resultCh

\* MUTANT: the result is sent before the last event of the question.
ReportFirst(j) ==
  \/ /\ jobs[j].st = "judged" /\ Step(j, "judged", "reported")
     /\ resultCh' = Append(resultCh, [q |-> j[2], outcome |-> jobs[j].outcome])
     /\ Silent /\ JobOnly
  \/ /\ jobs[j].st = "reported" /\ Step(j, "reported", "completing")
     /\ EmitFor(j[1], j[2], jobs[j].outcome)
     /\ JobOnly /\ UNCHANGED resultCh

\* The result channel has a place for every result that may come.
Report(j) ==
  /\ Step(j, "judged", "completing")
  /\ Len(resultCh) < (IF plan[j[1]].workers > 1 THEN plan[j[1]].questions ELSE 1)
  /\ resultCh' = Append(resultCh, [q |-> j[2], outcome |-> jobs[j].outcome])
  /\ Silent /\ JobOnly

CompleteJob(j) ==
  /\ Step(j, "completing", "done")
  /\ Silent /\ JobOnly /\ UNCHANGED resultCh
-----------------------------------------------------------------------------
(* The UI.                                                                 *)

EnsureRow(rows, q) ==
  [i \in 1 .. (IF q > Len(rows) THEN q ELSE Len(rows)) |->
     IF i <= Len(rows) THEN rows[i] ELSE [status |-> "queued", tool |-> "none"]]

ApplyQuestionEvent(rows, e) ==
  [rows EXCEPT ![e.q] = CASE e.type = "tool_start"  -> [@ EXCEPT !.tool = "running"]
                          [] e.type = "tool_finish" -> [@ EXCEPT !.tool = "done"]
                          [] OTHER                  -> [@ EXCEPT !.status = e.type]]

Recount(rows) ==
  LET Count(S) == Cardinality({i \in DOMAIN rows : rows[i].status \in S})
  IN  [open |-> Count(Statuses \ Terminal), done |-> Count(Terminal),
       correct |-> Count({"correct"})]

Reduce(u, e) ==
  LET rows == ApplyQuestionEvent(EnsureRow(u.rows, e.q), e)
  IN  [u EXCEPT !.rows = rows, !.counts = Recount(rows)]

\* MUTANT: a new task keeps the rows of the last.
ApplyEventKeepsRows(u, e) ==
  CASE e.kind = "task_start" -> [u EXCEPT !.task = e.task]
    [] e.kind = "question"   -> Reduce(u, e)
    [] OTHER                 -> u

ApplyEvent(u, e) ==
  CASE e.kind = "task_start" -> [u EXCEPT !.task = e.task, !.rows = <<>>,
                                          !.counts = [c \in Counts |-> 0]]
    [] e.kind = "question"   -> Reduce(u, e)
    [] OTHER                 -> u

\* waitForEvent and Update; the closed and empty channel ends the program.
UIReceive ==
  /\ ui.pc = "wait"
  /\ IF events # <<>>
     THEN ui' = ApplyEvent(ui, Head(events)) /\ events' = Tail(events)
     ELSE closed /\ ui' = [ui EXCEPT !.pc = "quit"] /\ UNCHANGED events
  /\ UNCHANGED <<main, plan, cur, results, jobs, resultCh, closed, exit, dropped, panicked>>

\* The program ends by itself: no terminal, or a signal.  The run goes on, and
\* what is in the channel is not read again.
UIDies ==
  /\ ui.pc = "wait"
  /\ ui' = [EmptyScreen EXCEPT !.pc = "died"]
  /\ events' = <<>>
  /\ UNCHANGED <<main, plan, cur, results, jobs, resultCh, closed, exit, dropped, panicked>>

Main == \/ Begin \/ Plan \/ TaskStart \/ LoadTask \/ EmitQueued
        \/ SubmitStep \/ Collect \/ Shutdown \/ TaskEnd \/ RunEnd \/ Close
        \/ WriteRunOutputs \/ WaitUI

JobStep(j) == \/ ReserveStart(j) \/ ReserveAgain(j) \/ Execute(j) \/ ToolStart(j)
              \/ ToolFinish(j) \/ CallEnds(j) \/ (\E o \in Outcomes : Judge(j, o))
              \/ Report(j) \/ CompleteJob(j)

Next == Main \/ (\E j \in JobIds : JobStep(j)) \/ UIReceive \/ UIDies

\* Every goroutine runs; a limiter call, a model call and a tool call return.
Fairness == /\ WF_vars(Main) /\ WF_vars(UIReceive)
            /\ \A j \in JobIds : WF_vars(JobStep(j))

Spec == Init /\ [][Next]_vars /\ Fairness
-----------------------------------------------------------------------------
(* Properties.                                                             *)

JobStates == {"none", "queued", "reserving", "running", "tool", "parsing", "judged",
              "completing", "done"}

\* Counters stay within the questions of a task, channels within their bounds,
\* and rows of the UI have a status a question can have.
TypeOK ==
  /\ main.task \in 0 .. Len(plan) + 1 /\ main.q \in 0 .. MaxQuestions
  /\ cur.correct \in 0 .. cur.got /\ cur.got \in 0 .. MaxQuestions
  /\ cur.results \in [Questions -> Outcomes \cup {None}]
  /\ \A j \in JobIds : jobs[j].st \in JobStates
  /\ Len(resultCh) <= MaxQuestions /\ Len(events) <= EventCap
  /\ ui.pc \in {"wait", "quit", "died"}
  /\ \A i \in DOMAIN ui.rows : ui.rows[i].status \in Statuses
  /\ exit \in {None, "ok", "error"}

\* The result kept for a question is the outcome of its own job, in whatever
\* order the jobs ended (runQuestionJobsConcurrent "preserves ordering").  A task
\* passes when every answer is correct; a question that could not be run makes it
\* an error whatever else went wrong; the count is of the correct.
VerdictMatches ==
  /\ TypeOK
  /\ main.pc \in {"announce", "collect", "shutdown", "taskend"} =>
       \A q \in Questions : cur.results[q] # None => cur.results[q] = jobs[<<main.task, q>>].outcome
  /\ \A i \in DOMAIN results :
       LET r == results[i]
           of(o) == {q \in Questions : r.outcomes[q] = o}
       IN  /\ r.status = "pass" => Cardinality(of("correct")) = r.questions /\ r.questions > 0
           /\ of("runtime_error") # {} => r.status = "error"
           /\ r.correct = Cardinality(of("correct"))

\* The tasks that ran are those asked for, each once and in the order of the
\* configuration.  Each ran with the agent of the override; without one, with that
\* of the last selector naming an agent for it; without one, with its own or else
\* the default (run_plan.go:41-51).  src/spec/features/cli.feature:31-34 has a
\* selector's agent win over the override, which this code does not do.
RanAsSelected ==
  LET asked    == main.asked
      picks    == asked.picks
      At(t)    == CHOOSE k \in DOMAIN Tasks : Tasks[k].id = t
      Named(t) == {i \in DOMAIN picks : picks[i].task = t /\ picks[i].agent # NoAgent}
  IN  exit = "ok" =>
        /\ {results[i].id : i \in DOMAIN results}
             = {t \in TaskIds : picks = <<>> \/ \E i \in DOMAIN picks : picks[i].task = t}
        /\ \A i, j \in DOMAIN results : i < j => At(results[i].id) < At(results[j].id)
        /\ \A i \in DOMAIN results :
             LET r   == results[i]
                 own == Tasks[At(r.id)].agent
             IN  /\ asked.agent # NoAgent => r.agent = asked.agent
                 /\ asked.agent = NoAgent => \A k \in Named(r.id) :
                      (\A l \in Named(r.id) : l <= k) => r.agent = picks[k].agent
                 /\ asked.agent = NoAgent /\ Named(r.id) = {} =>
                      r.agent = IF own # NoAgent THEN own ELSE DefaultAgent

\* No event is sent on the closed channel, by the runner or by a job that
\* outlives its task (a panic in Go).
NoSendOnClosed == ~panicked

\* What the UI shows when it closes with the run is what the run found for the
\* last task, unless an event was dropped.  Nothing is said of a task that ended
\* before its questions were announced: src/spec/features/output-live-ui/
\* integration.md:59 wants a row `skipped` for each of them, and the runner never
\* sends that event (question_eval.go:36-56).
ScreenMatchesResults ==
  ui.pc = "quit" /\ dropped = 0 /\ results # <<>> /\ main.pc \in {"wait", "exit"} =>
    LET r == results[Len(results)]
    IN  r.reason # "not_loaded" =>
          /\ ui.task = r.id
          /\ [q \in 1 .. Len(ui.rows) |-> ui.rows[q].status]
               = [q \in 1 .. r.questions |-> r.outcomes[q]]
          /\ ui.counts.correct = r.correct /\ ui.counts.open = 0

\* A question the UI shows as finished stays finished until the next task,
\* unless an event was dropped: a lost task start mixes the rows of two tasks.
RowsSettle ==
  [][ui'.task = ui.task /\ dropped = 0 =>
       \A i \in DOMAIN ui.rows :
         ui.rows[i].status \in Terminal => ui'.rows[i].status = ui.rows[i].status]_vars

\* The command ends, whatever fails on the way and even if the UI dies.
RunEnds == <>(main.pc = "exit")
=============================================================================
