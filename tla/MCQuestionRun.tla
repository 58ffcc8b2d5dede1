---------------------------- MODULE MCQuestionRun ----------------------------
(* Small instances of QuestionRun for TLC. *)
EXTENDS QuestionRun, TLC

McTasks == << [id |-> "t1", agent |-> "x", questions |-> 2, workers |-> 2],
              [id |-> "t2", agent |-> "", questions |-> 1, workers |-> 1] >>
Sel(t, a) == [task |-> t, agent |-> a]
Ask(picks, agent) == [picks |-> picks, agent |-> agent]
\* Everything; one task twice with two agents; both tasks, one with an agent of its
\* own, and an agent for the command; an unknown task; an unknown agent.
McSelections ==
  {Ask(<<>>, ""), Ask(<<Sel("t1", "x"), Sel("t1", "y")>>, ""), Ask(<<Sel("t1", ""), Sel("t2", "x")>>, "y"),
   Ask(<<Sel("t3", "")>>, ""), Ask(<<>>, "z")}

May(denials, retries, tools, outcomes) ==
  [denials |-> denials, retries |-> retries, tools |-> tools, outcomes |-> outcomes]
McScript ==
  (<<"t1", 1>> :> May({"waiting_rate_limit"}, 1, 0, {"correct", "budget_exceeded"})) @@
  (<<"t1", 2>> :> May({}, 0, 1, {"correct", "runtime_error"})) @@
  (<<"t2", 1>> :> May({"waiting_limit_decreasing", "waiting_limiter_error"}, 1, 1,
                      {"parse_error", "incorrect"}))
=============================================================================
