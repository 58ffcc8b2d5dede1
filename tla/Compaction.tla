------------------------------ MODULE Compaction ------------------------------
(***************************************************************************)
(* History compaction of the agent (internal/agent/compaction*.go): which  *)
(* items of a conversation are kept when it grows past the soft limit, and *)
(* what is given to the model to be summarised.                            *)
(*                                                                         *)
(* An item is [kind, n, call, of]: n numbers items in the order they were  *)
(* added, call is the id of a tool call and of its output, and of is the n *)
(* of the call an output answers.  The texts themselves are left out: the  *)
(* prefixes the code tells items apart by are the kinds.                   *)
(***************************************************************************)
EXTENDS Picking, FiniteSets, SequencesExt

CONSTANTS
  Chars,         \* kind of item -> its length in characters
  RawCompaction, \* the task's settings: [soft, hard, users, outputs], 0 for unset
  PromptChars    \* length of the summary prompt

Kinds == {"developer", "instructions", "environment", "user", "assistant", "call", "output", "summary"}

ASSUME CompactionAssumption ==
  /\ Chars \in [Kinds -> Nat] /\ PromptChars \in Nat
  /\ RawCompaction \in [soft : Nat, hard : Nat, users : Nat, outputs : Nat]

CeilDiv(a, b) == (a + b - 1) \div b

\* The soft limit is four fifths of the hard one, the budget of user messages a
\* quarter of the soft limit, when they are not set.
NormalizeCompactionConfig(cfg) ==
  LET soft == IF cfg.soft > 0 THEN cfg.soft ELSE CeilDiv(4 * cfg.hard, 5)
      hard == IF cfg.hard > 0 THEN cfg.hard ELSE cfg.soft
  IN  [soft |-> soft, hard |-> hard, outputs |-> cfg.outputs,
       users |-> IF cfg.users > 0 THEN cfg.users ELSE CeilDiv(soft, 4)]

Cfg == NormalizeCompactionConfig(RawCompaction)

\* Four characters a token, rounded down over the whole history.
ApproxTokenCount(h) == SumFunction([i \in DOMAIN h |-> Chars[h[i].kind]]) \div 4
CountTokens(item) == ApproxTokenCount(<<item>>)
EstimatePromptTokens(h) == ApproxTokenCount(h) + PromptChars \div 4

\* The items at the indices of I, in order.
ItemsAt(h, I) == Pick(h, I)
OfKind(h, kind) == {i \in DOMAIN h : h[i].kind = kind}

FilterSummaryItems(h) == ItemsAt(h, DOMAIN h \ OfKind(h, "summary"))

Newest(I) == IF I = {} THEN {} ELSE {Max(I)}

KeepInstructions(h) == OfKind(h, "developer") \cup OfKind(h, "instructions")
LastEnvironment(h) == Newest(OfKind(h, "environment"))

\* MUTANT: a newest message larger than the budget is dropped as well.
StrictRecentUserMessages(h) ==
  LET users    == OfKind(h, "user")
      After(i) == SumFunction([j \in {u \in users : u > i} |-> CountTokens(h[j])])
  IN  {i \in users : \A j \in {u \in users : u >= i} : After(j) + CountTokens(h[j]) <= Cfg.users}

\* From the newest back, until one would exceed the budget; the newest always.
SelectRecentUserMessages(h) ==
  LET users    == OfKind(h, "user")
      After(i) == SumFunction([j \in {u \in users : u > i} |-> CountTokens(h[j])])
      Stops(i) == Cfg.users > 0 /\ After(i) > 0 /\ After(i) + CountTokens(h[i]) > Cfg.users
  IN  Newest(users) \cup {i \in users : \A j \in {u \in users : u >= i} : ~Stops(j)}

\* The last outputs, as many as configured, or else those since the last user message.
SelectToolOutputs(h) ==
  LET outputs == OfKind(h, "output")
      users   == OfKind(h, "user")
  IN  IF Cfg.outputs > 0
      THEN {i \in outputs : Cardinality({j \in outputs : j > i}) < Cfg.outputs}
      ELSE {i \in outputs : users # {} /\ i > Max(users)}

CallsBefore(h, i) == {j \in OfKind(h, "call") : j < i /\ h[j].call = h[i].call}

\* MUTANT: the oldest call with the id is taken.
OldestToolCall(h, i) == IF CallsBefore(h, i) = {} THEN {} ELSE {Min(CallsBefore(h, i))}

\* The nearest earlier call with the output's id.
FindToolCall(h, i) == Newest(CallsBefore(h, i))

SelectToolCallsForOutputs(h, outputs) == UNION {FindToolCall(h, i) : i \in outputs}

Keep(h) ==
  LET outputs == SelectToolOutputs(h)
  IN  KeepInstructions(h) \cup LastEnvironment(h) \cup SelectRecentUserMessages(h)
        \cup outputs \cup SelectToolCallsForOutputs(h, outputs)

\* Drops the oldest items until the summary prompt fits the hard limit.
TrimSummaryItems(items) ==
  LET fits == {k \in 1 .. Len(items) + 1 :
                 EstimatePromptTokens(SubSeq(items, k, Len(items))) <= Cfg.hard}
  IN  IF Cfg.hard <= 0 THEN items
      ELSE IF fits = {} THEN <<>> ELSE SubSeq(items, Min(fits), Len(items))

\* What is left out of the compacted history, and so summarised.
CollectSummaryItems(h, keep) == ItemsAt(h, DOMAIN h \ keep)

\* The compacted history for what the summariser made of the rest; "none" is an
\* empty summary, or that there was nothing to summarise.
Compacted(h, keep, summary) ==
  IF summary = "none" THEN ItemsAt(h, keep)
  ELSE Append(ItemsAt(h, keep), [kind |-> "summary", n |-> 0, call |-> "none", of |-> 0])

\* The outcomes of SummarizeHistory: a text, no text, or an error of the
\* provider, which includes a tool call in place of a text.
SummaryOutcomes(h, keep) ==
  IF TrimSummaryItems(CollectSummaryItems(h, keep)) = <<>> THEN {"none"}
  ELSE {"text", "none", "error"}

NeedsCompaction(h) == Cfg.soft > 0 /\ ApproxTokenCount(h) > Cfg.soft
=============================================================================
