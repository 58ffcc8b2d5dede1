------------------------------- MODULE CallLoop -------------------------------
(***************************************************************************)
(* The agent's turn (internal/agent/call): RunCall asks the model, runs    *)
(* the tools it calls, appends their outputs, and asks again until it      *)
(* calls none, compacting the history before each request.  The provider   *)
(* (openrouter*.go) puts the events of a response together from the        *)
(* fragments of its stream; the executor (tool_executor.go) turns every    *)
(* failure of a tool into an output.                                       *)
(*                                                                         *)
(* A session may have several turns, with changes of its environment       *)
(* between them (environment.go); the runner uses one turn per question.   *)
(***************************************************************************)
EXTENDS Compaction

CONSTANTS
  Context,      \* kinds of the optional items a session starts with
  Responses,    \* streams the model may answer with: sequences of fragments
                \* [index, id, args], calls are numbered from 1, 0 is
                \* a piece of text
  MaxSteps,     \* limit on requests of a turn, 0 for none
  MaxTokens,    \* limit on the tokens of the history, 0 for none
  MayBeLate,    \* there is a time limit, which may pass
  Hooks,        \* number of call hooks
  MaxTurns,     \* turns of the session
  MaxDiffs      \* changes of the environment

ASSUME CallLoopAssumption ==
  /\ MaxSteps \in Nat /\ MaxTokens \in Nat /\ Hooks \in Nat /\ MaxTurns \in Nat
  /\ MaxDiffs \in Nat /\ MayBeLate \in BOOLEAN
  /\ Context \subseteq {"developer", "instructions"}

VARIABLES
  history,    \* the session's history
  pc,         \* where RunCall is
  steps,      \* requests of this turn
  stream,     \* events of the response not yet handled
  followUp,   \* the response called a tool
  before,     \* hooks whose BeforeCall succeeded
  after,      \* hooks whose AfterCall ran
  failure,    \* the error that ended the loop, or "none"
  output,     \* the n of the item whose text was returned, 0 for the summary, -1 for none
  added,      \* items added so far
  turns, diffs

vars == <<history, pc, steps, stream, followUp, before, after, failure, output, added, turns, diffs>>

Item(kind, n, call, of) == [kind |-> kind, n |-> n, call |-> call, of |-> of]
Text(kind) == Item(kind, added + 1, "none", 0)
AppendItem(item) == history' = Append(history, item) /\ added' = added + 1

\* Developer and user instructions, when there are any, and the environment.
BuildInitialContext ==
  LET Optional(kind) == IF kind \in Context THEN <<kind>> ELSE <<>>
      kinds == Optional("developer") \o Optional("instructions") \o <<"environment">>
  IN  [i \in DOMAIN kinds |-> Item(kinds[i], i, "none", 0)]

Init ==
  /\ history = BuildInitialContext /\ added = Len(BuildInitialContext)
  /\ pc = "idle" /\ steps = 0 /\ stream = <<>> /\ followUp = FALSE
  /\ before = 0 /\ after = 0 /\ failure = "none" /\ output = -1 /\ turns = 0 /\ diffs = 0

AppendEnvironmentDiff ==
  /\ pc = "idle" /\ diffs < MaxDiffs
  /\ diffs' = diffs + 1
  /\ AppendItem(Text("environment"))
  /\ UNCHANGED <<pc, steps, stream, followUp, before, after, failure, output, turns>>

StartCall ==
  /\ pc = "idle" /\ turns < MaxTurns
  /\ turns' = turns + 1
  /\ AppendItem(Text("user"))
  /\ pc' = "compact"
  /\ steps' = 0 /\ followUp' = FALSE /\ before' = 0 /\ after' = 0
  /\ failure' = "none" /\ output' = -1
  /\ UNCHANGED <<stream, diffs>>

LoopOnly == UNCHANGED <<after, output, turns, diffs>>
Fails(err) == failure' = err /\ pc' = "finish"

\* MUTANT: compacts until the history fits the soft limit.
CompactUntilFits ==
  /\ pc = "compact"
  /\ IF ~NeedsCompaction(history)
     THEN pc' = "limits" /\ UNCHANGED <<history, failure>>
     ELSE \E h \in {FilterSummaryItems(history)} : \E keep \in {Keep(h)} :
          \E summary \in SummaryOutcomes(h, keep) :
            IF summary = "error" THEN Fails("runtime_error") /\ UNCHANGED history
            ELSE history' = Compacted(h, keep, summary) /\ UNCHANGED <<pc, failure>>
  /\ UNCHANGED <<steps, stream, followUp, before, added>> /\ LoopOnly

\* Once per request; what is left may still exceed the soft limit.
CompactHistory ==
  /\ pc = "compact"
  /\ IF ~NeedsCompaction(history)
     THEN pc' = "limits" /\ UNCHANGED <<history, failure>>
     ELSE \E h \in {FilterSummaryItems(history)} : \E keep \in {Keep(h)} :
          \E summary \in SummaryOutcomes(h, keep) :
            IF summary = "error" THEN Fails("runtime_error") /\ UNCHANGED history
            ELSE history' = Compacted(h, keep, summary) /\ pc' = "limits" /\ UNCHANGED failure
  /\ UNCHANGED <<steps, stream, followUp, before, added>> /\ LoopOnly

\* MUTANT: the tokens are counted before the first request only.
TokensOnce(h) ==
  \/ MaxSteps > 0 /\ steps >= MaxSteps
  \/ MaxTokens > 0 /\ steps = 0 /\ ApproxTokenCount(h) > MaxTokens

ExceededLimits(h) ==
  \/ MaxSteps > 0 /\ steps >= MaxSteps
  \/ MaxTokens > 0 /\ ApproxTokenCount(h) > MaxTokens

\* The prompt and the hooks, once per turn, before the first request.
CheckLimits ==
  /\ pc = "limits"
  /\ \/ ExceededLimits(history) /\ Fails("budget_exceeded")
     \/ MayBeLate /\ Fails("budget_exceeded")
     \/ ~ExceededLimits(history) /\ pc' = "request" /\ UNCHANGED failure
  /\ UNCHANGED <<history, steps, stream, followUp, before, added>> /\ LoopOnly

BeforeHook ==
  /\ pc = "request" /\ before < Hooks
  /\ \/ before' = before + 1 /\ UNCHANGED <<pc, failure>>
     \/ Fails("runtime_error") /\ UNCHANGED before
  /\ UNCHANGED <<history, steps, stream, followUp, added>> /\ LoopOnly
-----------------------------------------------------------------------------
(* The provider.                                                           *)

Indices(chunks) == {chunks[k].index : k \in DOMAIN chunks} \ {0}

\* The id of the last fragment that has one, or else a name made of the index.
CallId(chunks, index) ==
  LET named == {k \in DOMAIN chunks : chunks[k].index = index /\ chunks[k].id # ""}
  IN  IF named = {} THEN "call-" \o ToString(index) ELSE chunks[Max(named)].id

\* The text first, if there is any, then the calls by index.
ParseStream(chunks) ==
  LET indices == SelectSeq([i \in 1 .. Max(Indices(chunks) \cup {0}) |-> i],
                           LAMBDA i : i \in Indices(chunks))
      text    == IF \E k \in DOMAIN chunks : chunks[k].index = 0
                 THEN <<[type |-> "message", id |-> ""]>> ELSE <<>>
  IN  text \o [k \in DOMAIN indices |-> [type |-> "call", id |-> CallId(chunks, indices[k])]]

\* Arguments that are not JSON make the whole response an error.
Parses(chunks) == \A k \in DOMAIN chunks : chunks[k].args # "malformed"

\* One request: no answer, one that cannot be read, or its events.
Request ==
  /\ pc = "request" /\ before = Hooks
  /\ \/ Fails("runtime_error") /\ UNCHANGED <<steps, stream, followUp>>
     \/ \E chunks \in Responses :
          IF Parses(chunks)
          THEN /\ steps' = steps + 1
               /\ stream' = ParseStream(chunks) /\ followUp' = FALSE
               /\ pc' = "receive" /\ UNCHANGED failure
          ELSE Fails("runtime_error") /\ UNCHANGED <<steps, stream, followUp>>
  /\ UNCHANGED <<history, before, added>> /\ LoopOnly
-----------------------------------------------------------------------------
(* The response.                                                           *)

ReceiveMessage ==
  /\ pc = "receive" /\ stream # <<>> /\ Head(stream).type = "message"
  /\ AppendItem(Text("assistant"))
  /\ stream' = Tail(stream)
  /\ UNCHANGED <<pc, steps, followUp, before, failure>> /\ LoopOnly

ReceiveCall ==
  /\ pc = "receive" /\ stream # <<>> /\ Head(stream).type = "call"
  /\ AppendItem(Item("call", added + 1, Head(stream).id, 0))
  /\ pc' = "tool"
  /\ UNCHANGED <<steps, stream, followUp, before, failure>> /\ LoopOnly

\* The tool ran or not, its output is appended: an unknown tool, arguments that
\* are missing or of the wrong type and a failed tool have an error for output.
ExecuteTool ==
  /\ pc = "tool"
  /\ AppendItem(Item("output", added + 1, Head(stream).id, Last(history).n))
  /\ stream' = Tail(stream)
  /\ followUp' = TRUE
  /\ pc' = "receive"
  /\ UNCHANGED <<steps, before, failure>> /\ LoopOnly

ResponseEnds ==
  /\ pc = "receive" /\ stream = <<>>
  /\ pc' = IF followUp THEN "compact" ELSE "finish"
  /\ UNCHANGED <<history, steps, stream, followUp, before, failure, added>> /\ LoopOnly

LatestAssistantMessage ==
  LET texts == {i \in DOMAIN history : history[i].kind \in {"assistant", "summary"}}
  IN  IF texts = {} THEN -1 ELSE history[Max(texts)].n

\* MUTANT: the after hooks run only when the turn succeeded.
FinishOnSuccess ==
  /\ pc = "finish"
  /\ output' = LatestAssistantMessage
  /\ after' = IF before = Hooks /\ failure = "none" THEN Hooks ELSE 0
  /\ pc' = "idle"
  /\ UNCHANGED <<history, steps, stream, followUp, before, failure, added, turns, diffs>>

\* The result, and the after hooks if the prompt was given to the hooks.
Finish ==
  /\ pc = "finish"
  /\ output' = LatestAssistantMessage
  /\ after' = IF before = Hooks THEN Hooks ELSE 0
  /\ pc' = "idle"
  /\ UNCHANGED <<history, steps, stream, followUp, before, failure, added, turns, diffs>>

Loop == \/ CompactHistory \/ CheckLimits \/ BeforeHook \/ Request \/ ReceiveMessage
        \/ ReceiveCall \/ ExecuteTool \/ ResponseEnds \/ Finish

Next == AppendEnvironmentDiff \/ StartCall \/ Loop

\* The model and the tools answer: their calls have the context of the run.
Spec == Init /\ [][Next]_vars /\ WF_vars(Loop)
-----------------------------------------------------------------------------
(* Properties.                                                             *)

\* History is a sequence of items in the order they were added, with the summary
\* last of those it was put behind, and the turn keeps its count of requests.
TypeOK ==
  /\ \A i \in DOMAIN history : history[i].kind \in Kinds /\ history[i].n \in 0 .. added
  /\ \A i, j \in DOMAIN history : i < j /\ history[j].n # 0 => history[i].n < history[j].n
  /\ pc \in {"idle", "compact", "limits", "request", "receive", "tool", "finish"}
  /\ MaxSteps > 0 => steps \in 0 .. MaxSteps
  /\ before \in 0 .. Hooks /\ after \in 0 .. Hooks
  /\ failure \in {"none", "budget_exceeded", "runtime_error"}
  /\ output \in -1 .. added

\* Every output in the history follows the call it answers, and no other call of
\* the same id comes between them, also when ids repeat from one response to the
\* next and after any number of compactions (providers refuse anything else);
\* items keep the order in which they were added.
ToolsPaired ==
  /\ TypeOK
  /\ \A i \in OfKind(history, "output") :
       /\ CallsBefore(history, i) # {}
       /\ history[Max(CallsBefore(history, i))].n = history[i].of

\* What a compaction of the history h must leave in g.
Items(h) == {h[i] : i \in DOMAIN h}
NewestItems(h, kind) == {h[i] : i \in Newest(OfKind(h, kind))}
Keeps(h, g) ==
  /\ {x \in Items(g) : x.kind # "summary"} \subseteq Items(h)
  /\ {x \in Items(h) : x.kind \in {"developer", "instructions"}} \subseteq Items(g)
  /\ NewestItems(h, "environment") \cup NewestItems(h, "user") \subseteq Items(g)
  /\ Last(h).kind = "output" => Last(h) \in Items(g)
  /\ Cardinality(OfKind(g, "summary")) <= 1

\* Compaction leaves the instructions, the newest environment, the newest user
\* message and a tool output the model has not seen, adds nothing but a summary,
\* and drops the summary before it.
CompactionKeeps == [][pc = "compact" /\ history' # history => Keeps(history, history')]_vars

\* No request is sent once the limit of requests is reached, or with a history
\* over the limit of tokens, whatever the tools of the last response added.
RequestsWithinLimits ==
  [][steps' > steps =>
       /\ MaxSteps > 0 => steps' <= MaxSteps
       /\ MaxTokens > 0 => ~(ApproxTokenCount(history) > MaxTokens)]_vars

\* The hooks bracket the turn: none has its AfterCall unless all had their
\* BeforeCall, and a turn that sent a request has them whatever ended it.
HooksBracket ==
  pc = "idle" /\ turns > 0 =>
    /\ after > 0 => before = Hooks
    /\ steps > 0 => after = Hooks

\* A turn ends, even if the model calls a tool in every response and if what is
\* left after compaction is still over the soft limit.
TurnEnds == (pc = "compact") ~> (pc = "idle")
=============================================================================
