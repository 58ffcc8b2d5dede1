----------------------------- MODULE MCCallLoop -----------------------------
(* Small instances of CallLoop for TLC. *)
EXTENDS CallLoop

McChars == [k \in Kinds |->
  CASE k \in {"developer", "environment"} -> 4 [] k = "instructions" -> 6
    [] k = "user" -> 8 [] k = "output" -> 40 [] k = "assistant" -> 5 [] OTHER -> 3]

Call(i, id) == [index |-> i, id |-> id, args |-> "{}"]
Piece == [index |-> 0, id |-> "", args |-> ""]
\* A text; nothing; a text with a call that has no id; two calls whose fragments
\* are mixed; arguments that are not JSON.
McResponses ==
  { <<Piece, Piece>>, <<>>, <<Call(1, ""), Piece>>,
    <<Call(2, "b"), Call(1, ""), Call(2, "")>>,
    <<[index |-> 1, id |-> "a", args |-> "malformed"]>> }
\* The soft limit and the budget of user messages are derived; one output is kept.
McCompaction == [soft |-> 0, hard |-> 16, users |-> 1, outputs |-> 1]
=============================================================================
