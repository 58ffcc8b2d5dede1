--------------------------- MODULE MCMemoryBackend ---------------------------
(* Small instances of MemoryBackend for TLC. *)
EXTENDS MemoryBackend, TLC

CONSTANTS tpm, par, a, b

Req(k, n) == [key |-> k, amount |-> n]
Def(k, kind, cap, span, overage) ==
  [key |-> k, kind |-> kind, capacity |-> cap, span |-> span, overage |-> overage]
Active(def) == [definition |-> def, status |-> "active", pending |-> 0]
Shrinking(def, to) == [definition |-> def, status |-> "decreasing", pending |-> to]

TwoKeys == {tpm, par}
Tpm(n) == Def(tpm, "rolling", n, 2, "deny")
Par(n) == Def(par, "concurrency", n, 2, "deny")

\* A window of capacity 3 and a concurrency limit of capacity 2, resized.
McDefinition == {Tpm(3), Tpm(2), Par(2), Par(1)}
McPersisted == {tpm :> Active(Tpm(3)) @@ par :> Active(Par(2)),
                tpm :> Shrinking(Tpm(3), 2) @@ par :> None}
McRequest == {<<Req(tpm, 2), Req(par, 1)>>, <<Req(tpm, 1)>>}
McActuals == {tpm :> 0, tpm :> 1, tpm :> 3}

Symmetry == Permutations({a, b})

\* Decreases: every limit is asked to shrink and to grow, and usage beyond a
\* reservation is recorded as debt.
Debts(n) == Def(tpm, "rolling", n, 2, "debt")
DecreaseRequest == {<<Req(tpm, 1), Req(par, 1)>>}
DecreasePersisted == {tpm :> Active(Debts(2)) @@ par :> Active(Par(2))}
DecreaseDefinition == {Debts(2), Debts(1), Par(2), Par(1)}
DecreaseActuals == {tpm :> 0, tpm :> 2}
=============================================================================
