----------------------------- MODULE MCTBBackend -----------------------------
(* Small instances of TBBackend for TLC. *)
EXTENDS TBBackend, TLC

CONSTANTS tpm, par, a, b, h1, h2

TwoKeys == {tpm, par}
McKind == tpm :> "rolling" @@ par :> "concurrency"
McSpan == tpm :> 1 @@ par :> 2
McOverage == tpm :> "debt" @@ par :> "deny"
McStart == tpm :> 2 @@ par :> 1
Req(k, n) == [key |-> k, amount |-> n]
\* a asks for both limits; b, which never completes, for more of the window
\* than is left beside a.
McAsk == a :> <<Req(tpm, 2), Req(par, 1)>> @@ b :> <<Req(tpm, 1)>>
McActuals == a :> {<<Req(tpm, 1)>>, <<Req(tpm, 3)>>} @@ b :> {}
McTargets == tpm :> {1, 3} @@ par :> {}

Handlers == Permutations({h1, h2})

\* One window, resized while two leases come and go.
OneKey == {tpm}
OneKind == tpm :> "rolling"
OneSpan == tpm :> 2
OneOverage == tpm :> "debt"
OneStart == tpm :> 2
OneTargets == tpm :> {1, 2, 3}
OneActuals == a :> {<<>>} @@ b :> {<<>>}
OneAsk == a :> <<Req(tpm, 1)>> @@ b :> <<Req(tpm, 2)>>
=============================================================================
