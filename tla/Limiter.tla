------------------------------- MODULE Limiter -------------------------------
(***************************************************************************)
(* What a limiter backend promises, whatever its data structures: each key *)
(* carries a load that never exceeds its capacity, a request is charged to *)
(* all of its keys or to none, and a capacity changes only to a value that *)
(* covers the load.                                                        *)
(***************************************************************************)
EXTENDS Integers

CONSTANTS Key, Need   \* Need: the possible requests, each a function from
                      \* some keys to the amounts asked for

VARIABLES load, cap,
          counted     \* the keys that charge 1 per request, whatever its amount

lvars == <<load, cap, counted>>

Init == load = [k \in Key |-> 0] /\ cap \in [Key -> Nat] /\ counted \in SUBSET Key

Charge(need, k) == IF k \in counted THEN 1 ELSE need[k]

\* Expiry and completion give load back; both may happen in any step.
Shrinks(k) == load'[k] \in 0 .. load[k]

Release == /\ load' = [k \in Key |-> load'[k]]
           /\ \A k \in Key : Shrinks(k)
           /\ UNCHANGED <<cap, counted>>

\* The whole request is charged, after whatever expired has been given back.
Grant(need) ==
  /\ load' = [k \in Key |-> load'[k]]
  /\ \A k \in DOMAIN need : /\ load'[k] \in Charge(need, k) .. cap[k]
                            /\ load'[k] - Charge(need, k) <= load[k]
  /\ \A k \in Key \ DOMAIN need : load'[k] = load[k]
  /\ UNCHANGED <<cap, counted>>

Resize(k) ==
  /\ load' = [load EXCEPT ![k] = load'[k]]
  /\ Shrinks(k)
  /\ cap' = [cap EXCEPT ![k] = cap'[k]]
  /\ cap'[k] \in Nat
  /\ load'[k] <= cap'[k]
  /\ counted' \in {counted \ {k}, counted \cup {k}}

Next == Release \/ (\E need \in Need : Grant(need)) \/ (\E k \in Key : Resize(k))

Spec == Init /\ [][Next]_lvars
=============================================================================
