----------------------------- MODULE ExactlyOnce -----------------------------
(***************************************************************************)
(* What a refund workflow promises: every intent is paid exactly once, a    *)
(* payment whose outcome is not known is settled without paying again, and  *)
(* nothing else is paid while an outcome is unknown.                        *)
(***************************************************************************)
EXTENDS Integers

CONSTANT Intent

VARIABLES
  paid,     \* how many external effects an intent has had
  outcome   \* what the workflow knows of it

vars == <<paid, outcome>>

Init ==
  /\ paid = [i \in Intent |-> 0]
  /\ outcome = [i \in Intent |-> "open"]

Pay(i) ==
  /\ \A j \in Intent : outcome[j] # "unknown"
  /\ outcome[i] = "open"
  /\ paid' = [paid EXCEPT ![i] = paid[i] + 1]
  /\ \E o \in {"settled", "unknown"} : outcome' = [outcome EXCEPT ![i] = o]

Settle(i) ==
  /\ outcome[i] = "unknown"
  /\ outcome' = [outcome EXCEPT ![i] = "settled"]
  /\ UNCHANGED paid

Next == \E i \in Intent : Pay(i) \/ Settle(i)

Spec == Init /\ [][Next]_vars /\ WF_vars(Next)
=============================================================================
