---------------------------- MODULE ReviewVerdict ----------------------------
(***************************************************************************)
(* What a review promises to the agents that call `crit' and wait: an      *)
(* approval is always one the reviewer gave while the agent was asking,    *)
(* and everything else that can end the call denies.                       *)
(***************************************************************************)
CONSTANTS Client, Tab

VARIABLES
  asking,    \* clients that have called and are not answered
  offered,   \* verdicts given in each tab while a client has been asking
  outcome    \* what each client got out of its last call: a verdict, or nothing

vars == <<asking, offered, outcome>>

Verdict == [by : Tab, approved : BOOLEAN]

Init ==
  /\ asking = {}
  /\ offered = [c \in Client |-> {}] /\ outcome = [c \in Client |-> {}]

Ask(c) ==
  /\ c \notin asking
  /\ asking' = asking \cup {c}
  /\ offered' = [offered EXCEPT ![c] = {}] /\ outcome' = [outcome EXCEPT ![c] = {}]

(* The reviewer's verdict is offered to some of those who are asking.      *)
Give(v, heard) ==
  /\ heard \subseteq asking
  /\ offered' = [c \in Client |-> offered[c] \cup IF c \in heard THEN {v} ELSE {}]
  /\ UNCHANGED <<asking, outcome>>

Answer(c) ==
  /\ c \in asking /\ asking' = asking \ {c}
  /\ \E v \in offered[c] : outcome' = [outcome EXCEPT ![c] = {v}]
  /\ UNCHANGED offered

Deny(c) ==
  /\ c \in asking /\ asking' = asking \ {c}
  /\ UNCHANGED <<offered, outcome>>

Next ==
  \/ \E c \in Client : Ask(c) \/ Answer(c) \/ Deny(c)
  \/ \E v \in Verdict, heard \in SUBSET asking : Give(v, heard)

Spec == Init /\ [][Next]_vars
=============================================================================
