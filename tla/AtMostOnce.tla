----------------------------- MODULE AtMostOnce -----------------------------
(***************************************************************************)
(* What the writer promises its callers, without ledger, clock, claims or  *)
(* crashes: a command is initiated by at most one of its deliveries, and   *)
(* an answer on offer to a delivery is true when it is given.  A command   *)
(* may be forgotten (its retention has passed); an answer that denies its  *)
(* execution then means nothing any more, but it is still never initiated  *)
(* a second time.                                                          *)
(***************************************************************************)
CONSTANTS Commands, Deliveries, NoAnswer

VARIABLES
  by,         \* for each command, the deliveries that initiated it
  offered,    \* for each delivery, the command and the answer it is being given
  forgotten   \* the commands past their retention

vars == <<by, offered, forgotten>>

Init ==
  /\ by = [c \in Commands |-> {}]
  /\ offered = [d \in Deliveries |-> NoAnswer]
  /\ forgotten = {}

Truthful(answer) ==
  /\ answer.outcome = "completed" => by[answer.command] # {}
  /\ answer.outcome \in {"not_executed", "retryable"} =>
       by[answer.command] = {} \/ answer.command \in forgotten

Initiate(c, d) ==
  /\ by[c] = {}
  /\ by' = [by EXCEPT ![c] = {d}]
  /\ UNCHANGED <<offered, forgotten>>

\* Answers are put on offer, delivered, or lost with the process that offered them.
Answer ==
  /\ \A d \in Deliveries : offered'[d] = NoAnswer \/ Truthful(offered'[d])
  /\ UNCHANGED <<by, forgotten>>

Forget ==
  /\ forgotten \subseteq forgotten'
  /\ UNCHANGED <<by, offered>>

Next == Answer \/ Forget \/ \E c \in Commands, d \in Deliveries : Initiate(c, d)

Spec == Init /\ [][Next]_vars
=============================================================================
