---------------------------- MODULE RequestFlag -----------------------------
(***************************************************************************)
(* What the clients rely on when they make HTTP requests: an object asks   *)
(* one thing at a time; asking again or cancelling withdraws what it asked *)
(* before, whatever the network has done by then; and its callback runs at *)
(* most once for what it asked last, one callback at a time.               *)
(***************************************************************************)
CONSTANTS
  Requests,  \* the request objects
  Asks,      \* what can be asked
  NoAsk      \* nothing is asked

VARIABLES
  asking,    \* what each object is waiting for an answer to
  answering  \* the callbacks that are running: at most one object, with what it asked

vars == <<asking, answering>>

Init ==
  /\ asking = [r \in Requests |-> NoAsk]
  /\ answering = {}

Ask(r, a) ==
  /\ asking' = [asking EXCEPT ![r] = a]
  /\ UNCHANGED answering

Cancel(r) ==
  /\ asking' = [asking EXCEPT ![r] = NoAsk]
  /\ UNCHANGED answering

Answer(r) ==
  /\ answering = {}
  /\ asking[r] # NoAsk
  /\ answering' = {<<r, asking[r]>>}
  /\ asking' = [asking EXCEPT ![r] = NoAsk]

\* A callback may cancel its object before it returns.
Return ==
  /\ answering' = {}
  /\ \E r \in Requests : asking' \in {asking, [asking EXCEPT ![r] = NoAsk]}

Next == Return \/ \E r \in Requests : Cancel(r) \/ Answer(r) \/ \E a \in Asks : Ask(r, a)

Spec == Init /\ [][Next]_vars
=============================================================================
