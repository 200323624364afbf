------------------------------- MODULE TermSum -------------------------------
(***************************************************************************)
(* What a team of fine tasks promises: each term that the mask allows is   *)
(* added to the sum of its row, in one step, in any order; in the end the  *)
(* sums are given as a vector in which every row with a term appears once. *)
(***************************************************************************)
CONSTANTS
  Places,         \* the row indices
  Summands,       \* the terms
  None            \* no vector has been given yet

VARIABLES
  todo,           \* row -> terms not yet added
  sum,            \* row -> terms added
  result          \* None, or the set of <<row, sum>> given

Init ==
  /\ todo \in [Places -> SUBSET Summands]
  /\ sum = [i \in Places |-> {}]
  /\ result = None

Add ==
  /\ result = None
  /\ \E i \in Places : \E c \in todo[i] :
       /\ sum' = [sum EXCEPT ![i] = @ \cup {c}]
       /\ todo' = [todo EXCEPT ![i] = @ \ {c}]
  /\ UNCHANGED result

Publish ==
  /\ result = None
  /\ \A i \in Places : todo[i] = {}
  /\ result' = {<<i, sum[i]>> : i \in {k \in Places : sum[k] # {}}}
  /\ UNCHANGED <<todo, sum>>

\* What is never wrong, and what is given in the end
Safety == Init /\ [][Add \/ Publish]_<<todo, sum, result>>
Spec   == Safety /\ <>(result # None)
=============================================================================
