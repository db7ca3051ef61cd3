------------------------------ MODULE Requests ------------------------------
(***************************************************************************)
(* What a request layer promises its callers: the promise of a call is     *)
(* fulfilled by the answer to that very call, at most once, and only while *)
(* it is open; it may stay open for ever.  A call is known by its ordinal. *)
(* Module MqttFetch is shown to implement this specification.              *)
(***************************************************************************)
EXTENDS Integers, Sequences

VARIABLE promises    \* of each call: Open, Rejected, or whose answer it got

Open == 0
Rejected == -1

Init == promises = <<>>

Call == \E p \in {Open, Rejected} : promises' = Append(promises, p)

Answer ==
  \E c \in DOMAIN promises :
    promises[c] = Open /\ promises' = [promises EXCEPT ![c] = c]

Next == Call \/ Answer

Spec == Init /\ [][Next]_promises
=============================================================================
