------------------------------ MODULE TitleFeed ------------------------------
(***************************************************************************)
(* What a synchronisation channel promises: the titles handed to it are    *)
(* published in the order they were handed over, none twice, and none is   *)
(* left out unless the channel may lose some.  A title is known by its     *)
(* ordinal.  The channels of the project (GlobalSync, QueueSync) implement *)
(* this specification.                                                     *)
(***************************************************************************)
EXTENDS Naturals, Sequences

CONSTANT MayLose     \* whether titles may be skipped

VARIABLES
  sent,              \* how many titles were handed over
  published          \* the ordinals of those that were published

vars == <<sent, published>>

Init == sent = 0 /\ published = <<>>

Send == sent' = sent + 1 /\ UNCHANGED published

Publish ==
  \E m \in 1..sent :
    /\ \A i \in DOMAIN published : published[i] < m
    /\ MayLose \/ m = Len(published) + 1
    /\ published' = Append(published, m)
    /\ UNCHANGED sent

Next == Send \/ Publish

Spec == Init /\ [][Next]_vars
=============================================================================
