----------------------------- MODULE BoundedFifo -----------------------------
(***************************************************************************)
(* What a single-producer single-consumer ring promises its two callers,   *)
(* with no slots, indices or atomics in sight: a first-in first-out queue  *)
(* of at most Capacity values.                                             *)
(*                                                                         *)
(* A transfer into the queue has a call (Offer) and a publication          *)
(* (Accept), because the producer's thread can be stopped between the two; *)
(* until the publication the consumer sees nothing of the call.            *)
(***************************************************************************)
EXTENDS Integers, Sequences

CONSTANTS Value,    \* what the queue carries
          Capacity  \* how many values it holds at once

VARIABLES queue,    \* accepted and not yet taken, oldest first
          input,    \* the values of the producer's call in flight
          output    \* the values the consumer's last call returned

vars == <<queue, input, output>>

Init == queue = <<>> /\ input = <<>> /\ output = <<>>

(* The producer commits to a batch that fits. *)
Offer ==
  /\ input = <<>>
  /\ input' \in Seq(Value)
  /\ Len(queue) + Len(input') <= Capacity
  /\ UNCHANGED <<queue, output>>

(* The whole batch becomes visible at once, behind what is queued. *)
Accept ==
  /\ queue' = queue \o input
  /\ input' = <<>>
  /\ UNCHANGED output

(* The consumer receives the n oldest values, and they leave the queue. *)
Take(n) ==
  /\ output' = SubSeq(queue, 1, n)
  /\ queue' = SubSeq(queue, n + 1, Len(queue))
  /\ UNCHANGED input

(* The consumer throws the n oldest values away. *)
Discard(n) ==
  /\ queue' = SubSeq(queue, n + 1, Len(queue))
  /\ UNCHANGED <<input, output>>

Next == Offer \/ Accept \/ \E n \in 0..Len(queue) : Take(n) \/ Discard(n)

Spec == Init /\ [][Next]_vars
=============================================================================
