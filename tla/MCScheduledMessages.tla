-------------------------- MODULE MCScheduledMessages --------------------------
(* A small office: a1 reminds a2 of two things and itself of one. The two to   *)
(* a2 share the receiver (order of delivery) and the sender (quota); one of    *)
(* them is keyed, so it may be retried, and a key of a1 is also used by the    *)
(* third with another payload (the conflict).                                  *)
EXTENDS ScheduledMessages, TLC

CONSTANTS a1, a2, r1, r2, r3, k1

MCFrom == r1 :> a1 @@ r2 :> a1 @@ r3 :> a1
MCTo == r1 :> a2 @@ r2 :> a2 @@ r3 :> a1
MCAt == r1 :> 1 @@ r2 :> 2 @@ r3 :> 1
MCKey == r1 :> k1 @@ r2 :> NoKey @@ r3 :> k1

=============================================================================
