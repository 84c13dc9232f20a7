------------------------------ MODULE Exchange ------------------------------
(***************************************************************************)
(* What the two ends of a connection promise each other: the controller    *)
(* asks, the worker hears exactly what was asked and answers, the          *)
(* controller learns exactly what was answered, and only then asks again.  *)
(* The controller may give the worker up for good at any point.            *)
(***************************************************************************)
CONSTANTS
  Messages,
  Nothing     \* there is no message yet, or none any more

VARIABLES
  stage,      \* how far the exchange is
  message     \* the message sent or understood last

Init == stage = "idle" /\ message = Nothing

Moves(from, to) == stage = from /\ stage' = to

Ask    == Moves("idle", "asked") /\ message' \in Messages
Hear   == Moves("asked", "handled") /\ UNCHANGED message
Answer == Moves("handled", "answered") /\ message' \in Messages
Learn  == Moves("answered", "idle") /\ UNCHANGED message
GiveUp == stage # "over" /\ stage' = "over" /\ message' = Nothing

Next == Ask \/ Hear \/ Answer \/ Learn \/ GiveUp

Spec == Init /\ [][Next]_<<stage, message>>
=============================================================================
