------------------------------- MODULE MCProxy -------------------------------
(***************************************************************************)
(* Instances of the proxy for TLC.                                         *)
(***************************************************************************)
EXTENDS ProxyProperties, Relay

CONSTANT Second  \* one of the controllers' connections

\* A silent controller competes for the workers with one that has a request.
OneSilent == [p \in Peers |-> IF p \in Workers THEN 2 ELSE IF p = Second THEN 0 ELSE 1]

\* The second request and all responses are larger than what a socket holds.
LargeResponses == [p \in Peers |-> IF p \in Workers \/ p = Second THEN 3 ELSE 1]
=============================================================================
