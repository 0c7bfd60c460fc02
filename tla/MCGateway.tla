---------------------------- MODULE MCGateway ----------------------------
(* TLC instance of Gateway: model values for the requests. *)
EXTENDS Gateway

CONSTANTS r1, r2

TwoRequests == {r1, r2}
==========================================================================
