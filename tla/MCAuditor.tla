---------------------------- MODULE MCAuditor ----------------------------
(* TLC instance of Auditor: model values for the handlers. *)
EXTENDS Auditor

CONSTANTS h1, h2

TwoHandlers == {h1, h2}
==========================================================================
