---------------------------- MODULE MCScanner ----------------------------
(* TLC instance of Scanner: model values for the callers and the slots. *)
EXTENDS Scanner

CONSTANTS c1, c2, s1, s2

TwoCallers == {c1, c2}
OneSlot == {s1}
TwoSlots == {s1, s2}

OneEach == [c \in TwoCallers |-> 1]
TwiceAndOnce == [c \in TwoCallers |-> IF c = c1 THEN 2 ELSE 1]
==========================================================================
