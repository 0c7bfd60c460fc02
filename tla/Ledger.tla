------------------------------ MODULE Ledger ------------------------------
(***************************************************************************)
(* What an audit trail promises, whoever keeps it: an entry is recorded    *)
(* once or lost for good, and what is recorded stays where it is.  Auditor *)
(* implements it with the bytes of a file, Gateway with the handlers of    *)
(* requests.  A fault may lose several entries at once.                    *)
(***************************************************************************)
EXTENDS Sequences, SequencesExt

CONSTANT Items

VARIABLES
    recorded,   \* the entries a reader of the trail finds, in order
    gone        \* the entries no reader will ever find

vars == <<recorded, gone>>

Undecided == Items \ (ToSet(recorded) \cup gone)

Init == recorded = <<>> /\ gone = {}

Record(e) ==
    /\ recorded' = Append(recorded, e)
    /\ UNCHANGED gone

Lose(E) ==
    /\ gone' = gone \cup E
    /\ UNCHANGED recorded

Next ==
    \/ \E e \in Undecided : Record(e)
    \/ \E E \in SUBSET Undecided : Lose(E)

Spec == Init /\ [][Next]_vars
==========================================================================
