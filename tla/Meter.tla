------------------------------- MODULE Meter ------------------------------
(***************************************************************************)
(* What a rate limit promises: every client has a store of tokens that     *)
(* fills with every tick up to its capacity and pays for each request it   *)
(* admits; a request is refused only when the store cannot pay.  A store   *)
(* that the limiter forgets is a full one.  RateLimit implements this      *)
(* without touching a bucket between two requests.                         *)
(***************************************************************************)
EXTENDS Integers

CONSTANTS
    Clients,    \* the keys of the limiter
    Capacity,   \* units in a full store
    Rate,       \* units that flow in per tick
    Token       \* units that a request costs

VARIABLES
    level,      \* client -> units in its store
    answer,     \* client -> [at, ok] of its last request, once there is one
    now         \* the time

vars == <<level, answer, now>>

Filled(u) == IF u > Capacity THEN Capacity ELSE u

Init ==
    /\ now = 0
    /\ level = [k \in Clients |-> Capacity]
    /\ answer = [k \in {} |-> 0]

Tick ==
    /\ now' = now + 1
    /\ level' = [k \in Clients |-> Filled(level[k] + Rate)]
    /\ UNCHANGED answer

\* A request of client k, which may make the limiter forget others.
Request(k, forgotten) ==
    LET paid == level[k] >= Token IN
    /\ level' = [j \in Clients |->
                    IF j = k THEN IF paid THEN level[k] - Token ELSE level[k]
                    ELSE IF j \in forgotten THEN Capacity ELSE level[j]]
    /\ answer' = [j \in DOMAIN answer \cup {k} |->
                    IF j = k THEN [at |-> now, ok |-> paid] ELSE answer[j]]
    /\ UNCHANGED now

Next ==
    \/ Tick
    \/ \E k \in Clients, forgotten \in {{}} \cup {{j} : j \in Clients} : Request(k, forgotten)

Spec == Init /\ [][Next]_vars
==========================================================================
