---------------------------- MODULE RateLimit ----------------------------
(***************************************************************************)
(* The rate limiter of one upstream (gateway/ratelimit.go) and the code    *)
(* of handleProxy that turns a refusal into a Retry-After header.          *)
(*                                                                         *)
(* An upstream has either one gateway-wide tokenBucket (key Wide) or a     *)
(* sessionLimiter, a bounded table of buckets keyed by Mcp-Session-Id.     *)
(* Requests without the header share the key "", which is one more member  *)
(* of Sessions.  Every allow() runs under the limiter's mutex, so a call   *)
(* is one step; the two or three readings of the monotonic clock that a    *)
(* call makes under the mutex are one reading here (a new bucket is full,  *)
(* so refilling it a moment later changes nothing but its "last").         *)
(*                                                                         *)
(* Time is counted in ticks of a time.Duration (a nanosecond).  A balance  *)
(* is counted in units: Token units are one token and Rate units flow in   *)
(* per tick, so the refill is exact and only the conversion of "need" to   *)
(* a Duration rounds, as in the code.                                      *)
(***************************************************************************)
EXTENDS Integers, Sequences, FiniteSets

CONSTANTS
    Sessions,       \* values of the Mcp-Session-Id header, "" included
    Wide,           \* the key of the gateway-wide bucket
    PerSession,     \* RateLimit.PerSession of the upstream
    MaxBuckets,     \* sessionLimiter.max
    Burst,          \* bucket capacity, in tokens
    Rate,           \* units that flow into a bucket in one tick
    Token,          \* units that make one token
    Second,         \* ticks in a second
    MaxDuration,    \* the largest time.Duration (2^63 - 1 ticks)
    MaxClock        \* bound of the model: the last tick explored

ASSUME RateAssumption ==
    /\ PerSession \in BOOLEAN
    /\ Wide \notin Sessions
    /\ MaxBuckets \in Nat \ {0}
    /\ Burst \in Nat \ {0}
    /\ Rate \in Nat \ {0}
    /\ Token \in Nat \ {0}
    /\ Second \in Nat \ {0}
    /\ MaxDuration \in Nat
    /\ MaxClock \in Nat

VARIABLES
    clock,      \* the monotonic clock
    buckets,    \* key -> tokenBucket, for the keys that have one
    lastSeen,   \* session -> when it was last seen, for eviction
    reply,      \* key -> the last answer given under it, once there is one
    granted     \* key -> admission times since its bucket was created

vars == <<clock, buckets, lastSeen, reply, granted>>

Keys == IF PerSession THEN Sessions ELSE {Wide}

Capacity == Burst * Token

--------------------------------------------------------------------------
(* tokenBucket *)

NewBucket(t) == [tokens |-> Capacity, last |-> t]

\* What flows in between two moments: elapsed*b.rps.
Flow(s, t) == Rate * (t - s)

Earned(b, t) == b.tokens + Flow(b.last, t)

\* A bucket refilled without moving "last" (for the mutation runs).
RefillStaleLast(b, t) ==
    [b EXCEPT !.tokens = IF Earned(b, t) > Capacity THEN Capacity ELSE Earned(b, t)]

Refill(b, t) ==
    IF t > b.last
    THEN [tokens |-> IF Earned(b, t) > Capacity THEN Capacity ELSE Earned(b, t),
          last   |-> t]
    ELSE b

\* "b.tokens > 0" for "b.tokens >= 1" (a mutant).
HasTokenPart(b) == b.tokens > 0

HasToken(b) == b.tokens >= Token

Take(b) == [b EXCEPT !.tokens = @ - Token]

\* time.Duration(need * 1e9): the fraction is dropped, and a value that no
\* int64 holds becomes whatever the platform's conversion gives.
NeedTicks(b) == (Token - b.tokens) \div Rate

RetryOutcomes(b) ==
    IF NeedTicks(b) <= MaxDuration
    THEN {NeedTicks(b)}
    ELSE {MaxDuration, -MaxDuration - 1}

Ceil(x) == IF x % Second = 0 THEN x \div Second ELSE x \div Second + 1

\* handleProxy with a truncating conversion to seconds (a mutant).
RetryAfterFloor(retry) == IF retry \div Second < 1 THEN 1 ELSE retry \div Second

\* handleProxy adding a second instead of rounding up (a mutant).
RetryAfterLate(retry) == retry \div Second + 2

RetryAfter(retry) == IF Ceil(retry) < 1 THEN 1 ELSE Ceil(retry)

--------------------------------------------------------------------------
(* sessionLimiter *)

\* The loop keeps the first entry with the smallest time it meets; a map is
\* iterated in no particular order, so any of the oldest may be the one.
Oldest(seen) ==
    {s \in DOMAIN seen : \A t \in DOMAIN seen : seen[s] <= seen[t]}

Full == Cardinality(DOMAIN buckets) >= MaxBuckets

\* The eviction loop with its comparison turned round (a mutant).
EvictedNewest(s) ==
    IF s \in DOMAIN buckets \/ ~Full THEN {{}}
    ELSE {{o} : o \in {n \in DOMAIN lastSeen :
                        \A t \in DOMAIN lastSeen : lastSeen[t] <= lastSeen[n]}}

\* The capacity test off by one (a mutant).
EvictedLate(s) ==
    IF s \in DOMAIN buckets \/ Cardinality(DOMAIN buckets) <= MaxBuckets THEN {{}}
    ELSE {{o} : o \in Oldest(lastSeen)}

\* The sessions that may have to make room for session s.
Evicted(s) ==
    IF s \in DOMAIN buckets \/ ~Full THEN {{}}
    ELSE {{o} : o \in Oldest(lastSeen)}

Without(f, gone) == [k \in DOMAIN f \ gone |-> f[k]]

With(f, k, v) == [j \in DOMAIN f \cup {k} |-> IF j = k THEN v ELSE f[j]]

--------------------------------------------------------------------------

Init ==
    /\ clock = 0
    /\ buckets = [k \in IF PerSession THEN {} ELSE {Wide} |-> NewBucket(0)]
    /\ lastSeen = [s \in {} |-> 0]
    /\ reply = [k \in {} |-> 0]
    /\ granted = [k \in Keys |-> <<>>]

\* b.allow() on bucket b of key k, with "table" the other buckets, and the
\* answer as handleProxy sends it; past is what b has granted so far.
AllowOn(k, b, table, past) ==
    LET r == Refill(b, clock) IN
    \/ /\ HasToken(r)
       /\ buckets' = With(table, k, Take(r))
       /\ granted' = [granted EXCEPT ![k] = Append(past, clock)]
       /\ reply' = With(reply, k, [at |-> clock, ok |-> TRUE, secs |-> 0])
    \/ /\ ~HasToken(r)
       /\ buckets' = With(table, k, r)
       /\ granted' = [granted EXCEPT ![k] = past]
       /\ \E retry \in RetryOutcomes(r) :
            reply' = With(reply, k,
                          [at |-> clock, ok |-> FALSE, secs |-> RetryAfter(retry)])

\* sessionLimiter.allow(s)
AllowSession(s) ==
    /\ PerSession
    /\ \E gone \in Evicted(s) :
          /\ lastSeen' = With(Without(lastSeen, gone), s, clock)
          /\ IF s \in DOMAIN buckets
             THEN AllowOn(s, buckets[s], buckets, granted[s])
             ELSE AllowOn(s, NewBucket(clock), Without(buckets, gone), <<>>)
    /\ UNCHANGED clock

\* tokenBucket.allow() on the gateway-wide bucket
AllowWide ==
    /\ ~PerSession
    /\ AllowOn(Wide, buckets[Wide], buckets, granted[Wide])
    /\ UNCHANGED <<clock, lastSeen>>

Tick ==
    /\ clock < MaxClock
    /\ clock' = clock + 1
    /\ UNCHANGED <<buckets, lastSeen, reply, granted>>

Next ==
    \/ Tick
    \/ \E s \in Sessions : AllowSession(s)
    \/ AllowWide

Spec == Init /\ [][Next]_vars

--------------------------------------------------------------------------
(* Properties *)

Answer == [at : Nat, ok : BOOLEAN, secs : Nat]

\* The shape of the state: a balance is between empty and full, never
\* negative and never above burst, whatever the order of calls and ticks
\* (tokenBucket.allow).
TypeOK ==
    /\ clock \in Nat
    /\ DOMAIN buckets \subseteq Keys
    /\ ~PerSession => Wide \in DOMAIN buckets
    /\ buckets \in [DOMAIN buckets -> [tokens : 0..Capacity, last : 0..clock]]
    /\ lastSeen \in [DOMAIN lastSeen -> 0..clock]
    /\ DOMAIN reply \subseteq Keys
    /\ reply \in [DOMAIN reply -> Answer]
    /\ granted \in [Keys -> Seq(Nat)]

\* The table of sessions never outgrows its bound, and the two maps the code
\* updates separately (buckets and lastSeen) always hold the same sessions,
\* so that the oldest entry found in one is an entry of the other
\* (sessionLimiter.allow).
TableBounded ==
    PerSession =>
        /\ DOMAIN lastSeen = DOMAIN buckets
        /\ Cardinality(DOMAIN buckets) <= MaxBuckets

\* The price of the admissions numbered i to j.
Price(i, j) == (j - i + 1) * Token

\* What rate limiting promises: in every window between two admissions from
\* one bucket, at most burst requests plus what flowed in since the first of
\* them were admitted, however the calls fall between refills.
AdmissionBound ==
    \A k \in DOMAIN buckets : \A i, j \in DOMAIN granted[k] :
        i <= j => Price(i, j) <= Capacity + Flow(granted[k][i], granted[k][j])

\* The table forgets a session (and with it how much of its burst it had
\* spent) only when at least MaxBuckets other sessions were seen after it:
\* the eviction is by recency, so a client that keeps calling keeps its
\* bucket (sessionLimiter.allow, the eviction loop).
Newer(s) == {t \in DOMAIN reply \ {s} : reply[t].at >= reply[s].at}

FreshBurstNeedsCrowd ==
    \A s \in DOMAIN reply :
        s \notin DOMAIN buckets => Cardinality(Newer(s)) >= MaxBuckets

\* The wait for the next token of bucket b fits in a time.Duration.
Representable(b) == NeedTicks(b) <= MaxDuration

\* A client that was refused, waited as long as Retry-After says (and the
\* one tick that the conversion to a Duration may have dropped) and asks
\* again is admitted, provided nobody used its bucket in between; its
\* session may have been evicted meanwhile (handleProxy and allow).  A wait
\* too long for a Duration is excluded: its conversion is undefined.
RetryIsHonoured ==
    [][\A k \in DOMAIN reply :
         (/\ k \in DOMAIN buckets => Representable(buckets[k])
          /\ reply'[k] # reply[k]
          /\ ~reply[k].ok
          /\ clock > reply[k].at + reply[k].secs * Second)
            => reply'[k].ok]_vars

\* A refusal is never early: the client is refused only while less than one
\* token is in its bucket, and the header never sends a client away for a
\* second or more beyond the moment its token exists (handleProxy rounds
\* retry up to whole seconds, and up to one second).
RetryIsTight ==
    \A k \in DOMAIN buckets \cap DOMAIN reply :
        (Representable(buckets[k]) /\ ~reply[k].ok)
            => /\ ~HasToken(buckets[k])
               /\ \/ reply[k].secs = 1
                  \/ ~HasToken(Refill(buckets[k], reply[k].at + (reply[k].secs - 1) * Second))

\* The store of each key as it stands at this moment: the bucket, refilled,
\* or a full one for a key that has none.
Level(k) ==
    IF k \in DOMAIN buckets THEN Refill(buckets[k], clock).tokens ELSE Capacity

Ideal == INSTANCE Meter WITH
            Clients <- Keys,
            level <- [k \in Keys |-> Level(k)],
            answer <- [k \in DOMAIN reply |-> [at |-> reply[k].at, ok |-> reply[k].ok]],
            now <- clock

\* Refilling a bucket only when it is asked, from the time it was last asked,
\* is the same as refilling it with every tick, also for a session that was
\* evicted and comes back: each answer is the one a store that is always up
\* to date would give, and eviction never takes tokens away (allow of both
\* types implements Meter).
MeterSpec == Ideal!Spec
==========================================================================
