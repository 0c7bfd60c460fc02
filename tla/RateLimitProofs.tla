------------------------- MODULE RateLimitProofs -------------------------
(***************************************************************************)
(* Proofs about RateLimit, for every burst, rate, token size, table bound  *)
(* and set of sessions.                                                    *)
(***************************************************************************)
EXTENDS RateLimit, TLAPS, FiniteSetTheorems

\* What a bucket b owes to the admissions g it has granted since it was
\* created: its balance covers whatever window of g has not been refilled
\* yet.  The admission bound alone is not inductive: it says nothing of the
\* balance that the next admission will be paid from.
Paid(b, g) ==
    \A i \in 1..Len(g) :
        /\ g[i] <= b.last
        /\ Price(i, Len(g)) + b.tokens <= Capacity + Flow(g[i], b.last)

Windows(g) ==
    \A i, j \in 1..Len(g) : i <= j => Price(i, j) <= Capacity + Flow(g[i], g[j])

WellFormed(b) == b \in [tokens : 0..Capacity, last : Nat]

Sound(b, g) == g \in Seq(Nat) /\ WellFormed(b) /\ Paid(b, g) /\ Windows(g)

\* A full bucket holds at least one token (burst is at least 1).
LEMMA CapacityType == Capacity \in Nat /\ Token \in Nat /\ Token <= Capacity
BY RateAssumption DEF Capacity

\* What flows in between two moments is a number, and none in no time.  Flow
\* and Price are linear; every later step treats them as opaque.
LEMMA FlowType ==
    ASSUME NEW s, NEW t, s \in Int, t \in Int
    PROVE  Flow(s, t) \in Int /\ (s <= t => Flow(s, t) >= 0) /\ Flow(s, s) = 0
BY RateAssumption DEF Flow

\* One more admission costs one more token (the b.tokens-- of allow).
LEMMA PriceStep ==
    ASSUME NEW i, NEW n, i \in Int, n \in Int
    PROVE  /\ Price(i, n) \in Int
           /\ Price(i, n + 1) = Price(i, n) + Token
           /\ Price(n, n) = Token
BY RateAssumption DEF Price

\* A debt that a balance k covers at time t is covered by k2 at time u when
\* k2 is at most k and what has flowed in since.
LEMMA DebtCarries ==
    ASSUME NEW s, NEW t, NEW u, s \in Int, t \in Int, u \in Int,
           NEW p, NEW k, NEW k2, p \in Int, k \in Int, k2 \in Int,
           p + k <= Capacity + Flow(s, t),
           k2 <= k + Flow(t, u)
    PROVE  p + k2 <= Capacity + Flow(s, u)
<1>1. Flow(s, t) \in Int /\ Flow(t, u) \in Int
  BY FlowType
<1>2. Flow(s, u) = Flow(s, t) + Flow(t, u)
  BY RateAssumption DEF Flow
<1>3. QED
  BY <1>1, <1>2, CapacityType

\* An admission moves the price of one token from the balance to the debt.
LEMMA DebtPaid ==
    ASSUME NEW i, NEW n, i \in Int, n \in Int, NEW k, k \in Int, NEW f, f \in Int
    PROVE  /\ Price(i, n) + k <= Capacity + f => Price(i, n + 1) + (k - Token) <= Capacity + f
           /\ k <= Capacity => Price(n, n) + (k - Token) <= Capacity
BY PriceStep, CapacityType

\* What a balance covers is covered without it: the window of the admissions
\* already granted stays within the bound.
LEMMA DebtDropped ==
    ASSUME NEW p, NEW k, NEW f, p \in Int, f \in Int, k \in Nat, p + k <= Capacity + f
    PROVE  p <= Capacity + f
BY CapacityType

\* A bucket that has just been created owes nothing (newTokenBucket).
LEMMA NewSound ==
    ASSUME NEW t \in Nat
    PROVE  Sound(NewBucket(t), <<>>) /\ NewBucket(t).last = t
BY CapacityType DEF Sound, WellFormed, Paid, Windows, NewBucket

\* Refilling keeps a bucket sound (tokenBucket.allow, before the take).
LEMMA RefillSound ==
    ASSUME NEW b, NEW g, NEW t \in Nat, Sound(b, g), b.last <= t
    PROVE  Sound(Refill(b, t), g) /\ Refill(b, t).last = t
<1>1. CASE t > b.last
  <2> DEFINE r == Refill(b, t)
  <2>0. b.last \in Nat /\ b.tokens \in Nat /\ g \in Seq(Nat)
    BY CapacityType DEF Sound, WellFormed
  <2>1. Earned(b, t) \in Nat /\ Earned(b, t) = b.tokens + Flow(b.last, t)
    BY <1>1, <2>0, FlowType DEF Earned
  <2>2. r = [tokens |-> IF Earned(b, t) > Capacity THEN Capacity ELSE Earned(b, t),
             last   |-> t]
    BY <1>1 DEF Refill
  <2>3. r.last = t /\ r.tokens <= Earned(b, t) /\ WellFormed(r) /\ r.tokens \in Nat
    BY <2>1, <2>2, CapacityType DEF WellFormed
  <2> HIDE DEF r
  <2>4. ASSUME NEW i \in 1..Len(g)
        PROVE  /\ g[i] <= r.last
               /\ Price(i, Len(g)) + r.tokens <= Capacity + Flow(g[i], r.last)
    <3>1. g[i] \in Int /\ Len(g) \in Int /\ b.last \in Int /\ t \in Int /\ i \in Int
      BY <2>0
    <3>2. g[i] <= b.last /\ Price(i, Len(g)) + b.tokens <= Capacity + Flow(g[i], b.last)
      BY DEF Sound, Paid
    <3>3. Price(i, Len(g)) \in Int
      BY <3>1, PriceStep, Zenon
    <3>4. b.tokens \in Int /\ r.tokens \in Int /\ r.tokens <= b.tokens + Flow(b.last, t)
      BY <2>0, <2>1, <2>3
    <3>5. g[i] <= r.last
      BY <1>1, <2>3, <3>1, <3>2
    <3>6. Price(i, Len(g)) + r.tokens <= Capacity + Flow(g[i], t)
      BY <3>1, <3>2, <3>3, <3>4, DebtCarries, Zenon
    <3>7. QED
      BY <2>3, <3>5, <3>6, Zenon
  <2>5. QED
    BY <2>0, <2>3, <2>4 DEF Sound, Paid, r
<1>2. CASE ~(t > b.last)
  <2>1. b.last \in Nat
    BY DEF Sound, WellFormed
  <2>2. QED
    BY <1>2, <2>1 DEF Refill
<1>3. QED
  BY <1>1, <1>2

\* Taking a token at the time of the refill keeps a bucket sound, with the
\* admission recorded (tokenBucket.allow, the take).
LEMMA TakeSound ==
    ASSUME NEW b, NEW g, Sound(b, g), HasToken(b)
    PROVE  Sound(Take(b), Append(g, b.last)) /\ Take(b).last = b.last
<1> DEFINE h == Append(g, b.last)
           n == Len(g)
           c == Take(b)
<1>1. /\ c.last = b.last /\ c.tokens = b.tokens - Token
      /\ WellFormed(c) /\ b.tokens \in Nat /\ b.tokens <= Capacity
      /\ b.last \in Nat /\ c.tokens \in Nat
  BY CapacityType DEF Take, HasToken, Sound, WellFormed
<1>2. /\ h \in Seq(Nat) /\ n \in Nat /\ Len(h) = n + 1 /\ h[n + 1] = b.last
      /\ \A i \in 1..n : h[i] = g[i] /\ g[i] \in Nat
  BY <1>1 DEF Sound
<1>3. \A i \in 1..n : /\ g[i] <= b.last
                      /\ Price(i, n) + b.tokens <= Capacity + Flow(g[i], b.last)
  BY DEF Sound, Paid
<1>4. \A i, j \in 1..n : i <= j => Price(i, j) <= Capacity + Flow(g[i], g[j])
  BY DEF Sound, Windows
<1>5. Sound(c, h) <=> (h \in Seq(Nat) /\ WellFormed(c) /\ Paid(c, h) /\ Windows(h))
  BY DEF Sound
<1> HIDE DEF h, n, c
<1>6. ASSUME NEW i \in 1..(n + 1)
      PROVE  h[i] <= c.last /\ Price(i, n + 1) + c.tokens <= Capacity + Flow(h[i], c.last)
  <2>0. i \in Int /\ n \in Int /\ n + 1 \in Int /\ b.tokens \in Int /\ b.last \in Int
    BY <1>1, <1>2
  <2>1. CASE i = n + 1
    <3>1. Price(n + 1, n + 1) + (b.tokens - Token) <= Capacity
      BY <1>1, <2>0, DebtPaid, Zenon
    <3>2. h[i] = b.last /\ Flow(b.last, b.last) = 0
      BY <1>2, <2>0, <2>1, FlowType, Zenon
    <3>3. QED
      BY <2>1, <1>1, <3>1, <3>2, CapacityType
  <2>2. CASE i \in 1..n
    <3>1. h[i] = g[i] /\ g[i] \in Nat /\ g[i] <= b.last
      BY <1>2, <1>3, <2>2, Zenon
    <3>2. g[i] \in Int
      BY <3>1
    <3>3. Flow(g[i], b.last) \in Int
      BY <2>0, <3>2, FlowType, Zenon
    <3>4. Price(i, n) + b.tokens <= Capacity + Flow(g[i], b.last)
      BY <1>3, <2>2, Zenon
    <3>5. Price(i, n + 1) + (b.tokens - Token) <= Capacity + Flow(g[i], b.last)
      BY <2>0, <3>3, <3>4, DebtPaid, Zenon
    <3>6. QED
      BY <1>1, <3>1, <3>5, Zenon
  <2>3. QED
    BY <1>2, <2>1, <2>2
<1>7. ASSUME NEW i \in 1..(n + 1), NEW j \in 1..(n + 1), i <= j
      PROVE  Price(i, j) <= Capacity + Flow(h[i], h[j])
  <2>1. CASE j = n + 1
    <3>1. h[i] \in Int /\ h[j] = c.last /\ c.last \in Int /\ i \in Int /\ n + 1 \in Int
      BY <1>1, <1>2, <2>1
    <3>2. Price(i, n + 1) \in Int /\ Flow(h[i], c.last) \in Int
      BY <3>1, PriceStep, FlowType, Zenon
    <3>3. Price(i, n + 1) <= Capacity + Flow(h[i], c.last)
      BY <1>1, <1>6, <3>2, DebtDropped, Zenon
    <3>4. QED
      BY <2>1, <3>1, <3>3, Zenon
  <2>2. CASE j \in 1..n
    <3>1. i \in 1..n
      BY <1>2, <1>7, <2>2
    <3>2. QED
      BY <2>2, <3>1, <1>2, <1>4, <1>7, Zenon
  <2>3. QED
    BY <1>2, <2>1, <2>2
<1>8. Paid(c, h) /\ Windows(h)
  BY <1>2, <1>6, <1>7 DEF Paid, Windows
<1>9. QED
  BY <1>1, <1>2, <1>5, <1>8 DEF c, h

--------------------------------------------------------------------------

\* Retry-After is a natural number, whatever the conversion to a Duration
\* gives (handleProxy: at least one second).
LEMMA RetryAfterType ==
    ASSUME NEW b, WellFormed(b), ~HasToken(b), NEW retry \in RetryOutcomes(b)
    PROVE  RetryAfter(retry) \in Nat
<1>1. b.tokens \in Int
  BY CapacityType DEF WellFormed
<1>2. retry \in Int
  BY <1>1, RateAssumption DEF RetryOutcomes, NeedTicks
<1>3. Ceil(retry) \in Int
  BY <1>2, RateAssumption DEF Ceil
<1>4. QED
  BY <1>3 DEF RetryAfter

\* Everything the invariant proof needs to know of one call of allow() on
\* the bucket b of key k, whose admissions so far are past.
LEMMA AllowOnStep ==
    ASSUME NEW k, NEW b, NEW table, NEW past,
           k \in Keys, clock \in Nat, Sound(b, past), b.last <= clock,
           granted \in [Keys -> Seq(Nat)],
           AllowOn(k, b, table, past)
    PROVE  /\ buckets' = With(table, k, buckets'[k])
           /\ Sound(buckets'[k], granted'[k])
           /\ buckets'[k].last = clock
           /\ granted' = [granted EXCEPT ![k] = granted'[k]]
           /\ \E a \in Answer : a.at = clock /\ reply' = With(reply, k, a)
<1> DEFINE r == Refill(b, clock)
<1>1. Sound(r, past) /\ r.last = clock
  BY RefillSound
<1> HIDE DEF r
<1>2. CASE /\ HasToken(r)
           /\ buckets' = With(table, k, Take(r))
           /\ granted' = [granted EXCEPT ![k] = Append(past, clock)]
           /\ reply' = With(reply, k, [at |-> clock, ok |-> TRUE, secs |-> 0])
  <2>1. Sound(Take(r), Append(past, clock)) /\ Take(r).last = clock
    BY <1>1, <1>2, TakeSound, Zenon
  <2>2. buckets'[k] = Take(r)
    BY <1>2 DEF With
  <2>3. granted'[k] = Append(past, clock)
    BY <1>2
  <2>4. [at |-> clock, ok |-> TRUE, secs |-> 0] \in Answer
    BY DEF Answer
  <2>5. QED
    BY <1>2, <2>1, <2>2, <2>3, <2>4
<1>3. CASE /\ ~HasToken(r)
           /\ buckets' = With(table, k, r)
           /\ granted' = [granted EXCEPT ![k] = past]
           /\ \E retry \in RetryOutcomes(r) :
                reply' = With(reply, k,
                              [at |-> clock, ok |-> FALSE, secs |-> RetryAfter(retry)])
  <2>1. PICK retry \in RetryOutcomes(r) :
            reply' = With(reply, k,
                          [at |-> clock, ok |-> FALSE, secs |-> RetryAfter(retry)])
    BY <1>3
  <2>2. RetryAfter(retry) \in Nat
    BY <1>1, <1>3, RetryAfterType DEF Sound
  <2>3. [at |-> clock, ok |-> FALSE, secs |-> RetryAfter(retry)] \in Answer
    BY <2>2 DEF Answer
  <2>4. buckets'[k] = r
    BY <1>3 DEF With
  <2>5. granted'[k] = past
    BY <1>3
  <2>6. QED
    BY <1>1, <1>3, <2>1, <2>3, <2>4, <2>5
<1>4. QED
  BY <1>2, <1>3 DEF AllowOn, r

--------------------------------------------------------------------------
(* The inductive invariant. *)

Ledger == \A k \in DOMAIN buckets : Sound(buckets[k], granted[k])

RateInv == TypeOK /\ Ledger

\* A call that replaces or adds the bucket of k, in a table whose other
\* buckets are among those of the current one, keeps the invariant.
LEMMA CallKeepsInv ==
    ASSUME NEW k, NEW b, NEW table, NEW past, RateInv,
           k \in Keys, Sound(b, past), b.last <= clock,
           DOMAIN table \subseteq DOMAIN buckets,
           \A j \in DOMAIN table : table[j] = buckets[j],
           AllowOn(k, b, table, past),
           clock' = clock,
           ~PerSession => k = Wide,
           lastSeen' \in [DOMAIN lastSeen' -> 0..clock]
    PROVE  RateInv'
<1>0. /\ clock \in Nat /\ granted \in [Keys -> Seq(Nat)]
      /\ DOMAIN buckets \subseteq Keys
      /\ buckets \in [DOMAIN buckets -> [tokens : 0..Capacity, last : 0..clock]]
      /\ DOMAIN reply \subseteq Keys /\ reply \in [DOMAIN reply -> Answer]
  BY DEF RateInv, TypeOK
<1>1. /\ buckets' = With(table, k, buckets'[k])
      /\ Sound(buckets'[k], granted'[k])
      /\ buckets'[k].last = clock
      /\ granted' = [granted EXCEPT ![k] = granted'[k]]
  BY <1>0, AllowOnStep
<1>2. PICK a \in Answer : reply' = With(reply, k, a)
  BY <1>0, AllowOnStep
<1>3. DOMAIN buckets' = DOMAIN table \cup {k}
  BY <1>1 DEF With
<1>4. \A j \in DOMAIN buckets' : j # k => j \in DOMAIN buckets /\ buckets'[j] = buckets[j]
  BY <1>1, <1>3 DEF With
<1>5. granted' \in [Keys -> Seq(Nat)] /\ \A j \in Keys : j # k => granted'[j] = granted[j]
  BY <1>0, <1>1 DEF Sound
<1>6. \A j \in DOMAIN buckets' : buckets'[j] \in [tokens : 0..Capacity, last : 0..clock]
  <2>1. buckets'[k] \in [tokens : 0..Capacity, last : 0..clock]
    BY <1>0, <1>1 DEF Sound, WellFormed
  <2>2. QED
    BY <1>0, <1>4, <2>1
<1>7. buckets' \in [DOMAIN buckets' -> [tokens : 0..Capacity, last : 0..clock]]
  <2>1. buckets' = [j \in DOMAIN buckets' |-> buckets'[j]]
    BY <1>1 DEF With
  <2>2. QED
    BY <1>6, <2>1
<1>8. DOMAIN reply' \subseteq Keys /\ reply' \in [DOMAIN reply' -> Answer]
  BY <1>0, <1>2 DEF With
<1>9. TypeOK'
  BY <1>0, <1>3, <1>5, <1>7, <1>8 DEF TypeOK
<1>10. ASSUME NEW j \in DOMAIN buckets'
       PROVE  Sound(buckets'[j], granted'[j])
  <2>1. CASE j = k
    BY <2>1, <1>1
  <2>2. CASE j # k
    BY <2>2, <1>0, <1>4, <1>5 DEF RateInv, Ledger
  <2>3. QED
    BY <2>1, <2>2
<1>11. QED
  BY <1>9, <1>10 DEF RateInv, Ledger

\* The state of the limiter is always well formed, and every bucket can
\* account for what it has admitted (tokenBucket.allow, sessionLimiter.allow).
THEOREM RateInvHolds == Spec => []RateInv
<1>1. Init => RateInv
  <2> SUFFICES ASSUME Init PROVE RateInv
    OBVIOUS
  <2>1. TypeOK
    BY RateAssumption, CapacityType DEF Init, TypeOK, Keys, NewBucket, Answer
  <2>2. Ledger
    <3>1. ASSUME NEW k \in DOMAIN buckets
          PROVE  buckets[k] = NewBucket(0) /\ granted[k] = <<>>
      BY DEF Init, Keys
    <3>2. QED
      BY <3>1, NewSound DEF Ledger
  <2>3. QED
    BY <2>1, <2>2 DEF RateInv
<1>2. RateInv /\ [Next]_vars => RateInv'
  <2> SUFFICES ASSUME RateInv, [Next]_vars PROVE RateInv'
    OBVIOUS
  <2>0. /\ clock \in Nat /\ DOMAIN buckets \subseteq Keys
        /\ buckets \in [DOMAIN buckets -> [tokens : 0..Capacity, last : 0..clock]]
        /\ lastSeen \in [DOMAIN lastSeen -> 0..clock]
        /\ \A k \in DOMAIN buckets : buckets[k].last <= clock
    BY DEF RateInv, TypeOK
  <2>1. CASE Tick
    BY <2>1 DEF Tick, RateInv, TypeOK, Ledger
  <2>2. ASSUME NEW s \in Sessions, AllowSession(s) PROVE RateInv'
    <3>1. PICK gone \in Evicted(s) :
            /\ lastSeen' = With(Without(lastSeen, gone), s, clock)
            /\ IF s \in DOMAIN buckets
               THEN AllowOn(s, buckets[s], buckets, granted[s])
               ELSE AllowOn(s, NewBucket(clock), Without(buckets, gone), <<>>)
      BY <2>2 DEF AllowSession
    <3>2. clock' = clock /\ s \in Keys /\ PerSession
      BY <2>2 DEF AllowSession, Keys
    <3>3. lastSeen' \in [DOMAIN lastSeen' -> 0..clock]
      BY <2>0, <3>1 DEF With, Without
    <3>4. CASE s \in DOMAIN buckets
      <4>1. AllowOn(s, buckets[s], buckets, granted[s])
        BY <3>1, <3>4
      <4>2. Sound(buckets[s], granted[s])
        BY <3>4 DEF RateInv, Ledger
      <4>3. QED
        BY <2>0, <3>2, <3>3, <3>4, <4>1, <4>2, CallKeepsInv
    <3>5. CASE s \notin DOMAIN buckets
      <4>1. AllowOn(s, NewBucket(clock), Without(buckets, gone), <<>>)
        BY <3>1, <3>5
      <4>2. Sound(NewBucket(clock), <<>>) /\ NewBucket(clock).last <= clock
        BY <2>0, NewSound
      <4>3. /\ DOMAIN Without(buckets, gone) \subseteq DOMAIN buckets
            /\ \A j \in DOMAIN Without(buckets, gone) : Without(buckets, gone)[j] = buckets[j]
        BY DEF Without
      <4>4. QED
        BY <3>2, <3>3, <4>1, <4>2, <4>3, CallKeepsInv
    <3>6. QED
      BY <3>4, <3>5
  <2>3. CASE AllowWide
    <3>1. Wide \in Keys /\ Wide \in DOMAIN buckets
      BY <2>3 DEF AllowWide, Keys, RateInv, TypeOK
    <3>2. Sound(buckets[Wide], granted[Wide])
      BY <3>1 DEF RateInv, Ledger
    <3>3. lastSeen' \in [DOMAIN lastSeen' -> 0..clock]
      BY <2>0, <2>3 DEF AllowWide
    <3>4. QED
      BY <2>0, <2>3, <3>1, <3>2, <3>3, CallKeepsInv DEF AllowWide
  <2>4. CASE UNCHANGED vars
    BY <2>4 DEF vars, RateInv, TypeOK, Ledger
  <2>5. QED
    BY <2>1, <2>2, <2>3, <2>4 DEF Next
<1>3. QED
  BY <1>1, <1>2, PTL DEF Spec

\* Type correctness: no balance is ever negative or above burst, and no
\* bucket was refreshed in the future (tokenBucket.allow).
THEOREM TypeCorrect == Spec => []TypeOK
BY RateInvHolds, PTL DEF RateInv

\* The rate limit itself, for every burst, rate and interleaving of calls:
\* in every window of admissions from one bucket there are at most burst
\* more than what flowed in during the window (tokenBucket.allow).
THEOREM AdmissionBounded == Spec => []AdmissionBound
<1>1. RateInv => AdmissionBound
  <2> SUFFICES ASSUME RateInv, NEW k \in DOMAIN buckets,
                      NEW i \in DOMAIN granted[k], NEW j \in DOMAIN granted[k], i <= j
               PROVE  Price(i, j) <= Capacity + Flow(granted[k][i], granted[k][j])
    BY DEF AdmissionBound
  <2>1. granted[k] \in Seq(Nat) /\ Windows(granted[k])
    BY DEF RateInv, Ledger, Sound
  <2>2. i \in 1..Len(granted[k]) /\ j \in 1..Len(granted[k])
    BY <2>1
  <2>3. QED
    BY <2>1, <2>2 DEF Windows
<1>2. QED
  BY <1>1, RateInvHolds, PTL

--------------------------------------------------------------------------
(* The table of sessions, the Retry-After header and the meter that the    *)
(* lazily refilled buckets implement.                                      *)

\* The bucket that a call under key k asks.
Asked(k) == IF k \in DOMAIN buckets THEN buckets[k] ELSE NewBucket(clock)

\* A call under key k, of either limiter, that makes the sessions in "gone"
\* leave the table.
Called(k, gone) ==
    /\ k \in Keys /\ clock' = clock
    /\ \E past : AllowOn(k, Asked(k), Without(buckets, gone), past)
    /\ \/ gone = {} /\ (k \in DOMAIN buckets \/ (PerSession /\ ~Full))
       \/ /\ PerSession /\ k \notin DOMAIN buckets /\ Full
          /\ \E o \in Oldest(lastSeen) : gone = {o}
    /\ IF PerSession THEN lastSeen' = With(Without(lastSeen, gone), k, clock)
       ELSE UNCHANGED lastSeen

\* What bucket b and answer a, the last one given from it, have in common.
Answered(b, a) ==
    /\ b.last = a.at
    /\ a.ok = FALSE => /\ ~HasToken(b)
                       /\ Representable(b) => a.secs = RetryAfter(NeedTicks(b))

\* TableBounded and FreshBurstNeedsCrowd are inductive only together with
\* what ties the three maps to each other: a bucket in the table was used
\* when its session was last seen, which is when it was last answered.
TableInv ==
    /\ IsFiniteSet(DOMAIN buckets) /\ IsFiniteSet(DOMAIN reply)
    /\ TableBounded
    /\ PerSession => /\ DOMAIN buckets \subseteq DOMAIN reply
                     /\ \A s \in DOMAIN buckets : reply[s].at = lastSeen[s]
    /\ \A k \in DOMAIN reply : reply[k].at <= clock
    /\ \A k \in DOMAIN buckets \cap DOMAIN reply : Answered(buckets[k], reply[k])
    /\ FreshBurstNeedsCrowd

--------------------------------------------------------------------------
(* A call *)

\* A map without no key is the map.
LEMMA WithoutNone ==
    ASSUME NEW f, NEW S, f \in [DOMAIN f -> S]
    PROVE  Without(f, {}) = f
BY DEF Without

\* sessionLimiter.allow is a call: the session found in the table, room for
\* a new one, or a new one in place of one of the oldest.
LEMMA SessionCalls ==
    ASSUME RateInv, NEW s \in Sessions, AllowSession(s)
    PROVE  \E gone : Called(s, gone)
<1>1. PICK gone \in Evicted(s) :
        /\ lastSeen' = With(Without(lastSeen, gone), s, clock)
        /\ IF s \in DOMAIN buckets
           THEN AllowOn(s, buckets[s], buckets, granted[s])
           ELSE AllowOn(s, NewBucket(clock), Without(buckets, gone), <<>>)
  BY DEF AllowSession
<1>2. clock' = clock /\ s \in Keys /\ PerSession
  BY DEF AllowSession, Keys
<1>3. CASE s \in DOMAIN buckets
  <2>1. gone = {}
    BY <1>3 DEF Evicted
  <2>2. Without(buckets, gone) = buckets
    BY <2>1, WithoutNone DEF RateInv, TypeOK
  <2>3. AllowOn(s, Asked(s), Without(buckets, gone), granted[s])
    BY <1>1, <1>3, <2>2 DEF Asked
  <2>4. QED
    BY <1>1, <1>2, <1>3, <2>1, <2>3 DEF Called
<1>4. CASE s \notin DOMAIN buckets
  <2>1. AllowOn(s, Asked(s), Without(buckets, gone), <<>>)
    BY <1>1, <1>4 DEF Asked
  <2>2. \/ gone = {} /\ ~Full
        \/ Full /\ \E o \in Oldest(lastSeen) : gone = {o}
    BY <1>4 DEF Evicted
  <2>3. QED
    BY <1>1, <1>2, <1>4, <2>1, <2>2 DEF Called
<1>5. QED
  BY <1>3, <1>4

\* tokenBucket.allow on the gateway-wide bucket is a call.
LEMMA WideCalls ==
    ASSUME RateInv, AllowWide
    PROVE  Called(Wide, {})
<1>1. Wide \in Keys /\ Wide \in DOMAIN buckets /\ Without(buckets, {}) = buckets
  BY WithoutNone DEF AllowWide, Keys, RateInv, TypeOK
<1>2. AllowOn(Wide, Asked(Wide), Without(buckets, {}), granted[Wide])
  BY <1>1 DEF AllowWide, Asked
<1>3. QED
  BY <1>1, <1>2 DEF AllowWide, Called

\* The bucket that is asked is well formed, and so is it when refilled.
LEMMA AskedShape ==
    ASSUME RateInv, NEW k \in Keys
    PROVE  LET r == Refill(Asked(k), clock) IN
           /\ WellFormed(Asked(k)) /\ Asked(k).last <= clock
           /\ WellFormed(r) /\ r.last = clock
<1>0. clock \in Nat
  BY DEF RateInv, TypeOK
<1>1. PICK g : Sound(Asked(k), g) /\ Asked(k).last <= clock
  <2>1. CASE k \in DOMAIN buckets
    BY <1>0, <2>1 DEF Asked, RateInv, Ledger, TypeOK
  <2>2. CASE k \notin DOMAIN buckets
    BY <1>0, <2>2, NewSound DEF Asked
  <2>3. QED
    BY <2>1, <2>2
<1>2. Sound(Refill(Asked(k), clock), g) /\ Refill(Asked(k), clock).last = clock
  BY <1>0, <1>1, RefillSound
<1>3. QED
  BY <1>1, <1>2 DEF Sound

\* What a call changes: the answer and the bucket of its key, and nothing of
\* any other key but that some are forgotten (tokenBucket.allow, and
\* handleProxy for the header).
LEMMA CallEffect ==
    ASSUME RateInv, NEW k, NEW gone, Called(k, gone)
    PROVE  LET r == Refill(Asked(k), clock) IN
           /\ DOMAIN buckets' = (DOMAIN buckets \ gone) \cup {k}
           /\ \A j \in DOMAIN buckets \ gone : j # k => buckets'[j] = buckets[j]
           /\ DOMAIN reply' = DOMAIN reply \cup {k}
           /\ \A j \in DOMAIN reply : j # k => reply'[j] = reply[j]
           /\ reply'[k].at = clock
           /\ \/ HasToken(r) /\ buckets'[k] = Take(r) /\ reply'[k].ok = TRUE
              \/ /\ ~HasToken(r) /\ buckets'[k] = r /\ reply'[k].ok = FALSE
                 /\ Representable(r) => reply'[k].secs = RetryAfter(NeedTicks(r))
<1> DEFINE r == Refill(Asked(k), clock)
           table == Without(buckets, gone)
<1>1. PICK past : AllowOn(k, Asked(k), table, past)
  BY DEF Called
<1>2. DOMAIN table = DOMAIN buckets \ gone /\ \A j \in DOMAIN table : table[j] = buckets[j]
  BY DEF Without
<1> HIDE DEF r, table
<1>3. CASE /\ HasToken(r)
           /\ buckets' = With(table, k, Take(r))
           /\ reply' = With(reply, k, [at |-> clock, ok |-> TRUE, secs |-> 0])
  BY <1>2, <1>3 DEF With, r
<1>4. CASE /\ ~HasToken(r)
           /\ buckets' = With(table, k, r)
           /\ \E retry \in RetryOutcomes(r) :
                reply' = With(reply, k,
                              [at |-> clock, ok |-> FALSE, secs |-> RetryAfter(retry)])
  <2>1. PICK retry \in RetryOutcomes(r) :
            reply' = With(reply, k,
                          [at |-> clock, ok |-> FALSE, secs |-> RetryAfter(retry)])
    BY <1>4
  <2>2. Representable(r) => retry = NeedTicks(r)
    BY DEF RetryOutcomes, Representable
  <2>3. /\ DOMAIN reply' = DOMAIN reply \cup {k}
        /\ \A j \in DOMAIN reply : j # k => reply'[j] = reply[j]
        /\ reply'[k].at = clock /\ reply'[k].ok = FALSE
        /\ reply'[k].secs = RetryAfter(retry)
    BY <2>1 DEF With
  <2>4. /\ DOMAIN buckets' = DOMAIN table \cup {k} /\ buckets'[k] = r
        /\ \A j \in DOMAIN table : j # k => buckets'[j] = table[j]
    BY <1>4 DEF With
  <2>5. QED
    BY <1>2, <1>4, <2>2, <2>3, <2>4 DEF r
<1>5. QED
  BY <1>1, <1>3, <1>4 DEF AllowOn, r

--------------------------------------------------------------------------
(* The table *)

\* A newcomer in the place of a member leaves a set as large as it was.
LEMMA Swapped ==
    ASSUME NEW S, IsFiniteSet(S), NEW o \in S, NEW k, k \notin S
    PROVE  Cardinality((S \ {o}) \cup {k}) = Cardinality(S)
<1>1. PICK T : T = S \ {o}
  OBVIOUS
<1>2. IsFiniteSet(T) /\ Cardinality(T) = Cardinality(S) - 1 /\ k \notin T
  BY <1>1, FS_RemoveElement
<1>3. Cardinality(T \cup {k}) = Cardinality(T) + 1
  BY <1>2, FS_AddElement
<1>4. Cardinality(S) \in Nat
  BY FS_CardinalityType
<1>5. QED
  BY <1>1, <1>2, <1>3, <1>4

\* The table after a call, per session: a new session takes a free place or
\* the place of one that leaves, so that the table does not grow beyond its
\* bound and the two maps keep the same keys (sessionLimiter.allow).
LEMMA TableStays ==
    ASSUME RateInv, TableInv, PerSession, NEW k, NEW gone, Called(k, gone)
    PROVE  TableBounded'
<1>1. /\ DOMAIN buckets' = (DOMAIN buckets \ gone) \cup {k}
      /\ lastSeen' = With(Without(lastSeen, gone), k, clock)
  BY CallEffect DEF Called
<1>2. DOMAIN lastSeen' = DOMAIN buckets'
  BY <1>1 DEF TableInv, TableBounded, With, Without
<1>3. /\ IsFiniteSet(DOMAIN buckets) /\ Cardinality(DOMAIN buckets) \in Nat
      /\ Cardinality(DOMAIN buckets) <= MaxBuckets /\ MaxBuckets \in Nat
  BY FS_CardinalityType, RateAssumption DEF TableInv, TableBounded
<1>4. CASE gone = {} /\ k \in DOMAIN buckets
  <2>1. DOMAIN buckets' = DOMAIN buckets
    BY <1>1, <1>4
  <2>2. QED
    BY <1>2, <1>3, <2>1 DEF TableBounded
<1>5. CASE gone = {} /\ k \notin DOMAIN buckets /\ ~Full
  <2>1. DOMAIN buckets' = DOMAIN buckets \cup {k}
    BY <1>1, <1>5
  <2>2. Cardinality(DOMAIN buckets') = Cardinality(DOMAIN buckets) + 1
    BY <1>3, <1>5, <2>1, FS_AddElement
  <2>3. QED
    BY <1>2, <1>3, <1>5, <2>2 DEF TableBounded, Full
<1>6. CASE k \notin DOMAIN buckets /\ \E o \in Oldest(lastSeen) : gone = {o}
  <2>1. PICK o \in DOMAIN buckets : gone = {o}
    BY <1>6 DEF Oldest, TableInv, TableBounded
  <2>2. Cardinality((DOMAIN buckets \ {o}) \cup {k}) = Cardinality(DOMAIN buckets)
    BY <1>3, <1>6, Swapped
  <2>3. QED
    BY <1>1, <1>2, <1>3, <2>1, <2>2 DEF TableBounded
<1>7. QED
  BY <1>4, <1>5, <1>6 DEF Called

\* The ones that were seen after a forgotten session: those that were, and
\* at its eviction all the others in the table and the newcomer
\* (sessionLimiter.allow, the eviction loop).
LEMMA CrowdStays ==
    ASSUME RateInv, TableInv, NEW k, NEW gone, Called(k, gone)
    PROVE  FreshBurstNeedsCrowd'
<1>0. /\ clock \in Nat /\ MaxBuckets \in Nat \ {0}
      /\ \A j \in DOMAIN reply : reply[j].at \in Nat
  BY RateAssumption DEF RateInv, TypeOK, Answer
<1>1. /\ DOMAIN buckets' = (DOMAIN buckets \ gone) \cup {k}
      /\ DOMAIN reply' = DOMAIN reply \cup {k}
      /\ \A j \in DOMAIN reply : j # k => reply'[j] = reply[j]
      /\ reply'[k].at = clock
  BY CallEffect
<1>2. IsFiniteSet(DOMAIN reply')
  BY <1>1, FS_AddElement DEF TableInv
<1>3. ASSUME NEW s \in DOMAIN reply', s \notin DOMAIN buckets'
      PROVE  Cardinality(Newer(s)') >= MaxBuckets
  <2>1. s # k /\ s \in DOMAIN reply /\ reply'[s] = reply[s]
    BY <1>1, <1>3
  <2>2. \A t \in DOMAIN reply' : t = k \/ reply'[t] = reply[t]
    BY <1>1
  <2>3. reply[s].at <= clock
    BY <2>1 DEF TableInv
  <2>4. Newer(s)' = Newer(s) \cup {k}
    BY <1>1, <2>1, <2>2, <2>3 DEF Newer
  <2>5. IsFiniteSet(Newer(s)') /\ Cardinality(Newer(s)') \in Nat
    <3>1. Newer(s)' \subseteq DOMAIN reply'
      BY DEF Newer
    <3>2. QED
      BY <1>2, <3>1, FS_Subset, FS_CardinalityType
  <2>6. CASE s \notin DOMAIN buckets
    <3>1. Cardinality(Newer(s)) >= MaxBuckets
      BY <2>1, <2>6 DEF TableInv, FreshBurstNeedsCrowd
    <3>2. IsFiniteSet(Newer(s)) /\ Cardinality(Newer(s)) <= Cardinality(Newer(s)')
      BY <2>4, <2>5, FS_Subset
    <3>3. Cardinality(Newer(s)) \in Nat
      BY <3>2, FS_CardinalityType
    <3>4. QED
      BY <1>0, <2>5, <3>1, <3>2, <3>3
  <2>7. CASE s \in DOMAIN buckets
    <3>1. PerSession /\ s \in gone /\ Full /\ k \notin DOMAIN buckets /\ s \in Oldest(lastSeen)
      BY <1>1, <1>3, <2>7 DEF Called
    <3>2. \A t \in DOMAIN buckets : t \in DOMAIN reply /\ reply[t].at >= reply[s].at
      BY <1>0, <2>7, <3>1 DEF TableInv, TableBounded, Oldest
    <3>3. DOMAIN buckets \ {s} \subseteq Newer(s)
      BY <3>2 DEF Newer
    <3>4. ((DOMAIN buckets \ {s}) \cup {k}) \subseteq Newer(s)'
      BY <2>4, <3>3
    <3>5. IsFiniteSet(DOMAIN buckets) /\ Cardinality(DOMAIN buckets) \in Nat
      BY FS_CardinalityType DEF TableInv
    <3>6. Cardinality((DOMAIN buckets \ {s}) \cup {k}) = Cardinality(DOMAIN buckets)
      BY <2>7, <3>1, <3>5, Swapped
    <3>7. Cardinality((DOMAIN buckets \ {s}) \cup {k}) <= Cardinality(Newer(s)')
      BY <2>5, <3>4, FS_Subset
    <3>8. QED
      BY <1>0, <2>5, <3>1, <3>5, <3>6, <3>7 DEF Full
  <2>8. QED
    BY <2>6, <2>7
<1>4. QED
  BY <1>3 DEF FreshBurstNeedsCrowd

\* A call keeps the maps tied to each other.
LEMMA CallKeepsTable ==
    ASSUME RateInv, TableInv, NEW k, NEW gone, Called(k, gone)
    PROVE  TableInv'
<1> DEFINE r == Refill(Asked(k), clock)
<1>0. k \in Keys /\ clock' = clock /\ clock \in Nat
  BY DEF Called, RateInv, TypeOK
<1>1. /\ DOMAIN buckets' = (DOMAIN buckets \ gone) \cup {k}
      /\ \A j \in DOMAIN buckets \ gone : j # k => buckets'[j] = buckets[j]
      /\ DOMAIN reply' = DOMAIN reply \cup {k}
      /\ \A j \in DOMAIN reply : j # k => reply'[j] = reply[j]
      /\ reply'[k].at = clock
  BY CallEffect
<1>2. \/ HasToken(r) /\ buckets'[k] = Take(r) /\ reply'[k].ok = TRUE
      \/ /\ ~HasToken(r) /\ buckets'[k] = r /\ reply'[k].ok = FALSE
         /\ Representable(r) => reply'[k].secs = RetryAfter(NeedTicks(r))
  BY CallEffect
<1>3. WellFormed(r) /\ r.last = clock
  BY <1>0, AskedShape
<1> HIDE DEF r
<1>4. IsFiniteSet(DOMAIN buckets') /\ IsFiniteSet(DOMAIN reply')
  <2>1. IsFiniteSet(DOMAIN buckets \ gone)
    BY FS_Subset DEF TableInv
  <2>2. QED
    BY <1>1, <2>1, FS_AddElement DEF TableInv
<1>5. TableBounded' /\ FreshBurstNeedsCrowd'
  <2>1. CASE PerSession
    BY <2>1, TableStays, CrowdStays
  <2>2. CASE ~PerSession
    BY <2>2, CrowdStays DEF TableBounded
  <2>3. QED
    BY <2>1, <2>2
<1>6. PerSession => /\ DOMAIN buckets' \subseteq DOMAIN reply'
                    /\ \A s \in DOMAIN buckets' : reply'[s].at = lastSeen'[s]
  <2> SUFFICES ASSUME PerSession
               PROVE  /\ DOMAIN buckets' \subseteq DOMAIN reply'
                      /\ \A s \in DOMAIN buckets' : reply'[s].at = lastSeen'[s]
    OBVIOUS
  <2>1. /\ lastSeen' = With(Without(lastSeen, gone), k, clock)
        /\ DOMAIN lastSeen = DOMAIN buckets /\ DOMAIN buckets \subseteq DOMAIN reply
        /\ \A s \in DOMAIN buckets : reply[s].at = lastSeen[s]
    BY DEF Called, TableInv, TableBounded
  <2>2. lastSeen'[k] = clock /\ \A s \in DOMAIN buckets \ gone : s # k => lastSeen'[s] = lastSeen[s]
    BY <2>1 DEF With, Without
  <2>3. QED
    BY <1>1, <2>1, <2>2
<1>7. \A j \in DOMAIN reply' : reply'[j].at <= clock'
  BY <1>0, <1>1 DEF TableInv
<1>8. ASSUME NEW j \in DOMAIN buckets' \cap DOMAIN reply'
      PROVE  Answered(buckets'[j], reply'[j])
  <2>1. CASE j = k
    <3>1. Take(r).last = r.last
      BY <1>3 DEF Take, WellFormed
    <3>2. QED
      BY <1>1, <1>2, <1>3, <2>1, <3>1 DEF Answered
  <2>2. CASE j # k
    BY <1>1, <2>2 DEF TableInv
  <2>3. QED
    BY <2>1, <2>2
<1>9. QED
  BY <1>4, <1>5, <1>6, <1>7, <1>8 DEF TableInv

\* Whatever is called and however time passes, the maps stay tied.
THEOREM TableInvHolds == Spec => [](RateInv /\ TableInv)
<1>1. Init => TableInv
  <2> SUFFICES ASSUME Init PROVE TableInv
    OBVIOUS
  <2>1. DOMAIN reply = {} /\ DOMAIN lastSeen = {} /\ clock = 0
    BY DEF Init
  <2>2. DOMAIN buckets = {} \/ (~PerSession /\ DOMAIN buckets = {Wide})
    BY DEF Init
  <2>3. IsFiniteSet(DOMAIN buckets) /\ IsFiniteSet(DOMAIN reply)
    <3>1. IsFiniteSet({}) /\ IsFiniteSet({Wide})
      BY FS_EmptySet, FS_Singleton
    <3>2. QED
      BY <2>1, <2>2, <3>1
  <2>4. TableBounded
    BY <2>1, <2>2, FS_EmptySet, RateAssumption DEF TableBounded
  <2>5. QED
    BY <2>1, <2>2, <2>3, <2>4 DEF TableInv, FreshBurstNeedsCrowd
<1>2. RateInv /\ TableInv /\ [Next]_vars => TableInv'
  <2> SUFFICES ASSUME RateInv, TableInv, [Next]_vars PROVE TableInv'
    OBVIOUS
  <2>1. CASE Tick
    <3>1. clock \in Nat /\ clock' = clock + 1 /\ \A k \in DOMAIN reply : reply[k].at \in Nat
      BY <2>1 DEF Tick, RateInv, TypeOK, Answer
    <3>2. UNCHANGED <<buckets, lastSeen, reply>>
      BY <2>1 DEF Tick
    <3>3. QED
      BY <3>1, <3>2 DEF TableInv, TableBounded, FreshBurstNeedsCrowd, Newer
  <2>2. ASSUME NEW s \in Sessions, AllowSession(s) PROVE TableInv'
    BY <2>2, SessionCalls, CallKeepsTable
  <2>3. CASE AllowWide
    BY <2>3, WideCalls, CallKeepsTable
  <2>4. CASE UNCHANGED vars
    BY <2>4 DEF vars, TableInv, TableBounded, FreshBurstNeedsCrowd, Newer
  <2>5. QED
    BY <2>1, <2>2, <2>3, <2>4 DEF Next
<1>3. QED
  BY <1>1, <1>2, RateInvHolds, PTL DEF Spec

\* The table of sessions never outgrows its bound and its two maps hold the
\* same sessions, for every bound and any number of sessions
\* (sessionLimiter.allow).
THEOREM TableBoundedHolds == Spec => []TableBounded
<1>1. TableInv => TableBounded
  BY DEF TableInv
<1>2. QED
  BY <1>1, TableInvHolds, PTL

\* A session is forgotten only after at least as many others as the table
\* holds were seen (sessionLimiter.allow, the eviction loop).
THEOREM FreshBurstNeedsCrowdHolds == Spec => []FreshBurstNeedsCrowd
<1>1. TableInv => FreshBurstNeedsCrowd
  BY DEF TableInv
<1>2. QED
  BY <1>1, TableInvHolds, PTL

--------------------------------------------------------------------------
(* The Retry-After header *)

\* Integer division rounds down.
LEMMA DivFloor ==
    ASSUME NEW a \in Int, NEW b \in Nat \ {0}
    PROVE  a \div b \in Int /\ b * (a \div b) <= a /\ a < b * (a \div b) + b
OBVIOUS

\* A larger factor is at least one more time as much.
LEMMA MulMono ==
    ASSUME NEW a \in Int, NEW b \in Int, NEW c \in Nat \ {0}, a < b
    PROVE  c * a \in Int /\ c * b \in Int /\ c * a + c <= c * b
OBVIOUS

\* The wait, rounded up to whole seconds and to at least one: it covers the
\* ticks it was made from, and beyond one second no second of it is idle
\* (handleProxy, the two statements after the conversion).
LEMMA RetryAfterBounds ==
    ASSUME NEW n \in Nat
    PROVE  /\ RetryAfter(n) \in Nat \ {0}
           /\ n <= RetryAfter(n) * Second
           /\ RetryAfter(n) # 1 => (RetryAfter(n) - 1) * Second < n
<1>1. PICK d \in Int : d = n \div Second
  BY RateAssumption, DivFloor
<1>2. Second * d <= n /\ n < Second * d + Second /\ Second * d \in Int
  BY <1>1, RateAssumption, DivFloor
<1>3. n % Second \in Nat /\ n = Second * d + (n % Second)
  BY <1>1, RateAssumption
<1>4. PICK c \in Int : c = Ceil(n)
  BY <1>1 DEF Ceil
<1>5. Second * c \in Int /\ n <= Second * c /\ Second * (c - 1) < n
  <2>1. CASE c = d /\ n % Second = 0
    BY <1>2, <1>3, <2>1, RateAssumption
  <2>2. CASE c = d + 1 /\ n % Second # 0
    BY <1>2, <1>3, <2>2, RateAssumption
  <2>3. QED
    BY <1>1, <1>4, <2>1, <2>2 DEF Ceil
<1>6. CASE c < 1
  <2>1. RetryAfter(n) = 1
    BY <1>4, <1>6 DEF RetryAfter
  <2>2. Second * c <= Second
    BY <1>6, RateAssumption, MulMono
  <2>3. QED
    BY <1>5, <2>1, <2>2, RateAssumption
<1>7. CASE ~(c < 1)
  <2>1. RetryAfter(n) = c
    BY <1>4, <1>7 DEF RetryAfter
  <2>2. Second * c = c * Second /\ Second * (c - 1) = (c - 1) * Second
    BY RateAssumption
  <2>3. QED
    BY <1>5, <1>7, <2>1, <2>2
<1>8. QED
  BY <1>6, <1>7

\* The wait of a bucket that lacks a token, in ticks: one tick more fills
\* it, and until then it does not (tokenBucket.allow, "need").
LEMMA NeedBounds ==
    ASSUME NEW b, WellFormed(b), ~HasToken(b)
    PROVE  /\ NeedTicks(b) \in Nat
           /\ \A x \in Nat : x > NeedTicks(b) => b.tokens + Rate * x >= Token
           /\ \A x \in Nat : x < NeedTicks(b) => b.tokens + Rate * x < Token
<1>1. b.tokens \in Nat /\ b.tokens < Token /\ Token \in Nat /\ Rate \in Nat \ {0}
  BY RateAssumption, CapacityType DEF WellFormed, HasToken
<1>2. PICK n \in Int : n = NeedTicks(b)
  BY <1>1, DivFloor DEF NeedTicks
<1>3. Rate * n \in Int /\ Rate * n <= Token - b.tokens /\ Token - b.tokens < Rate * n + Rate
  <2>1. PICK a \in Int : a = Token - b.tokens
    BY <1>1
  <2>2. n = a \div Rate
    BY <1>2, <2>1 DEF NeedTicks
  <2>3. Rate * (a \div Rate) <= a /\ a < Rate * (a \div Rate) + Rate
    BY RateAssumption, DivFloor
  <2>4. Rate * n \in Int /\ Rate * n <= a /\ a < Rate * n + Rate
    BY <1>1, <2>2, <2>3
  <2>5. QED
    BY <2>1, <2>4
<1>4. n \in Nat
  <2> SUFFICES ASSUME n < 0 PROVE FALSE
    OBVIOUS
  <2>1. Rate * n + Rate <= Rate * 0
    BY <1>1, MulMono
  <2>2. QED
    BY <1>1, <1>3, <2>1
<1>5. ASSUME NEW x \in Nat, x > n PROVE b.tokens + Rate * x >= Token
  <2>1. Rate * x \in Int /\ Rate * n + Rate <= Rate * x
    BY <1>1, <1>5, MulMono
  <2>2. QED
    BY <1>1, <1>3, <2>1
<1>6. ASSUME NEW x \in Nat, x < n PROVE b.tokens + Rate * x < Token
  <2>1. Rate * x \in Int /\ Rate * x + Rate <= Rate * n
    BY <1>1, <1>6, MulMono
  <2>2. QED
    BY <1>1, <1>3, <2>1
<1>7. QED
  BY <1>2, <1>4, <1>5, <1>6

\* A bucket asked later, with and without a token in it by then
\* (tokenBucket.allow, the refill).
LEMMA RefillBounds ==
    ASSUME NEW b, WellFormed(b), NEW t \in Nat, b.last < t
    PROVE  /\ b.tokens + Rate * (t - b.last) >= Token => HasToken(Refill(b, t))
           /\ b.tokens + Rate * (t - b.last) < Token => ~HasToken(Refill(b, t))
<1>1. PICK e \in Int : e = b.tokens + Rate * (t - b.last)
  BY RateAssumption, CapacityType DEF WellFormed
<1>2. Refill(b, t).tokens = IF e > Capacity THEN Capacity ELSE e
  BY <1>1 DEF Refill, Earned, Flow
<1>3. QED
  BY <1>1, <1>2, CapacityType DEF HasToken

\* What TableInv says of a refusal whose bucket is still in the table.
LEMMA Refusal ==
    ASSUME RateInv, TableInv, NEW k \in DOMAIN buckets, k \in DOMAIN reply,
           Representable(buckets[k]), ~reply[k].ok
    PROVE  /\ WellFormed(buckets[k]) /\ ~HasToken(buckets[k])
           /\ buckets[k].last = reply[k].at /\ reply[k].at \in Nat
           /\ reply[k].secs = RetryAfter(NeedTicks(buckets[k]))
<1>1. reply[k] \in Answer /\ reply[k].ok = FALSE /\ reply[k].at \in Nat
  BY DEF RateInv, TypeOK, Answer
<1>2. Answered(buckets[k], reply[k])
  BY DEF TableInv
<1>3. WellFormed(buckets[k])
  BY DEF RateInv, Ledger, Sound
<1>4. QED
  BY <1>1, <1>2, <1>3 DEF Answered

\* Retry-After never sends a client away for a second or more beyond the
\* moment its token exists, for every rate, burst and length of a second
\* (handleProxy and tokenBucket.allow).
THEOREM RetryIsTightHolds == Spec => []RetryIsTight
<1>1. RateInv /\ TableInv => RetryIsTight
  <2> SUFFICES ASSUME RateInv, TableInv, NEW k \in DOMAIN buckets \cap DOMAIN reply,
                      Representable(buckets[k]), ~reply[k].ok
               PROVE  /\ ~HasToken(buckets[k])
                      /\ \/ reply[k].secs = 1
                         \/ ~HasToken(Refill(buckets[k],
                                reply[k].at + (reply[k].secs - 1) * Second))
    BY DEF RetryIsTight
  <2>1. /\ WellFormed(buckets[k]) /\ ~HasToken(buckets[k])
        /\ buckets[k].last = reply[k].at /\ reply[k].at \in Nat
        /\ reply[k].secs = RetryAfter(NeedTicks(buckets[k]))
    BY Refusal
  <2>2. NeedTicks(buckets[k]) \in Nat
    BY <2>1, NeedBounds
  <2>3. CASE reply[k].secs # 1
    <3>1. PICK x \in Int : x = (reply[k].secs - 1) * Second
      BY <2>1, <2>2, RetryAfterBounds, RateAssumption
    <3>2. x < NeedTicks(buckets[k])
      BY <2>1, <2>2, <2>3, <3>1, RetryAfterBounds
    <3>3. x \in Nat \ {0}
      <4>1. PICK p \in Nat \ {0} : p = reply[k].secs - 1
        BY <2>1, <2>2, <2>3, RetryAfterBounds
      <4>2. Second * 0 + Second <= Second * p
        BY RateAssumption, MulMono
      <4>3. QED
        BY <3>1, <4>1, <4>2, RateAssumption, SMT
    <3>4. buckets[k].tokens + Rate * x < Token
      BY <2>1, <3>2, <3>3, NeedBounds
    <3>5. PICK t \in Nat : t = reply[k].at + x
      BY <2>1, <3>3
    <3>6. t - buckets[k].last = x /\ buckets[k].last < t
      BY <2>1, <3>3, <3>5
    <3>7. ~HasToken(Refill(buckets[k], t))
      BY <2>1, <3>4, <3>6, RefillBounds
    <3>8. QED
      BY <2>1, <3>1, <3>5, <3>7
  <2>4. QED
    BY <2>1, <2>3
<1>2. QED
  BY <1>1, TableInvHolds, PTL

\* A call under key k of a client that waited as long as it was told.
LEMMA WaitedIsAdmitted ==
    ASSUME RateInv, TableInv, NEW k \in DOMAIN reply, NEW gone, Called(k, gone),
           k \in DOMAIN buckets => Representable(buckets[k]),
           ~reply[k].ok, clock > reply[k].at + reply[k].secs * Second
    PROVE  reply'[k].ok = TRUE
<1>0. clock \in Nat /\ k \in Keys
  BY DEF RateInv, TypeOK, Called
<1>1. CASE k \notin DOMAIN buckets
  <2>1. HasToken(Refill(Asked(k), clock))
    BY <1>0, <1>1, CapacityType DEF Asked, NewBucket, Refill, HasToken
  <2>2. QED
    BY <2>1, CallEffect
<1>2. CASE k \in DOMAIN buckets
  <2>1. /\ WellFormed(buckets[k]) /\ ~HasToken(buckets[k])
        /\ buckets[k].last = reply[k].at /\ reply[k].at \in Nat
        /\ reply[k].secs = RetryAfter(NeedTicks(buckets[k]))
    BY <1>2, Refusal
  <2>2. NeedTicks(buckets[k]) \in Nat
    BY <2>1, NeedBounds
  <2>3. PICK w \in Int : w = reply[k].secs * Second
    BY <2>1, <2>2, RetryAfterBounds, RateAssumption
  <2>4. NeedTicks(buckets[k]) <= w
    BY <2>1, <2>2, <2>3, RetryAfterBounds
  <2>5. PICK x \in Nat : x = clock - buckets[k].last
    BY <1>0, <2>1, <2>2, <2>3, <2>4
  <2>6. x > NeedTicks(buckets[k]) /\ buckets[k].last < clock
    BY <1>0, <2>1, <2>2, <2>3, <2>4, <2>5
  <2>7. buckets[k].tokens + Rate * x >= Token
    BY <2>1, <2>5, <2>6, NeedBounds
  <2>8. HasToken(Refill(buckets[k], clock))
    BY <1>0, <2>1, <2>5, <2>6, <2>7, RefillBounds
  <2>9. QED
    BY <1>2, <2>8, CallEffect DEF Asked
<1>3. QED
  BY <1>1, <1>2

\* A client that was refused and waited as long as Retry-After told it to is
\* admitted when it asks again, also if its session was evicted meanwhile
\* (handleProxy and allow of both limiters).
THEOREM RetryIsHonouredHolds == Spec => RetryIsHonoured
<1> DEFINE Honoured ==
      \A k \in DOMAIN reply :
         (/\ k \in DOMAIN buckets => Representable(buckets[k])
          /\ reply'[k] # reply[k]
          /\ ~reply[k].ok
          /\ clock > reply[k].at + reply[k].secs * Second)
            => reply'[k].ok
<1>1. RateInv /\ TableInv /\ [Next]_vars => [Honoured]_vars
  <2> SUFFICES ASSUME RateInv, TableInv, Next, NEW k \in DOMAIN reply,
                      k \in DOMAIN buckets => Representable(buckets[k]),
                      reply'[k] # reply[k],
                      ~reply[k].ok, clock > reply[k].at + reply[k].secs * Second
               PROVE  reply'[k].ok = TRUE
    OBVIOUS
  <2>1. ASSUME NEW j, NEW gone, Called(j, gone) PROVE reply'[k].ok = TRUE
    <3>1. \A i \in DOMAIN reply : i # j => reply'[i] = reply[i]
      BY <2>1, CallEffect
    <3>2. j = k
      BY <3>1
    <3>3. QED
      BY <2>1, <3>2, WaitedIsAdmitted
  <2>2. CASE Tick
    BY <2>2 DEF Tick
  <2>3. ASSUME NEW s \in Sessions, AllowSession(s) PROVE reply'[k].ok = TRUE
    BY <2>1, <2>3, SessionCalls
  <2>4. CASE AllowWide
    BY <2>1, <2>4, WideCalls
  <2>5. QED
    BY <2>2, <2>3, <2>4 DEF Next
<1>2. QED
  BY <1>1, TableInvHolds, PTL DEF Spec, RetryIsHonoured

--------------------------------------------------------------------------
(* The meter *)

\* A bucket that is refilled one tick later holds what it would have held,
\* topped up (tokenBucket.allow: elapsed time adds up).
LEMMA RefillTick ==
    ASSUME NEW b, WellFormed(b), NEW t \in Nat, b.last <= t
    PROVE  Refill(b, t + 1).tokens = Ideal!Filled(Refill(b, t).tokens + Rate)
<1>1. b.tokens \in Nat /\ b.tokens <= Capacity /\ b.last \in Nat
  BY CapacityType DEF WellFormed
<1>2. PICK f \in Nat : f = Rate * (t - b.last)
  <2>1. PICK d \in Nat : d = t - b.last
    BY <1>1
  <2>2. QED
    BY <2>1, RateAssumption
<1>3. Rate * ((t + 1) - b.last) = f + Rate
  BY <1>1, <1>2, RateAssumption
<1>4. Refill(b, t + 1).tokens = IF b.tokens + (f + Rate) > Capacity THEN Capacity
                                ELSE b.tokens + (f + Rate)
  BY <1>1, <1>3 DEF Refill, Earned, Flow
<1>5. Refill(b, t).tokens = IF b.tokens + f > Capacity THEN Capacity ELSE b.tokens + f
  <2>1. CASE t > b.last
    BY <1>2, <2>1 DEF Refill, Earned, Flow
  <2>2. CASE t = b.last
    <3>1. f = 0
      BY <1>1, <1>2, <2>2, RateAssumption
    <3>2. Refill(b, t) = b
      BY <1>1, <2>2 DEF Refill
    <3>3. QED
      BY <1>1, <3>1, <3>2, CapacityType
  <2>3. QED
    BY <1>1, <2>1, <2>2
<1>6. QED
  BY <1>1, <1>2, <1>4, <1>5, CapacityType, RateAssumption DEF Ideal!Filled

\* Time passing fills every store of the meter.
LEMMA TickMeters ==
    ASSUME RateInv, Tick
    PROVE  Ideal!Tick
<1>1. clock \in Nat /\ clock' = clock + 1 /\ buckets' = buckets /\ reply' = reply
  BY DEF Tick, RateInv, TypeOK
<1>2. ASSUME NEW k \in Keys PROVE Level(k)' = Ideal!Filled(Level(k) + Rate)
  <2>1. CASE k \in DOMAIN buckets
    <3>1. WellFormed(buckets[k]) /\ buckets[k].last <= clock
      BY <1>1, <2>1 DEF RateInv, TypeOK, Ledger, Sound
    <3>2. QED
      BY <1>1, <2>1, <3>1, RefillTick DEF Level
  <2>2. CASE k \notin DOMAIN buckets
    BY <1>1, <2>2, CapacityType, RateAssumption DEF Level, Ideal!Filled
  <2>3. QED
    BY <2>1, <2>2
<1>3. QED
  BY <1>1, <1>2 DEF Ideal!Tick

\* A call pays from the store that the meter shows, and forgets no tokens of
\* any client.
LEMMA CallMeters ==
    ASSUME RateInv, TableInv, NEW k, NEW gone, Called(k, gone)
    PROVE  Ideal!Next
<1> DEFINE r == Refill(Asked(k), clock)
<1>0. k \in Keys /\ clock' = clock /\ clock \in Nat /\ DOMAIN buckets \subseteq Keys
  BY DEF Called, RateInv, TypeOK
<1>1. /\ DOMAIN buckets' = (DOMAIN buckets \ gone) \cup {k}
      /\ \A j \in DOMAIN buckets \ gone : j # k => buckets'[j] = buckets[j]
      /\ DOMAIN reply' = DOMAIN reply \cup {k}
      /\ \A j \in DOMAIN reply : j # k => reply'[j] = reply[j]
      /\ reply'[k].at = clock
  BY CallEffect
<1>2. \/ HasToken(r) /\ buckets'[k] = Take(r) /\ reply'[k].ok = TRUE
      \/ ~HasToken(r) /\ buckets'[k] = r /\ reply'[k].ok = FALSE
  BY CallEffect
<1>3. WellFormed(r) /\ r.last = clock
  BY <1>0, AskedShape
<1>4. Level(k) = r.tokens
  BY <1>0 DEF Level, Asked, NewBucket, Refill
<1> HIDE DEF r
<1>5. /\ gone \in {{}} \cup {{j} : j \in Keys}
      /\ \A j \in gone : j \in DOMAIN buckets
  <2>1. CASE gone = {}
    BY <2>1
  <2>2. CASE PerSession /\ \E o \in Oldest(lastSeen) : gone = {o}
    BY <1>0, <2>2 DEF Oldest, TableInv, TableBounded
  <2>3. QED
    BY <2>1, <2>2 DEF Called
<1>6. \A j \in Keys \ {k} : Level(j)' = IF j \in gone THEN Capacity ELSE Level(j)
  BY <1>0, <1>1, <1>5 DEF Level
<1>7. \A b : b.last = clock => Refill(b, clock) = b
  BY <1>0 DEF Refill
<1>8. (Level(k) >= Token) <=> HasToken(r)
  BY <1>4 DEF HasToken
<1>9. Level(k)' = IF Level(k) >= Token THEN Level(k) - Token ELSE Level(k)
  <2>1. Level(k)' = buckets'[k].tokens
    <3>1. k \in DOMAIN buckets' /\ Level(k)' = Refill(buckets'[k], clock).tokens
      BY <1>0, <1>1 DEF Level
    <3>2. buckets'[k].last = clock
      BY <1>2, <1>3 DEF Take, WellFormed
    <3>3. QED
      BY <1>7, <3>1, <3>2
  <2>2. Take(r).tokens = r.tokens - Token
    BY <1>3 DEF Take, WellFormed
  <2>3. QED
    BY <1>2, <1>4, <1>8, <2>1, <2>2
<1>10. reply'[k].ok = (Level(k) >= Token)
  <2>1. CASE HasToken(r)
    <3>1. reply'[k].ok = TRUE
      BY <1>2, <2>1, Zenon
    <3>2. (Level(k) >= Token) = TRUE
      BY <1>8, <2>1, Zenon
    <3>3. QED
      BY <3>1, <3>2, Zenon
  <2>2. CASE ~HasToken(r)
    <3>1. reply'[k].ok = FALSE
      BY <1>2, <2>2, Zenon
    <3>2. (Level(k) >= Token) = FALSE
      <4>1. ~(Level(k) >= Token) /\ Level(k) \in Int /\ Token \in Int
        BY <1>3, <1>4, <1>8, <2>2, CapacityType DEF WellFormed
      <4>2. QED
        BY <4>1, SMT
    <3>3. QED
      BY <3>1, <3>2, Zenon
  <2>3. QED
    BY <2>1, <2>2
<1>11. Ideal!Request(k, gone)
  <2>1. [j \in Keys |-> Level(j)]' =
          [j \in Keys |-> IF j = k THEN IF Level(k) >= Token THEN Level(k) - Token ELSE Level(k)
                          ELSE IF j \in gone THEN Capacity ELSE Level(j)]
    BY <1>6, <1>9
  <2>2. \A j \in DOMAIN reply' :
          [at |-> reply'[j].at, ok |-> reply'[j].ok] =
            IF j = k THEN [at |-> clock, ok |-> Level(k) >= Token]
            ELSE [at |-> reply[j].at, ok |-> reply[j].ok]
    BY <1>1, <1>10
  <2>3. QED
    BY <1>0, <1>1, <2>1, <2>2 DEF Ideal!Request
<1>12. QED
  BY <1>0, <1>5, <1>11 DEF Ideal!Next

\* The limiter that refills a bucket only when it is asked, and forgets the
\* sessions seen longest ago, gives the answers of stores that are always up
\* to date, for every rate, burst, table bound and set of sessions
\* (allow of both types implements Meter).
THEOREM LimiterIsMeter == Spec => MeterSpec
<1>1. Init => Ideal!Init
  <2> SUFFICES ASSUME Init PROVE Ideal!Init
    OBVIOUS
  <2>1. clock = 0 /\ DOMAIN reply = {}
    BY DEF Init
  <2>2. \A k \in DOMAIN buckets : buckets[k] = NewBucket(0)
    BY DEF Init
  <2>3. \A k \in Keys : Level(k) = Capacity
    BY <2>1, <2>2 DEF Level, NewBucket, Refill
  <2>4. QED
    BY <2>1, <2>3 DEF Ideal!Init
<1>2. RateInv /\ TableInv /\ [Next]_vars => [Ideal!Next]_Ideal!vars
  <2> SUFFICES ASSUME RateInv, TableInv, [Next]_vars
               PROVE  [Ideal!Next]_Ideal!vars
    OBVIOUS
  <2>1. CASE Tick
    BY <2>1, TickMeters DEF Ideal!Next
  <2>2. ASSUME NEW s \in Sessions, AllowSession(s) PROVE Ideal!Next
    BY <2>2, SessionCalls, CallMeters
  <2>3. CASE AllowWide
    BY <2>3, WideCalls, CallMeters
  <2>4. CASE UNCHANGED vars
    BY <2>4 DEF vars, Ideal!vars, Level
  <2>5. QED
    BY <2>1, <2>2, <2>3, <2>4 DEF Next
<1>3. QED
  BY <1>1, <1>2, TableInvHolds, PTL DEF Spec, MeterSpec, Ideal!Spec
===========================================================================
