-------------------------- MODULE AuditorProofs --------------------------
(***************************************************************************)
(* Proofs about Auditor, for every number of handlers, calls and starts.   *)
(***************************************************************************)
EXTENDS Auditor, TLAPS, FiniteSetTheorems, SequenceTheorems

\* The halves on the sink: a second half comes right after the first one of
\* its entry, nothing is on the sink twice, and it was all submitted.
SinkInv ==
    /\ \A i \in DOMAIN sink : sink[i].half = 2 =>
          i > 1 /\ sink[i - 1].half = 1 /\ sink[i - 1].of = sink[i].of
    /\ \A i, j \in DOMAIN sink :
          (sink[i].of = sink[j].of /\ sink[i].half = sink[j].half) => i = j
    /\ \A i \in DOMAIN sink : sink[i].of \in Submitted

\* A handler under way: before its first half the sink holds nothing of its
\* entry, and after it the first half is the last thing on the sink.
HandlerInv ==
    \A h \in Handlers :
        /\ pc[h] \in {"lock", "write"} => n[h] > 0
        /\ pc[h] = "lock" => part[h] = 1
        /\ (pc[h] \in {"lock", "write"} /\ part[h] = 1) =>
              \A i \in DOMAIN sink : sink[i].of # Entry(h)
        /\ (pc[h] = "write" /\ part[h] = 2) =>
              /\ Len(sink) > 0 /\ sink[Len(sink)].half = 1
              /\ sink[Len(sink)].of = Entry(h)

\* Write returned no error for the entries whose second half is there.
TakenInv ==
    \A e \in Entries :
        e \in taken <=> \E i \in DOMAIN sink : sink[i].of = e /\ sink[i].half = 2

\* The lines are numbered without a gap.
Ranked == \A k \in 1..Cardinality(Lines) : \E i \in Lines : Rank(i) = k

AuditInv == TypeOK /\ SinkInv /\ HandlerInv /\ TakenInv /\ Ranked

--------------------------------------------------------------------------
(* The numbers of the lines *)

\* Of two members of a set of numbers the larger has the larger rank.
LEMMA RankIsStrict ==
    ASSUME NEW L \in SUBSET Nat, IsFiniteSet(L), NEW i \in L, NEW j \in L, i < j
    PROVE  Cardinality({x \in L : x <= i}) < Cardinality({x \in L : x <= j})
<1> DEFINE A == {x \in L : x <= i}
           B == {x \in L : x <= j}
<1>0. \A x \in L : x \in Nat
  OBVIOUS
<1>1. B \in SUBSET L /\ A \in SUBSET B /\ A # B
  <2>1. j \in B /\ ~(j <= i)
    BY <1>0
  <2>2. j \notin A
    BY <2>1
  <2>3. ASSUME NEW x \in A PROVE x \in B
    BY <1>0
  <2>4. QED
    BY <2>1, <2>2, <2>3
<1>2. IsFiniteSet(B)
  BY <1>1, FS_Subset
<1>3. IsFiniteSet(A) /\ Cardinality(A) <= Cardinality(B) /\ Cardinality(A) # Cardinality(B)
  <2> HIDE DEF A, B
  <2>1. QED
    BY <1>1, <1>2, FS_Subset
<1>4. Cardinality(A) \in Nat /\ Cardinality(B) \in Nat
  BY <1>2, <1>3, FS_CardinalityType
<1>5. QED
  BY <1>3, <1>4

\* A rank is the number of a member.
LEMMA RankIsNumber ==
    ASSUME NEW L \in SUBSET Nat, IsFiniteSet(L), NEW i \in L
    PROVE  Cardinality({x \in L : x <= i}) \in 1..Cardinality(L)
<1> DEFINE A == {x \in L : x <= i}
<1>1. A \in SUBSET L /\ A # {}
  BY i \in Nat, i \in A
<1>2. IsFiniteSet(A) /\ Cardinality(A) <= Cardinality(L)
  BY <1>1, FS_Subset
<1>3. Cardinality(A) # 0
  BY <1>1, <1>2, FS_EmptySet
<1>4. Cardinality(A) \in Nat /\ Cardinality(L) \in Nat
  BY <1>2, FS_CardinalityType
<1>5. QED
  BY <1>2, <1>3, <1>4

\* A new largest member has the next rank; the others keep theirs.
LEMMA RankOfNewest ==
    ASSUME NEW L \in SUBSET Nat, IsFiniteSet(L), NEW m \in Nat, \A i \in L : i < m
    PROVE  /\ Cardinality(L \cup {m}) = Cardinality(L) + 1
           /\ Cardinality({x \in L \cup {m} : x <= m}) = Cardinality(L) + 1
           /\ \A i \in L : {x \in L \cup {m} : x <= i} = {x \in L : x <= i}
<1>1. m \notin L
  OBVIOUS
<1>2. Cardinality(L \cup {m}) = Cardinality(L) + 1
  BY <1>1, FS_AddElement
<1>3. {x \in L \cup {m} : x <= m} = L \cup {m}
  <2>1. \A x \in L \cup {m} : x <= m
    OBVIOUS
  <2>2. QED
    BY <2>1
<1>4. \A i \in L : {x \in L \cup {m} : x <= i} = {x \in L : x <= i}
  OBVIOUS
<1>5. QED
  BY <1>2, <1>3, <1>4

\* The lines are finitely many places of the sink.
LEMMA LinesFinite ==
    ASSUME sink \in Seq([of : Entries, half : {1, 2}])
    PROVE  /\ Lines \in SUBSET (1..Len(sink)) /\ Lines \in SUBSET Nat
           /\ IsFiniteSet(Lines) /\ Cardinality(Lines) \in Nat
<1>1. Len(sink) \in Nat /\ DOMAIN sink = 1..Len(sink)
  OBVIOUS
<1>2. Lines \in SUBSET (1..Len(sink)) /\ Lines \in SUBSET Nat
  BY <1>1 DEF Lines
<1>3. IsFiniteSet(1..Len(sink))
  BY <1>1, FS_Interval
<1>4. IsFiniteSet(Lines)
  BY <1>2, <1>3, FS_Subset
<1>5. QED
  BY <1>2, <1>4, FS_CardinalityType

\* The line with number k is the k-th.
LEMMA NthIsLine == TypeOK => \A i \in Lines : Nth(Rank(i)) = i
<1> SUFFICES ASSUME TypeOK, NEW i \in Lines PROVE Nth(Rank(i)) = i
  OBVIOUS
<1>0. Lines \in SUBSET Nat /\ IsFiniteSet(Lines)
  BY LinesFinite DEF TypeOK
<1>1. \A j \in Lines : Rank(j) = Rank(i) => j = i
  <2> SUFFICES ASSUME NEW j \in Lines, Rank(j) = Rank(i), j # i PROVE FALSE
    OBVIOUS
  <2>1. i \in Nat /\ j \in Nat
    BY <1>0
  <2>2. i < j \/ j < i
    BY <2>1
  <2>3. /\ \A x \in Lines : Cardinality({y \in Lines : y <= x}) \in Nat
    BY <1>0, RankIsNumber
  <2>4. Rank(i) < Rank(j) \/ Rank(j) < Rank(i)
    BY <1>0, <2>2, RankIsStrict DEF Rank
  <2>5. QED
    BY <2>3, <2>4 DEF Rank
<1>2. QED
  BY <1>1 DEF Nth

\* What the k-th line is, for every k.
LEMMA NthFacts ==
    ASSUME Ranked, NEW k \in 1..Cardinality(Lines)
    PROVE  Nth(k) \in Lines /\ Rank(Nth(k)) = k
BY DEF Ranked, Nth

\* A reader finds the entries of the lines, and no others.
LEMMA ReadableSet ==
    ASSUME TypeOK, Ranked
    PROVE  ToSet(Readable) = {sink[i].of : i \in Lines}
<1>0. Lines \in SUBSET Nat /\ IsFiniteSet(Lines)
  BY LinesFinite DEF TypeOK
<1>1. DOMAIN Readable = 1..Cardinality(Lines)
  BY DEF Readable
<1>2. ASSUME NEW k \in 1..Cardinality(Lines) PROVE Readable[k] \in {sink[i].of : i \in Lines}
  BY <1>2, NthFacts DEF Readable
<1>3. ASSUME NEW i \in Lines
      PROVE  \E k \in 1..Cardinality(Lines) : Readable[k] = sink[i].of
  <2>1. Rank(i) \in 1..Cardinality(Lines)
    BY <1>0, RankIsNumber DEF Rank
  <2>2. Readable[Rank(i)] = sink[i].of
    BY <2>1, NthIsLine DEF Readable
  <2>3. QED
    BY <2>1, <2>2
<1>4. QED
  BY <1>1, <1>2, <1>3 DEF ToSet

--------------------------------------------------------------------------
(* What a step does to the sink and its lines *)

Piece == [of : Entries, half : {1, 2}]

\* The places of the sink hold halves.
LEMMA SinkShape ==
    ASSUME sink \in Seq(Piece)
    PROVE  /\ Len(sink) \in Nat /\ DOMAIN sink = 1..Len(sink)
           /\ \A i \in DOMAIN sink : sink[i] \in Piece
           /\ \A i \in DOMAIN sink : sink[i].of \in Entries /\ sink[i].half \in {1, 2}
<1>1. Len(sink) \in Nat /\ DOMAIN sink = 1..Len(sink) /\ \A i \in DOMAIN sink : sink[i] \in Piece
  OBVIOUS
<1>2. QED
  BY <1>1 DEF Piece

\* Where a line begins, by the halves around the place.
LineIs(i) ==
    /\ sink[i].half = 1 /\ i < Len(sink)
    /\ sink[i + 1].half = 2 /\ sink[i + 1].of = sink[i].of
    /\ i = 1 \/ sink[i - 1].half = 2

\* LineIs says the same as LineAt, which compares whole halves.
LEMMA LinesAre == sink \in Seq(Piece) => Lines = {i \in 1..Len(sink) : LineIs(i)}
<1> SUFFICES ASSUME sink \in Seq(Piece) PROVE Lines = {i \in 1..Len(sink) : LineIs(i)}
  OBVIOUS
<1>1. ASSUME NEW i \in 1..Len(sink), i < Len(sink)
      PROVE  sink[i + 1] = [of |-> sink[i].of, half |-> 2] <=>
                (sink[i + 1].half = 2 /\ sink[i + 1].of = sink[i].of)
  <2>1. i + 1 \in DOMAIN sink
    BY <1>1, SinkShape
  <2>2. sink[i + 1] \in Piece
    BY <2>1, SinkShape
  <2>3. QED
    BY <2>2 DEF Piece
<1>2. \A i \in 1..Len(sink) : LineAt(i) <=> LineIs(i)
  BY <1>1 DEF LineAt, LineIs
<1>3. DOMAIN sink = 1..Len(sink)
  OBVIOUS
<1>4. QED
  BY <1>2, <1>3 DEF Lines

\* The sink with one more half at its end.
Grown(e, k) ==
    /\ Len(sink') = Len(sink) + 1
    /\ \A i \in 1..Len(sink) : sink'[i] = sink[i]
    /\ sink'[Len(sink) + 1].of = e /\ sink'[Len(sink) + 1].half = k

\* WritePart appends one half.
LEMMA SinkGrows ==
    ASSUME sink \in Seq(Piece), NEW e \in Entries, NEW k \in {1, 2},
           sink' = Append(sink, [of |-> e, half |-> k])
    PROVE  sink' \in Seq(Piece) /\ Grown(e, k)
<1>1. PICK x \in Piece : x = [of |-> e, half |-> k] /\ x.of = e /\ x.half = k
  BY DEF Piece
<1>2. /\ sink' \in Seq(Piece) /\ Len(sink') = Len(sink) + 1
      /\ \A i \in 1..Len(sink) : sink'[i] = sink[i]
      /\ sink'[Len(sink) + 1] = x
  <2>1. sink' = Append(sink, x)
    BY <1>1
  <2>2. QED
    BY <2>1, AppendProperties
<1>3. QED
  BY <1>1, <1>2 DEF Grown

\* A first half makes no line and spoils none.
LEMMA FirstHalf ==
    ASSUME sink \in Seq(Piece), sink' \in Seq(Piece), NEW e, Grown(e, 1)
    PROVE  Lines' = Lines
<1>0. PICK N \in Nat : N = Len(sink) /\ Len(sink') = N + 1
  BY DEF Grown
<1>1. Lines = {i \in 1..N : LineIs(i)} /\ Lines' = {i \in 1..(N + 1) : LineIs(i)'}
  <2>1. (sink \in Seq(Piece) => Lines = {i \in 1..Len(sink) : LineIs(i)})'
    BY LinesAre, PTL
  <2>2. QED
    BY <1>0, <2>1, LinesAre
<1>2. ASSUME NEW i \in 1..N PROVE LineIs(i)' <=> LineIs(i)
  <2>1. i = N \/ i + 1 \in 1..N
    BY <1>0
  <2>2. i = 1 \/ i - 1 \in 1..N
    BY <1>0
  <2>3. CASE i = N
    BY <1>0, <2>3 DEF LineIs, Grown
  <2>4. CASE i + 1 \in 1..N
    BY <1>0, <2>2, <2>4 DEF LineIs, Grown
  <2>5. QED
    BY <2>1, <2>3, <2>4
<1>3. ~LineIs(N + 1)'
  BY <1>0 DEF LineIs
<1>4. QED
  BY <1>0, <1>1, <1>2, <1>3

\* A second half makes one line of the two last halves, unless the first of
\* them was appended to a torn line.
LEMMA SecondHalf ==
    ASSUME sink \in Seq(Piece), sink' \in Seq(Piece), NEW e, Grown(e, 2),
           Len(sink) > 0, sink[Len(sink)].half = 1, sink[Len(sink)].of = e
    PROVE  Lines' = IF Len(sink) = 1 \/ sink[Len(sink) - 1].half = 2
                      THEN Lines \cup {Len(sink)} ELSE Lines
<1>0. PICK N \in Nat : N = Len(sink) /\ Len(sink') = N + 1
  BY DEF Grown
<1>1. Lines = {i \in 1..N : LineIs(i)} /\ Lines' = {i \in 1..(N + 1) : LineIs(i)'}
  <2>1. (sink \in Seq(Piece) => Lines = {i \in 1..Len(sink) : LineIs(i)})'
    BY LinesAre, PTL
  <2>2. QED
    BY <1>0, <2>1, LinesAre
<1>2. ASSUME NEW i \in 1..N, i # N PROVE LineIs(i)' <=> LineIs(i)
  <2>1. i + 1 \in 1..N /\ (i = 1 \/ i - 1 \in 1..N)
    BY <1>0, <1>2
  <2>2. QED
    BY <1>0, <2>1 DEF LineIs, Grown
<1>3. ~LineIs(N + 1)' /\ ~LineIs(N)
  BY <1>0 DEF LineIs
<1>4. LineIs(N)' <=> (N = 1 \/ sink[N - 1].half = 2)
  <2>1. N \in 1..N /\ (N = 1 \/ N - 1 \in 1..N)
    BY <1>0
  <2>2. QED
    BY <1>0, <2>1 DEF LineIs, Grown
<1>5. QED
  BY <1>0, <1>1, <1>2, <1>3, <1>4

\* With the same lines a reader finds the same entries.
LEMMA SameLines ==
    ASSUME Ranked, Lines' = Lines, \A i \in Lines : sink'[i] = sink[i]
    PROVE  Ranked' /\ Readable' = Readable
<1>1. \A i : Rank(i)' = Rank(i)
  BY DEF Rank
<1>2. \A k : Nth(k)' = Nth(k)
  BY <1>1 DEF Nth
<1>3. Ranked'
  BY <1>1 DEF Ranked
<1>4. \A k \in 1..Cardinality(Lines) : sink'[Nth(k)] = sink[Nth(k)]
  BY NthFacts
<1>5. QED
  BY <1>2, <1>3, <1>4 DEF Readable

\* With one more line at the end a reader finds one more entry, the last.
LEMMA OneMoreLine ==
    ASSUME TypeOK, TypeOK', Ranked, NEW m \in Nat, \A i \in Lines : i < m,
           Lines' = Lines \cup {m}, \A i \in Lines : sink'[i] = sink[i]
    PROVE  Ranked' /\ Readable' = Append(Readable, sink'[m].of)
<1>0. Lines \in SUBSET Nat /\ IsFiniteSet(Lines) /\ Cardinality(Lines) \in Nat
  BY LinesFinite DEF TypeOK
<1>1. PICK c \in Nat : c = Cardinality(Lines)
  BY <1>0
<1>2. /\ Cardinality(Lines') = c + 1
      /\ Rank(m)' = c + 1
      /\ \A i \in Lines : Rank(i)' = Rank(i)
  <2>1. PICK L \in SUBSET Nat : L = Lines /\ IsFiniteSet(L) /\ \A i \in L : i < m
    BY <1>0
  <2>2. /\ Cardinality(L \cup {m}) = Cardinality(L) + 1
        /\ Cardinality({x \in L \cup {m} : x <= m}) = Cardinality(L) + 1
        /\ \A i \in L : {x \in L \cup {m} : x <= i} = {x \in L : x <= i}
    BY <2>1, RankOfNewest
  <2>3. QED
    BY <1>1, <2>1, <2>2 DEF Rank
<1>3. Ranked'
  <2> SUFFICES ASSUME NEW k \in 1..(c + 1) PROVE \E i \in Lines' : Rank(i)' = k
    BY <1>2 DEF Ranked
  <2>1. CASE k = c + 1
    BY <1>2, <2>1
  <2>2. CASE k \in 1..c
    BY <1>1, <1>2, <2>2 DEF Ranked
  <2>3. QED
    BY <2>1, <2>2
<1>n. (TypeOK => \A i \in Lines : Nth(Rank(i)) = i)'
  BY NthIsLine, PTL
<1>4. Nth(c + 1)' = m
  BY <1>2, <1>n
<1>5. ASSUME NEW k \in 1..c PROVE Nth(k)' = Nth(k) /\ sink'[Nth(k)] = sink[Nth(k)]
  <2>1. Nth(k) \in Lines /\ Rank(Nth(k)) = k
    BY <1>1, NthFacts
  <2>2. PICK i \in Lines : i = Nth(k)
    BY <2>1
  <2>3. Rank(i)' = k /\ i \in Lines'
    BY <1>2, <2>1, <2>2
  <2>4. Nth(Rank(i))' = i
    BY <2>3, <1>n
  <2>5. QED
    BY <2>2, <2>3, <2>4
<1>6. Readable = [k \in 1..c |-> sink[Nth(k)].of]
  BY <1>1 DEF Readable
<1>7. Readable' = [k \in 1..(c + 1) |-> sink'[Nth(k)'].of]
  BY <1>2 DEF Readable
<1>8. QED
  BY <1>3, <1>4, <1>5, <1>6, <1>7

--------------------------------------------------------------------------
(* The invariant *)

\* Entries under way were submitted, and each has a handler of its own.
LEMMA Submissions ==
    ASSUME n \in [Handlers -> 0..MaxLogs]
    PROVE  /\ Submitted \subseteq Entries
           /\ \A h \in Handlers : n[h] > 0 => Entry(h) \in Submitted
           /\ \A h \in Handlers : <<h, n[h] + 1>> \notin Submitted
           /\ \A g, h \in Handlers : Entry(g) = Entry(h) => g = h
BY AuditorAssumption DEF Submitted, Entry, Entries

\* Only one handler writes.
LEMMA OneWriter ==
    ASSUME TypeOK, NEW g \in Handlers, NEW h \in Handlers,
           pc[g] = "write", pc[h] = "write"
    PROVE  g = h
BY DEF TypeOK

\* The steps that leave the file alone: which handler moves, and where to.
Moves(h, to) ==
    /\ sink' = sink /\ n' = n /\ part' = part /\ taken' = taken
    /\ pc' = [pc EXCEPT ![h] = to]

\* A handler that goes on to write, or gives up, disturbs nobody.
LEMMA MovesInv ==
    ASSUME AuditInv, NEW h \in Handlers, NEW to, Moves(h, to),
           to = "write" => pc[h] = "lock", to # "lock"
    PROVE  SinkInv' /\ HandlerInv' /\ TakenInv' /\ Ranked'
<1>1. SinkInv'
  BY DEF AuditInv, SinkInv, Submitted, Moves
<1>2. HandlerInv'
  BY DEF AuditInv, TypeOK, HandlerInv, Entry, Moves
<1>3. TakenInv'
  BY DEF AuditInv, TakenInv, Moves
<1>4. Ranked'
  <2>1. Lines' = Lines
    BY DEF Moves, Lines, LineAt
  <2>2. QED
    BY <2>1, SameLines DEF AuditInv, Moves
<1>5. QED
  BY <1>1, <1>2, <1>3, <1>4

\* Log submits an entry that is not on the sink yet.
LEMMA LogInv ==
    ASSUME AuditInv, NEW h \in Handlers, Log(h)
    PROVE  SinkInv' /\ HandlerInv' /\ TakenInv' /\ Ranked'
<1>0. /\ n \in [Handlers -> 0..MaxLogs] /\ pc \in [Handlers -> {"idle", "lock", "write", "report"}]
      /\ part \in [Handlers -> {1, 2}]
      /\ sink' = sink /\ taken' = taken
  BY DEF AuditInv, TypeOK, Log
<1>1. /\ n' = [n EXCEPT ![h] = n[h] + 1] /\ part' = [part EXCEPT ![h] = 1]
      /\ pc' = [pc EXCEPT ![h] = "lock"]
  BY DEF Log, Goto
<1>2. Submitted \subseteq Submitted'
  BY <1>0, <1>1 DEF Submitted
<1>3. SinkInv'
  BY <1>0, <1>2 DEF AuditInv, SinkInv
<1>4. HandlerInv'
  <2>1. \A i \in DOMAIN sink : sink[i].of # <<h, n[h] + 1>>
    BY <1>0, Submissions DEF AuditInv, SinkInv
  <2>2. ASSUME NEW g \in Handlers, g # h
        PROVE  n'[g] = n[g] /\ part'[g] = part[g] /\ pc'[g] = pc[g] /\ Entry(g)' = Entry(g)
    BY <1>0, <1>1, <2>2 DEF Entry
  <2>3. n'[h] > 0 /\ part'[h] = 1 /\ pc'[h] = "lock" /\ Entry(h)' = <<h, n[h] + 1>>
    BY <1>0, <1>1 DEF Entry
  <2>4. QED
    BY <1>0, <2>1, <2>2, <2>3 DEF AuditInv, HandlerInv
<1>5. TakenInv'
  BY <1>0 DEF AuditInv, TakenInv
<1>6. Ranked'
  <2>1. Lines' = Lines
    BY <1>0 DEF Lines, LineAt
  <2>2. QED
    BY <1>0, <2>1, SameLines DEF AuditInv
<1>7. QED
  BY <1>3, <1>4, <1>5, <1>6

\* What the two cases of WritePart do.
LEMMA WriteCases ==
    ASSUME AuditInv, NEW h \in Handlers, WritePart(h)
    PROVE  /\ sink \in Seq(Piece) /\ sink' \in Seq(Piece) /\ n' = n
           /\ pc[h] = "write" /\ Entry(h) \in Entries /\ Entry(h) \in Submitted
           /\ Submitted' = Submitted /\ \A g \in Handlers : Entry(g)' = Entry(g)
           /\ \/ /\ part[h] = 1 /\ Grown(Entry(h), 1)
                 /\ part' = [part EXCEPT ![h] = 2] /\ pc' = pc /\ taken' = taken /\ mu' = mu
              \/ /\ part[h] = 2 /\ Grown(Entry(h), 2)
                 /\ part' = part /\ pc' = [pc EXCEPT ![h] = "idle"]
                 /\ taken' = taken \cup {Entry(h)} /\ mu' = Free
<1>1. sink \in Seq(Piece) /\ n' = n /\ pc[h] = "write" /\ part[h] \in {1, 2}
  BY DEF AuditInv, TypeOK, WritePart, Piece
<1>2. Entry(h) \in Entries /\ Entry(h) \in Submitted
  BY <1>1, Submissions DEF AuditInv, TypeOK, HandlerInv
<1>3. sink' \in Seq(Piece) /\ Grown(Entry(h), part[h])
  <2>1. PICK e \in Entries : e = Entry(h)
    BY <1>2
  <2>2. PICK k \in {1, 2} : k = part[h]
    BY <1>1
  <2>3. sink' = Append(sink, [of |-> e, half |-> k])
    BY <2>1, <2>2 DEF WritePart
  <2>4. sink' \in Seq(Piece) /\ Grown(e, k)
    BY <1>1, <2>3, SinkGrows
  <2>5. QED
    BY <2>1, <2>2, <2>4 DEF Grown
<1>4. Submitted' = Submitted /\ \A g \in Handlers : Entry(g)' = Entry(g)
  BY <1>1 DEF Submitted, Entry
<1>5. CASE part[h] = 1
  BY <1>1, <1>2, <1>3, <1>4, <1>5 DEF WritePart
<1>6. CASE part[h] = 2
  BY <1>1, <1>2, <1>3, <1>4, <1>6 DEF WritePart, Goto
<1>7. QED
  BY <1>1, <1>5, <1>6

\* The second half of an entry under way is not on the sink.
LEMMA NotYetWhole ==
    ASSUME AuditInv, NEW h \in Handlers, pc[h] \in {"lock", "write"},
           NEW i \in DOMAIN sink, sink[i].of = Entry(h)
    PROVE  sink[i].half # 2
<1> SUFFICES ASSUME sink[i].half = 2 PROVE FALSE
  OBVIOUS
<1>0. Len(sink) \in Nat /\ DOMAIN sink = 1..Len(sink) /\ part[h] \in {1, 2}
  BY DEF AuditInv, TypeOK
<1>1. pc[h] = "write" /\ part[h] = 2
  BY <1>0 DEF AuditInv, HandlerInv
<1>2. Len(sink) > 0 /\ sink[Len(sink)].half = 1 /\ sink[Len(sink)].of = Entry(h)
  BY <1>1 DEF AuditInv, HandlerInv
<1>3. i > 1 /\ sink[i - 1].half = 1 /\ sink[i - 1].of = Entry(h)
  BY DEF AuditInv, SinkInv
<1>4. i - 1 \in DOMAIN sink /\ Len(sink) \in DOMAIN sink
  BY <1>0, <1>2, <1>3
<1>5. i - 1 = Len(sink)
  BY <1>2, <1>3, <1>4 DEF AuditInv, SinkInv
<1>6. QED
  BY <1>0, <1>5

\* The halves and the handlers around a first half.
LEMMA FirstInv ==
    ASSUME AuditInv, NEW h \in Handlers, WritePart(h), part[h] = 1
    PROVE  SinkInv' /\ HandlerInv' /\ TakenInv' /\ Ranked'
<1>0. /\ sink \in Seq(Piece) /\ sink' \in Seq(Piece) /\ n' = n
      /\ pc[h] = "write" /\ Entry(h) \in Submitted /\ Submitted' = Submitted
      /\ \A g \in Handlers : Entry(g)' = Entry(g)
      /\ Grown(Entry(h), 1) /\ part' = [part EXCEPT ![h] = 2] /\ pc' = pc /\ taken' = taken
  BY WriteCases
<1>1. PICK e, N : /\ e = Entry(h) /\ N \in Nat /\ N = Len(sink) /\ DOMAIN sink = 1..N
                  /\ Len(sink') = N + 1 /\ DOMAIN sink' = 1..(N + 1)
                  /\ \A i \in 1..N : sink'[i] = sink[i]
                  /\ sink'[N + 1].of = e /\ sink'[N + 1].half = 1
  <2>1. Len(sink) \in Nat /\ DOMAIN sink = 1..Len(sink) /\ DOMAIN sink' = 1..Len(sink')
    BY <1>0
  <2>2. QED
    BY <1>0, <2>1 DEF Grown
<1>2. \A i \in 1..N : sink[i].of # e
  BY <1>0, <1>1 DEF AuditInv, HandlerInv
<1>3. \A i \in 1..(N + 1) : i \in 1..N \/ i = N + 1
  BY <1>1
<1>4. SinkInv'
  <2>1. \A i \in 1..(N + 1) : sink'[i].half = 2 =>
           i > 1 /\ sink'[i - 1].half = 1 /\ sink'[i - 1].of = sink'[i].of
    <3> SUFFICES ASSUME NEW i \in 1..(N + 1), sink'[i].half = 2
                 PROVE  i > 1 /\ sink'[i - 1].half = 1 /\ sink'[i - 1].of = sink'[i].of
      OBVIOUS
    <3>1. i \in 1..N
      BY <1>1, <1>3
    <3>2. i > 1 /\ sink[i - 1].half = 1 /\ sink[i - 1].of = sink[i].of
      BY <1>1, <3>1 DEF AuditInv, SinkInv
    <3>3. i - 1 \in 1..N
      BY <1>1, <3>1, <3>2
    <3>4. QED
      BY <1>1, <3>1, <3>2, <3>3
  <2>2. \A i, j \in 1..(N + 1) :
           (sink'[i].of = sink'[j].of /\ sink'[i].half = sink'[j].half) => i = j
    <3>1. \A i, j \in 1..N :
             (sink[i].of = sink[j].of /\ sink[i].half = sink[j].half) => i = j
      BY <1>1 DEF AuditInv, SinkInv
    <3>2. \A i \in 1..N :
             ~(sink'[i].of = sink'[N + 1].of /\ sink'[i].half = sink'[N + 1].half)
      BY <1>1, <1>2
    <3>3. QED
      BY <1>1, <1>3, <3>1, <3>2
  <2>3. \A i \in 1..(N + 1) : sink'[i].of \in Submitted
    BY <1>0, <1>1, <1>3 DEF AuditInv, SinkInv
  <2>4. QED
    BY <1>0, <1>1, <2>1, <2>2, <2>3 DEF SinkInv
<1>5. HandlerInv'
  <2> SUFFICES ASSUME NEW g \in Handlers
      PROVE /\ pc[g] \in {"lock", "write"} => n[g] > 0
            /\ pc[g] = "lock" => part'[g] = 1
            /\ (pc[g] \in {"lock", "write"} /\ part'[g] = 1) =>
                  \A i \in 1..(N + 1) : sink'[i].of # Entry(g)
            /\ (pc[g] = "write" /\ part'[g] = 2) =>
                  N + 1 > 0 /\ sink'[N + 1].half = 1 /\ sink'[N + 1].of = Entry(g)
    BY <1>0, <1>1 DEF HandlerInv
  <2>1. CASE g = h
    BY <1>0, <1>1, <2>1 DEF AuditInv, TypeOK, HandlerInv
  <2>2. CASE g # h
    <3>1. part'[g] = part[g] /\ Entry(g) # e /\ pc[g] # "write"
      BY <1>0, <1>1, <2>2, Submissions, OneWriter DEF AuditInv, TypeOK
    <3>2. QED
      BY <1>1, <1>3, <3>1 DEF AuditInv, HandlerInv
  <2>3. QED
    BY <2>1, <2>2
<1>6. TakenInv'
  <2>1. ASSUME NEW f \in Entries
        PROVE  (\E i \in 1..(N + 1) : sink'[i].of = f /\ sink'[i].half = 2) <=>
               (\E i \in 1..N : sink[i].of = f /\ sink[i].half = 2)
    BY <1>1, <1>3
  <2>2. QED
    BY <1>0, <1>1, <2>1 DEF AuditInv, TakenInv
<1>7. Ranked'
  <2>1. Lines' = Lines
    BY <1>0, FirstHalf
  <2>2. Lines \in SUBSET (1..N)
    BY <1>0, <1>1, LinesFinite DEF Piece
  <2>3. QED
    BY <1>1, <2>1, <2>2, SameLines DEF AuditInv
<1>8. QED
  BY <1>4, <1>5, <1>6, <1>7

\* The halves and the handlers around a second half.
LEMMA SecondInv ==
    ASSUME AuditInv, NEW h \in Handlers, WritePart(h), part[h] = 2, TypeOK'
    PROVE  SinkInv' /\ HandlerInv' /\ TakenInv' /\ Ranked'
<1>0. /\ sink \in Seq(Piece) /\ sink' \in Seq(Piece) /\ n' = n
      /\ pc[h] = "write" /\ Entry(h) \in Submitted /\ Submitted' = Submitted
      /\ \A g \in Handlers : Entry(g)' = Entry(g)
      /\ Grown(Entry(h), 2) /\ part' = part /\ pc' = [pc EXCEPT ![h] = "idle"]
      /\ taken' = taken \cup {Entry(h)}
  BY WriteCases
<1>1. PICK e, N : /\ e = Entry(h) /\ N \in Nat /\ N = Len(sink) /\ DOMAIN sink = 1..N
                  /\ Len(sink') = N + 1 /\ DOMAIN sink' = 1..(N + 1)
                  /\ \A i \in 1..N : sink'[i] = sink[i]
                  /\ sink'[N + 1].of = e /\ sink'[N + 1].half = 2
  <2>1. Len(sink) \in Nat /\ DOMAIN sink = 1..Len(sink) /\ DOMAIN sink' = 1..Len(sink')
    BY <1>0
  <2>2. QED
    BY <1>0, <2>1 DEF Grown
<1>2. \A i \in 1..N : sink[i].of = e => sink[i].half # 2
  BY <1>0, <1>1, NotYetWhole
<1>3. \A i \in 1..(N + 1) : i \in 1..N \/ i = N + 1
  BY <1>1
<1>4. N > 0 /\ N \in 1..N /\ sink[N].half = 1 /\ sink[N].of = e
  BY <1>0, <1>1 DEF AuditInv, HandlerInv
<1>5. SinkInv'
  <2>1. \A i \in 1..(N + 1) : sink'[i].half = 2 =>
           i > 1 /\ sink'[i - 1].half = 1 /\ sink'[i - 1].of = sink'[i].of
    <3> SUFFICES ASSUME NEW i \in 1..(N + 1), sink'[i].half = 2
                 PROVE  i > 1 /\ sink'[i - 1].half = 1 /\ sink'[i - 1].of = sink'[i].of
      OBVIOUS
    <3>1. CASE i = N + 1
      <4>1. i > 1 /\ i - 1 = N
        BY <1>1, <1>4, <3>1
      <4>2. QED
        BY <1>1, <1>4, <3>1, <4>1
    <3>2. CASE i \in 1..N
      <4>1. i > 1 /\ sink[i - 1].half = 1 /\ sink[i - 1].of = sink[i].of
        BY <1>1, <3>2 DEF AuditInv, SinkInv
      <4>2. i - 1 \in 1..N
        BY <1>1, <3>2, <4>1
      <4>3. QED
        BY <1>1, <3>2, <4>1, <4>2
    <3>3. QED
      BY <1>3, <3>1, <3>2
  <2>2. \A i, j \in 1..(N + 1) :
           (sink'[i].of = sink'[j].of /\ sink'[i].half = sink'[j].half) => i = j
    <3>1. \A i, j \in 1..N :
             (sink[i].of = sink[j].of /\ sink[i].half = sink[j].half) => i = j
      BY <1>1 DEF AuditInv, SinkInv
    <3>2. \A i \in 1..N :
             ~(sink'[i].of = sink'[N + 1].of /\ sink'[i].half = sink'[N + 1].half)
      BY <1>1, <1>2
    <3>3. QED
      BY <1>1, <1>3, <3>1, <3>2
  <2>3. \A i \in 1..(N + 1) : sink'[i].of \in Submitted
    BY <1>0, <1>1, <1>3 DEF AuditInv, SinkInv
  <2>4. QED
    BY <1>0, <1>1, <2>1, <2>2, <2>3 DEF SinkInv
<1>6. HandlerInv'
  <2> SUFFICES ASSUME NEW g \in Handlers, pc'[g] \in {"lock", "write"}
      PROVE /\ n[g] > 0
            /\ pc'[g] = "lock" => part[g] = 1
            /\ part[g] = 1 => \A i \in 1..(N + 1) : sink'[i].of # Entry(g)
            /\ ~(pc'[g] = "write" /\ part[g] = 2)
    BY <1>0, <1>1 DEF HandlerInv
  <2>1. g # h /\ pc'[g] = pc[g]
    BY <1>0 DEF AuditInv, TypeOK
  <2>2. Entry(g) # e /\ pc[g] # "write"
    BY <1>0, <1>1, <2>1, Submissions, OneWriter DEF AuditInv, TypeOK
  <2>3. QED
    BY <1>1, <1>3, <2>1, <2>2 DEF AuditInv, HandlerInv
<1>7. TakenInv'
  <2> SUFFICES ASSUME NEW f \in Entries
               PROVE  f \in taken' <=>
                      \E i \in 1..(N + 1) : sink'[i].of = f /\ sink'[i].half = 2
    BY <1>1 DEF TakenInv
  <2>1. (\E i \in 1..(N + 1) : sink'[i].of = f /\ sink'[i].half = 2) <=>
           ((\E i \in 1..N : sink[i].of = f /\ sink[i].half = 2) \/ f = e)
    BY <1>1, <1>3
  <2>2. QED
    BY <1>0, <1>1, <2>1 DEF AuditInv, TakenInv
<1>8. Ranked'
  <2>1. Lines \in SUBSET (1..N)
    BY <1>0, <1>1, LinesFinite DEF Piece
  <2>2. \A i \in Lines : i < N
    BY <1>0, <1>1, <2>1, LinesAre DEF LineIs
  <2>3. Lines' = Lines \cup {N} \/ Lines' = Lines
    BY <1>0, <1>1, <1>4, SecondHalf
  <2>4. CASE Lines' = Lines \cup {N}
    BY <1>1, <2>1, <2>2, <2>4, OneMoreLine DEF AuditInv
  <2>5. CASE Lines' = Lines
    BY <1>1, <2>1, <2>5, SameLines DEF AuditInv
  <2>6. QED
    BY <2>3, <2>4, <2>5
<1>9. QED
  BY <1>5, <1>6, <1>7, <1>8

\* A new, empty file.
LEMMA InitInv == Init => AuditInv
<1> SUFFICES ASSUME Init PROVE AuditInv
  OBVIOUS
<1>1. TypeOK
  <2>1. failed \in BOOLEAN /\ backed \in BOOLEAN /\ open \in BOOLEAN /\ up \in BOOLEAN
    BY Zenon DEF Init
  <2>2. /\ sink \in Seq([of : Entries, half : {1, 2}])
        /\ pc \in [Handlers -> {"idle", "lock", "write", "report"}]
        /\ n \in [Handlers -> 0..MaxLogs] /\ part \in [Handlers -> {1, 2}]
        /\ mu \in Handlers \cup {Free}
        /\ \A h \in Handlers : mu = h <=> pc[h] = "write"
        /\ starts \in 0..MaxRestarts /\ taken \subseteq Entries
    BY AuditorAssumption DEF Init
  <2>3. QED
    BY <2>1, <2>2 DEF TypeOK
<1>2. SinkInv /\ HandlerInv /\ TakenInv
  BY DEF Init, SinkInv, HandlerInv, TakenInv
<1>3. Ranked
  <2>1. Lines = {}
    BY DEF Init, Lines
  <2>2. QED
    BY <2>1, FS_EmptySet DEF Ranked
<1>4. QED
  BY <1>1, <1>2, <1>3 DEF AuditInv

\* The mutex and the writer go together, step by step.
LEMMA TypeStep == AuditInv /\ [Next]_vars => TypeOK'
<1> SUFFICES ASSUME AuditInv, [Next]_vars PROVE TypeOK'
  OBVIOUS
<1>0. TypeOK
  BY DEF AuditInv
<1>1. ASSUME NEW h \in Handlers, Log(h) PROVE TypeOK'
  BY <1>0, <1>1, AuditorAssumption DEF TypeOK, Log, Goto, auditorVars, processVars
<1>2. ASSUME NEW h \in Handlers, Lock(h) PROVE TypeOK'
  BY <1>0, <1>2, AuditorAssumption DEF TypeOK, Lock, Goto, processVars
<1>3. ASSUME NEW h \in Handlers, WritePart(h) PROVE TypeOK'
  <2>1. sink' \in Seq([of : Entries, half : {1, 2}]) /\ Entry(h) \in Entries /\ pc[h] = "write"
    BY <1>3, WriteCases DEF Piece
  <2>2. CASE part[h] = 1
    <3>1. part' = [part EXCEPT ![h] = 2] /\ UNCHANGED <<pc, mu, taken, n, failed, backed, open, up, starts>>
      BY <1>3, <2>2 DEF WritePart, processVars
    <3>2. QED
      BY <1>0, <2>1, <3>1 DEF TypeOK
  <2>3. CASE part[h] = 2
    <3>1. /\ taken' = taken \cup {Entry(h)} /\ mu' = Free /\ pc' = [pc EXCEPT ![h] = "idle"]
          /\ UNCHANGED <<part, n, failed, backed, open, up, starts>>
      BY <1>3, <2>3 DEF WritePart, processVars, Goto
    <3>2. QED
      BY <1>0, <2>1, <3>1, AuditorAssumption DEF TypeOK
  <2>4. QED
    BY <1>0, <2>2, <2>3 DEF TypeOK
<1>4. ASSUME NEW h \in Handlers, WriteFails(h) PROVE TypeOK'
  BY <1>0, <1>4, AuditorAssumption DEF TypeOK, WriteFails, Goto, processVars
<1>5. ASSUME NEW h \in Handlers, reportFailure(h) PROVE TypeOK'
  BY <1>0, <1>5, AuditorAssumption DEF TypeOK, reportFailure, Goto, processVars
<1>6. ASSUME Close PROVE TypeOK'
  BY <1>0, <1>6 DEF TypeOK, Close, handlerVars, auditorVars
<1>7. ASSUME Die PROVE TypeOK'
  BY <1>0, <1>7, AuditorAssumption DEF TypeOK, Die
<1>8. ASSUME NewAuditor PROVE TypeOK'
  <2>1. failed' \in BOOLEAN /\ open' \in BOOLEAN /\ up' \in BOOLEAN
    BY <1>8, Zenon DEF NewAuditor, Fresh
  <2>2. /\ starts < MaxRestarts /\ starts' = starts + 1
        /\ UNCHANGED <<sink, pc, n, part, mu, backed, taken>>
    BY <1>8 DEF NewAuditor, Fresh, handlerVars
  <2>3. starts' \in 0..MaxRestarts
    BY <1>0, <2>2, AuditorAssumption DEF TypeOK
  <2>4. QED
    BY <1>0, <2>1, <2>2, <2>3 DEF TypeOK
<1>9. ASSUME UNCHANGED vars PROVE TypeOK'
  BY <1>0, <1>9 DEF TypeOK, vars
<1>10. QED
  BY <1>1, <1>2, <1>3, <1>4, <1>5, <1>6, <1>7, <1>8, <1>9 DEF Next, LogStep, Over

\* Steps that move no handler, or end them all, keep the rest.
LEMMA StillInv ==
    ASSUME AuditInv, UNCHANGED <<sink, n, part, taken>>,
           \A h \in Handlers : pc'[h] = pc[h] \/ pc'[h] = "idle"
    PROVE  SinkInv' /\ HandlerInv' /\ TakenInv' /\ Ranked'
<1>1. SinkInv'
  BY DEF AuditInv, SinkInv, Submitted
<1>2. HandlerInv'
  BY DEF AuditInv, HandlerInv, Entry
<1>3. TakenInv'
  BY DEF AuditInv, TakenInv
<1>4. Ranked'
  <2>1. Lines' = Lines
    BY DEF Lines, LineAt
  <2>2. QED
    BY <2>1, SameLines DEF AuditInv
<1>5. QED
  BY <1>1, <1>2, <1>3, <1>4

\* Each action keeps the invariant.
LEMMA InvStep == AuditInv /\ [Next]_vars => AuditInv'
<1> SUFFICES ASSUME AuditInv, [Next]_vars PROVE AuditInv'
  OBVIOUS
<1> DEFINE Rest == SinkInv' /\ HandlerInv' /\ TakenInv' /\ Ranked'
<1>0. TypeOK'
  BY TypeStep
<1>1. ASSUME NEW h \in Handlers, Log(h) PROVE Rest
  BY <1>1, LogInv
<1>2. ASSUME NEW h \in Handlers, Lock(h) PROVE Rest
  <2>1. Moves(h, "write") /\ pc[h] = "lock"
    BY <1>2 DEF Lock, Moves, Goto
  <2>2. QED
    BY <2>1, MovesInv
<1>3. ASSUME NEW h \in Handlers, WritePart(h) PROVE Rest
  <2>1. part[h] = 1 \/ part[h] = 2
    BY DEF AuditInv, TypeOK
  <2>2. QED
    BY <1>0, <1>3, <2>1, FirstInv, SecondInv
<1>4. ASSUME NEW h \in Handlers, WriteFails(h) PROVE Rest
  <2>1. Moves(h, "report")
    BY <1>4 DEF WriteFails, Moves, Goto
  <2>2. QED
    BY <2>1, MovesInv
<1>5. ASSUME NEW h \in Handlers, reportFailure(h) PROVE Rest
  <2>1. Moves(h, "idle")
    BY <1>5 DEF reportFailure, Moves, Goto
  <2>2. QED
    BY <2>1, MovesInv
<1>6. ASSUME Close PROVE Rest
  BY <1>6, StillInv DEF Close, handlerVars
<1>7. ASSUME Die PROVE Rest
  BY <1>7, StillInv DEF Die
<1>8. ASSUME NewAuditor PROVE Rest
  BY <1>8, StillInv DEF NewAuditor, handlerVars
<1>9. ASSUME UNCHANGED vars PROVE Rest
  BY <1>9, StillInv DEF vars
<1>10. Rest
  <2> HIDE DEF Rest
  <2>1. QED
    BY <1>1, <1>2, <1>3, <1>4, <1>5, <1>6, <1>7, <1>8, <1>9 DEF Next, LogStep, Over
<1>11. QED
  BY <1>0, <1>10 DEF AuditInv

\* The inductive invariant of the audit log: the order of the halves on the
\* sink, what each Log under way has written, and which entries Write took.
THEOREM AuditInvHolds == Spec => []AuditInv
BY InitInv, InvStep, PTL DEF Spec

\* The mutex of the auditor is held exactly while a handler writes a line,
\* whatever fails, is closed or dies (Log, reportFailure).
THEOREM AuditorTypeCorrect == Spec => []TypeOK
<1>1. AuditInv => TypeOK
  BY DEF AuditInv
<1>2. QED
  BY <1>1, AuditInvHolds, PTL

--------------------------------------------------------------------------
(* The trail that a reader finds *)

\* Nothing under way can be read yet, and it was all submitted.
LEMMA PendingFacts ==
    ASSUME AuditInv
    PROVE  /\ Pending \subseteq Submitted /\ Submitted \subseteq Entries
           /\ \A e \in Pending : e \notin ToSet(Readable)
<1>0. n \in [Handlers -> 0..MaxLogs] /\ sink \in Seq(Piece)
  BY DEF AuditInv, TypeOK, Piece
<1>1. Submitted \subseteq Entries
  BY <1>0, Submissions
<1>2. Pending \subseteq Submitted
  BY <1>0, Submissions DEF AuditInv, HandlerInv, Pending
<1>3. ASSUME NEW h \in Handlers, pc[h] \in {"lock", "write"}
      PROVE  Entry(h) \notin ToSet(Readable)
  <2>1. ASSUME NEW i \in Lines PROVE sink[i].of # Entry(h)
    <3>1. i + 1 \in DOMAIN sink /\ sink[i + 1].half = 2 /\ sink[i + 1].of = sink[i].of
      BY <1>0, <2>1, LinesAre DEF LineIs
    <3>2. QED
      BY <1>3, <3>1, NotYetWhole
  <2>2. QED
    BY <2>1, ReadableSet DEF AuditInv
<1>4. QED
  BY <1>1, <1>2, <1>3 DEF Pending

\* What the trail of Ledger takes for lost.
Given == Submitted \ (Pending \cup ToSet(Readable))

\* A step that reads nothing new and ends no Log leaves the trail alone.
LEMMA QuietTrail ==
    ASSUME Readable' = Readable, Given' = Given
    PROVE  UNCHANGED Trail!vars
BY DEF Trail!vars, Given

\* A step that ends the Logs of E, of which no line can be read, loses E.
LEMMA LosesTrail ==
    ASSUME AuditInv, NEW E \in SUBSET Pending, Readable' = Readable,
           Submitted' = Submitted, Pending' = Pending \ E
    PROVE  Trail!Next
<1>1. Given' = Given \cup E
  <2>1. ToSet(Readable') = ToSet(Readable)
    OBVIOUS
  <2>2. QED
    BY <2>1, PendingFacts DEF Given
<1>2. E \in SUBSET Trail!Undecided
  BY PendingFacts DEF Trail!Undecided, Trail!ToSet, ToSet
<1>3. Trail!Lose(E)
  BY <1>1 DEF Trail!Lose, Given
<1>4. QED
  BY <1>2, <1>3 DEF Trail!Next

\* A step after which the line of e can be read records e.
LEMMA RecordsTrail ==
    ASSUME AuditInv, AuditInv', NEW e \in Pending, Readable' = Append(Readable, e),
           Lines' = Lines \cup {Len(sink)}, sink'[Len(sink)].of = e,
           \A i \in Lines : sink'[i] = sink[i],
           Submitted' = Submitted, Pending' = Pending \ {e}
    PROVE  Trail!Next
<1>1. ToSet(Readable)' = ToSet(Readable) \cup {e}
  <2>1. (TypeOK /\ Ranked => ToSet(Readable) = {sink[i].of : i \in Lines})'
    BY ReadableSet, PTL
  <2>2. ToSet(Readable) = {sink[i].of : i \in Lines}
    BY ReadableSet DEF AuditInv
  <2>3. QED
    BY <2>1, <2>2 DEF AuditInv
<1>2. Given' = Given
  BY <1>1 DEF Given
<1>3. e \in Trail!Undecided
  BY PendingFacts DEF Trail!Undecided, Trail!ToSet, ToSet
<1>4. Trail!Record(e)
  BY <1>2 DEF Trail!Record, Given
<1>5. QED
  BY <1>3, <1>4 DEF Trail!Next

\* What is pending when one handler moves.
LEMMA PendingMoves ==
    ASSUME TypeOK, n' = n, NEW h \in Handlers, NEW to, pc' = [pc EXCEPT ![h] = to],
           pc[h] \in {"lock", "write"}
    PROVE  /\ Submitted' = Submitted /\ Entry(h) \in Pending
           /\ to \in {"lock", "write"} => Pending' = Pending
           /\ to \notin {"lock", "write"} => Pending' = Pending \ {Entry(h)}
<1>0. /\ pc \in [Handlers -> {"idle", "lock", "write", "report"}] /\ n \in [Handlers -> 0..MaxLogs]
  BY DEF TypeOK
<1>1. Submitted' = Submitted /\ \A g \in Handlers : Entry(g)' = Entry(g)
  BY DEF Submitted, Entry
<1>2. \A e : e \in Pending <=> \E g \in Handlers : pc[g] \in {"lock", "write"} /\ e = Entry(g)
  BY DEF Pending
<1>3. \A e : e \in Pending' <=> \E g \in Handlers : pc'[g] \in {"lock", "write"} /\ e = Entry(g)
  BY <1>1 DEF Pending
<1>4. \A g \in Handlers : pc'[g] = IF g = h THEN to ELSE pc[g]
  BY <1>0
<1>5. Entry(h) \in Pending
  BY <1>2
<1>6. to \in {"lock", "write"} => Pending' = Pending
  BY <1>2, <1>3, <1>4
<1>7. ASSUME to \notin {"lock", "write"} PROVE Pending' = Pending \ {Entry(h)}
  <2>1. \A g \in Handlers : Entry(g) = Entry(h) => g = h
    BY <1>0, Submissions
  <2>2. QED
    BY <1>2, <1>3, <1>4, <1>7, <2>1
<1>8. QED
  BY <1>1, <1>5, <1>6, <1>7

\* With the same sink a reader finds the same.
LEMMA SameSink ==
    ASSUME sink' = sink
    PROVE  Readable' = Readable /\ ToSet(Readable)' = ToSet(Readable)
<1>1. Lines' = Lines
  BY DEF Lines, LineAt
<1>2. \A i : Rank(i)' = Rank(i)
  BY <1>1 DEF Rank
<1>3. \A k : Nth(k)' = Nth(k)
  BY <1>1, <1>2 DEF Nth
<1>4. Readable' = Readable
  BY <1>1, <1>3 DEF Readable
<1>5. QED
  BY <1>4

\* Every step of the audit log is a step of the trail or leaves it alone.
LEMMA TrailStep == AuditInv /\ AuditInv' /\ [Next]_vars => [Trail!Next]_Trail!vars
<1> SUFFICES ASSUME AuditInv, AuditInv', [Next]_vars PROVE [Trail!Next]_Trail!vars
  OBVIOUS
<1>0. TypeOK /\ n \in [Handlers -> 0..MaxLogs] /\ sink \in Seq(Piece)
  BY DEF AuditInv, TypeOK, Piece
<1>1. ASSUME NEW h \in Handlers, Log(h) PROVE UNCHANGED Trail!vars
  <2>1. PICK x : x = <<h, n[h] + 1>>
    OBVIOUS
  <2>2. /\ pc \in [Handlers -> {"idle", "lock", "write", "report"}] /\ pc[h] = "idle"
        /\ n' = [n EXCEPT ![h] = n[h] + 1] /\ pc' = [pc EXCEPT ![h] = "lock"] /\ sink' = sink
    BY <1>0, <1>1 DEF TypeOK, Log, Goto
  <2>3. \A g \in Handlers : Entry(g)' = IF g = h THEN x ELSE Entry(g)
    BY <1>0, <2>1, <2>2 DEF Entry
  <2>4. Pending' = Pending \cup {x}
    BY <2>2, <2>3 DEF Pending
  <2>5. Submitted' = Submitted \cup {x} /\ x \notin Submitted
    <3>1. \A g \in Handlers : n[g] \in Nat /\ n'[g] = IF g = h THEN n[h] + 1 ELSE n[g]
      BY <1>0, <2>2
    <3>2. \A e : e \in Submitted <=> \E g \in Handlers : \E i \in 1..n[g] : e = <<g, i>>
      BY DEF Submitted
    <3>3. \A e : e \in Submitted' <=> \E g \in Handlers : \E i \in 1..n'[g] : e = <<g, i>>
      BY DEF Submitted
    <3>4. Submitted' = Submitted \cup {x}
      BY <2>1, <3>1, <3>2, <3>3
    <3>5. QED
      BY <1>0, <2>1, <3>4, Submissions
  <2>6. Given' = Given
    BY <2>2, <2>4, <2>5, SameSink DEF Given
  <2>7. QED
    BY <2>2, <2>6, SameSink, QuietTrail
<1>2. ASSUME NEW h \in Handlers, Lock(h) PROVE UNCHANGED Trail!vars
  <2>1. sink' = sink /\ Submitted' = Submitted /\ Pending' = Pending
    BY <1>0, <1>2, PendingMoves DEF Lock, Goto
  <2>2. QED
    BY <2>1, SameSink, QuietTrail DEF Given
<1>3. ASSUME NEW h \in Handlers, WritePart(h), part[h] = 1 PROVE UNCHANGED Trail!vars
  <2>1. /\ sink' \in Seq(Piece) /\ Grown(Entry(h), 1) /\ n' = n /\ pc' = pc
    BY <1>3, WriteCases
  <2>2. Lines' = Lines
    BY <1>0, <2>1, FirstHalf
  <2>3. Lines \in SUBSET (1..Len(sink))
    BY <1>0, LinesFinite DEF Piece
  <2>4. Readable' = Readable
    BY <2>1, <2>2, <2>3, SameLines DEF AuditInv, Grown
  <2>5. Submitted' = Submitted /\ Pending' = Pending
    BY <2>1 DEF Submitted, Pending, Entry
  <2>6. Given' = Given
    BY <2>4, <2>5 DEF Given
  <2>7. QED
    BY <2>4, <2>6, QuietTrail
<1>4. ASSUME NEW h \in Handlers, WritePart(h), part[h] = 2 PROVE Trail!Next
  <2>1. PICK e, N : e = Entry(h) /\ N = Len(sink)
    OBVIOUS
  <2>2. /\ sink' \in Seq(Piece) /\ Grown(e, 2) /\ n' = n /\ pc[h] = "write"
        /\ pc' = [pc EXCEPT ![h] = "idle"]
    BY <1>4, <2>1, WriteCases
  <2>3. Submitted' = Submitted /\ e \in Pending /\ Pending' = Pending \ {e}
    <3>1. PICK to : to = "idle" /\ to \notin {"lock", "write"} /\ pc' = [pc EXCEPT ![h] = to]
      BY <2>2
    <3>2. QED
      BY <1>0, <2>1, <2>2, <3>1, PendingMoves
  <2>4. N \in Nat /\ N > 0 /\ sink[N].half = 1 /\ sink[N].of = e
    BY <1>0, <1>4, <2>1, <2>2 DEF AuditInv, HandlerInv
  <2>5. Lines \in SUBSET (1..N) /\ \A i \in Lines : i < N
    BY <1>0, <2>1, LinesFinite, LinesAre DEF Piece, LineIs
  <2>6. \A i \in 1..N : sink'[i] = sink[i]
    BY <2>1, <2>2 DEF Grown
  <2>7. Lines' = Lines \cup {N} \/ Lines' = Lines
    BY <1>0, <2>1, <2>2, <2>4, SecondHalf
  <2>8. CASE Lines' = Lines \cup {N}
    <3>1. sink'[N].of = e
      BY <2>4, <2>6
    <3>2. Readable' = Append(Readable, sink'[N].of)
      BY <2>4, <2>5, <2>6, <2>8, OneMoreLine DEF AuditInv
    <3>3. QED
      BY <2>1, <2>3, <2>5, <2>6, <2>8, <3>1, <3>2, RecordsTrail
  <2>9. CASE Lines' = Lines
    <3>1. Readable' = Readable
      BY <2>5, <2>6, <2>9, SameLines DEF AuditInv
    <3>2. QED
      BY <2>3, <3>1, LosesTrail
  <2>10. QED
    BY <2>7, <2>8, <2>9
<1>5. ASSUME NEW h \in Handlers, WriteFails(h) PROVE Trail!Next
  <2>1. PICK e : e = Entry(h)
    OBVIOUS
  <2>2. sink' = sink /\ Submitted' = Submitted /\ e \in Pending /\ Pending' = Pending \ {e}
    <3>1. PICK to : to = "report" /\ to \notin {"lock", "write"} /\ pc' = [pc EXCEPT ![h] = to]
      BY <1>5 DEF WriteFails, Goto
    <3>2. sink' = sink /\ n' = n /\ pc[h] = "write"
      BY <1>5 DEF WriteFails
    <3>3. QED
      BY <1>0, <2>1, <3>1, <3>2, PendingMoves
  <2>3. QED
    BY <2>2, SameSink, LosesTrail
<1>6. ASSUME NEW h \in Handlers, reportFailure(h) PROVE UNCHANGED Trail!vars
  <2>1. sink' = sink /\ n' = n /\ pc[h] = "report" /\ pc' = [pc EXCEPT ![h] = "idle"]
    BY <1>6 DEF reportFailure, Goto
  <2>2. Submitted' = Submitted /\ \A g \in Handlers : Entry(g)' = Entry(g)
    BY <2>1 DEF Submitted, Entry
  <2>3. \A g \in Handlers : pc'[g] \in {"lock", "write"} <=> pc[g] \in {"lock", "write"}
    BY <1>0, <2>1 DEF TypeOK
  <2>4. Pending' = Pending
    BY <2>2, <2>3 DEF Pending
  <2>5. QED
    BY <2>1, <2>2, <2>4, SameSink, QuietTrail DEF Given
<1>7. ASSUME UNCHANGED <<sink, pc, n>> PROVE UNCHANGED Trail!vars
  <2>1. Submitted' = Submitted /\ Pending' = Pending
    BY <1>7 DEF Submitted, Pending, Entry
  <2>2. QED
    BY <1>7, <2>1, SameSink, QuietTrail DEF Given
<1>8. ASSUME Die PROVE Trail!Next
  <2>1. PICK E \in SUBSET Pending : E = Pending
    OBVIOUS
  <2>2. sink' = sink /\ Submitted' = Submitted /\ Pending' = {}
    BY <1>8 DEF Die, Submitted, Pending
  <2>3. QED
    BY <2>1, <2>2, SameSink, LosesTrail
<1>9. \A h \in Handlers : part[h] = 1 \/ part[h] = 2
  BY <1>0 DEF TypeOK
<1>10. (Close \/ NewAuditor \/ Over \/ UNCHANGED vars) => UNCHANGED <<sink, pc, n>>
  BY DEF Close, NewAuditor, Over, vars, handlerVars
<1>11. QED
  BY <1>1, <1>2, <1>3, <1>4, <1>5, <1>6, <1>7, <1>8, <1>9, <1>10 DEF Next, LogStep

\* The file is the trail that Ledger asks for: a line that can be read stays
\* where it is, an entry is recorded once or lost for good, and an entry
\* that Write, Close or the end of the process gave up never turns up (Log,
\* Close, NewAuditor).
THEOREM AuditorKeepsTrail == Spec => LedgerSpec
<1>1. Init => Trail!Init
  <2> SUFFICES ASSUME Init PROVE Trail!Init
    OBVIOUS
  <2>1. Lines = {}
    BY DEF Init, Lines
  <2>2. Cardinality(Lines) = 0
    BY <2>1, FS_EmptySet
  <2>3. Readable = <<>>
    BY <2>2 DEF Readable
  <2>4. Submitted = {}
    BY DEF Init, Submitted
  <2>5. QED
    BY <2>3, <2>4 DEF Trail!Init
<1>2. QED
  BY <1>1, AuditInvHolds, TrailStep, PTL DEF Spec, LedgerSpec, Trail!Spec

--------------------------------------------------------------------------
(* What a torn line costs *)

\* Place i holds the first half of a torn line, and the line that follows,
\* that of e, was appended to it.
Spoils(i, e) ==
    /\ i \in DOMAIN sink /\ i + 1 \in DOMAIN sink /\ i + 2 \in DOMAIN sink
    /\ sink[i].half = 1 /\ sink[i + 1].half = 1
    /\ sink[i + 2].half = 2 /\ sink[i + 2].of = e

\* An entry that Write took and that cannot be read was appended to a torn line.
LEMMA SpoiltByOne ==
    ASSUME AuditInv, NEW e \in taken \ ToSet(Readable)
    PROVE  \E i \in Nat : Spoils(i, e)
<1>0. sink \in Seq(Piece) /\ e \in Entries
  BY DEF AuditInv, TypeOK, Piece
<1>1. Len(sink) \in Nat /\ DOMAIN sink = 1..Len(sink) /\ \A i \in DOMAIN sink : sink[i].half \in {1, 2}
  BY <1>0, SinkShape
<1>2. PICK j \in DOMAIN sink : sink[j].of = e /\ sink[j].half = 2
  BY <1>0 DEF AuditInv, TakenInv
<1>3. j > 1 /\ sink[j - 1].half = 1 /\ sink[j - 1].of = e
  BY <1>2 DEF AuditInv, SinkInv
<1>4. j - 1 \in 1..Len(sink) /\ (j - 1) + 1 = j /\ j - 1 < Len(sink)
  BY <1>1, <1>3
<1>5. j - 1 \notin Lines
  BY <1>3, ReadableSet DEF AuditInv
<1>6. ~LineIs(j - 1)
  BY <1>0, <1>4, <1>5, LinesAre
<1>7. j - 1 # 1 /\ sink[(j - 1) - 1].half # 2
  BY <1>2, <1>3, <1>4, <1>6 DEF LineIs
<1>8. PICK i \in Nat : i = j - 2 /\ i = (j - 1) - 1 /\ i + 1 = j - 1 /\ i + 2 = j /\ i \in 1..Len(sink)
  BY <1>1, <1>4, <1>7
<1>9. sink[i].half = 1
  BY <1>1, <1>7, <1>8
<1>10. QED
  BY <1>1, <1>2, <1>3, <1>4, <1>8, <1>9 DEF Spoils

\* The line before it is torn for good.
LEMMA SpoilerIsTorn ==
    ASSUME AuditInv, NEW e, NEW i \in Nat, Spoils(i, e)
    PROVE  sink[i].of \in Torn
<1>0. /\ Len(sink) \in Nat /\ DOMAIN sink = 1..Len(sink)
      /\ i \in DOMAIN sink /\ i + 2 \in DOMAIN sink /\ sink[i].half = 1 /\ sink[i + 1].half = 1
  BY DEF AuditInv, TypeOK, Spoils
<1>1. sink[i].of \in Submitted /\ sink[i].of \in Entries
  BY <1>0, PendingFacts DEF AuditInv, SinkInv
<1>2. sink[i].of \notin taken
  <2> SUFFICES ASSUME sink[i].of \in taken PROVE FALSE
    OBVIOUS
  <2>1. PICK j \in DOMAIN sink : sink[j].of = sink[i].of /\ sink[j].half = 2
    BY <1>1 DEF AuditInv, TakenInv
  <2>2. j > 1 /\ sink[j - 1].half = 1 /\ sink[j - 1].of = sink[i].of
    BY <2>1 DEF AuditInv, SinkInv
  <2>3. j - 1 \in DOMAIN sink
    BY <1>0, <2>2
  <2>4. j - 1 = i
    BY <1>0, <2>2, <2>3 DEF AuditInv, SinkInv
  <2>5. j = i + 1
    BY <1>0, <2>4
  <2>6. QED
    BY <1>0, <2>1, <2>5
<1>3. sink[i].of \notin Pending
  <2> SUFFICES ASSUME NEW h \in Handlers, pc[h] \in {"lock", "write"}, sink[i].of = Entry(h)
               PROVE  FALSE
    BY DEF Pending
  <2>1. part[h] = 2 /\ pc[h] = "write"
    BY <1>0 DEF AuditInv, HandlerInv, TypeOK
  <2>2. Len(sink) > 0 /\ sink[Len(sink)].half = 1 /\ sink[Len(sink)].of = sink[i].of
    BY <2>1 DEF AuditInv, HandlerInv
  <2>3. Len(sink) \in DOMAIN sink
    BY <1>0, <2>2
  <2>4. i = Len(sink)
    BY <1>0, <2>2, <2>3 DEF AuditInv, SinkInv
  <2>5. QED
    BY <1>0, <2>4
<1>4. QED
  BY <1>0, <1>1, <1>2, <1>3 DEF Torn

\* Each torn line spoils the one entry that comes after it.
LEMMA TornCount ==
    ASSUME AuditInv
    PROVE  TornSpoilsOne
<1> DEFINE S == taken \ ToSet(Readable)
           at(e) == CHOOSE i \in Nat : Spoils(i, e)
           f == [e \in S |-> sink[at(e)].of]
<1>0. Len(sink) \in Nat /\ DOMAIN sink = 1..Len(sink)
  BY DEF AuditInv, TypeOK
<1>1. ASSUME NEW e \in S PROVE at(e) \in Nat /\ Spoils(at(e), e) /\ f[e] = sink[at(e)].of
  BY <1>1, SpoiltByOne
<1>2. \A e \in S : f[e] \in Torn
  <2> HIDE DEF at, f, S
  <2>1. QED
    BY <1>1, SpoilerIsTorn
<1>3. ASSUME NEW d \in S, NEW e \in S, f[d] = f[e] PROVE d = e
  <2> HIDE DEF at, f, S
  <2>1. PICK i \in Nat : i = at(d) /\ Spoils(i, d) /\ f[d] = sink[i].of
    BY <1>1
  <2>2. PICK j \in Nat : j = at(e) /\ Spoils(j, e) /\ f[e] = sink[j].of
    BY <1>1
  <2>3. i = j
    <3>1. sink[i].of = sink[j].of
      BY <1>3, <2>1, <2>2
    <3>2. i \in DOMAIN sink /\ j \in DOMAIN sink /\ sink[i].half = 1 /\ sink[j].half = 1
      BY <2>1, <2>2 DEF Spoils
    <3>3. QED
      BY <3>1, <3>2 DEF AuditInv, SinkInv
  <2>4. QED
    BY <2>1, <2>2, <2>3 DEF Spoils
<1>4. IsFiniteSet(Torn)
  <2>1. IsFiniteSet(1..MaxLogs)
    BY AuditorAssumption, FS_Interval
  <2>2. IsFiniteSet(Entries)
    BY <2>1, AuditorAssumption, FS_Product DEF Entries
  <2>3. Torn \in SUBSET Entries
    BY PendingFacts DEF Torn
  <2>4. QED
    BY <2>2, <2>3, FS_Subset
<1>5. f \in Injection(S, Torn)
  <2>1. f \in [S -> Torn]
    BY <1>2
  <2>2. QED
    BY <1>3, <2>1 DEF Injection, IsInjective
<1>6. Cardinality(S) <= Cardinality(Torn)
  <2> HIDE DEF f, S
  <2>1. QED
    BY <1>4, <1>5, FS_Injection
<1>7. QED
  BY <1>6 DEF TornSpoilsOne

\* However many handlers log at once, fail, or die with the process, an
\* entry that Write took whole is unreadable only because it was appended to
\* a torn line, and no torn line spoils two (Log, NewAuditor).
THEOREM TornSpoilsOneHolds == Spec => []TornSpoilsOne
<1>1. AuditInv => TornSpoilsOne
  BY TornCount
<1>2. QED
  BY <1>1, AuditInvHolds, PTL
==========================================================================
