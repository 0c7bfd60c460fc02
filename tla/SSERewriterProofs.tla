------------------------- MODULE SSERewriterProofs -------------------------
(***************************************************************************)
(* Proofs about SSERewriter, for every cap, chunk size and stream.         *)
(***************************************************************************)
EXTENDS SSERewriter, TLAPS, SequenceTheorems

Symbols == {"T", "x", "r", "n", "R", "E"}

SSETypeOK ==
    /\ line \in Seq(Symbols) /\ ev \in Seq(Symbols) /\ others \in Seq(Symbols)
    /\ data \in Seq(Seq(Symbols)) /\ evSize \in Nat
    /\ mode \in {"lines", "raw", "discard"} /\ bstate \in {0, 1, 2}
    /\ out \in Seq(Symbols) /\ read \in 0..Len(out)
    /\ mid \in Nat /\ given \in Nat
    /\ rest \in Seq(Symbols) /\ closed \in Seq(Symbols)

\* What is buffered, and that evSize is the size of it.
BufferInv ==
    /\ evSize = Len(ev) /\ Len(ev) <= Cap
    /\ Len(line) + Len(ev) <= Cap + mid
    /\ mode # "lines" => line = <<>> /\ ev = <<>>

\* Whole lines, none of them blank: no boundary, and an end of line at the end.
Ending(s) == s # <<>> => s[Len(s)] = "n"

Whole(s) == Ending(s) /\ \A k \in DOMAIN s : ~Boundary(s, k)

\* One line, its end included.
IsLine(l) ==
    /\ l # <<>> /\ l[Len(l)] = "n"
    /\ \A k \in 1..(Len(l) - 1) : l[k] # "n"

\* s without the positions from i to j.
Without(s, i, j) == SubSeq(s, 1, i - 1) \o SubSeq(s, j + 1, Len(s))

\* d is the one data line of s, from i to j.
DataAt(s, d, i, j) ==
    /\ Starts(s) = {i}
    /\ i <= j /\ s[j] = "n" /\ \A k \in i..(j - 1) : s[k] # "n"
    /\ d = SubSeq(s, i, j)

\* What o and ds, the other lines and the data lines, have to do with s.
Sorted(s, o, ds) ==
    /\ Whole(o) /\ Starts(o) = {}
    /\ \/ Len(ds) = 0 /\ Starts(s) = {} /\ o = s
       \/ Len(ds) = 1 /\ \E i, j \in DOMAIN s : DataAt(s, ds[1], i, j) /\ o = Without(s, i, j)
       \/ Len(ds) > 1 /\ \E i, j \in Starts(s) : i # j

EventInv ==
    /\ \A k \in DOMAIN line : line[k] # "n"
    /\ Whole(ev) /\ Sorted(ev, others, data)

\* Where the boundary detector is, in an event above the cap.
DetectorInv ==
    LET k == Len(rest) IN
    /\ k > Cap
    /\ bstate = 1 <=> rest[k] = "n"
    /\ bstate = 2 => rest[k] = "r" /\ rest[k - 1] = "n" /\ k > Cap + 1
    /\ rest[k] = "r" /\ rest[k - 1] = "n" => bstate = 2 \/ (k = Cap + 1 /\ mid = 0)

\* What is out, and what is not, is what came in.
AgreeInv ==
    /\ mode = "lines" /\ ~done => out = closed /\ rest = ev \o line
    /\ mode = "lines" /\ done => out = closed \o rest /\ Len(rest) <= Cap
    /\ mode = "raw" => ~strict /\ out = closed \o rest /\ DetectorInv
    /\ mode = "discard" => strict /\ out = closed \o CapError /\ DetectorInv

HistoryInv ==
    /\ \A k \in DOMAIN rest : ~Boundary(rest, k)
    /\ exact \/ AgreeInv

\* No client finds in s a message that had to be replaced.
Hides(s) ==
    \A b \in 0..Len(s), e \in 1..Len(s) :
       Dispatched(s, b, e) => ~MustReplace(SubSeq(s, b + 1, e))

AtCut(s) == s = <<>> \/ Boundary(s, Len(s))

HideInv ==
    strict => /\ Hides(out) /\ (~done => AtCut(out))
              /\ mode # "raw"

SSEInv ==
    /\ SSETypeOK /\ BufferInv /\ EventInv /\ HistoryInv /\ HideInv
    /\ done => mid = 0
    /\ ended => done /\ read = Len(out)


--------------------------------------------------------------------------
(* Sequences, lines and boundaries *)

\* Small numbers.
LEMMA Small ==
    ASSUME NEW n \in Nat
    PROVE  /\ n = 0 \/ n = 1 \/ n = 2 \/ n > 2
           /\ n = 0 \/ n = 1 \/ n > 1
           /\ n = 0 \/ n > 0
           /\ n > 1 => n # 0 /\ n # 1
           /\ n > 0 => n # 0
OBVIOUS

\* What is where in a concatenation.
LEMMA ConcatFacts ==
    ASSUME NEW s \in Seq(Symbols), NEW t \in Seq(Symbols)
    PROVE  /\ s \o t \in Seq(Symbols) /\ Len(s \o t) = Len(s) + Len(t)
           /\ Len(s) \in Nat /\ Len(t) \in Nat
           /\ DOMAIN s = 1..Len(s) /\ DOMAIN t = 1..Len(t)
           /\ DOMAIN (s \o t) = 1..(Len(s) + Len(t))
           /\ \A k \in 1..Len(s) : (s \o t)[k] = s[k]
           /\ \A k \in 1..Len(t) : (s \o t)[Len(s) + k] = t[k]
           /\ s = <<>> <=> Len(s) = 0
<1>1. Len(s) \in Nat /\ Len(t) \in Nat /\ DOMAIN s = 1..Len(s) /\ DOMAIN t = 1..Len(t)
  BY LenProperties
<1>2. /\ s \o t \in Seq(Symbols) /\ Len(s \o t) = Len(s) + Len(t)
      /\ \A i \in 1..(Len(s) + Len(t)) : (s \o t)[i] = IF i <= Len(s) THEN s[i] ELSE t[i - Len(s)]
  BY ConcatProperties
<1>3. DOMAIN (s \o t) = 1..(Len(s) + Len(t))
  BY <1>2, LenProperties
<1>4. \A k \in 1..Len(t) : (s \o t)[Len(s) + k] = t[k]
  <2>1. TAKE k \in 1..Len(t)
  <2>2. Len(s) + k \in 1..(Len(s) + Len(t)) /\ ~(Len(s) + k <= Len(s)) /\ (Len(s) + k) - Len(s) = k
    BY <1>1
  <2>3. QED
    BY <1>2, <2>2
<1>5. s = <<>> <=> Len(s) = 0
  BY EmptySeq
<1>6. QED
  BY <1>1, <1>2, <1>3, <1>4, <1>5

\* Three pieces, joined either way.
LEMMA Assoc ==
    ASSUME NEW a \in Seq(Symbols), NEW b \in Seq(Symbols), NEW c \in Seq(Symbols)
    PROVE  (a \o b) \o c = a \o (b \o c)
<1>1. PICK S : S = Symbols
  OBVIOUS
<1>2. a \in Seq(S) /\ b \in Seq(S) /\ c \in Seq(S)
  BY <1>1
<1>3. QED
  BY ONLY <1>2, ConcatAssociative

\* Append is a concatenation.
LEMMA AppendFacts ==
    ASSUME NEW s \in Seq(Symbols), NEW c \in Symbols
    PROVE  /\ Append(s, c) \in Seq(Symbols) /\ Append(s, c) = s \o <<c>>
           /\ <<c>> \in Seq(Symbols)
           /\ Append(s, c) # <<>> /\ Len(Append(s, c)) = Len(s) + 1
           /\ \A k \in 1..Len(s) : Append(s, c)[k] = s[k]
           /\ Append(s, c)[Len(s) + 1] = c
           /\ DOMAIN Append(s, c) = 1..(Len(s) + 1)
<1>1. <<c>> \in Seq(Symbols)
  OBVIOUS
<1>2. QED
  BY <1>1, AppendProperties, AppendIsConcat, LenProperties

\* A symbol behind two pieces is behind the second one.
LEMMA AppendAssoc ==
    ASSUME NEW a \in Seq(Symbols), NEW b \in Seq(Symbols), NEW c \in Symbols
    PROVE  (a \o b) \o <<c>> = a \o (b \o <<c>>)
<1>1. PICK x \in Seq(Symbols) : x = <<c>>
  BY AppendFacts
<1>2. (a \o b) \o x = a \o (b \o x)
  BY Assoc
<1>3. QED
  BY <1>1, <1>2

\* The two halves of a concatenation.
LEMMA Halves ==
    ASSUME NEW s \in Seq(Symbols), NEW t \in Seq(Symbols)
    PROVE  /\ SubSeq(s \o t, 1, Len(s)) = s
           /\ SubSeq(s \o t, Len(s) + 1, Len(s) + Len(t)) = t
           /\ \A m, n \in 1..Len(s) : SubSeq(s \o t, m, n) = SubSeq(s, m, n)
<1>0. Len(s) \in Nat /\ Len(t) \in Nat
  BY LenProperties
<1>1. SubSeq(s \o t, 1, Len(s)) = s
  <2>1. CASE Len(s) = 0
    BY <2>1, SubSeqEmpty, EmptySeq
  <2>2. CASE Len(s) > 0
    BY <1>0, <2>2, SubSeqOfConcat1, SubSeqFull
  <2>3. QED
    BY <1>0, <2>1, <2>2
<1>2. SubSeq(s \o t, Len(s) + 1, Len(s) + Len(t)) = t
  <2>1. CASE Len(t) = 0
    BY <1>0, <2>1, SubSeqEmpty, EmptySeq
  <2>2. CASE Len(t) > 0
    <3>1. /\ Len(s) + 1 \in (Len(s) + 1)..(Len(s) + Len(t))
          /\ Len(s) + Len(t) \in (Len(s) + 1)..(Len(s) + Len(t))
          /\ (Len(s) + 1) - Len(s) = 1 /\ (Len(s) + Len(t)) - Len(s) = Len(t)
      BY <1>0, <2>2
    <3>2. QED
      BY <3>1, SubSeqOfConcat2, SubSeqFull
  <2>3. QED
    BY <1>0, <2>1, <2>2
<1>3. QED
  BY <1>1, <1>2, SubSeqOfConcat1

\* What comes later does not move a boundary.
LEMMA BoundaryBefore ==
    ASSUME NEW s \in Seq(Symbols), NEW t \in Seq(Symbols), NEW k \in 1..Len(s)
    PROVE  Boundary(s \o t, k) <=> Boundary(s, k)
<1>1. /\ Len(s) \in Nat /\ (s \o t)[k] = s[k]
      /\ k > 1 => (s \o t)[k - 1] = s[k - 1]
      /\ k > 2 => (s \o t)[k - 2] = s[k - 2]
  BY ConcatFacts
<1>2. QED
  BY <1>1 DEF Boundary

\* After an end of line the boundaries are those of what comes later.
LEMMA BoundaryBehind ==
    ASSUME NEW s \in Seq(Symbols), NEW t \in Seq(Symbols), NEW k \in 1..Len(t), Ending(s)
    PROVE  Boundary(s \o t, Len(s) + k) <=> Boundary(t, k)
<1> DEFINE u == s \o t
           e == Len(s) + k
<1>1. /\ Len(s) \in Nat /\ Len(t) \in Nat /\ u[e] = t[k] /\ e \in Nat /\ k \in Nat
      /\ k > 1 => u[e - 1] = t[k - 1]
      /\ k > 2 => u[e - 2] = t[k - 2]
      /\ Len(s) > 0 => u[Len(s)] = "n"
  <2>1. /\ Len(s) \in Nat /\ Len(t) \in Nat
        /\ \A m \in 1..Len(s) : u[m] = s[m]
        /\ \A m \in 1..Len(t) : u[Len(s) + m] = t[m]
        /\ s = <<>> <=> Len(s) = 0
    BY ConcatFacts
  <2>2. k > 1 => k - 1 \in 1..Len(t) /\ e - 1 = Len(s) + (k - 1)
    BY <2>1
  <2>3. k > 2 => k - 2 \in 1..Len(t) /\ e - 2 = Len(s) + (k - 2)
    BY <2>1
  <2>4. QED
    BY <2>1, <2>2, <2>3 DEF Ending
<1> HIDE DEF u
<1>2. CASE k = 1
  <2>1. e - 1 = Len(s) /\ (e = 1 <=> Len(s) = 0) /\ (Len(s) = 0 \/ Len(s) > 0)
    BY <1>1, <1>2
  <2>2. Boundary(u, e) <=> u[e] = "n"
    <3>1. CASE Len(s) = 0
      BY <2>1, <3>1 DEF Boundary
    <3>2. CASE Len(s) > 0
      BY <1>1, <2>1, <3>2 DEF Boundary
    <3>3. QED
      BY <2>1, <3>1, <3>2
  <2>3. Boundary(t, k) <=> t[k] = "n"
    BY <1>2 DEF Boundary
  <2>4. QED
    BY <1>1, <2>2, <2>3 DEF u
<1>3. CASE k = 2
  <2>1. e - 2 = Len(s) /\ (e = 2 <=> Len(s) = 0) /\ e # 1 /\ (Len(s) = 0 \/ Len(s) > 0)
    BY <1>1, <1>3
  <2>2. Boundary(u, e) <=> u[e] = "n" /\ u[e - 1] \in {"n", "r"}
    <3>1. CASE Len(s) = 0
      BY <2>1, <3>1 DEF Boundary
    <3>2. CASE Len(s) > 0
      BY <1>1, <2>1, <3>2 DEF Boundary
    <3>3. QED
      BY <2>1, <3>1, <3>2
  <2>3. Boundary(t, k) <=> t[k] = "n" /\ t[k - 1] \in {"n", "r"}
    BY <1>3 DEF Boundary
  <2>4. QED
    BY <1>1, <1>3, <2>2, <2>3 DEF u
<1>4. CASE k > 2
  BY <1>1, <1>4 DEF Boundary, u
<1>5. QED
  BY <1>1, <1>2, <1>3, <1>4

\* A blank line, position by position.
LEMMA BlankMeans ==
    ASSUME NEW l \in Seq(Symbols)
    PROVE  IsBlank(l) <=> \/ Len(l) = 1 /\ l[1] = "n"
                          \/ Len(l) = 2 /\ l[1] = "r" /\ l[2] = "n"
<1> DEFINE a == <<"n">>
           b == <<"r", "n">>
<1>1. a \in Seq(Symbols) /\ Len(a) = 1 /\ a[1] = "n"
  BY DEF Symbols
<1>2. b \in Seq(Symbols) /\ Len(b) = 2 /\ b[1] = "r" /\ b[2] = "n"
  BY DEF Symbols
<1>3. IsBlank(l) <=> l = a \/ l = b
  BY DEF IsBlank
<1> HIDE DEF a, b
<1>4. Len(l) = 1 /\ l[1] = "n" => l = a
  BY <1>1, SeqEqual
<1>5. Len(l) = 2 /\ l[1] = "r" /\ l[2] = "n" => l = b
  <2>1. SUFFICES ASSUME Len(l) = 2, l[1] = "r", l[2] = "n" PROVE l = b
    OBVIOUS
  <2>2. \A i \in 1..Len(l) : l[i] = b[i]
    BY <1>2, <2>1
  <2>3. QED
    BY <1>2, <2>1, <2>2, SeqEqual
<1>6. QED
  BY <1>1, <1>2, <1>3, <1>4, <1>5

\* The only boundary a line can have is its end, and then it is blank.
LEMMA LineBoundary ==
    ASSUME NEW l \in Seq(Symbols), IsLine(l), NEW k \in 1..Len(l)
    PROVE  Boundary(l, k) <=> k = Len(l) /\ IsBlank(l)
<1>1. /\ Len(l) \in Nat /\ Len(l) > 0 /\ l[Len(l)] = "n"
      /\ \A i \in 1..(Len(l) - 1) : l[i] # "n"
  BY ConcatFacts DEF IsLine
<1>2. Boundary(l, k) => k = Len(l)
  BY <1>1 DEF Boundary
<1>3. Boundary(l, Len(l)) <=> Len(l) = 1 \/ (Len(l) = 2 /\ l[1] = "r")
  <2>1. Len(l) > 1 => l[Len(l) - 1] # "n"
    BY <1>1
  <2>2. Len(l) > 2 => l[Len(l) - 2] # "n"
    BY <1>1
  <2>3. CASE Len(l) = 1
    BY <1>1, <2>3 DEF Boundary
  <2>4. CASE Len(l) = 2
    BY <1>1, <2>1, <2>4 DEF Boundary
  <2>5. CASE Len(l) > 2
    BY <1>1, <2>1, <2>2, <2>5 DEF Boundary
  <2>6. Len(l) = 1 \/ Len(l) = 2 \/ Len(l) > 2
    BY <1>1, Small, Zenon
  <2>7. QED
    BY <2>3, <2>4, <2>5, <2>6
<1>4. QED
  BY <1>1, <1>2, <1>3, BlankMeans

\* A line after whole lines: a boundary only at the end, if it is blank.
LEMMA LineAfter ==
    ASSUME NEW s \in Seq(Symbols), NEW l \in Seq(Symbols), Whole(s), IsLine(l)
    PROVE  /\ \A k \in DOMAIN (s \o l) :
                 Boundary(s \o l, k) <=> k = Len(s) + Len(l) /\ IsBlank(l)
           /\ Ending(s \o l) /\ s \o l # <<>>
           /\ ~IsBlank(l) => Whole(s \o l)
<1> DEFINE u == s \o l
<1>1. /\ Len(s) \in Nat /\ Len(l) \in Nat \ {0} /\ u \in Seq(Symbols)
      /\ DOMAIN s = 1..Len(s) /\ DOMAIN u = 1..(Len(s) + Len(l))
      /\ Len(u) = Len(s) + Len(l) /\ u[Len(s) + Len(l)] = l[Len(l)]
  <2>1. Len(l) \in Nat \ {0}
    BY ConcatFacts DEF IsLine
  <2>2. QED
    BY <2>1, ConcatFacts
<1>2. ASSUME NEW k \in DOMAIN u PROVE Boundary(u, k) <=> k = Len(s) + Len(l) /\ IsBlank(l)
  <2>1. CASE k \in 1..Len(s)
    BY <1>1, <2>1, BoundaryBefore DEF Whole
  <2>2. CASE k > Len(s)
    <3>1. PICK m \in 1..Len(l) : k = Len(s) + m
      <4>1. k - Len(s) \in 1..Len(l) /\ k = Len(s) + (k - Len(s))
        BY <1>1, <1>2, <2>2
      <4>2. QED
        BY <4>1
    <3>2. Boundary(u, k) <=> Boundary(l, m)
      BY <3>1, BoundaryBehind DEF Whole
    <3>3. m = Len(l) <=> k = Len(s) + Len(l)
      BY <1>1, <3>1
    <3>4. QED
      BY <3>2, <3>3, LineBoundary
  <2>3. QED
    BY <1>1, <1>2, <2>1, <2>2
<1>3. Ending(u)
  BY <1>1 DEF Ending, IsLine
<1>4. u # <<>>
  <2>1. u = <<>> <=> Len(u) = 0
    BY <1>1, ConcatFacts
  <2>2. QED
    BY <1>1, <2>1
<1>5. QED
  BY <1>2, <1>3, <1>4 DEF Whole

--------------------------------------------------------------------------
(* Data lines *)

\* The data lines after an end of line are those of what comes later.
LEMMA StartsOfConcat ==
    ASSUME NEW s \in Seq(Symbols), NEW t \in Seq(Symbols), Ending(s)
    PROVE  \A i : i \in Starts(s \o t) <=>
                     \/ i \in Starts(s)
                     \/ \E m \in Starts(t) : i = Len(s) + m
<1> DEFINE u == s \o t
<1>1. /\ Len(s) \in Nat /\ Len(t) \in Nat
      /\ DOMAIN s = 1..Len(s) /\ DOMAIN t = 1..Len(t) /\ DOMAIN u = 1..(Len(s) + Len(t))
      /\ \A k \in 1..Len(s) : u[k] = s[k]
      /\ \A k \in 1..Len(t) : u[Len(s) + k] = t[k]
      /\ s = <<>> <=> Len(s) = 0
  BY ConcatFacts
<1> HIDE DEF u
<1>2. ASSUME NEW i \in 1..Len(s) PROVE i \in Starts(u) <=> i \in Starts(s)
  <2>1. u[i] = s[i] /\ (i = 1 \/ u[i - 1] = s[i - 1]) /\ i \in DOMAIN u /\ i \in DOMAIN s
    BY <1>1
  <2>2. QED
    BY <2>1 DEF Starts
<1>3. ASSUME NEW m \in 1..Len(t) PROVE Len(s) + m \in Starts(u) <=> m \in Starts(t)
  <2>1. u[Len(s) + m] = t[m] /\ Len(s) + m \in DOMAIN u /\ m \in DOMAIN t
    BY <1>1
  <2>2. CASE m = 1
    <3>1. (Len(s) + m) - 1 = Len(s) /\ (Len(s) + m = 1 \/ (Len(s) > 0 /\ u[Len(s)] = "n"))
      BY <1>1, <2>2 DEF Ending
    <3>2. QED
      BY <2>1, <2>2, <3>1 DEF Starts
  <2>3. CASE m > 1
    <3>1. m - 1 \in 1..Len(t) /\ (Len(s) + m) - 1 = Len(s) + (m - 1) /\ Len(s) + m # 1
      BY <1>1, <2>3
    <3>2. u[(Len(s) + m) - 1] = t[m - 1]
      BY <1>1, <3>1
    <3>3. QED
      BY <2>1, <2>3, <3>1, <3>2 DEF Starts
  <2>4. QED
    BY <2>2, <2>3
<1>4. TAKE i
<1>5. ASSUME i \in Starts(u) PROVE i \in 1..Len(s) \/ \E m \in 1..Len(t) : i = Len(s) + m
  <2>1. i \in 1..(Len(s) + Len(t))
    BY <1>1, <1>5 DEF Starts
  <2>2. CASE i > Len(s)
    <3>1. i - Len(s) \in 1..Len(t) /\ i = Len(s) + (i - Len(s))
      BY <1>1, <2>1, <2>2
    <3>2. QED
      BY <3>1
  <2>3. QED
    BY <1>1, <2>1, <2>2
<1>6. \A m \in Starts(t) : m \in 1..Len(t)
  BY <1>1 DEF Starts
<1>7. \A m \in Starts(s) : m \in 1..Len(s)
  BY <1>1 DEF Starts
<1>8. QED
  BY <1>2, <1>3, <1>5, <1>6, <1>7 DEF u

\* A line is a data line or it has none.
LEMMA StartsOfLine ==
    ASSUME NEW l \in Seq(Symbols), IsLine(l)
    PROVE  Starts(l) = IF IsData(l) THEN {1} ELSE {}
<1>1. /\ Len(l) \in Nat /\ Len(l) > 0 /\ DOMAIN l = 1..Len(l)
      /\ \A i \in 1..(Len(l) - 1) : l[i] # "n"
  BY ConcatFacts DEF IsLine
<1>2. ASSUME NEW i \in Starts(l) PROVE i = 1
  <2>1. i \in 1..Len(l) /\ (i = 1 \/ l[i - 1] = "n")
    BY <1>1, <1>2 DEF Starts
  <2>2. i > 1 => i - 1 \in 1..(Len(l) - 1)
    BY <1>1, <2>1
  <2>3. QED
    BY <1>1, <2>1, <2>2
<1>3. 1 \in Starts(l) <=> IsData(l)
  BY <1>1 DEF Starts, IsData
<1>4. QED
  BY <1>2, <1>3

\* One more line: one more data line, or as many as before.
LEMMA StartsAfter ==
    ASSUME NEW s \in Seq(Symbols), NEW l \in Seq(Symbols), Ending(s), IsLine(l)
    PROVE  /\ IsData(l) => Starts(s \o l) = Starts(s) \cup {Len(s) + 1}
           /\ ~IsData(l) => Starts(s \o l) = Starts(s)
<1>1. \A i : i \in Starts(s \o l) <=> \/ i \in Starts(s)
                                      \/ \E m \in Starts(l) : i = Len(s) + m
  BY StartsOfConcat
<1>2. Starts(l) = IF IsData(l) THEN {1} ELSE {}
  BY StartsOfLine
<1>3. QED
  BY <1>1, <1>2

\* A blank line is no data line.
LEMMA BlankIsLine ==
    ASSUME NEW l \in Seq(Symbols), IsBlank(l)
    PROVE  IsLine(l) /\ ~IsData(l)
<1>1. \/ Len(l) = 1 /\ l[1] = "n"
      \/ Len(l) = 2 /\ l[1] = "r" /\ l[2] = "n"
  BY BlankMeans
<1>2. l # <<>>
  BY <1>1, EmptySeq
<1>3. CASE Len(l) = 1 /\ l[1] = "n"
  BY <1>2, <1>3 DEF IsLine, IsData
<1>4. CASE Len(l) = 2 /\ l[1] = "r" /\ l[2] = "n"
  <2>1. \A k \in 1..(Len(l) - 1) : l[k] # "n"
    BY <1>4
  <2>2. QED
    BY <1>2, <1>4, <2>1 DEF IsLine, IsData
<1>5. QED
  BY <1>1, <1>3, <1>4

\* Taking a piece out of the front of a concatenation.
LEMMA WithoutFront ==
    ASSUME NEW s \in Seq(Symbols), NEW t \in Seq(Symbols),
           NEW i \in 1..Len(s), NEW j \in 1..Len(s)
    PROVE  /\ Without(s \o t, i, j) = Without(s, i, j) \o t
           /\ Without(s, i, j) \in Seq(Symbols)
<1> DEFINE u == s \o t
           a == SubSeq(s, 1, i - 1)
           b == SubSeq(s, j + 1, Len(s))
<1>1. /\ Len(s) \in Nat /\ Len(t) \in Nat /\ Len(u) = Len(s) + Len(t)
      /\ \A k \in 1..Len(s) : s[k] \in Symbols
      /\ u \in Seq(Symbols)
  BY ConcatFacts, ElementOfSeq
<1>2. a \in Seq(Symbols) /\ b \in Seq(Symbols)
  <2>1. \A k \in 1..(i - 1) : s[k] \in Symbols
    BY <1>1
  <2>2. \A k \in (j + 1)..Len(s) : s[k] \in Symbols
    BY <1>1
  <2>3. i - 1 \in Int /\ j + 1 \in Int /\ Len(s) \in Int
    BY <1>1
  <2>4. QED
    BY <2>1, <2>2, <2>3, SubSeqProperties
<1>3. SubSeq(u, 1, i - 1) = a
  <2>1. CASE i = 1
    <3>1. SubSeq(u, 1, 0) = <<>> /\ SubSeq(s, 1, 0) = <<>>
      BY SubSeqEmpty
    <3>2. QED
      BY <2>1, <3>1
  <2>2. CASE i > 1
    <3>1. 1 \in 1..Len(s) /\ i - 1 \in 1..Len(s)
      BY <1>1, <2>2
    <3>2. QED
      BY <3>1, SubSeqOfConcat1
  <2>3. QED
    BY <1>1, <2>1, <2>2
<1>4. SubSeq(u, j + 1, Len(u)) = b \o t
  <2>1. SubSeq(u, j + 1, Len(s)) \o SubSeq(u, Len(s) + 1, Len(u)) = SubSeq(u, j + 1, Len(u))
    <3>1. j + 1 \in 1..(Len(u) + 1) /\ Len(s) \in ((j + 1) - 1)..Len(u) /\ Len(u) \in Len(s)..Len(u)
      BY <1>1
    <3>2. QED
      BY <1>1, <3>1, ConcatAdjacentSubSeq
  <2>2. SubSeq(u, Len(s) + 1, Len(u)) = t
    BY <1>1, Halves
  <2>3. SubSeq(u, j + 1, Len(s)) = b
    <3>1. CASE j = Len(s)
      BY <1>1, <3>1, SubSeqEmpty
    <3>2. CASE j < Len(s)
      <4>1. j + 1 \in 1..Len(s) /\ Len(s) \in 1..Len(s)
        BY <1>1, <3>2
      <4>2. QED
        BY <4>1, SubSeqOfConcat1
    <3>3. QED
      BY <1>1, <3>1, <3>2
  <2>4. QED
    BY <2>1, <2>2, <2>3
<1>5. Without(u, i, j) = a \o (b \o t)
  BY <1>3, <1>4 DEF Without
<1>6. Without(s, i, j) = a \o b
  BY DEF Without
<1> HIDE DEF a, b
<1>7. (a \o b) \o t = a \o (b \o t)
  BY ONLY <1>2, t \in Seq(Symbols), Assoc, Zenon
<1>8. a \o b \in Seq(Symbols)
  BY <1>2, ConcatProperties
<1>9. QED
  BY <1>5, <1>6, <1>7, <1>8

\* What is left without the last line.
LEMMA WithoutBack ==
    ASSUME NEW s \in Seq(Symbols), NEW t \in Seq(Symbols)
    PROVE  Without(s \o t, Len(s) + 1, Len(s) + Len(t)) = s
<1>1. Len(s) \in Nat /\ Len(t) \in Nat /\ Len(s \o t) = Len(s) + Len(t)
  BY ConcatFacts
<1>2. SubSeq(s \o t, 1, (Len(s) + 1) - 1) = s
  <2>1. (Len(s) + 1) - 1 = Len(s)
    BY <1>1
  <2>2. QED
    BY <2>1, Halves
<1>3. SubSeq(s \o t, (Len(s) + Len(t)) + 1, Len(s) + Len(t)) = <<>>
  BY <1>1, SubSeqEmpty
<1>4. QED
  BY <1>1, <1>2, <1>3, ConcatEmptySeq DEF Without

\* A data line stays where it is when another line follows.
LEMMA DataAtAfter ==
    ASSUME NEW s \in Seq(Symbols), NEW l \in Seq(Symbols), Ending(s), IsLine(l), ~IsData(l)
    PROVE  \A i, j \in DOMAIN s : \A d :
              DataAt(s, d, i, j) =>
                 /\ DataAt(s \o l, d, i, j) /\ i \in DOMAIN (s \o l) /\ j \in DOMAIN (s \o l)
                 /\ Without(s \o l, i, j) = Without(s, i, j) \o l
<1>0. SUFFICES ASSUME NEW i \in DOMAIN s, NEW j \in DOMAIN s, NEW d, DataAt(s, d, i, j)
               PROVE  /\ DataAt(s \o l, d, i, j) /\ i \in DOMAIN (s \o l) /\ j \in DOMAIN (s \o l)
                      /\ Without(s \o l, i, j) = Without(s, i, j) \o l
  OBVIOUS
<1>1. /\ Len(s) \in Nat /\ Len(l) \in Nat /\ DOMAIN s = 1..Len(s)
      /\ DOMAIN (s \o l) = 1..(Len(s) + Len(l))
      /\ \A k \in 1..Len(s) : (s \o l)[k] = s[k]
  BY ConcatFacts
<1>2. Starts(s \o l) = {i}
  BY <1>0, StartsAfter DEF DataAt
<1>3. SubSeq(s \o l, i, j) = SubSeq(s, i, j)
  BY <1>1, Halves
<1>4. (s \o l)[j] = "n" /\ \A k \in i..(j - 1) : (s \o l)[k] # "n"
  BY <1>0, <1>1 DEF DataAt
<1>5. DataAt(s \o l, d, i, j)
  BY <1>0, <1>2, <1>3, <1>4 DEF DataAt
<1>6. i \in 1..Len(s) /\ j \in 1..Len(s)
  BY <1>1
<1>7. Without(s \o l, i, j) = Without(s, i, j) \o l
  BY <1>6, WithoutFront
<1>8. i \in DOMAIN (s \o l) /\ j \in DOMAIN (s \o l)
  BY <1>1, <1>6
<1>9. QED
  BY <1>5, <1>7, <1>8

\* A line that is the only data line.
LEMMA DataAtEnd ==
    ASSUME NEW s \in Seq(Symbols), NEW l \in Seq(Symbols), Ending(s), IsLine(l), IsData(l),
           Starts(s) = {}
    PROVE  \E i, j \in DOMAIN (s \o l) : DataAt(s \o l, l, i, j) /\ s = Without(s \o l, i, j)
<1> DEFINE i == Len(s) + 1
           j == Len(s) + Len(l)
           u == s \o l
<1>1. /\ Len(s) \in Nat /\ Len(l) \in Nat /\ DOMAIN u = 1..(Len(s) + Len(l)) /\ Len(l) > 0
      /\ \A k \in 1..Len(l) : u[Len(s) + k] = l[k]
  BY ConcatFacts DEF IsLine
<1>2. i \in DOMAIN u /\ j \in DOMAIN u /\ i <= j
  BY <1>1
<1>3. Starts(u) = {i}
  BY StartsAfter
<1>4. l = SubSeq(u, i, j) /\ s = Without(u, i, j)
  BY Halves, WithoutBack
<1>5. u[j] = "n"
  BY <1>1 DEF IsLine
<1>6. ASSUME NEW k \in i..(j - 1) PROVE u[k] # "n"
  <2>1. k - Len(s) \in 1..Len(l) /\ k - Len(s) \in 1..(Len(l) - 1) /\ Len(s) + (k - Len(s)) = k
    BY <1>1
  <2>2. u[k] = l[k - Len(s)]
    BY <1>1, <2>1
  <2>3. QED
    BY <2>1, <2>2 DEF IsLine
<1> HIDE DEF i, j, u
<1>7. DataAt(u, l, i, j)
  BY <1>2, <1>3, <1>4, <1>5, <1>6 DEF DataAt
<1>8. QED
  BY <1>2, <1>4, <1>7 DEF u

\* keepLine sorts the lines of an event.
LEMMA SortedAfter ==
    ASSUME NEW s \in Seq(Symbols), NEW o \in Seq(Symbols), NEW ds \in Seq(Seq(Symbols)),
           NEW l \in Seq(Symbols), Ending(s), Sorted(s, o, ds), IsLine(l), ~IsBlank(l)
    PROVE  /\ IsData(l) => Sorted(s \o l, o, Append(ds, l))
           /\ ~IsData(l) => Sorted(s \o l, o \o l, ds)
<1>0. Len(ds) \in Nat
  BY LenProperties
<1>1. ASSUME IsData(l) PROVE Sorted(s \o l, o, Append(ds, l))
  <2>1. PICK e : e = Append(ds, l)
    OBVIOUS
  <2>2. Len(e) = Len(ds) + 1 /\ (Len(ds) = 0 => e[1] = l)
    <3>1. PICK T : T = Seq(Symbols)
      OBVIOUS
    <3>2. QED
      BY <1>0, <2>1, <3>1, AppendProperties
  <2>3. Starts(s \o l) = Starts(s) \cup {Len(s) + 1}
    BY <1>1, StartsAfter
  <2>4. CASE Len(ds) = 0
    <3>1. Starts(s) = {} /\ o = s
      BY <2>4 DEF Sorted
    <3>2. \E i, j \in DOMAIN (s \o l) : DataAt(s \o l, l, i, j) /\ s = Without(s \o l, i, j)
      BY <1>1, <3>1, DataAtEnd
    <3>3. Len(e) = 1 /\ e[1] = l
      BY <2>2, <2>4
    <3>4. Whole(o) /\ Starts(o) = {}
      BY DEF Sorted
    <3>5. QED
      BY <2>1, <3>1, <3>2, <3>3, <3>4 DEF Sorted
  <2>5. CASE Len(ds) > 0
    <3>1. \E i, j \in Starts(s \o l) : i # j
      <4>1. CASE Len(ds) = 1
        <5>1. PICK i \in DOMAIN s : Starts(s) = {i}
          BY <4>1 DEF Sorted, DataAt
        <5>2. i # Len(s) + 1
          BY <5>1, ConcatFacts
        <5>3. QED
          BY <2>3, <5>1, <5>2
      <4>2. CASE Len(ds) > 1
        <5>0. Len(ds) # 0 /\ Len(ds) # 1
          BY <1>0, <4>2, Small, Zenon
        <5>1. \E i, j \in Starts(s) : i # j
          BY <5>0 DEF Sorted
        <5>2. QED
          BY <2>3, <5>1
      <4>3. Len(ds) = 1 \/ Len(ds) > 1
        BY <1>0, <2>5, Small, Zenon
      <4>4. QED
        BY <4>1, <4>2, <4>3
    <3>2. Len(e) > 1
      BY <1>0, <2>2, <2>5
    <3>3. QED
      BY <2>1, <3>1, <3>2 DEF Sorted
  <2>6. QED
    BY <1>0, <2>4, <2>5
<1>2. ASSUME ~IsData(l) PROVE Sorted(s \o l, o \o l, ds)
  <2>1. Starts(s \o l) = Starts(s)
    BY <1>2, StartsAfter
  <2>2. Whole(o \o l) /\ Starts(o \o l) = {}
    <3>1. Whole(o) /\ Ending(o) /\ Starts(o) = {}
      BY DEF Sorted, Whole
    <3>2. QED
      BY <1>2, <3>1, StartsAfter, LineAfter
  <2>3. CASE Len(ds) = 0
    BY <2>1, <2>2, <2>3 DEF Sorted
  <2>4. CASE Len(ds) = 1
    <3>1. PICK i \in DOMAIN s, j \in DOMAIN s : DataAt(s, ds[1], i, j) /\ o = Without(s, i, j)
      BY <2>4 DEF Sorted
    <3>2. /\ DataAt(s \o l, ds[1], i, j) /\ i \in DOMAIN (s \o l) /\ j \in DOMAIN (s \o l)
          /\ o \o l = Without(s \o l, i, j)
      <4>1. /\ DataAt(s \o l, ds[1], i, j) /\ i \in DOMAIN (s \o l) /\ j \in DOMAIN (s \o l)
            /\ Without(s \o l, i, j) = Without(s, i, j) \o l
        <5>1. \A a, b \in DOMAIN s : \A d :
                 DataAt(s, d, a, b) =>
                    /\ DataAt(s \o l, d, a, b) /\ a \in DOMAIN (s \o l) /\ b \in DOMAIN (s \o l)
                    /\ Without(s \o l, a, b) = Without(s, a, b) \o l
          BY <1>2, DataAtAfter
        <5>2. QED
          BY <3>1, <5>1
      <4>2. QED
        BY <3>1, <4>1
    <3>3. QED
      BY <2>2, <2>4, <3>2 DEF Sorted
  <2>5. CASE Len(ds) > 1
    <3>1. Len(ds) # 0 /\ Len(ds) # 1
      BY <1>0, <2>5, Small, Zenon
    <3>2. \E i, j \in Starts(s) : i # j
      BY <3>1 DEF Sorted
    <3>3. QED
      BY <2>1, <2>2, <2>5, <3>2 DEF Sorted
  <2>6. Len(ds) = 0 \/ Len(ds) = 1 \/ Len(ds) > 1
    BY <1>0, Small, Zenon
  <2>7. QED
    BY <2>3, <2>4, <2>5, <2>6
<1>3. QED
  BY <1>1, <1>2

--------------------------------------------------------------------------
(* What is done with an event, and what a client makes of it *)

\* The one data line, if it is a message, is from i to j and nowhere else.
LEMMA MessageUnique ==
    ASSUME NEW s \in Seq(Symbols),
           NEW i \in DOMAIN s, NEW j \in DOMAIN s, Message(s, i, j),
           NEW a \in DOMAIN s, NEW b \in DOMAIN s, Message(s, a, b)
    PROVE  a = i /\ b = j
<1>1. a = i
  BY DEF Message
<1>2. DOMAIN s = 1..Len(s) /\ Len(s) \in Nat
  BY ConcatFacts
<1>3. /\ i < j /\ s[j] = "n" /\ \A k \in (i + 1)..(j - 1) : s[k] = "r"
      /\ i < b /\ s[b] = "n" /\ \A k \in (i + 1)..(b - 1) : s[k] = "r"
  BY <1>1 DEF Message
<1>4. ~(b < j)
  <2>1. b < j => b \in (i + 1)..(j - 1)
    BY <1>2, <1>3
  <2>2. QED
    BY <1>3, <2>1
<1>5. ~(j < b)
  <2>1. j < b => j \in (i + 1)..(b - 1)
    BY <1>2, <1>3
  <2>2. QED
    BY <1>3, <2>1
<1>6. QED
  BY <1>1, <1>2, <1>4, <1>5

\* Cleared takes that line out.
LEMMA ClearedIs ==
    ASSUME NEW s \in Seq(Symbols),
           NEW i \in DOMAIN s, NEW j \in DOMAIN s, Message(s, i, j)
    PROVE  Cleared(s) = Without(s, i, j)
<1> DEFINE a == CHOOSE a \in DOMAIN s : \E b \in DOMAIN s : Message(s, a, b)
           b == CHOOSE b \in DOMAIN s : Message(s, a, b)
<1>1. a \in DOMAIN s /\ \E d \in DOMAIN s : Message(s, a, d)
  OBVIOUS
<1>2. b \in DOMAIN s /\ Message(s, a, b)
  BY <1>1
<1>3. a = i /\ b = j
  BY <1>1, <1>2, MessageUnique
<1>4. Cleared(s) = Without(s, a, b)
  BY DEF Cleared, Without
<1>5. QED
  BY <1>3, <1>4

\* The data line of an event is a message if nothing but its end follows.
LEMMA DataIsMessage ==
    ASSUME NEW s \in Seq(Symbols), NEW d \in Seq(Symbols),
           NEW i \in DOMAIN s, NEW j \in DOMAIN s, DataAt(s, d, i, j)
    PROVE  /\ (\A k \in 2..Len(d) : d[k] \in {"r", "n"}) <=> Message(s, i, j)
           /\ MustReplace(s) <=> Message(s, i, j)
<1>1. /\ DOMAIN s = 1..Len(s) /\ Len(s) \in Nat /\ Starts(s) = {i} /\ i <= j
      /\ s[j] = "n" /\ \A k \in i..(j - 1) : s[k] # "n"
  BY ConcatFacts DEF DataAt
<1>2. s[i] = "T"
  BY <1>1 DEF Starts
<1>3. i < j
  BY <1>1, <1>2
<1>4. Len(d) = (j - i) + 1 /\ \A k \in 1..((j - i) + 1) : d[k] = s[(i + k) - 1]
  <2>1. \A k \in i..j : s[k] \in Symbols
    BY <1>1, ElementOfSeq
  <2>2. /\ Len(SubSeq(s, i, j)) = IF i <= j THEN j - i + 1 ELSE 0
        /\ \A k \in 1..(j - i + 1) : SubSeq(s, i, j)[k] = s[i + k - 1]
    BY <1>1, <2>1, SubSeqProperties
  <2>3. QED
    BY <1>1, <2>2 DEF DataAt
<1>5. ASSUME \A k \in 2..Len(d) : d[k] \in {"r", "n"} PROVE Message(s, i, j)
  <2>1. ASSUME NEW k \in (i + 1)..(j - 1) PROVE s[k] = "r"
    <3>1. (k - i) + 1 \in 2..Len(d) /\ (k - i) + 1 \in 1..((j - i) + 1)
          /\ (i + ((k - i) + 1)) - 1 = k /\ k \in i..(j - 1)
      BY <1>1, <1>4
    <3>2. d[(k - i) + 1] = s[k] /\ d[(k - i) + 1] \in {"r", "n"} /\ s[k] # "n"
      BY <1>1, <1>4, <1>5, <3>1
    <3>3. QED
      BY <3>2
  <2>2. QED
    BY <1>1, <1>3, <2>1 DEF Message
<1>6. ASSUME Message(s, i, j), NEW k \in 2..Len(d) PROVE d[k] \in {"r", "n"}
  <2>1. /\ k \in 1..((j - i) + 1)
        /\ (i + k) - 1 = j \/ (i + k) - 1 \in (i + 1)..(j - 1)
    BY <1>1, <1>3, <1>4
  <2>2. d[k] = s[(i + k) - 1]
    BY <1>4, <2>1
  <2>3. QED
    BY <1>6, <2>1, <2>2 DEF Message
<1>7. ASSUME NEW a \in DOMAIN s, NEW b \in DOMAIN s, Message(s, a, b) PROVE Message(s, i, j)
  <2>1. a = i /\ i < b /\ s[b] = "n" /\ \A k \in (i + 1)..(b - 1) : s[k] = "r"
    BY <1>1, <1>7 DEF Message
  <2>2. ~(b < j)
    <3>1. b < j => b \in i..(j - 1)
      BY <1>1, <2>1
    <3>2. QED
      BY <1>1, <2>1, <3>1
  <2>3. ~(j < b)
    <3>1. j < b => j \in (i + 1)..(b - 1)
      BY <1>1, <1>3, <2>1
    <3>2. QED
      BY <1>1, <2>1, <3>1
  <2>4. b = j
    BY <1>1, <2>2, <2>3
  <2>5. QED
    BY <1>7, <2>1, <2>4
<1>8. QED
  BY <1>5, <1>6, <1>7 DEF MustReplace

\* What finishEvent decides on the sorted lines is what is due for the event.
LEMMA ReplacedIsDue ==
    ASSUME ev \in Seq(Symbols), data \in Seq(Seq(Symbols)), Sorted(ev, others, data)
    PROVE  /\ Replaced <=> MustReplace(ev)
           /\ Replaced => others = Cleared(ev)
<1>0. Len(data) \in Nat
  BY LenProperties
<1>1. CASE Len(data) = 0
  <2>1. Starts(ev) = {}
    BY <1>1 DEF Sorted
  <2>2. ~MustReplace(ev)
    BY <2>1 DEF MustReplace, Message
  <2>3. ~Replaced
    BY <1>1 DEF Replaced
  <2>4. QED
    BY <2>2, <2>3
<1>2. CASE Len(data) = 1
  <2>1. PICK i \in DOMAIN ev, j \in DOMAIN ev : DataAt(ev, data[1], i, j) /\ others = Without(ev, i, j)
    BY <1>2 DEF Sorted
  <2>2. PICK d \in Seq(Symbols) : d = data[1]
    <3>1. PICK S : S = Seq(Symbols)
      OBVIOUS
    <3>2. data \in Seq(S) /\ 1 \in 1..Len(data)
      BY <1>2, <3>1
    <3>3. data[1] \in S
      BY ONLY <3>2, ElementOfSeq
    <3>4. QED
      BY <3>1, <3>3
  <2>3. Replaced <=> \A k \in 2..Len(d) : d[k] \in {"r", "n"}
    BY <1>2, <2>2 DEF Replaced
  <2>4. /\ (\A k \in 2..Len(d) : d[k] \in {"r", "n"}) <=> Message(ev, i, j)
        /\ MustReplace(ev) <=> Message(ev, i, j)
    BY <2>1, <2>2, DataIsMessage
  <2>5. QED
    BY <2>1, <2>3, <2>4, ClearedIs
<1>3. CASE Len(data) > 1
  <2>0. Len(data) # 0 /\ Len(data) # 1
    BY <1>0, <1>3, Small, Zenon
  <2>1. \E i, j \in Starts(ev) : i # j
    BY <2>0 DEF Sorted
  <2>2. ~MustReplace(ev)
    BY <2>1 DEF MustReplace, Message
  <2>3. ~Replaced
    BY <2>0 DEF Replaced
  <2>4. QED
    BY <2>2, <2>3
<1>4. Len(data) = 0 \/ Len(data) = 1 \/ Len(data) > 1
  BY <1>0, Small, Zenon
<1>5. QED
  BY <1>1, <1>2, <1>3, <1>4

\* The blank line adds no message to an event.
LEMMA NoMessageBlank ==
    ASSUME NEW s \in Seq(Symbols), NEW l \in Seq(Symbols), Ending(s), IsBlank(l), ~MustReplace(s)
    PROVE  ~MustReplace(s \o l)
<1> DEFINE u == s \o l
<1>1. /\ Len(s) \in Nat /\ Len(l) \in Nat /\ DOMAIN s = 1..Len(s)
      /\ DOMAIN u = 1..(Len(s) + Len(l))
      /\ \A k \in 1..Len(s) : u[k] = s[k]
      /\ s = <<>> <=> Len(s) = 0
  BY ConcatFacts
<1>2. Starts(u) = Starts(s)
  BY BlankIsLine, StartsAfter
<1> HIDE DEF u
<1>3. ASSUME NEW i \in DOMAIN u, NEW j \in DOMAIN u, Message(u, i, j) PROVE FALSE
  <2>1. /\ Starts(s) = {i} /\ i < j /\ u[j] = "n" /\ \A k \in (i + 1)..(j - 1) : u[k] = "r"
    BY <1>2, <1>3 DEF Message
  <2>2. i \in 1..Len(s) /\ s[i] = "T"
    BY <1>1, <2>1 DEF Starts
  <2>3. s[Len(s)] = "n" /\ u[Len(s)] = "n" /\ i < Len(s)
    BY <1>1, <2>2 DEF Ending
  <2>4. j \in 1..Len(s)
    <3>1. j > Len(s) => Len(s) \in (i + 1)..(j - 1)
      BY <1>1, <2>2, <2>3
    <3>2. QED
      BY <1>1, <2>1, <2>3, <3>1
  <2>5. s[j] = "n" /\ \A k \in (i + 1)..(j - 1) : s[k] = "r"
    BY <1>1, <2>1, <2>2, <2>4
  <2>6. Message(s, i, j)
    BY <2>1, <2>5 DEF Message
  <2>7. QED
    BY <1>1, <2>2, <2>4, <2>6 DEF MustReplace
<1>4. QED
  BY <1>3 DEF MustReplace, u

\* Nothing that is written hides behind what was written before.
LEMMA HidesAfter ==
    ASSUME NEW o \in Seq(Symbols), NEW p \in Seq(Symbols), AtCut(o), Hides(o),
           \A k \in 1..Len(p) : Boundary(p, k) => k = Len(p) /\ ~MustReplace(p)
    PROVE  /\ Hides(o \o p)
           /\ p # <<>> /\ Boundary(p, Len(p)) => AtCut(o \o p)
<1> DEFINE u == o \o p
<1>1. /\ Len(o) \in Nat /\ Len(p) \in Nat /\ Len(u) = Len(o) + Len(p)
      /\ o = <<>> <=> Len(o) = 0
      /\ p = <<>> <=> Len(p) = 0
  BY ConcatFacts
<1>2. Ending(o)
  BY DEF AtCut, Ending, Boundary
<1>3. \A k \in 1..Len(o) : Boundary(u, k) <=> Boundary(o, k)
  BY BoundaryBefore
<1>4. \A k \in 1..Len(p) : Boundary(u, Len(o) + k) <=> Boundary(p, k)
  BY <1>2, BoundaryBehind
<1>5. SubSeq(u, Len(o) + 1, Len(o) + Len(p)) = p
  BY Halves
<1>6. \A m, n \in 1..Len(o) : SubSeq(u, m, n) = SubSeq(o, m, n)
  BY Halves
<1> HIDE DEF u
<1>7. ASSUME NEW b \in 0..Len(u), NEW e \in 1..Len(u), Dispatched(u, b, e)
      PROVE  ~MustReplace(SubSeq(u, b + 1, e))
  <2>0. /\ b = 0 \/ Boundary(u, b)
        /\ b < e /\ Boundary(u, e) /\ \A d \in (b + 1)..(e - 1) : ~Boundary(u, d)
    BY <1>7 DEF Dispatched
  <2>1. CASE e <= Len(o)
    <3>1. e \in 1..Len(o) /\ b \in 0..Len(o) /\ b + 1 \in 1..Len(o) /\ (b = 0 \/ b \in 1..Len(o))
          /\ \A d \in (b + 1)..(e - 1) : d \in 1..Len(o)
      BY <1>1, <2>0, <2>1
    <3>2. Dispatched(o, b, e)
      BY <1>3, <2>0, <3>1 DEF Dispatched
    <3>3. QED
      BY <1>6, <3>1, <3>2 DEF Hides
  <2>2. CASE e > Len(o)
    <3>1. e - Len(o) \in 1..Len(p) /\ Len(o) + (e - Len(o)) = e
      BY <1>1, <2>2
    <3>2. Boundary(p, e - Len(o))
      BY <1>4, <2>0, <3>1
    <3>3. e - Len(o) = Len(p) /\ ~MustReplace(p)
      BY <3>1, <3>2
    <3>4. ~(b > Len(o))
      <4>1. SUFFICES ASSUME b > Len(o) PROVE FALSE
        OBVIOUS
      <4>2. b - Len(o) \in 1..Len(p) /\ Len(o) + (b - Len(o)) = b /\ b # 0
        BY <1>1, <4>1
      <4>3. Boundary(p, b - Len(o))
        BY <1>4, <2>0, <4>2
      <4>4. b - Len(o) = Len(p)
        BY <4>2, <4>3
      <4>5. QED
        BY <1>1, <2>0, <3>3, <4>4
    <3>5. ~(b < Len(o))
      <4>1. SUFFICES ASSUME b < Len(o) PROVE FALSE
        OBVIOUS
      <4>2. Len(o) \in (b + 1)..(e - 1) /\ Len(o) \in 1..Len(o) /\ o # <<>>
        BY <1>1, <2>2, <4>1
      <4>3. Boundary(u, Len(o))
        BY <1>3, <4>2 DEF AtCut
      <4>4. QED
        BY <2>0, <4>2, <4>3
    <3>6. b = Len(o) /\ e = Len(o) + Len(p)
      BY <1>1, <3>3, <3>4, <3>5
    <3>7. QED
      BY <1>5, <3>3, <3>6
  <2>3. QED
    BY <1>1, <2>1, <2>2
<1>8. Hides(u)
  BY <1>7 DEF Hides
<1>9. ASSUME p # <<>>, Boundary(p, Len(p)) PROVE AtCut(u)
  <2>1. Len(p) \in 1..Len(p)
    BY <1>1, <1>9
  <2>2. QED
    BY <1>1, <1>4, <1>9, <2>1 DEF AtCut
<1>10. QED
  BY <1>8, <1>9 DEF u

--------------------------------------------------------------------------
(* What is written *)

\* A piece of a sequence.
LEMMA PieceType ==
    ASSUME NEW s \in Seq(Symbols), NEW m \in 1..(Len(s) + 1), NEW n \in 0..Len(s)
    PROVE  SubSeq(s, m, n) \in Seq(Symbols)
<1>1. Len(s) \in Nat /\ \A k \in 1..Len(s) : s[k] \in Symbols
  BY ConcatFacts, ElementOfSeq
<1>2. \A k \in m..n : s[k] \in Symbols
  BY <1>1
<1>3. m \in Int /\ n \in Int
  BY <1>1
<1>4. QED
  BY <1>2, <1>3, SubSeqProperties

\* The three things the gateway writes of its own.
LEMMA OwnText ==
    /\ CapError \in Seq(Symbols) /\ Len(CapError) = 3
    /\ CapError[1] = "E" /\ CapError[2] = "n" /\ CapError[3] = "n"
    /\ <<"R", "n">> \in Seq(Symbols) /\ <<>> \in Seq(Symbols)
BY DEF CapError, Symbols

\* What is due for an event is a sequence of symbols.
LEMMA TreatedType ==
    ASSUME NEW e \in Seq(Symbols), NEW l \in Seq(Symbols)
    PROVE  Treated(e, l) \in Seq(Symbols)
<1>1. e \o l \in Seq(Symbols)
  BY ConcatFacts
<1>2. ASSUME MustReplace(e) PROVE (Cleared(e) \o <<"R", "n">>) \o l \in Seq(Symbols)
  <2>1. PICK i \in DOMAIN e, j \in DOMAIN e : Message(e, i, j)
    BY <1>2 DEF MustReplace
  <2>2. Cleared(e) = Without(e, i, j)
    BY <2>1, ClearedIs
  <2>3. i \in 1..Len(e) /\ j \in 1..Len(e)
    BY ConcatFacts
  <2>4. Cleared(e) \in Seq(Symbols)
    BY <2>2, <2>3, WithoutFront
  <2>5. PICK a \in Seq(Symbols) : a = Cleared(e)
    BY <2>4
  <2>6. PICK r \in Seq(Symbols) : r = <<"R", "n">>
    BY OwnText
  <2>7. (a \o r) \o l \in Seq(Symbols)
    BY ConcatFacts
  <2>8. QED
    BY <2>5, <2>6, <2>7
<1>3. QED
  BY <1>1, <1>2, OwnText DEF Treated

\* An event that needs no replacement and the blank line behind it.
LEMMA PieceBlank ==
    ASSUME NEW s \in Seq(Symbols), NEW l \in Seq(Symbols), Whole(s), IsBlank(l), ~MustReplace(s)
    PROVE  /\ s \o l \in Seq(Symbols) /\ s \o l # <<>>
           /\ \A k \in 1..Len(s \o l) : Boundary(s \o l, k) => k = Len(s \o l) /\ ~MustReplace(s \o l)
           /\ Boundary(s \o l, Len(s \o l))
<1>1. IsLine(l) /\ Ending(s)
  BY BlankIsLine DEF Whole
<1>2. /\ s \o l \in Seq(Symbols) /\ DOMAIN (s \o l) = 1..Len(s \o l)
      /\ Len(s \o l) = Len(s) + Len(l)
  BY ConcatFacts
<1>3. /\ \A k \in DOMAIN (s \o l) : Boundary(s \o l, k) <=> k = Len(s) + Len(l) /\ IsBlank(l)
      /\ s \o l # <<>>
  BY <1>1, LineAfter
<1>4. Len(s \o l) \in 1..Len(s \o l)
  <2>1. PICK u \in Seq(Symbols) : u = s \o l
    BY <1>2
  <2>2. Len(u) \in Nat /\ Len(u) # 0
    BY <1>3, <2>1, ConcatFacts
  <2>3. QED
    BY <2>1, <2>2
<1>5. ~MustReplace(s \o l)
  BY <1>1, NoMessageBlank
<1>6. QED
  BY <1>2, <1>3, <1>4, <1>5

\* The other lines and the replacement: whole lines without a message.
LEMMA PieceReplaced ==
    ASSUME NEW o \in Seq(Symbols), Whole(o), Starts(o) = {}
    PROVE  LET p == o \o <<"R", "n">>
           IN  p \in Seq(Symbols) /\ Whole(p) /\ ~MustReplace(p)
<1>1. PICK l \in Seq(Symbols) : l = <<"R", "n">>
  BY OwnText
<1>2. Len(l) = 2 /\ l[1] = "R" /\ l[2] = "n"
  BY <1>1
<1>3. IsLine(l)
  <2>1. l # <<>>
    BY <1>1
  <2>2. \A k \in 1..(Len(l) - 1) : l[k] # "n"
    BY <1>2
  <2>3. QED
    BY <1>2, <2>1, <2>2 DEF IsLine
<1>4. ~IsBlank(l) /\ ~IsData(l)
  BY <1>2, BlankMeans DEF IsData
<1>5. Whole(o \o l)
  BY <1>3, <1>4, LineAfter
<1>6. Starts(o \o l) = {}
  BY <1>3, <1>4, StartsAfter DEF Whole
<1>7. ~MustReplace(o \o l)
  BY <1>6 DEF MustReplace, Message
<1>8. o \o l \in Seq(Symbols)
  BY ConcatFacts
<1>9. QED
  BY <1>1, <1>5, <1>7, <1>8

\* The error is an event without a message.
LEMMA PieceError ==
    /\ \A k \in 1..Len(CapError) : Boundary(CapError, k) => k = Len(CapError) /\ ~MustReplace(CapError)
    /\ Boundary(CapError, Len(CapError)) /\ CapError # <<>>
<1>1. PICK p \in Seq(Symbols) : p = CapError
  BY OwnText
<1>2. Len(p) = 3 /\ p[1] = "E" /\ p[2] = "n" /\ p[3] = "n"
  BY <1>1, OwnText
<1>3. DOMAIN p = 1..3 /\ p # <<>>
  BY <1>2, ConcatFacts
<1>4. Starts(p) = {}
  <2>1. ASSUME NEW i \in 1..3 PROVE p[i] # "T"
    BY <1>2
  <2>2. QED
    BY <1>3, <2>1 DEF Starts
<1>5. ~MustReplace(p)
  BY <1>4 DEF MustReplace, Message
<1>6. Boundary(p, 3) /\ ~Boundary(p, 1) /\ ~Boundary(p, 2)
  BY <1>2 DEF Boundary
<1>7. \A k \in 1..Len(p) : Boundary(p, k) => k = Len(p)
  BY <1>2, <1>6
<1>8. QED
  BY <1>1, <1>2, <1>3, <1>5, <1>6, <1>7

\* What finishEvent writes: an event with its end, and no message in it that
\* had to be replaced.
LEMMA FinishPiece ==
    ASSUME SSETypeOK, EventInv, NEW l \in Seq(Symbols), IsBlank(l)
    PROVE  LET p == IF Replaced THEN others \o <<"R", "n">> \o l ELSE ev \o l
           IN  /\ p \in Seq(Symbols) /\ p # <<>>
               /\ \A k \in 1..Len(p) : Boundary(p, k) => k = Len(p) /\ ~MustReplace(p)
               /\ Boundary(p, Len(p))
               /\ p = IF MustReplace(ev) THEN Cleared(ev) \o <<"R", "n">> \o l ELSE ev \o l
<1>1. /\ ev \in Seq(Symbols) /\ others \in Seq(Symbols) /\ data \in Seq(Seq(Symbols))
      /\ Sorted(ev, others, data) /\ Whole(ev) /\ Whole(others) /\ Starts(others) = {}
  BY DEF SSETypeOK, EventInv, Sorted
<1>2. /\ Replaced <=> MustReplace(ev)
      /\ Replaced => others = Cleared(ev)
  BY <1>1, ReplacedIsDue
<1>3. CASE Replaced
  <2>1. PICK q : q = others \o <<"R", "n">>
    OBVIOUS
  <2>2. q \in Seq(Symbols) /\ Whole(q) /\ ~MustReplace(q)
    BY <1>1, <2>1, PieceReplaced
  <2>3. /\ q \o l \in Seq(Symbols) /\ q \o l # <<>>
        /\ \A k \in 1..Len(q \o l) : Boundary(q \o l, k) => k = Len(q \o l) /\ ~MustReplace(q \o l)
        /\ Boundary(q \o l, Len(q \o l))
    BY <2>2, PieceBlank
  <2>4. QED
    BY <1>2, <1>3, <2>1, <2>3
<1>4. CASE ~Replaced
  <2>1. ~MustReplace(ev)
    BY <1>2, <1>4
  <2>2. /\ ev \o l \in Seq(Symbols) /\ ev \o l # <<>>
        /\ \A k \in 1..Len(ev \o l) : Boundary(ev \o l, k) => k = Len(ev \o l) /\ ~MustReplace(ev \o l)
        /\ Boundary(ev \o l, Len(ev \o l))
    BY <1>1, <2>1, PieceBlank
  <2>3. QED
    BY <1>4, <2>1, <2>2
<1>5. QED
  BY <1>3, <1>4

--------------------------------------------------------------------------
(* What has come in *)

\* A symbol that ends no blank line.
LEMMA HeardOpen ==
    ASSUME rest \in Seq(Symbols), NEW c \in Symbols, Heard(c),
           \A k \in DOMAIN rest : ~Boundary(rest, k),
           ~Boundary(Append(rest, c), Len(rest) + 1)
    PROVE  /\ rest' = Append(rest, c) /\ closed' = closed /\ exact' = exact
           /\ \A k \in DOMAIN rest' : ~Boundary(rest', k)
<1>1. PICK s : s = Append(rest, c)
  OBVIOUS
<1>2. /\ s \in Seq(Symbols) /\ Len(s) = Len(rest) + 1 /\ s = rest \o <<c>> /\ <<c>> \in Seq(Symbols)
      /\ DOMAIN s = 1..(Len(rest) + 1)
  BY <1>1, AppendFacts
<1>3. rest' = s /\ closed' = closed /\ exact' = exact
  BY <1>1, <1>2 DEF Heard
<1>4. Len(rest) \in Nat /\ DOMAIN rest = 1..Len(rest)
  BY ConcatFacts
<1>5. \A k \in 1..Len(rest) : ~Boundary(s, k)
  BY <1>2, <1>4, BoundaryBefore
<1>6. \A k \in DOMAIN s : k \in 1..Len(rest) \/ k = Len(rest) + 1
  BY <1>2, <1>4
<1>7. QED
  BY <1>1, <1>3, <1>5, <1>6

\* A symbol that ends a blank line l behind an event e.
LEMMA HeardCut ==
    ASSUME rest \in Seq(Symbols), NEW c \in Symbols, Heard(c),
           Boundary(Append(rest, c), Len(rest) + 1),
           NEW e \in Seq(Symbols), NEW l \in Seq(Symbols), Append(rest, c) = e \o l,
           Len(l) = BlankSize(Append(rest, c), Len(rest) + 1)
    PROVE  /\ rest' = <<>> /\ closed' = closed \o Treated(e, l)
           /\ exact' = (exact \/ (Len(e) = Cap /\ Len(l) = 2 /\ mid = 0))
<1>1. PICK s : s = Append(rest, c)
  OBVIOUS
<1>2. Len(s) = Len(rest) + 1 /\ Len(s) = Len(e) + Len(l) /\ Len(e) \in Nat /\ Len(l) \in Nat
  BY <1>1, AppendFacts, ConcatFacts
<1>3. Len(s) - BlankSize(s, Len(s)) = Len(e)
  <2>1. Len(l) = BlankSize(s, Len(s))
    BY <1>1, <1>2
  <2>2. QED
    BY <1>2, <2>1
<1>4. SubSeq(s, 1, Len(e)) = e /\ SubSeq(s, Len(e) + 1, Len(s)) = l
  BY <1>1, <1>2, Halves
<1>5. Boundary(s, Len(s))
  BY <1>1, <1>2
<1>6. QED
  BY <1>1, <1>3, <1>4, <1>5 DEF Heard

\* Whatever comes in, no blank line stays behind and exact stays set.
LEMMA HeardType ==
    ASSUME rest \in Seq(Symbols), closed \in Seq(Symbols), NEW c \in Symbols, Heard(c),
           \A k \in DOMAIN rest : ~Boundary(rest, k)
    PROVE  /\ rest' \in Seq(Symbols) /\ closed' \in Seq(Symbols)
           /\ \A k \in DOMAIN rest' : ~Boundary(rest', k)
           /\ exact => exact'
<1>1. PICK s : s = Append(rest, c)
  OBVIOUS
<1>2. s \in Seq(Symbols) /\ Len(s) = Len(rest) + 1 /\ Len(rest) \in Nat /\ DOMAIN rest = 1..Len(rest)
  BY <1>1, AppendFacts, ConcatFacts
<1>3. CASE Boundary(s, Len(s))
  <2>1. PICK k : k = Len(s) - BlankSize(s, Len(s))
    OBVIOUS
  <2>2. k \in 0..Len(s) /\ k + 1 \in 1..(Len(s) + 1)
    BY <1>2, <2>1 DEF BlankSize
  <2>3. PICK e \in Seq(Symbols), l \in Seq(Symbols) :
           e = SubSeq(s, 1, k) /\ l = SubSeq(s, k + 1, Len(s))
    <3>1. 1 \in 1..(Len(s) + 1) /\ Len(s) \in 0..Len(s)
      BY <1>2
    <3>2. QED
      BY <1>2, <2>2, <3>1, PieceType
  <2>4. /\ rest' = <<>> /\ closed' = closed \o Treated(e, l)
        /\ exact => exact'
    BY <1>1, <1>3, <2>1, <2>3 DEF Heard
  <2>5. PICK t \in Seq(Symbols) : t = Treated(e, l)
    BY TreatedType
  <2>6. closed \o t \in Seq(Symbols)
    BY ConcatFacts
  <2>7. DOMAIN rest' = {} /\ rest' \in Seq(Symbols)
    BY <2>4, OwnText
  <2>8. QED
    BY <2>4, <2>5, <2>6, <2>7
<1>4. CASE ~Boundary(s, Len(s))
  <2>1. /\ rest' = s /\ closed' = closed /\ exact' = exact
        /\ \A k \in DOMAIN rest' : ~Boundary(rest', k)
    BY <1>1, <1>2, <1>4, HeardOpen
  <2>2. QED
    BY <1>2, <2>1
<1>5. QED
  BY <1>3, <1>4

--------------------------------------------------------------------------
(* Ingest, the scan of an event above the cap *)

\* What every byte does, whatever becomes of it.
Taken(c) ==
    /\ SSEInv /\ c \in Symbols /\ ~done
    /\ mid' = mid + 1 /\ given' = given + 1
    /\ Heard(c)
    /\ UNCHANGED <<strict, read, srcErr, done, ended>>

\* The parts of the invariant that do not depend on what becomes of it.
LEMMA TakenFacts ==
    ASSUME NEW c, Taken(c)
    PROVE  /\ c \in Symbols /\ mid \in Nat /\ mid' \in Nat /\ given' \in Nat
           /\ rest \in Seq(Symbols) /\ closed \in Seq(Symbols)
           /\ rest' \in Seq(Symbols) /\ closed' \in Seq(Symbols)
           /\ \A k \in DOMAIN rest : ~Boundary(rest, k)
           /\ \A k \in DOMAIN rest' : ~Boundary(rest', k)
           /\ exact => exact'
           /\ exact \/ AgreeInv
           /\ strict' = strict /\ read' = read /\ ~done' /\ ~ended'
<1>1. /\ rest \in Seq(Symbols) /\ closed \in Seq(Symbols) /\ c \in Symbols /\ Heard(c)
      /\ \A k \in DOMAIN rest : ~Boundary(rest, k)
      /\ mid \in Nat /\ mid' \in Nat /\ given' \in Nat
  BY DEF Taken, SSEInv, SSETypeOK, HistoryInv
<1>2. strict' = strict /\ read' = read /\ ~done' /\ ~ended' /\ (exact \/ AgreeInv)
  BY DEF Taken, SSEInv, HistoryInv
<1>3. QED
  BY <1>1, <1>2, HeardType

\* What is written is kept.
LEMMA WriteType ==
    ASSUME SSETypeOK, NEW x \in Seq(Symbols), out' = out \o x, read' = read
    PROVE  out' \in Seq(Symbols) /\ read' \in 0..Len(out')
<1>1. out \in Seq(Symbols) /\ read \in 0..Len(out)
  BY DEF SSETypeOK
<1>2. /\ out \o x \in Seq(Symbols) /\ Len(out \o x) = Len(out) + Len(x)
      /\ Len(out) \in Nat /\ Len(x) \in Nat
  BY <1>1, ConcatFacts
<1>3. read \in 0..Len(out \o x)
  BY <1>1, <1>2
<1>4. QED
  BY <1>2, <1>3

\* The detector agrees with the bytes: the event ends where it says so, but
\* for the one split that exact records.
LEMMA ScanAgrees ==
    ASSUME NEW c, Taken(c), mode # "lines", scanBoundary(c)
    PROVE  exact' \/ AgreeInv'
<1>0. /\ c \in Symbols /\ mid \in Nat /\ rest \in Seq(Symbols) /\ closed \in Seq(Symbols)
      /\ Cap \in Nat \ {0} /\ mid' = mid + 1 /\ ~done' /\ strict' = strict /\ Heard(c)
      /\ \A k \in DOMAIN rest : ~Boundary(rest, k)
      /\ bstate \in {0, 1, 2} /\ mode \in {"raw", "discard"}
  BY TakenFacts, SSEAssumption DEF Taken, SSEInv, SSETypeOK
<1>1. CASE exact
  BY <1>1, TakenFacts
<1>2. CASE ~exact
  <2>1. AgreeInv
    BY <1>2, TakenFacts
  <2>2. PICK s, k : s = Append(rest, c) /\ k = Len(rest)
    OBVIOUS
  <2>3. /\ k \in Nat /\ Len(s) = k + 1 /\ s \in Seq(Symbols) /\ s = rest \o <<c>> /\ <<c>> \in Seq(Symbols)
        /\ s[k + 1] = c /\ \A m \in 1..k : s[m] = rest[m]
    BY <1>0, <2>2, AppendFacts, ConcatFacts
  <2>4. /\ k > Cap /\ (bstate = 1 <=> rest[k] = "n")
        /\ bstate = 2 => rest[k] = "r" /\ rest[k - 1] = "n" /\ k > Cap + 1
        /\ rest[k] = "r" /\ rest[k - 1] = "n" => bstate = 2 \/ (k = Cap + 1 /\ mid = 0)
    BY <1>0, <2>1, <2>2 DEF AgreeInv, DetectorInv
  <2>5. k > 1 /\ k \in 1..k /\ k - 1 \in 1..k /\ (k + 1) - 1 = k /\ (k + 1) - 2 = k - 1
    BY <1>0, <2>3, <2>4
  <2>6. s[k] = rest[k] /\ s[k - 1] = rest[k - 1]
    BY <2>3, <2>5
  <2>7. Boundary(s, k + 1) <=> c = "n" /\ (rest[k] = "n" \/ (rest[k] = "r" /\ rest[k - 1] = "n"))
    BY <2>3, <2>5, <2>6 DEF Boundary
  <2>8. /\ mode = "raw" => ~strict /\ out = closed \o rest /\ out' = out \o <<c>>
        /\ mode = "discard" => strict /\ out = closed \o CapError /\ out' = out \o <<>>
    BY <1>0, <2>1 DEF AgreeInv, scanBoundary, Write
  <2>9. CASE Boundary(s, k + 1)
    <3>1. c = "n" /\ (rest[k] = "n" \/ (rest[k] = "r" /\ rest[k - 1] = "n"))
      BY <2>7, <2>9
    <3>2. PICK e \in Seq(Symbols), l \in Seq(Symbols) :
            /\ s = e \o l /\ Len(l) = BlankSize(s, k + 1)
            /\ Len(l) = 2 <=> rest[k] = "r"
            /\ Len(e) = (k + 1) - Len(l) /\ Len(l) \in {1, 2}
      <4>1. PICK m : m = (k + 1) - BlankSize(s, k + 1)
        OBVIOUS
      <4>2. /\ m \in {k, k - 1} /\ (m = k - 1 <=> rest[k] = "r")
            /\ BlankSize(s, k + 1) = (k + 1) - m
        BY <2>3, <2>5, <2>6, <4>1 DEF BlankSize
      <4>3. m \in 0..(k + 1) /\ m + 1 \in 1..((k + 1) + 1) /\ m \in Nat
        BY <2>3, <2>5, <4>2
      <4>4. SubSeq(s, 1, m) \o SubSeq(s, m + 1, k + 1) = SubSeq(s, 1, k + 1)
        <5>1. /\ 1 \in 1..(Len(s) + 1) /\ m \in (1 - 1)..Len(s) /\ Len(s) \in m..Len(s)
          BY <2>3, <4>3
        <5>2. QED
          BY <2>3, <5>1, ConcatAdjacentSubSeq
      <4>5. SubSeq(s, 1, k + 1) = s
        BY <2>3, SubSeqFull
      <4>6. SubSeq(s, 1, m) \in Seq(Symbols) /\ SubSeq(s, m + 1, k + 1) \in Seq(Symbols)
        <5>1. 1 \in 1..(Len(s) + 1) /\ k + 1 \in 0..Len(s) /\ m \in 0..Len(s) /\ m + 1 \in 1..(Len(s) + 1)
          BY <2>3, <4>3
        <5>2. QED
          BY <2>3, <5>1, PieceType
      <4>7. Len(SubSeq(s, 1, m)) = m
        <5>1. \A i \in 1..m : s[i] \in Symbols
          BY <2>3, <4>3, ElementOfSeq
        <5>2. Len(SubSeq(s, 1, m)) = IF 1 <= m THEN m - 1 + 1 ELSE 0
          BY <4>3, <5>1, SubSeqProperties
        <5>3. QED
          BY <4>3, <5>2
      <4>8. PICK e \in Seq(Symbols), l \in Seq(Symbols) :
               e = SubSeq(s, 1, m) /\ l = SubSeq(s, m + 1, k + 1)
        BY <4>6
      <4>9. s = e \o l /\ Len(e) = m /\ Len(l) = (k + 1) - m
        <5>1. s = e \o l /\ Len(e) = m
          BY <4>4, <4>5, <4>7, <4>8
        <5>2. Len(s) = Len(e) + Len(l) /\ Len(l) \in Nat
          BY <5>1, ConcatFacts
        <5>3. PICK n \in Nat : n = Len(l)
          BY <5>2
        <5>4. k + 1 = m + n
          BY <2>3, <5>1, <5>2, <5>3
        <5>5. n = (k + 1) - m
          BY <2>3, <4>3, <5>4
        <5>6. QED
          BY <5>1, <5>3, <5>5
      <4>10. /\ Len(l) = BlankSize(s, k + 1) /\ Len(l) \in {1, 2}
             /\ Len(l) = 2 <=> m = k - 1
             /\ Len(e) = (k + 1) - Len(l)
        <5>1. PICK n : n = (k + 1) - m
          OBVIOUS
        <5>2. /\ n \in {1, 2} /\ (n = 2 <=> m = k - 1) /\ m = (k + 1) - n
          BY <2>3, <4>2, <4>3, <5>1
        <5>3. Len(l) = n /\ Len(e) = m /\ BlankSize(s, k + 1) = n
          BY <4>2, <4>9, <5>1
        <5>4. QED
          BY <5>2, <5>3
      <4>11. QED
        BY <4>2, <4>9, <4>10
    <3>3. /\ rest' = <<>> /\ closed' = closed \o Treated(e, l)
          /\ exact' = (exact \/ (Len(e) = Cap /\ Len(l) = 2 /\ mid = 0))
      BY <1>0, <2>2, <2>9, <3>2, HeardCut
    <3>4. CASE bstate = 0
      <4>1. rest[k] = "r" /\ rest[k - 1] = "n" /\ k = Cap + 1 /\ mid = 0
        BY <2>4, <3>1, <3>4
      <4>2. Len(l) = 2 /\ Len(e) = Cap
        BY <1>0, <3>2, <4>1
      <4>3. QED
        BY <3>3, <4>1, <4>2
    <3>5. CASE bstate # 0
      <4>1. mode' = "lines"
        BY <1>0, <3>1, <3>5 DEF scanBoundary
      <4>2. Len(e) > Cap
        <5>1. CASE bstate = 1
          <6>1. Len(l) = 1
            BY <2>4, <3>2, <5>1
          <6>2. Len(e) = (k + 1) - 1
            BY <3>2, <6>1
          <6>3. QED
            BY <2>3, <2>4, <6>2
        <5>2. CASE bstate = 2
          BY <1>0, <2>3, <2>4, <3>2, <5>2
        <5>3. QED
          BY <1>0, <3>5, <5>1, <5>2
      <4>3. Treated(e, l) = IF strict THEN CapError ELSE s
        BY <3>2, <4>2 DEF Treated
      <4>4. out' = closed'
        <5>1. CASE mode = "raw"
          <6>1. (closed \o rest) \o <<c>> = closed \o (rest \o <<c>>)
            BY <1>0, AppendAssoc
          <6>2. QED
            BY <2>3, <2>8, <3>3, <4>3, <5>1, <6>1
        <5>2. CASE mode = "discard"
          <6>1. PICK z \in Seq(Symbols) : z = CapError
            BY OwnText
          <6>2. (closed \o z) \o <<>> = closed \o z
            BY <1>0, ConcatFacts, ConcatEmptySeq
          <6>3. QED
            BY <2>8, <3>3, <4>3, <5>2, <6>1, <6>2
        <5>3. QED
          BY <1>0, <5>1, <5>2
      <4>5. rest' = ev' \o line'
        <5>1. ev' = <<>> /\ line' = <<>>
          BY <1>0 DEF Taken, SSEInv, BufferInv, scanBoundary, eventVars
        <5>2. QED
          BY <3>3, <5>1
      <4>6. QED
        BY <1>0, <4>1, <4>4, <4>5 DEF AgreeInv
    <3>6. QED
      BY <3>4, <3>5
  <2>10. CASE ~Boundary(s, k + 1)
    <3>1. rest' = s /\ closed' = closed /\ exact' = exact
      BY <1>0, <2>2, <2>10, HeardOpen
    <3>2. ~(c = "n" /\ bstate # 0)
      BY <2>4, <2>7, <2>10, <1>0
    <3>3. mode' = mode
      BY <1>0, <3>2 DEF scanBoundary
    <3>4. bstate' = IF c = "n" THEN 1 ELSE IF c = "r" /\ bstate = 1 THEN 2 ELSE 0
      BY <1>0, <3>2 DEF scanBoundary
    <3>5. DetectorInv'
      <4>1. Len(rest') = k + 1 /\ rest'[k + 1] = c /\ rest'[(k + 1) - 1] = rest[k]
        BY <2>3, <2>5, <2>6, <3>1
      <4>2. k + 1 > Cap /\ k + 1 > Cap + 1
        BY <1>0, <2>3, <2>4
      <4>3. bstate' = 1 <=> c = "n"
        BY <3>4
      <4>4. bstate' = 2 <=> c = "r" /\ rest[k] = "n"
        BY <2>4, <3>4
      <4>5. QED
        BY <4>1, <4>2, <4>3, <4>4 DEF DetectorInv
    <3>6. mode = "raw" => out' = closed \o s
      <4>1. (closed \o rest) \o <<c>> = closed \o (rest \o <<c>>)
        BY <1>0, AppendAssoc
      <4>2. QED
        BY <2>3, <2>8, <4>1
    <3>7. mode = "discard" => out' = closed \o CapError
      <4>1. PICK z \in Seq(Symbols) : z = CapError
        BY OwnText
      <4>2. (closed \o z) \o <<>> = closed \o z
        BY <1>0, ConcatFacts, ConcatEmptySeq
      <4>3. QED
        BY <2>8, <4>1, <4>2
    <3>8. QED
      BY <1>0, <2>8, <3>1, <3>3, <3>5, <3>6, <3>7 DEF AgreeInv
  <2>11. QED
    BY <2>9, <2>10
<1>3. QED
  BY <1>1, <1>2

\* A byte of an event above the cap keeps the invariant.
LEMMA ScanStep ==
    ASSUME NEW c, Taken(c), mode # "lines", scanBoundary(c)
    PROVE  SSEInv'
<1>1. SSEInv /\ SSETypeOK /\ BufferInv /\ EventInv /\ HideInv
  BY DEF Taken, SSEInv
<1>2. UNCHANGED <<line, ev, others, data, evSize>>
  BY DEF scanBoundary, eventVars
<1>3. /\ c \in Symbols /\ mid \in Nat /\ mid' \in Nat /\ given' \in Nat /\ mid' = mid + 1
      /\ rest' \in Seq(Symbols) /\ closed' \in Seq(Symbols)
      /\ \A k \in DOMAIN rest' : ~Boundary(rest', k)
      /\ strict' = strict /\ read' = read /\ ~done' /\ ~ended'
  BY TakenFacts DEF Taken
<1>4. PICK x \in Seq(Symbols) : x = IF mode = "raw" THEN <<c>> ELSE <<>>
  BY <1>3, OwnText, AppendFacts
<1>5. out' = out \o x
  BY <1>4 DEF scanBoundary, Write
<1>6. out' \in Seq(Symbols) /\ read' \in 0..Len(out')
  BY <1>1, <1>3, <1>5, WriteType
<1>7. mode' \in {"lines", mode} /\ bstate' \in {0, 1, 2}
  BY DEF scanBoundary
<1>8. SSETypeOK'
  BY <1>1, <1>2, <1>3, <1>6, <1>7 DEF SSETypeOK
<1>9. BufferInv'
  <2>1. Len(line') + Len(ev') <= Cap + mid'
    <3>1. line' = <<>> /\ ev' = <<>>
      BY <1>1, <1>2 DEF BufferInv
    <3>2. Len(line') = 0 /\ Len(ev') = 0
      BY <3>1
    <3>3. QED
      BY <1>3, <3>2, SSEAssumption
  <2>2. QED
    BY <1>1, <1>2, <1>7, <2>1 DEF BufferInv
<1>10. EventInv'
  BY <1>1, <1>2 DEF EventInv
<1>11. HistoryInv'
  BY <1>3, ScanAgrees DEF HistoryInv
<1>12. HideInv'
  <2>1. strict => mode = "discard" /\ mode' # "raw" /\ out' = out
    <3>1. SUFFICES ASSUME strict PROVE mode = "discard" /\ mode' # "raw" /\ out' = out
      OBVIOUS
    <3>2. mode = "discard"
      BY <1>1, <3>1 DEF HideInv, SSETypeOK
    <3>3. out \in Seq(Symbols) /\ x = <<>>
      BY <1>1, <1>4, <3>2 DEF SSETypeOK
    <3>4. QED
      BY <1>5, <1>7, <3>2, <3>3, ConcatEmptySeq
  <2>2. QED
    BY <1>1, <1>3, <2>1 DEF HideInv, Taken
<1>13. QED
  BY <1>3, <1>8, <1>9, <1>10, <1>11, <1>12 DEF SSEInv

--------------------------------------------------------------------------
(* Ingest, lines *)

\* A complete line, and what it makes of the event.
LEMMA LineFacts ==
    ASSUME NEW c, Taken(c), mode = "lines", c = "n", NEW l, l = Append(line, c)
    PROVE  /\ l \in Seq(Symbols) /\ IsLine(l) /\ Len(l) = Len(line) + 1
           /\ ev \in Seq(Symbols) /\ Whole(ev) /\ Ending(ev)
           /\ Boundary(ev \o l, Len(ev) + Len(l)) <=> IsBlank(l)
           /\ AgreeInv => Append(rest, c) = ev \o l /\ Len(rest) + 1 = Len(ev) + Len(l)
<1>1. /\ line \in Seq(Symbols) /\ ev \in Seq(Symbols) /\ rest \in Seq(Symbols) /\ c \in Symbols
      /\ Whole(ev) /\ Ending(ev) /\ ~done
      /\ \A k \in DOMAIN line : line[k] # "n"
  BY DEF Taken, SSEInv, SSETypeOK, EventInv, Whole
<1>2. /\ l \in Seq(Symbols) /\ l # <<>> /\ Len(l) = Len(line) + 1 /\ l = line \o <<c>>
      /\ <<c>> \in Seq(Symbols) /\ l[Len(line) + 1] = c
      /\ \A k \in 1..Len(line) : l[k] = line[k]
  BY <1>1, AppendFacts
<1>3. Len(line) \in Nat /\ DOMAIN line = 1..Len(line)
  BY <1>1, ConcatFacts
<1>4. IsLine(l)
  <2>1. \A k \in 1..(Len(l) - 1) : k \in 1..Len(line)
    BY <1>2, <1>3
  <2>2. QED
    BY <1>1, <1>2, <1>3, <2>1 DEF IsLine
<1>5. Boundary(ev \o l, Len(ev) + Len(l)) <=> IsBlank(l)
  <2>1. Len(ev) + Len(l) \in DOMAIN (ev \o l)
    <3>1. Len(ev) \in Nat /\ DOMAIN (ev \o l) = 1..(Len(ev) + Len(l))
      BY <1>1, <1>2, ConcatFacts
    <3>2. QED
      BY <1>2, <1>3, <3>1
  <2>2. QED
    BY <1>1, <1>2, <1>4, <2>1, LineAfter
<1>6. ASSUME AgreeInv PROVE Append(rest, c) = ev \o l /\ Len(rest) + 1 = Len(ev) + Len(l)
  <2>1. rest = ev \o line
    BY <1>1, <1>6 DEF AgreeInv
  <2>2. Append(rest, c) = rest \o <<c>> /\ Len(Append(rest, c)) = Len(rest) + 1
    BY <1>1, AppendFacts
  <2>3. (ev \o line) \o <<c>> = ev \o (line \o <<c>>)
    BY <1>1, <1>2, Assoc
  <2>4. Len(ev \o l) = Len(ev) + Len(l)
    BY <1>1, <1>2, ConcatFacts
  <2>5. Append(rest, c) = ev \o l
    BY <1>2, <2>1, <2>2, <2>3
  <2>6. QED
    BY <2>2, <2>4, <2>5
<1>7. QED
  BY <1>1, <1>2, <1>4, <1>5, <1>6

\* The length of the blank line behind an event.
LEMMA BlankBehind ==
    ASSUME NEW s \in Seq(Symbols), NEW l \in Seq(Symbols), Ending(s), IsBlank(l)
    PROVE  BlankSize(s \o l, Len(s) + Len(l)) = Len(l)
<1> DEFINE u == s \o l
           e == Len(s) + Len(l)
<1>1. /\ Len(s) \in Nat /\ \A k \in 1..Len(s) : u[k] = s[k]
      /\ \A k \in 1..Len(l) : u[Len(s) + k] = l[k]
      /\ s = <<>> <=> Len(s) = 0
  BY ConcatFacts
<1>2. \/ Len(l) = 1 /\ l[1] = "n"
      \/ Len(l) = 2 /\ l[1] = "r" /\ l[2] = "n"
  BY BlankMeans
<1> HIDE DEF u
<1>3. CASE Len(l) = 1
  <2>1. e = Len(s) + 1 /\ e - 1 = Len(s)
    BY <1>1, <1>3
  <2>2. e > 1 => u[e - 1] = "n"
    BY <1>1, <2>1 DEF Ending
  <2>3. BlankSize(u, e) = 1
    BY <2>2 DEF BlankSize
  <2>4. QED
    BY <1>3, <2>3 DEF u
<1>4. CASE Len(l) = 2 /\ l[1] = "r"
  <2>1. e = Len(s) + 2 /\ e - 1 = Len(s) + 1 /\ 1 \in 1..Len(l) /\ e > 1
    BY <1>1, <1>4
  <2>2. u[e - 1] = "r"
    BY <1>1, <1>4, <2>1
  <2>3. BlankSize(u, e) = 2
    BY <2>1, <2>2 DEF BlankSize
  <2>4. QED
    BY <1>4, <2>3 DEF u
<1>5. QED
  BY <1>2, <1>3, <1>4

\* Whole lines of nothing.
LEMMA NothingSorted ==
    /\ Whole(<<>>) /\ Sorted(<<>>, <<>>, <<>>)
    /\ \A k \in DOMAIN <<>> : (<<>>)[k] # "n"
    /\ <<>> \in Seq(Seq(Symbols))
<1>1. PICK s : s = <<>>
  OBVIOUS
<1>2. DOMAIN s = {} /\ Len(s) = 0
  BY <1>1
<1>3. Whole(s)
  BY <1>1, <1>2 DEF Whole, Ending
<1>4. Starts(s) = {}
  BY <1>2 DEF Starts
<1>5. Sorted(s, s, s)
  BY <1>2, <1>3, <1>4 DEF Sorted
<1>6. QED
  BY <1>1, <1>2, <1>3, <1>5

\* After resetEvent the event is empty, and so is the line.
LEMMA ResetFacts ==
    ASSUME resetEvent, line' = <<>>, mid' \in Nat
    PROVE  /\ EventInv' /\ BufferInv'
           /\ line' \in Seq(Symbols) /\ ev' \in Seq(Symbols) /\ others' \in Seq(Symbols)
           /\ data' \in Seq(Seq(Symbols)) /\ evSize' \in Nat
           /\ ev' \o line' = <<>>
<1>1. ev' = <<>> /\ others' = <<>> /\ data' = <<>> /\ evSize' = 0
  BY DEF resetEvent
<1>2. EventInv'
  BY <1>1, NothingSorted DEF EventInv
<1>3. Len(line') = 0 /\ Len(ev') = 0
  BY <1>1
<1>4. BufferInv'
  <2>1. 0 <= Cap /\ 0 + 0 <= Cap + mid'
    <3>1. PICK m \in Nat : m = mid'
      OBVIOUS
    <3>2. 0 <= Cap /\ 0 + 0 <= Cap + m
      BY SSEAssumption
    <3>3. QED
      BY <3>1, <3>2
  <2>2. evSize' = Len(ev') /\ Len(ev') <= Cap /\ Len(line') + Len(ev') <= Cap + mid'
    BY <1>1, <1>3, <2>1
  <2>3. QED
    BY <1>1, <2>2 DEF BufferInv
<1>5. QED
  BY <1>1, <1>2, <1>4, OwnText, NothingSorted

\* A blank line keeps the invariant: the event goes out as it is due.
LEMMA BlankStep ==
    ASSUME NEW c, Taken(c), mode = "lines", c = "n", line' = <<>>,
           IsBlank(Append(line, c)), finishEvent(Append(line, c))
    PROVE  SSEInv'
<1>1. PICK l : l = Append(line, c)
  OBVIOUS
<1>2. /\ l \in Seq(Symbols) /\ IsBlank(l) /\ ev \in Seq(Symbols) /\ Ending(ev)
      /\ Boundary(ev \o l, Len(ev) + Len(l))
      /\ AgreeInv => Append(rest, c) = ev \o l /\ Len(rest) + 1 = Len(ev) + Len(l)
  BY <1>1, LineFacts
<1>3. SSEInv /\ SSETypeOK /\ BufferInv /\ EventInv /\ HideInv /\ ~done
  BY DEF Taken, SSEInv
<1>4. /\ c \in Symbols /\ mid' \in Nat /\ given' \in Nat /\ rest \in Seq(Symbols)
      /\ rest' \in Seq(Symbols) /\ closed' \in Seq(Symbols)
      /\ \A k \in DOMAIN rest' : ~Boundary(rest', k)
      /\ strict' = strict /\ read' = read /\ ~done' /\ ~ended' /\ Heard(c)
  BY TakenFacts DEF Taken
<1>5. PICK p : p = IF Replaced THEN others \o <<"R", "n">> \o l ELSE ev \o l
  OBVIOUS
<1>6. /\ p \in Seq(Symbols) /\ p # <<>>
      /\ \A k \in 1..Len(p) : Boundary(p, k) => k = Len(p) /\ ~MustReplace(p)
      /\ Boundary(p, Len(p))
      /\ p = IF MustReplace(ev) THEN Cleared(ev) \o <<"R", "n">> \o l ELSE ev \o l
  BY <1>2, <1>3, <1>5, FinishPiece
<1>7. out' = out \o p /\ resetEvent /\ mode' = mode /\ bstate' = bstate
  BY <1>1, <1>5 DEF finishEvent, Write
<1>8. out' \in Seq(Symbols) /\ read' \in 0..Len(out')
  BY <1>3, <1>4, <1>6, <1>7, WriteType
<1>9. /\ EventInv' /\ BufferInv'
      /\ line' \in Seq(Symbols) /\ ev' \in Seq(Symbols) /\ others' \in Seq(Symbols)
      /\ data' \in Seq(Seq(Symbols)) /\ evSize' \in Nat
      /\ ev' \o line' = <<>>
  BY <1>4, <1>7, ResetFacts
<1>10. SSETypeOK'
  BY <1>3, <1>4, <1>7, <1>8, <1>9 DEF SSETypeOK
<1>11. HistoryInv'
  <2>1. CASE exact
    BY <1>4, <2>1, TakenFacts DEF HistoryInv
  <2>2. CASE ~exact
    <3>1. AgreeInv /\ out = closed
      BY <1>3, <2>2, TakenFacts DEF AgreeInv
    <3>2. Len(l) = BlankSize(Append(rest, c), Len(rest) + 1)
      BY <1>2, <3>1, BlankBehind
    <3>3. Boundary(Append(rest, c), Len(rest) + 1)
      BY <1>2, <3>1
    <3>4. rest' = <<>> /\ closed' = closed \o Treated(ev, l)
      BY <1>2, <1>4, <3>1, <3>2, <3>3, HeardCut
    <3>5. Treated(ev, l) = p
      <4>1. ~(Len(ev) > Cap)
        BY <1>2, <1>3, ConcatFacts, SSEAssumption DEF BufferInv
      <4>2. QED
        BY <1>6, <4>1 DEF Treated
    <3>6. AgreeInv'
      BY <1>4, <1>7, <1>9, <3>1, <3>4, <3>5 DEF AgreeInv
    <3>7. QED
      BY <1>4, <3>6 DEF HistoryInv
  <2>3. QED
    BY <2>1, <2>2
<1>12. HideInv'
  <2>1. ASSUME strict PROVE Hides(out') /\ AtCut(out') /\ mode' # "raw"
    <3>1. out \in Seq(Symbols) /\ Hides(out) /\ AtCut(out)
      BY <1>3, <2>1 DEF HideInv, SSETypeOK
    <3>2. Hides(out \o p) /\ AtCut(out \o p)
      BY <1>6, <3>1, HidesAfter
    <3>3. QED
      BY <1>7, <3>2
  <2>2. QED
    BY <1>4, <2>1 DEF HideInv
<1>13. QED
  BY <1>4, <1>9, <1>10, <1>11, <1>12 DEF SSEInv

\* What both kinds of overflow write: the error, or all there is.
LEMMA OverflowFacts ==
    ASSUME SSETypeOK, HideInv, ~done, NEW x \in Seq(Symbols), NEW b \in {0, 1}, Overflow(x, b),
           line' = <<>>, mid' \in Nat, strict' = strict, read' = read, done' = done
    PROVE  /\ EventInv' /\ BufferInv' /\ HideInv'
           /\ line' \in Seq(Symbols) /\ ev' \in Seq(Symbols) /\ others' \in Seq(Symbols)
           /\ data' \in Seq(Seq(Symbols)) /\ evSize' \in Nat
           /\ out' \in Seq(Symbols) /\ read' \in 0..Len(out')
           /\ mode' = (IF strict THEN "discard" ELSE "raw") /\ bstate' = b
           /\ strict => out' = out \o CapError
           /\ ~strict => out' = out \o (ev \o x)
<1>1. PICK p : p = IF strict THEN CapError ELSE ev \o x
  OBVIOUS
<1>2. p \in Seq(Symbols)
  <2>1. ev \o x \in Seq(Symbols)
    BY ConcatFacts DEF SSETypeOK
  <2>2. QED
    BY <1>1, <2>1, OwnText
<1>3. out' = out \o p /\ mode' = (IF strict THEN "discard" ELSE "raw") /\ bstate' = b /\ resetEvent
  BY <1>1 DEF Overflow, Write
<1>4. out' \in Seq(Symbols) /\ read' \in 0..Len(out')
  BY <1>2, <1>3, WriteType
<1>5. HideInv'
  <2>1. ASSUME strict PROVE Hides(out') /\ AtCut(out') /\ mode' # "raw"
    <3>1. out \in Seq(Symbols) /\ Hides(out) /\ AtCut(out)
      BY <2>1 DEF HideInv, SSETypeOK
    <3>2. p = CapError
      BY <1>1, <2>1
    <3>3. Hides(out \o p) /\ AtCut(out \o p)
      BY <1>2, <3>1, <3>2, PieceError, HidesAfter
    <3>4. QED
      BY <1>3, <2>1, <3>3
  <2>2. QED
    BY <2>1 DEF HideInv
<1>6. QED
  BY <1>1, <1>3, <1>4, <1>5, ResetFacts

\* A line that takes the event above the cap keeps the invariant.
LEMMA OverflowStep ==
    ASSUME NEW c, Taken(c), mode = "lines", c = "n", line' = <<>>,
           ~IsBlank(Append(line, c)), evSize + Len(Append(line, c)) > Cap,
           Overflow(Append(line, c), 1)
    PROVE  SSEInv'
<1>1. PICK l : l = Append(line, c)
  OBVIOUS
<1>2. /\ l \in Seq(Symbols) /\ ~IsBlank(l) /\ ev \in Seq(Symbols) /\ IsLine(l)
      /\ ~Boundary(ev \o l, Len(ev) + Len(l))
      /\ AgreeInv => Append(rest, c) = ev \o l /\ Len(rest) + 1 = Len(ev) + Len(l)
  BY <1>1, LineFacts
<1>3. SSEInv /\ SSETypeOK /\ BufferInv /\ HideInv /\ ~done
  BY DEF Taken, SSEInv
<1>4. /\ c \in Symbols /\ mid' \in Nat /\ given' \in Nat /\ rest \in Seq(Symbols)
      /\ rest' \in Seq(Symbols) /\ closed' \in Seq(Symbols) /\ closed \in Seq(Symbols)
      /\ \A k \in DOMAIN rest : ~Boundary(rest, k)
      /\ \A k \in DOMAIN rest' : ~Boundary(rest', k)
      /\ strict' = strict /\ read' = read /\ ~done' /\ ~ended' /\ Heard(c) /\ done' = done
  BY TakenFacts DEF Taken
<1>5. /\ EventInv' /\ BufferInv' /\ HideInv'
      /\ line' \in Seq(Symbols) /\ ev' \in Seq(Symbols) /\ others' \in Seq(Symbols)
      /\ data' \in Seq(Seq(Symbols)) /\ evSize' \in Nat
      /\ out' \in Seq(Symbols) /\ read' \in 0..Len(out')
      /\ mode' = (IF strict THEN "discard" ELSE "raw") /\ bstate' = 1
      /\ strict => out' = out \o CapError
      /\ ~strict => out' = out \o (ev \o l)
  BY <1>1, <1>2, <1>3, <1>4, OverflowFacts
<1>6. SSETypeOK'
  BY <1>4, <1>5 DEF SSETypeOK
<1>7. HistoryInv'
  <2>1. CASE exact
    BY <1>4, <2>1, TakenFacts DEF HistoryInv
  <2>2. CASE ~exact
    <3>1. AgreeInv /\ out = closed
      BY <1>3, <2>2, TakenFacts DEF AgreeInv
    <3>2. rest' = Append(rest, c) /\ closed' = closed
      BY <1>2, <1>4, <3>1, HeardOpen
    <3>3. PICK k : k = Len(ev) + Len(l)
      OBVIOUS
    <3>4. rest' = ev \o l /\ Len(rest') = k /\ k > Cap
      <4>1. rest' = ev \o l /\ Len(ev \o l) = Len(ev) + Len(l)
        BY <1>2, <3>1, <3>2, ConcatFacts
      <4>2. evSize = Len(ev) /\ evSize + Len(l) > Cap
        BY <1>1, <1>3 DEF BufferInv
      <4>3. QED
        BY <3>3, <4>1, <4>2
    <3>5. rest'[k] = "n"
      <4>1. Ending(ev \o l) /\ ev \o l # <<>>
        BY <1>1, <1>2, LineFacts, LineAfter
      <4>2. QED
        BY <3>4, <4>1 DEF Ending
    <3>6. DetectorInv'
      BY <1>5, <3>4, <3>5 DEF DetectorInv
    <3>7. AgreeInv'
      BY <1>4, <1>5, <3>1, <3>2, <3>4, <3>6 DEF AgreeInv
    <3>8. QED
      BY <1>4, <3>7 DEF HistoryInv
  <2>3. QED
    BY <2>1, <2>2
<1>8. QED
  BY <1>4, <1>5, <1>6, <1>7 DEF SSEInv

\* A line that is kept keeps the invariant.
LEMMA KeepStep ==
    ASSUME NEW c, Taken(c), mode = "lines", c = "n", line' = <<>>,
           ~IsBlank(Append(line, c)), evSize + Len(Append(line, c)) <= Cap,
           keepLine(Append(line, c))
    PROVE  SSEInv'
<1>1. PICK l : l = Append(line, c)
  OBVIOUS
<1>2. /\ l \in Seq(Symbols) /\ ~IsBlank(l) /\ ev \in Seq(Symbols) /\ IsLine(l)
      /\ Whole(ev) /\ Ending(ev)
      /\ ~Boundary(ev \o l, Len(ev) + Len(l))
      /\ AgreeInv => Append(rest, c) = ev \o l /\ Len(rest) + 1 = Len(ev) + Len(l)
  BY <1>1, LineFacts
<1>3. SSEInv /\ SSETypeOK /\ BufferInv /\ EventInv /\ HideInv /\ ~done
  BY DEF Taken, SSEInv
<1>4. /\ c \in Symbols /\ mid' \in Nat /\ given' \in Nat /\ rest \in Seq(Symbols)
      /\ rest' \in Seq(Symbols) /\ closed' \in Seq(Symbols)
      /\ \A k \in DOMAIN rest : ~Boundary(rest, k)
      /\ \A k \in DOMAIN rest' : ~Boundary(rest', k)
      /\ strict' = strict /\ read' = read /\ ~done' /\ ~ended' /\ Heard(c)
  BY TakenFacts DEF Taken
<1>5. /\ ev' = ev \o l /\ evSize' = evSize + Len(l)
      /\ mode' = mode /\ bstate' = bstate /\ out' = out
      /\ \/ IsData(l) /\ data' = Append(data, l) /\ others' = others
         \/ ~IsData(l) /\ others' = others \o l /\ data' = data
  BY <1>1 DEF keepLine
<1>6. /\ ev' \in Seq(Symbols) /\ Len(ev') = Len(ev) + Len(l) /\ Len(l) \in Nat /\ Len(ev) \in Nat
      /\ Whole(ev')
  BY <1>2, <1>5, ConcatFacts, LineAfter
<1>7. others' \in Seq(Symbols) /\ data' \in Seq(Seq(Symbols))
  <2>1. others \in Seq(Symbols) /\ data \in Seq(Seq(Symbols))
    BY <1>3 DEF SSETypeOK
  <2>2. others \o l \in Seq(Symbols)
    BY <1>2, <2>1, ConcatFacts
  <2>3. Append(data, l) \in Seq(Seq(Symbols))
    <3>1. PICK S : S = Seq(Symbols)
      OBVIOUS
    <3>2. QED
      BY <1>2, <2>1, <3>1, AppendProperties
  <2>4. QED
    BY <1>5, <2>1, <2>2, <2>3
<1>8. Sorted(ev', others', data')
  <2>1. others \in Seq(Symbols) /\ data \in Seq(Seq(Symbols)) /\ Sorted(ev, others, data)
    BY <1>3 DEF SSETypeOK, EventInv
  <2>2. /\ IsData(l) => Sorted(ev \o l, others, Append(data, l))
        /\ ~IsData(l) => Sorted(ev \o l, others \o l, data)
    BY <1>2, <2>1, SortedAfter
  <2>3. QED
    BY <1>5, <2>2
<1>9. EventInv'
  BY <1>6, <1>8, NothingSorted DEF EventInv
<1>10. line' \in Seq(Symbols) /\ Len(line') = 0 /\ evSize' \in Nat
  BY <1>3, <1>5, <1>6, OwnText DEF SSETypeOK
<1>11. SSETypeOK'
  BY <1>3, <1>4, <1>5, <1>6, <1>7, <1>10 DEF SSETypeOK
<1>12. BufferInv'
  <2>1. evSize' = Len(ev') /\ evSize' <= Cap
    BY <1>1, <1>3, <1>5, <1>6 DEF BufferInv
  <2>2. 0 + Len(ev') <= Cap + mid'
    <3>1. PICK n \in Nat : n = Len(ev')
      BY <1>6
    <3>2. n <= Cap
      BY <2>1, <3>1
    <3>3. QED
      BY <1>4, <3>1, <3>2, SSEAssumption
  <2>3. QED
    BY <1>5, <1>10, <2>1, <2>2 DEF BufferInv
<1>13. HistoryInv'
  <2>1. CASE exact
    BY <1>4, <2>1, TakenFacts DEF HistoryInv
  <2>2. CASE ~exact
    <3>1. AgreeInv /\ out = closed
      BY <1>3, <2>2, TakenFacts DEF AgreeInv
    <3>2. rest' = Append(rest, c) /\ closed' = closed
      BY <1>2, <1>4, <3>1, HeardOpen
    <3>3. rest' = ev' \o line'
      BY <1>2, <1>5, <1>6, <3>1, <3>2, ConcatEmptySeq
    <3>4. AgreeInv'
      BY <1>4, <1>5, <3>1, <3>2, <3>3 DEF AgreeInv
    <3>5. QED
      BY <1>4, <3>4 DEF HistoryInv
  <2>3. QED
    BY <2>1, <2>2
<1>14. HideInv'
  BY <1>3, <1>4, <1>5 DEF HideInv
<1>15. QED
  BY <1>4, <1>9, <1>11, <1>12, <1>13, <1>14 DEF SSEInv

\* A byte inside a line keeps the invariant.
LEMMA PartStep ==
    ASSUME NEW c, Taken(c), mode = "lines", c # "n", line' = Append(line, c),
           UNCHANGED <<eventVars, mode, bstate, out>>
    PROVE  SSEInv'
<1>1. /\ ev' = ev /\ others' = others /\ data' = data /\ evSize' = evSize
      /\ mode' = mode /\ bstate' = bstate /\ out' = out
  BY DEF eventVars
<1>2. SSEInv /\ SSETypeOK /\ BufferInv /\ EventInv /\ HideInv /\ ~done
  BY DEF Taken, SSEInv
<1>3. /\ c \in Symbols /\ mid \in Nat /\ mid' \in Nat /\ given' \in Nat /\ rest \in Seq(Symbols)
      /\ rest' \in Seq(Symbols) /\ closed' \in Seq(Symbols) /\ mid' = mid + 1
      /\ \A k \in DOMAIN rest : ~Boundary(rest, k)
      /\ \A k \in DOMAIN rest' : ~Boundary(rest', k)
      /\ strict' = strict /\ read' = read /\ ~done' /\ ~ended' /\ Heard(c)
  BY TakenFacts DEF Taken
<1>4. line \in Seq(Symbols) /\ ev \in Seq(Symbols) /\ \A k \in DOMAIN line : line[k] # "n"
  BY <1>2 DEF SSETypeOK, EventInv
<1>5. /\ line' \in Seq(Symbols) /\ Len(line') = Len(line) + 1 /\ DOMAIN line' = 1..(Len(line) + 1)
      /\ \A k \in 1..Len(line) : line'[k] = line[k]
      /\ line'[Len(line) + 1] = c
      /\ line' = line \o <<c>> /\ <<c>> \in Seq(Symbols)
  BY <1>3, <1>4, AppendFacts
<1>6. Len(line) \in Nat /\ Len(ev) \in Nat /\ DOMAIN line = 1..Len(line)
  BY <1>4, ConcatFacts
<1>7. EventInv'
  <2>1. ASSUME NEW k \in DOMAIN line' PROVE line'[k] # "n"
    <3>1. k \in 1..Len(line) \/ k = Len(line) + 1
      BY <1>5, <1>6
    <3>2. QED
      BY <1>4, <1>5, <1>6, <3>1
  <2>2. QED
    BY <1>1, <1>2, <2>1 DEF EventInv
<1>8. SSETypeOK'
  BY <1>1, <1>2, <1>3, <1>5 DEF SSETypeOK
<1>9. BufferInv'
  <2>1. PICK m \in Nat, n \in Nat : m = Len(line) /\ n = Len(ev)
    BY <1>6
  <2>2. m + n <= Cap + mid
    BY <1>2, <2>1 DEF BufferInv
  <2>3. (m + 1) + n <= Cap + mid'
    BY <1>3, <2>2, SSEAssumption
  <2>4. Len(line') + Len(ev') <= Cap + mid'
    BY <1>1, <1>5, <2>1, <2>3
  <2>5. QED
    BY <1>1, <1>2, <2>4 DEF BufferInv
<1>10. HistoryInv'
  <2>1. CASE exact
    BY <1>3, <2>1, TakenFacts DEF HistoryInv
  <2>2. CASE ~exact
    <3>1. AgreeInv /\ out = closed /\ rest = ev \o line
      BY <1>2, <2>2, TakenFacts DEF AgreeInv
    <3>2. ~Boundary(Append(rest, c), Len(rest) + 1)
      BY <1>3, AppendFacts DEF Boundary
    <3>3. rest' = Append(rest, c) /\ closed' = closed
      BY <1>3, <3>2, HeardOpen
    <3>4. rest' = ev' \o line'
      <4>1. Append(rest, c) = rest \o <<c>>
        BY <1>3, AppendFacts
      <4>2. (ev \o line) \o <<c>> = ev \o (line \o <<c>>)
        BY <1>4, <1>5, Assoc
      <4>3. QED
        BY <1>1, <1>5, <3>1, <3>3, <4>1, <4>2
    <3>5. AgreeInv'
      BY <1>1, <1>3, <3>1, <3>3, <3>4 DEF AgreeInv
    <3>6. QED
      BY <1>3, <3>5 DEF HistoryInv
  <2>3. QED
    BY <2>1, <2>2
<1>11. HideInv'
  BY <1>1, <1>2, <1>3 DEF HideInv
<1>12. QED
  BY <1>3, <1>7, <1>8, <1>9, <1>10, <1>11 DEF SSEInv

\* ingest keeps the invariant, byte by byte.
LEMMA IngestStep ==
    ASSUME SSEInv, NEW c \in Alphabet, Ingest(c)
    PROVE  SSEInv'
<1>1. Taken(c)
  <2>1. c \in Symbols
    BY SSEAssumption DEF Symbols
  <2>2. QED
    BY <2>1 DEF Taken, Ingest
<1>2. CASE mode # "lines" /\ scanBoundary(c)
  BY <1>1, <1>2, ScanStep
<1>3. CASE mode = "lines" /\ c # "n" /\ line' = Append(line, c) /\ UNCHANGED <<eventVars, mode, bstate, out>>
  BY <1>1, <1>3, PartStep
<1>4. CASE mode = "lines" /\ c = "n" /\ line' = <<>> /\ completeLine(Append(line, c))
  <2>1. CASE IsBlank(Append(line, c)) /\ finishEvent(Append(line, c))
    BY <1>1, <1>4, <2>1, BlankStep
  <2>2. CASE ~IsBlank(Append(line, c)) /\ evSize + Len(Append(line, c)) > Cap /\ Overflow(Append(line, c), 1)
    BY <1>1, <1>4, <2>2, OverflowStep
  <2>3. CASE ~IsBlank(Append(line, c)) /\ evSize + Len(Append(line, c)) <= Cap /\ keepLine(Append(line, c))
    BY <1>1, <1>4, <2>3, KeepStep
  <2>4. QED
    BY <1>4, <2>1, <2>2, <2>3 DEF completeLine
<1>5. QED
  BY <1>2, <1>3, <1>4 DEF Ingest

--------------------------------------------------------------------------
(* The other steps *)

\* The end of a chunk keeps the invariant, when it takes a line that has no
\* end yet above the cap.
LEMMA EndsOverflow ==
    ASSUME SSEInv, mid > 0, mode = "lines", line # <<>>, Len(line) + evSize > Cap,
           Overflow(line, 0), line' = <<>>, mid' = 0,
           UNCHANGED <<strict, read, done, ended, given, history>>
    PROVE  SSEInv'
<1>1. SSETypeOK /\ BufferInv /\ EventInv /\ HideInv /\ HistoryInv /\ ~done /\ ~ended
  <2>1. mid \in Nat /\ mid # 0
    BY DEF SSEInv, SSETypeOK
  <2>2. QED
    BY <2>1 DEF SSEInv
<1>2. /\ line \in Seq(Symbols) /\ ev \in Seq(Symbols) /\ closed \in Seq(Symbols)
      /\ \A k \in DOMAIN line : line[k] # "n"
  BY <1>1 DEF SSETypeOK, EventInv
<1>3. /\ strict' = strict /\ read' = read /\ done' = done /\ ended' = ended /\ given' = given
      /\ rest' = rest /\ closed' = closed /\ exact' = exact /\ mid' \in Nat
  BY DEF history
<1>4. /\ EventInv' /\ BufferInv' /\ HideInv'
      /\ line' \in Seq(Symbols) /\ ev' \in Seq(Symbols) /\ others' \in Seq(Symbols)
      /\ data' \in Seq(Seq(Symbols)) /\ evSize' \in Nat
      /\ out' \in Seq(Symbols) /\ read' \in 0..Len(out')
      /\ mode' = (IF strict THEN "discard" ELSE "raw") /\ bstate' = 0
      /\ strict => out' = out \o CapError
      /\ ~strict => out' = out \o (ev \o line)
  BY <1>1, <1>2, <1>3, OverflowFacts
<1>5. SSETypeOK'
  BY <1>1, <1>3, <1>4 DEF SSETypeOK
<1>6. ASSUME AgreeInv PROVE AgreeInv'
  <2>1. out = closed /\ rest = ev \o line
    BY <1>1, <1>6 DEF AgreeInv
  <2>2. /\ Len(rest) = Len(ev) + Len(line) /\ Len(ev) \in Nat /\ Len(line) \in Nat
        /\ Len(line) # 0 /\ DOMAIN line = 1..Len(line)
        /\ \A k \in 1..Len(line) : rest[Len(ev) + k] = line[k]
    BY <1>2, <2>1, ConcatFacts
  <2>3. PICK m \in Nat, n \in Nat : m = Len(ev) /\ n = Len(line)
    BY <2>2
  <2>4. Len(rest) = m + n /\ n > 0 /\ m <= Cap /\ m + n > Cap
    <3>1. evSize = m /\ m <= Cap
      BY <1>1, <2>3 DEF BufferInv
    <3>2. n + m > Cap /\ n # 0
      BY <2>2, <2>3, <3>1
    <3>3. m + n > Cap /\ n > 0
      BY <3>2, SSEAssumption
    <3>4. QED
      BY <2>2, <2>3, <3>1, <3>3
  <2>5. \A k \in 1..n : rest[m + k] # "n"
    BY <1>2, <2>2, <2>3
  <2>6. rest[m + n] # "n"
    BY <2>4, <2>5
  <2>7. rest[(m + n) - 1] = "n" => m + n = Cap + 1
    <3>1. n > 1 => n - 1 \in 1..n /\ m + (n - 1) = (m + n) - 1
      OBVIOUS
    <3>2. n > 1 => rest[(m + n) - 1] # "n"
      BY <2>5, <3>1
    <3>3. n = 1 => m + n = Cap + 1
      BY <2>4, SSEAssumption
    <3>4. QED
      BY <2>4, <3>2, <3>3
  <2>8. DetectorInv'
    BY <1>3, <1>4, <2>4, <2>6, <2>7 DEF DetectorInv
  <2>9. CASE strict
    <3>1. mode' = "discard" /\ strict' /\ out' = closed' \o CapError
      BY <1>3, <1>4, <2>1, <2>9
    <3>2. QED
      BY <2>8, <3>1 DEF AgreeInv
  <2>10. CASE ~strict
    <3>1. mode' = "raw" /\ ~strict' /\ out' = closed' \o rest'
      BY <1>3, <1>4, <2>1, <2>10
    <3>2. QED
      BY <2>8, <3>1 DEF AgreeInv
  <2>11. QED
    BY <2>9, <2>10
<1>7. HistoryInv'
  BY <1>1, <1>3, <1>6 DEF HistoryInv
<1>8. QED
  BY <1>1, <1>3, <1>4, <1>5, <1>7 DEF SSEInv

\* The end of a chunk keeps the invariant.
LEMMA IngestEndsStep ==
    ASSUME SSEInv, IngestEnds
    PROVE  SSEInv'
<1>1. CASE mode = "lines" /\ line # <<>> /\ Len(line) + evSize > Cap /\ Overflow(line, 0) /\ line' = <<>>
  BY <1>1, EndsOverflow DEF IngestEnds
<1>2. CASE /\ mode # "lines" \/ line = <<>> \/ Len(line) + evSize <= Cap
           /\ UNCHANGED <<line, eventVars, mode, bstate, out>>
  <2>1. SSETypeOK /\ BufferInv /\ EventInv /\ HideInv /\ HistoryInv /\ ~done /\ ~ended
    <3>1. mid \in Nat /\ mid # 0
      BY DEF SSEInv, SSETypeOK, IngestEnds
    <3>2. QED
      BY <3>1 DEF SSEInv
  <2>2. /\ strict' = strict /\ read' = read /\ done' = done /\ ended' = ended /\ given' = given
        /\ rest' = rest /\ closed' = closed /\ exact' = exact /\ mid' = 0
        /\ line' = line /\ ev' = ev /\ others' = others /\ data' = data /\ evSize' = evSize
        /\ mode' = mode /\ bstate' = bstate /\ out' = out /\ mid > 0
    BY <1>2 DEF history, eventVars, IngestEnds
  <2>3. SSETypeOK'
    BY <2>1, <2>2 DEF SSETypeOK
  <2>4. EventInv' /\ HideInv'
    BY <2>1, <2>2 DEF EventInv, HideInv
  <2>5. BufferInv'
    <3>1. PICK m \in Nat, n \in Nat : m = Len(line) /\ n = Len(ev)
      BY <2>1, ConcatFacts DEF SSETypeOK
    <3>2. evSize = n /\ n <= Cap /\ (mode # "lines" => line = <<>> /\ ev = <<>>)
      BY <2>1, <3>1 DEF BufferInv
    <3>3. line = <<>> => m = 0
      BY <3>1
    <3>4. m = 0 \/ m + n <= Cap
      BY <1>2, <3>1, <3>2, <3>3
    <3>5. m + n <= Cap + 0
      BY <3>2, <3>4, SSEAssumption
    <3>6. QED
      BY <2>2, <3>1, <3>2, <3>5 DEF BufferInv
  <2>6. HistoryInv'
    <3>1. ASSUME AgreeInv PROVE AgreeInv'
      <4>1. DetectorInv => DetectorInv'
        BY <2>2 DEF DetectorInv
      <4>2. QED
        BY <2>2, <3>1, <4>1 DEF AgreeInv
    <3>2. QED
      BY <2>1, <2>2, <3>1 DEF HistoryInv
  <2>7. QED
    BY <2>1, <2>2, <2>3, <2>4, <2>5, <2>6 DEF SSEInv
<1>3. QED
  BY <1>1, <1>2 DEF IngestEnds

\* What finish writes of lines under way holds no event.
LEMMA LeftHides ==
    ASSUME SSETypeOK, EventInv, AtCut(out), Hides(out)
    PROVE  Hides(out \o (ev \o line))
<1>1. /\ ev \in Seq(Symbols) /\ line \in Seq(Symbols) /\ out \in Seq(Symbols)
      /\ Ending(ev) /\ \A k \in DOMAIN ev : ~Boundary(ev, k)
      /\ \A k \in DOMAIN line : line[k] # "n"
  BY DEF SSETypeOK, EventInv, Whole
<1>2. PICK p : p = ev \o line
  OBVIOUS
<1>3. /\ p \in Seq(Symbols) /\ Len(p) = Len(ev) + Len(line) /\ Len(ev) \in Nat /\ Len(line) \in Nat
      /\ DOMAIN ev = 1..Len(ev) /\ DOMAIN line = 1..Len(line)
      /\ \A k \in 1..Len(line) : p[Len(ev) + k] = line[k]
  BY <1>1, <1>2, ConcatFacts
<1>4. ASSUME NEW k \in 1..Len(p) PROVE ~Boundary(p, k)
  <2>1. CASE k \in 1..Len(ev)
    BY <1>1, <1>2, <1>3, <2>1, BoundaryBefore
  <2>2. CASE k > Len(ev)
    <3>1. k - Len(ev) \in 1..Len(line) /\ Len(ev) + (k - Len(ev)) = k
      BY <1>3, <2>2
    <3>2. p[k] # "n"
      BY <1>1, <1>3, <3>1
    <3>3. QED
      BY <3>2 DEF Boundary
  <2>3. QED
    BY <1>3, <2>1, <2>2
<1>5. QED
  BY <1>1, <1>2, <1>3, <1>4, HidesAfter

\* The end of the stream keeps the invariant.
LEMMA FinishStep ==
    ASSUME SSEInv, finish
    PROVE  SSEInv'
<1>1. /\ SSETypeOK /\ BufferInv /\ EventInv /\ HideInv /\ HistoryInv /\ ~done /\ ~ended
      /\ mid = 0 /\ done' = TRUE
  BY DEF SSEInv, finish
<1>2. /\ strict' = strict /\ read' = read /\ ended' = ended /\ given' = given /\ mid' = 0
      /\ rest' = rest /\ closed' = closed /\ exact' = exact
      /\ mode' = mode /\ bstate' = bstate
  BY <1>1 DEF finish, history
<1>3. CASE mode = "lines" /\ out' = out \o (ev \o line) /\ line' = <<>> /\ resetEvent
  <2>1. /\ ev \in Seq(Symbols) /\ line \in Seq(Symbols) /\ closed \in Seq(Symbols)
        /\ ev \o line \in Seq(Symbols) /\ Len(ev \o line) = Len(ev) + Len(line)
        /\ Len(ev) \in Nat /\ Len(line) \in Nat
    BY <1>1, ConcatFacts DEF SSETypeOK
  <2>2. out' \in Seq(Symbols) /\ read' \in 0..Len(out')
    BY <1>1, <1>2, <1>3, <2>1, WriteType
  <2>3. /\ EventInv' /\ BufferInv'
        /\ line' \in Seq(Symbols) /\ ev' \in Seq(Symbols) /\ others' \in Seq(Symbols)
        /\ data' \in Seq(Seq(Symbols)) /\ evSize' \in Nat
    BY <1>2, <1>3, ResetFacts
  <2>4. SSETypeOK'
    BY <1>1, <1>2, <2>2, <2>3 DEF SSETypeOK
  <2>5. HideInv'
    BY <1>1, <1>2, <1>3, LeftHides DEF HideInv
  <2>6. ASSUME AgreeInv PROVE AgreeInv'
    <3>1. out = closed /\ rest = ev \o line
      BY <1>1, <1>3, <2>6 DEF AgreeInv
    <3>2. Len(rest) <= Cap
      <4>1. PICK m \in Nat, n \in Nat : m = Len(ev) /\ n = Len(line)
        BY <2>1
      <4>2. n + m <= Cap + 0
        BY <1>1, <4>1 DEF BufferInv
      <4>3. m + n <= Cap
        BY <4>2, SSEAssumption
      <4>4. QED
        BY <2>1, <3>1, <4>1, <4>3
    <3>3. QED
      BY <1>1, <1>2, <1>3, <3>1, <3>2 DEF AgreeInv
  <2>7. HistoryInv'
    BY <1>1, <1>2, <2>6 DEF HistoryInv
  <2>8. QED
    BY <1>1, <1>2, <2>3, <2>4, <2>5, <2>7 DEF SSEInv
<1>4. CASE mode # "lines" /\ UNCHANGED <<line, eventVars, out>>
  <2>1. /\ line' = line /\ ev' = ev /\ others' = others /\ data' = data /\ evSize' = evSize
        /\ out' = out
    BY <1>4 DEF eventVars
  <2>2. SSETypeOK'
    BY <1>1, <1>2, <2>1 DEF SSETypeOK
  <2>3. EventInv' /\ HideInv' /\ BufferInv'
    BY <1>1, <1>2, <2>1 DEF EventInv, HideInv, BufferInv
  <2>4. ASSUME AgreeInv PROVE AgreeInv'
    <3>1. DetectorInv => DetectorInv'
      BY <1>1, <1>2 DEF DetectorInv
    <3>2. QED
      BY <1>2, <1>4, <2>1, <2>4, <3>1 DEF AgreeInv
  <2>5. HistoryInv'
    BY <1>1, <1>2, <2>4 DEF HistoryInv
  <2>6. QED
    BY <1>1, <1>2, <2>2, <2>3, <2>5 DEF SSEInv
<1>5. QED
  BY <1>3, <1>4 DEF finish, Write

\* A step that leaves the rewriter alone keeps the invariant.
LEMMA IdleStep ==
    ASSUME SSEInv,
           UNCHANGED <<strict, line, ev, others, data, evSize, mode, bstate, out, mid, done,
                       given, rest, closed, exact>>,
           read' \in 0..Len(out), ended' => done /\ read' = Len(out)
    PROVE  SSEInv'
<1>1. SSETypeOK'
  BY DEF SSEInv, SSETypeOK
<1>2. BufferInv' /\ EventInv' /\ HideInv'
  BY DEF SSEInv, BufferInv, EventInv, HideInv
<1>3. HistoryInv'
  <2>1. AgreeInv => AgreeInv'
    <3>1. DetectorInv => DetectorInv'
      BY DEF DetectorInv
    <3>2. QED
      BY <3>1 DEF AgreeInv
  <2>2. QED
    BY <2>1 DEF SSEInv, HistoryInv
<1>4. QED
  BY <1>1, <1>2, <1>3 DEF SSEInv

--------------------------------------------------------------------------
(* The theorems *)

\* The inductive invariant: what is buffered and how much, that the lines of
\* an event are sorted as keepLine found them, that the boundary detector
\* has read what came in, that what is out and what is buffered make up what
\* came in, and that no client can find a message in it.
THEOREM SSEInvHolds == Spec => []SSEInv
<1>1. Init => SSEInv
  <2>1. SUFFICES ASSUME Init PROVE SSEInv
    OBVIOUS
  <2>2. /\ line = <<>> /\ ev = <<>> /\ others = <<>> /\ data = <<>> /\ evSize = 0
        /\ mode = "lines" /\ bstate = 0 /\ out = <<>> /\ read = 0 /\ mid = 0 /\ given = 0
        /\ ~done /\ ~ended /\ rest = <<>> /\ closed = <<>>
    BY <2>1, Zenon DEF Init
  <2>3. Len(line) = 0 /\ Len(ev) = 0 /\ Len(out) = 0 /\ Len(rest) = 0 /\ DOMAIN rest = {}
    BY <2>2
  <2>4. SSETypeOK
    BY <2>2, <2>3, OwnText, NothingSorted DEF SSETypeOK
  <2>5. EventInv
    BY <2>2, NothingSorted DEF EventInv
  <2>6. BufferInv
    BY <2>2, <2>3, SSEAssumption DEF BufferInv
  <2>7. HistoryInv
    <3>1. ev \o line = rest
      BY <2>2
    <3>2. QED
      BY <2>2, <2>3, <3>1 DEF HistoryInv, AgreeInv
  <2>8. HideInv
    BY <2>2, <2>3 DEF HideInv, Hides, AtCut
  <2>9. QED
    BY <2>2, <2>4, <2>5, <2>6, <2>7, <2>8 DEF SSEInv
<1>2. SSEInv /\ [Next]_vars => SSEInv'
  <2>1. SUFFICES ASSUME SSEInv, [Next]_vars PROVE SSEInv'
    OBVIOUS
  <2>2. read \in 0..Len(out) /\ Len(out) \in Nat
    BY <2>1, ConcatFacts DEF SSEInv, SSETypeOK
  <2>3. ended => done /\ read = Len(out)
    BY <2>1 DEF SSEInv
  <2>4. ASSUME NEW c \in Alphabet, Ingest(c) PROVE SSEInv'
    BY <2>1, <2>4, IngestStep
  <2>5. CASE IngestEnds
    BY <2>1, <2>5, IngestEndsStep
  <2>6. CASE SourceEnds
    BY <2>1, <2>2, <2>3, <2>6, IdleStep DEF SourceEnds, eventVars, history
  <2>7. CASE finish
    BY <2>1, <2>7, FinishStep
  <2>8. CASE ReadOut
    <3>1. /\ UNCHANGED <<strict, line, ev, others, data, evSize, mode, bstate, out, mid, done,
                         given, rest, closed, exact>>
          /\ ended' = ended /\ read' \in (read + 1)..Len(out)
      BY <2>8 DEF ReadOut, eventVars, sourceVars, history
    <3>2. read' \in 0..Len(out) /\ read # Len(out)
      BY <2>2, <3>1
    <3>3. QED
      BY <2>1, <2>3, <3>1, <3>2, IdleStep
  <2>9. CASE ReadEnd
    BY <2>1, <2>2, <2>9, IdleStep DEF ReadEnd, eventVars, sourceVars, history
  <2>10. CASE Ended
    BY <2>1, <2>2, <2>3, <2>10, IdleStep DEF Ended, vars
  <2>11. CASE UNCHANGED vars
    BY <2>1, <2>2, <2>3, <2>11, IdleStep DEF vars
  <2>12. QED
    BY <2>1, <2>4, <2>5, <2>6, <2>7, <2>8, <2>9, <2>10, <2>11 DEF Next
<1>3. QED
  BY <1>1, <1>2, PTL DEF Spec

\* The rewriter never holds more than the cap and the chunk it is taking in,
\* and nothing of an event above the cap (ingest, completeLine).
THEOREM BufferBoundedHolds == Spec => []BufferBounded
<1>1. SSEInv => BufferBounded
  BY DEF SSEInv, BufferInv, BufferBounded
<1>2. QED
  BY <1>1, SSEInvHolds, PTL

\* The client is given what is due for what has come in, however the stream
\* was cut into chunks, but for a blank line cut after \r behind an event of
\* exactly the cap; and the end only after everything else (Read).
THEOREM SplitsAgreeHolds == Spec => []SplitsAgree
<1>1. SSEInv => SplitsAgree
  <2>1. SUFFICES ASSUME SSEInv PROVE SplitsAgree
    OBVIOUS
  <2>2. ended => read = Len(out)
    BY <2>1 DEF SSEInv
  <2>3. ASSUME mid = 0, srcErr => done PROVE exact \/ out = closed \o TreatedRest
    <3>1. SUFFICES ASSUME AgreeInv PROVE out = closed \o TreatedRest
      BY <2>1 DEF SSEInv, HistoryInv
    <3>2. closed \in Seq(Symbols) /\ mode \in {"lines", "raw", "discard"}
      BY <2>1 DEF SSEInv, SSETypeOK
    <3>3. CASE mode = "lines" /\ ~done
      <4>1. out = closed /\ rest = ev \o line
        BY <3>1, <3>3 DEF AgreeInv
      <4>2. PICK m \in Nat, n \in Nat : m = Len(ev) /\ n = Len(line) /\ Len(rest) = m + n
        BY <2>1, <4>1, ConcatFacts DEF SSEInv, SSETypeOK
      <4>3. n + m <= Cap + 0
        BY <2>1, <2>3, <4>2 DEF SSEInv, BufferInv
      <4>4. ~(m + n > Cap)
        BY <4>3, SSEAssumption
      <4>5. TreatedRest = <<>>
        BY <3>3, <4>2, <4>4 DEF TreatedRest
      <4>6. QED
        BY <3>2, <4>1, <4>5, ConcatEmptySeq
    <3>4. CASE mode = "lines" /\ done
      <4>1. out = closed \o rest /\ Len(rest) <= Cap
        BY <3>1, <3>4 DEF AgreeInv
      <4>2. ~(Len(rest) > Cap)
        <5>1. PICK n \in Nat : n = Len(rest)
          BY <2>1, ConcatFacts DEF SSEInv, SSETypeOK
        <5>2. ~(n > Cap)
          BY <4>1, <5>1, SSEAssumption
        <5>3. QED
          BY <5>1, <5>2
      <4>3. QED
        BY <3>4, <4>1, <4>2 DEF TreatedRest
    <3>5. CASE mode # "lines"
      <4>1. DetectorInv => Len(rest) > Cap
        BY DEF DetectorInv
      <4>2. QED
        BY <3>1, <3>2, <3>5, <4>1 DEF AgreeInv, TreatedRest
    <3>6. QED
      BY <3>3, <3>4, <3>5
  <2>4. QED
    BY <2>2, <2>3 DEF SplitsAgree
<1>2. QED
  BY <1>1, SSEInvHolds, PTL

\* In strict mode a client never dispatches a message that had to be
\* replaced, for every split (finishEvent, overflowPartial, finish).
THEOREM StrictHidesHolds == Spec => []StrictHides
<1>1. SSEInv => StrictHides
  <2>1. SUFFICES ASSUME SSEInv, strict, NEW b \in 0..read, NEW e \in 1..read, Dispatched(out, b, e)
                 PROVE  ~MustReplace(SubSeq(out, b + 1, e))
    BY DEF StrictHides
  <2>2. Hides(out) /\ out \in Seq(Symbols) /\ read \in 0..Len(out)
    BY <2>1 DEF SSEInv, HideInv, SSETypeOK
  <2>3. b \in 0..Len(out) /\ e \in 1..Len(out)
    BY <2>1, <2>2, ConcatFacts
  <2>4. QED
    BY <2>1, <2>2, <2>3 DEF Hides
<1>2. QED
  BY <1>1, SSEInvHolds, PTL
=============================================================================
