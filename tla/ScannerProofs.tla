-------------------------- MODULE ScannerProofs --------------------------
(***************************************************************************)
(* Proofs about Scanner, for every number of callers, slots, pool sizes,   *)
(* scans and spawns.                                                       *)
(***************************************************************************)
EXTENDS Scanner, TLAPS, FiniteSetTheorems, FunctionTheorems

\* A caller has started a scan from Call on.
CallInv ==
    \A c \in Callers :
        /\ pc[c] # "idle" => scan[c] > 0
        /\ chan[c] # Nothing =>
              pc[c] = "select" /\ (chan[c].ok = TRUE => chan[c].of = Text(c))

\* Spawns and slots: a spawn has its pipes open exactly as long as a slot,
\* one and no other, runs it, and no process outlives that.
RunInv ==
    /\ \A p, q \in Slots : (run[p] = run[q] /\ run[p] # 0) => p = q
    /\ \A p \in Slots : run[p] # 0 => run[p] \in open
    /\ \A i \in open : \E p \in Slots : run[p] = i
    /\ \A i \in open : i <= spawned
    /\ \A i \in Spawns : up[i] \in {"live", "wedged"} => i \in open
    /\ \A i \in Spawns : i > spawned => up[i] = "fresh"
    /\ \A p \in retired : run[p] = 0

\* A goroutine that can still talk to its spawn works for the scan that
\* holds the spawn's slot and waits for it; the others are left over, each
\* from a scan of its own.
GoOK(g) ==
    LET c == g.text[1] IN
    /\ g.text[2] <= scan[c]
    /\ pc[c] \in {"wait", "ensure"} => g.text[2] # scan[c]
    /\ \A h \in gos : h.text = g.text => h = g
    /\ g.spawn <= spawned
    /\ g.spawn \in open =>
          /\ pc[c] = "select" /\ g.text = Text(c)
          /\ run[held[c]] = g.spawn /\ chan[c] = Nothing

GoInv == \A g \in gos : GoOK(g)

Empty(i) == inbox[i] = <<>> /\ outbox[i] = <<>>

\* The pipes of spawn i hold the frame or the answer of goroutine g.
Carries(i, g) ==
    /\ i \in open /\ g.spawn = i /\ g.at = "read"
    /\ \/ inbox[i] = <<g.text>> /\ outbox[i] = <<>>
       \/ inbox[i] = <<>> /\ outbox[i] = <<[ok |-> TRUE, of |-> g.text]>>

\* What is in the pipes of a spawn: the frame or the answer of the one
\* goroutine that talks to it, and nothing when there is none.
PipeInv ==
    \A i \in Spawns :
        /\ up[i] = "gone" => inbox[i] = <<>>
        /\ Empty(i) \/ \E g \in gos : Carries(i, g)

ScannerInv ==
    TypeOK /\ Exclusive /\ CallInv /\ RunInv /\ GoInv /\ PipeInv /\ VerdictIsOwn

--------------------------------------------------------------------------
(* Facts about the shape of the state *)

USE DEF slotVars, procVars, callVars, States, Holding, Handle

\* Scanner's bounds are numbers, and a slot is none of the other values that
\* held and closer have.
LEMMA Bounds ==
    /\ MaxSpawns \in Nat /\ Spawns \subseteq Nat /\ Spawns = 1..MaxSpawns
    /\ \A c \in Callers : MaxScans[c] \in Nat
    /\ Nobody \notin Slots
    /\ \A v \in Slots \cup {Nobody} : v # "before" /\ v # "drain" /\ v # "done"
BY ScannerAssumption DEF Spawns

\* A text names its caller and the number of the scan.
LEMMA TextShape ==
    ASSUME NEW t \in Texts
    PROVE  t[1] \in Callers /\ t[2] \in Nat /\ t = <<t[1], t[2]>>
<1>1. PICK c \in Callers : t \in {c} \X (1..MaxScans[c])
  BY DEF Texts
<1>2. QED
  BY <1>1

\* The text of a scan that has begun is a text.
LEMMA TextBegun ==
    ASSUME CallsOK, CallInv, NEW c \in Callers, pc[c] # "idle"
    PROVE  Text(c) \in Texts /\ Text(c)[1] = c /\ Text(c)[2] = scan[c]
<1>1. scan[c] \in 1..MaxScans[c]
  BY Bounds DEF CallsOK, CallInv
<1>2. Text(c) \in {c} \X (1..MaxScans[c])
  BY <1>1 DEF Text
<1>3. QED
  BY <1>2 DEF Texts, Text

\* A goroutine holds a text and the spawn whose handles it captured.
LEMMA GoShape ==
    ASSUME ResultsOK, NEW g \in gos
    PROVE  /\ g.text \in Texts /\ g.spawn \in Spawns /\ g.at \in {"write", "read"}
           /\ g.text[1] \in Callers /\ g.text[2] \in Nat
           /\ g.text = <<g.text[1], g.text[2]>>
<1>1. g \in [text : Texts, spawn : Spawns, at : {"write", "read"}]
  BY DEF ResultsOK
<1>2. QED
  BY <1>1, TextShape

\* A caller in the middle of a Scan holds a slot.
LEMMA HeldSlot ==
    ASSUME CallsOK, NEW c \in Callers, pc[c] \in Holding
    PROVE  held[c] \in Slots
BY DEF CallsOK

\* At most one goroutine can talk to a spawn: it is the one of the caller
\* that holds the slot (Exclusive), and a caller has one scan at a time.
LEMMA OneTalks ==
    ASSUME ScannerInv, NEW g \in gos, NEW h \in gos, g.spawn = h.spawn, g.spawn \in open
    PROVE  g = h
<1> DEFINE c == g.text[1]
           d == h.text[1]
<1>1. c \in Callers /\ d \in Callers
  BY GoShape DEF ScannerInv, TypeOK
<1>2. /\ pc[c] = "select" /\ g.text = Text(c) /\ run[held[c]] = g.spawn
      /\ pc[d] = "select" /\ h.text = Text(d) /\ run[held[d]] = g.spawn
  BY DEF ScannerInv, GoInv, GoOK
<1>3. held[c] \in Slots /\ held[d] \in Slots /\ held[c] # Nobody
  BY <1>1, <1>2, HeldSlot, Bounds DEF ScannerInv, TypeOK
<1>4. g.spawn # 0
  BY GoShape, Bounds DEF ScannerInv, TypeOK
<1>5. held[c] = held[d]
  BY <1>2, <1>3, <1>4 DEF ScannerInv, RunInv
<1>6. c = d
  BY <1>1, <1>3, <1>5 DEF ScannerInv, Exclusive
<1>7. g.text = h.text
  BY <1>2, <1>6
<1>8. QED
  BY <1>7 DEF ScannerInv, GoInv, GoOK

--------------------------------------------------------------------------
(* kill and shutdown *)

\* What kill and shutdown have in common: the pipes of the slot's spawn are
\* closed, the process is reaped, the slot forgets it.
Stops(p) ==
    /\ ClosePipes(run[p])
    /\ up' = IF run[p] = 0 THEN up ELSE [up EXCEPT ![run[p]] = "gone"]
    /\ run' = [run EXCEPT ![p] = 0]
    /\ UNCHANGED spawned

\* A stop empties the pipes of the one spawn and touches no other.
LEMMA StopEffect ==
    ASSUME SlotsOK, SpawnsOK, NEW p \in Slots, Stops(p)
    PROVE  /\ SpawnsOK' /\ open' = open \ {run[p]}
           /\ run' \in [Slots -> 0..MaxSpawns]
           /\ run'[p] = 0 /\ \A q \in Slots : q # p => run'[q] = run[q]
           /\ \A i \in Spawns :
                 IF i = run[p] THEN up'[i] = "gone" /\ inbox'[i] = <<>> /\ outbox'[i] = <<>>
                 ELSE up'[i] = up[i] /\ inbox'[i] = inbox[i] /\ outbox'[i] = outbox[i]
<1>1. run[p] \in 0..MaxSpawns /\ (run[p] # 0 => run[p] \in Spawns)
  BY Bounds DEF SlotsOK
<1>2. run' \in [Slots -> 0..MaxSpawns] /\ run'[p] = 0 /\ \A q \in Slots : q # p => run'[q] = run[q]
  BY Bounds DEF SlotsOK, Stops
<1>3. CASE run[p] = 0
  <2>1. UNCHANGED <<up, inbox, outbox, spawned>> /\ open' = open \ {run[p]}
    BY <1>3 DEF Stops, ClosePipes
  <2>2. QED
    BY <1>2, <1>3, <2>1, Bounds DEF SpawnsOK
<1>4. CASE run[p] # 0
  <2>1. /\ up' = [up EXCEPT ![run[p]] = "gone"] /\ open' = open \ {run[p]}
        /\ inbox' = [inbox EXCEPT ![run[p]] = <<>>]
        /\ outbox' = [outbox EXCEPT ![run[p]] = <<>>] /\ UNCHANGED spawned
    BY <1>4 DEF Stops, ClosePipes
  <2>2. inbox' \in [Spawns -> Seq(Texts)]
    BY <1>1, <1>4, <2>1 DEF SpawnsOK
  <2>3. outbox' \in [Spawns -> Seq(Answers)]
    BY <1>1, <1>4, <2>1 DEF SpawnsOK
  <2>4. SpawnsOK'
    BY <1>1, <1>4, <2>1, <2>2, <2>3 DEF SpawnsOK
  <2>5. QED
    BY <1>1, <1>2, <1>4, <2>1, <2>4 DEF SpawnsOK
<1>5. QED
  BY <1>3, <1>4

\* The spawns and the pipes after a stop: the invariants that say nothing of
\* callers.
LEMMA StopKept ==
    ASSUME ScannerInv, NEW p \in Slots, Stops(p), UNCHANGED gos,
           retired' \subseteq retired \cup {p}
    PROVE  RunInv' /\ PipeInv'
<1>1. SlotsOK /\ SpawnsOK
  BY DEF ScannerInv, TypeOK
<1>2. /\ open' = open \ {run[p]} /\ UNCHANGED spawned
      /\ run'[p] = 0 /\ \A q \in Slots : q # p => run'[q] = run[q]
      /\ \A i \in Spawns :
            IF i = run[p] THEN up'[i] = "gone" /\ inbox'[i] = <<>> /\ outbox'[i] = <<>>
            ELSE up'[i] = up[i] /\ inbox'[i] = inbox[i] /\ outbox'[i] = outbox[i]
  BY <1>1, StopEffect DEF Stops
<1>3. RunInv'
  <2>1. run[p] # 0 => run[p] \in open /\ run[p] <= spawned
    BY DEF ScannerInv, RunInv
  <2>2. \A q \in Slots : run[q] # 0 => run[q] \in open
    BY DEF ScannerInv, RunInv
  <2>3. /\ \A q, r \in Slots : (run'[q] = run'[r] /\ run'[q] # 0) => q = r
        /\ \A q \in Slots : run'[q] # 0 => run'[q] \in open'
        /\ \A q \in retired' : run'[q] = 0
    BY <1>1, <1>2, <2>2 DEF ScannerInv, RunInv, SlotsOK
  <2>4. /\ \A i \in open' : \E q \in Slots : run'[q] = i
        /\ \A i \in open' : i <= spawned'
    BY <1>2 DEF ScannerInv, RunInv
  <2>5. ASSUME NEW i \in Spawns
        PROVE  /\ up'[i] \in {"live", "wedged"} => i \in open'
               /\ i > spawned' => up'[i] = "fresh"
    <3>1. CASE i = run[p]
      BY <1>1, <1>2, <2>1, <3>1, Bounds DEF SpawnsOK
    <3>2. CASE i # run[p]
      BY <1>2, <3>2 DEF ScannerInv, RunInv
    <3>3. QED
      BY <3>1, <3>2
  <2>6. QED
    BY <2>3, <2>4, <2>5 DEF RunInv
<1>4. PipeInv'
  <2>1. ASSUME NEW i \in Spawns
        PROVE  /\ up'[i] = "gone" => inbox'[i] = <<>>
               /\ Empty(i)' \/ \E g \in gos' : Carries(i, g)'
    <3>1. CASE i = run[p]
      BY <1>2, <3>1 DEF Empty
    <3>2. CASE i # run[p]
      <4>1. up'[i] = up[i] /\ inbox'[i] = inbox[i] /\ outbox'[i] = outbox[i]
        BY <1>2, <3>2
      <4>2. (i \in open) = (i \in open')
        BY <1>2, <3>2
      <4>3. /\ up[i] = "gone" => inbox[i] = <<>>
            /\ Empty(i) \/ \E g \in gos : Carries(i, g)
        BY DEF ScannerInv, PipeInv
      <4>4. QED
        BY <4>1, <4>2, <4>3 DEF Empty, Carries
    <3>3. QED
      BY <3>1, <3>2
  <2>2. QED
    BY <2>1 DEF PipeInv
<1>5. QED
  BY <1>3, <1>4

--------------------------------------------------------------------------
(* The beginning and the end of a goroutine *)

GoType == [text : Texts, spawn : Spawns, at : {"write", "read"}]

\* A goroutine starts on a spawn that its caller's slot runs: no other can
\* talk to that spawn, and none has its text.
LEMMA GoStarts ==
    ASSUME ScannerInv, NEW c \in Callers, pc[c] = "ensure",
           NEW i \in Spawns, Go(c, i), i \in open \/ i = spawned + 1,
           UNCHANGED <<held, scan>>, open' \subseteq open \cup {i},
           spawned <= spawned', i <= spawned', spawned' \in Nat,
           run'[held[c]] = i, \A q \in Slots : q # held[c] => run'[q] = run[q]
    PROVE  gos' \subseteq GoType /\ chan' \in [Callers -> Answers \cup {Nothing}] /\ GoInv'
<1> DEFINE n == [text |-> Text(c), spawn |-> i, at |-> "write"]
<1>1. Text(c) \in Texts /\ Text(c)[1] = c /\ Text(c)[2] = scan[c]
  BY TextBegun DEF ScannerInv, TypeOK
<1>2. gos' = gos \cup {n} /\ n \in GoType
  BY <1>1 DEF Go, GoType
<1>3. gos \subseteq GoType /\ chan' \in [Callers -> Answers \cup {Nothing}]
  BY DEF ScannerInv, TypeOK, ResultsOK, GoType, Go
<1>4. /\ pc'[c] = "select" /\ chan'[c] = Nothing
      /\ \A d \in Callers : d # c => pc'[d] = pc[d] /\ chan'[d] = chan[d]
  BY DEF ScannerInv, TypeOK, CallsOK, ResultsOK, Go
<1>5. ASSUME NEW g \in gos PROVE g.text # Text(c)
  BY <1>1, <1>5 DEF ScannerInv, GoInv, GoOK
<1>6. n.text = Text(c) /\ n.spawn = i
  OBVIOUS
<1>7. \A g, h \in gos' : g.text = h.text => g = h
  BY <1>2, <1>5, <1>6 DEF ScannerInv, GoInv, GoOK
<1>8. spawned \in Nat /\ i \in Nat
  BY Bounds DEF ScannerInv, TypeOK, SpawnsOK
<1>9. ASSUME NEW g \in gos PROVE GoOK(g)'
  <2> DEFINE d == g.text[1]
  <2>1. d \in Callers /\ g.spawn \in Nat
    BY GoShape, Bounds DEF ScannerInv, TypeOK
  <2>2. GoOK(g)
    BY DEF ScannerInv, GoInv
  <2>3. g.spawn \in open' => g.spawn \in open
    BY <1>8, <2>1, <2>2 DEF GoOK
  <2>4. g.spawn <= spawned'
    BY <1>8, <2>1, <2>2 DEF GoOK
  <2>5. CASE d = c
    BY <1>2, <1>4, <1>7, <2>1, <2>2, <2>3, <2>4, <2>5 DEF GoOK, Text
  <2>6. CASE d # c
    <3>1. pc'[d] = pc[d] /\ chan'[d] = chan[d] /\ Text(d)' = Text(d)
      BY <1>4, <2>1, <2>6 DEF Text
    <3>2. pc[d] = "select" => run'[held'[d]] = run[held[d]]
      <4>1. ASSUME pc[d] = "select" PROVE held[d] \in Slots /\ held[d] # held[c]
        BY <2>1, <2>6, <4>1, HeldSlot, Bounds DEF ScannerInv, TypeOK, Exclusive
      <4>2. QED
        BY <4>1
    <3>3. QED
      BY <1>2, <1>7, <2>2, <2>3, <2>4, <3>1, <3>2 DEF GoOK
  <2>7. QED
    BY <2>5, <2>6
<1>10. ASSUME NEW g \in gos', g = n PROVE GoOK(g)'
  <2>1. g.text = Text(c) /\ g.text[1] = c /\ g.text[2] = scan[c] /\ g.spawn = i
    BY <1>1, <1>6, <1>10
  <2>2. Text(c)' = Text(c) /\ scan[c] \in Nat
    BY DEF Text, ScannerInv, TypeOK, CallsOK
  <2>3. QED
    BY <1>4, <1>7, <2>1, <2>2 DEF GoOK
<1>11. QED
  BY <1>2, <1>3, <1>9, <1>10 DEF GoInv

\* A goroutine ends with an answer about its own text, or none: the channel
\* is the one of its scan.
LEMMA GoEnds ==
    ASSUME ScannerInv, NEW g \in gos, NEW r \in Answers, r.ok = TRUE => r.of = g.text,
           Finish(g, r),
           UNCHANGED <<pc, held, scan, run, open, spawned, result>>
    PROVE  ResultsOK' /\ CallInv' /\ GoInv'
<1> DEFINE c == g.text[1]
<1>1. c \in Callers
  BY GoShape DEF ScannerInv, TypeOK
<1>2. gos' = gos \ {g}
  BY DEF Finish
<1>3. /\ chan' \in [Callers -> Answers \cup {Nothing}]
      /\ \A d \in Callers : d # c => chan'[d] = chan[d]
      /\ chan'[c] = (IF Awaited(g) THEN r ELSE chan[c])
  BY <1>1 DEF ScannerInv, TypeOK, ResultsOK, Finish
<1>4. ResultsOK'
  BY <1>2, <1>3 DEF ScannerInv, TypeOK, ResultsOK
<1>5. CallInv'
  <2>1. Awaited(g) => pc[c] = "select" /\ g.text = Text(c)
    BY DEF Awaited
  <2>2. \A d \in Callers : Text(d)' = Text(d)
    BY DEF Text
  <2>3. QED
    BY <1>1, <1>3, <2>1, <2>2 DEF ScannerInv, CallInv
<1>6. ASSUME NEW h \in gos' PROVE GoOK(h)'
  <2>1. h \in gos /\ h # g /\ h.text # g.text /\ GoOK(h) /\ h.text[1] \in Callers
    BY <1>2, GoShape DEF ScannerInv, TypeOK, GoInv, GoOK
  <2>2. h.spawn \in open => chan'[h.text[1]] = chan[h.text[1]]
    BY <1>3, <2>1 DEF GoOK, Awaited
  <2>3. QED
    BY <1>2, <2>1, <2>2 DEF GoOK, Text
<1>7. QED
  BY <1>4, <1>5, <1>6 DEF GoInv

--------------------------------------------------------------------------
(* The steps of Scan, of Close, of the goroutines and of the coprocesses *)

\* The handler calls Scan.  Goroutines its earlier scans left behind have
\* other texts, and cannot reach a spawn.
LEMMA KeptByCall ==
    ASSUME ScannerInv, NEW c \in Callers, Call(c)
    PROVE  ScannerInv'
<1> USE DEF ScannerInv, TypeOK
<1>1. SlotsOK'
  BY Bounds DEF Call, SlotsOK
<1>2. SpawnsOK'
  BY DEF Call, SpawnsOK
<1>3. CallsOK'
  BY Bounds DEF Call, CallsOK, SlotsOK
<1>4. ResultsOK'
  BY DEF Call, CallsOK, ResultsOK
<1>5. Exclusive'
  BY Bounds DEF Call, CallsOK, SlotsOK, Exclusive
<1>6. CallInv'
  BY DEF Call, CallsOK, ResultsOK, CallInv, Text
<1>7. RunInv'
  BY DEF Call, RunInv, SlotsOK, CallsOK, Exclusive
<1>8. GoInv'
  BY Bounds, GoShape DEF Call, GoInv, GoOK, Text, CallsOK
<1>9. PipeInv'
  BY DEF Call, PipeInv, Empty, Carries
<1>10. VerdictIsOwn'
  BY DEF Call, VerdictIsOwn, Text, CallsOK, ResultsOK, Failed, CallInv
<1>11. QED
  BY <1>1, <1>2, <1>3, <1>4, <1>5, <1>6, <1>7, <1>8, <1>9, <1>10

\* p := <-s.pool: the slot leaves the channel for one caller.
LEMMA KeptByAcquire ==
    ASSUME ScannerInv, NEW c \in Callers, Acquire(c)
    PROVE  ScannerInv'
<1> USE DEF ScannerInv, TypeOK
<1>1. SlotsOK'
  BY Bounds DEF Acquire, SlotsOK
<1>2. SpawnsOK'
  BY DEF Acquire, SpawnsOK
<1>3. CallsOK'
  BY Bounds DEF Acquire, CallsOK, SlotsOK
<1>4. ResultsOK'
  BY DEF Acquire, CallsOK, ResultsOK
<1>5. Exclusive'
  BY Bounds DEF Acquire, CallsOK, SlotsOK, Exclusive
<1>6. CallInv'
  BY DEF Acquire, CallsOK, ResultsOK, CallInv, Text
<1>7. RunInv'
  BY DEF Acquire, RunInv, SlotsOK, CallsOK, Exclusive
<1>8. GoInv'
  BY Bounds, GoShape DEF Acquire, GoInv, GoOK, Text, CallsOK
<1>9. PipeInv'
  BY DEF Acquire, PipeInv, Empty, Carries
<1>10. VerdictIsOwn'
  BY DEF Acquire, VerdictIsOwn, Text, CallsOK, ResultsOK, Failed, CallInv
<1>11. QED
  BY <1>1, <1>2, <1>3, <1>4, <1>5, <1>6, <1>7, <1>8, <1>9, <1>10

\* ensure finds a coprocess: its pipes are empty.
LEMMA KeptByEnsureRunning ==
    ASSUME ScannerInv, NEW c \in Callers, EnsureRunning(c)
    PROVE  ScannerInv'
<1> USE DEF ScannerInv, TypeOK
<1>1. /\ held[c] \in Slots /\ run[held[c]] \in Spawns /\ run[held[c]] \in open
      /\ run[held[c]] <= spawned /\ spawned \in Nat
  BY HeldSlot, Bounds DEF EnsureRunning, SlotsOK, SpawnsOK, RunInv
<1>2. gos' \subseteq GoType /\ chan' \in [Callers -> Answers \cup {Nothing}] /\ GoInv'
  BY <1>1, GoStarts DEF EnsureRunning
<1>3. SlotsOK'
  BY Bounds DEF EnsureRunning, Go, SlotsOK
<1>4. SpawnsOK'
  BY DEF EnsureRunning, Go, SpawnsOK
<1>5. CallsOK'
  BY Bounds DEF EnsureRunning, Go, CallsOK, SlotsOK
<1>6. ResultsOK'
  BY <1>2 DEF EnsureRunning, ResultsOK, GoType
<1>7. Exclusive'
  BY Bounds DEF EnsureRunning, Go, CallsOK, SlotsOK, Exclusive
<1>8. CallInv'
  BY DEF EnsureRunning, Go, CallsOK, ResultsOK, CallInv, Text
<1>9. RunInv'
  BY DEF EnsureRunning, Go, RunInv, SlotsOK, CallsOK, Exclusive
<1>10. GoInv'
  BY <1>2
<1>11. PipeInv'
  BY DEF EnsureRunning, Go, PipeInv, Empty, Carries
<1>12. VerdictIsOwn'
  BY DEF EnsureRunning, Go, VerdictIsOwn, Text, CallsOK, ResultsOK, Failed, CallInv
<1>13. QED
  BY <1>3, <1>4, <1>5, <1>6, <1>7, <1>8, <1>9, <1>10, <1>11, <1>12

\* ensure starts a coprocess: no slot and no goroutine knows it yet.
LEMMA KeptByEnsureSpawn ==
    ASSUME ScannerInv, NEW c \in Callers, EnsureSpawn(c)
    PROVE  ScannerInv'
<1> USE DEF ScannerInv, TypeOK
<1>1. /\ held[c] \in Slots /\ spawned \in Nat /\ spawned + 1 \in Spawns
      /\ run' \in [Slots -> 0..MaxSpawns] /\ run'[held[c]] = spawned + 1
      /\ \A q \in Slots : q # held[c] => run'[q] = run[q]
  BY HeldSlot, Bounds DEF EnsureSpawn, SlotsOK, SpawnsOK
<1>2. gos' \subseteq GoType /\ chan' \in [Callers -> Answers \cup {Nothing}] /\ GoInv'
  BY <1>1, GoStarts DEF EnsureSpawn
<1>3. SlotsOK'
  BY <1>1 DEF EnsureSpawn, SlotsOK
<1>4. SpawnsOK'
  <2>1. spawned' \in 0..MaxSpawns
    BY Bounds DEF EnsureSpawn, SpawnsOK
  <2>2. QED
    BY <1>1, <2>1 DEF EnsureSpawn, SpawnsOK
<1>5. CallsOK'
  BY Bounds DEF EnsureSpawn, Go, CallsOK, SlotsOK
<1>6. ResultsOK'
  BY <1>2 DEF EnsureSpawn, ResultsOK, GoType
<1>7. Exclusive'
  BY Bounds DEF EnsureSpawn, Go, CallsOK, SlotsOK, Exclusive
<1>8. CallInv'
  BY DEF EnsureSpawn, Go, CallsOK, ResultsOK, CallInv, Text
<1>9. RunInv'
  <2>1. open' = open \cup {spawned + 1} /\ spawned' = spawned + 1 /\ open \subseteq Nat
    BY Bounds DEF EnsureSpawn, SpawnsOK
  <2>2. /\ up'[spawned + 1] = "live"
        /\ \A i \in Spawns : i # spawned + 1 => up'[i] = up[i]
    BY <1>1 DEF EnsureSpawn, SpawnsOK
  <2>3. \A q \in Slots : run[q] # spawned + 1 /\ (q \in retired => q # held[c])
    BY <1>1 DEF RunInv, SlotsOK, Exclusive
  <2>4. \A p, q \in Slots : (run'[p] = run'[q] /\ run'[p] # 0) => p = q
    BY <1>1, <2>3 DEF RunInv
  <2>5. \A p \in Slots : run'[p] # 0 => run'[p] \in open'
    BY <1>1, <2>1 DEF RunInv
  <2>6. /\ \A i \in open' : \E p \in Slots : run'[p] = i
        /\ \A i \in open' : i <= spawned'
    <3>1. \A i \in open : \E p \in Slots : p # held[c] /\ run[p] = i
      BY <1>1, Bounds DEF RunInv, EnsureSpawn, SpawnsOK
    <3>2. QED
      BY <1>1, <2>1, <3>1 DEF RunInv
  <2>7. /\ \A i \in Spawns : up'[i] \in {"live", "wedged"} => i \in open'
        /\ \A i \in Spawns : i > spawned' => up'[i] = "fresh"
    BY <1>1, <2>1, <2>2, Bounds DEF RunInv
  <2>8. \A p \in retired' : run'[p] = 0
    BY <1>1, <2>3 DEF RunInv, SlotsOK, EnsureSpawn
  <2>9. QED
    BY <2>4, <2>5, <2>6, <2>7, <2>8 DEF RunInv
<1>10. GoInv'
  BY <1>2
<1>11. PipeInv'
  BY DEF EnsureSpawn, Go, PipeInv, Empty, Carries
<1>12. VerdictIsOwn'
  BY DEF EnsureSpawn, Go, VerdictIsOwn, Text, CallsOK, ResultsOK, Failed, CallInv
<1>13. QED
  BY <1>3, <1>4, <1>5, <1>6, <1>7, <1>8, <1>9, <1>10, <1>11, <1>12

\* ensure cannot start one.
LEMMA KeptByEnsureFail ==
    ASSUME ScannerInv, NEW c \in Callers, EnsureFail(c)
    PROVE  ScannerInv'
<1> USE DEF ScannerInv, TypeOK
<1>1. SlotsOK'
  BY Bounds DEF EnsureFail, SlotsOK
<1>2. SpawnsOK'
  BY DEF EnsureFail, SpawnsOK
<1>3. CallsOK'
  BY Bounds DEF EnsureFail, CallsOK, SlotsOK
<1>4. ResultsOK'
  BY DEF EnsureFail, ResultsOK, Answers
<1>5. Exclusive'
  BY Bounds DEF EnsureFail, CallsOK, SlotsOK, Exclusive
<1>6. CallInv'
  BY DEF EnsureFail, CallsOK, ResultsOK, CallInv, Text
<1>7. RunInv'
  BY DEF EnsureFail, RunInv, SlotsOK, CallsOK, Exclusive
<1>8. GoInv'
  BY Bounds, GoShape DEF EnsureFail, GoInv, GoOK, Text, CallsOK
<1>9. PipeInv'
  BY DEF EnsureFail, PipeInv, Empty, Carries
<1>10. VerdictIsOwn'
  BY DEF EnsureFail, VerdictIsOwn, Text, CallsOK, ResultsOK, Failed, CallInv
<1>11. QED
  BY <1>1, <1>2, <1>3, <1>4, <1>5, <1>6, <1>7, <1>8, <1>9, <1>10

\* The goroutine reported an error: kill.
LEMMA KeptByScanFailed ==
    ASSUME ScannerInv, NEW c \in Callers, ScanFailed(c)
    PROVE  ScannerInv'
<1> USE DEF ScannerInv, TypeOK
<1>1. held[c] \in Slots /\ Stops(held[c])
  BY HeldSlot DEF ScanFailed, Kill, Stops
<1>2. SlotsOK'
  BY <1>1, StopEffect DEF ScanFailed, Kill, SlotsOK
<1>3. SpawnsOK'
  BY <1>1, StopEffect
<1>4. CallsOK'
  BY Bounds DEF ScanFailed, Kill, CallsOK, SlotsOK
<1>5. ResultsOK'
  BY DEF ScanFailed, ResultsOK, Answers
<1>6. Exclusive'
  BY Bounds DEF ScanFailed, Kill, CallsOK, SlotsOK, Exclusive
<1>7. CallInv'
  BY DEF ScanFailed, Kill, CallsOK, ResultsOK, CallInv, Text
<1>8. RunInv'
  BY <1>1, StopKept DEF ScanFailed, Kill
<1>9. GoInv'
  <2>1. open' = open \ {run[held[c]]} /\ \A q \in Slots : q # held[c] => run'[q] = run[q]
    BY <1>1, StopEffect
  <2>2. QED
    BY <2>1, GoShape, Bounds DEF ScanFailed, Kill, GoInv, GoOK, Text, CallsOK, Exclusive
<1>10. PipeInv'
  BY <1>1, StopKept DEF ScanFailed, Kill
<1>11. VerdictIsOwn'
  BY DEF ScanFailed, Kill, VerdictIsOwn, Text, CallsOK, ResultsOK, Failed, CallInv
<1>12. QED
  BY <1>2, <1>3, <1>4, <1>5, <1>6, <1>7, <1>8, <1>9, <1>10, <1>11

\* The goroutine has answered, and so is no more: the pipes are empty.
LEMMA KeptByScanAnswered ==
    ASSUME ScannerInv, NEW c \in Callers, ScanAnswered(c)
    PROVE  ScannerInv'
<1> USE DEF ScannerInv, TypeOK
<1>1. SlotsOK'
  BY Bounds DEF ScanAnswered, SlotsOK
<1>2. SpawnsOK'
  BY DEF ScanAnswered, SpawnsOK
<1>3. CallsOK'
  BY Bounds DEF ScanAnswered, CallsOK, SlotsOK
<1>4. ResultsOK'
  <2>1. chan[c] \in Answers /\ Failed \in Answers
    BY DEF ScanAnswered, ResultsOK, Answers
  <2>2. QED
    BY <2>1 DEF ScanAnswered, ResultsOK
<1>5. Exclusive'
  BY Bounds DEF ScanAnswered, CallsOK, SlotsOK, Exclusive
<1>6. CallInv'
  BY DEF ScanAnswered, CallsOK, ResultsOK, CallInv, Text
<1>7. RunInv'
  BY DEF ScanAnswered, RunInv, SlotsOK, CallsOK, Exclusive
<1>8. GoInv'
  BY Bounds, GoShape DEF ScanAnswered, GoInv, GoOK, Text, CallsOK
<1>9. PipeInv'
  BY DEF ScanAnswered, PipeInv, Empty, Carries
<1>10. VerdictIsOwn'
  BY DEF ScanAnswered, VerdictIsOwn, Text, CallsOK, ResultsOK, Failed, CallInv
<1>11. QED
  BY <1>1, <1>2, <1>3, <1>4, <1>5, <1>6, <1>7, <1>8, <1>9, <1>10

\* The scan is given up: kill, so that a late answer reaches nobody.
LEMMA KeptByScanTimeout ==
    ASSUME ScannerInv, NEW c \in Callers, ScanTimeout(c)
    PROVE  ScannerInv'
<1> USE DEF ScannerInv, TypeOK
<1>1. held[c] \in Slots /\ Stops(held[c])
  BY HeldSlot DEF ScanTimeout, Kill, Stops
<1>2. SlotsOK'
  BY <1>1, StopEffect DEF ScanTimeout, Kill, SlotsOK
<1>3. SpawnsOK'
  BY <1>1, StopEffect
<1>4. CallsOK'
  BY Bounds DEF ScanTimeout, Kill, CallsOK, SlotsOK
<1>5. ResultsOK'
  BY DEF ScanTimeout, ResultsOK, Answers
<1>6. Exclusive'
  BY Bounds DEF ScanTimeout, Kill, CallsOK, SlotsOK, Exclusive
<1>7. CallInv'
  BY DEF ScanTimeout, Kill, CallsOK, ResultsOK, CallInv, Text
<1>8. RunInv'
  BY <1>1, StopKept DEF ScanTimeout, Kill
<1>9. GoInv'
  <2>1. open' = open \ {run[held[c]]} /\ \A q \in Slots : q # held[c] => run'[q] = run[q]
    BY <1>1, StopEffect
  <2>2. QED
    BY <2>1, GoShape, Bounds DEF ScanTimeout, Kill, GoInv, GoOK, Text, CallsOK, Exclusive
<1>10. PipeInv'
  BY <1>1, StopKept DEF ScanTimeout, Kill
<1>11. VerdictIsOwn'
  BY DEF ScanTimeout, Kill, VerdictIsOwn, Text, CallsOK, ResultsOK, Failed, CallInv
<1>12. QED
  BY <1>2, <1>3, <1>4, <1>5, <1>6, <1>7, <1>8, <1>9, <1>10, <1>11

\* s.closed is read.
LEMMA KeptByReadClosed ==
    ASSUME ScannerInv, NEW c \in Callers, ReadClosed(c)
    PROVE  ScannerInv'
<1> USE DEF ScannerInv, TypeOK
<1>1. SlotsOK'
  BY Bounds DEF ReadClosed, SlotsOK
<1>2. SpawnsOK'
  BY DEF ReadClosed, SpawnsOK
<1>3. CallsOK'
  BY Bounds DEF ReadClosed, CallsOK, SlotsOK
<1>4. ResultsOK'
  BY DEF ReadClosed, CallsOK, ResultsOK
<1>5. Exclusive'
  BY Bounds DEF ReadClosed, CallsOK, SlotsOK, Exclusive
<1>6. CallInv'
  BY DEF ReadClosed, CallsOK, ResultsOK, CallInv, Text
<1>7. RunInv'
  BY DEF ReadClosed, RunInv, SlotsOK, CallsOK, Exclusive
<1>8. GoInv'
  BY Bounds, GoShape DEF ReadClosed, GoInv, GoOK, Text, CallsOK
<1>9. PipeInv'
  BY DEF ReadClosed, PipeInv, Empty, Carries
<1>10. VerdictIsOwn'
  BY DEF ReadClosed, VerdictIsOwn, Text, CallsOK, ResultsOK, Failed, CallInv
<1>11. QED
  BY <1>1, <1>2, <1>3, <1>4, <1>5, <1>6, <1>7, <1>8, <1>9, <1>10

\* s.pool <- p: the slot goes back to the channel.
LEMMA KeptByPut ==
    ASSUME ScannerInv, NEW c \in Callers, Put(c)
    PROVE  ScannerInv'
<1> USE DEF ScannerInv, TypeOK
<1>1. SlotsOK'
  BY HeldSlot DEF Put, Return, SlotsOK
<1>2. SpawnsOK'
  BY DEF Put, Return, SpawnsOK
<1>3. CallsOK'
  BY Bounds DEF Put, Return, CallsOK, SlotsOK
<1>4. ResultsOK'
  BY DEF Put, Return, CallsOK, ResultsOK
<1>5. Exclusive'
  BY Bounds DEF Put, Return, CallsOK, SlotsOK, Exclusive
<1>6. CallInv'
  BY DEF Put, Return, CallsOK, ResultsOK, CallInv, Text
<1>7. RunInv'
  BY DEF Put, Return, RunInv, SlotsOK, CallsOK, Exclusive
<1>8. GoInv'
  BY Bounds, GoShape DEF Put, Return, GoInv, GoOK, Text, CallsOK
<1>9. PipeInv'
  BY DEF Put, Return, PipeInv, Empty, Carries
<1>10. VerdictIsOwn'
  BY DEF Put, Return, VerdictIsOwn, Text, CallsOK, ResultsOK, Failed, CallInv
<1>11. QED
  BY <1>1, <1>2, <1>3, <1>4, <1>5, <1>6, <1>7, <1>8, <1>9, <1>10

\* The slot is shut down by the caller that held it.
LEMMA KeptByReap ==
    ASSUME ScannerInv, NEW c \in Callers, Reap(c)
    PROVE  ScannerInv'
<1> USE DEF ScannerInv, TypeOK
<1>1. held[c] \in Slots /\ Stops(held[c])
  BY HeldSlot DEF Reap, Shutdown, Stops
<1>2. SlotsOK'
  BY <1>1, StopEffect DEF Reap, Shutdown, Return, SlotsOK
<1>3. SpawnsOK'
  BY <1>1, StopEffect
<1>4. CallsOK'
  BY Bounds DEF Reap, Shutdown, Return, CallsOK, SlotsOK
<1>5. ResultsOK'
  BY DEF Reap, Shutdown, Return, CallsOK, ResultsOK
<1>6. Exclusive'
  BY Bounds DEF Reap, Shutdown, Return, CallsOK, SlotsOK, Exclusive
<1>7. CallInv'
  BY DEF Reap, Shutdown, Return, CallsOK, ResultsOK, CallInv, Text
<1>8. RunInv'
  BY <1>1, StopKept DEF Reap, Shutdown, Return
<1>9. GoInv'
  <2>1. open' = open \ {run[held[c]]} /\ \A q \in Slots : q # held[c] => run'[q] = run[q]
    BY <1>1, StopEffect
  <2>2. QED
    BY <2>1, GoShape, Bounds DEF Reap, Shutdown, Return, GoInv, GoOK, Text, CallsOK, Exclusive
<1>10. PipeInv'
  BY <1>1, StopKept DEF Reap, Shutdown, Return
<1>11. VerdictIsOwn'
  BY DEF Reap, Shutdown, Return, VerdictIsOwn, Text, CallsOK, ResultsOK, Failed, CallInv
<1>12. QED
  BY <1>2, <1>3, <1>4, <1>5, <1>6, <1>7, <1>8, <1>9, <1>10, <1>11

\* Close sets s.closed.
LEMMA KeptByCloseMark ==
    ASSUME ScannerInv, CloseMark
    PROVE  ScannerInv'
<1> USE DEF ScannerInv, TypeOK
<1>1. SlotsOK'
  BY Bounds DEF CloseMark, SlotsOK
<1>2. SpawnsOK'
  BY DEF CloseMark, SpawnsOK
<1>3. CallsOK'
  BY Bounds DEF CloseMark, CallsOK, SlotsOK
<1>4. ResultsOK'
  BY DEF CloseMark, CallsOK, ResultsOK
<1>5. Exclusive'
  BY Bounds DEF CloseMark, CallsOK, SlotsOK, Exclusive
<1>6. CallInv'
  BY DEF CloseMark, CallsOK, ResultsOK, CallInv, Text
<1>7. RunInv'
  BY DEF CloseMark, RunInv, SlotsOK, CallsOK, Exclusive
<1>8. GoInv'
  BY Bounds DEF CloseMark, GoInv, GoOK, Text, CallsOK
<1>9. PipeInv'
  BY DEF CloseMark, PipeInv, Empty, Carries
<1>10. VerdictIsOwn'
  BY DEF CloseMark, VerdictIsOwn, Text, CallsOK, ResultsOK, Failed, CallInv
<1>11. QED
  BY <1>1, <1>2, <1>3, <1>4, <1>5, <1>6, <1>7, <1>8, <1>9, <1>10

\* Close takes a slot from the channel.
LEMMA KeptByCloseTake ==
    ASSUME ScannerInv, CloseTake
    PROVE  ScannerInv'
<1> USE DEF ScannerInv, TypeOK
<1>1. SlotsOK'
  BY Bounds DEF CloseTake, SlotsOK
<1>2. SpawnsOK'
  BY DEF CloseTake, SpawnsOK
<1>3. CallsOK'
  BY Bounds DEF CloseTake, CallsOK, SlotsOK
<1>4. ResultsOK'
  BY DEF CloseTake, CallsOK, ResultsOK
<1>5. Exclusive'
  BY Bounds DEF CloseTake, CallsOK, SlotsOK, Exclusive
<1>6. CallInv'
  BY DEF CloseTake, CallsOK, ResultsOK, CallInv, Text
<1>7. RunInv'
  BY DEF CloseTake, RunInv, SlotsOK, CallsOK, Exclusive
<1>8. GoInv'
  BY Bounds DEF CloseTake, GoInv, GoOK, Text, CallsOK
<1>9. PipeInv'
  BY DEF CloseTake, PipeInv, Empty, Carries
<1>10. VerdictIsOwn'
  BY DEF CloseTake, VerdictIsOwn, Text, CallsOK, ResultsOK, Failed, CallInv
<1>11. QED
  BY <1>1, <1>2, <1>3, <1>4, <1>5, <1>6, <1>7, <1>8, <1>9, <1>10

\* Close shuts the slot down.
LEMMA KeptByCloseShutdown ==
    ASSUME ScannerInv, CloseShutdown
    PROVE  ScannerInv'
<1> USE DEF ScannerInv, TypeOK
<1>1. closer \in Slots /\ Stops(closer)
  BY DEF CloseShutdown, Shutdown, Stops
<1>2. SlotsOK'
  BY <1>1, StopEffect DEF CloseShutdown, Shutdown, SlotsOK
<1>3. SpawnsOK'
  BY <1>1, StopEffect
<1>4. CallsOK'
  BY Bounds DEF CloseShutdown, Shutdown, CallsOK, SlotsOK
<1>5. ResultsOK'
  BY DEF CloseShutdown, Shutdown, CallsOK, ResultsOK
<1>6. Exclusive'
  BY Bounds DEF CloseShutdown, Shutdown, CallsOK, SlotsOK, Exclusive
<1>7. CallInv'
  BY DEF CloseShutdown, Shutdown, CallsOK, ResultsOK, CallInv, Text
<1>8. RunInv'
  BY <1>1, StopKept DEF CloseShutdown, Shutdown
<1>9. GoInv'
  <2>1. open' = open \ {run[closer]} /\ \A q \in Slots : q # closer => run'[q] = run[q]
    BY <1>1, StopEffect
  <2>2. QED
    BY <2>1, GoShape, HeldSlot, Bounds DEF CloseShutdown, GoInv, GoOK, Text, CallsOK, Exclusive
<1>10. PipeInv'
  BY <1>1, StopKept DEF CloseShutdown, Shutdown
<1>11. VerdictIsOwn'
  BY DEF CloseShutdown, Shutdown, VerdictIsOwn, Text, CallsOK, ResultsOK, Failed, CallInv
<1>12. QED
  BY <1>2, <1>3, <1>4, <1>5, <1>6, <1>7, <1>8, <1>9, <1>10, <1>11

\* Close finds the channel empty.
LEMMA KeptByCloseEnd ==
    ASSUME ScannerInv, CloseEnd
    PROVE  ScannerInv'
<1> USE DEF ScannerInv, TypeOK
<1>1. SlotsOK'
  BY Bounds DEF CloseEnd, SlotsOK
<1>2. SpawnsOK'
  BY DEF CloseEnd, SpawnsOK
<1>3. CallsOK'
  BY Bounds DEF CloseEnd, CallsOK, SlotsOK
<1>4. ResultsOK'
  BY DEF CloseEnd, CallsOK, ResultsOK
<1>5. Exclusive'
  BY Bounds DEF CloseEnd, CallsOK, SlotsOK, Exclusive
<1>6. CallInv'
  BY DEF CloseEnd, CallsOK, ResultsOK, CallInv, Text
<1>7. RunInv'
  BY DEF CloseEnd, RunInv, SlotsOK, CallsOK, Exclusive
<1>8. GoInv'
  BY Bounds DEF CloseEnd, GoInv, GoOK, Text, CallsOK
<1>9. PipeInv'
  BY DEF CloseEnd, PipeInv, Empty, Carries
<1>10. VerdictIsOwn'
  BY DEF CloseEnd, VerdictIsOwn, Text, CallsOK, ResultsOK, Failed, CallInv
<1>11. QED
  BY <1>1, <1>2, <1>3, <1>4, <1>5, <1>6, <1>7, <1>8, <1>9, <1>10

\* The goroutine writes its frame into empty pipes.
LEMMA KeptByGoWrite ==
    ASSUME ScannerInv, NEW g \in gos, GoWrite(g)
    PROVE  ScannerInv'
<1> USE DEF ScannerInv, TypeOK
<1> DEFINE i == g.spawn
           n == [g EXCEPT !.at = "read"]
<1>1. /\ i \in Spawns /\ i \in open /\ up[i] # "gone" /\ g.text \in Texts /\ g.at = "write"
      /\ inbox' = [inbox EXCEPT ![i] = Append(@, g.text)] /\ gos' = (gos \ {g}) \cup {n}
  BY GoShape DEF GoWrite
<1>2. n \in GoType /\ n.text = g.text /\ n.spawn = i /\ n.at = "read"
  BY DEF ResultsOK, GoType
<1>3. Empty(i)
  BY <1>1, OneTalks DEF PipeInv, Carries
<1> HIDE DEF n
<1>4. inbox' = [inbox EXCEPT ![i] = <<g.text>>]
  BY <1>1, <1>3 DEF Empty
<1>5. SlotsOK'
  BY Bounds DEF GoWrite, SlotsOK
<1>6. SpawnsOK'
  <2>1. inbox' \in [Spawns -> Seq(Texts)]
    BY <1>1, <1>4 DEF SpawnsOK
  <2>2. QED
    BY <2>1 DEF GoWrite, SpawnsOK
<1>7. CallsOK'
  BY Bounds DEF GoWrite, CallsOK, SlotsOK
<1>8. ResultsOK'
  BY <1>1, <1>2 DEF GoWrite, ResultsOK, GoType
<1>9. Exclusive'
  BY Bounds DEF GoWrite, CallsOK, SlotsOK, Exclusive
<1>10. CallInv'
  BY DEF GoWrite, CallsOK, ResultsOK, CallInv, Text
<1>11. RunInv'
  BY DEF GoWrite, RunInv, SlotsOK, CallsOK, Exclusive
<1>12. GoInv'
  <2>1. \A h \in gos' : \E o \in gos :
            /\ h.text = o.text /\ h.spawn = o.spawn
            /\ h = IF o = g THEN n ELSE o
    BY <1>1, <1>2
  <2>2. QED
    BY <2>1 DEF GoWrite, GoInv, GoOK, Text
<1>13. PipeInv'
  <2>1. n \in gos' /\ Carries(i, n)'
    BY <1>1, <1>2, <1>3, <1>4 DEF GoWrite, Carries, Empty, SpawnsOK
  <2>2. \A j \in Spawns : j # i => inbox'[j] = inbox[j]
    BY <1>4 DEF SpawnsOK
  <2>3. ASSUME NEW j \in Spawns, j # i
        PROVE  /\ up'[j] = "gone" => inbox'[j] = <<>>
               /\ Empty(j)' \/ \E h \in gos' : Carries(j, h)'
    <3>1. \A h \in gos : Carries(j, h) => h \in gos'
      BY <1>1, <2>3 DEF Carries
    <3>2. QED
      BY <2>2, <2>3, <3>1 DEF GoWrite, PipeInv, Carries, Empty
  <2>4. QED
    BY <1>1, <2>1, <2>3 DEF GoWrite, PipeInv
<1>14. VerdictIsOwn'
  BY DEF GoWrite, VerdictIsOwn, Text, CallsOK, ResultsOK, Failed, CallInv
<1>15. QED
  BY <1>5, <1>6, <1>7, <1>8, <1>9, <1>10, <1>11, <1>12, <1>13, <1>14

\* The goroutine reads a line: the one answer in the pipe is about its text.
LEMMA KeptByGoRead ==
    ASSUME ScannerInv, NEW g \in gos, GoRead(g)
    PROVE  ScannerInv'
<1> USE DEF ScannerInv, TypeOK
<1> DEFINE i == g.spawn
           r == [ok |-> TRUE, of |-> g.text]
<1>1. i \in Spawns /\ i \in open /\ g.text \in Texts /\ r \in Answers
  BY GoShape DEF GoRead, Answers
<1>2. inbox[i] = <<>> /\ outbox[i] = <<r>>
  <2>1. PICK h \in gos : Carries(i, h) /\ outbox[i] # <<>>
    BY <1>1 DEF GoRead, PipeInv, Empty
  <2>2. h = g
    BY <1>1, <2>1, OneTalks DEF Carries
  <2>3. QED
    BY <2>1, <2>2 DEF Carries
<1>3. Finish(g, r) /\ outbox' = [outbox EXCEPT ![i] = <<>>]
  <2>1. Head(outbox[i]) = r /\ Tail(outbox[i]) = <<>>
    BY <1>2
  <2>2. QED
    BY <2>1 DEF GoRead
<1>4. r.ok = TRUE => r.of = g.text
  OBVIOUS
<1> HIDE DEF r
<1>5. ResultsOK' /\ CallInv' /\ GoInv'
  BY <1>1, <1>3, <1>4, GoEnds DEF GoRead
<1>6. SlotsOK'
  BY Bounds DEF GoRead, Finish, SlotsOK
<1>7. SpawnsOK'
  <2>1. outbox' \in [Spawns -> Seq(Answers)]
    BY <1>1, <1>3 DEF SpawnsOK
  <2>2. QED
    BY <2>1 DEF GoRead, SpawnsOK
<1>8. CallsOK'
  BY Bounds DEF GoRead, Finish, CallsOK, SlotsOK
<1>9. ResultsOK'
  BY <1>5
<1>10. Exclusive'
  BY Bounds DEF GoRead, Finish, CallsOK, SlotsOK, Exclusive
<1>11. CallInv'
  BY <1>5
<1>12. RunInv'
  BY DEF GoRead, Finish, RunInv, SlotsOK, CallsOK, Exclusive
<1>13. GoInv'
  BY <1>5
<1>14. PipeInv'
  <2>1. Empty(i)' /\ gos' = gos \ {g}
    BY <1>1, <1>2, <1>3 DEF GoRead, Empty, SpawnsOK, Finish
  <2>2. \A j \in Spawns : j # i => outbox'[j] = outbox[j]
    BY <1>3 DEF SpawnsOK
  <2>3. ASSUME NEW j \in Spawns, j # i
        PROVE  Empty(j)' \/ \E h \in gos' : Carries(j, h)'
    BY <2>1, <2>2, <2>3 DEF GoRead, PipeInv, Carries, Empty
  <2>4. QED
    BY <2>1, <2>3 DEF GoRead, PipeInv
<1>15. VerdictIsOwn'
  BY DEF GoRead, Finish, VerdictIsOwn, Text, CallsOK, ResultsOK, Failed, CallInv
<1>16. QED
  BY <1>6, <1>7, <1>8, <1>9, <1>10, <1>11, <1>12, <1>13, <1>14, <1>15

\* A write or a read fails, and leaves nothing in the pipes that a later
\* scan could read.
LEMMA KeptByGoFail ==
    ASSUME ScannerInv, NEW g \in gos, GoFail(g)
    PROVE  ScannerInv'
<1> USE DEF ScannerInv, TypeOK
<1>1. Failed \in Answers /\ Failed.ok = FALSE
  BY DEF Answers, Failed
<1>2. ResultsOK' /\ CallInv' /\ GoInv'
  BY <1>1, GoEnds DEF GoFail
<1>3. SlotsOK'
  BY Bounds DEF GoFail, Finish, SlotsOK
<1>4. SpawnsOK'
  BY DEF GoFail, Finish, SpawnsOK
<1>5. CallsOK'
  BY Bounds DEF GoFail, Finish, CallsOK, SlotsOK
<1>6. ResultsOK'
  BY <1>2
<1>7. Exclusive'
  BY Bounds DEF GoFail, Finish, CallsOK, SlotsOK, Exclusive
<1>8. CallInv'
  BY <1>2
<1>9. RunInv'
  BY DEF GoFail, Finish, RunInv, SlotsOK, CallsOK, Exclusive
<1>10. GoInv'
  BY <1>2
<1>11. PipeInv'
  <2>1. \A i \in Spawns : Carries(i, g) => Empty(i)
    BY DEF GoFail, PipeInv, Carries, Empty
  <2>2. gos' = gos \ {g}
    BY DEF GoFail, Finish
  <2>3. QED
    BY <2>1, <2>2 DEF GoFail, PipeInv, Carries, Empty
<1>12. VerdictIsOwn'
  BY DEF GoFail, Finish, VerdictIsOwn, Text, CallsOK, ResultsOK, Failed, CallInv
<1>13. QED
  BY <1>3, <1>4, <1>5, <1>6, <1>7, <1>8, <1>9, <1>10, <1>11, <1>12

\* The coprocess answers the frame of the goroutine that talks to it.
LEMMA KeptByServe ==
    ASSUME ScannerInv, NEW i \in Spawns, Serve(i)
    PROVE  ScannerInv'
<1> USE DEF ScannerInv, TypeOK
<1>1. PICK g \in gos : Carries(i, g) /\ inbox[i] = <<g.text>> /\ outbox[i] = <<>>
  BY DEF Serve, PipeInv, Empty, Carries
<1>2. g.text \in Texts
  BY GoShape
<1>3. /\ inbox' = [inbox EXCEPT ![i] = <<>>]
      /\ outbox' = [outbox EXCEPT ![i] = <<[ok |-> TRUE, of |-> g.text]>>]
  <2>1. Head(inbox[i]) = g.text /\ Tail(inbox[i]) = <<>>
    BY <1>1
  <2>2. Append(outbox[i], [ok |-> TRUE, of |-> g.text]) = <<[ok |-> TRUE, of |-> g.text]>>
    BY <1>1
  <2>3. QED
    BY <2>1, <2>2 DEF Serve
<1>4. SlotsOK'
  BY Bounds DEF Serve, SlotsOK
<1>5. SpawnsOK'
  <2>1. [ok |-> TRUE, of |-> g.text] \in Answers
    BY <1>2 DEF Answers
  <2>2. inbox' \in [Spawns -> Seq(Texts)]
    BY <1>3 DEF SpawnsOK
  <2>3. outbox' \in [Spawns -> Seq(Answers)]
    BY <1>3, <2>1 DEF SpawnsOK
  <2>4. QED
    BY <2>2, <2>3 DEF Serve, SpawnsOK
<1>6. CallsOK'
  BY Bounds DEF Serve, CallsOK, SlotsOK
<1>7. ResultsOK'
  BY DEF Serve, CallsOK, ResultsOK
<1>8. Exclusive'
  BY Bounds DEF Serve, CallsOK, SlotsOK, Exclusive
<1>9. CallInv'
  BY DEF Serve, CallsOK, ResultsOK, CallInv, Text
<1>10. RunInv'
  BY DEF Serve, RunInv, SlotsOK, CallsOK, Exclusive
<1>11. GoInv'
  BY Bounds DEF Serve, GoInv, GoOK, Text, CallsOK
<1>12. PipeInv'
  <2>1. Carries(i, g)' /\ inbox'[i] = <<>>
    BY <1>1, <1>3 DEF Serve, Carries, SpawnsOK
  <2>2. \A j \in Spawns : j # i => inbox'[j] = inbox[j] /\ outbox'[j] = outbox[j]
    BY <1>3 DEF SpawnsOK
  <2>3. ASSUME NEW j \in Spawns, j # i
        PROVE  /\ up'[j] = "gone" => inbox'[j] = <<>>
               /\ Empty(j)' \/ \E h \in gos' : Carries(j, h)'
    BY <2>2, <2>3 DEF Serve, PipeInv, Carries, Empty
  <2>4. QED
    BY <2>1, <2>3 DEF Serve, PipeInv
<1>13. VerdictIsOwn'
  BY DEF Serve, VerdictIsOwn, Text, CallsOK, ResultsOK, Failed, CallInv
<1>14. QED
  BY <1>4, <1>5, <1>6, <1>7, <1>8, <1>9, <1>10, <1>11, <1>12, <1>13

\* The coprocess dies; an answer it has written may still be read.
LEMMA KeptByDie ==
    ASSUME ScannerInv, NEW i \in Spawns, Die(i)
    PROVE  ScannerInv'
<1> USE DEF ScannerInv, TypeOK
<1>1. SlotsOK'
  BY Bounds DEF Die, SlotsOK
<1>2. SpawnsOK'
  BY DEF Die, SpawnsOK
<1>3. CallsOK'
  BY Bounds DEF Die, CallsOK, SlotsOK
<1>4. ResultsOK'
  BY DEF Die, CallsOK, ResultsOK
<1>5. Exclusive'
  BY Bounds DEF Die, CallsOK, SlotsOK, Exclusive
<1>6. CallInv'
  BY DEF Die, CallsOK, ResultsOK, CallInv, Text
<1>7. RunInv'
  BY DEF Die, RunInv, SlotsOK, CallsOK, Exclusive
<1>8. GoInv'
  BY Bounds DEF Die, GoInv, GoOK, Text, CallsOK
<1>9. PipeInv'
  <2>1. \A j \in Spawns : j # i => up'[j] = up[j] /\ inbox'[j] = inbox[j]
    BY DEF Die, SpawnsOK
  <2>2. inbox'[i] = <<>>
    BY DEF Die, SpawnsOK
  <2>3. ASSUME NEW j \in Spawns, j # i
        PROVE  /\ up'[j] = "gone" => inbox'[j] = <<>>
               /\ Empty(j)' \/ \E g \in gos' : Carries(j, g)'
    BY <2>1, <2>3 DEF Die, PipeInv, Carries, Empty
  <2>4. Empty(i)' \/ \E g \in gos' : Carries(i, g)'
    BY <2>2 DEF Die, PipeInv, Carries, Empty
  <2>5. QED
    BY <2>2, <2>3, <2>4 DEF PipeInv
<1>10. VerdictIsOwn'
  BY DEF Die, VerdictIsOwn, Text, CallsOK, ResultsOK, Failed, CallInv
<1>11. QED
  BY <1>1, <1>2, <1>3, <1>4, <1>5, <1>6, <1>7, <1>8, <1>9, <1>10

\* The coprocess stops answering.
LEMMA KeptByWedge ==
    ASSUME ScannerInv, NEW i \in Spawns, Wedge(i)
    PROVE  ScannerInv'
<1> USE DEF ScannerInv, TypeOK
<1>1. SlotsOK'
  BY Bounds DEF Wedge, SlotsOK
<1>2. SpawnsOK'
  BY DEF Wedge, SpawnsOK
<1>3. CallsOK'
  BY Bounds DEF Wedge, CallsOK, SlotsOK
<1>4. ResultsOK'
  BY DEF Wedge, CallsOK, ResultsOK
<1>5. Exclusive'
  BY Bounds DEF Wedge, CallsOK, SlotsOK, Exclusive
<1>6. CallInv'
  BY DEF Wedge, CallsOK, ResultsOK, CallInv, Text
<1>7. RunInv'
  BY DEF Wedge, RunInv, SlotsOK, CallsOK, Exclusive
<1>8. GoInv'
  BY Bounds DEF Wedge, GoInv, GoOK, Text, CallsOK
<1>9. PipeInv'
  BY DEF Wedge, PipeInv, Empty, Carries
<1>10. VerdictIsOwn'
  BY DEF Wedge, VerdictIsOwn, Text, CallsOK, ResultsOK, Failed, CallInv
<1>11. QED
  BY <1>1, <1>2, <1>3, <1>4, <1>5, <1>6, <1>7, <1>8, <1>9, <1>10

--------------------------------------------------------------------------
(* The invariant *)

\* newScanner numbers its slots: different slots have different numbers, and
\* every number up to the pool's size is the number of one.
LEMMA Numbered ==
    /\ Cardinality(Slots) \in Nat
    /\ Number \in [Slots -> 1..Cardinality(Slots)]
    /\ \A p, q \in Slots : Number[p] = Number[q] => p = q
    /\ \A i \in 1..Cardinality(Slots) : \E p \in Slots : Number[p] = i
<1> DEFINE n == Cardinality(Slots)
<1>1. n \in Nat /\ IsFiniteSet(Slots)
  BY FS_CardinalityType, ScannerAssumption
<1>2. IsFiniteSet(1..n) /\ Cardinality(1..n) = n
  BY <1>1, FS_Interval
<1>3. PICK b : b \in Bijection(Slots, 1..n)
  BY <1>1, <1>2, FS_SameCardinalityBij DEF ExistsBijection
<1>4. b \in [Slots -> 1..n] /\ \A p, q \in Slots : b[p] = b[q] => p = q
  BY <1>3 DEF Bijection, Injection, IsInjective
<1>5. /\ Number \in [Slots -> 1..n]
      /\ \A p, q \in Slots : Number[p] = Number[q] => p = q
  BY <1>4 DEF Number
<1>6. Number \in Injection(Slots, 1..n)
  BY <1>5 DEF Injection, IsInjective
<1>7. Number \in Surjection(Slots, 1..n)
  BY <1>1, <1>2, <1>6, FS_Injection
<1>8. QED
  BY <1>1, <1>5, <1>7 DEF Surjection

\* The invariant holds when newScanner returns, for every size of the pool.
LEMMA InitInv == Init => ScannerInv
<1> SUFFICES ASSUME Init PROVE ScannerInv
  OBVIOUS
<1>1. PICK size \in Sizes :
        /\ pool = {p \in Slots : Number[p] <= size}
        /\ retired = Slots \ pool
        /\ run = [p \in Slots |-> IF Number[p] <= size THEN Number[p] ELSE 0]
        /\ spawned = size
        /\ up = [i \in Spawns |-> IF i <= size THEN "live" ELSE "fresh"]
        /\ open = 1..size
        /\ inbox = [i \in Spawns |-> <<>>]
        /\ outbox = [i \in Spawns |-> <<>>]
  BY DEF Init
<1>2. /\ pc = [c \in Callers |-> "idle"]
      /\ held = [c \in Callers |-> Nobody]
      /\ scan = [c \in Callers |-> 0]
      /\ gos = {}
      /\ chan = [c \in Callers |-> Nothing]
      /\ result = [c \in Callers |-> Nothing]
      /\ closed = FALSE
      /\ closer = "before"
  BY DEF Init
<1>3. /\ size \in Nat /\ size >= 1 /\ size <= Cardinality(Slots) /\ size <= MaxSpawns
      /\ Cardinality(Slots) \in Nat /\ 1..size \subseteq Spawns /\ 1..size \subseteq 1..Cardinality(Slots)
  BY ScannerAssumption, Numbered, Bounds
<1>4. \A p \in Slots : Number[p] \in Nat /\ Number[p] # 0
  BY Numbered
<1>5. SlotsOK
  <2>1. \A p \in Slots : (IF Number[p] <= size THEN Number[p] ELSE 0) \in 0..MaxSpawns
    BY <1>3, <1>4, Bounds
  <2>2. run \in [Slots -> 0..MaxSpawns]
    BY <1>1, <2>1
  <2>3. QED
    BY <1>1, <1>2, <2>2 DEF SlotsOK
<1>6. SpawnsOK
  <2>1. inbox \in [Spawns -> Seq(Texts)] /\ outbox \in [Spawns -> Seq(Answers)]
    BY <1>1
  <2>2. QED
    BY <1>1, <1>3, <2>1, Bounds DEF SpawnsOK
<1>7. CallsOK /\ ResultsOK /\ CallInv /\ VerdictIsOwn /\ GoInv
  BY <1>2, Bounds DEF CallsOK, ResultsOK, CallInv, VerdictIsOwn, GoInv
<1>8. Exclusive
  BY <1>1, <1>2, Bounds DEF Exclusive
<1>9. RunInv
  <2>1. \A p \in Slots : run[p] = (IF Number[p] <= size THEN Number[p] ELSE 0)
    BY <1>1
  <2>2. \A p, q \in Slots : (run[p] = run[q] /\ run[p] # 0) => p = q
    BY <2>1, Numbered
  <2>3. \A p \in Slots : run[p] # 0 => run[p] \in open
    BY <1>1, <1>3, <1>4, <2>1
  <2>4. \A i \in open : (\E p \in Slots : run[p] = i) /\ i <= spawned
    BY <1>1, <1>3, <2>1, Numbered
  <2>5. \A i \in Spawns : up[i] = IF i <= size THEN "live" ELSE "fresh"
    BY <1>1
  <2>6. \A i \in Spawns : /\ up[i] \in {"live", "wedged"} => i \in open
                          /\ i > spawned => up[i] = "fresh"
    BY <1>1, <1>3, <2>5, Bounds
  <2>7. \A p \in retired : run[p] = 0
    BY <1>1, <2>1
  <2>8. QED
    BY <2>2, <2>3, <2>4, <2>6, <2>7 DEF RunInv
<1>10. PipeInv
  BY <1>1 DEF PipeInv, Empty
<1>11. QED
  BY <1>5, <1>6, <1>7, <1>8, <1>9, <1>10 DEF ScannerInv, TypeOK

\* Whatever step is taken, of a caller, a goroutine, a coprocess or Close,
\* the invariant is kept.
LEMMA StepInv == ScannerInv /\ [Next]_vars => ScannerInv'
<1> SUFFICES ASSUME ScannerInv, [Next]_vars PROVE ScannerInv'
  OBVIOUS
<1>1. ASSUME NEW c \in Callers, Call(c) \/ ScanStep(c) PROVE ScannerInv'
  BY <1>1, KeptByCall, KeptByAcquire, KeptByEnsureRunning, KeptByEnsureSpawn, KeptByEnsureFail,
     KeptByScanFailed, KeptByScanAnswered, KeptByScanTimeout, KeptByReadClosed, KeptByPut,
     KeptByReap DEF ScanStep
<1>2. ASSUME NEW g \in gos, GoStep(g) PROVE ScannerInv'
  BY <1>2, KeptByGoWrite, KeptByGoRead, KeptByGoFail DEF GoStep
<1>3. ASSUME NEW i \in Spawns, CoprocessStep(i) PROVE ScannerInv'
  BY <1>3, KeptByServe, KeptByDie, KeptByWedge DEF CoprocessStep
<1>4. CASE CloseStep
  BY <1>4, KeptByCloseMark, KeptByCloseTake, KeptByCloseShutdown, KeptByCloseEnd DEF CloseStep
<1>5. CASE UNCHANGED vars
  BY <1>5 DEF vars, ScannerInv, TypeOK, SlotsOK, SpawnsOK, CallsOK, ResultsOK, Exclusive,
     CallInv, RunInv, GoInv, GoOK, PipeInv, Empty, Carries, VerdictIsOwn, Text
<1>6. QED
  BY <1>1, <1>2, <1>3, <1>4, <1>5 DEF Next, Finished

\* The inductive invariant holds whatever callers, goroutines, coprocesses
\* and Close do.
THEOREM ScannerInvHolds == Spec => []ScannerInv
<1>1. Init => ScannerInv
  BY InitInv
<1>2. ScannerInv /\ [Next]_vars => ScannerInv'
  BY StepInv
<1>3. QED
  BY <1>1, <1>2, PTL DEF Spec

\* The state keeps its shape, and a caller holds a slot exactly between the
\* receive from the pool and the send (Scanner.Scan).
THEOREM ScannerTypeCorrect == Spec => []TypeOK
<1>1. ScannerInv => TypeOK
  BY DEF ScannerInv
<1>2. QED
  BY <1>1, ScannerInvHolds, PTL

\* A slot is in one place at a time, for every number of callers and slots
\* and with or without a Close in between (Scanner.Scan, Scanner.Close).
THEOREM ExclusiveHolds == Spec => []Exclusive
<1>1. ScannerInv => Exclusive
  BY DEF ScannerInv
<1>2. QED
  BY <1>1, ScannerInvHolds, PTL

\* The verdict a Scan returns is about the text it was given, however many
\* scans timed out on the slot before (ppProc.scan: the handles are captured
\* and a timeout kills).
THEOREM VerdictIsOwnHolds == Spec => []VerdictIsOwn
<1>1. ScannerInv => VerdictIsOwn
  BY DEF ScannerInv
<1>2. QED
  BY <1>1, ScannerInvHolds, PTL

\* Every coprocess alive is known to a slot, and none to a slot that was shut
\* down (kill, ensure, shutdown).
THEOREM NoStrayProcessHolds == Spec => []NoStrayProcess
<1>1. ScannerInv => NoStrayProcess
  BY DEF ScannerInv, RunInv, NoStrayProcess
<1>2. QED
  BY <1>1, ScannerInvHolds, PTL

==========================================================================
