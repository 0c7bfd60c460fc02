--------------------------- MODULE LockfileProofs ---------------------------
(***************************************************************************)
(* Proofs about the lockfile (LockInit) and the locks a gateway makes of   *)
(* it (Startup), for any number of captures at once, tools arrays of any   *)
(* length and any way of cutting them into pages.                          *)
(***************************************************************************)
EXTENDS StartupProofs, SequenceTheorems

--------------------------------------------------------------------------
(* Listings *)

\* list is whole, as Whole says of a record.
Complete(list, vs) ==
    /\ list \in Seq(ToolEntry)
    /\ \E n \in DOMAIN vs : Len(vs[n]) <= Len(list) /\ Pieced(list, vs, n)

\* The pages got so far: read from the arrays that were offered in turn, up
\* to the one that is offered now.
Begun(list, vs) == list \in Seq(ToolEntry) /\ Pieced(list, vs, Len(vs))

\* The arrays a server has offered.
Arrays == {vs \in Seq(Seq(ToolEntry)) : Len(vs) # 0}

\* The ends of a sequence of arrays.
LEMMA ArrayFacts ==
    ASSUME NEW vs \in Arrays
    PROVE  /\ 1 \in DOMAIN vs /\ Len(vs) \in DOMAIN vs /\ Len(vs) \in Nat /\ DOMAIN vs = 1..Len(vs)
           /\ vs[1] \in Seq(ToolEntry) /\ Last(vs) = vs[Len(vs)] /\ Last(vs) \in Seq(ToolEntry)
BY DEF Arrays, Last

\* Sequences of one length with the same entries are equal.
LEMMA SameEntries ==
    ASSUME NEW a \in Seq(ToolEntry), NEW b \in Seq(ToolEntry), Len(a) = Len(b),
           \A x \in 1..Len(a) : a[x] = b[x]
    PROVE  a = b
OBVIOUS

\* Before the first page nothing has been read.
LEMMA NothingRead ==
    ASSUME NEW vs
    PROVE  Begun(<<>>, vs)
<1>1. Len(<<>>) = 0 /\ <<>> \in Seq(ToolEntry) /\ 1..0 = {}
  OBVIOUS
<1>2. PICK from : from = [x \in {} |-> 1]
  OBVIOUS
<1>3. from \in [{} -> 1..Len(vs)]
  BY <1>2
<1>4. QED
  BY <1>1, <1>3 DEF Begun, Pieced

\* b is all and one more page, up to upto, of the array that is offered now.
NextPage(vs, all, upto, b) ==
    /\ vs \in Arrays /\ upto \in Nat
    /\ Begun(all, vs)
    /\ Len(all) <= upto /\ (upto <= Len(Last(vs)) \/ upto = Len(all))
    /\ b = all \o SubSeq(Last(vs), Len(all) + 1, upto)

\* What one more page leads to (fetchAllTools): its entries come from the
\* last array, which no entry before them can be later than.
LEMMA PageGrows ==
    ASSUME NEW vs, NEW all, NEW upto, NEW b, NextPage(vs, all, upto, b)
    PROVE  Len(b) = upto /\ Begun(b, vs)
<1> USE DEF NextPage
<1>0. all \in Seq(ToolEntry) /\ Last(vs) \in Seq(ToolEntry)
  BY ArrayFacts DEF Begun
<1>1. PICK w : w = Last(vs)
  OBVIOUS
<1>2. PICK d : d = SubSeq(w, Len(all) + 1, upto)
  OBVIOUS
<1>3. PICK c \in Nat : c = Len(all)
  BY <1>0
<1>4. /\ d \in Seq(ToolEntry) /\ Len(d) = upto - c
      /\ \A x \in 1..(upto - c) : d[x] = w[x + c]
  BY <1>0, <1>1, <1>2, <1>3
<1>5. b = all \o d
  BY <1>1, <1>2
<1>6. b \in Seq(ToolEntry) /\ Len(b) = upto
  <2>1. b \in Seq(ToolEntry)
    BY <1>0, <1>4, <1>5, ConcatProperties
  <2>2. Len(b) = Len(all) + Len(d)
    BY <1>0, <1>4, <1>5, ConcatProperties
  <2>3. QED
    BY <1>3, <1>4, <2>1, <2>2
<1>7. \A x \in 1..upto : b[x] = IF x <= c THEN all[x] ELSE d[x - c]
  <2>1. PICK k \in Nat : k = Len(d) /\ upto = c + k
    <3>1. c <= upto /\ upto \in Nat /\ Len(d) = upto - c
      BY <1>3, <1>4
    <3>2. PICK k : k = upto - c
      OBVIOUS
    <3>3. k \in Nat /\ upto = c + k
      BY ONLY <3>1, <3>2, c \in Nat
    <3>4. QED
      BY ONLY <3>1, <3>2, <3>3
  <2>2. \A x \in 1..(Len(all) + Len(d)) : b[x] = IF x <= Len(all) THEN all[x] ELSE d[x - Len(all)]
    BY ONLY <1>0, <1>4, <1>5, ConcatProperties
  <2>3. QED
    BY ONLY <1>3, <2>1, <2>2
<1>8. PICK n \in Nat : n = Len(vs) /\ n # 0 /\ w = vs[n]
  BY <1>1, ArrayFacts DEF Arrays
<1>9. PICK from \in [1..c -> 1..n] :
        /\ \A x \in 1..c : x <= Len(vs[from[x]]) /\ all[x] = vs[from[x]][x]
        /\ \A x, y \in 1..c : x <= y => from[x] <= from[y]
  BY <1>3, <1>8 DEF Begun, Pieced
<1>10. PICK g : g = [x \in 1..upto |-> IF x <= c THEN from[x] ELSE n]
  OBVIOUS
<1>11. /\ \A x \in 1..upto : x <= c => x \in 1..c /\ from[x] \in 1..n /\ g[x] = from[x]
       /\ \A x \in 1..upto : x > c => g[x] = n
  BY ONLY <1>3, <1>9, <1>10, upto \in Nat
<1>12. g \in [1..upto -> 1..n]
  BY ONLY <1>3, <1>8, <1>9, <1>10, upto \in Nat
<1>13. ASSUME NEW x \in 1..upto PROVE x <= Len(vs[g[x]]) /\ b[x] = vs[g[x]][x]
  <2>1. CASE x <= c
    <3>1. x \in 1..c /\ g[x] = from[x] /\ b[x] = all[x]
      BY ONLY <1>7, <1>11, <2>1, x \in 1..upto
    <3>2. QED
      BY ONLY <1>9, <3>1
  <2>2. CASE x > c
    <3>1. x - c \in 1..(upto - c) /\ (x - c) + c = x /\ ~(x <= c)
      BY <1>3, <2>2
    <3>2. d[x - c] = w[x]
      BY <1>4, <3>1
    <3>3. b[x] = w[x] /\ g[x] = n
      BY <1>7, <1>11, <2>2, <3>1, <3>2
    <3>4. x <= Len(w)
      BY <1>0, <1>1, <1>3, <2>2
    <3>5. QED
      BY ONLY <1>8, <3>3, <3>4
  <2>3. x <= c \/ x > c
    BY ONLY <1>3, upto \in Nat, x \in 1..upto
  <2>4. QED
    BY ONLY <2>1, <2>2, <2>3
<1>14. ASSUME NEW x \in 1..upto, NEW y \in 1..upto, x <= y PROVE g[x] <= g[y]
  <2>1. CASE y <= c
    <3>1. x \in 1..c /\ y \in 1..c /\ g[x] = from[x] /\ g[y] = from[y]
      BY ONLY <1>3, <1>11, <1>14, <2>1, upto \in Nat
    <3>2. QED
      BY ONLY <1>9, <1>14, <3>1
  <2>2. CASE y > c
    <3>1. g[y] = n /\ g[x] \in 1..n
      BY ONLY <1>11, <1>12, <2>2, <1>14
    <3>2. QED
      BY ONLY <1>8, <3>1
  <2>3. QED
    BY ONLY <1>3, <1>14, <2>1, <2>2, upto \in Nat
<1>15. Pieced(b, vs, n)
  BY ONLY <1>6, <1>12, <1>13, <1>14 DEF Pieced
<1>16. QED
  BY <1>6, <1>8, <1>15 DEF Begun

\* The last page makes it whole.
LEMMA BegunToTheEnd ==
    ASSUME NEW vs \in Arrays, NEW all, Begun(all, vs), Len(all) >= Len(Last(vs))
    PROVE  Complete(all, vs)
<1>1. /\ Last(vs) = vs[Len(vs)] /\ Len(vs) \in DOMAIN vs
      /\ Len(Last(vs)) \in Nat /\ Len(all) \in Nat /\ all \in Seq(ToolEntry)
  BY ArrayFacts DEF Begun
<1>2. Len(Last(vs)) <= Len(all)
  BY <1>1
<1>3. QED
  BY <1>1, <1>2 DEF Begun, Complete

\* The array that is offered now is whole.
LEMMA OfferedIsComplete ==
    ASSUME NEW vs \in Arrays
    PROVE  Complete(Last(vs), vs)
<1>1. PICK w \in Seq(ToolEntry) : w = Last(vs)
  BY ArrayFacts
<1>2. PICK n \in Nat : n = Len(vs) /\ n \in DOMAIN vs /\ w = vs[n] /\ n \in 1..n
  BY <1>1, ArrayFacts
<1>3. PICK m \in Nat : m = Len(w)
  BY <1>1
<1>4. PICK from : from = [x \in 1..m |-> n]
  OBVIOUS
<1>5. from \in [1..m -> 1..n] /\ \A x \in 1..m : from[x] = n
  BY ONLY <1>2, <1>4
<1>6. /\ \A x \in 1..m : x <= Len(vs[from[x]]) /\ w[x] = vs[from[x]][x]
      /\ \A x, y \in 1..m : x <= y => from[x] <= from[y]
  BY ONLY <1>2, <1>3, <1>5
<1>7. Pieced(w, vs, n)
  BY ONLY <1>3, <1>5, <1>6 DEF Pieced
<1>8. Len(vs[n]) <= Len(w)
  BY ONLY <1>2, <1>3
<1>9. QED
  BY ONLY <1>1, <1>2, <1>7, <1>8 DEF Complete

\* A server that never changed has been captured as it is.
LEMMA CompleteOfOne ==
    ASSUME NEW vs \in Arrays, Len(vs) = 1, NEW list, Complete(list, vs)
    PROVE  list = vs[1]
<1>1. vs[1] \in Seq(ToolEntry) /\ DOMAIN vs = {1} /\ list \in Seq(ToolEntry)
  BY ArrayFacts DEF Complete
<1>2. PICK w \in Seq(ToolEntry) : w = vs[1]
  BY <1>1
<1>3. PICK m \in Nat : m = Len(list)
  BY <1>1
<1>4. PICK k \in Nat : k = Len(w)
  OBVIOUS
<1>5. k <= m /\ Pieced(list, vs, 1)
  BY <1>1, <1>2, <1>3, <1>4 DEF Complete
<1>6. PICK from \in [1..m -> 1..1] :
        \A x \in 1..m : x <= Len(vs[from[x]]) /\ list[x] = vs[from[x]][x]
  BY ONLY <1>3, <1>5 DEF Pieced
<1>7. \A x \in 1..m : from[x] = 1
  BY ONLY <1>6
<1>8. \A x \in 1..m : x <= k /\ list[x] = w[x]
  BY ONLY <1>2, <1>4, <1>6, <1>7
<1>9. m = k
  BY ONLY <1>5, <1>8, m \in Nat, k \in Nat
<1>10. QED
  BY ONLY <1>1, <1>2, <1>3, <1>4, <1>8, <1>9, SameEntries

\* A server that offers another array takes nothing back.
LEMMA UpgradeKeepsListings ==
    ASSUME NEW vs \in Arrays, NEW v \in Seq(ToolEntry), NEW ws, ws = Append(vs, v)
    PROVE  /\ ws \in Arrays
           /\ \A list : Complete(list, vs) => Complete(list, ws)
           /\ \A list : Begun(list, vs) => Begun(list, ws)
<1>1. PICK n \in Nat : n = Len(vs) /\ DOMAIN vs = 1..n /\ vs \in Seq(Seq(ToolEntry))
  BY ArrayFacts DEF Arrays
<1>2. /\ ws \in Seq(Seq(ToolEntry)) /\ Len(ws) = n + 1 /\ DOMAIN ws = 1..(n + 1)
      /\ \A i \in 1..n : ws[i] = vs[i]
  <2>1. PICK T : T = Seq(ToolEntry)
    OBVIOUS
  <2>2. vs \in Seq(T) /\ v \in T
    BY <1>1, <2>1
  <2>3. /\ ws \in Seq(T) /\ Len(ws) = Len(vs) + 1
        /\ \A i \in 1..Len(vs) : ws[i] = vs[i]
    BY ONLY <2>2, ws = Append(vs, v), AppendProperties
  <2>4. DOMAIN ws = 1..Len(ws)
    BY ONLY <2>3
  <2>5. QED
    BY ONLY <1>1, <2>1, <2>3, <2>4
<1>3. ws \in Arrays
  BY <1>2 DEF Arrays
<1>4. ASSUME NEW list, NEW j \in 1..n, NEW k \in {j, j + 1}, Pieced(list, vs, j)
      PROVE  Pieced(list, ws, k)
  <2>1. PICK from \in [1..Len(list) -> 1..j] :
          /\ \A x \in 1..Len(list) : x <= Len(vs[from[x]]) /\ list[x] = vs[from[x]][x]
          /\ \A x, y \in 1..Len(list) : x <= y => from[x] <= from[y]
    BY ONLY <1>4 DEF Pieced
  <2>2. \A i \in 1..j : i \in 1..n /\ i \in 1..k
    BY ONLY <1>1, <1>4, n \in Nat
  <2>3. \A x \in 1..Len(list) : from[x] \in 1..k /\ ws[from[x]] = vs[from[x]]
    BY ONLY <1>2, <2>1, <2>2
  <2>4. from \in [1..Len(list) -> 1..k]
    BY ONLY <2>1, <2>3
  <2>5. \A x \in 1..Len(list) : x <= Len(ws[from[x]]) /\ list[x] = ws[from[x]][x]
    BY ONLY <2>1, <2>3
  <2>6. QED
    BY ONLY <2>1, <2>4, <2>5 DEF Pieced
<1>5. ASSUME NEW list, Complete(list, vs) PROVE Complete(list, ws)
  <2>1. PICK j \in 1..n : Len(vs[j]) <= Len(list) /\ Pieced(list, vs, j)
    BY ONLY <1>1, <1>5 DEF Complete
  <2>2. Pieced(list, ws, j) /\ ws[j] = vs[j] /\ j \in 1..(n + 1)
    BY ONLY <1>2, <1>4, <2>1, n \in Nat
  <2>3. QED
    BY ONLY <1>2, <1>5, <2>1, <2>2 DEF Complete
<1>6. ASSUME NEW list, Begun(list, vs) PROVE Begun(list, ws)
  <2>1. n \in 1..n /\ Pieced(list, vs, n) /\ list \in Seq(ToolEntry)
    BY <1>1, <1>6 DEF Begun, Arrays
  <2>2. Pieced(list, ws, n + 1)
    BY ONLY <1>4, <2>1
  <2>3. QED
    BY ONLY <1>2, <2>1, <2>2 DEF Begun
<1>7. QED
  BY ONLY <1>3, <1>5, <1>6

--------------------------------------------------------------------------
(* The invariant *)

\* A record of a server that is asked, whose listing is whole.
RecordOK(r) ==
    /\ r.url \in DOMAIN Offers /\ Complete(r.list, versions[r.url])
    /\ \A i \in DOMAIN r.list : Parses(r.list[i])

\* The same of the servers of a document.
RecordsOK(m) == \A s \in DOMAIN m : RecordOK(m[s])

\* The document has what other programs wrote last.
Agrees(m) == \A s \in DOMAIN noted : s \in DOMAIN m /\ m[s] = noted[s]

\* c is a state of capture p: while it lists, it knows how far it has come;
\* when it has listed, it has all of it; and what it holds in memory would
\* be right if it were written now.
CapOK(p, c) ==
    /\ c = [pc |-> c.pc, ups |-> c.ups, at |-> c.at, mem |-> c.mem, all |-> c.all,
            cursor |-> c.cursor, page |-> c.page]
    /\ RecordsOK(c.mem)
    /\ c.pc \in {"page", "record"} => c.ups \in CaptureConfigs[p] /\ c.at \in DOMAIN c.ups
    /\ c.pc = "page" => c.cursor = Len(c.all) /\ Begun(c.all, versions[c.ups[c.at].URL])
    /\ c.pc = "record" => Complete(c.all, versions[c.ups[c.at].URL])
    /\ (raced = FALSE /\ c.pc \in Holding) => Agrees(c.mem)

CapsInv == cap = [p \in Captures |-> cap[p]] /\ \A p \in Captures : CapOK(p, cap[p])

\* What a server has offered: one array after the other.
VersionInv == DOMAIN versions = DOMAIN Offers /\ \A u \in DOMAIN Offers : versions[u] \in Arrays

\* The file, and what others have noted in it.
FileInv ==
    /\ RecordsOK(file.servers)
    /\ raced \in BOOLEAN
    /\ DOMAIN noted \subseteq Others
    /\ file.kind = "absent" => noted = Nothing
    /\ (raced = FALSE /\ file.kind = "good") => Agrees(file.servers)

\* What a gateway has read and made of it.
LocksInv ==
    /\ \A path \in DOMAIN gw.cache : RecordsOK(gw.cache[path])
    /\ \A n \in DOMAIN gw.locks : RecordOK(gw.locks[n])

\* The properties are about the file and the locks; what makes them true is
\* what a capture has in its memory between loading the file and writing it.
LockfileInv == CapsInv /\ VersionInv /\ FileInv /\ LocksInv

--------------------------------------------------------------------------
(* The steps of a capture before it writes *)

\* A map without entries.
LEMMA NothingOK == DOMAIN Nothing = {} /\ RecordsOK(Nothing)
BY DEF Nothing, RecordsOK

\* A capture that is not under way.
LEMMA RestOK ==
    ASSUME NEW p, NEW where \in {"idle", "failed", "done"}, NEW c, c = Rest(where)
    PROVE  c.pc = where /\ CapOK(p, c)
<1>1. c = [pc |-> where, ups |-> <<>>, at |-> 1, mem |-> Nothing, all |-> <<>>, cursor |-> 0, page |-> 0]
  BY DEF Rest
<1>2. c.pc = where /\ c.mem = Nothing
  BY <1>1
<1>3. c.pc \notin Holding /\ c.pc # "page" /\ c.pc # "record"
  BY <1>2 DEF Holding
<1>4. c = [pc |-> c.pc, ups |-> c.ups, at |-> c.at, mem |-> c.mem, all |-> c.all,
           cursor |-> c.cursor, page |-> c.page]
  BY <1>1
<1>5. QED
  BY <1>2, <1>3, <1>4, NothingOK DEF CapOK

\* A step that changes the state of one capture only.
LEMMA CapStepKeeps ==
    ASSUME LockfileInv, NEW p \in Captures, NEW c, CapOK(p, c),
           cap' = [cap EXCEPT ![p] = c], OnlyCap, UNCHANGED gw
    PROVE  LockfileInv'
<1>1. /\ cap' = [q \in Captures |-> cap'[q]] /\ cap'[p] = c
      /\ \A q \in Captures : q # p => cap'[q] = cap[q]
  BY DEF LockfileInv, CapsInv
<1>2. UNCHANGED <<file, versions, noted, raced, gw>>
  BY DEF OnlyCap
<1>3. ASSUME NEW q \in Captures, NEW d, CapOK(q, d) PROVE CapOK(q, d)'
  BY <1>2, <1>3 DEF CapOK, RecordsOK, RecordOK, Agrees
<1>4. CapsInv'
  <2>1. ASSUME NEW q \in Captures PROVE CapOK(q, cap[q])'
    <3>1. PICK d : d = cap'[q]
      OBVIOUS
    <3>2. CapOK(q, d)
      BY <1>1, <3>1 DEF LockfileInv, CapsInv
    <3>3. CapOK(q, d)'
      BY <1>3, <3>2
    <3>4. QED
      BY <3>1, <3>3
  <2>2. QED
    BY <1>1, <2>1 DEF CapsInv
<1>5. VersionInv' /\ FileInv' /\ LocksInv'
  BY <1>2 DEF LockfileInv, VersionInv, FileInv, LocksInv, RecordsOK, RecordOK, Agrees
<1>6. QED
  BY <1>4, <1>5 DEF LockfileInv

\* Validate, Stat and loadLockFile.
LEMMA BeginKeeps ==
    ASSUME LockfileInv, NEW p \in Captures, Begin(p), UNCHANGED gw
    PROVE  LockfileInv'
<1>1. PICK ups \in CaptureConfigs[p] :
        cap' = [cap EXCEPT ![p] =
                   IF Validate(ups) /\ (file.kind = "absent" \/ loadLockFile)
                   THEN [Rest("page") EXCEPT !.ups = ups, !.mem = file.servers]
                   ELSE Rest("failed")]
  BY DEF Begin
<1>2. OnlyCap
  BY DEF Begin
<1>3. CASE cap' = [cap EXCEPT ![p] = Rest("failed")]
  BY <1>2, <1>3, RestOK, CapStepKeeps
<1>4. CASE /\ Validate(ups) /\ file.kind \in {"absent", "good"}
           /\ cap' = [cap EXCEPT ![p] = [Rest("page") EXCEPT !.ups = ups, !.mem = file.servers]]
  <2>1. PICK c : c = [Rest("page") EXCEPT !.ups = ups, !.mem = file.servers]
    OBVIOUS
  <2>2. c = [pc |-> "page", ups |-> ups, at |-> 1, mem |-> file.servers, all |-> <<>>,
             cursor |-> 0, page |-> 0]
    BY <2>1 DEF Rest
  <2>3. ups \in Seq(Upstream)
    BY LockInitAssumption
  <2>4. 1 \in DOMAIN ups
    <3>1. Len(ups) # 0
      BY <1>4, <2>3, ValidNames
    <3>2. QED
      BY <2>3, <3>1
  <2>5. PICK vs : vs = versions[ups[1].URL]
    OBVIOUS
  <2>7. Begun(<<>>, vs)
    BY NothingRead
  <2>8. Len(<<>>) = 0
    OBVIOUS
  <2>9. raced = FALSE => Agrees(file.servers)
    BY <1>4, NothingOK DEF LockfileInv, FileInv, Agrees
  <2>10. /\ c.pc = "page" /\ c.ups = ups /\ c.at = 1 /\ c.mem = file.servers /\ c.all = <<>>
         /\ c.cursor = 0
         /\ c = [pc |-> c.pc, ups |-> c.ups, at |-> c.at, mem |-> c.mem, all |-> c.all,
                 cursor |-> c.cursor, page |-> c.page]
    BY <2>2
  <2>11. RecordsOK(c.mem)
    BY <2>10 DEF LockfileInv, FileInv
  <2>12. CapOK(p, c)
    BY <2>4, <2>5, <2>7, <2>8, <2>9, <2>10, <2>11 DEF CapOK
  <2>13. QED
    BY <1>2, <1>4, <2>1, <2>12, CapStepKeeps
<1>5. QED
  BY <1>1, <1>3, <1>4 DEF loadLockFile

\* fetchAllTools gets one more page, or gives up.
LEMMA PageKeeps ==
    ASSUME LockfileInv, NEW p \in Captures, Page(p), UNCHANGED gw
    PROVE  LockfileInv'
<1>1. PICK e : e = cap[p]
  OBVIOUS
<1>2. PICK u : u = e.ups[e.at]
  OBVIOUS
<1>3. PICK vs : vs = versions[u.URL]
  OBVIOUS
<1>4. /\ CapOK(p, e) /\ e.pc = "page" /\ OnlyCap
  BY <1>1 DEF LockfileInv, CapsInv, Page, At
<1>5. /\ e.ups \in CaptureConfigs[p] /\ e.at \in DOMAIN e.ups /\ e.all \in Seq(ToolEntry)
      /\ e.cursor = Len(e.all) /\ Begun(e.all, vs)
  BY <1>2, <1>3, <1>4 DEF CapOK, Begun
<1>6. vs \in Arrays
  BY <1>2, <1>3, <1>5, LockInitAssumption DEF LockfileInv, VersionInv
<1>7. PICK w : w = Last(vs) /\ w \in Seq(ToolEntry)
  BY <1>6, ArrayFacts
<1>8. PICK c \in Paged(e, w) :
        cap' = [cap EXCEPT ![p] = IF cap[p].page < maxLockPages THEN c ELSE Rest("failed")]
  BY <1>1, <1>2, <1>3, <1>7 DEF Page, Offered, Up
<1>9. PICK x \in {y \in [upto : e.cursor..(e.cursor + Len(w)), more : BOOLEAN] :
                    /\ y.upto <= Len(w) \/ y.upto = e.cursor
                    /\ y.more \/ y.upto >= Len(w)} :
        c = [e EXCEPT !.pc = IF x.more THEN "page" ELSE "record",
                      !.all = @ \o SubSeq(w, e.cursor + 1, x.upto),
                      !.cursor = x.upto,
                      !.page = @ + 1]
  BY <1>8 DEF Paged
<1>10. PICK upto : upto = x.upto
  OBVIOUS
<1>11. /\ upto \in e.cursor..(e.cursor + Len(w)) /\ (upto <= Len(w) \/ upto = e.cursor)
       /\ x.more \in BOOLEAN /\ (x.more = TRUE \/ upto >= Len(w))
  BY <1>9, <1>10
<1>12. PICK b : b = e.all \o SubSeq(w, Len(e.all) + 1, upto)
  OBVIOUS
<1>13. upto \in Nat /\ Len(e.all) <= upto
  BY <1>5, <1>7, <1>11
<1>14. Len(b) = upto /\ Begun(b, vs)
  <2>1. NextPage(vs, e.all, upto, b)
    BY <1>5, <1>6, <1>7, <1>11, <1>12, <1>13 DEF NextPage
  <2>2. QED
    BY ONLY <2>1, PageGrows
<1>15. PICK pc : pc = IF x.more THEN "page" ELSE "record"
  OBVIOUS
<1>16. c = [e EXCEPT !.pc = pc, !.all = b, !.cursor = upto, !.page = @ + 1]
  BY <1>5, <1>9, <1>10, <1>12, <1>15
<1>17. /\ c.pc = pc /\ c.ups = e.ups /\ c.at = e.at /\ c.mem = e.mem /\ c.all = b /\ c.cursor = upto
       /\ c = [pc |-> c.pc, ups |-> c.ups, at |-> c.at, mem |-> c.mem, all |-> c.all,
               cursor |-> c.cursor, page |-> c.page]
  BY <1>4, <1>16 DEF CapOK
<1>18. pc = "page" \/ (pc = "record" /\ upto >= Len(w))
  BY <1>11, <1>15
<1>19. pc = "record" => Complete(b, vs)
  <2>1. pc = "record" => Len(b) >= Len(w)
    BY <1>14, <1>18
  <2>2. QED
    BY <1>6, <1>7, <1>14, <2>1, BegunToTheEnd
<1>20. CapOK(p, c)
  <2>1. RecordsOK(c.mem) /\ (raced = FALSE => Agrees(c.mem))
    BY <1>4, <1>17 DEF CapOK, Holding
  <2>2. QED
    BY <1>2, <1>3, <1>5, <1>14, <1>17, <1>18, <1>19, <2>1 DEF CapOK
<1>21. CASE cap' = [cap EXCEPT ![p] = Rest("failed")]
  BY <1>4, <1>21, RestOK, CapStepKeeps
<1>22. CASE cap' = [cap EXCEPT ![p] = c]
  BY <1>4, <1>20, <1>22, CapStepKeeps
<1>23. QED
  BY <1>8, <1>21, <1>22

\* A request fails, or the capture is killed.
LEMMA FailKeeps ==
    ASSUME LockfileInv, NEW p \in Captures, RPCFails(p) \/ Killed(p), UNCHANGED gw
    PROVE  LockfileInv'
BY RestOK, CapStepKeeps DEF RPCFails, Killed, Fail

\* A complete listing becomes a record in memory.
LEMMA RecordKeeps ==
    ASSUME LockfileInv, NEW p \in Captures, Record(p), UNCHANGED gw
    PROVE  LockfileInv'
<1>1. PICK e : e = cap[p]
  OBVIOUS
<1>2. PICK u : u = e.ups[e.at]
  OBVIOUS
<1>3. PICK r : r = lockServer(u, e.all)
  OBVIOUS
<1>4. /\ CapOK(p, e) /\ e.pc = "record" /\ OnlyCap
  BY <1>1 DEF LockfileInv, CapsInv, Record, At
<1>5. e.ups \in CaptureConfigs[p] /\ e.at \in DOMAIN e.ups /\ Complete(e.all, versions[u.URL])
  BY <1>2, <1>4 DEF CapOK
<1>6. u.Name \notin Others /\ u.URL \in DOMAIN Offers /\ e.ups \in Seq(Upstream)
  BY <1>2, <1>5, LockInitAssumption
<1>7. CASE ~Lockable(e.all)
  <2>1. cap' = [cap EXCEPT ![p] = Rest("failed")]
    BY <1>1, <1>7 DEF Record
  <2>2. QED
    BY <1>4, <2>1, RestOK, CapStepKeeps
<1>8. CASE Lockable(e.all)
  <2>1. PICK at : at = IF e.at = Len(e.ups) THEN e.at ELSE e.at + 1
    OBVIOUS
  <2>2. PICK pc : pc = IF e.at = Len(e.ups) THEN "open" ELSE "page"
    OBVIOUS
  <2>3. PICK mem : mem = Put(e.mem, u.Name, r)
    OBVIOUS
  <2>4. PICK c : c = [pc |-> pc, ups |-> e.ups, at |-> at, mem |-> mem, all |-> <<>>,
                      cursor |-> 0, page |-> 0]
    OBVIOUS
  <2>5. cap' = [cap EXCEPT ![p].mem = Put(@, Up(p).Name, lockServer(Up(p), cap[p].all)),
                           ![p].at = IF @ = Len(cap[p].ups) THEN @ ELSE @ + 1,
                           ![p].all = <<>>, ![p].cursor = 0, ![p].page = 0,
                           ![p].pc = IF cap[p].at = Len(cap[p].ups) THEN "open" ELSE "page"]
    BY <1>1, <1>8 DEF Record
  <2>6. cap' = [cap EXCEPT ![p] = [e EXCEPT !.mem = mem, !.at = at, !.all = <<>>, !.cursor = 0,
                                            !.page = 0, !.pc = pc]]
    BY ONLY <1>1, <1>2, <1>3, <2>1, <2>2, <2>3, <2>5 DEF Up
  <2>7. c = [e EXCEPT !.mem = mem, !.at = at, !.all = <<>>, !.cursor = 0, !.page = 0, !.pc = pc]
    <3>1. e = [pc |-> e.pc, ups |-> e.ups, at |-> e.at, mem |-> e.mem, all |-> e.all,
               cursor |-> e.cursor, page |-> e.page]
      BY <1>4 DEF CapOK
    <3>2. PICK d : d = <<>>
      OBVIOUS
    <3>3. PICK f : f = [e EXCEPT !.mem = mem, !.at = at, !.all = d, !.cursor = 0, !.page = 0, !.pc = pc]
      OBVIOUS
    <3>4. /\ f.pc = pc /\ f.ups = e.ups /\ f.at = at /\ f.mem = mem /\ f.all = d /\ f.cursor = 0
          /\ f.page = 0
      BY ONLY <3>1, <3>3
    <3>5. f = [pc |-> f.pc, ups |-> f.ups, at |-> f.at, mem |-> f.mem, all |-> f.all,
               cursor |-> f.cursor, page |-> f.page]
      BY ONLY <3>1, <3>3
    <3>6. c = f
      BY ONLY <2>4, <3>2, <3>4, <3>5
    <3>7. QED
      BY ONLY <3>2, <3>3, <3>6
  <2>8. /\ c.pc = pc /\ c.ups = e.ups /\ c.at = at /\ c.mem = mem /\ c.all = <<>> /\ c.cursor = 0
        /\ c = [pc |-> c.pc, ups |-> c.ups, at |-> c.at, mem |-> c.mem, all |-> c.all,
                cursor |-> c.cursor, page |-> c.page]
    BY <2>4
  <2>9. RecordOK(r)
    <3>1. r.url = u.URL /\ r.list = e.all
      BY <1>3 DEF lockServer
    <3>2. \A i \in DOMAIN e.all : Parses(e.all[i])
      BY <1>8 DEF Lockable
    <3>3. QED
      BY <1>5, <1>6, <3>1, <3>2 DEF RecordOK
  <2>10. RecordsOK(e.mem) /\ (raced = FALSE => Agrees(e.mem))
    BY <1>4 DEF CapOK, Holding
  <2>11. RecordsOK(mem)
    BY <2>3, <2>9, <2>10 DEF RecordsOK, Put
  <2>12. raced = FALSE => Agrees(mem)
    <3>1. ASSUME raced = FALSE, NEW s \in DOMAIN noted PROVE s \in DOMAIN mem /\ mem[s] = noted[s]
      <4>1. s # u.Name
        BY <1>6, <3>1 DEF LockfileInv, FileInv
      <4>2. s \in DOMAIN e.mem /\ e.mem[s] = noted[s]
        BY <2>10, <3>1 DEF Agrees
      <4>3. QED
        BY <2>3, <4>1, <4>2 DEF Put
    <3>2. QED
      BY <3>1 DEF Agrees
  <2>13. pc = "open" \/ (pc = "page" /\ at \in DOMAIN e.ups)
    BY <1>5, <1>6, <2>1, <2>2
  <2>14. pc = "page" => Begun(<<>>, versions[e.ups[at].URL])
    BY NothingRead
  <2>15. Len(<<>>) = 0
    OBVIOUS
  <2>16. CapOK(p, c)
    BY <1>5, <2>8, <2>11, <2>12, <2>13, <2>14, <2>15 DEF CapOK
  <2>17. QED
    BY <1>4, <2>6, <2>7, <2>16, CapStepKeeps
<1>9. QED
  BY <1>7, <1>8

--------------------------------------------------------------------------
(* The steps that write the file *)

\* Nobody else holds a copy, so a document that is written now is the last.
LEMMA NotBehind ==
    ASSUME NEW p, raced' = (raced \/ Behind(p)), raced \in BOOLEAN
    PROVE  /\ raced' \in BOOLEAN
           /\ raced' = FALSE => raced = FALSE /\ \A q \in Captures : q # p => cap[q].pc \notin Holding
<1>1. raced' \in BOOLEAN
  BY Zenon DEF Behind
<1>2. raced' = FALSE => raced = FALSE /\ ~Behind(p)
  BY Zenon DEF Behind
<1>3. QED
  BY <1>1, <1>2 DEF Behind

\* The captures, after a step that writes the file or marks it as raced.
LEMMA OtherCaptures ==
    ASSUME LockfileInv, NEW p \in Captures, NEW c, cap' = [cap EXCEPT ![p] = c],
           UNCHANGED <<versions, noted, gw>>, CapOK(p, c)',
           raced' = FALSE => raced = FALSE
    PROVE  CapsInv' /\ VersionInv' /\ LocksInv'
<1>1. /\ cap' = [q \in Captures |-> cap'[q]] /\ cap'[p] = c
      /\ \A q \in Captures : q # p => cap'[q] = cap[q]
  BY DEF LockfileInv, CapsInv
<1>2. ASSUME NEW q \in Captures, NEW d, CapOK(q, d) PROVE CapOK(q, d)'
  BY <1>2 DEF CapOK, RecordsOK, RecordOK, Agrees
<1>3. ASSUME NEW q \in Captures PROVE CapOK(q, cap[q])'
  <2>1. CASE q = p
    BY <1>1, <2>1 DEF CapOK
  <2>2. CASE q # p
    <3>1. PICK d : d = cap[q]
      OBVIOUS
    <3>2. CapOK(q, d)'
      BY <1>2, <3>1 DEF LockfileInv, CapsInv
    <3>3. cap'[q] = d
      BY <1>1, <2>2, <3>1
    <3>4. QED
      BY <3>2, <3>3
  <2>3. QED
    BY <2>1, <2>2
<1>4. VersionInv' /\ LocksInv'
  BY DEF LockfileInv, VersionInv, LocksInv, RecordsOK, RecordOK
<1>5. QED
  BY <1>1, <1>3, <1>4 DEF CapsInv

\* A file that does not load says nothing.
LEMMA SpoiltFile ==
    ASSUME FileInv, NEW k \in {"empty", "broken"}, file' = [kind |-> k, servers |-> Nothing],
           raced' \in BOOLEAN, UNCHANGED noted
    PROVE  FileInv'
<1>1. file'.kind = k /\ file'.servers = Nothing
  OBVIOUS
<1>2. RecordsOK(file.servers)'
  BY <1>1, NothingOK DEF RecordsOK
<1>3. QED
  BY <1>1, <1>2 DEF FileInv

\* os.WriteFile opens the file.
LEMMA TruncateKeeps ==
    ASSUME LockfileInv, NEW p \in Captures, Truncate(p), UNCHANGED gw
    PROVE  LockfileInv'
<1>1. PICK e : e = cap[p]
  OBVIOUS
<1>2. /\ CapOK(p, e) /\ e.pc = "open" /\ FileInv
  BY <1>1 DEF LockfileInv, CapsInv, Truncate, At
<1>3. PICK c : c = [e EXCEPT !.pc = "write"]
  OBVIOUS
<1>4. /\ c.pc = "write" /\ c.mem = e.mem
      /\ c = [pc |-> c.pc, ups |-> c.ups, at |-> c.at, mem |-> c.mem, all |-> c.all,
              cursor |-> c.cursor, page |-> c.page]
  BY <1>2, <1>3 DEF CapOK
<1>5. cap' = [cap EXCEPT ![p] = c]
  BY <1>1, <1>3 DEF Truncate
<1>6. raced' \in BOOLEAN /\ (raced' = FALSE => raced = FALSE)
  BY <1>2, NotBehind DEF Truncate, FileInv
<1>7. UNCHANGED <<versions, noted>>
  BY DEF Truncate
<1>8. CapOK(p, c)'
  <2>1. RecordsOK(e.mem) /\ (raced = FALSE => Agrees(e.mem))
    BY <1>2 DEF CapOK, Holding
  <2>2. RecordsOK(c.mem)' /\ (raced' = FALSE => Agrees(c.mem)')
    BY <1>4, <1>6, <1>7, <2>1 DEF RecordsOK, RecordOK, Agrees
  <2>3. QED
    BY <1>4, <2>2 DEF CapOK
<1>9. FileInv'
  BY <1>2, <1>6, <1>7, SpoiltFile DEF Truncate
<1>10. QED
  BY <1>5, <1>6, <1>7, <1>8, <1>9, OtherCaptures DEF LockfileInv

\* ... and writes it.
LEMMA WriteKeeps ==
    ASSUME LockfileInv, NEW p \in Captures, Write(p), UNCHANGED gw
    PROVE  LockfileInv'
<1>1. PICK e : e = cap[p]
  OBVIOUS
<1>2. /\ CapOK(p, e) /\ e.pc = "write" /\ FileInv
  BY <1>1 DEF LockfileInv, CapsInv, Write, At
<1>3. PICK c : c = Rest("done")
  OBVIOUS
<1>4. cap' = [cap EXCEPT ![p] = c]
  BY <1>3 DEF Write
<1>5. raced' \in BOOLEAN /\ (raced' = FALSE => raced = FALSE)
  BY <1>2, NotBehind DEF Write, FileInv
<1>6. UNCHANGED <<versions, noted>>
  BY DEF Write
<1>7. CapOK(p, c)'
  <2>1. c.pc = "done" /\ CapOK(p, c)
    BY <1>3, RestOK
  <2>2. QED
    BY <1>6, <2>1 DEF CapOK, RecordsOK, RecordOK, Agrees, Holding
<1>8. CASE file' = [kind |-> "good", servers |-> e.mem]
  <2>1. RecordsOK(e.mem) /\ (raced = FALSE => Agrees(e.mem))
    BY <1>2 DEF CapOK, Holding
  <2>2. file'.kind = "good" /\ file'.servers = e.mem
    BY <1>8
  <2>3. RecordsOK(file.servers)' /\ (raced' = FALSE => Agrees(file.servers)')
    BY <1>5, <1>6, <2>1, <2>2 DEF RecordsOK, RecordOK, Agrees
  <2>4. FileInv'
    BY <1>2, <1>5, <1>6, <2>2, <2>3 DEF FileInv
  <2>5. QED
    BY <1>4, <1>5, <1>6, <1>7, <2>4, OtherCaptures DEF LockfileInv
<1>9. CASE file' = [kind |-> "broken", servers |-> Nothing]
  <2>1. FileInv'
    BY <1>2, <1>5, <1>6, <1>9, SpoiltFile
  <2>2. QED
    BY <1>4, <1>5, <1>6, <1>7, <2>1, OtherCaptures DEF LockfileInv
<1>10. QED
  BY <1>1, <1>8, <1>9 DEF Write

\* ... or fails to.
LEMMA WriteFailsKeeps ==
    ASSUME LockfileInv, NEW p \in Captures, WriteFails(p), UNCHANGED gw
    PROVE  LockfileInv'
<1>1. FileInv /\ raced \in BOOLEAN
  BY DEF LockfileInv, FileInv
<1>2. PICK c : c = Rest("failed")
  OBVIOUS
<1>3. cap' = [cap EXCEPT ![p] = c] /\ UNCHANGED <<versions, sentinel, noted, raced>>
  BY <1>2 DEF WriteFails, Fail
<1>4. CapOK(p, c)
  BY <1>2, RestOK
<1>5. CASE file' = file
  BY <1>3, <1>4, <1>5, CapStepKeeps DEF OnlyCap
<1>6. CASE file' = [kind |-> "broken", servers |-> Nothing]
  <2>1. FileInv'
    BY <1>1, <1>3, <1>6, SpoiltFile
  <2>2. CapOK(p, c)'
    BY <1>3, <1>4 DEF CapOK, RecordsOK, RecordOK, Agrees
  <2>3. QED
    BY <1>3, <2>1, <2>2, OtherCaptures DEF LockfileInv
<1>7. QED
  BY <1>5, <1>6 DEF WriteFails

\* Another program writes one record, a whole array as it is offered now.
LEMMA SentinelKeeps ==
    ASSUME LockfileInv, SentinelStep, UNCHANGED gw
    PROVE  LockfileInv'
<1>1. PICK run \in SentinelRuns :
        SentinelWrites(run.server,
                       [capture |-> run.capture, list |-> Offered(run.url), url |-> run.url])
  BY DEF SentinelStep
<1>2. PICK s : s = run.server
  OBVIOUS
<1>3. PICK r : r = [capture |-> run.capture, list |-> Offered(run.url), url |-> run.url]
  OBVIOUS
<1>4. /\ \A i \in DOMAIN r.list : Parses(r.list[i])
      /\ file.kind \in {"absent", "good"}
      /\ file' = [kind |-> "good", servers |-> Put(file.servers, s, r)]
      /\ noted' = IF s \in Others THEN Put(noted, s, r) ELSE noted
      /\ raced' = (raced \/ Behind(None))
      /\ UNCHANGED <<versions, cap>>
  BY <1>1, <1>2, <1>3 DEF SentinelWrites
<1>5. RecordOK(r)
  <2>1. run.url \in DOMAIN Offers
    BY LockInitAssumption
  <2>2. PICK vs \in Arrays : vs = versions[run.url]
    BY <2>1 DEF LockfileInv, VersionInv
  <2>3. r.url = run.url /\ r.list = Last(vs)
    BY <1>3, <2>2 DEF Offered
  <2>4. QED
    BY <1>4, <2>1, <2>2, <2>3, OfferedIsComplete DEF RecordOK
<1>6. /\ raced' \in BOOLEAN /\ (raced' = FALSE => raced = FALSE)
      /\ raced' = FALSE => \A q \in Captures : cap[q].pc \notin Holding
  <2>1. /\ raced' \in BOOLEAN
        /\ raced' = FALSE => raced = FALSE /\ \A q \in Captures : q # None => cap[q].pc \notin Holding
    BY <1>4, NotBehind DEF LockfileInv, FileInv
  <2>2. QED
    BY <2>1, LockInitAssumption
<1>7. PICK m : m = Put(file.servers, s, r)
  OBVIOUS
<1>8. file'.kind = "good" /\ file'.servers = m
  BY <1>4, <1>7
<1>9. RecordsOK(m)
  BY <1>5, <1>7 DEF LockfileInv, FileInv, RecordsOK, Put
<1>10. DOMAIN noted' \subseteq Others
  BY <1>4 DEF LockfileInv, FileInv, Put
<1>11. raced' = FALSE => Agrees(m)'
  <2>1. ASSUME raced' = FALSE, NEW x \in DOMAIN noted' PROVE x \in DOMAIN m /\ m[x] = noted'[x]
    <3>1. Agrees(file.servers)
      BY <1>4, <1>6, <2>1, NothingOK DEF LockfileInv, FileInv, Agrees
    <3>2. CASE x = s
      <4>1. s \in Others
        BY <1>10, <2>1, <3>2
      <4>2. QED
        BY <1>4, <1>7, <3>2, <4>1 DEF Put
    <3>3. CASE x # s
      <4>1. x \in DOMAIN noted /\ noted'[x] = noted[x]
        BY <1>4, <2>1, <3>3 DEF Put
      <4>2. x \in DOMAIN file.servers /\ file.servers[x] = noted[x]
        BY <3>1, <4>1 DEF Agrees
      <4>3. QED
        BY <1>7, <3>3, <4>1, <4>2 DEF Put
    <3>4. QED
      BY <3>2, <3>3
  <2>2. QED
    BY <2>1 DEF Agrees
<1>12. FileInv'
  <2>1. RecordsOK(file.servers)'
    BY <1>4, <1>8, <1>9 DEF RecordsOK, RecordOK
  <2>2. raced' = FALSE => Agrees(file.servers)'
    BY <1>8, <1>11 DEF Agrees
  <2>3. QED
    BY <1>6, <1>8, <1>10, <2>1, <2>2 DEF FileInv
<1>13. CapsInv'
  <2>1. ASSUME NEW q \in Captures PROVE CapOK(q, cap[q])'
    <3>1. PICK d : d = cap[q]
      OBVIOUS
    <3>2. CapOK(q, d) /\ (raced' = FALSE => d.pc \notin Holding)
      BY <1>6, <3>1 DEF LockfileInv, CapsInv
    <3>3. CapOK(q, d)'
      BY <1>4, <3>2 DEF CapOK, RecordsOK, RecordOK
    <3>4. cap'[q] = d
      BY <1>4, <3>1
    <3>5. QED
      BY <3>3, <3>4
  <2>2. QED
    BY <1>4, <2>1 DEF LockfileInv, CapsInv
<1>14. VersionInv' /\ LocksInv'
  BY <1>4 DEF LockfileInv, VersionInv, LocksInv, RecordsOK, RecordOK
<1>15. QED
  BY <1>12, <1>13, <1>14 DEF LockfileInv

\* The operator removes a file that does not load.
LEMMA RemoveKeeps ==
    ASSUME LockfileInv, RemoveFile, UNCHANGED gw
    PROVE  LockfileInv'
<1>1. /\ file' = [kind |-> "absent", servers |-> Nothing] /\ noted' = Nothing
      /\ UNCHANGED <<versions, cap, raced>>
  BY DEF RemoveFile
<1>2. file'.kind = "absent" /\ file'.servers = Nothing
  BY <1>1
<1>3. ASSUME NEW m PROVE Agrees(m)'
  BY <1>1, NothingOK DEF Agrees
<1>4. FileInv'
  <2>1. RecordsOK(file.servers)'
    BY <1>2, NothingOK DEF RecordsOK
  <2>2. DOMAIN noted' \subseteq Others
    BY <1>1, NothingOK
  <2>3. QED
    BY <1>1, <1>2, <2>1, <2>2 DEF LockfileInv, FileInv
<1>5. CapsInv'
  <2>1. ASSUME NEW q \in Captures PROVE CapOK(q, cap[q])'
    <3>1. PICK d : d = cap[q]
      OBVIOUS
    <3>2. CapOK(q, d)
      BY <3>1 DEF LockfileInv, CapsInv
    <3>3. PICK mem : mem = d.mem
      OBVIOUS
    <3>4. Agrees(mem)'
      BY <1>3
    <3>5. CapOK(q, d)'
      BY <1>1, <3>2, <3>3, <3>4 DEF CapOK, RecordsOK, RecordOK
    <3>6. cap'[q] = d
      BY <1>1, <3>1
    <3>7. QED
      BY <3>5, <3>6
  <2>2. QED
    BY <1>1, <2>1 DEF LockfileInv, CapsInv
<1>6. VersionInv' /\ LocksInv'
  BY <1>1 DEF LockfileInv, VersionInv, LocksInv, RecordsOK, RecordOK
<1>7. QED
  BY <1>4, <1>5, <1>6 DEF LockfileInv

--------------------------------------------------------------------------
(* The servers and the gateway *)

\* A server offers another array: what was whole or begun stays so.
LEMMA UpgradeKeeps ==
    ASSUME LockfileInv, NEW url \in DOMAIN Offers, Upgrade(url), UNCHANGED gw
    PROVE  LockfileInv'
<1>1. PICK v \in Offers[url] : versions' = [versions EXCEPT ![url] = Append(@, v)]
  BY DEF Upgrade
<1>2. UNCHANGED <<file, cap, noted, raced>>
  BY DEF Upgrade
<1>3. PICK vs \in Arrays : vs = versions[url]
  BY DEF LockfileInv, VersionInv
<1>4. v \in Seq(ToolEntry)
  BY LockInitAssumption
<1>5. PICK ws : ws = Append(vs, v)
  OBVIOUS
<1>6. /\ ws \in Arrays
      /\ \A list : Complete(list, vs) => Complete(list, ws)
      /\ \A list : Begun(list, vs) => Begun(list, ws)
  BY ONLY <1>3, <1>4, <1>5, UpgradeKeepsListings
<1>7. /\ DOMAIN versions' = DOMAIN Offers /\ versions'[url] = ws
      /\ \A u \in DOMAIN Offers : u # url => versions'[u] = versions[u]
  BY <1>1, <1>3, <1>5 DEF LockfileInv, VersionInv
<1>8. VersionInv'
  BY <1>6, <1>7 DEF LockfileInv, VersionInv
<1>9. /\ \A u \in DOMAIN Offers : \A list : Complete(list, versions[u]) => Complete(list, versions'[u])
      /\ \A u \in DOMAIN Offers : \A list : Begun(list, versions[u]) => Begun(list, versions'[u])
  BY <1>3, <1>6, <1>7
<1>10. ASSUME NEW r, RecordOK(r) PROVE RecordOK(r)'
  BY <1>9, <1>10 DEF RecordOK
<1>11. ASSUME NEW m, RecordsOK(m) PROVE RecordsOK(m)'
  BY <1>10, <1>11 DEF RecordsOK
<1>12. CapsInv'
  <2>1. ASSUME NEW q \in Captures PROVE CapOK(q, cap[q])'
    <3>1. PICK d : d = cap[q]
      OBVIOUS
    <3>2. CapOK(q, d)
      BY <3>1 DEF LockfileInv, CapsInv
    <3>3. PICK mem : mem = d.mem
      OBVIOUS
    <3>4. RecordsOK(mem)'
      BY <1>11, <3>2, <3>3 DEF CapOK
    <3>5. (raced' = FALSE /\ d.pc \in Holding) => Agrees(d.mem)'
      BY <1>2, <3>2 DEF CapOK, Agrees
    <3>6. d.pc \in {"page", "record"} =>
             d.ups \in CaptureConfigs[q] /\ d.at \in DOMAIN d.ups /\ d.ups[d.at].URL \in DOMAIN Offers
      BY <3>2, LockInitAssumption DEF CapOK
    <3>7. d.pc = "page" => d.cursor = Len(d.all) /\ Begun(d.all, versions'[d.ups[d.at].URL])
      BY <1>9, <3>2, <3>6 DEF CapOK
    <3>8. d.pc = "record" => Complete(d.all, versions'[d.ups[d.at].URL])
      BY <1>9, <3>2, <3>6 DEF CapOK
    <3>9. d = [pc |-> d.pc, ups |-> d.ups, at |-> d.at, mem |-> d.mem, all |-> d.all,
               cursor |-> d.cursor, page |-> d.page]
      BY <3>2 DEF CapOK
    <3>10. CapOK(q, d)'
      BY <3>3, <3>4, <3>5, <3>6, <3>7, <3>8, <3>9 DEF CapOK
    <3>11. cap'[q] = d
      BY <1>2, <3>1
    <3>12. QED
      BY <3>10, <3>11
  <2>2. QED
    BY <1>2, <2>1 DEF LockfileInv, CapsInv
<1>13. FileInv'
  <2>1. RecordsOK(file.servers)'
    BY <1>2, <1>10 DEF LockfileInv, FileInv, RecordsOK
  <2>2. QED
    BY <1>2, <2>1 DEF LockfileInv, FileInv, Agrees
<1>14. LocksInv'
  BY <1>10 DEF LockfileInv, LocksInv, RecordsOK
<1>15. QED
  BY <1>8, <1>12, <1>13, <1>14 DEF LockfileInv

\* A step of the gateway leaves the file and the captures alone.
LEMMA GatewayStepKeeps ==
    ASSUME LockfileInv, UNCHANGED captureVars, LocksInv'
    PROVE  LockfileInv'
<1>1. UNCHANGED <<file, versions, cap, noted, raced>>
  BY DEF captureVars
<1>2. CapsInv' /\ VersionInv' /\ FileInv'
  BY <1>1 DEF LockfileInv, CapsInv, CapOK, VersionInv, FileInv, RecordsOK, RecordOK, Agrees
<1>3. QED
  BY <1>2 DEF LockfileInv

\* A step that reads nothing of the file: the maps stay or are gone.
LEMMA NoRead ==
    ASSUME LockfileInv, UNCHANGED captureVars,
           \/ gw'.cache = gw.cache /\ gw'.locks = gw.locks
           \/ gw'.cache = Nothing /\ gw'.locks = Nothing
    PROVE  LockfileInv'
<1>1. UNCHANGED versions
  BY DEF captureVars
<1>2. LocksInv'
  BY <1>1, NothingOK DEF LockfileInv, LocksInv, RecordsOK, RecordOK
<1>3. QED
  BY <1>2, GatewayStepKeeps

\* New reads the file and makes a lock of one of its records.
LEMMA BuildReads ==
    ASSUME LockfileInv, StartupInv, BuildUpstream
    PROVE  LockfileInv'
<1>1. PICK u : u = Current
  OBVIOUS
<1>2. PICK n : n = u.Name
  OBVIOUS
<1>3. PICK g : g = gw'
  OBVIOUS
<1>4. PICK cache : cache = ReadLock(u.ToolsLock.File)
  OBVIOUS
<1>5. \/ g.locks = gw.locks /\ g.cache = gw.cache
      \/ /\ LockFound(u, cache)
         /\ g.locks = Put(gw.locks, n, prepareLock(u, cache)) /\ g.cache = cache
  BY <1>1, <1>2, <1>3, <1>4, BuildFields DEF StartupInv
<1>6. UNCHANGED captureVars
  BY DEF BuildUpstream
<1>7. CASE g.locks = gw.locks /\ g.cache = gw.cache
  BY <1>3, <1>6, <1>7, NoRead
<1>8. CASE /\ LockFound(u, cache)
           /\ g.locks = Put(gw.locks, n, prepareLock(u, cache)) /\ g.cache = cache
  <2>1. PICK path : path = u.ToolsLock.File
    OBVIOUS
  <2>2. cache = gw.cache \/ cache = Put(gw.cache, path, file.servers)
    BY <1>4, <2>1 DEF ReadLock
  <2>3. \A x \in DOMAIN cache : RecordsOK(cache[x])
    BY <2>2 DEF LockfileInv, LocksInv, FileInv, Put
  <2>4. PICK l : l = prepareLock(u, cache)
    OBVIOUS
  <2>5. PICK r : r = cache[path][ServerOf(u)]
    OBVIOUS
  <2>6. path \in DOMAIN cache /\ ServerOf(u) \in DOMAIN cache[path]
    BY <1>8, <2>1 DEF LockFound
  <2>7. RecordOK(r)
    BY <2>3, <2>5, <2>6 DEF RecordsOK
  <2>8. l.list = r.list /\ l.url = r.url
    BY <2>1, <2>4, <2>5 DEF prepareLock
  <2>9. RecordOK(l)
    BY <2>7, <2>8 DEF RecordOK
  <2>10. \A x \in DOMAIN g.locks : RecordOK(g.locks[x])
    BY <1>8, <2>4, <2>9 DEF LockfileInv, LocksInv, Put
  <2>11. UNCHANGED versions
    BY <1>6 DEF captureVars
  <2>12. LocksInv'
    BY <1>3, <1>8, <2>3, <2>10, <2>11 DEF LocksInv, RecordsOK, RecordOK
  <2>13. QED
    BY <1>6, <2>12, GatewayStepKeeps
<1>9. QED
  BY <1>5, <1>7, <1>8

\* The other steps of run().
LEMMA OtherRunSteps ==
    ASSUME LockfileInv, StartupInv,
           Run \/ LockFailed \/ ScannerFailed \/ StopServing \/ ProcessEnds \/ Restart
    PROVE  LockfileInv'
<1>1. UNCHANGED captureVars
  BY DEF Run, LockFailed, ScannerFailed, StopServing, ProcessEnds, Restart
<1>2. CASE Run
  <2>1. gw = NewGateway
    BY <1>2 DEF Run, GwAt, StartupInv, PhaseInv
  <2>2. gw'.cache = gw.cache /\ gw'.locks = gw.locks
    BY <1>2, <2>1 DEF Run, NewGateway
  <2>3. QED
    BY <1>1, <2>2, NoRead
<1>3. CASE LockFailed \/ ScannerFailed \/ StopServing \/ ProcessEnds \/ Restart
  <2>1. gw'.cache = Nothing /\ gw'.locks = Nothing
    <3>1. CASE LockFailed
      BY <3>1 DEF LockFailed, NewGateway
    <3>2. CASE ScannerFailed \/ StopServing
      <4>1. PICK w, r : gw' = [NewGateway EXCEPT !.pc = w, !.ups = gw.ups, !.running = r]
        BY <3>2 DEF ScannerFailed, StopServing
      <4>2. QED
        BY <4>1 DEF NewGateway
    <3>3. CASE ProcessEnds
      BY <3>3 DEF ProcessEnds, NewGateway
    <3>4. CASE Restart
      BY <3>4 DEF Restart, NewGateway
    <3>5. QED
      BY <1>3, <3>1, <3>2, <3>3, <3>4
  <2>2. QED
    BY <1>1, <2>1, NoRead
<1>4. QED
  BY <1>2, <1>3

--------------------------------------------------------------------------

\* In the beginning there is no file, and every server offers one array.
LEMMA LockfileBegins ==
    ASSUME Init
    PROVE  LockfileInv
<1>1. /\ file = [kind |-> "absent", servers |-> Nothing]
      /\ versions \in [DOMAIN Offers -> UNION {{<<v>> : v \in Offers[u]} : u \in DOMAIN Offers}]
      /\ cap = [p \in Captures |-> Rest("idle")]
      /\ noted = Nothing /\ raced = FALSE /\ gw = NewGateway
  BY DEF Init, CaptureInit
<1>2. VersionInv
  <2>1. ASSUME NEW u \in DOMAIN Offers PROVE versions[u] \in Arrays
    <3>1. PICK x \in DOMAIN Offers : \E v \in Offers[x] : versions[u] = <<v>>
      BY <1>1
    <3>2. PICK v \in Seq(ToolEntry) : versions[u] = <<v>>
      BY <3>1, LockInitAssumption
    <3>3. QED
      BY <3>2 DEF Arrays
  <2>2. QED
    BY <1>1, <2>1 DEF VersionInv
<1>3. CapsInv
  <2>1. ASSUME NEW p \in Captures PROVE CapOK(p, cap[p])
    <3>1. cap[p] = Rest("idle")
      BY <1>1
    <3>2. QED
      BY <3>1, RestOK
  <2>2. QED
    BY <1>1, <2>1 DEF CapsInv
<1>4. file.kind = "absent" /\ file.servers = Nothing /\ gw.cache = Nothing /\ gw.locks = Nothing
  BY <1>1 DEF NewGateway
<1>5. FileInv /\ LocksInv
  BY <1>1, <1>4, NothingOK DEF FileInv, LocksInv
<1>6. QED
  BY <1>2, <1>3, <1>5 DEF LockfileInv

\* The invariant holds throughout, for any number of captures at once.
THEOREM LockfileInvHolds == Spec => []LockfileInv
<1>1. Init => LockfileInv
  BY LockfileBegins
<1>2. StartupInv /\ LockfileInv /\ [Next]_vars => LockfileInv'
  <2> SUFFICES ASSUME StartupInv, LockfileInv, [Next]_vars PROVE LockfileInv'
    OBVIOUS
  <2>1. CASE UNCHANGED vars
    BY <2>1, NoRead DEF vars
  <2>2. ASSUME NEW p \in Captures, UNCHANGED gw,
               \/ Begin(p) \/ Page(p) \/ RPCFails(p) \/ Record(p)
               \/ Truncate(p) \/ Write(p) \/ WriteFails(p) \/ Killed(p)
        PROVE  LockfileInv'
    BY <2>2, BeginKeeps, PageKeeps, FailKeeps, RecordKeeps, TruncateKeeps, WriteKeeps,
       WriteFailsKeeps
  <2>3. CASE \/ \E url \in DOMAIN Offers : Upgrade(url) /\ UNCHANGED gw
             \/ SentinelStep /\ UNCHANGED gw
             \/ RemoveFile /\ UNCHANGED gw
    BY <2>3, UpgradeKeeps, SentinelKeeps, RemoveKeeps
  <2>4. CASE \/ Run \/ BuildUpstream \/ LockFailed \/ ScannerFailed
             \/ StopServing \/ ProcessEnds \/ Restart
    BY <2>4, BuildReads, OtherRunSteps
  <2>5. QED
    BY <2>1, <2>2, <2>3, <2>4 DEF Next
<1>3. QED
  BY <1>1, <1>2, StartupInvHolds, PTL DEF Spec

\* The records of other programs survive every capture, unless the file was
\* changed while one held a copy (LockInit, loadLockFile, writeLockFile).
THEOREM OthersKeptHolds == Spec => []OthersKept
<1>1. LockfileInv => OthersKept
  <2> SUFFICES ASSUME LockfileInv, ~raced, file.kind = "good" PROVE OthersKept
    BY DEF OthersKept
  <2>1. raced = FALSE
    BY DEF LockfileInv, FileInv
  <2>2. QED
    BY <2>1 DEF LockfileInv, FileInv, Agrees, OthersKept
<1>2. QED
  BY <1>1, LockfileInvHolds, PTL

\* A record that was captured page by page is a whole listing of its server
\* (fetchAllTools, LockInit), also for the records that were merged.
THEOREM CaptureIsWholeHolds == Spec => []CaptureIsWhole
<1>1. LockfileInv => CaptureIsWhole
  BY DEF LockfileInv, FileInv, RecordsOK, RecordOK, Complete, CaptureIsWhole, Whole
<1>2. QED
  BY <1>1, LockfileInvHolds, PTL

\* A page of a listing has its entries only.
LEMMA PageEntries ==
    ASSUME NEW list \in Seq(ToolEntry), NEW page \in Pages(list)
    PROVE  /\ \A x \in DOMAIN page : \E y \in DOMAIN list : page[x] = list[y]
           /\ list = <<>> => page = list
<1>1. PICK i \in 1..(Len(list) + 1), j \in 0..Len(list) : page = SubSeq(list, i, j)
  BY DEF Pages
<1>2. \A k \in i..j : list[k] \in ToolEntry
  BY <1>1
<1>3. /\ page \in Seq(ToolEntry) /\ Len(page) = IF i <= j THEN j - i + 1 ELSE 0
      /\ \A x \in 1..(j - i + 1) : page[x] = list[i + x - 1]
  BY ONLY <1>1, <1>2, SubSeqProperties, list \in Seq(ToolEntry)
<1>4. ASSUME NEW x \in DOMAIN page PROVE \E y \in DOMAIN list : page[x] = list[y]
  <2>1. x \in 1..(j - i + 1) /\ i + x - 1 \in 1..Len(list)
    BY <1>1, <1>3
  <2>2. page[x] = list[i + x - 1] /\ DOMAIN list = 1..Len(list)
    BY <1>3, <2>1
  <2>3. QED
    BY ONLY <2>1, <2>2
<1>5. list = <<>> => page = list
  BY <1>1, <1>3
<1>6. QED
  BY <1>4, <1>5

\* A listing has its own digest.
LEMMA DigestOfItself ==
    ASSUME NEW list
    PROVE  SameDigest(list, list)
BY DEF SameDigest

\* A server that still offers the array it has offered all along is never
\* taken for a drifted one (fetchAllTools, LockInit, prepareLock, verify).
THEOREM UnchangedIsAcceptedHolds == Spec => []UnchangedIsAccepted
<1>1. LockfileInv => UnchangedIsAccepted
  <2> SUFFICES ASSUME LockfileInv, NEW i \in DOMAIN gw.ups, NEW u, u = gw.ups[i],
                      u.Name \in DOMAIN gw.locks, gw.locks[u.Name].url = u.URL,
                      Len(versions[u.URL]) = 1, NEW l, l = gw.locks[u.Name]
               PROVE  IF l.detail THEN \A page \in Pages(Offered(u.URL)) : Verifies(l, page)
                      ELSE Verifies(l, Offered(u.URL))
    BY DEF UnchangedIsAccepted
  <2>1. RecordOK(l) /\ u.URL = l.url
    BY DEF LockfileInv, LocksInv
  <2>2. PICK vs \in Arrays : vs = versions[u.URL]
    BY <2>1 DEF LockfileInv, VersionInv, RecordOK
  <2>3. PICK list : list = l.list
    OBVIOUS
  <2>4. list = vs[1]
    BY <2>1, <2>2, <2>3, CompleteOfOne DEF RecordOK
  <2>5. Offered(u.URL) = list /\ list \in Seq(ToolEntry)
    BY <2>2, <2>4, ArrayFacts DEF Offered
  <2>6. \A x \in DOMAIN list : Parses(list[x])
    BY <2>1, <2>3 DEF RecordOK
  <2>7. CASE l.detail
    <3>1. ASSUME NEW page \in Pages(list) PROVE Verifies(l, page)
      <4>1. /\ \A x \in DOMAIN page : \E y \in DOMAIN list : page[x] = list[y]
            /\ list = <<>> => page = list
        BY <2>5, PageEntries
      <4>2. \A x \in DOMAIN page : Parses(page[x])
        BY <2>6, <4>1
      <4>3. \A x \in DOMAIN page : Pinned(l, page[x])
        BY <2>3, <4>1 DEF Pinned, ToSet
      <4>4. list = <<>> => SameDigest(l.list, page)
        BY <2>3, <4>1, DigestOfItself
      <4>5. IF l.detail /\ l.list # <<>>
            THEN \A x \in DOMAIN page : Pinned(l, page[x])
            ELSE SameDigest(l.list, page)
        BY ONLY <2>3, <2>7, <4>3, <4>4
      <4>6. QED
        BY ONLY <4>2, <4>5 DEF Verifies
    <3>2. QED
      BY <2>5, <2>7, <3>1
  <2>8. CASE ~l.detail
    <3>1. SameDigest(l.list, list)
      BY <2>3, DigestOfItself
    <3>2. Verifies(l, list)
      BY <2>6, <2>8, <3>1 DEF Verifies
    <3>3. QED
      BY <2>5, <2>8, <3>2
  <2>9. QED
    BY <2>7, <2>8
<1>2. QED
  BY <1>1, LockfileInvHolds, PTL
============================================================================
