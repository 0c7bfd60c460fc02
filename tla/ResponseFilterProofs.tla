----------------------- MODULE ResponseFilterProofs -----------------------
(***************************************************************************)
(* Proofs about ResponseFilter, for every configuration, request body and  *)
(* response of the upstream, however many messages they have.              *)
(***************************************************************************)
EXTENDS ResponseFilter, TLAPS, FiniteSetTheorems

AnyPart == Object \cup NoObject

Remark == {Unset, "strict", "drift", "scan error", "scan block"}

State ==
    [ids : SUBSET (Ids \cup {NoId}), scanIDs : SUBSET (Ids \cup {NoId}),
     policy : Policy, lock : Lock, scanner : Scanner, strict : BOOLEAN, active : BOOLEAN,
     filtered : Nat, drift : BOOLEAN, note : Remark, verdict : Verdicts,
     blocked : BOOLEAN, flagged : BOOLEAN, err : BOOLEAN]

\* The part of a rewriteState that handleProxy sets and nothing changes.
SameSettings(s, t) ==
    /\ t.ids = s.ids /\ t.scanIDs = s.scanIDs /\ t.policy = s.policy /\ t.lock = s.lock
    /\ t.scanner = s.scanner /\ t.strict = s.strict /\ t.active = s.active

--------------------------------------------------------------------------
(* One message *)

\* A listing that examineMessage verifies and filters.
Examines(s, p) ==
    /\ p.kind = "object" /\ p.id \notin s.scanIDs /\ p.id \in s.ids
    /\ p.error = FALSE /\ p.shape = "list"

\* ... and that differs from the lock.
Differing(s, p) ==
    Examines(s, p) /\ s.lock.mode # "none" /\ ~Verifies(s.lock, p.elems)

\* What is let through of an examined listing p.
Cleared(s, p, q) ==
    /\ q.kind = "object" /\ q.id = p.id /\ q.big = p.big
    /\ Hidden(p, q) = Removed(s, p.elems)
    /\ s.lock.mode = "enforce" => Verifies(s.lock, p.elems)
    /\ \A i \in DOMAIN q.elems :
          IF q.elems[i].name = NoName THEN s.strict = FALSE
          ELSE allows(s.policy, q.elems[i].name)

\* A part that may be replaced: an answer to a request that the state knows, or
\* an event that is too big to be looked at.
Replaceable(s, p) == p.big = TRUE \/ (p.kind = "object" /\ p.id \in s.ids \cup s.scanIDs)

\* What the client gets for part p.
Handled(s, p, q) ==
    \/ q.kind = "error" /\ Replaceable(s, p)
    \/ q = p /\ ~Examines(s, p)
    \/ Examines(s, p) /\ Cleared(s, p, q)

\* A tool result whose verdict reaches the threshold.
Reaches(s, q) ==
    /\ q.kind = "object" /\ q.id \in s.scanIDs /\ q.error = FALSE /\ q.shape # "missing"
    /\ verdictRank(q.says) >= s.scanner.threshold

\* Such a result was delivered: s, the state afterwards, tells.
Told(s, q) ==
    Reaches(s, q) => /\ s.scanner.action = "flag" /\ s.flagged = TRUE
                     /\ verdictRank(s.verdict) >= verdictRank(q.says)

\* What is remembered is not forgotten.
Grows(s, t) ==
    /\ s.drift = TRUE => t.drift = TRUE
    /\ s.note # Unset => t.note # Unset
    /\ s.flagged = TRUE => t.flagged = TRUE
    /\ verdictRank(t.verdict) >= verdictRank(s.verdict)

\* The outcome o of a message p that was met in state s.
Sound(s, p, o) ==
    /\ o.state \in State /\ SameSettings(s, o.state) /\ Grows(s, o.state)
    /\ Handled(s, p, o.part)
    /\ o.act = "block" <=> o.part.kind = "error"
    /\ o.state.filtered = s.filtered + Cardinality(Hidden(p, o.part))
    /\ Told(o.state, o.part)
    /\ o.state.drift = TRUE => s.drift = TRUE \/ (Differing(s, p) /\ o.state.note # Unset)
    /\ Differing(s, p) => o.state.drift = TRUE
    /\ o.note \in Remark

\* Every remark is one.
LEMMA Remarks ==
    /\ Unset \in Remark /\ Unset # "drift" /\ Unset # "strict"
    /\ Unset # "scan error" /\ Unset # "scan block"
<1>1. Unset # "drift" /\ Unset # "strict" /\ Unset # "scan error" /\ Unset # "scan block"
  BY DEF Unset
<1>2. QED
  BY <1>1 DEF Remark

\* Verdicts are ranked from 0 to 2.
LEMMA RankType == \A v : verdictRank(v) \in 0..2
BY DEF verdictRank

\* The first remark stays (noteOnce).
LEMMA NoteOnce ==
    ASSUME NEW s \in State, NEW reason \in Remark
    PROVE  LET t == noteOnce(s, reason) IN
           /\ t \in State /\ SameSettings(s, t) /\ Grows(s, t)
           /\ t.drift = s.drift /\ t.verdict = s.verdict /\ t.flagged = s.flagged
           /\ t.filtered = s.filtered
           /\ reason # Unset => t.note # Unset
<1>1. verdictRank(s.verdict) \in Int
  BY RankType
<1>2. CASE s.note # Unset
  BY <1>1, <1>2 DEF noteOnce, SameSettings, Grows
<1>3. CASE s.note = Unset
  <2>1. noteOnce(s, reason) = [s EXCEPT !.note = reason]
    BY <1>3 DEF noteOnce
  <2>2. PICK t : t = [s EXCEPT !.note = reason]
    OBVIOUS
  <2>3. t \in State
    BY <2>2 DEF State
  <2>4. /\ SameSettings(s, t) /\ t.drift = s.drift /\ t.verdict = s.verdict
        /\ t.flagged = s.flagged /\ t.note = reason /\ t.filtered = s.filtered
    BY <2>2 DEF State, SameSettings
  <2>5. QED
    BY <1>1, <1>3, <2>1, <2>2, <2>3, <2>4 DEF Grows
<1>4. QED
  BY <1>2, <1>3

\* Nothing is missing from a part that is handed on as it is, nor is it
\* counted when the part is replaced.
LEMMA NothingHidden ==
    ASSUME NEW s \in State, NEW p, NEW q, q = p \/ q.kind = "error"
    PROVE  s.filtered = s.filtered + Cardinality(Hidden(p, q))
<1>1. Hidden(p, q) = {}
  BY DEF Hidden
<1>2. QED
  BY <1>1, FS_EmptySet DEF State

\* A message that goes through as it is, with the state t that has only grown
\* and that tells what there is to tell.
LEMMA PassSound ==
    ASSUME NEW s \in State, NEW t \in State, NEW p, p.kind # "error", ~Examines(s, p),
           SameSettings(s, t), Grows(s, t), t.drift = s.drift, t.filtered = s.filtered, Told(t, p)
    PROVE  Sound(s, p, Pass(t, p))
<1> DEFINE o == Pass(t, p)
<1>1. o.state = t /\ o.part = p /\ o.act = "pass" /\ o.note = Unset
  BY DEF Pass
<1>2. s.filtered = s.filtered + Cardinality(Hidden(p, p)) /\ ~Differing(s, p)
  BY NothingHidden DEF Differing
<1> HIDE DEF o
<1>3. Sound(s, p, o)
  BY <1>1, <1>2, Remarks DEF Sound, Handled
<1>4. QED
  BY <1>3 DEF o

\* ... and with the state as it is.
LEMMA PassSame ==
    ASSUME NEW s \in State, NEW p, p.kind # "error", ~Examines(s, p), Told(s, p)
    PROVE  Sound(s, p, Pass(s, p))
<1>1. verdictRank(s.verdict) \in 0..2
  BY RankType
<1>2. SameSettings(s, s) /\ Grows(s, s)
  BY <1>1 DEF SameSettings, Grows
<1>3. QED
  BY <1>2, PassSound

\* A message that is replaced by an error in a state t that has only grown.
LEMMA BlockSound ==
    ASSUME NEW s \in State, NEW t \in State, NEW p, NEW code, NEW reason \in Remark,
           SameSettings(s, t), Grows(s, t), t.filtered = s.filtered, Replaceable(s, p),
           t.drift = TRUE => s.drift = TRUE \/ (Differing(s, p) /\ t.note # Unset),
           Differing(s, p) => t.drift = TRUE
    PROVE  Sound(s, p, Block(t, p, code, reason))
<1> DEFINE o == Block(t, p, code, reason)
<1>1. /\ o.state = t /\ o.part.kind = "error" /\ o.act = "block" /\ o.note = reason
  BY DEF Block, ErrorPart
<1>2. Told(t, o.part)
  BY <1>1 DEF Told, Reaches
<1> HIDE DEF o
<1>3. Sound(s, p, o)
  BY <1>1, <1>2, NothingHidden DEF Sound, Handled
<1>4. QED
  BY <1>3 DEF o

\* A scanned result: whatever scanMessage decides, a verdict that reaches the
\* threshold is told or the result is replaced.
LEMMA ScanSound ==
    ASSUME NEW s \in State, NEW p \in Object, p.id \in s.scanIDs
    PROVE  Sound(s, p, scanMessage(s, p))
<1>0. ~Examines(s, p) /\ ~Differing(s, p) /\ p.kind # "error" /\ Replaceable(s, p)
  BY DEF Examines, Differing, Object, Replaceable
<1>1. verdictRank(s.verdict) \in 0..2 /\ verdictRank(p.says) \in 0..2
      /\ s.scanner.threshold \in {1, 2} /\ s.scanner.action \in {"block", "flag"}
  BY RankType DEF State, Scanner
<1>2. CASE p.error = TRUE \/ p.shape = "missing"
  <2>1. Told(s, p)
    BY <1>2 DEF Told, Reaches
  <2>2. scanMessage(s, p) = Pass(s, p)
    BY <1>2 DEF scanMessage
  <2>3. QED
    BY <1>0, <2>1, <2>2, PassSame
<1>3. CASE p.error = FALSE /\ p.shape # "missing" /\ p.says = "fail"
  <2>1. PICK u : u = [s EXCEPT !.err = TRUE]
    OBVIOUS
  <2>2. /\ u \in State /\ SameSettings(s, u) /\ u.drift = s.drift /\ u.note = s.note
        /\ u.flagged = s.flagged /\ u.verdict = s.verdict /\ u.filtered = s.filtered
    BY <2>1 DEF State, SameSettings
  <2>3. PICK t : t = noteOnce(u, "scan error")
    OBVIOUS
  <2>4. /\ t \in State /\ SameSettings(u, t) /\ Grows(u, t) /\ t.drift = u.drift
        /\ t.filtered = u.filtered
    BY <2>2, <2>3, NoteOnce DEF Remark
  <2>5. SameSettings(s, t) /\ Grows(s, t) /\ t.drift = s.drift /\ t.filtered = s.filtered
    BY <2>2, <2>4 DEF SameSettings, Grows
  <2>6. verdictRank(p.says) = 0
    BY <1>3, Zenon DEF verdictRank
  <2>7. Told(t, p)
    BY <1>1, <2>5, <2>6 DEF Told, Reaches, SameSettings
  <2>8. scanMessage(s, p) = Pass(t, p)
    BY <1>3, <2>1, <2>3 DEF scanMessage
  <2>9. QED
    BY <1>0, <2>4, <2>5, <2>7, <2>8, PassSound
<1>4. CASE p.error = FALSE /\ p.shape # "missing" /\ p.says # "fail"
  <2>1. PICK r : r = recordScan(s, p.says)
    OBVIOUS
  <2>2. /\ r \in State /\ SameSettings(s, r) /\ r.drift = s.drift /\ r.note = s.note
        /\ r.flagged = s.flagged /\ r.filtered = s.filtered
        /\ verdictRank(r.verdict) >= verdictRank(s.verdict)
        /\ verdictRank(r.verdict) >= verdictRank(p.says)
    <3>1. CASE verdictRank(p.says) > verdictRank(s.verdict)
      <4>1. r = [s EXCEPT !.verdict = p.says]
        BY <2>1, <3>1 DEF recordScan
      <4>2. /\ r \in State /\ SameSettings(s, r) /\ r.drift = s.drift /\ r.note = s.note
            /\ r.flagged = s.flagged /\ r.filtered = s.filtered /\ r.verdict = p.says
        BY <1>4, <4>1 DEF State, SameSettings, Object, Verdicts
      <4>3. QED
        BY <1>1, <3>1, <4>2
    <3>2. CASE ~(verdictRank(p.says) > verdictRank(s.verdict))
      <4>1. r = s
        BY <2>1, <3>2 DEF recordScan
      <4>2. QED
        BY <1>1, <3>2, <4>1 DEF SameSettings
    <3>3. QED
      BY <3>1, <3>2
  <2>3. Grows(s, r)
    BY <2>2 DEF Grows
  <2>4. CASE ~triggers(s, p.says)
    <3>1. scanMessage(s, p) = Pass(r, p)
      BY <1>4, <2>1, <2>4 DEF scanMessage
    <3>2. Told(r, p)
      BY <2>2, <2>4 DEF Told, Reaches, triggers, SameSettings
    <3>3. QED
      BY <1>0, <2>2, <2>3, <3>1, <3>2, PassSound
  <2>5. CASE triggers(s, p.says) /\ s.scanner.action = "flag"
    <3>1. PICK t : t = [r EXCEPT !.flagged = TRUE]
      OBVIOUS
    <3>2. /\ t \in State /\ SameSettings(r, t) /\ t.drift = r.drift /\ t.note = r.note
          /\ t.flagged = TRUE /\ t.verdict = r.verdict /\ t.filtered = r.filtered
      BY <2>2, <3>1 DEF State, SameSettings
    <3>3. SameSettings(s, t) /\ Grows(s, t)
      BY <2>2, <3>2 DEF SameSettings, Grows
    <3>4. scanMessage(s, p) = Pass(t, p)
      BY <1>4, <2>1, <2>5, <3>1 DEF scanMessage
    <3>5. Told(t, p)
      BY <2>2, <2>5, <3>2, <3>3 DEF Told, SameSettings
    <3>6. QED
      BY <1>0, <2>2, <3>2, <3>3, <3>4, <3>5, PassSound
  <2>6. CASE triggers(s, p.says) /\ s.scanner.action # "flag"
    <3>1. PICK u : u = [r EXCEPT !.blocked = TRUE]
      OBVIOUS
    <3>2. /\ u \in State /\ SameSettings(r, u) /\ u.drift = r.drift /\ u.note = r.note
          /\ u.flagged = r.flagged /\ u.verdict = r.verdict /\ u.filtered = r.filtered
      BY <2>2, <3>1 DEF State, SameSettings
    <3>3. PICK t : t = noteOnce(u, "scan block")
      OBVIOUS
    <3>4. /\ t \in State /\ SameSettings(u, t) /\ Grows(u, t) /\ t.drift = u.drift
          /\ t.verdict = u.verdict /\ t.filtered = u.filtered
      BY <3>2, <3>3, NoteOnce DEF Remark
    <3>5. SameSettings(s, t) /\ Grows(s, t) /\ t.drift = s.drift /\ t.filtered = s.filtered
      BY <2>2, <3>2, <3>4 DEF SameSettings, Grows
    <3>6. scanMessage(s, p) = Block(t, p, ScanCode, "scan block")
      BY <1>4, <2>1, <2>6, <3>1, <3>3 DEF scanMessage
    <3>7. QED
      BY <1>0, <3>4, <3>5, <3>6, BlockSound DEF Remark
  <2>7. QED
    BY <2>4, <2>5, <2>6
<1>5. QED
  BY <1>2, <1>3, <1>4 DEF Object

\* A listing is finite, and so is what the policy takes out of it.
LEMMA RemovedCount ==
    ASSUME NEW s, NEW elems \in Seq(ToolEntry)
    PROVE  /\ Cardinality(Removed(s, elems)) \in Nat
           /\ Cardinality(Removed(s, elems)) = 0 => Removed(s, elems) = {}
<1>1. PICK R : R = Removed(s, elems)
  OBVIOUS
<1>2. IsFiniteSet(1..Len(elems))
  BY FS_Interval
<1>3. R \subseteq 1..Len(elems)
  BY <1>1 DEF Removed
<1>4. IsFiniteSet(R)
  BY <1>2, <1>3, FS_Subset
<1>5. QED
  BY <1>1, <1>4, FS_CardinalityType, FS_EmptySet

\* A listing that is let through after a state t that noted the drift, with
\* the entries that the policy allows: all of them or what is left.
LEMMA ClearSound ==
    ASSUME NEW s \in State, NEW t \in State, NEW p \in Object, NEW q, NEW o,
           Examines(s, p), SameSettings(s, t), Grows(s, t),
           t.drift = TRUE => s.drift = TRUE \/ (Differing(s, p) /\ t.note # Unset),
           Differing(s, p) => t.drift = TRUE,
           Cleared(s, p, q), t.filtered = s.filtered + Cardinality(Removed(s, p.elems)),
           o.state = t, o.part = q, o.act # "block", o.note = Unset
    PROVE  Sound(s, p, o)
<1>1. Told(t, q)
  BY DEF Told, Reaches, Cleared, Examines, SameSettings
<1>2. QED
  BY <1>1, Remarks DEF Sound, Handled, Cleared

\* A tools/list result: whatever examineMessage decides on its array.
LEMMA ListSound ==
    ASSUME NEW s \in State, NEW p \in Object, Examines(s, p)
    PROVE  Sound(s, p, examineList(s, p))
<1>0. Replaceable(s, p)
  BY DEF Examines, Replaceable
<1> DEFINE d == IF Drifted(s, p.elems)
                THEN noteOnce([s EXCEPT !.drift = TRUE], "drift") ELSE s
<1>1. PICK t : t = d
  OBVIOUS
<1>2. Drifted(s, p.elems) <=> Differing(s, p)
  BY DEF Drifted, Differing
<1>3. /\ t \in State /\ SameSettings(s, t) /\ Grows(s, t) /\ t.filtered = s.filtered
      /\ t.drift = TRUE => s.drift = TRUE \/ (Differing(s, p) /\ t.note # Unset)
      /\ Differing(s, p) => t.drift = TRUE
  <2>1. CASE Drifted(s, p.elems)
    <3>1. PICK u : u = [s EXCEPT !.drift = TRUE]
      OBVIOUS
    <3>2. /\ u \in State /\ SameSettings(s, u) /\ u.drift = TRUE /\ u.note = s.note
          /\ u.flagged = s.flagged /\ u.verdict = s.verdict /\ u.filtered = s.filtered
      BY <3>1 DEF State, SameSettings
    <3>3. t = noteOnce(u, "drift") /\ "drift" \in Remark
      BY <1>1, <2>1, <3>1 DEF Remark
    <3>4. t \in State /\ SameSettings(u, t) /\ Grows(u, t) /\ t.note # Unset
          /\ t.filtered = u.filtered
      BY <3>2, <3>3, NoteOnce, Remarks
    <3>5. SameSettings(s, t) /\ Grows(s, t)
      BY <3>2, <3>4 DEF SameSettings, Grows
    <3>6. QED
      BY <1>2, <2>1, <3>2, <3>4, <3>5 DEF Grows
  <2>2. CASE ~Drifted(s, p.elems)
    <3>1. t = s /\ verdictRank(s.verdict) \in 0..2
      BY <1>1, <2>2, RankType
    <3>2. SameSettings(s, s) /\ Grows(s, s)
      BY <3>1 DEF SameSettings, Grows
    <3>3. QED
      BY <1>2, <2>2, <3>1, <3>2
  <2>3. QED
    BY <2>1, <2>2
<1>4. CASE Drifted(s, p.elems) /\ s.lock.mode = "enforce"
  <2>1. examineList(s, p) = Block(t, p, LockCode, "drift")
    BY <1>1, <1>4 DEF examineList
  <2>2. QED
    BY <1>0, <1>3, <2>1, BlockSound DEF Remark
<1>5. CASE ~(Drifted(s, p.elems) /\ s.lock.mode = "enforce") /\ s.strict = TRUE /\ Unnamed(p.elems)
  <2>1. examineList(s, p) = Block(t, p, strictCode(s), "strict")
    BY <1>1, <1>5 DEF examineList
  <2>2. QED
    BY <1>0, <1>3, <2>1, BlockSound DEF Remark
<1>6. CASE ~(Drifted(s, p.elems) /\ s.lock.mode = "enforce") /\ ~(s.strict = TRUE /\ Unnamed(p.elems))
  <2>1. s.lock.mode = "enforce" => Verifies(s.lock, p.elems)
    BY <1>6 DEF Drifted
  <2>2. \A i \in DOMAIN p.elems : p.elems[i].name = NoName => s.strict = FALSE
    BY <1>6 DEF Unnamed, State
  <2>3. p.elems \in Seq(ToolEntry)
    BY DEF Object
  <2>4. CASE Cardinality(Removed(s, p.elems)) = 0
    <3>1. examineList(s, p) = Pass(t, p)
      BY <1>1, <1>6, <2>4 DEF examineList
    <3>2. \A i \in DOMAIN p.elems :
             p.elems[i].name = NoName \/ allows(s.policy, p.elems[i].name)
      BY <2>3, <2>4, RemovedCount DEF Removed
    <3>3. Cleared(s, p, p)
      BY <2>1, <2>2, <2>3, <2>4, <3>2, RemovedCount DEF Cleared, Examines, Hidden
    <3>4. Pass(t, p).state = t /\ Pass(t, p).part = p /\ Pass(t, p).act # "block"
          /\ Pass(t, p).note = Unset
      BY DEF Pass
    <3>5. t.filtered = s.filtered + Cardinality(Removed(s, p.elems))
      BY <1>3, <2>4 DEF State
    <3>6. QED
      BY <1>3, <3>1, <3>3, <3>4, <3>5, ClearSound
  <2>5. CASE Cardinality(Removed(s, p.elems)) # 0
    <3>1. PICK u : u = [t EXCEPT !.filtered = @ + Cardinality(Removed(s, p.elems))]
      OBVIOUS
    <3>2. PICK q : q = [p EXCEPT !.elems = Kept(s, p.elems)]
      OBVIOUS
    <3>3. examineList(s, p) = Rewrite(u, q)
      BY <1>1, <1>6, <2>5, <3>1, <3>2 DEF examineList
    <3>4. /\ u \in State /\ SameSettings(t, u) /\ u.drift = t.drift /\ u.note = t.note
          /\ u.flagged = t.flagged /\ u.verdict = t.verdict
          /\ u.filtered = t.filtered + Cardinality(Removed(s, p.elems))
      BY <1>3, <2>3, <3>1, RemovedCount DEF State, SameSettings
    <3>5. SameSettings(s, u) /\ Grows(s, u)
      BY <1>3, <3>4 DEF SameSettings, Grows
    <3>6. q.kind = "object" /\ q.id = p.id /\ q.big = p.big /\ q.elems = Kept(s, p.elems)
      BY <3>2 DEF Object
    <3>7. /\ DOMAIN q.elems = DOMAIN p.elems \ Removed(s, p.elems)
          /\ \A i \in DOMAIN q.elems : q.elems[i] = p.elems[i]
      BY <3>6 DEF Kept, Restrict
    <3>8. Cleared(s, p, q)
      <4>1. Hidden(p, q) = Removed(s, p.elems)
        BY <3>6, <3>7 DEF Hidden, Examines, Removed
      <4>2. QED
        BY <2>1, <2>2, <3>6, <3>7, <4>1 DEF Cleared, Removed
    <3>9. Rewrite(u, q).state = u /\ Rewrite(u, q).part = q /\ Rewrite(u, q).act # "block"
          /\ Rewrite(u, q).note = Unset
      BY DEF Rewrite
    <3>10. QED
      BY <1>3, <3>3, <3>4, <3>5, <3>8, <3>9, ClearSound
  <2>6. QED
    BY <2>4, <2>5
<1>7. QED
  BY <1>4, <1>5, <1>6

\* Every part of a response is dealt with soundly (handleMessage).
LEMMA HandleSound ==
    ASSUME NEW s \in State, NEW p \in AnyPart
    PROVE  Sound(s, p, handleMessage(s, p))
<1>0. /\ p \in Object <=> p.kind = "object"
      /\ p \in Object => p.error \in BOOLEAN
      /\ p.kind # "error"
  BY DEF AnyPart, Object, NoObject
<1>1. CASE p.kind # "object"
  <2>1. handleMessage(s, p) = Pass(s, p) /\ ~Examines(s, p) /\ Told(s, p)
    BY <1>1 DEF handleMessage, Examines, Told, Reaches
  <2>2. QED
    BY <1>0, <2>1, PassSame
<1>2. CASE p.kind = "object" /\ p.id \in s.scanIDs
  BY <1>0, <1>2, ScanSound DEF handleMessage
<1>3. CASE p.kind = "object" /\ p.id \notin s.scanIDs
  <2>0. handleMessage(s, p) = examineMessage(s, p) /\ Told(s, p)
    BY <1>3 DEF handleMessage, Told, Reaches
  <2>1. CASE p.id \notin s.ids \/ p.error = TRUE
    <3>1. examineMessage(s, p) = Pass(s, p) /\ ~Examines(s, p)
      BY <2>1 DEF examineMessage, Examines
    <3>2. QED
      BY <1>0, <2>0, <3>1, PassSame
  <2>2. CASE p.id \in s.ids /\ p.error = FALSE /\ p.shape # "list"
    <3>1. ~Examines(s, p) /\ ~Differing(s, p) /\ Replaceable(s, p)
      BY <1>3, <2>2 DEF Examines, Differing, Replaceable
    <3>2. CASE s.strict = TRUE
      <4>1. examineMessage(s, p) = Block(s, p, strictCode(s), "strict")
        BY <2>2, <3>2 DEF examineMessage
      <4>2. SameSettings(s, s) /\ Grows(s, s) /\ "strict" \in Remark
        <5>1. verdictRank(s.verdict) \in 0..2
          BY RankType
        <5>2. QED
          BY <5>1 DEF SameSettings, Grows, Remark
      <4>3. QED
        BY <2>0, <3>1, <4>1, <4>2, BlockSound
    <3>3. CASE s.strict = FALSE
      <4>1. examineMessage(s, p) = Pass(s, p)
        BY <2>2, <3>3 DEF examineMessage
      <4>2. QED
        BY <1>0, <2>0, <3>1, <4>1, PassSame
    <3>4. QED
      BY <3>2, <3>3 DEF State
  <2>3. CASE p.id \in s.ids /\ p.error = FALSE /\ p.shape = "list"
    <3>1. Examines(s, p) /\ examineMessage(s, p) = examineList(s, p)
      BY <1>3, <2>3 DEF Examines, examineMessage
    <3>2. QED
      BY <1>0, <1>3, <2>0, <3>1, ListSound
  <2>4. QED
    BY <1>0, <1>3, <2>1, <2>2, <2>3
<1>4. QED
  BY <1>1, <1>2, <1>3

--------------------------------------------------------------------------
(* The exchange *)

Request == summarizeRPC(body)

\* st is the state that handleProxy attached, grown since.
Attached == SameSettings(rewriteState(conf, Request), st)

\* The shape of the state.
ShapeInv ==
    /\ conf \in Confs /\ body \in Bodies /\ resp \in Response /\ st \in State
    /\ phase \in {"request", "forwarded", "modify", "json", "sse", "done"}
    /\ at \in Nat /\ shown \in Seq(ToSet(shown))

\* The request was let through by the policy, with its state, or was refused.
RequestInv ==
    \/ phase = "request" /\ st.active = FALSE
    \/ phase = "done" /\ resp.status = 0 /\ status = 403 /\ st.active = FALSE
    \/ Attached /\ ~Blocked(conf.policy, Request)

\* modifyResponse has looked at the messages and handed all of them on.
Delivered ==
    /\ Candidate /\ ~Unreadable /\ status = 200
    /\ Len(shown) = at /\ at = Len(resp.parts) /\ header = VerdictHeader(st)

\* How far the response has come.
ResponseInv ==
    /\ phase \in {"request", "forwarded"} => resp.status = 0
    /\ phase \in {"request", "forwarded", "modify"} =>
          at = 0 /\ shown = <<>> /\ status = 0 /\ st.drift = FALSE /\ st.filtered = 0
    /\ phase \in {"json", "sse"} =>
          /\ Candidate /\ ~Unreadable /\ phase = resp.type /\ status = 0
          /\ Len(shown) = at /\ at <= Len(resp.parts)
    /\ phase = "done" =>
          \/ /\ shown = resp.parts /\ st.filtered = 0 /\ status = resp.status
             /\ ~Candidate \/ (Unreadable /\ st.strict = FALSE)
          \/ /\ status = 403 /\ Len(shown) = 1 /\ (resp.type = "sse" => resp.status # 200)
             /\ \A i \in DOMAIN shown : shown[i].kind = "error"
          \/ Delivered

\* The event is too big to be looked at, and nothing strict forbids it.
Skipped(i) == resp.type = "sse" /\ resp.parts[i].big = TRUE

\* The response is looked at part by part, or has been.
Looked == phase \in {"json", "sse"} \/ (phase = "done" /\ Delivered)

\* What the client has got of a response that is looked at, part by part.
PartsInv ==
    Looked =>
        \A i \in 1..at :
            /\ resp.type = "json" => shown[i].kind # "error"
            /\ \/ Skipped(i) /\ st.strict = FALSE /\ shown[i] = resp.parts[i]
               \/ Handled(st, resp.parts[i], shown[i]) /\ Told(st, shown[i])

\* What has been counted of it.
CountInv ==
    Looked => IsFiniteSet(HiddenEntries) /\ st.filtered = Cardinality(HiddenEntries)

\* What the audit entry says of the listings.
DriftInv ==
    (Candidate /\ ~Unreadable) =>
        /\ st.drift = TRUE =>
              \E i \in 1..(IF status = 403 THEN at + 1 ELSE at) :
                  i \in DOMAIN resp.parts /\ ~Skipped(i) /\ Differing(st, resp.parts[i])
        /\ \A i \in 1..(IF status = 403 THEN at + 1 ELSE at) :
              (i \in DOMAIN resp.parts /\ ~Skipped(i) /\ Differing(st, resp.parts[i]))
                  => st.drift = TRUE
        /\ st.drift = TRUE => st.note # Unset

\* The properties speak of a finished exchange and of its configuration; the
\* invariant ties what the client has got so far, part by part, to the state
\* of the rewriting, and that state to the configuration.
FilterInv == ShapeInv /\ RequestInv /\ ResponseInv /\ PartsInv /\ CountInv /\ DriftInv

\* What summarizeRPC says of the body, whether it could be read or not.
LEMMA RequestFacts ==
    ASSUME body \in Body
    PROVE  /\ Msgs \in Seq(Message)
           /\ Request.ToolsListIDs = ListIDs /\ Request.ToolsCallIDs = IDsOf(Msgs, "tools/call")
           /\ Request.Tools = NamesOf(Msgs)
           /\ Request.ToolCalls = Cardinality({i \in DOMAIN Msgs : IsCall(Msgs[i])})
           /\ Request.Invalid = TRUE <=> body.kind = "invalid"
           /\ ListIDs \subseteq Ids \cup {NoId}
           /\ IDsOf(Msgs, "tools/call") \subseteq Ids \cup {NoId}
<1>1. Msgs \in Seq(Message)
  BY DEF Msgs, Body
<1>2. \A m : IDsOf(Msgs, m) \subseteq Ids \cup {NoId}
  <2> SUFFICES ASSUME NEW m, NEW x \in IDsOf(Msgs, m) PROVE x \in Ids \cup {NoId}
    OBVIOUS
  <2>1. PICK i \in DOMAIN Msgs : x = Msgs[i].id
    BY DEF IDsOf
  <2>2. Msgs[i] \in Message
    BY <1>1
  <2>3. QED
    BY <2>1, <2>2 DEF Message
<1>3. CASE body.kind = "invalid"
  BY <1>1, <1>2, <1>3 DEF Request, summarizeRPC, Summary, Msgs, ListIDs
<1>4. CASE body.kind # "invalid"
  BY <1>1, <1>2, <1>4 DEF Request, summarizeRPC, Summary, Msgs, ListIDs
<1>5. QED
  BY <1>3, <1>4

NeedsList == (conf.policy.mode # "none" \/ conf.lock.mode # "none") /\ ListIDs # {}

\* What handleProxy attaches to a request (the rewriteState literal).
LEMMA RewriteFacts ==
    ASSUME conf \in Confs, body \in Body
    PROVE  LET r == rewriteState(conf, Request) IN
           /\ r \in State /\ r.drift = FALSE /\ r.filtered = 0
           /\ r.scanIDs = ScannedIDs
           /\ r.strict = TRUE <=> conf.policy.mode = "allow" \/ conf.lock.mode = "enforce"
           /\ NeedsList => r.ids = ListIDs /\ r.policy = conf.policy /\ r.lock = conf.lock
           /\ ~NeedsList => r.ids = {}
           /\ ScannedIDs # {} => r.scanner = conf.scanner
           /\ r.active = TRUE <=> NeedsList \/ ScannedIDs # {}
<1>1. conf \in [policy : Policy, lock : Lock, scanner : Scanner]
  BY ResponseAssumption
<1>2. PICK calls : calls = IDsOf(Msgs, "tools/call")
  OBVIOUS
<1>3. PICK needScan \in BOOLEAN : needScan = (conf.scanner.on /\ calls # {})
  OBVIOUS
<1>4. PICK needList \in BOOLEAN : needList = NeedsList
  BY DEF NeedsList
<1>5. PICK strict \in BOOLEAN : strict = (conf.policy.mode = "allow" \/ conf.lock.mode = "enforce")
  OBVIOUS
<1>6. PICK active \in BOOLEAN : active = (needList \/ needScan)
  OBVIOUS
<1>7. /\ Request.ToolsListIDs = ListIDs /\ Request.ToolsCallIDs = calls
      /\ ListIDs \subseteq Ids \cup {NoId} /\ calls \subseteq Ids \cup {NoId}
  BY <1>2, RequestFacts
<1>8. rewriteState(conf, Request) =
        [Clean EXCEPT
           !.active  = active, !.strict = strict,
           !.ids     = IF needList THEN ListIDs ELSE {},
           !.policy  = IF needList THEN conf.policy ELSE NoPolicy,
           !.lock    = IF needList THEN conf.lock ELSE NoLock,
           !.scanIDs = IF needScan THEN calls ELSE {},
           !.scanner = IF needScan THEN conf.scanner ELSE NoScanner]
  BY <1>3, <1>4, <1>5, <1>6, <1>7, Zenon DEF rewriteState, NeedsList
<1>9. PICK r : r = rewriteState(conf, Request)
  OBVIOUS
<1>10. /\ NoPolicy \in Policy /\ NoScanner \in Scanner /\ NoLock \in Lock
  BY DEF NoPolicy, NoLock, NoScanner, Policy, Lock, Scanner
<1>11. /\ r.active = active /\ r.strict = strict
       /\ r.ids = IF needList THEN ListIDs ELSE {}
       /\ r.policy = IF needList THEN conf.policy ELSE NoPolicy
       /\ r.lock = IF needList THEN conf.lock ELSE NoLock
       /\ r.scanIDs = IF needScan THEN calls ELSE {}
       /\ r.scanner = IF needScan THEN conf.scanner ELSE NoScanner
       /\ r.filtered = 0 /\ r.drift = FALSE /\ r.note = Unset /\ r.verdict = "ok"
       /\ r.blocked = FALSE /\ r.flagged = FALSE /\ r.err = FALSE
  BY <1>8, <1>9 DEF Clean
<1>12. r = [ids |-> r.ids, scanIDs |-> r.scanIDs, policy |-> r.policy, lock |-> r.lock,
            scanner |-> r.scanner, strict |-> r.strict, active |-> r.active,
            filtered |-> r.filtered, drift |-> r.drift, note |-> r.note, verdict |-> r.verdict,
            blocked |-> r.blocked, flagged |-> r.flagged, err |-> r.err]
  BY <1>8, <1>9 DEF Clean
<1>13. /\ r.ids \in SUBSET (Ids \cup {NoId}) /\ r.scanIDs \in SUBSET (Ids \cup {NoId})
       /\ r.policy \in Policy /\ r.lock \in Lock /\ r.scanner \in Scanner
  BY <1>1, <1>7, <1>10, <1>11
<1>14. /\ r.strict \in BOOLEAN /\ r.active \in BOOLEAN /\ r.filtered \in Nat
       /\ r.drift \in BOOLEAN /\ r.blocked \in BOOLEAN /\ r.flagged \in BOOLEAN
       /\ r.err \in BOOLEAN /\ r.note \in Remark /\ r.verdict \in Verdicts
  <2>1. r.strict \in BOOLEAN /\ r.active \in BOOLEAN
    BY <1>11, Zenon
  <2>2. r.filtered \in Nat /\ r.note \in Remark /\ r.verdict \in Verdicts
    <3>1. r.filtered = 0 /\ r.note = Unset /\ r.verdict = "ok"
      BY <1>11
    <3>2. r.note \in Remark
      BY <3>1, Remarks, Zenon
    <3>3. QED
      BY <3>1, <3>2 DEF Verdicts
  <2>3. /\ r.drift \in BOOLEAN /\ r.blocked \in BOOLEAN /\ r.flagged \in BOOLEAN
        /\ r.err \in BOOLEAN
    BY <1>11
  <2>4. QED
    BY <2>1, <2>2, <2>3
<1>15. r \in State
  BY <1>12, <1>13, <1>14 DEF State
<1>16. ScannedIDs = (IF needScan THEN calls ELSE {}) /\ (ScannedIDs # {} <=> needScan = TRUE)
  BY <1>2, <1>3 DEF ScannedIDs
<1>17. QED
  BY <1>4, <1>5, <1>6, <1>9, <1>11, <1>15, <1>16

--------------------------------------------------------------------------
(* Frames *)

\* How a part is dealt with depends on the settings only.
LEMMA SettingsDecide ==
    ASSUME NEW s, NEW t, SameSettings(s, t), NEW p, NEW q
    PROVE  /\ Handled(s, p, q) <=> Handled(t, p, q)
           /\ Differing(s, p) <=> Differing(t, p)
BY DEF SameSettings, Handled, Differing, Examines, Cleared, Replaceable, Removed

\* What was told stays told.
LEMMA ToldStays ==
    ASSUME NEW s, NEW t, SameSettings(s, t), Grows(s, t), NEW q, Told(s, q)
    PROVE  Told(t, q)
<1>1. /\ verdictRank(s.verdict) \in 0..2 /\ verdictRank(t.verdict) \in 0..2
      /\ verdictRank(q.says) \in 0..2
  BY RankType
<1>2. Reaches(t, q) => Reaches(s, q)
  BY DEF Reaches, SameSettings
<1>3. QED
  BY <1>1, <1>2 DEF Told, Grows, SameSettings

\* A sequence and one more.
LEMMA Appended ==
    ASSUME NEW f, f \in Seq(ToSet(f)), NEW x
    PROVE  LET g == Append(f, x) IN
           /\ g \in Seq(ToSet(g)) /\ Len(g) = Len(f) + 1
           /\ \A i \in 1..Len(f) : g[i] = f[i]
           /\ g[Len(f) + 1] = x
<1>1. PICK S : S = ToSet(f) \cup {x}
  OBVIOUS
<1>2. f \in Seq(S)
  BY <1>1
<1>3. PICK g : g = Append(f, x)
  OBVIOUS
<1>4. /\ g \in Seq(S) /\ Len(g) = Len(f) + 1 /\ g[Len(f) + 1] = x
      /\ \A i \in 1..Len(f) : g[i] = f[i]
  BY <1>1, <1>2, <1>3
<1>5. \A i \in 1..Len(g) : g[i] \in ToSet(g)
  BY <1>4 DEF ToSet
<1>6. g \in Seq(ToSet(g))
  BY <1>4, <1>5
<1>7. QED
  BY <1>3, <1>4, <1>6

\* The entries missing from one part more are counted on their own.
LEMMA OneMoreCounted ==
    ASSUME NEW H, IsFiniteSet(H), NEW R, IsFiniteSet(R), NEW n, \A e \in H : e[1] # n
    PROVE  /\ IsFiniteSet(H \cup ({n} \X R))
           /\ Cardinality(H \cup ({n} \X R)) = Cardinality(H) + Cardinality(R)
<1>1. IsFiniteSet({n}) /\ Cardinality({n}) = 1
  BY FS_Singleton
<1>2. PICK T : T = {n} \X R
  OBVIOUS
<1>3. Cardinality(R) \in Nat /\ Cardinality(H) \in Nat
  BY FS_CardinalityType
<1>4. IsFiniteSet(T) /\ Cardinality(T) = Cardinality(R)
  <2>1. IsFiniteSet(T) /\ Cardinality(T) = Cardinality({n}) * Cardinality(R)
    BY <1>1, <1>2, FS_Product
  <2>2. QED
    BY <1>1, <1>3, <2>1
<1>5. H \cap T = {}
  BY <1>2
<1>6. Cardinality(H \cap T) = 0
  BY <1>5, FS_EmptySet
<1>7. /\ IsFiniteSet(H \cup T)
      /\ Cardinality(H \cup T) = Cardinality(H) + Cardinality(T) - Cardinality(H \cap T)
  BY <1>4, FS_Union
<1>8. QED
  BY <1>2, <1>3, <1>4, <1>6, <1>7

\* The settings stay attached in a step that keeps them.
LEMMA AttachedStays ==
    ASSUME RequestInv, phase # "request", phase # "done",
           SameSettings(st, st'), conf' = conf, body' = body
    PROVE  RequestInv'
BY DEF RequestInv, Attached, SameSettings, Request, Msgs, summarizeRPC

\* One part has been handed on as q, and t is the state it leaves.
LEMMA PartDone ==
    ASSUME FilterInv, phase \in {"json", "sse"}, at < Len(resp.parts),
           NEW t \in State, NEW q, SameSettings(st, t), Grows(st, t),
           st' = t, shown' = Append(shown, q), at' = at + 1,
           UNCHANGED <<conf, phase, body, resp, status, header>>,
           \/ Skipped(at + 1) /\ st.strict = FALSE /\ q = Part
           \/ Handled(st, Part, q) /\ Told(t, q),
           t.drift = TRUE => st.drift = TRUE
                             \/ (~Skipped(at + 1) /\ Differing(st, Part) /\ t.note # Unset),
           (~Skipped(at + 1) /\ Differing(st, Part)) => t.drift = TRUE,
           resp.type = "json" => q.kind # "error",
           t.filtered = st.filtered + Cardinality(Hidden(Part, q))
    PROVE  FilterInv'
<1> USE DEF FilterInv
<1>1. /\ Len(shown) = at /\ status = 0 /\ Candidate /\ ~Unreadable /\ phase = resp.type
      /\ at \in Nat /\ Len(resp.parts) \in Nat /\ DOMAIN resp.parts = 1..Len(resp.parts)
  BY DEF ResponseInv, ShapeInv, Response
<1>2. /\ shown' \in Seq(ToSet(shown)') /\ Len(shown') = at + 1
      /\ \A i \in 1..at : shown'[i] = shown[i]
      /\ shown'[at + 1] = q
  BY <1>1, Appended DEF ShapeInv, ToSet
<1>3. ShapeInv'
  BY <1>1, <1>2 DEF ShapeInv
<1>4. RequestInv'
  BY AttachedStays
<1>5. Candidate' /\ ~Unreadable'
  BY <1>1 DEF Candidate, Unreadable, SameSettings
<1>6. ResponseInv'
  BY <1>1, <1>2, <1>5 DEF ResponseInv
<1>7. PartsInv'
  <2>1. ASSUME NEW i \in 1..at'
        PROVE  /\ resp'.type = "json" => shown'[i].kind # "error"
               /\ \/ Skipped(i)' /\ st'.strict = FALSE /\ shown'[i] = resp'.parts[i]
                  \/ Handled(st', resp'.parts[i], shown'[i]) /\ Told(st', shown'[i])
    <3>1. (Skipped(i)' <=> Skipped(i)) /\ resp' = resp /\ st'.strict = st.strict
      BY DEF Skipped, SameSettings
    <3>2. CASE i \in 1..at
      <4>1. /\ resp.type = "json" => shown[i].kind # "error"
            /\ \/ Skipped(i) /\ st.strict = FALSE /\ shown[i] = resp.parts[i]
               \/ Handled(st, resp.parts[i], shown[i]) /\ Told(st, shown[i])
        BY <3>2 DEF PartsInv, Looked
      <4>2. Handled(st, resp.parts[i], shown[i]) => Handled(t, resp.parts[i], shown[i])
        BY SettingsDecide
      <4>3. Told(st, shown[i]) => Told(t, shown[i])
        BY ToldStays
      <4>4. QED
        BY <1>2, <3>1, <3>2, <4>1, <4>2, <4>3
    <3>3. CASE i = at + 1
      <4>1. Handled(st, Part, q) => Handled(t, Part, q)
        BY SettingsDecide
      <4>2. QED
        BY <1>2, <3>1, <3>3, <4>1 DEF Part
    <3>4. i \in 1..at \/ i = at + 1
      <4>1. i \in 1..(at + 1) /\ at \in Nat
        BY <1>1
      <4>2. QED
        BY <4>1
    <3>5. QED
      BY <3>2, <3>3, <3>4
  <2>2. QED
    BY <2>1 DEF PartsInv
<1>8. DriftInv'
  <2>1. \A p : Differing(st', p) <=> Differing(st, p)
    BY SettingsDecide
  <2>2. \A i : Skipped(i)' <=> Skipped(i)
    BY DEF Skipped
  <2>3. status # 403 /\ at + 1 \in DOMAIN resp.parts /\ Part = resp.parts[at + 1]
    BY <1>1 DEF Part
  <2>4. /\ st.drift = TRUE => \E i \in 1..at :
              i \in DOMAIN resp.parts /\ ~Skipped(i) /\ Differing(st, resp.parts[i])
        /\ \A i \in 1..at : (i \in DOMAIN resp.parts /\ ~Skipped(i) /\ Differing(st, resp.parts[i]))
              => st.drift = TRUE
        /\ st.drift = TRUE => st.note # Unset
    BY <1>1, <2>3 DEF DriftInv
  <2>5. t.drift = TRUE => \E i \in 1..(at + 1) :
              i \in DOMAIN resp.parts /\ ~Skipped(i) /\ Differing(st, resp.parts[i])
    BY <1>1, <2>3, <2>4
  <2>6. \A i \in 1..(at + 1) : (i \in DOMAIN resp.parts /\ ~Skipped(i) /\ Differing(st, resp.parts[i]))
              => t.drift = TRUE
    BY <1>1, <2>3, <2>4 DEF Grows
  <2>7. t.drift = TRUE => t.note # Unset
    BY <2>4 DEF Grows
  <2>8. QED
    BY <1>1, <2>1, <2>2, <2>3, <2>5, <2>6, <2>7 DEF DriftInv
<1>9. CountInv'
  <2>1. PICK R : R = Hidden(Part, q)
    OBVIOUS
  <2>2. IsFiniteSet(R)
    <3>1. Part \in AnyPart
      BY <1>1 DEF Part, ShapeInv, Response, AnyPart
    <3>2. CASE Part.kind = "object"
      <4>1. Part.elems \in Seq(ToolEntry)
        BY <3>1, <3>2 DEF AnyPart, Object, NoObject
      <4>2. IsFiniteSet(1..Len(Part.elems)) /\ DOMAIN Part.elems = 1..Len(Part.elems)
        BY <4>1, FS_Interval
      <4>3. R \subseteq DOMAIN Part.elems
        BY <2>1 DEF Hidden
      <4>4. QED
        BY <4>2, <4>3, FS_Subset
    <3>3. CASE Part.kind # "object"
      BY <2>1, <3>3, FS_EmptySet DEF Hidden
    <3>4. QED
      BY <3>2, <3>3
  <2>3. /\ DOMAIN shown = 1..at /\ DOMAIN shown' = 1..(at + 1)
    BY <1>1, <1>2 DEF ShapeInv
  <2>4. DOMAIN shown' = DOMAIN shown \cup {at + 1} /\ at + 1 \notin DOMAIN shown
    BY <1>1, <2>3
  <2>5. /\ \A i \in DOMAIN shown : Hidden(resp'.parts[i], shown'[i]) = Hidden(resp.parts[i], shown[i])
        /\ Hidden(resp'.parts[at + 1], shown'[at + 1]) = R
    BY <1>2, <2>1, <2>3 DEF Part
  <2>6. HiddenEntries' = HiddenEntries \cup ({at + 1} \X R)
    BY <2>4, <2>5 DEF HiddenEntries
  <2>7. IsFiniteSet(HiddenEntries) /\ st.filtered = Cardinality(HiddenEntries)
    BY DEF CountInv, Looked
  <2>8. \A e \in HiddenEntries : e[1] # at + 1
    BY <2>4 DEF HiddenEntries
  <2>9. /\ IsFiniteSet(HiddenEntries \cup ({at + 1} \X R))
        /\ Cardinality(HiddenEntries \cup ({at + 1} \X R)) = Cardinality(HiddenEntries) + Cardinality(R)
    <3>1. PICK H : H = HiddenEntries
      OBVIOUS
    <3>2. PICK n : n = at + 1
      OBVIOUS
    <3>3. IsFiniteSet(H) /\ \A e \in H : e[1] # n
      BY <2>7, <2>8, <3>1, <3>2
    <3>4. /\ IsFiniteSet(H \cup ({n} \X R))
          /\ Cardinality(H \cup ({n} \X R)) = Cardinality(H) + Cardinality(R)
      BY ONLY <2>2, <3>3, OneMoreCounted
    <3>5. QED
      BY <3>1, <3>2, <3>4
  <2>10. QED
    BY <2>1, <2>6, <2>7, <2>9 DEF CountInv
<1>10. QED
  BY <1>3, <1>4, <1>6, <1>7, <1>8, <1>9

\* The whole response has become an error: at the first part or, when it
\* cannot be read, before that (blockResponseCode).
LEMMA ResponseBlocked ==
    ASSUME FilterInv, NEW s \in State, SameSettings(st, s), Grows(st, s),
           NEW code, NEW reason \in Remark, BlockResponse(s, code, reason),
           \/ phase = "modify" /\ Unreadable
           \/ /\ phase = "json" /\ at < Len(resp.parts)
              /\ s.drift = TRUE => st.drift = TRUE \/ (Differing(st, Part) /\ s.note # Unset)
              /\ Differing(st, Part) => s.drift = TRUE
    PROVE  FilterInv'
<1> USE DEF FilterInv
<1>1. PICK t : t = noteOnce(s, reason)
  OBVIOUS
<1>2. /\ t \in State /\ SameSettings(s, t) /\ Grows(s, t) /\ t.drift = s.drift
  BY <1>1, NoteOnce
<1>3. SameSettings(st, t) /\ (s.note # Unset => t.note # Unset)
  BY <1>2 DEF SameSettings, Grows
<1>4. /\ st' = t /\ status' = 403 /\ shown' = <<ErrorPart(NoId, code)>> /\ phase' = "done"
      /\ UNCHANGED <<conf, body, resp, at>>
  BY <1>1 DEF BlockResponse
<1>5. /\ shown' \in Seq(ToSet(shown)') /\ Len(shown') = 1
      /\ \A i \in DOMAIN shown' : shown'[i].kind = "error"
  <2>1. PICK e : e = ErrorPart(NoId, code)
    OBVIOUS
  <2>2. e.kind = "error"
    BY <2>1 DEF ErrorPart
  <2>3. shown' = <<e>>
    BY <1>4, <2>1
  <2>4. ToSet(shown)' = {e}
    BY <2>3 DEF ToSet
  <2>5. QED
    BY <2>2, <2>3, <2>4
<1>6. ShapeInv'
  BY <1>2, <1>4, <1>5 DEF ShapeInv
<1>7. RequestInv'
  BY <1>3, <1>4, AttachedStays
<1>8. ResponseInv' /\ PartsInv' /\ CountInv'
  <2>1. resp.type # "sse"
    BY DEF ResponseInv, Unreadable
  <2>2. ~Looked'
    BY <1>4 DEF Looked, Delivered
  <2>3. QED
    BY <1>4, <1>5, <2>1, <2>2 DEF ResponseInv, PartsInv, CountInv
<1>9. DriftInv'
  <2>1. CASE phase = "modify" /\ Unreadable
    BY <1>4, <2>1 DEF DriftInv, Unreadable
  <2>2. CASE /\ phase = "json" /\ at < Len(resp.parts)
             /\ s.drift = TRUE => st.drift = TRUE \/ (Differing(st, Part) /\ s.note # Unset)
             /\ Differing(st, Part) => s.drift = TRUE
    <3>1. /\ at \in Nat /\ DOMAIN resp.parts = 1..Len(resp.parts) /\ Len(resp.parts) \in Nat
          /\ Candidate /\ ~Unreadable /\ resp.type = "json" /\ status # 403
      BY <2>2 DEF ResponseInv, ShapeInv, Response
    <3>2. \A p : Differing(st', p) <=> Differing(st, p)
      BY <1>3, <1>4, SettingsDecide
    <3>3. \A i : ~Skipped(i) /\ ~Skipped(i)'
      BY <1>4, <3>1 DEF Skipped
    <3>4. /\ st.drift = TRUE => \E i \in 1..at :
                i \in DOMAIN resp.parts /\ Differing(st, resp.parts[i])
          /\ \A i \in 1..at : (i \in DOMAIN resp.parts /\ Differing(st, resp.parts[i]))
                => st.drift = TRUE
          /\ st.drift = TRUE => st.note # Unset
      BY <3>1, <3>3 DEF DriftInv
    <3>5. at + 1 \in DOMAIN resp.parts /\ Part = resp.parts[at + 1]
      BY <2>2, <3>1 DEF Part
    <3>6. t.drift = TRUE => \E i \in 1..(at + 1) :
                i \in DOMAIN resp.parts /\ Differing(st, resp.parts[i])
      BY <1>2, <2>2, <3>1, <3>4, <3>5
    <3>7. \A i \in 1..(at + 1) : (i \in DOMAIN resp.parts /\ Differing(st, resp.parts[i]))
                => t.drift = TRUE
      BY <1>2, <2>2, <3>1, <3>4, <3>5 DEF Grows
    <3>8. t.drift = TRUE => t.note # Unset
      BY <1>2, <1>3, <2>2, <3>4 DEF Grows
    <3>9. QED
      BY <1>4, <3>2, <3>3, <3>6, <3>7, <3>8 DEF DriftInv
  <2>3. QED
    BY <2>1, <2>2
<1>10. QED
  BY <1>6, <1>7, <1>8, <1>9

--------------------------------------------------------------------------
(* The steps *)

\* The empty rewriteState.
LEMMA CleanFacts ==
    Clean \in State /\ Clean.drift = FALSE /\ Clean.active = FALSE /\ Clean.filtered = 0
<1>1. NoPolicy \in Policy /\ NoScanner \in Scanner /\ NoLock \in Lock
  BY DEF NoPolicy, NoLock, NoScanner, Policy, Lock, Scanner
<1>2. Unset \in Remark
  BY Remarks
<1>3. QED
  BY <1>1, <1>2 DEF Clean, State, Verdicts

\* A state has its own settings and remembers what it remembers.
LEMMA SettingsReflexive ==
    ASSUME NEW s \in State
    PROVE  SameSettings(s, s) /\ Grows(s, s)
<1>1. verdictRank(s.verdict) \in 0..2
  BY RankType
<1>2. QED
  BY <1>1 DEF SameSettings, Grows

\* The invariant holds before the request is looked at.
LEMMA InitInv == Init => FilterInv
<1> SUFFICES ASSUME Init PROVE FilterInv
  OBVIOUS
<1>1. resp \in Response /\ resp.status = 0
  BY DEF Init, Response
<1>2. ShapeInv
  BY <1>1, CleanFacts DEF Init, ShapeInv
<1>3. QED
  BY <1>1, <1>2, CleanFacts
  DEF Init, FilterInv, RequestInv, ResponseInv, PartsInv, CountInv, DriftInv, Looked, Candidate

\* A request that the tool policy refuses.
LEMMA RefuseKeeps ==
    ASSUME FilterInv, Refuse
    PROVE  FilterInv'
<1> USE DEF FilterInv
<1>1. PICK e : e = ErrorPart(NoId, PolicyCode)
  OBVIOUS
<1>2. /\ phase = "request" /\ phase' = "done" /\ status' = 403 /\ shown' = <<e>>
      /\ UNCHANGED <<conf, body, resp, st, at, header>>
  BY <1>1 DEF Refuse
<1>3. e.kind = "error" /\ ToSet(shown)' = {e} /\ resp.status = 0 /\ st.active = FALSE
  <2>1. e.kind = "error"
    BY <1>1 DEF ErrorPart
  <2>2. ToSet(shown)' = {e}
    BY <1>2 DEF ToSet
  <2>3. resp.status = 0
    BY <1>2 DEF ResponseInv
  <2>4. st.active = FALSE
    BY <1>2 DEF RequestInv, Refuse, Request
  <2>5. QED
    BY <2>1, <2>2, <2>3, <2>4
<1>4. shown' \in Seq(ToSet(shown)') /\ Len(shown') = 1 /\ \A i \in DOMAIN shown' : shown'[i].kind = "error"
  BY <1>2, <1>3
<1>5. ShapeInv'
  BY <1>2, <1>4 DEF ShapeInv
<1>6. QED
  BY <1>2, <1>3, <1>4, <1>5
  DEF RequestInv, ResponseInv, PartsInv, CountInv, DriftInv, Looked, Delivered, Candidate

\* A request that goes to the upstream with its rewriteState.
LEMMA ForwardKeeps ==
    ASSUME FilterInv, Forward
    PROVE  FilterInv'
<1> USE DEF FilterInv
<1>1. /\ phase = "request" /\ phase' = "forwarded" /\ st' = rewriteState(conf, Request)
      /\ ~Blocked(conf.policy, Request)
      /\ UNCHANGED <<conf, body, resp, at, status, shown, header>>
  BY DEF Forward, Request
<1>2. st' \in State /\ st'.drift = FALSE /\ st'.filtered = 0
  BY <1>1, RewriteFacts, ResponseAssumption DEF ShapeInv
<1>3. ShapeInv'
  BY <1>1, <1>2 DEF ShapeInv, ToSet
<1>4. Request' = Request
  BY <1>1 DEF Request, Msgs
<1>5. SameSettings(rewriteState(conf, Request), st)'
  BY <1>1, <1>2, <1>4, SettingsReflexive
<1>6. RequestInv'
  BY <1>1, <1>4, <1>5 DEF RequestInv, Attached
<1>7. QED
  BY <1>1, <1>2, <1>3, <1>6
  DEF ResponseInv, PartsInv, CountInv, DriftInv, Looked, Delivered, Candidate

\* The response of the upstream comes.
LEMMA RespondKeeps ==
    ASSUME FilterInv, Respond
    PROVE  FilterInv'
<1> USE DEF FilterInv
<1>1. /\ phase = "forwarded" /\ phase' = "modify" /\ resp' \in Response
      /\ UNCHANGED <<conf, body, st, at, status, shown, header>>
  BY ResponseAssumption DEF Respond
<1>2. at = 0 /\ shown = <<>> /\ status = 0 /\ st.drift = FALSE /\ st.filtered = 0
  BY <1>1 DEF ResponseInv
<1>3. ShapeInv'
  BY <1>1 DEF ShapeInv, ToSet
<1>4. RequestInv'
  BY <1>1, AttachedStays, SettingsReflexive DEF ShapeInv
<1>5. QED
  BY <1>1, <1>2, <1>3, <1>4 DEF ResponseInv, PartsInv, CountInv, DriftInv, Looked

\* The response goes to the client as it is.
LEMMA ModifyNothingKeeps ==
    ASSUME FilterInv, ModifyNothing
    PROVE  FilterInv'
<1> USE DEF FilterInv
<1>1. /\ phase = "modify" /\ phase' = "done" /\ shown' = resp.parts /\ status' = resp.status
      /\ ~Candidate \/ (Unreadable /\ ~st.strict)
      /\ UNCHANGED <<conf, body, resp, st, at, header>>
  BY DEF ModifyNothing, PassResponse
<1>2. st.strict \in BOOLEAN /\ resp.parts \in Seq(AnyPart)
  BY DEF ShapeInv, State, Response, AnyPart
<1>3. shown' \in Seq(ToSet(shown)')
  <2>1. \A i \in 1..Len(shown') : shown'[i] \in ToSet(shown)'
    BY <1>1, <1>2 DEF ToSet
  <2>2. QED
    BY <1>1, <1>2, <2>1
<1>4. ShapeInv'
  BY <1>1, <1>3 DEF ShapeInv
<1>5. RequestInv'
  BY <1>1, AttachedStays, SettingsReflexive DEF ShapeInv
<1>6. (Candidate' <=> Candidate) /\ (Unreadable' <=> Unreadable)
  BY <1>1 DEF Candidate, Unreadable
<1>7. ~Looked'
  BY <1>1, <1>6 DEF Looked, Delivered
<1>8. ResponseInv'
  <2>1. st.filtered = 0
    BY <1>1 DEF ResponseInv
  <2>2. ~Candidate' \/ (Unreadable' /\ st'.strict = FALSE)
    BY <1>1, <1>2, <1>6
  <2>3. QED
    BY <1>1, <2>1, <2>2 DEF ResponseInv
<1>9. DriftInv'
  BY <1>1, <1>6 DEF DriftInv
<1>10. QED
  BY <1>4, <1>5, <1>7, <1>8, <1>9 DEF PartsInv, CountInv

\* A response that cannot be inspected is replaced under a strict setting.
LEMMA ModifyRefuseKeeps ==
    ASSUME FilterInv, ModifyRefuse
    PROVE  FilterInv'
<1>1. /\ phase = "modify" /\ Unreadable
      /\ BlockResponse(st, strictCode(st), "strict") /\ "strict" \in Remark
  BY DEF ModifyRefuse, Remark
<1>2. st \in State /\ SameSettings(st, st) /\ Grows(st, st)
  BY SettingsReflexive DEF FilterInv, ShapeInv
<1>3. QED
  BY <1>1, <1>2, ResponseBlocked

\* The messages of the response will be looked at.
LEMMA ModifyStartKeeps ==
    ASSUME FilterInv, ModifyStart
    PROVE  FilterInv'
<1> USE DEF FilterInv
<1>1. /\ phase = "modify" /\ phase' = resp.type /\ Candidate /\ ~Unreadable
      /\ UNCHANGED <<conf, body, resp, st, at, status, shown, header>>
  BY DEF ModifyStart
<1>2. at = 0 /\ shown = <<>> /\ status = 0 /\ st.drift = FALSE /\ st.filtered = 0
  BY <1>1 DEF ResponseInv
<1>3. resp.type \in {"json", "sse"} /\ Len(resp.parts) \in Nat
  BY <1>1 DEF ShapeInv, Response, Unreadable
<1>4. ShapeInv'
  BY <1>1, <1>3 DEF ShapeInv, ToSet
<1>5. RequestInv'
  BY <1>1, AttachedStays, SettingsReflexive DEF ShapeInv
<1>6. (Candidate' <=> Candidate) /\ (Unreadable' <=> Unreadable)
  BY <1>1 DEF Candidate, Unreadable
<1>7. ResponseInv'
  BY <1>1, <1>2, <1>3, <1>6 DEF ResponseInv
<1>8. PartsInv' /\ DriftInv'
  BY <1>1, <1>2 DEF PartsInv, DriftInv
<1>9. CountInv'
  <2>1. HiddenEntries' = {}
    BY <1>1, <1>2 DEF HiddenEntries
  <2>2. QED
    BY <1>1, <1>2, <2>1, FS_EmptySet DEF CountInv
<1>10. QED
  BY <1>4, <1>5, <1>7, <1>8, <1>9

\* One message of a JSON body (processJSONBody).
LEMMA JSONMessageKeeps ==
    ASSUME FilterInv, JSONMessage
    PROVE  FilterInv'
<1>0. phase = "json" /\ at < Len(resp.parts) /\ st \in State /\ Part \in AnyPart
  BY DEF JSONMessage, FilterInv, ShapeInv, Response, Part, AnyPart
<1>1. PICK o : o = handleMessage(st, Part)
  OBVIOUS
<1>2. Sound(st, Part, o)
  BY <1>0, <1>1, HandleSound
<1>3. /\ o.state \in State /\ SameSettings(st, o.state) /\ Grows(st, o.state)
      /\ o.state.drift = TRUE => st.drift = TRUE \/ (Differing(st, Part) /\ o.state.note # Unset)
      /\ Differing(st, Part) => o.state.drift = TRUE
      /\ o.note \in Remark
  BY <1>2 DEF Sound
<1>4. CASE BlockResponse(o.state, o.code, o.note)
  BY <1>0, <1>3, <1>4, ResponseBlocked
<1>5. CASE BlockResponse(o.state, strictCode(st), "strict")
  <2>1. "strict" \in Remark
    BY DEF Remark
  <2>2. QED
    BY <1>0, <1>3, <1>5, <2>1, ResponseBlocked
<1>6. CASE /\ o.act # "block"
           /\ st' = o.state /\ shown' = Append(shown, o.part) /\ at' = at + 1
           /\ UNCHANGED <<conf, phase, body, resp, status, header>>
  <2>1. ~Skipped(at + 1)
    BY <1>0 DEF Skipped, FilterInv, ResponseInv
  <2>2. /\ Handled(st, Part, o.part) /\ Told(o.state, o.part) /\ o.part.kind # "error"
        /\ o.state.filtered = st.filtered + Cardinality(Hidden(Part, o.part))
    BY <1>2, <1>6 DEF Sound
  <2>3. QED
    BY <1>0, <1>3, <1>6, <2>1, <2>2, PartDone
<1>7. QED
  BY <1>1, <1>4, <1>5, <1>6 DEF JSONMessage

\* One event of a stream (finishEvent and the cap).
LEMMA SSEEventKeeps ==
    ASSUME FilterInv, SSEEvent
    PROVE  FilterInv'
<1>0. /\ phase = "sse" /\ at < Len(resp.parts) /\ st \in State /\ Part \in AnyPart
      /\ at' = at + 1 /\ UNCHANGED <<conf, phase, body, resp, status, header>>
  BY DEF SSEEvent, FilterInv, ShapeInv, Response, Part, AnyPart
<1>1. Skipped(at + 1) <=> Part.big = TRUE
  BY <1>0 DEF Skipped, Part, FilterInv, ResponseInv
<1>9. resp.type # "json"
  BY <1>0 DEF FilterInv, ResponseInv
<1>2. Part.big \in BOOLEAN /\ st.strict \in BOOLEAN
  BY <1>0 DEF AnyPart, Object, NoObject, State
<1>3. CASE /\ Part.big /\ st.strict /\ st' = noteOnce(st, "strict")
           /\ shown' = Append(shown, ErrorPart(NoId, strictCode(st)))
  <2>1. PICK q : q = ErrorPart(NoId, strictCode(st))
    OBVIOUS
  <2>2. PICK t : t = noteOnce(st, "strict")
    OBVIOUS
  <2>3. "strict" \in Remark
    BY DEF Remark
  <2>4. /\ t \in State /\ SameSettings(st, t) /\ Grows(st, t) /\ t.drift = st.drift
        /\ t.filtered = st.filtered
    BY <1>0, <2>2, <2>3, NoteOnce
  <2>5. /\ Handled(st, Part, q) /\ Told(t, q)
        /\ t.filtered = st.filtered + Cardinality(Hidden(Part, q))
    <3>1. q.kind = "error" /\ Replaceable(st, Part)
      BY <1>2, <1>3, <2>1 DEF ErrorPart, Replaceable
    <3>2. QED
      BY <1>0, <2>4, <3>1, NothingHidden DEF Handled, Told, Reaches
  <2>6. Skipped(at + 1) /\ st' = t /\ shown' = Append(shown, q)
    BY <1>1, <1>2, <1>3, <2>1, <2>2
  <2>7. QED
    BY <1>0, <1>9, <2>4, <2>5, <2>6, PartDone
<1>4. CASE Part.big /\ ~st.strict /\ shown' = Append(shown, Part) /\ UNCHANGED st
  <2>1. SameSettings(st, st) /\ Grows(st, st)
    BY <1>0, SettingsReflexive
  <2>2. Skipped(at + 1) /\ st.strict = FALSE
    BY <1>1, <1>2, <1>4
  <2>3. QED
    BY <1>0, <1>4, <1>9, <2>1, <2>2, NothingHidden, PartDone
<1>5. ASSUME NEW o, o = handleMessage(st, Part), ~Part.big,
             st' = IF o.act = "block" THEN noteOnce(o.state, o.note) ELSE o.state,
             shown' = Append(shown, o.part)
      PROVE  FilterInv'
  <2>1. Sound(st, Part, o)
    BY <1>0, <1>5, HandleSound
  <2>2. /\ o.state \in State /\ SameSettings(st, o.state) /\ Grows(st, o.state)
        /\ Handled(st, Part, o.part) /\ Told(o.state, o.part)
        /\ o.state.filtered = st.filtered + Cardinality(Hidden(Part, o.part))
        /\ o.state.drift = TRUE => st.drift = TRUE \/ (Differing(st, Part) /\ o.state.note # Unset)
        /\ Differing(st, Part) => o.state.drift = TRUE
        /\ o.note \in Remark
    BY <2>1 DEF Sound
  <2>3. PICK t : t = IF o.act = "block" THEN noteOnce(o.state, o.note) ELSE o.state
    OBVIOUS
  <2>4. /\ t \in State /\ SameSettings(o.state, t) /\ Grows(o.state, t)
        /\ t.drift = o.state.drift /\ t.filtered = o.state.filtered
    BY <2>2, <2>3, NoteOnce, SettingsReflexive
  <2>5. SameSettings(st, t)
    BY <2>2, <2>4 DEF SameSettings
  <2>6. Grows(st, t)
    <3>1. /\ verdictRank(st.verdict) \in 0..2 /\ verdictRank(t.verdict) \in 0..2
          /\ verdictRank(o.state.verdict) \in 0..2
      BY RankType
    <3>2. QED
      BY <2>2, <2>4, <3>1 DEF Grows
  <2>7. Told(t, o.part)
    BY <2>2, <2>4, ToldStays
  <2>8. ~Skipped(at + 1)
    BY <1>1, <1>2, <1>5
  <2>9. t.drift = TRUE => st.drift = TRUE \/ (Differing(st, Part) /\ t.note # Unset)
    BY <2>2, <2>4 DEF Grows
  <2>10. st' = t /\ Differing(st, Part) => t.drift = TRUE
    BY <2>2, <2>4
  <2>11. QED
    BY <1>0, <1>5, <1>9, <2>2, <2>3, <2>4, <2>5, <2>6, <2>7, <2>8, <2>9, <2>10, PartDone
<1>6. QED
  BY <1>3, <1>4, <1>5 DEF SSEEvent

\* The last part is out.
LEMMA CompleteKeeps ==
    ASSUME FilterInv, Complete
    PROVE  FilterInv'
<1> USE DEF FilterInv
<1>1. /\ phase \in {"json", "sse"} /\ at = Len(resp.parts) /\ phase' = "done" /\ status' = 200
      /\ header' = VerdictHeader(st) /\ UNCHANGED <<conf, body, resp, st, at, shown>>
  BY DEF Complete
<1>2. ShapeInv'
  BY <1>1 DEF ShapeInv, ToSet
<1>3. RequestInv'
  BY <1>1, AttachedStays, SettingsReflexive DEF ShapeInv
<1>4. (Candidate' <=> Candidate) /\ (Unreadable' <=> Unreadable) /\ \A i : Skipped(i)' <=> Skipped(i)
  BY <1>1 DEF Candidate, Unreadable, Skipped
<1>5. Delivered'
  BY <1>1, <1>4 DEF ResponseInv, Delivered, VerdictHeader
<1>6. ResponseInv' /\ PartsInv' /\ CountInv'
  <2>1. Looked
    BY <1>1 DEF Looked
  <2>2. HiddenEntries' = HiddenEntries
    BY <1>1 DEF HiddenEntries
  <2>3. QED
    BY <1>1, <1>4, <1>5, <2>1, <2>2 DEF ResponseInv, PartsInv, CountInv
<1>7. DriftInv'
  BY <1>1, <1>4 DEF ResponseInv, DriftInv
<1>8. QED
  BY <1>2, <1>3, <1>6, <1>7

\* Every step of an exchange keeps the invariant.
LEMMA StepInv == FilterInv /\ [Next]_vars => FilterInv'
<1> SUFFICES ASSUME FilterInv, [Next]_vars PROVE FilterInv'
  OBVIOUS
<1>1. CASE UNCHANGED vars
  BY <1>1
  DEF vars, FilterInv, ShapeInv, RequestInv, ResponseInv, PartsInv, CountInv, DriftInv,
      Looked, Delivered, Attached, Candidate, Unreadable, Skipped, Request, Msgs, VerdictHeader,
      HiddenEntries, ToSet
<1>2. CASE Next
  BY <1>1, <1>2, RefuseKeeps, ForwardKeeps, RespondKeeps, ModifyNothingKeeps, ModifyRefuseKeeps,
     ModifyStartKeeps, JSONMessageKeeps, SSEEventKeeps, CompleteKeeps DEF Next, Done
<1>3. QED
  BY <1>1, <1>2

\* The invariant holds throughout.
THEOREM FilterInvHolds == Spec => []FilterInv
<1>1. QED
  BY InitInv, StepInv, PTL DEF Spec

--------------------------------------------------------------------------
(* What the invariant says *)

\* A response is there, so its request was forwarded with the state that the
\* configuration asks for (handleProxy).
LEMMA StateFacts ==
    ASSUME FilterInv, resp.status = 200
    PROVE  /\ conf.policy \in Policy /\ conf.lock \in Lock /\ conf.scanner \in Scanner
           /\ st.strict \in BOOLEAN /\ st.active \in BOOLEAN
           /\ st.scanIDs = ScannedIDs
           /\ st.strict = TRUE <=> conf.policy.mode = "allow" \/ conf.lock.mode = "enforce"
           /\ NeedsList => st.ids = ListIDs /\ st.policy = conf.policy /\ st.lock = conf.lock
           /\ ~NeedsList => st.ids = {}
           /\ ScannedIDs # {} => st.scanner = conf.scanner
           /\ NeedsList => st.active = TRUE
<1>1. Attached
  BY DEF FilterInv, RequestInv, ResponseInv
<1>2. conf \in Confs /\ body \in Body /\ st \in State
  BY ResponseAssumption DEF FilterInv, ShapeInv
<1>3. conf \in [policy : Policy, lock : Lock, scanner : Scanner]
  BY <1>2, ResponseAssumption
<1>4. PICK r : r = rewriteState(conf, Request)
  OBVIOUS
<1>5. /\ r.scanIDs = ScannedIDs
      /\ r.strict = TRUE <=> conf.policy.mode = "allow" \/ conf.lock.mode = "enforce"
      /\ NeedsList => r.ids = ListIDs /\ r.policy = conf.policy /\ r.lock = conf.lock
      /\ ~NeedsList => r.ids = {}
      /\ ScannedIDs # {} => r.scanner = conf.scanner
      /\ NeedsList => r.active = TRUE
  BY <1>2, <1>4, RewriteFacts
<1>6. SameSettings(r, st)
  BY <1>1, <1>4 DEF Attached
<1>7. st.strict \in BOOLEAN /\ st.active \in BOOLEAN
  BY <1>2 DEF State
<1>8. QED
  BY <1>3, <1>5, <1>6, <1>7 DEF SameSettings

\* What the client has got that is not an error of the gateway's own: a
\* response that was not looked at, or a part that was.
LEMMA ShownFacts ==
    ASSUME FilterInv, NEW i \in DOMAIN shown, shown[i].kind = "object"
    PROVE  \/ shown = resp.parts /\ (~Candidate \/ (Unreadable /\ st.strict = FALSE))
           \/ /\ Candidate /\ ~Unreadable
              /\ i \in DOMAIN resp.parts /\ resp.parts[i] \in AnyPart
              /\ phase = "done" => header = VerdictHeader(st)
              /\ \/ Skipped(i) /\ st.strict = FALSE /\ shown[i] = resp.parts[i]
                 \/ Handled(st, resp.parts[i], shown[i]) /\ Told(st, shown[i])
<1> USE DEF FilterInv
<1>1. /\ DOMAIN shown = 1..Len(shown) /\ Len(shown) \in Nat /\ at \in Nat
      /\ DOMAIN resp.parts = 1..Len(resp.parts) /\ Len(resp.parts) \in Nat
      /\ \A j \in DOMAIN resp.parts : resp.parts[j] \in AnyPart
  BY DEF ShapeInv, Response, AnyPart
<1>2. phase \in {"json", "sse", "done"}
  <2>1. shown # <<>>
    OBVIOUS
  <2>2. QED
    BY <2>1, Zenon DEF ResponseInv, ShapeInv
<1>3. CASE phase \in {"json", "sse"} \/ Delivered
  <2>1. /\ Candidate /\ ~Unreadable /\ i \in 1..at /\ i \in DOMAIN resp.parts
    <3>1. Candidate /\ ~Unreadable
      BY <1>3 DEF ResponseInv, Delivered
    <3>2. Len(shown) = at /\ at <= Len(resp.parts)
      <4>1. Delivered => Len(shown) = at /\ at = Len(resp.parts)
        BY Zenon DEF Delivered
      <4>2. phase \in {"json", "sse"} => Len(shown) = at /\ at <= Len(resp.parts)
        BY Zenon DEF ResponseInv
      <4>3. Len(shown) = at /\ (at = Len(resp.parts) \/ at <= Len(resp.parts))
        BY <1>3, <4>1, <4>2, Zenon
      <4>4. QED
        BY <1>1, <4>3
    <3>3. QED
      BY <1>1, <3>1, <3>2
  <2>2. phase = "done" => header = VerdictHeader(st)
    BY <1>3 DEF Delivered
  <2>3. \/ Skipped(i) /\ st.strict = FALSE /\ shown[i] = resp.parts[i]
        \/ Handled(st, resp.parts[i], shown[i]) /\ Told(st, shown[i])
    BY <1>2, <1>3, <2>1 DEF PartsInv, Looked
  <2>4. QED
    BY <1>1, <2>1, <2>2, <2>3
<1>4. CASE phase = "done" /\ ~Delivered
  BY <1>4 DEF ResponseInv
<1>5. QED
  BY <1>2, <1>3, <1>4

\* A listing that answers a tools/list of the request and no tools/call of
\* it is one that examineMessage examines.
LEMMA ListingIsExamined ==
    ASSUME FilterInv, resp.status = 200, NeedsList,
           NEW p \in AnyPart, Listing(p), p.id \notin ScannedIDs
    PROVE  Examines(st, p)
<1>1. p.error = FALSE
  BY DEF Listing, AnyPart, Object, NoObject
<1>2. QED
  BY <1>1, StateFacts DEF Listing, Examines

\* A call of a tool that the policy allows, sent on its own, is let through
\* (blockReason).
LEMMA CallPasses ==
    ASSUME NEW policy, NEW n, n # NoName, policy.mode = "none" \/ allows(policy, n)
    PROVE  ~Blocked(policy, summarizeRPC(CallOf(n)))
<1>1. PICK m : m = [method |-> "tools/call", id |-> NoId, name |-> n]
  OBVIOUS
<1>2. m.method = "tools/call" /\ m.name = n
  BY <1>1
<1>3. PICK msgs : msgs = <<m>>
  OBVIOUS
<1>4. DOMAIN msgs = {1} /\ msgs[1] = m
  BY <1>3
<1>5. summarizeRPC(CallOf(n)) = Summary(msgs)
  BY <1>1, <1>3 DEF CallOf, summarizeRPC
<1>6. PICK sum : sum = Summary(msgs)
  OBVIOUS
<1>7. /\ sum.Tools = NamesOf(msgs) /\ sum.Invalid = FALSE
      /\ sum.ToolCalls = Cardinality({i \in DOMAIN msgs : IsCall(msgs[i])})
  BY <1>6 DEF Summary
<1>8. {i \in DOMAIN msgs : IsCall(msgs[i])} = {1}
  BY <1>2, <1>4 DEF IsCall
<1>9. DOMAIN sum.Tools = {1} /\ sum.Tools[1] = n
  BY <1>2, <1>4, <1>7 DEF NamesOf, IsCall
<1>10. Cardinality({1}) = 1
  BY FS_Singleton
<1>11. ~Nameless(sum)
  BY <1>7, <1>8, <1>9, <1>10 DEF Nameless
<1>12. ~Blocked(policy, sum)
  BY <1>7, <1>9, <1>11 DEF Blocked
<1>13. QED
  BY <1>5, <1>6, <1>12

\* What is let through of an examined listing can be called.
LEMMA ClearedIsCallable ==
    ASSUME NEW p, NEW q, Cleared(st, p, q), st.policy = conf.policy,
           conf.policy.mode = "allow" => st.strict = TRUE
    PROVE  Callable(q)
<1> SUFFICES ASSUME NEW i \in DOMAIN q.elems
             PROVE  IF q.elems[i].name = NoName THEN conf.policy.mode # "allow"
                    ELSE ~Blocked(conf.policy, summarizeRPC(CallOf(q.elems[i].name)))
  BY DEF Callable
<1>1. IF q.elems[i].name = NoName THEN st.strict = FALSE ELSE allows(st.policy, q.elems[i].name)
  BY DEF Cleared
<1>2. CASE q.elems[i].name = NoName
  BY <1>1, <1>2
<1>3. CASE q.elems[i].name # NoName
  <2>1. allows(conf.policy, q.elems[i].name)
    BY <1>1, <1>3
  <2>2. ~Blocked(conf.policy, summarizeRPC(CallOf(q.elems[i].name)))
    BY <1>3, <2>1, CallPasses
  <2>3. QED
    BY <1>3, <2>2
<1>4. QED
  BY <1>2, <1>3

\* A request without a refusal has no call that the policy forbids: the
\* count of the named calls is the count of the calls (blockReason).
LEMMA LetThrough ==
    ASSUME body \in Body, conf.policy \in Policy, ~Blocked(conf.policy, Request)
    PROVE  /\ conf.policy.mode = "allow" =>
                 /\ body.kind # "invalid"
                 /\ \A i \in DOMAIN Msgs : IsCall(Msgs[i]) => Msgs[i].name \in conf.policy.tools
           /\ conf.policy.mode = "deny" =>
                 \A i \in DOMAIN Msgs : IsCall(Msgs[i]) => Msgs[i].name \notin conf.policy.tools
<1>1. PICK sum : sum = Request
  OBVIOUS
<1>2. PICK C : C = {i \in DOMAIN Msgs : IsCall(Msgs[i])}
  OBVIOUS
<1>3. PICK N : N = {i \in DOMAIN Msgs : IsCall(Msgs[i]) /\ Msgs[i].name # NoName}
  OBVIOUS
<1>4. /\ Msgs \in Seq(Message) /\ sum.ToolCalls = Cardinality(C)
      /\ body.kind = "invalid" => sum.Invalid = TRUE
  BY <1>1, <1>2, RequestFacts
<1>5. sum.Tools = NamesOf(Msgs)
  BY <1>1, RequestFacts
<1>6. DOMAIN sum.Tools = N /\ \A i \in N : sum.Tools[i] = Msgs[i].name
  BY <1>3, <1>5 DEF NamesOf
<1>7. IsFiniteSet(C) /\ N \subseteq C
  <2>1. IsFiniteSet(1..Len(Msgs))
    BY FS_Interval
  <2>2. C \subseteq 1..Len(Msgs)
    BY <1>2, <1>4
  <2>3. QED
    BY <1>2, <1>3, <2>1, <2>2, FS_Subset
<1>8. ~Blocked(conf.policy, sum)
  BY <1>1
<1>9. CASE conf.policy.mode = "allow"
  <2>1. ~Nameless(sum) /\ body.kind # "invalid"
    BY <1>4, <1>8, <1>9 DEF Blocked
  <2>2. IsFiniteSet(N) /\ Cardinality(C) \in Nat /\ Cardinality(N) \in Nat
    BY <1>7, FS_Subset, FS_CardinalityType
  <2>3. Cardinality(C) = Cardinality(N)
    <3>1. Cardinality(N) <= Cardinality(C)
      BY <1>7, FS_Subset
    <3>2. ~(Cardinality(C) > Cardinality(N))
      BY <1>4, <1>6, <2>1 DEF Nameless
    <3>3. QED
      BY <2>2, <3>1, <3>2
  <2>4. N = C
    BY <1>7, <2>3, FS_Subset
  <2>5. ASSUME NEW i \in DOMAIN Msgs, IsCall(Msgs[i])
        PROVE  Msgs[i].name \in conf.policy.tools
    <3>1. i \in N
      BY <1>2, <2>4, <2>5
    <3>2. allows(conf.policy, Msgs[i].name)
      BY <1>6, <1>8, <1>9, <3>1 DEF Blocked
    <3>3. QED
      BY <1>9, <3>2 DEF allows
  <2>6. QED
    BY <1>9, <2>1, <2>5
<1>10. CASE conf.policy.mode = "deny"
  <2>1. ASSUME NEW i \in DOMAIN Msgs, IsCall(Msgs[i])
        PROVE  Msgs[i].name \notin conf.policy.tools
    <3>1. CASE Msgs[i].name = NoName
      BY <3>1, ResponseAssumption DEF Policy
    <3>2. CASE Msgs[i].name # NoName
      <4>1. i \in N
        BY <1>3, <2>1, <3>2
      <4>2. allows(conf.policy, Msgs[i].name)
        BY <1>6, <1>8, <1>10, <4>1 DEF Blocked
      <4>3. QED
        BY <1>10, <4>2 DEF allows
    <3>3. QED
      BY <3>1, <3>2
  <2>2. QED
    BY <1>10, <2>1
<1>11. QED
  BY <1>9, <1>10

--------------------------------------------------------------------------
(* The properties *)

\* No call that the policy forbids is forwarded: ForwardedIsAllowed holds in
\* every exchange (handleProxy, blockReason).
THEOREM ForwardedIsAllowedHolds == Spec => []ForwardedIsAllowed
<1>1. FilterInv => ForwardedIsAllowed
  <2> SUFFICES ASSUME FilterInv, phase # "request", phase = "done" => status # 403
               PROVE  ForwardedIsAllowed
    BY DEF ForwardedIsAllowed
  <2>1. ~Blocked(conf.policy, Request)
    BY DEF FilterInv, RequestInv
  <2>2. body \in Body /\ conf \in [policy : Policy, lock : Lock, scanner : Scanner]
    BY ResponseAssumption DEF FilterInv, ShapeInv
  <2>3. QED
    BY <2>1, <2>2, LetThrough DEF ForwardedIsAllowed
<1>2. QED
  BY <1>1, FilterInvHolds, PTL

\* Clients never see tools they cannot call: VisibleIsCallable holds in every
\* exchange, for listings of any length (examineMessage).
THEOREM VisibleIsCallableHolds == Spec => []VisibleIsCallable
<1>1. FilterInv => VisibleIsCallable
  <2> SUFFICES ASSUME FilterInv, Inspected, NEW i \in DOMAIN shown, Listing(shown[i]),
                      shown[i].id \notin ScannedIDs,
                      conf.policy.mode = "allow" \/ ~shown[i].big
               PROVE  Callable(shown[i])
    BY DEF VisibleIsCallable
  <2>1. resp.status = 200 /\ shown[i].kind = "object"
    BY DEF Inspected, Listing
  <2>2. CASE conf.policy.mode = "none"
    BY <2>2, CallPasses DEF Callable
  <2>3. CASE conf.policy.mode # "none"
    <3>1. NeedsList
      BY <2>3 DEF NeedsList, Listing
    <3>2. Candidate /\ (Unreadable => st.strict # FALSE) /\ st.policy = conf.policy
          /\ (conf.policy.mode = "allow" => st.strict = TRUE)
      BY <2>1, <3>1, StateFacts DEF Inspected, Candidate
    <3>3. /\ resp.parts[i] \in AnyPart
          /\ \/ Skipped(i) /\ st.strict = FALSE /\ shown[i] = resp.parts[i]
             \/ Handled(st, resp.parts[i], shown[i])
      BY <2>1, <3>2, ShownFacts
    <3>4. ~(Skipped(i) /\ st.strict = FALSE /\ shown[i] = resp.parts[i])
      BY <3>2 DEF Skipped
    <3>5. ~(shown[i] = resp.parts[i] /\ ~Examines(st, resp.parts[i]))
      BY <2>1, <3>1, <3>3, ListingIsExamined
    <3>6. Cleared(st, resp.parts[i], shown[i])
      BY <2>1, <3>3, <3>4, <3>5 DEF Handled
    <3>7. QED
      BY <3>2, <3>6, ClearedIsCallable
  <2>4. QED
    BY <2>2, <2>3
<1>2. QED
  BY <1>1, FilterInvHolds, PTL

\* An enforced lock lets no listing through that fails verification:
\* DriftNeverShown holds in every exchange (examineMessage).
THEOREM DriftNeverShownHolds == Spec => []DriftNeverShown
<1>1. FilterInv => DriftNeverShown
  <2> SUFFICES ASSUME FilterInv, conf.lock.mode = "enforce", resp.status = 200,
                      NEW i \in DOMAIN shown, Listing(shown[i]), shown[i].id \notin ScannedIDs
               PROVE  Verifies(conf.lock, resp.parts[i].elems)
    BY DEF DriftNeverShown
  <2>1. NeedsList /\ shown[i].kind = "object"
    BY DEF NeedsList, Listing
  <2>2. Candidate /\ st.strict = TRUE /\ st.lock = conf.lock
    BY <2>1, StateFacts DEF Candidate
  <2>3. resp.parts[i] \in AnyPart /\ Handled(st, resp.parts[i], shown[i])
    BY <2>1, <2>2, ShownFacts
  <2>4. ~(shown[i] = resp.parts[i] /\ ~Examines(st, resp.parts[i]))
    BY <2>1, <2>3, ListingIsExamined
  <2>5. Cleared(st, resp.parts[i], shown[i])
    BY <2>1, <2>3, <2>4 DEF Handled
  <2>6. QED
    BY <2>2, <2>5 DEF Cleared
<1>2. QED
  BY <1>1, FilterInvHolds, PTL

\* The audit entry says tools_drift exactly when a listing that was examined
\* differs from the lock: DriftIsRecorded holds in every exchange
\* (examineMessage, noteOnce).
THEOREM DriftIsRecordedHolds == Spec => []DriftIsRecorded
<1>1. FilterInv => DriftIsRecorded
  <2> SUFFICES ASSUME FilterInv, Candidate, ~Unreadable PROVE DriftIsRecorded
    BY DEF DriftIsRecorded
  <2> DEFINE Examined == IF status = 403 THEN at + 1 ELSE at
             Differs(i) == /\ i <= Len(resp.parts)
                           /\ Listing(resp.parts[i]) /\ resp.parts[i].id \notin ScannedIDs
                           /\ ~(resp.type = "sse" /\ resp.parts[i].big)
                           /\ conf.lock.mode # "none" /\ ~Verifies(conf.lock, resp.parts[i].elems)
             Met(i) == i \in DOMAIN resp.parts /\ ~Skipped(i) /\ Differing(st, resp.parts[i])
  <2>1. resp.status = 200
    BY DEF Candidate
  <2>2. /\ DOMAIN resp.parts = 1..Len(resp.parts) /\ Len(resp.parts) \in Nat
        /\ \A i \in DOMAIN resp.parts : resp.parts[i] \in AnyPart
        /\ Examined \in Nat
    BY DEF FilterInv, ShapeInv, Response, AnyPart
  <2>3. ASSUME NEW i \in 1..Examined PROVE Differs(i) <=> Met(i)
    <3>1. i \in DOMAIN resp.parts <=> i <= Len(resp.parts)
      BY <2>2
    <3>2. ASSUME Differs(i) PROVE Met(i)
      <4>1. NeedsList /\ i \in DOMAIN resp.parts
        BY <3>1, <3>2 DEF NeedsList, Listing
      <4>2. Examines(st, resp.parts[i])
        BY <2>1, <2>2, <3>2, <4>1, ListingIsExamined
      <4>3. st.lock = conf.lock
        BY <2>1, <4>1, StateFacts
      <4>4. ~Skipped(i)
        BY <3>2 DEF Skipped
      <4>5. QED
        BY <3>2, <4>1, <4>2, <4>3, <4>4 DEF Differing
    <3>3. ASSUME Met(i) PROVE Differs(i)
      <4>1. i <= Len(resp.parts) /\ resp.parts[i] \in AnyPart
        BY <2>2, <3>3
      <4>2. NeedsList
        BY <2>1, <3>3, StateFacts DEF Differing, Examines
      <4>3. st.lock = conf.lock /\ st.ids = ListIDs /\ st.scanIDs = ScannedIDs
        BY <2>1, <4>2, StateFacts
      <4>4. resp.parts[i].big \in BOOLEAN /\ resp.parts[i].error = FALSE
        BY <3>3, <4>1 DEF AnyPart, Object, NoObject, Differing, Examines
      <4>5. ~(resp.type = "sse" /\ resp.parts[i].big)
        BY <3>3, <4>4 DEF Skipped
      <4>6. QED
        BY <3>3, <4>1, <4>3, <4>4, <4>5 DEF Differing, Examines, Listing
    <3>4. QED
      BY <3>2, <3>3
  <2>4. st.drift \in BOOLEAN
    BY DEF FilterInv, ShapeInv, State
  <2>5. st.drift = TRUE <=> \E i \in 1..Examined : Met(i)
    BY DEF FilterInv, DriftInv
  <2>6. st.drift = TRUE => st.note # Unset
    BY DEF FilterInv, DriftInv
  <2>7. st.drift = TRUE <=> \E i \in 1..Examined : Differs(i)
    BY <2>3, <2>5
  <2> HIDE DEF Met
  <2>8. QED
    BY <2>4, <2>6, <2>7 DEF DriftIsRecorded
<1>2. QED
  BY <1>1, FilterInvHolds, PTL

\* A verdict that reaches the threshold is acted on: VerdictIsActedOn holds
\* in every exchange (scanMessage, recordScan, modifyResponse).
THEOREM VerdictIsActedOnHolds == Spec => []VerdictIsActedOn
<1>1. FilterInv => VerdictIsActedOn
  <2> SUFFICES ASSUME FilterInv, Candidate, ~Unreadable,
                      NEW i \in DOMAIN shown, ReachesThreshold(i)
               PROVE  /\ conf.scanner.action = "flag"
                      /\ (phase = "done" /\ resp.type = "json")
                            => verdictRank(header) >= verdictRank(shown[i].says)
    BY DEF VerdictIsActedOn
  <2>1. resp.status = 200 /\ shown[i].kind = "object" /\ shown[i].id \in ScannedIDs
    BY DEF Candidate, ReachesThreshold
  <2>2. st.scanner = conf.scanner /\ st.scanIDs = ScannedIDs
    BY <2>1, StateFacts
  <2>3. /\ resp.parts[i] \in AnyPart
        /\ phase = "done" => header = VerdictHeader(st)
        /\ \/ Skipped(i) /\ shown[i] = resp.parts[i]
           \/ Handled(st, resp.parts[i], shown[i]) /\ Told(st, shown[i])
    BY <2>1, ShownFacts
  <2>4. ~(Skipped(i) /\ shown[i] = resp.parts[i])
    BY DEF ReachesThreshold, Skipped
  <2>5. ~(Examines(st, resp.parts[i]) /\ Cleared(st, resp.parts[i], shown[i]))
    BY <2>1, <2>2 DEF Examines, Cleared
  <2>6. shown[i] = resp.parts[i]
    BY <2>1, <2>3, <2>4, <2>5 DEF Handled
  <2>7. shown[i].error = FALSE
    BY <2>1, <2>3, <2>6 DEF ReachesThreshold, AnyPart, Object, NoObject
  <2>8. Reaches(st, shown[i])
    BY <2>1, <2>2, <2>7 DEF ReachesThreshold, Reaches
  <2>9. /\ conf.scanner.action = "flag" /\ st.flagged = TRUE
        /\ verdictRank(st.verdict) >= verdictRank(shown[i].says)
    BY <2>2, <2>3, <2>4, <2>8 DEF Told
  <2>10. (phase = "done" /\ resp.type = "json") => header = st.verdict
    BY <2>3, <2>9 DEF VerdictHeader
  <2>11. QED
    BY <2>9, <2>10
<1>2. QED
  BY <1>1, FilterInvHolds, PTL

\* Batches are all or nothing, streams go on, and tools_filtered counts what
\* is missing: DeliveredWhole holds in every exchange (processJSONBody,
\* finishEvent).
THEOREM DeliveredWholeHolds == Spec => []DeliveredWhole
<1>1. FilterInv => DeliveredWhole
  <2> SUFFICES ASSUME FilterInv PROVE DeliveredWhole
    OBVIOUS
  <2>0. /\ DOMAIN shown = 1..Len(shown) /\ Len(shown) \in Nat /\ at \in Nat
        /\ DOMAIN resp.parts = 1..Len(resp.parts) /\ Len(resp.parts) \in Nat
        /\ \A j \in DOMAIN resp.parts : resp.parts[j] \in AnyPart
    BY DEF FilterInv, ShapeInv, Response, AnyPart
  <2>1. \/ shown = <<>> /\ phase # "done" /\ st.filtered = 0
        \/ Looked
        \/ /\ phase = "done" /\ shown = resp.parts /\ st.filtered = 0 /\ status = resp.status
           /\ ~Candidate \/ (Unreadable /\ st.strict = FALSE)
        \/ /\ phase = "done" /\ status = 403 /\ Len(shown) = 1
           /\ resp.type = "sse" => resp.status # 200
    BY DEF FilterInv, ShapeInv, ResponseInv, Looked
  <2>2. Looked => Len(shown) = at /\ at <= Len(resp.parts) /\ status # 403 /\ resp.status = 200
    <3>1. CASE phase \in {"json", "sse"}
      BY <3>1 DEF FilterInv, ResponseInv, Candidate
    <3>2. CASE phase = "done" /\ Delivered
      BY <2>0, <3>2 DEF Delivered, Candidate
    <3>3. QED
      BY <3>1, <3>2 DEF Looked
  <2>3. (phase = "done" /\ status # 403) => Len(shown) = Len(resp.parts)
    BY <2>1 DEF Looked, Delivered
  <2>4. ASSUME resp.type = "json", st.active,
               NEW i \in DOMAIN shown, shown[i].kind = "error"
        PROVE  status = 403 /\ Len(shown) = 1
    <3>1. ~Looked
      <4>1. Looked => i \in 1..at
        BY <2>0, <2>2
      <4>2. Looked => \A j \in 1..at : shown[j].kind # "error"
        BY <2>4 DEF FilterInv, PartsInv
      <4>3. QED
        BY <2>4, <4>1, <4>2
    <3>2. shown # resp.parts
      BY <2>0, <2>4 DEF AnyPart, Object, NoObject
    <3>3. shown # <<>>
      BY <2>4
    <3>4. QED
      BY <2>1, <3>1, <3>2, <3>3, Zenon
  <2>5. (resp.type = "sse" /\ resp.status = 200) => status # 403
    <3>1. phase # "done" => status # 403
      BY DEF FilterInv, ShapeInv, ResponseInv
    <3>2. QED
      BY <2>1, <2>2, <3>1
  <2>6. ASSUME status # 403, NEW i \in DOMAIN shown, resp.parts[i].kind = "object",
               ~resp.parts[i].big, resp.parts[i].id \notin ListIDs \cup ScannedIDs
        PROVE  shown[i] = resp.parts[i]
    <3>1. CASE Looked
      <4>1. i \in 1..at /\ i \in DOMAIN resp.parts /\ resp.parts[i] \in AnyPart
        BY <2>0, <2>2, <3>1
      <4>2. st.ids \subseteq ListIDs /\ st.scanIDs = ScannedIDs
        BY <2>2, <3>1, StateFacts
      <4>3. ~Replaceable(st, resp.parts[i]) /\ ~Examines(st, resp.parts[i])
        BY <2>6, <4>2 DEF Replaceable, Examines
      <4>4. \/ shown[i] = resp.parts[i]
            \/ Handled(st, resp.parts[i], shown[i])
        BY <3>1, <4>1 DEF FilterInv, PartsInv
      <4>5. QED
        BY <4>3, <4>4 DEF Handled
    <3>2. CASE shown = resp.parts
      BY <3>2
    <3>3. shown # <<>>
      BY <2>6
    <3>4. QED
      BY <2>1, <2>6, <3>1, <3>2, <3>3, Zenon
  <2>7. (status # 403 /\ ~Looked) => HiddenEntries = {} /\ st.filtered = 0
    <3>1. (shown = <<>> \/ shown = resp.parts) => HiddenEntries = {}
      BY DEF HiddenEntries, Hidden
    <3>2. QED
      BY <2>1, <3>1
  <2>8. status # 403 => st.filtered = Cardinality(HiddenEntries)
    BY <2>7, FS_EmptySet DEF FilterInv, CountInv
  <2>9. ASSUME status # 403, NEW e \in HiddenEntries
        PROVE  ~allows(conf.policy, resp.parts[e[1]].elems[e[2]].name)
    <3>1. Looked
      BY <2>7, <2>9
    <3>2. PICK i \in DOMAIN shown : e \in {i} \X Hidden(resp.parts[i], shown[i])
      BY DEF HiddenEntries
    <3>3. e[1] = i /\ e[2] \in Hidden(resp.parts[i], shown[i])
      BY <3>2
    <3>4. i \in 1..at
      BY <2>0, <2>2, <3>1
    <3>5. /\ shown[i] # resp.parts[i] /\ shown[i].kind # "error"
      BY <3>3 DEF Hidden
    <3>6. Examines(st, resp.parts[i]) /\ Cleared(st, resp.parts[i], shown[i])
      BY <3>1, <3>4, <3>5 DEF FilterInv, PartsInv, Handled
    <3>7. e[2] \in Removed(st, resp.parts[i].elems)
      BY <3>3, <3>6 DEF Cleared
    <3>8. NeedsList
      BY <2>2, <3>1, <3>6, StateFacts DEF Examines
    <3>9. st.policy = conf.policy
      BY <2>2, <3>1, <3>8, StateFacts
    <3>10. QED
      BY <3>3, <3>7, <3>9 DEF Removed
  <2>10. QED
    BY <2>3, <2>4, <2>5, <2>6, <2>8, <2>9 DEF DeliveredWhole
<1>2. QED
  BY <1>1, FilterInvHolds, PTL
===========================================================================
