-------------------------- MODULE GatewayProofs --------------------------
(***************************************************************************)
(* Proofs about Gateway, for every set of requests.                        *)
(***************************************************************************)
EXTENDS Gateway, TLAPS, FiniteSetTheorems

\* Where a handler is once Log has been called for its request: the points
\* after the two calls of handleProxy.
Audited == {"answer", "return", "done"}

Logged(r) == \E i \in DOMAIN log : log[i].req = r

\* What an entry of the log and the handler that wrote it owe each other.
\* EntryIsTrue speaks of finished requests only; this says what an entry
\* already promises of the status that is still to be sent.
EntryOK(i) ==
    LET r == log[i].req IN
    /\ Proxied(r) /\ ~Lost(r) /\ pc[r] \in Audited
    /\ \A j \in DOMAIN log : log[j].req = r => j = i
    /\ log[i].status # 0
    /\ refusal[r] # 0 => log[i].status = refusal[r] /\ log[i].error = TRUE
    /\ refusal[r] = 0 => log[i].status \in {sent[r], 103}
    /\ r \in failure => log[i].error = TRUE

EntryInv == \A i \in DOMAIN log : EntryOK(i)

\* The path of a request through handleProxy, as far as the audit log
\* depends on it.
PathInv ==
    \A r \in Requests :
        /\ pc[r] \notin {"absent", "route", "done"} => Proxied(r)
        /\ Lost(r) => Proxied(r) /\ pc[r] \in Audited
        /\ (Proxied(r) /\ pc[r] \in Audited) => Lost(r) \/ Logged(r)

\* A refusal is final: the handler goes no further than to log and answer it.
RefusalInv ==
    \A r \in Requests :
        /\ pc[r] \in {"refuse", "answer"} => refusal[r] # 0
        /\ refusal[r] # 0 =>
              /\ Proxied(r) /\ pc[r] \in {"refuse", "answer", "done"}
              /\ r \notin forwarded /\ r \notin failure
              /\ sent[r] = (IF pc[r] = "done" THEN refusal[r] ELSE 0)

\* What countingWriter has recorded and what the client has been sent, at
\* every point of the proxying path.
StatusInv ==
    \A r \in Requests :
        /\ pc[r] \in {"absent", "route", "limit", "peek", "refuse", "answer", "dial"} =>
              sent[r] = 0 /\ rec[r] = 0 /\ r \notin failure /\ r \notin forwarded
        /\ pc[r] \in {"sending", "upstream", "modify"} =>
              sent[r] = 0 /\ rec[r] \in {0, 103} /\ r \notin failure
        /\ pc[r] \in {"stream", "aborted"} => r \notin failure
        /\ pc[r] \in {"stream", "audit", "return"} =>
              rec[r] # 0 /\ rec[r] \in {sent[r], 103}
        /\ sent[r] = 502 => r \in failure

\* When the auditor may be closed, and who can be left to find it so.
StopInv ==
    /\ auditor = "closed" => server \in {"closing", "abandoning", "exited"}
    /\ server \in {"drained", "closing"} => InFlight = {}
    /\ StopLosesNothing

GatewayInv ==
    TypeOK /\ EntryInv /\ PathInv /\ RefusalInv /\ StatusInv /\ StopInv

--------------------------------------------------------------------------

USE DEF Goto, Alive, httpVars, auditVars, mainVars, Audited, Lost, Proxied

\* The points of a handler, and the entries of the log.
Points == {"absent", "route", "limit", "peek", "refuse", "answer", "dial", "sending",
           "upstream", "modify", "stream", "audit", "return", "done", "aborted"}

Entry == [req : Requests, status : Nat, error : BOOLEAN]

\* The log is a sequence of entries of requests.
LEMMA LogType ==
    ASSUME TypeOK
    PROVE  /\ log \in Seq(Entry)
           /\ \A i \in DOMAIN log : log[i].req \in Requests
<1>1. log \in Seq(Entry)
  BY DEF TypeOK, Entry
<1>2. \A i \in DOMAIN log : log[i] \in Entry
  BY <1>1
<1>3. QED
  BY <1>1, <1>2 DEF Entry

\* What Log does for entry e: it is added behind the others, or it is lost
\* and the log stays as it is (Auditor.Log, which reports no failure to the
\* handler).
Writes(e) ==
    \/ log' = Append(log, e) /\ UNCHANGED lost
    \/ /\ \E why \in {"sink", "closed"} : lost' = [lost EXCEPT ![e.req] = why]
       /\ UNCHANGED log

\* An entry written or lost leaves the others, and the losses of the others,
\* as they were.
LEMMA WritesEffect ==
    ASSUME TypeOK, NEW e \in Entry, Writes(e)
    PROVE  /\ log' \in Seq(Entry) /\ lost' \in [Requests -> {"no", "sink", "closed"}]
           /\ \A q \in Requests : q # e.req => lost'[q] = lost[q]
           /\ \/ /\ lost'[e.req] = lost[e.req]
                 /\ DOMAIN log' = 1..(Len(log) + 1)
                 /\ DOMAIN log = 1..Len(log) /\ Len(log) \in Nat
                 /\ \A i \in DOMAIN log : log'[i] = log[i]
                 /\ log'[Len(log) + 1] = e
              \/ lost'[e.req] # "no" /\ log' = log
<1>1. log \in Seq(Entry) /\ lost \in [Requests -> {"no", "sink", "closed"}]
  BY LogType DEF TypeOK
<1>2. CASE /\ \E why \in {"sink", "closed"} : lost' = [lost EXCEPT ![e.req] = why]
           /\ UNCHANGED log
  <2>1. e.req \in Requests
    BY DEF Entry
  <2>2. QED
    BY <1>1, <1>2, <2>1
<1>3. CASE log' = Append(log, e) /\ UNCHANGED lost
  <2>1. /\ log' \in Seq(Entry) /\ Len(log) \in Nat
        /\ DOMAIN log = 1..Len(log) /\ DOMAIN log' = 1..(Len(log) + 1)
        /\ \A i \in DOMAIN log : log'[i] = log[i]
        /\ log'[Len(log) + 1] = e
    BY <1>1, <1>3
  <2>2. QED
    BY <1>1, <1>3, <2>1
<1>4. QED
  BY <1>2, <1>3 DEF Writes

\* A request whose handler has not called Log has no entry, so that nothing
\* its handler does before can make an entry untrue.
LEMMA EntriesFramed ==
    ASSUME TypeOK, EntryInv, NEW r \in Requests, pc[r] \notin Audited,
           UNCHANGED log,
           \A q \in Requests \ {r} :
               /\ pc'[q] = pc[q] /\ route'[q] = route[q] /\ refusal'[q] = refusal[q]
               /\ sent'[q] = sent[q] /\ lost'[q] = lost[q]
               /\ q \in failure' => q \in failure
    PROVE  EntryInv'
<1>1. \A i \in DOMAIN log : log[i].req \in Requests
  BY LogType
<1>2. \A i \in DOMAIN log : log[i].req # r
  BY DEF EntryInv, EntryOK
<1>3. QED
  BY <1>1, <1>2 DEF EntryInv, EntryOK

\* The step that calls Log, at either of its two places: the request gets
\* the one entry it will have, or loses it.
LEMMA LogStep ==
    ASSUME TypeOK, EntryInv, PathInv, NEW r \in Requests, pc[r] \in {"refuse", "audit"},
           NEW e \in Entry, e.req = r, e.status # 0, Writes(e),
           NEW to \in Audited, Goto(r, to),
           UNCHANGED <<route, refusal, sent, failure>>,
           refusal[r] # 0 => e.status = refusal[r] /\ e.error = TRUE,
           refusal[r] = 0 => e.status \in {sent[r], 103},
           r \in failure => e.error = TRUE
    PROVE  EntryInv' /\ PathInv'
<1>1. \A i \in DOMAIN log : log[i].req \in Requests
  BY LogType
<1>2. \A i \in DOMAIN log : log[i].req # r
  BY DEF EntryInv, EntryOK
<1>3. Proxied(r) /\ ~Lost(r)
  BY DEF PathInv
<1>4. /\ \A q \in Requests : q # r => lost'[q] = lost[q]
      /\ \/ /\ lost'[r] = lost[r]
            /\ DOMAIN log' = 1..(Len(log) + 1)
            /\ DOMAIN log = 1..Len(log) /\ Len(log) \in Nat
            /\ \A i \in DOMAIN log : log'[i] = log[i]
            /\ log'[Len(log) + 1] = e
         \/ lost'[r] # "no" /\ log' = log
  BY WritesEffect
<1>5. pc'[r] = to /\ \A q \in Requests : q # r => pc'[q] = pc[q]
  BY DEF TypeOK
<1>6. CASE lost'[r] # "no" /\ log' = log
  <2>1. EntryInv'
    BY <1>1, <1>2, <1>4, <1>5, <1>6 DEF EntryInv, EntryOK
  <2>2. PathInv'
    BY <1>3, <1>4, <1>5, <1>6 DEF PathInv, Logged
  <2>3. QED
    BY <2>1, <2>2
<1>7. CASE /\ lost'[r] = lost[r]
           /\ DOMAIN log' = 1..(Len(log) + 1)
           /\ DOMAIN log = 1..Len(log) /\ Len(log) \in Nat
           /\ \A i \in DOMAIN log : log'[i] = log[i]
           /\ log'[Len(log) + 1] = e
  <2>0. PICK n \in Nat : n = Len(log) + 1
    BY <1>7
  <2>1. n \in DOMAIN log' /\ n \notin DOMAIN log
    BY <1>7, <2>0
  <2>2. \A i \in DOMAIN log' : i # n => i \in DOMAIN log /\ log'[i] = log[i]
    BY <1>7, <2>0
  <2>3. \A i \in DOMAIN log : i \in DOMAIN log' /\ log'[i] = log[i]
    BY <1>7
  <2>4. log'[n] = e
    BY <1>7, <2>0
  <2>5. EntryInv'
    <3>1. ASSUME NEW i \in DOMAIN log', i # n
          PROVE  EntryOK(i)'
      <4>1. i \in DOMAIN log /\ log'[i] = log[i] /\ log[i].req # r /\ log[i].req \in Requests
        BY <3>1, <1>1, <1>2, <2>2
      <4>2. EntryOK(i)
        BY <4>1 DEF EntryInv
      <4>3. \A j \in DOMAIN log' : log'[j].req = log[i].req => j = i
        BY <4>1, <4>2, <2>2, <2>4 DEF EntryOK
      <4>4. QED
        BY <4>1, <4>2, <4>3, <1>4, <1>5 DEF EntryOK
    <3>2. EntryOK(n)'
      <4>1. \A j \in DOMAIN log' : log'[j].req = r => j = n
        BY <1>2, <2>2
      <4>2. QED
        BY <4>1, <1>3, <1>5, <1>7, <2>4 DEF EntryOK
    <3>3. QED
      BY <3>1, <3>2 DEF EntryInv
  <2>6. PathInv'
    <3>1. \A q \in Requests : Logged(q) => Logged(q)'
      BY <2>3 DEF Logged
    <3>2. Logged(r)'
      BY <2>1, <2>4 DEF Logged
    <3>3. QED
      BY <1>3, <1>4, <1>5, <1>7, <3>1, <3>2 DEF PathInv
  <2>7. QED
    BY <2>5, <2>6
<1>8. QED
  BY <1>4, <1>6, <1>7

--------------------------------------------------------------------------
(* The steps of a handler, one lemma per action.  EntryInv is disturbed    *)
(* only by Log and by what follows it; the steps before it are framed.     *)

\* handleHealth, handleWellKnown and the default branch: answered without an
\* entry, and not a request that needs one.
LEMMA ServeUnauditedKeeps ==
    ASSUME GatewayInv, NEW r \in Requests, ServeUnaudited(r)
    PROVE  GatewayInv'
<1> USE DEF GatewayInv
<1>1. TypeOK'
  <2>1. sent' \in [Requests -> {0, 403, 404, 429, 502} \cup Finals]
    <3>1. \E c \in {200, 404} : sent' = [sent EXCEPT ![r] = c]
      BY DEF ServeUnaudited
    <3>2. QED
      BY <3>1 DEF TypeOK, Finals
  <2>2. QED
    BY <2>1 DEF ServeUnaudited, TypeOK
<1>2. EntryInv'
  BY EntriesFramed DEF ServeUnaudited, TypeOK
<1>3. PathInv'
  BY DEF ServeUnaudited, TypeOK, PathInv, Logged
<1>4. RefusalInv'
  BY DEF ServeUnaudited, TypeOK, PathInv, RefusalInv, StatusInv
<1>5. StatusInv'
  BY DEF ServeUnaudited, TypeOK, StatusInv, RefusalInv
<1>6. StopInv'
  BY DEF ServeUnaudited, TypeOK, StopInv, StopLosesNothing, InFlight
<1>7. QED
  BY <1>1, <1>2, <1>3, <1>4, <1>5, <1>6

\* handleProxy, the lookup of the upstream.
LEMMA LookupKeeps ==
    ASSUME GatewayInv, NEW r \in Requests, Lookup(r)
    PROVE  GatewayInv'
<1> USE DEF GatewayInv
<1>1. TypeOK'
  <2>1. refusal' \in [Requests -> {0, 403, 404, 429}]
    <3>1. refusal' = refusal \/ refusal' = [refusal EXCEPT ![r] = 404]
      BY DEF Lookup, Refuse
    <3>2. QED
      BY <3>1 DEF TypeOK
  <2>2. \E to \in {"refuse", "limit", "peek", "dial"} : Goto(r, to)
    BY DEF Lookup, Refuse
  <2>3. QED
    BY <2>1, <2>2 DEF Lookup, TypeOK
<1>2. EntryInv'
  <2>1. \A q \in Requests \ {r} : pc'[q] = pc[q] /\ refusal'[q] = refusal[q]
    BY DEF Lookup, Refuse, TypeOK
  <2>2. pc[r] \notin Audited
    BY DEF Lookup
  <2>3. UNCHANGED <<route, sent, failure, log, lost>>
    BY DEF Lookup
  <2>4. QED
    BY <2>1, <2>2, <2>3, EntriesFramed
<1>3. PathInv'
  BY DEF Lookup, Refuse, TypeOK, PathInv, Logged
<1>4. RefusalInv'
  BY DEF Lookup, Refuse, TypeOK, PathInv, RefusalInv, StatusInv
<1>5. StatusInv'
  BY DEF Lookup, Refuse, TypeOK, StatusInv, RefusalInv
<1>6. StopInv'
  <2>1. \E to \in {"refuse", "limit"} : Goto(r, to)
    BY DEF Lookup, Refuse
  <2>2. pc[r] = "route" /\ UNCHANGED <<lost, server, auditor>>
    BY DEF Lookup
  <2>3. QED
    BY <2>1, <2>2 DEF TypeOK, StopInv, StopLosesNothing, InFlight
<1>7. QED
  BY <1>1, <1>2, <1>3, <1>4, <1>5, <1>6

\* handleProxy, the rate limiter's verdict.
LEMMA LimitKeeps ==
    ASSUME GatewayInv, NEW r \in Requests, Limit(r)
    PROVE  GatewayInv'
<1> USE DEF GatewayInv
<1>1. TypeOK'
  <2>1. refusal' \in [Requests -> {0, 403, 404, 429}]
    <3>1. refusal' = refusal \/ refusal' = [refusal EXCEPT ![r] = 429]
      BY DEF Limit, Refuse
    <3>2. QED
      BY <3>1 DEF TypeOK
  <2>2. \E to \in {"refuse", "limit", "peek", "dial"} : Goto(r, to)
    BY DEF Limit, Refuse
  <2>3. QED
    BY <2>1, <2>2 DEF Limit, TypeOK
<1>2. EntryInv'
  <2>1. \A q \in Requests \ {r} : pc'[q] = pc[q] /\ refusal'[q] = refusal[q]
    BY DEF Limit, Refuse, TypeOK
  <2>2. pc[r] \notin Audited
    BY DEF Limit
  <2>3. UNCHANGED <<route, sent, failure, log, lost>>
    BY DEF Limit
  <2>4. QED
    BY <2>1, <2>2, <2>3, EntriesFramed
<1>3. PathInv'
  BY DEF Limit, Refuse, TypeOK, PathInv, Logged
<1>4. RefusalInv'
  BY DEF Limit, Refuse, TypeOK, PathInv, RefusalInv, StatusInv
<1>5. StatusInv'
  BY DEF Limit, Refuse, TypeOK, StatusInv, RefusalInv
<1>6. StopInv'
  BY DEF Limit, Refuse, TypeOK, StopInv, StopLosesNothing, InFlight
<1>7. QED
  BY <1>1, <1>2, <1>3, <1>4, <1>5, <1>6

\* The entry of a refusal has its status and an error (handleProxy: Log
\* before writeJSONError).
LEMMA RefusalEntry ==
    ASSUME GatewayInv, NEW r \in Requests, LogRefusal(r)
    PROVE  \E e \in Entry :
               /\ e.req = r /\ e.status # 0 /\ Writes(e)
               /\ e.status = refusal[r] /\ e.error = TRUE /\ refusal[r] # 0
<1> USE DEF GatewayInv
<1> DEFINE e == [req |-> r, status |-> refusal[r], error |-> TRUE]
<1>1. refusal[r] \in {0, 403, 404, 429} /\ refusal[r] # 0
  BY DEF LogRefusal, TypeOK, RefusalInv
<1>2. e \in Entry
  BY <1>1 DEF Entry
<1>3. Writes(e)
  BY DEF LogRefusal, Log, Writes
<1>4. QED
  BY <1>1, <1>2, <1>3

\* handleProxy, Log before writeJSONError: the entry comes first.
LEMMA LogRefusalKeeps ==
    ASSUME GatewayInv, NEW r \in Requests, LogRefusal(r)
    PROVE  GatewayInv'
<1> USE DEF GatewayInv
<1>1. PICK e \in Entry : /\ e.req = r /\ e.status # 0 /\ Writes(e)
                         /\ e.status = refusal[r] /\ e.error = TRUE /\ refusal[r] # 0
  BY RefusalEntry
<1>2. TypeOK'
  <2>1. log' \in Seq(Entry) /\ lost' \in [Requests -> {"no", "sink", "closed"}]
    BY <1>1, WritesEffect
  <2>2. failed' \in BOOLEAN
    <3>1. failed \in BOOLEAN
      BY DEF TypeOK
    <3>2. QED
      BY <3>1 DEF LogRefusal, Log
  <2>3. pc' \in [Requests -> Points]
    BY DEF LogRefusal, TypeOK, Points
  <2>4. UNCHANGED <<route, refusal, httpVars, mainVars>>
    BY DEF LogRefusal
  <2>5. QED
    BY <2>1, <2>2, <2>3, <2>4 DEF TypeOK, Entry, Points
<1>3. EntryInv' /\ PathInv'
  <2>1. /\ pc[r] \in {"refuse", "audit"} /\ Goto(r, "answer")
        /\ UNCHANGED <<route, refusal, sent, failure>>
    BY DEF LogRefusal
  <2>2. QED
    BY <1>1, <2>1, LogStep
<1>4. RefusalInv'
  BY DEF LogRefusal, TypeOK, RefusalInv
<1>5. StatusInv'
  BY DEF LogRefusal, TypeOK, StatusInv
<1>6. StopInv'
  BY DEF LogRefusal, Log, TypeOK, StopInv, StopLosesNothing, InFlight
<1>7. QED
  BY <1>2, <1>3, <1>4, <1>5, <1>6

\* handleProxy, writeJSONError: the client gets the status in the entry.
LEMMA AnswerRefusalKeeps ==
    ASSUME GatewayInv, NEW r \in Requests, AnswerRefusal(r)
    PROVE  GatewayInv'
<1> USE DEF GatewayInv
<1>1. TypeOK'
  BY DEF AnswerRefusal, TypeOK
<1>2. EntryInv'
  BY LogType DEF AnswerRefusal, EntryInv, EntryOK, RefusalInv, TypeOK
<1>3. PathInv'
  BY DEF AnswerRefusal, TypeOK, PathInv, Logged
<1>4. RefusalInv'
  BY DEF AnswerRefusal, TypeOK, PathInv, RefusalInv, StatusInv
<1>5. StatusInv'
  <2>1. refusal[r] # 502 /\ pc'[r] = "done" /\ sent'[r] = refusal[r]
    BY DEF AnswerRefusal, TypeOK
  <2>2. \A q \in Requests \ {r} : pc'[q] = pc[q] /\ sent'[q] = sent[q]
    BY DEF AnswerRefusal, TypeOK
  <2>3. QED
    BY <2>1, <2>2 DEF AnswerRefusal, StatusInv
<1>6. StopInv'
  BY DEF AnswerRefusal, TypeOK, StopInv, StopLosesNothing, InFlight
<1>7. QED
  BY <1>1, <1>2, <1>3, <1>4, <1>5, <1>6

\* ReverseProxy connects; only a request without a refusal comes this far.
LEMMA ConnectKeeps ==
    ASSUME GatewayInv, NEW r \in Requests, Connect(r)
    PROVE  GatewayInv'
<1> USE DEF GatewayInv
<1>1. TypeOK'
  BY DEF Connect, TypeOK
<1>2. EntryInv'
  BY EntriesFramed DEF Connect, TypeOK
<1>3. PathInv'
  BY DEF Connect, TypeOK, PathInv, Logged
<1>4. RefusalInv'
  BY DEF Connect, TypeOK, PathInv, RefusalInv, StatusInv
<1>5. StatusInv'
  BY DEF Connect, TypeOK, StatusInv, RefusalInv
<1>6. StopInv'
  BY DEF Connect, TypeOK, StopInv, StopLosesNothing, InFlight
<1>7. QED
  BY <1>1, <1>2, <1>3, <1>4, <1>5, <1>6

\* ErrorHandler after a failed round trip: the 502 is recorded as it is sent,
\* or nothing is sent because a 103 was recorded before.
LEMMA RoundTripFailsKeeps ==
    ASSUME GatewayInv, NEW r \in Requests, RoundTripFails(r)
    PROVE  GatewayInv'
<1> USE DEF GatewayInv
<1>1. TypeOK'
  BY DEF RoundTripFails, ErrorHandler, WriteHeader, TypeOK, Finals
<1>2. EntryInv'
  <2>1. pc[r] \notin Audited
    BY DEF RoundTripFails
  <2>2. \A q \in Requests \ {r} : pc'[q] = pc[q] /\ sent'[q] = sent[q]
    BY DEF RoundTripFails, ErrorHandler, TypeOK
  <2>3. QED
    BY <2>1, <2>2, EntriesFramed DEF RoundTripFails, ErrorHandler
<1>3. PathInv'
  BY DEF RoundTripFails, ErrorHandler, WriteHeader, TypeOK, PathInv, Logged
<1>4. RefusalInv'
  BY DEF RoundTripFails, ErrorHandler, WriteHeader, TypeOK, PathInv, RefusalInv, StatusInv
<1>5. StatusInv'
  BY DEF RoundTripFails, ErrorHandler, WriteHeader, TypeOK, StatusInv, RefusalInv
<1>6. StopInv'
  BY DEF RoundTripFails, ErrorHandler, WriteHeader, TypeOK, StopInv, StopLosesNothing,
     InFlight
<1>7. QED
  BY <1>1, <1>2, <1>3, <1>4, <1>5, <1>6

\* The entry at the end of handleProxy has the status countingWriter has
\* recorded, which is the one sent or a 103, and says of a failed exchange
\* that it failed.
LEMMA FinalEntry ==
    ASSUME GatewayInv, NEW r \in Requests, Audit(r)
    PROVE  \E e \in Entry :
               /\ e.req = r /\ e.status # 0 /\ Writes(e)
               /\ e.status \in {sent[r], 103} /\ refusal[r] = 0
               /\ r \in failure => e.error = TRUE
<1> USE DEF GatewayInv
<1> DEFINE e(b) == [req |-> r, status |-> Recorded(r), error |-> b]
<1>1. /\ Recorded(r) \in Nat \ {0} /\ Recorded(r) \in {sent[r], 103}
      /\ refusal[r] = 0
  <2>1. rec[r] \in {0, 103, 403, 502, 200, 500}
    BY DEF TypeOK, Finals
  <2>2. rec[r] # 0 /\ rec[r] \in {sent[r], 103} /\ refusal[r] = 0
    BY DEF Audit, RefusalInv, StatusInv
  <2>3. QED
    BY <2>1, <2>2 DEF Recorded
<1>2. Writes(e(HasError(r)))
  BY DEF Audit, Log, Writes
<1>3. CASE HasError(r)
  <2>1. HasError(r) = TRUE
    BY <1>3
  <2>2. Writes(e(TRUE))
    BY <1>2, <2>1
  <2>3. e(TRUE) \in Entry
    BY <1>1 DEF Entry
  <2>4. QED
    BY <1>1, <2>2, <2>3
<1>4. CASE ~HasError(r)
  <2>1. HasError(r) = FALSE /\ r \notin failure
    BY <1>4 DEF HasError
  <2>2. Writes(e(FALSE))
    BY <1>2, <2>1
  <2>3. e(FALSE) \in Entry
    BY <1>1 DEF Entry
  <2>4. QED
    BY <1>1, <2>1, <2>2, <2>3
<1>5. QED
  BY <1>3, <1>4

\* handleProxy, Log at its end.
LEMMA AuditKeeps ==
    ASSUME GatewayInv, NEW r \in Requests, Audit(r)
    PROVE  GatewayInv'
<1> USE DEF GatewayInv
<1>1. PICK e \in Entry : /\ e.req = r /\ e.status # 0 /\ Writes(e)
                         /\ e.status \in {sent[r], 103} /\ refusal[r] = 0
                         /\ r \in failure => e.error = TRUE
  BY FinalEntry
<1>2. TypeOK'
  <2>1. log' \in Seq(Entry) /\ lost' \in [Requests -> {"no", "sink", "closed"}]
    BY <1>1, WritesEffect
  <2>2. failed' \in BOOLEAN
    <3>1. failed \in BOOLEAN
      BY DEF TypeOK
    <3>2. QED
      BY <3>1 DEF Audit, Log
  <2>3. pc' \in [Requests -> Points]
    BY DEF Audit, TypeOK, Points
  <2>4. UNCHANGED <<route, refusal, httpVars, mainVars>>
    BY DEF Audit
  <2>5. QED
    BY <2>1, <2>2, <2>3, <2>4 DEF TypeOK, Entry, Points
<1>3. EntryInv' /\ PathInv'
  <2>1. /\ pc[r] \in {"refuse", "audit"} /\ Goto(r, "return")
        /\ UNCHANGED <<route, refusal, sent, failure>>
    BY DEF Audit
  <2>2. QED
    BY <1>1, <2>1, LogStep
<1>4. RefusalInv'
  BY DEF Audit, TypeOK, RefusalInv
<1>5. StatusInv'
  BY DEF Audit, TypeOK, StatusInv
<1>6. StopInv'
  BY DEF Audit, Log, TypeOK, StopInv, StopLosesNothing, InFlight
<1>7. QED
  BY <1>2, <1>3, <1>4, <1>5, <1>6

\* handleProxy returns: a status net/http supplies is one for which the entry
\* holds a 103.
LEMMA HandlerReturnsKeeps ==
    ASSUME GatewayInv, NEW r \in Requests, HandlerReturns(r)
    PROVE  GatewayInv'
<1> USE DEF GatewayInv
<1>1. TypeOK'
  BY DEF HandlerReturns, TypeOK, Finals
<1>2. EntryInv'
  BY LogType DEF HandlerReturns, EntryInv, EntryOK, RefusalInv, TypeOK
<1>3. PathInv'
  BY DEF HandlerReturns, TypeOK, PathInv, Logged
<1>4. RefusalInv'
  BY DEF HandlerReturns, TypeOK, PathInv, RefusalInv, StatusInv
<1>5. StatusInv'
  BY DEF HandlerReturns, TypeOK, StatusInv, RefusalInv
<1>6. StopInv'
  BY DEF HandlerReturns, TypeOK, StopInv, StopLosesNothing, InFlight
<1>7. QED
  BY <1>1, <1>2, <1>3, <1>4, <1>5, <1>6

\* A request arrives.
LEMMA ArriveKeeps ==
    ASSUME GatewayInv, NEW r \in Requests, Arrive(r)
    PROVE  GatewayInv'
<1> USE DEF GatewayInv
<1>1. TypeOK'
  BY DEF Arrive, TypeOK, Routes
<1>2. EntryInv'
  BY EntriesFramed DEF Arrive, TypeOK
<1>3. PathInv'
  BY DEF Arrive, TypeOK, PathInv, Logged
<1>4. RefusalInv'
  BY DEF Arrive, TypeOK, PathInv, RefusalInv, StatusInv
<1>5. StatusInv'
  BY DEF Arrive, TypeOK, StatusInv, RefusalInv
<1>6. StopInv'
  BY DEF Arrive, TypeOK, StopInv, StopLosesNothing, InFlight
<1>7. QED
  BY <1>1, <1>2, <1>3, <1>4, <1>5, <1>6

\* handleProxy, the tool policy's verdict.
LEMMA DecideKeeps ==
    ASSUME GatewayInv, NEW r \in Requests, Decide(r)
    PROVE  GatewayInv'
<1> USE DEF GatewayInv
<1>1. TypeOK'
  <2>1. refusal' \in [Requests -> {0, 403, 404, 429}]
    <3>1. refusal' = refusal \/ refusal' = [refusal EXCEPT ![r] = 403]
      BY DEF Decide, Refuse
    <3>2. QED
      BY <3>1 DEF TypeOK
  <2>2. \E to \in {"refuse", "limit", "peek", "dial"} : Goto(r, to)
    BY DEF Decide, Refuse
  <2>3. QED
    BY <2>1, <2>2 DEF Decide, TypeOK
<1>2. EntryInv'
  <2>1. \A q \in Requests \ {r} : pc'[q] = pc[q] /\ refusal'[q] = refusal[q]
    BY DEF Decide, Refuse, TypeOK
  <2>2. pc[r] \notin Audited
    BY DEF Decide
  <2>3. UNCHANGED <<route, sent, failure, log, lost>>
    BY DEF Decide
  <2>4. QED
    BY <2>1, <2>2, <2>3, EntriesFramed
<1>3. PathInv'
  BY DEF Decide, Refuse, TypeOK, PathInv, Logged
<1>4. RefusalInv'
  BY DEF Decide, Refuse, TypeOK, PathInv, RefusalInv, StatusInv
<1>5. StatusInv'
  BY DEF Decide, Refuse, TypeOK, StatusInv, RefusalInv
<1>6. StopInv'
  <2>1. pc[r] = "peek" /\ UNCHANGED <<auditor, server, lost>>
    BY DEF Decide
  <2>2. \A q \in Requests \ {r} : pc'[q] = pc[q]
    BY DEF Decide, Refuse, TypeOK
  <2>3. InFlight # {} /\ InFlight' \subseteq InFlight
    BY <2>1, <2>2 DEF InFlight
  <2>4. QED
    BY <2>1, <2>3 DEF StopInv, StopLosesNothing
<1>7. QED
  BY <1>1, <1>2, <1>3, <1>4, <1>5, <1>6

\* countingWriter.WriteHeader with an informational status.
LEMMA InformKeeps ==
    ASSUME GatewayInv, NEW r \in Requests, Inform(r)
    PROVE  GatewayInv'
<1> USE DEF GatewayInv
<1>1. TypeOK'
  BY DEF Inform, WriteHeader, TypeOK, Finals
<1>2. EntryInv'
  BY EntriesFramed DEF Inform, WriteHeader, TypeOK
<1>3. PathInv'
  BY DEF Inform, WriteHeader, TypeOK, PathInv, Logged
<1>4. RefusalInv'
  BY DEF Inform, WriteHeader, TypeOK, PathInv, RefusalInv, StatusInv
<1>5. StatusInv'
  BY DEF Inform, WriteHeader, TypeOK, StatusInv, RefusalInv
<1>6. StopInv'
  BY DEF Inform, WriteHeader, TypeOK, StopInv, StopLosesNothing, InFlight
<1>7. QED
  BY <1>1, <1>2, <1>3, <1>4, <1>5, <1>6

\* The request is written to its end.
LEMMA BodySentKeeps ==
    ASSUME GatewayInv, NEW r \in Requests, BodySent(r)
    PROVE  GatewayInv'
<1> USE DEF GatewayInv
<1>1. TypeOK'
  BY DEF BodySent, TypeOK
<1>2. EntryInv'
  BY EntriesFramed DEF BodySent, TypeOK
<1>3. PathInv'
  BY DEF BodySent, TypeOK, PathInv, Logged
<1>4. RefusalInv'
  BY DEF BodySent, TypeOK, PathInv, RefusalInv, StatusInv
<1>5. StatusInv'
  BY DEF BodySent, TypeOK, StatusInv, RefusalInv
<1>6. StopInv'
  BY DEF BodySent, TypeOK, StopInv, StopLosesNothing, InFlight
<1>7. QED
  BY <1>1, <1>2, <1>3, <1>4, <1>5, <1>6

\* The request breaks off while it is sent: see RoundTripFailsKeeps.
LEMMA SendFailsKeeps ==
    ASSUME GatewayInv, NEW r \in Requests, SendFails(r)
    PROVE  GatewayInv'
<1> USE DEF GatewayInv
<1>1. TypeOK'
  BY DEF SendFails, ErrorHandler, WriteHeader, TypeOK, Finals
<1>2. EntryInv'
  <2>1. pc[r] \notin Audited
    BY DEF SendFails
  <2>2. \A q \in Requests \ {r} : pc'[q] = pc[q] /\ sent'[q] = sent[q]
    BY DEF SendFails, ErrorHandler, TypeOK
  <2>3. QED
    BY <2>1, <2>2, EntriesFramed DEF SendFails, ErrorHandler
<1>3. PathInv'
  BY DEF SendFails, ErrorHandler, WriteHeader, TypeOK, PathInv, Logged
<1>4. RefusalInv'
  BY DEF SendFails, ErrorHandler, WriteHeader, TypeOK, PathInv, RefusalInv, StatusInv
<1>5. StatusInv'
  BY DEF SendFails, ErrorHandler, WriteHeader, TypeOK, StatusInv, RefusalInv
<1>6. StopInv'
  BY DEF SendFails, ErrorHandler, WriteHeader, TypeOK, StopInv, StopLosesNothing,
     InFlight
<1>7. QED
  BY <1>1, <1>2, <1>3, <1>4, <1>5, <1>6

\* The upstream's headers arrive.
LEMMA HeadersComeKeeps ==
    ASSUME GatewayInv, NEW r \in Requests, HeadersCome(r)
    PROVE  GatewayInv'
<1> USE DEF GatewayInv
<1>1. TypeOK'
  BY DEF HeadersCome, TypeOK
<1>2. EntryInv'
  BY EntriesFramed DEF HeadersCome, TypeOK
<1>3. PathInv'
  BY DEF HeadersCome, TypeOK, PathInv, Logged
<1>4. RefusalInv'
  BY DEF HeadersCome, TypeOK, PathInv, RefusalInv, StatusInv
<1>5. StatusInv'
  BY DEF HeadersCome, TypeOK, StatusInv, RefusalInv
<1>6. StopInv'
  BY DEF HeadersCome, TypeOK, StopInv, StopLosesNothing, InFlight
<1>7. QED
  BY <1>1, <1>2, <1>3, <1>4, <1>5, <1>6

\* modifyResponse is through and WriteHeader records what is sent.
LEMMA RespondKeeps ==
    ASSUME GatewayInv, NEW r \in Requests, Respond(r)
    PROVE  GatewayInv'
<1> USE DEF GatewayInv
<1>1. TypeOK'
  <2>1. PICK s \in {200, 403, 500} : WriteHeader(r, s) /\ sent' = [sent EXCEPT ![r] = s]
    BY DEF Respond, Finals
  <2>2. rec' \in [Requests -> {0, 103, 403, 502} \cup Finals]
    BY <2>1 DEF WriteHeader, TypeOK, Finals
  <2>3. sent' \in [Requests -> {0, 403, 404, 429, 502} \cup Finals]
    BY <2>1 DEF TypeOK, Finals
  <2>4. noted' \subseteq Requests
    BY DEF Respond, TypeOK
  <2>5. QED
    BY <2>2, <2>3, <2>4 DEF Respond, TypeOK
<1>2. EntryInv'
  <2>1. \A q \in Requests \ {r} : pc'[q] = pc[q] /\ sent'[q] = sent[q]
    BY DEF Respond, TypeOK
  <2>2. pc[r] \notin Audited
    BY DEF Respond
  <2>3. UNCHANGED <<route, refusal, failure, log, lost>>
    BY DEF Respond
  <2>4. QED
    BY <2>1, <2>2, <2>3, EntriesFramed
<1>3. PathInv'
  BY DEF Respond, WriteHeader, Finals, TypeOK, PathInv, Logged
<1>4. RefusalInv'
  BY DEF Respond, WriteHeader, Finals, TypeOK, PathInv, RefusalInv, StatusInv
<1>5. StatusInv'
  BY DEF Respond, WriteHeader, Finals, TypeOK, StatusInv, RefusalInv
<1>6. StopInv'
  BY DEF Respond, WriteHeader, Finals, TypeOK, StopInv, StopLosesNothing, InFlight
<1>7. QED
  BY <1>1, <1>2, <1>3, <1>4, <1>5, <1>6

\* ErrorHandler after modifyResponse has failed.
LEMMA InspectFailsKeeps ==
    ASSUME GatewayInv, NEW r \in Requests, InspectFails(r)
    PROVE  GatewayInv'
<1> USE DEF GatewayInv
<1>1. TypeOK'
  BY DEF InspectFails, ErrorHandler, WriteHeader, TypeOK, Finals
<1>2. EntryInv'
  <2>1. pc[r] \notin Audited
    BY DEF InspectFails
  <2>2. \A q \in Requests \ {r} : pc'[q] = pc[q] /\ sent'[q] = sent[q]
    BY DEF InspectFails, ErrorHandler, TypeOK
  <2>3. QED
    BY <2>1, <2>2, EntriesFramed DEF InspectFails, ErrorHandler
<1>3. PathInv'
  BY DEF InspectFails, ErrorHandler, WriteHeader, TypeOK, PathInv, Logged
<1>4. RefusalInv'
  BY DEF InspectFails, ErrorHandler, WriteHeader, TypeOK, PathInv, RefusalInv, StatusInv
<1>5. StatusInv'
  BY DEF InspectFails, ErrorHandler, WriteHeader, TypeOK, StatusInv, RefusalInv
<1>6. StopInv'
  BY DEF InspectFails, ErrorHandler, WriteHeader, TypeOK, StopInv, StopLosesNothing,
     InFlight
<1>7. QED
  BY <1>1, <1>2, <1>3, <1>4, <1>5, <1>6

\* The body has been copied.
LEMMA StreamEndsKeeps ==
    ASSUME GatewayInv, NEW r \in Requests, StreamEnds(r)
    PROVE  GatewayInv'
<1> USE DEF GatewayInv
<1>1. TypeOK'
  BY DEF StreamEnds, TypeOK
<1>2. EntryInv'
  BY EntriesFramed DEF StreamEnds, TypeOK
<1>3. PathInv'
  BY DEF StreamEnds, TypeOK, PathInv, Logged
<1>4. RefusalInv'
  BY DEF StreamEnds, TypeOK, PathInv, RefusalInv, StatusInv
<1>5. StatusInv'
  BY DEF StreamEnds, TypeOK, StatusInv, RefusalInv
<1>6. StopInv'
  BY DEF StreamEnds, TypeOK, StopInv, StopLosesNothing, InFlight
<1>7. QED
  BY <1>1, <1>2, <1>3, <1>4, <1>5, <1>6

\* The proxy panics: the handler is gone before its Log.
LEMMA StreamBreaksKeeps ==
    ASSUME GatewayInv, NEW r \in Requests, StreamBreaks(r)
    PROVE  GatewayInv'
<1> USE DEF GatewayInv
<1>1. TypeOK'
  BY DEF StreamBreaks, TypeOK
<1>2. EntryInv'
  BY EntriesFramed DEF StreamBreaks, TypeOK
<1>3. PathInv'
  BY DEF StreamBreaks, TypeOK, PathInv, Logged
<1>4. RefusalInv'
  BY DEF StreamBreaks, TypeOK, PathInv, RefusalInv, StatusInv
<1>5. StatusInv'
  BY DEF StreamBreaks, TypeOK, StatusInv, RefusalInv
<1>6. StopInv'
  BY DEF StreamBreaks, TypeOK, StopInv, StopLosesNothing, InFlight
<1>7. QED
  BY <1>1, <1>2, <1>3, <1>4, <1>5, <1>6

--------------------------------------------------------------------------
(* The steps of main *)

\* A coprocess that hangs touches no request.
LEMMA CoprocessWedgesKeeps ==
    ASSUME GatewayInv, CoprocessWedges
    PROVE  GatewayInv'
BY DEF GatewayInv, CoprocessWedges, requestVars, TypeOK, EntryInv, EntryOK, PathInv,
   Logged, RefusalInv, StatusInv, StopInv, StopLosesNothing, InFlight

\* main: the signal; nothing is closed yet.
LEMMA SignalKeeps ==
    ASSUME GatewayInv, Signal
    PROVE  GatewayInv'
BY DEF GatewayInv, Signal, requestVars, TypeOK, EntryInv, EntryOK, PathInv,
   Logged, RefusalInv, StatusInv, StopInv, StopLosesNothing, InFlight

\* main: ListenAndServe fails, and handlers may still run.
LEMMA ListenFailsKeeps ==
    ASSUME GatewayInv, ListenFails
    PROVE  GatewayInv'
BY DEF GatewayInv, ListenFails, requestVars, TypeOK, EntryInv, EntryOK, PathInv,
   Logged, RefusalInv, StatusInv, StopInv, StopLosesNothing, InFlight

\* main: Shutdown returns, and no handler is left.
LEMMA DrainedKeeps ==
    ASSUME GatewayInv, Drained
    PROVE  GatewayInv'
BY DEF GatewayInv, Drained, requestVars, TypeOK, EntryInv, EntryOK, PathInv,
   Logged, RefusalInv, StatusInv, StopInv, StopLosesNothing, InFlight

\* main: Shutdown gives up on the handlers that are left.
LEMMA DrainExpiresKeeps ==
    ASSUME GatewayInv, DrainExpires
    PROVE  GatewayInv'
BY DEF GatewayInv, DrainExpires, requestVars, TypeOK, EntryInv, EntryOK, PathInv,
   Logged, RefusalInv, StatusInv, StopInv, StopLosesNothing, InFlight

\* main: the deferred gw.Close remembers which of the two it was.
LEMMA CloseGatewayKeeps ==
    ASSUME GatewayInv, CloseGateway
    PROVE  GatewayInv'
BY DEF GatewayInv, CloseGateway, requestVars, TypeOK, EntryInv, EntryOK, PathInv,
   Logged, RefusalInv, StatusInv, StopInv, StopLosesNothing, InFlight

\* main: the deferred auditor.Close.
LEMMA CloseAuditorKeeps ==
    ASSUME GatewayInv, CloseAuditor
    PROVE  GatewayInv'
BY DEF GatewayInv, CloseAuditor, requestVars, TypeOK, EntryInv, EntryOK, PathInv,
   Logged, RefusalInv, StatusInv, StopInv, StopLosesNothing, InFlight

\* main: run() returns.
LEMMA ExitKeeps ==
    ASSUME GatewayInv, Exit
    PROVE  GatewayInv'
BY DEF GatewayInv, Exit, requestVars, TypeOK, EntryInv, EntryOK, PathInv,
   Logged, RefusalInv, StatusInv, StopInv, StopLosesNothing, InFlight

--------------------------------------------------------------------------
(* The invariant *)

\* The invariant holds when the gateway starts.
LEMMA InitInv == Init => GatewayInv
<1> SUFFICES ASSUME Init PROVE GatewayInv
  OBVIOUS
<1>1. TypeOK
  <2>1. log \in Seq(Entry)
    BY DEF Init
  <2>2. /\ pc \in [Requests -> Points] /\ route \in [Requests -> Routes]
        /\ lost \in [Requests -> {"no", "sink", "closed"}]
    BY DEF Init, Points, Routes
  <2>3. /\ refusal \in [Requests -> {0, 403, 404, 429}]
        /\ rec \in [Requests -> {0, 103, 403, 502} \cup Finals]
        /\ sent \in [Requests -> {0, 403, 404, 429, 502} \cup Finals]
    BY DEF Init
  <2>4. QED
    BY <2>1, <2>2, <2>3 DEF Init, TypeOK, Entry, Points
<1>2. log = <<>> /\ DOMAIN log = {}
  BY DEF Init
<1>3. EntryInv
  BY <1>2 DEF EntryInv
<1>4. PathInv /\ RefusalInv /\ StatusInv
  BY DEF Init, PathInv, RefusalInv, StatusInv
<1>5. StopInv
  BY DEF Init, StopInv, StopLosesNothing, InFlight
<1>6. QED
  BY <1>1, <1>3, <1>4, <1>5 DEF GatewayInv

\* Whatever step is taken, of whichever request or of main, the invariant
\* is kept.
LEMMA StepInv == GatewayInv /\ [Next]_vars => GatewayInv'
<1> SUFFICES ASSUME GatewayInv, [Next]_vars PROVE GatewayInv'
  OBVIOUS
<1>1. ASSUME NEW r \in Requests, Handle(r) PROVE GatewayInv'
  BY <1>1, ServeUnauditedKeeps, LookupKeeps, LimitKeeps, LogRefusalKeeps, AnswerRefusalKeeps,
     ConnectKeeps, RoundTripFailsKeeps, AuditKeeps, HandlerReturnsKeeps DEF Handle
<1>2. ASSUME NEW r \in Requests, Peer(r) PROVE GatewayInv'
  BY <1>2, ArriveKeeps, DecideKeeps, BodySentKeeps, SendFailsKeeps, InformKeeps, HeadersComeKeeps,
     RespondKeeps, InspectFailsKeeps, StreamEndsKeeps, StreamBreaksKeeps DEF Peer
<1>3. CASE CoprocessWedges \/ Signal \/ ListenFails \/ Shutdown
  BY <1>3, CoprocessWedgesKeeps, SignalKeeps, ListenFailsKeeps, DrainedKeeps, DrainExpiresKeeps,
     CloseGatewayKeeps, CloseAuditorKeeps, ExitKeeps DEF Shutdown
<1>4. CASE UNCHANGED vars
  BY <1>4 DEF vars, GatewayInv, TypeOK, EntryInv, EntryOK, PathInv, Logged, RefusalInv,
     StatusInv, StopInv, StopLosesNothing, InFlight
<1>5. QED
  BY <1>1, <1>2, <1>3, <1>4 DEF Next, Exited, CloseHangs

\* The inductive invariant holds of every behaviour of handlers, peers, sink
\* and shutdown.
THEOREM GatewayInvHolds == Spec => []GatewayInv
<1>1. Init => GatewayInv
  BY InitInv
<1>2. GatewayInv /\ [Next]_vars => GatewayInv'
  BY StepInv
<1>3. QED
  BY <1>1, <1>2, PTL DEF Spec

--------------------------------------------------------------------------
(* What follows from it *)

\* The state keeps its shape; in particular the statuses recorded and sent
\* are those the code can write.
THEOREM GatewayTypeCorrect == Spec => []TypeOK
<1>1. GatewayInv => TypeOK
  BY DEF GatewayInv
<1>2. QED
  BY <1>1, GatewayInvHolds, PTL

\* The entries of a request that has one are one.
LEMMA EntriesCount ==
    ASSUME GatewayInv, NEW r \in Requests
    PROVE  \/ Logged(r) /\ ~Lost(r) /\ Proxied(r) /\ Cardinality(Entries(r)) = 1
           \/ ~Logged(r) /\ Entries(r) = {} /\ Cardinality(Entries(r)) = 0
<1>1. CASE Logged(r)
  <2>1. PICK i \in DOMAIN log : log[i].req = r
    BY <1>1 DEF Logged
  <2>2. EntryOK(i)
    BY DEF GatewayInv, EntryInv
  <2>3. Entries(r) = {i}
    BY <2>1, <2>2 DEF EntryOK, Entries
  <2>4. QED
    BY <1>1, <2>1, <2>2, <2>3, FS_Singleton DEF EntryOK
<1>2. CASE ~Logged(r)
  <2>1. Entries(r) = {}
    BY <1>2 DEF Logged, Entries
  <2>2. QED
    BY <1>2, <2>1, FS_EmptySet
<1>3. QED
  BY <1>1, <1>2

\* One Entry per handled /mcp request, however many handlers interleave and
\* whenever the sink refuses a write (handleProxy).
THEOREM OneEntryEachHolds == Spec => []OneEntryEach
<1>1. ASSUME GatewayInv PROVE OneEntryEach
  <2>1. ASSUME NEW r \in Requests
        PROVE  /\ Cardinality(Entries(r)) + (IF Lost(r) THEN 1 ELSE 0) <= 1
               /\ (Proxied(r) /\ pc[r] \in {"return", "answer", "done"}) =>
                      Cardinality(Entries(r)) + (IF Lost(r) THEN 1 ELSE 0) = 1
               /\ ~Proxied(r) => Entries(r) = {} /\ ~Lost(r)
    <3>1. /\ Lost(r) => Proxied(r)
          /\ (Proxied(r) /\ pc[r] \in {"return", "answer", "done"}) => Lost(r) \/ Logged(r)
      BY <1>1 DEF GatewayInv, PathInv
    <3>2. QED
      BY <1>1, <3>1, EntriesCount
  <2>2. QED
    BY <2>1 DEF OneEntryEach
<1>2. QED
  BY <1>1, GatewayInvHolds, PTL

\* A refused request never reaches an upstream and is in the log before the
\* client is told (handleProxy, the three refusals).
THEOREM RefusedIsContainedHolds == Spec => []RefusedIsContained
<1>1. ASSUME GatewayInv PROVE RefusedIsContained
  <2>1. ASSUME NEW r \in Requests, refusal[r] # 0
        PROVE  /\ r \notin forwarded
               /\ sent[r] # 0 =>
                     \/ Lost(r)
                     \/ \E i \in Entries(r) : log[i].status = sent[r] /\ log[i].error
    <3>1. /\ r \notin forwarded /\ Proxied(r)
          /\ sent[r] # 0 => pc[r] = "done" /\ sent[r] = refusal[r]
      BY <1>1, <2>1 DEF GatewayInv, RefusalInv
    <3>2. ASSUME sent[r] # 0, ~Lost(r)
          PROVE  \E i \in Entries(r) : log[i].status = sent[r] /\ log[i].error
      <4>1. PICK i \in DOMAIN log : log[i].req = r
        BY <1>1, <3>1, <3>2 DEF GatewayInv, PathInv, Logged
      <4>2. EntryOK(i)
        BY <1>1 DEF GatewayInv, EntryInv
      <4>3. log[i].status = refusal[r] /\ log[i].error = TRUE
        BY <2>1, <4>1, <4>2 DEF EntryOK
      <4>4. QED
        BY <3>1, <3>2, <4>1, <4>3 DEF Entries
    <3>3. QED
      BY <3>1, <3>2
  <2>2. QED
    BY <2>1 DEF RefusedIsContained
<1>2. QED
  BY <1>1, GatewayInvHolds, PTL

\* The status of an entry is the one the client was sent, or a 103 that came
\* before it, and a failed exchange is logged as failed (countingWriter,
\* ErrorHandler and the end of handleProxy).
THEOREM EntryIsTrueHolds == Spec => []EntryIsTrue
<1>1. ASSUME GatewayInv PROVE EntryIsTrue
  <2>1. ASSUME NEW i \in DOMAIN log, NEW r, r = log[i].req
        PROVE  /\ pc[r] = "done" => log[i].status \in {sent[r], 103}
               /\ (r \in failure \/ sent[r] = 502) => log[i].error
    <3>1. r \in Requests
      BY <1>1, <2>1, LogType DEF GatewayInv
    <3>2. EntryOK(i)
      BY <1>1 DEF GatewayInv, EntryInv
    <3>3. pc[r] = "done" /\ refusal[r] # 0 => sent[r] = refusal[r]
      BY <1>1, <3>1 DEF GatewayInv, RefusalInv
    <3>4. sent[r] = 502 => r \in failure
      BY <1>1, <3>1 DEF GatewayInv, StatusInv
    <3>5. QED
      BY <2>1, <3>2, <3>3, <3>4 DEF EntryOK
  <2>2. QED
    BY <2>1 DEF EntryIsTrue
<1>2. QED
  BY <1>1, GatewayInvHolds, PTL

\* No entry meets a closed auditor after an orderly stop (main: the order of
\* Shutdown and the deferred Closes).
THEOREM StopLosesNothingHolds == Spec => []StopLosesNothing
<1>1. GatewayInv => StopLosesNothing
  BY DEF GatewayInv, StopInv
<1>2. QED
  BY <1>1, GatewayInvHolds, PTL

--------------------------------------------------------------------------
(* The trail *)

Trailed == [i \in DOMAIN log |-> log[i].req]
Departed == {r \in Requests : Lost(r) \/ pc[r] = "aborted"}

\* An entry written is an entry recorded, in the trail, and an entry lost is
\* lost: of a request that has neither yet.
LEMMA WritesTrail ==
    ASSUME GatewayInv, NEW r \in Requests, pc[r] \in {"refuse", "audit"},
           NEW e \in Entry, e.req = r, Writes(e),
           NEW to \in Audited, Goto(r, to)
    PROVE  Trail!Next
<1>0. TypeOK /\ log \in Seq(Entry) /\ \A i \in DOMAIN log : log[i].req \in Requests
  BY LogType DEF GatewayInv
<1>1. r \in Trail!Undecided
  <2>1. ~Lost(r) /\ pc[r] # "aborted"
    BY DEF GatewayInv, PathInv
  <2>2. \A i \in DOMAIN log : log[i].req # r
    BY DEF GatewayInv, EntryInv, EntryOK
  <2>3. QED
    BY <2>1, <2>2 DEF Trail!Undecided, Trail!ToSet
<1>2. /\ pc'[r] # "aborted"
      /\ \A q \in Requests : q # r => (pc'[q] = "aborted" <=> pc[q] = "aborted")
  BY <1>0 DEF TypeOK
<1>3. CASE log' = Append(log, e) /\ UNCHANGED lost
  <2>1. Departed' = Departed
    BY <1>2, <1>3 DEF Departed
  <2>2. Trailed' = Append(Trailed, r)
    BY <1>0, <1>3 DEF Trailed
  <2>3. Trail!Record(r)
    BY <2>1, <2>2 DEF Trail!Record, Trailed, Departed
  <2>4. QED
    BY <1>1, <2>3 DEF Trail!Next
<1>4. CASE UNCHANGED log /\ \E why \in {"sink", "closed"} : lost' = [lost EXCEPT ![r] = why]
  <2>1. Departed' = Departed \cup {r}
    BY <1>0, <1>2, <1>4 DEF Departed, TypeOK
  <2>2. Trailed' = Trailed
    BY <1>4 DEF Trailed
  <2>3. Trail!Lose({r})
    BY <2>1, <2>2 DEF Trail!Lose, Trailed, Departed
  <2>4. QED
    BY <1>1, <2>3 DEF Trail!Next
<1>5. QED
  BY <1>3, <1>4 DEF Writes

\* A step that writes no entry and aborts no stream leaves the trail alone.
LEMMA QuietTrail ==
    ASSUME TypeOK, UNCHANGED <<log, lost>>,
           \A q \in Requests : pc'[q] = "aborted" <=> pc[q] = "aborted"
    PROVE  UNCHANGED Trail!vars
BY DEF Trail!vars

\* Every step of the gateway is a step of the trail or leaves it alone.
LEMMA TrailStep == GatewayInv /\ [Next]_vars => [Trail!Next]_Trail!vars
<1> SUFFICES ASSUME GatewayInv, [Next]_vars PROVE [Trail!Next]_Trail!vars
  OBVIOUS
<1>0. TypeOK
  BY DEF GatewayInv
<1>1. ASSUME NEW r \in Requests, LogRefusal(r) PROVE Trail!Next
  <2>1. PICK e \in Entry : e.req = r /\ Writes(e)
    BY <1>1, RefusalEntry
  <2>2. pc[r] \in {"refuse", "audit"} /\ Goto(r, "answer")
    BY <1>1 DEF LogRefusal
  <2>3. QED
    BY <2>1, <2>2, WritesTrail
<1>2. ASSUME NEW r \in Requests, Audit(r) PROVE Trail!Next
  <2>1. PICK e \in Entry : e.req = r /\ Writes(e)
    BY <1>2, FinalEntry
  <2>2. pc[r] \in {"refuse", "audit"} /\ Goto(r, "return")
    BY <1>2 DEF Audit
  <2>3. QED
    BY <2>1, <2>2, WritesTrail
<1>3. ASSUME NEW r \in Requests, StreamBreaks(r) PROVE Trail!Next
  <2>1. r \in Trail!Undecided
    <3>1. ~Lost(r) /\ pc[r] # "aborted"
      BY <1>3 DEF GatewayInv, PathInv, StreamBreaks
    <3>2. \A i \in DOMAIN log : log[i].req # r
      BY <1>3 DEF GatewayInv, EntryInv, EntryOK, StreamBreaks
    <3>3. QED
      BY <3>1, <3>2 DEF Trail!Undecided, Trail!ToSet
  <2>2. Departed' = Departed \cup {r}
    BY <1>0, <1>3 DEF Departed, StreamBreaks, TypeOK
  <2>3. Trail!Lose({r})
    BY <1>3, <2>2 DEF Trail!Lose, Departed, StreamBreaks
  <2>4. QED
    BY <2>1, <2>3 DEF Trail!Next
<1>4. ASSUME NEW r \in Requests,
             Handle(r) \/ Peer(r), ~LogRefusal(r), ~Audit(r), ~StreamBreaks(r)
      PROVE  UNCHANGED Trail!vars
  <2>1. ASSUME NEW to, to # "aborted", pc[r] # "aborted", Goto(r, to), UNCHANGED <<log, lost>>
        PROVE  UNCHANGED Trail!vars
    BY <1>0, <2>1, QuietTrail DEF TypeOK
  <2>2. CASE ServeUnaudited(r)
    BY <2>1, <2>2 DEF ServeUnaudited
  <2>3. CASE Lookup(r)
    BY <2>1, <2>3 DEF Lookup, Refuse
  <2>4. CASE Limit(r)
    BY <2>1, <2>4 DEF Limit, Refuse
  <2>5. CASE AnswerRefusal(r)
    BY <2>1, <2>5 DEF AnswerRefusal
  <2>6. CASE Connect(r)
    BY <2>1, <2>6 DEF Connect
  <2>7. CASE RoundTripFails(r)
    BY <2>1, <2>7 DEF RoundTripFails, ErrorHandler
  <2>8. CASE HandlerReturns(r)
    BY <2>1, <2>8 DEF HandlerReturns
  <2>9. CASE Arrive(r)
    BY <2>1, <2>9 DEF Arrive
  <2>10. CASE Decide(r)
    BY <2>1, <2>10 DEF Decide, Refuse
  <2>11. CASE Inform(r)
    BY <1>0, <2>11, QuietTrail DEF Inform
  <2>12. CASE HeadersCome(r)
    BY <2>1, <2>12 DEF HeadersCome
  <2>13. CASE Respond(r)
    BY <2>1, <2>13 DEF Respond
  <2>14. CASE InspectFails(r)
    BY <2>1, <2>14 DEF InspectFails, ErrorHandler
  <2>15. CASE StreamEnds(r)
    BY <2>1, <2>15 DEF StreamEnds
  <2>16. CASE BodySent(r)
    BY <2>1, <2>16 DEF BodySent
  <2>17. CASE SendFails(r)
    BY <2>1, <2>17 DEF SendFails, ErrorHandler
  <2>18. QED
    BY <1>4, <2>2, <2>3, <2>4, <2>5, <2>6, <2>7, <2>8, <2>9, <2>10,
       <2>11, <2>12, <2>13, <2>14, <2>15, <2>16, <2>17 DEF Handle, Peer
<1>5. CASE CoprocessWedges \/ Signal \/ ListenFails \/ Shutdown
  <2>1. UNCHANGED requestVars
    BY <1>5 DEF CoprocessWedges, Signal, ListenFails, Shutdown, Drained, DrainExpires,
       CloseGateway, CloseAuditor, Exit
  <2>2. QED
    BY <1>0, <2>1, QuietTrail DEF requestVars
<1>6. CASE UNCHANGED vars
  BY <1>0, <1>6, QuietTrail DEF vars
<1>7. QED
  BY <1>1, <1>2, <1>3, <1>4, <1>5, <1>6 DEF Next, Exited, CloseHangs

\* The handlers together implement the audit trail of Ledger: the two calls
\* of Log record or lose an entry of a request that has none, an abort gives
\* one up, and no other step touches the trail.
THEOREM GatewayKeepsTrail == Spec => LedgerSpec
<1>1. Init => Trail!Init
  <2> SUFFICES ASSUME Init PROVE Trail!Init
    OBVIOUS
  <2>1. Departed = {}
    BY DEF Init, Departed
  <2>2. Trailed = <<>>
    BY DEF Init, Trailed
  <2>3. QED
    BY <2>1, <2>2 DEF Trail!Init, Trailed, Departed
<1>2. GatewayInv /\ [Next]_vars => [Trail!Next]_Trail!vars
  BY TrailStep
<1>3. QED
  BY <1>1, <1>2, GatewayInvHolds, PTL DEF Spec, LedgerSpec, Trail!Spec

==========================================================================
