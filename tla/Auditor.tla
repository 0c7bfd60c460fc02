----------------------------- MODULE Auditor -----------------------------
(***************************************************************************)
(* The audit log as a file of lines (gateway/audit.go): handlers that call *)
(* Log at the same time, a sink that takes half of a line and then fails,  *)
(* Close, and a process that dies and is started again on the same file.   *)
(*                                                                         *)
(* A line is written in two halves; the second one ends with the newline.  *)
(* os.File.Write goes on after a short write, so both halves are written   *)
(* or an error is returned; only another process, or the end of this one,  *)
(* sees the file in between.  The sink may also be stdout, which Close     *)
(* leaves alone.  An entry is <<handler, n>>, the n-th call of a handler;  *)
(* what is in it is no concern here, and marshalling it never fails.       *)
(***************************************************************************)
EXTENDS Naturals, Sequences, FiniteSets, SequencesExt

CONSTANTS
    Handlers,       \* goroutines that call Log
    MaxLogs,        \* bound: calls of Log by one handler
    MaxRestarts,    \* bound: how often the process is started again
    Free            \* nobody holds the mutex

ASSUME AuditorAssumption ==
    /\ IsFiniteSet(Handlers) /\ Free \notin Handlers
    /\ MaxLogs \in Nat /\ MaxRestarts \in Nat

VARIABLES
    sink,       \* what the file holds: halves of lines
    pc,         \* handler -> where its Log is
    n,          \* handler -> how many calls it has made
    part,       \* handler -> the half it writes next
    mu,         \* a.mu
    failed,     \* a.failed
    backed,     \* the auditor has a closer: the sink is a file
    open,       \* the file is open
    up,         \* the process runs
    starts,     \* how often it was started again
    taken       \* entries for which Write returned no error

handlerVars == <<pc, n, part>>
auditorVars == <<mu, failed>>
processVars == <<backed, open, up, starts>>
vars == <<sink, pc, n, part, mu, failed, backed, open, up, starts, taken>>

Entry(h) == <<h, n[h]>>

Entries == Handlers \X (1..MaxLogs)

Goto(h, where) == pc' = [pc EXCEPT ![h] = where]

\* NewAuditor: stdout, or a file that is opened for appending.
Init ==
    /\ sink = <<>>
    /\ pc = [h \in Handlers |-> "idle"]
    /\ n = [h \in Handlers |-> 0]
    /\ part = [h \in Handlers |-> 1]
    /\ mu = Free /\ failed = FALSE
    /\ backed \in BOOLEAN /\ open = TRUE /\ up = TRUE /\ starts = 0
    /\ taken = {}

--------------------------------------------------------------------------
(* Log *)

\* Log is called; the entry is marshalled.
Log(h) ==
    /\ up /\ pc[h] = "idle" /\ n[h] < MaxLogs
    /\ n' = [n EXCEPT ![h] = @ + 1]
    /\ part' = [part EXCEPT ![h] = 1]
    /\ Goto(h, "lock")
    /\ UNCHANGED <<sink, auditorVars, processVars, taken>>

\* Log that writes without the mutex (a mutant).
LockNever(h) ==
    /\ pc[h] = "lock"
    /\ Goto(h, "write")
    /\ UNCHANGED <<sink, n, part, auditorVars, processVars, taken>>

Lock(h) ==
    /\ pc[h] = "lock" /\ mu = Free
    /\ mu' = h
    /\ Goto(h, "write")
    /\ UNCHANGED <<sink, n, part, failed, processVars, taken>>

\* The sink takes the next half; after the second one Write returns and the
\* mutex is released.  A Close that comes during Write does not stop it.
WritePart(h) ==
    /\ pc[h] = "write" /\ (open \/ part[h] = 2)
    /\ sink' = Append(sink, [of |-> Entry(h), half |-> part[h]])
    /\ \/ /\ part[h] = 1
          /\ part' = [part EXCEPT ![h] = 2]
          /\ UNCHANGED <<pc, mu, taken>>
       \/ /\ part[h] = 2
          /\ taken' = taken \cup {Entry(h)}
          /\ mu' = Free
          /\ Goto(h, "idle")
          /\ UNCHANGED part
    /\ UNCHANGED <<n, failed, processVars>>

\* The error path without the unlock (a mutant).
WriteFailsLocked(h) ==
    /\ pc[h] = "write"
    /\ Goto(h, "report")
    /\ UNCHANGED <<sink, n, part, auditorVars, processVars, taken>>

\* The sink takes no more, or the file is closed: Write returns an error.
WriteFails(h) ==
    /\ pc[h] = "write"
    /\ mu' = Free
    /\ Goto(h, "report")
    /\ UNCHANGED <<sink, n, part, failed, processVars, taken>>

\* reportFailure, which holds the mutex while it looks at a.failed.
reportFailure(h) ==
    /\ pc[h] = "report" /\ mu = Free
    /\ failed' = TRUE
    /\ Goto(h, "idle")
    /\ UNCHANGED <<sink, n, part, mu, processVars, taken>>

--------------------------------------------------------------------------
(* The process *)

\* Close, which does not take a.mu.
Close ==
    /\ up /\ backed /\ open
    /\ open' = FALSE
    /\ UNCHANGED <<sink, handlerVars, auditorVars, backed, up, starts, taken>>

\* The process ends, in an orderly way or not, and with it every handler.
Die ==
    /\ up
    /\ up' = FALSE
    /\ pc' = [h \in Handlers |-> "idle"]
    /\ mu' = Free
    /\ UNCHANGED <<sink, n, part, failed, backed, open, starts, taken>>

Fresh == /\ failed' = FALSE
         /\ open' = TRUE /\ up' = TRUE /\ starts' = starts + 1

\* A file opened with O_TRUNC in place of O_APPEND (a mutant).
NewAuditorTruncates ==
    /\ ~up /\ starts < MaxRestarts
    /\ Fresh
    /\ sink' = <<>>
    /\ UNCHANGED <<handlerVars, mu, backed, taken>>

\* The program is started again: NewAuditor appends to the same file.
NewAuditor ==
    /\ ~up /\ starts < MaxRestarts
    /\ Fresh
    /\ UNCHANGED <<sink, handlerVars, mu, backed, taken>>

LogStep(h) == Lock(h) \/ WritePart(h) \/ WriteFails(h) \/ reportFailure(h)

Over == (~up \/ \A h \in Handlers : pc[h] = "idle" /\ n[h] = MaxLogs) /\ UNCHANGED vars

Next ==
    \/ \E h \in Handlers : Log(h) \/ LogStep(h)
    \/ Close \/ Die \/ NewAuditor \/ Over

Spec == Init /\ [][Next]_vars

\* Handlers run, the sink takes or refuses what it is given (a pipe nobody
\* reads does neither), and a sync.Mutex starves nobody.
Fairness ==
    \A h \in Handlers :
        /\ WF_vars(LogStep(h))
        /\ SF_vars(Lock(h)) /\ SF_vars(reportFailure(h))

FairSpec == Spec /\ Fairness

--------------------------------------------------------------------------
(* What a reader of the file finds *)

\* Positions i and i + 1 are a line that holds one entry and nothing else.
LineAt(i) ==
    /\ sink[i].half = 1
    /\ i < Len(sink) /\ sink[i + 1] = [of |-> sink[i].of, half |-> 2]
    /\ i = 1 \/ sink[i - 1].half = 2

\* Where the lines begin that a JSON reader accepts, and the k-th of them.
Lines == {i \in DOMAIN sink : LineAt(i)}

Rank(i) == Cardinality({j \in Lines : j <= i})

Nth(k) == CHOOSE i \in Lines : Rank(i) = k

\* The entries of those lines, in order.
Readable == [k \in 1..Cardinality(Lines) |-> sink[Nth(k)].of]

\* The entries under way, and those that were submitted.
Pending == {Entry(h) : h \in {g \in Handlers : pc[g] \in {"lock", "write"}}}

Submitted == UNION {{<<h, i>> : i \in 1..n[h]} : h \in Handlers}

Trail == INSTANCE Ledger WITH
            Items <- Entries,
            recorded <- Readable,
            gone <- Submitted \ (Pending \cup ToSet(Readable))

--------------------------------------------------------------------------
(* Properties *)

\* The shape of the state; the mutex is held exactly while a line is written.
TypeOK ==
    /\ sink \in Seq([of : Entries, half : {1, 2}])
    /\ pc \in [Handlers -> {"idle", "lock", "write", "report"}]
    /\ n \in [Handlers -> 0..MaxLogs] /\ part \in [Handlers -> {1, 2}]
    /\ mu \in Handlers \cup {Free}
    /\ \A h \in Handlers : mu = h <=> pc[h] = "write"
    /\ failed \in BOOLEAN
    /\ backed \in BOOLEAN /\ open \in BOOLEAN /\ up \in BOOLEAN
    /\ starts \in 0..MaxRestarts /\ taken \subseteq Entries

\* The trail is append-only and keeps an entry once, over short writes,
\* failures, Close, the death of the process and a new start: a line that
\* can be read stays, and an entry that was given up never turns up later
\* (Log, NewAuditor).
LedgerSpec == Trail!Spec

\* Entries of which the file holds a first half and nothing more.
Torn == {e \in Submitted \ (Pending \cup taken) : \E i \in DOMAIN sink : sink[i].of = e}

\* An entry that the sink took whole can be read, unless it was appended to
\* a torn line; a torn line spoils one entry at most, and lines never mix
\* in any other way, however many handlers log at once (Log, "safe for
\* concurrent use").
TornSpoilsOne ==
    Cardinality(taken \ ToSet(Readable)) <= Cardinality(Torn)

\* A broken sink never holds a request up: every call of Log returns, or
\* ends with the process (Log releases the mutex on every path).
LogReturns == \A h \in Handlers : (pc[h] # "idle") ~> (pc[h] = "idle")
==========================================================================
