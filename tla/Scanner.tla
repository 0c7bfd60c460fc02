----------------------------- MODULE Scanner -----------------------------
(***************************************************************************)
(* The promptproof scanner of one upstream (gateway/promptproof.go): a     *)
(* channel of coprocess slots (ppProc) that request handlers check out,    *)
(* the I/O goroutine each scan starts, the coprocess at the other end of   *)
(* the pipes, and Close.                                                   *)
(*                                                                         *)
(* A slot is "ppProc"; every "promptproof serve" process started for it is *)
(* one spawn, numbered in the order they start.  The parent's ends of the  *)
(* two pipes belong to the spawn: a goroutine that captured them keeps     *)
(* talking to that spawn whatever happens to the slot.  The text scanned   *)
(* is reduced to its identity <<caller, n>>, the n-th scan of the caller,  *)
(* and an answer to the text it is about, so that "the verdict is the one  *)
(* of my text" can be said.  Verdict arithmetic is in ResponseFilter.      *)
(***************************************************************************)
EXTENDS Naturals, Sequences, FiniteSets

CONSTANTS
    Callers,        \* handler goroutines that scan
    Slots,          \* the ppProc values: as many as the largest pool holds
    Sizes,          \* the sizes a pool may be configured with
    MaxScans,       \* bound: caller -> how often it scans
    MaxSpawns,      \* bound: coprocesses started
    Closes,         \* whether Close is ever called
    Nobody,         \* no slot
    Nothing         \* no result in the channel

ASSUME ScannerAssumption ==
    /\ IsFiniteSet(Slots) /\ Slots # {}
    /\ MaxScans \in [Callers -> Nat]
    /\ MaxSpawns \in Nat
    /\ Cardinality(Slots) <= MaxSpawns
    /\ Sizes \subseteq 1..Cardinality(Slots)
    /\ Closes \in BOOLEAN
    /\ Nobody \notin Slots
    /\ (Slots \cup {Nobody}) \cap {"before", "drain", "done"} = {}

VARIABLES
    pool,       \* slots in the channel s.pool
    retired,    \* slots that were shut down, or never made
    run,        \* slot -> the spawn it runs, 0 for cmd == nil
    spawned,    \* how many coprocesses were started
    up,         \* spawn -> "fresh" (not started), "live", "wedged" or "gone"
    open,       \* spawns whose pipes the parent has not closed
    inbox,      \* spawn -> frames written and not yet scanned
    outbox,     \* spawn -> answer lines not yet read
    pc,         \* caller -> where its Scan is
    held,       \* caller -> the slot it checked out
    scan,       \* caller -> how many scans it has started
    gos,        \* the I/O goroutines that have not finished
    chan,       \* caller -> what its scan's channel holds
    result,     \* caller -> what its last Scan returned
    closed,     \* s.closed
    closer      \* where Close is: "before", "drain", a slot, or "done"

slotVars == <<pool, retired, run>>
procVars == <<spawned, up, open, inbox, outbox>>
callVars == <<pc, held, scan, gos, chan, result>>
vars == <<pool, retired, run, spawned, up, open, inbox, outbox,
          pc, held, scan, gos, chan, result, closed, closer>>

Spawns == 1..MaxSpawns

Text(c) == <<c, scan[c]>>

Failed == [ok |-> FALSE, of |-> Nothing]

--------------------------------------------------------------------------

\* The slots in the order newScanner makes them.
Number == CHOOSE f \in [Slots -> 1..Cardinality(Slots)] :
              \A p, q \in Slots : f[p] = f[q] => p = q

\* newScanner: the pool has the configured size, and every slot of it is
\* started before the scanner is handed out.  Slots beyond the size count as
\* retired.
Init ==
    \E size \in Sizes :
        /\ pool = {p \in Slots : Number[p] <= size}
        /\ retired = Slots \ pool
        /\ run = [p \in Slots |-> IF Number[p] <= size THEN Number[p] ELSE 0]
        /\ spawned = size
        /\ up = [i \in Spawns |-> IF i <= size THEN "live" ELSE "fresh"]
        /\ open = 1..size
        /\ inbox = [i \in Spawns |-> <<>>]
        /\ outbox = [i \in Spawns |-> <<>>]
        /\ pc = [c \in Callers |-> "idle"]
        /\ held = [c \in Callers |-> Nobody]
        /\ scan = [c \in Callers |-> 0]
        /\ gos = {}
        /\ chan = [c \in Callers |-> Nothing]
        /\ result = [c \in Callers |-> Nothing]
        /\ closed = FALSE
        /\ closer = "before"

--------------------------------------------------------------------------
(* Scan, up to the start of the I/O goroutine *)

\* The handler calls Scan and waits on the pool.
Call(c) ==
    /\ pc[c] = "idle" /\ scan[c] < MaxScans[c]
    /\ pc' = [pc EXCEPT ![c] = "wait"]
    /\ scan' = [scan EXCEPT ![c] = @ + 1]
    /\ result' = [result EXCEPT ![c] = Nothing]
    /\ UNCHANGED <<slotVars, procVars, held, gos, chan, closed, closer>>

\* p := <-s.pool
Acquire(c) ==
    /\ pc[c] = "wait"
    /\ \E p \in pool :
          /\ pool' = pool \ {p}
          /\ held' = [held EXCEPT ![c] = p]
    /\ pc' = [pc EXCEPT ![c] = "ensure"]
    /\ UNCHANGED <<retired, run, procVars, scan, gos, chan, result, closed, closer>>

\* go func() {...}() with the handles of spawn i captured
Go(c, i) ==
    /\ gos' = gos \cup {[text |-> Text(c), spawn |-> i, at |-> "write"]}
    /\ chan' = [chan EXCEPT ![c] = Nothing]
    /\ pc' = [pc EXCEPT ![c] = "select"]

\* ensure() finds the coprocess running, as far as the slot knows.
EnsureRunning(c) ==
    /\ pc[c] = "ensure" /\ run[held[c]] # 0
    /\ Go(c, run[held[c]])
    /\ UNCHANGED <<slotVars, procVars, held, scan, result, closed, closer>>

\* ensure() starts a new coprocess.
EnsureSpawn(c) ==
    /\ pc[c] = "ensure" /\ run[held[c]] = 0
    /\ spawned < MaxSpawns
    /\ spawned' = spawned + 1
    /\ run' = [run EXCEPT ![held[c]] = spawned + 1]
    /\ up' = [up EXCEPT ![spawned + 1] = "live"]
    /\ open' = open \cup {spawned + 1}
    /\ Go(c, spawned + 1)
    /\ UNCHANGED <<pool, retired, inbox, outbox, held, scan, result, closed, closer>>

\* ensure() cannot start it: Scan returns the error.
EnsureFail(c) ==
    /\ pc[c] = "ensure" /\ run[held[c]] = 0
    /\ result' = [result EXCEPT ![c] = Failed]
    /\ pc' = [pc EXCEPT ![c] = "check"]
    /\ UNCHANGED <<slotVars, procVars, held, scan, gos, chan, closed, closer>>

--------------------------------------------------------------------------
(* The I/O goroutine.  Its result goes to a channel of its own scan, which *)
(* has room for it; after a timeout nobody reads it.                       *)

\* The spawn a goroutine talks to: the one whose handles it captured.
Handle(g) == g.spawn

Awaited(g) == pc[g.text[1]] = "select" /\ g.text = Text(g.text[1])

Finish(g, r) ==
    /\ gos' = gos \ {g}
    /\ chan' = IF Awaited(g) THEN [chan EXCEPT ![g.text[1]] = r] ELSE chan

\* Both writes succeed: the pipe is open and the reader is there (a wedged
\* process does not read, but the pipe may have room).
GoWrite(g) ==
    /\ g.at = "write"
    /\ Handle(g) \in open /\ up[Handle(g)] \in {"live", "wedged"}
    /\ inbox' = [inbox EXCEPT ![Handle(g)] = Append(@, g.text)]
    /\ gos' = (gos \ {g}) \cup {[g EXCEPT !.at = "read"]}
    /\ UNCHANGED <<slotVars, spawned, up, open, outbox, pc, held, scan, chan, result, closed, closer>>

\* ReadString gets a line.
GoRead(g) ==
    /\ g.at = "read"
    /\ Handle(g) \in open /\ outbox[Handle(g)] # <<>>
    /\ Finish(g, Head(outbox[Handle(g)]))
    /\ outbox' = [outbox EXCEPT ![Handle(g)] = Tail(@)]
    /\ UNCHANGED <<slotVars, spawned, up, open, inbox, pc, held, scan, result, closed, closer>>

\* A write or a read fails: the pipe was closed under it or the process died.
GoFail(g) ==
    /\ \/ Handle(g) \notin open
       \/ up[Handle(g)] = "gone" /\ (g.at = "write" \/ outbox[Handle(g)] = <<>>)
    /\ Finish(g, Failed)
    /\ UNCHANGED <<slotVars, procVars, pc, held, scan, result, closed, closer>>

--------------------------------------------------------------------------
(* Scan, from the select on *)

\* The parent's ends of the pipes of spawn i are closed: nobody can read what
\* is still in them.
ClosePipes(i) ==
    /\ open' = open \ {i}
    /\ inbox' = IF i = 0 THEN inbox ELSE [inbox EXCEPT ![i] = <<>>]
    /\ outbox' = IF i = 0 THEN outbox ELSE [outbox EXCEPT ![i] = <<>>]

\* kill() that forgets the process (a mutant).
KillNoReap(p) ==
    /\ ClosePipes(run[p])
    /\ run' = [run EXCEPT ![p] = 0]
    /\ UNCHANGED up

\* p.kill(): close both pipes, kill and reap, mark the slot for a respawn.
Kill(p) ==
    /\ ClosePipes(run[p])
    /\ up' = IF run[p] = 0 THEN up ELSE [up EXCEPT ![run[p]] = "gone"]
    /\ run' = [run EXCEPT ![p] = 0]

\* The goroutine reported an I/O error.
ScanFailed(c) ==
    /\ pc[c] = "select" /\ chan[c] = Failed
    /\ Kill(held[c])
    /\ result' = [result EXCEPT ![c] = Failed]
    /\ chan' = [chan EXCEPT ![c] = Nothing]
    /\ pc' = [pc EXCEPT ![c] = "check"]
    /\ UNCHANGED <<pool, retired, spawned, held, scan, gos, closed, closer>>

\* The goroutine read a line.  parseReport may reject it; the coprocess is
\* kept either way.
ScanAnswered(c) ==
    /\ pc[c] = "select" /\ chan[c] # Nothing /\ chan[c].ok
    /\ \E parses \in BOOLEAN :
          result' = [result EXCEPT ![c] = IF parses THEN chan[c] ELSE Failed]
    /\ chan' = [chan EXCEPT ![c] = Nothing]
    /\ pc' = [pc EXCEPT ![c] = "check"]
    /\ UNCHANGED <<slotVars, procVars, held, scan, gos, closed, closer>>

\* A timeout that reports the error and keeps the coprocess (a mutant).
ScanTimeoutKeeps(c) ==
    /\ pc[c] = "select"
    /\ result' = [result EXCEPT ![c] = Failed]
    /\ chan' = [chan EXCEPT ![c] = Nothing]
    /\ pc' = [pc EXCEPT ![c] = "check"]
    /\ UNCHANGED <<slotVars, procVars, held, scan, gos, closed, closer>>

\* select without the time.After case (a mutant).
ScanTimeoutNever(c) == pc[c] = "select" /\ FALSE /\ UNCHANGED vars

\* time.After fires first, or together with an answer.
ScanTimeout(c) ==
    /\ pc[c] = "select"
    /\ Kill(held[c])
    /\ result' = [result EXCEPT ![c] = Failed]
    /\ chan' = [chan EXCEPT ![c] = Nothing]
    /\ pc' = [pc EXCEPT ![c] = "check"]
    /\ UNCHANGED <<pool, retired, spawned, held, scan, gos, closed, closer>>

\* closed is read under s.mu and used after the unlock.
ReadClosed(c) ==
    /\ pc[c] = "check"
    /\ pc' = [pc EXCEPT ![c] = IF closed THEN "reap" ELSE "put"]
    /\ UNCHANGED <<slotVars, procVars, held, scan, gos, chan, result, closed, closer>>

Return(c) ==
    /\ held' = [held EXCEPT ![c] = Nobody]
    /\ pc' = [pc EXCEPT ![c] = "idle"]
    /\ UNCHANGED <<scan, gos, chan, result, closed, closer>>

\* s.pool <- p
Put(c) ==
    /\ pc[c] = "put"
    /\ pool' = pool \cup {held[c]}
    /\ Return(c)
    /\ UNCHANGED <<retired, run, procVars>>

\* p.shutdown(): stdin is closed, "serve" exits on EOF, and Wait reaps it.
\* Wait never returns for a wedged process.
Shutdown(p) ==
    /\ run[p] # 0 => up[run[p]] # "wedged"
    /\ ClosePipes(run[p])
    /\ up' = IF run[p] = 0 THEN up ELSE [up EXCEPT ![run[p]] = "gone"]
    /\ run' = [run EXCEPT ![p] = 0]
    /\ retired' = retired \cup {p}

\* Scan after Close: the slot is shut down and also put back (a mutant).
ReapAndPut(c) ==
    /\ pc[c] = "reap"
    /\ Shutdown(held[c])
    /\ pool' = pool \cup {held[c]}
    /\ Return(c)
    /\ UNCHANGED spawned

Reap(c) ==
    /\ pc[c] = "reap"
    /\ Shutdown(held[c])
    /\ Return(c)
    /\ UNCHANGED <<pool, spawned>>

--------------------------------------------------------------------------
(* Close *)

CloseMark ==
    /\ Closes /\ closer = "before"
    /\ closed' = TRUE
    /\ closer' = "drain"
    /\ UNCHANGED <<slotVars, procVars, callVars>>

CloseTake ==
    /\ closer = "drain"
    /\ \E p \in pool :
          /\ pool' = pool \ {p}
          /\ closer' = p
    /\ UNCHANGED <<retired, run, procVars, callVars, closed>>

CloseShutdown ==
    /\ closer \in Slots
    /\ Shutdown(closer)
    /\ closer' = "drain"
    /\ UNCHANGED <<pool, spawned, callVars, closed>>

CloseEnd ==
    /\ closer = "drain" /\ pool = {}
    /\ closer' = "done"
    /\ UNCHANGED <<slotVars, procVars, callVars, closed>>

--------------------------------------------------------------------------
(* The coprocess, which this project does not contain: it answers each     *)
(* frame with one line, and may die or stop answering at any moment.       *)

Serve(i) ==
    /\ up[i] = "live" /\ inbox[i] # <<>>
    /\ outbox' = [outbox EXCEPT ![i] = Append(@, [ok |-> TRUE, of |-> Head(inbox[i])])]
    /\ inbox' = [inbox EXCEPT ![i] = Tail(@)]
    /\ UNCHANGED <<slotVars, spawned, up, open, callVars, closed, closer>>

Die(i) ==
    /\ up[i] \in {"live", "wedged"}
    /\ up' = [up EXCEPT ![i] = "gone"]
    /\ inbox' = [inbox EXCEPT ![i] = <<>>]
    /\ UNCHANGED <<slotVars, spawned, open, outbox, callVars, closed, closer>>

Wedge(i) ==
    /\ up[i] = "live"
    /\ up' = [up EXCEPT ![i] = "wedged"]
    /\ UNCHANGED <<slotVars, spawned, open, inbox, outbox, callVars, closed, closer>>

--------------------------------------------------------------------------

ScanStep(c) ==
    \/ Acquire(c)
    \/ EnsureRunning(c) \/ EnsureSpawn(c) \/ EnsureFail(c)
    \/ ScanFailed(c) \/ ScanAnswered(c) \/ ScanTimeout(c)
    \/ ReadClosed(c) \/ Put(c) \/ Reap(c)

CloseStep == CloseMark \/ CloseTake \/ CloseShutdown \/ CloseEnd

GoStep(g) == GoWrite(g) \/ GoRead(g) \/ GoFail(g)

CoprocessStep(i) == Serve(i) \/ Die(i) \/ Wedge(i)

\* Every caller has made its scans: nothing is left to do but Close.
Finished ==
    /\ \A c \in Callers : pc[c] = "idle" /\ scan[c] = MaxScans[c]
    /\ UNCHANGED vars

Next ==
    \/ \E c \in Callers : Call(c) \/ ScanStep(c)
    \/ \E g \in gos : GoStep(g)
    \/ \E i \in Spawns : CoprocessStep(i)
    \/ CloseStep
    \/ Finished

Spec == Init /\ [][Next]_vars

\* Goroutines run, time.After fires, and a Go channel serves its blocked
\* receivers in order, so no receiver is overtaken for ever.  Nothing is
\* assumed of the coprocess.
Fairness ==
    /\ \A c \in Callers : WF_vars(ScanStep(c)) /\ SF_vars(Acquire(c))
    /\ WF_vars(CloseTake \/ CloseShutdown \/ CloseEnd)

FairSpec == Spec /\ Fairness

--------------------------------------------------------------------------
(* Properties *)

States == {"idle", "wait", "ensure", "select", "check", "put", "reap"}

Holding == {"ensure", "select", "check", "put", "reap"}

Texts == UNION {{c} \X (1..MaxScans[c]) : c \in Callers}

Answers == [ok : {TRUE}, of : Texts] \cup {Failed}

SlotsOK ==
    /\ pool \subseteq Slots /\ retired \subseteq Slots
    /\ run \in [Slots -> 0..MaxSpawns]
    /\ closed \in BOOLEAN
    /\ closer \in {"before", "drain", "done"} \cup Slots

SpawnsOK ==
    /\ spawned \in 0..MaxSpawns
    /\ up \in [Spawns -> {"fresh", "live", "wedged", "gone"}]
    /\ open \subseteq Spawns
    /\ inbox \in [Spawns -> Seq(Texts)] /\ outbox \in [Spawns -> Seq(Answers)]

CallsOK ==
    /\ pc \in [Callers -> States]
    /\ held \in [Callers -> Slots \cup {Nobody}]
    /\ \A c \in Callers : held[c] \in Slots <=> pc[c] \in Holding
    /\ scan \in [Callers -> Nat] /\ \A c \in Callers : scan[c] <= MaxScans[c]

ResultsOK ==
    /\ gos \subseteq [text : Texts, spawn : Spawns, at : {"write", "read"}]
    /\ chan \in [Callers -> Answers \cup {Nothing}]
    /\ result \in [Callers -> Answers \cup {Nothing}]

\* The shape of the state; a caller holds a slot exactly while its Scan is
\* between the receive and the send (Scanner.Scan).
TypeOK == SlotsOK /\ SpawnsOK /\ CallsOK /\ ResultsOK

\* A slot is in one place at a time: in the channel, in the hands of one
\* caller or of Close, or shut down for good.  This is what "each coprocess
\* speaks to one caller at a time" rests on, and it keeps the send to the
\* pool from blocking, with or without a Close in between (Scan, Close).
Exclusive ==
    /\ \A c, d \in Callers : (held[c] = held[d] /\ held[c] # Nobody) => c = d
    /\ \A c \in Callers : held[c] \notin pool \cup retired \cup {closer}
    /\ pool \cap retired = {}
    /\ closer \notin pool \cup retired

\* The verdict a Scan returns is the verdict of the text it was given, even
\* when an earlier scan on the same slot timed out and its answer came late,
\* or its goroutine was still writing (ppProc.scan captures the handles and
\* kills on a timeout).
VerdictIsOwn ==
    \A c \in Callers :
        (result[c] # Nothing /\ result[c].ok) => result[c].of = Text(c)

\* No coprocess is ever lost from sight: each one alive is the one its slot
\* knows, so a kill and respawn never leaves the old process behind, and a
\* slot that was shut down has none (kill, ensure, shutdown).
NoStrayProcess ==
    /\ \A i \in Spawns : up[i] \in {"live", "wedged"} => \E p \in Slots : run[p] = i
    /\ \A p \in retired : run[p] = 0

\* A Scan always returns unless the scanner is closed under it: whatever the
\* coprocesses do, including all of them wedging, a timeout frees the slot
\* and the next caller gets it ("so a request cannot block forever",
\* defaultScanTimeout).
ScanReturns == \A c \in Callers : (pc[c] # "idle") ~> (pc[c] = "idle" \/ closed)

\* "Close shuts every coprocess down": once Close has returned and no Scan
\* is in flight, no slot runs a process (Scanner.Close).
CloseReapsAll ==
    (closer = "done" /\ \A c \in Callers : pc[c] = "idle") => \A p \in Slots : run[p] = 0
==========================================================================
