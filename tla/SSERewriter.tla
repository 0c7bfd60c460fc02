---------------------------- MODULE SSERewriter ----------------------------
(***************************************************************************)
(* The SSE rewriter (gateway/sserewrite.go): how the chunks that arrive    *)
(* from the upstream become lines and events, and what the client reads.   *)
(* What is decided about an event is the business of ResponseFilter.       *)
(*                                                                         *)
(* A stream is a sequence of symbols, each one byte to the cap: "n" and    *)
(* "r" are the bytes \n and \r; "T" is "data:" with a message that has to  *)
(* be replaced; "x" is any other byte.  A line that starts with "T" is a   *)
(* data line.  The gateway writes "R" for the data line that replaces a    *)
(* message and "E" for the error of an event above the cap.                *)
(*                                                                         *)
(* The lines of an event are only ever written one after the other, all of *)
(* them or those that are no data lines, so they are kept joined.          *)
(***************************************************************************)
EXTENDS Naturals, Sequences

CONSTANTS
    Alphabet,   \* the symbols that upstreams send
    Cap,        \* maxRPCPeek
    ChunkSize,  \* len(r.chunk)
    MaxStream   \* bound: symbols in a stream

ASSUME SSEAssumption ==
    /\ Alphabet \subseteq {"T", "x", "r", "n"}
    /\ Cap \in Nat \ {0} /\ ChunkSize \in Nat \ {0}
    /\ MaxStream \in Nat

VARIABLES
    strict,     \* rewriteState.strict
    line,       \* r.line
    ev,         \* r.evLines, joined
    others,     \* those of them that are not marked in r.evIsData, joined
    data,       \* the others, one by one (r.evData)
    evSize,     \* r.evSize
    mode,       \* "lines", or "raw" or "discard" as the flags of r
    bstate,     \* r.bstate
    out,        \* all that was ever written to r.out
    read,       \* how much of that Read has returned
    mid,        \* how much of a chunk ingest has taken; 0 between chunks
    srcErr,     \* the source has returned an error (EOF)
    done,       \* r.srcDone
    ended,      \* Read has returned srcErr
    given,      \* how much the source has given
    rest,       \* history: what came in after the last blank line
    closed,     \* history: what is due for everything before that
    exact       \* history: a blank line was split where it matters

eventVars == <<ev, others, data, evSize>>
sourceVars == <<mid, srcErr, done, given>>
history == <<rest, closed, exact>>
vars == <<strict, line, ev, others, data, evSize, mode, bstate, out, read,
          mid, srcErr, done, ended, given, rest, closed, exact>>

Init ==
    /\ strict \in BOOLEAN
    /\ line = <<>>
    /\ ev = <<>> /\ others = <<>> /\ data = <<>> /\ evSize = 0
    /\ mode = "lines" /\ bstate = 0
    /\ out = <<>> /\ read = 0
    /\ mid = 0 /\ srcErr = FALSE /\ done = FALSE /\ ended = FALSE /\ given = 0
    /\ rest = <<>> /\ closed = <<>> /\ exact = FALSE

--------------------------------------------------------------------------
(* What the rewriter is to compute, without chunks, buffers or modes: the  *)
(* stream is cut after its blank lines, and every piece is treated alike.  *)

\* Position e ends a blank line of s.
Boundary(s, e) ==
    /\ s[e] = "n"
    /\ \/ e = 1 \/ s[e - 1] = "n"
       \/ s[e - 1] = "r" /\ (e = 2 \/ s[e - 2] = "n")

\* The length of that line.
BlankSize(s, e) == IF e > 1 /\ s[e - 1] = "r" THEN 2 ELSE 1

\* Where the data lines of s begin.
Starts(s) == {i \in DOMAIN s : s[i] = "T" /\ (i = 1 \/ s[i - 1] = "n")}

\* The only data line of s, from i to j, is a message.  Two data lines, or
\* one with something behind the message (but for \r, which is white space),
\* are no JSON and pass.
Message(s, i, j) ==
    /\ Starts(s) = {i}
    /\ i < j /\ s[j] = "n" /\ \A k \in (i + 1)..(j - 1) : s[k] = "r"

MustReplace(s) == \E i, j \in DOMAIN s : Message(s, i, j)

\* s without that line.
Cleared(s) ==
    LET i == CHOOSE i \in DOMAIN s : \E j \in DOMAIN s : Message(s, i, j)
        j == CHOOSE j \in DOMAIN s : Message(s, i, j)
    IN  SubSeq(s, 1, i - 1) \o SubSeq(s, j + 1, Len(s))

CapError == <<"E", "n", "n">>

\* What is due for an event and the blank line that ends it.
Treated(event, blank) ==
    IF Len(event) > Cap THEN IF strict THEN CapError ELSE event \o blank
    ELSE IF MustReplace(event) THEN Cleared(event) \o <<"R", "n">> \o blank
    ELSE event \o blank

\* What is due of an event under way: all of it at the end of the stream, and
\* before that nothing, unless it is above the cap already.
TreatedRest ==
    IF Len(rest) > Cap THEN IF strict THEN CapError ELSE rest
    ELSE IF done THEN rest ELSE <<>>

\* One more symbol has come in.  A blank line that ends an event of exactly
\* Cap symbols matters if \r and \n are in different chunks: when only the
\* \r has arrived, the event is taken for one above the cap.
Heard(c) ==
    LET s     == Append(rest, c)
        k     == Len(s) - BlankSize(s, Len(s))
        event == SubSeq(s, 1, k)
        blank == SubSeq(s, k + 1, Len(s))
    IN  IF Boundary(s, Len(s))
        THEN /\ rest' = <<>>
             /\ closed' = closed \o Treated(event, blank)
             /\ exact' = (exact \/ (k = Cap /\ Len(blank) = 2 /\ mid = 0))
        ELSE rest' = s /\ UNCHANGED <<closed, exact>>

--------------------------------------------------------------------------
(* Lines and events *)

IsData(l) == l[1] = "T"

IsBlank(l) == l \in {<<"n">>, <<"r", "n">>}

Write(x) == out' = out \o x

resetEvent == ev' = <<>> /\ others' = <<>> /\ data' = <<>> /\ evSize' = 0

\* handleMessage on the data of the event, its data lines joined, is
\* msgRewrite or msgBlock: the data is one message.  A "T" line holds all of
\* a message, so that two of them, or one with more behind it, are none; a
\* message that is spread over several data lines is not represented.
Replaced == Len(data) = 1 /\ \A i \in 2..Len(data[1]) : data[1][i] \in {"r", "n"}

\* finishEvent and emitReplaced: the other lines, one data line, and the
\* blank line as sent; or everything as sent.
finishEvent(blank) ==
    /\ Write(IF Replaced THEN others \o <<"R", "n">> \o blank ELSE ev \o blank)
    /\ resetEvent
    /\ UNCHANGED <<mode, bstate>>

\* An overflow that sets raw where it should set discard (a mutant).
OverflowRaw(pending, b) ==
    /\ Write(IF strict THEN CapError ELSE ev \o pending)
    /\ mode' = "raw" /\ bstate' = b
    /\ resetEvent

\* overflowPartial and overflowLine: the part of the event that is there is
\* replaced (strict) or let through, and so will be the rest of it.
Overflow(pending, b) ==
    /\ Write(IF strict THEN CapError ELSE ev \o pending)
    /\ mode' = (IF strict THEN "discard" ELSE "raw") /\ bstate' = b
    /\ resetEvent

keepLine(l) ==
    /\ ev' = ev \o l /\ evSize' = evSize + Len(l)
    /\ \/ IsData(l) /\ data' = Append(data, l) /\ UNCHANGED others
       \/ ~IsData(l) /\ others' = others \o l /\ UNCHANGED data
    /\ UNCHANGED <<mode, bstate, out>>

\* A cap that forgets the lines already complete (a mutant).
completeLineAlone(l) ==
    \/ IsBlank(l) /\ finishEvent(l)
    \/ ~IsBlank(l) /\ Len(l) > Cap /\ Overflow(l, 1)
    \/ ~IsBlank(l) /\ Len(l) <= Cap /\ keepLine(l)

completeLine(l) ==
    \/ IsBlank(l) /\ finishEvent(l)
    \/ ~IsBlank(l) /\ evSize + Len(l) > Cap /\ Overflow(l, 1)
    \/ ~IsBlank(l) /\ evSize + Len(l) <= Cap /\ keepLine(l)

\* scanBoundary taking any end of line for a boundary (a mutant).
scanBoundaryEarly(c) ==
    /\ Write(IF mode = "raw" THEN <<c>> ELSE <<>>)
    /\ mode' = IF c = "n" THEN "lines" ELSE mode
    /\ bstate' = 0
    /\ UNCHANGED <<line, eventVars>>

\* scanBoundary, one byte: 0 scanning, 1 after \n, 2 after \n\r.
scanBoundary(c) ==
    /\ Write(IF mode = "raw" THEN <<c>> ELSE <<>>)
    /\ mode' = IF c = "n" /\ bstate > 0 THEN "lines" ELSE mode
    /\ bstate' = IF c = "n" /\ bstate = 0 THEN 1
                 ELSE IF c = "r" /\ bstate = 1 THEN 2 ELSE 0
    /\ UNCHANGED <<line, eventVars>>

--------------------------------------------------------------------------
(* Read *)

\* ingest, one byte of a chunk.  The loop of Read asks the source only when
\* all output is gone.
Ingest(c) ==
    /\ ~done /\ given < MaxStream
    /\ \/ mid = 0 /\ read = Len(out) /\ ~srcErr
       \/ mid \in 1..(ChunkSize - 1)
    /\ \/ mode # "lines" /\ scanBoundary(c)
       \/ /\ mode = "lines" /\ c # "n"
          /\ line' = Append(line, c)
          /\ UNCHANGED <<eventVars, mode, bstate, out>>
       \/ /\ mode = "lines" /\ c = "n"
          /\ line' = <<>>
          /\ completeLine(Append(line, c))
    /\ mid' = mid + 1 /\ given' = given + 1
    /\ Heard(c)
    /\ UNCHANGED <<strict, read, srcErr, done, ended>>

\* The chunk ends, and with it ingest, which applies the cap to a line that
\* has no end yet.  The source may have returned an error with the chunk.
IngestEnds ==
    /\ mid > 0
    /\ \/ /\ mode = "lines" /\ line # <<>> /\ Len(line) + evSize > Cap
          /\ Overflow(line, 0)
          /\ line' = <<>>
       \/ /\ mode # "lines" \/ line = <<>> \/ Len(line) + evSize <= Cap
          /\ UNCHANGED <<line, eventVars, mode, bstate, out>>
    /\ mid' = 0 /\ srcErr' \in BOOLEAN
    /\ UNCHANGED <<strict, read, done, ended, given, history>>

\* The source ends or fails without giving anything.
SourceEnds ==
    /\ mid = 0 /\ read = Len(out) /\ ~srcErr
    /\ srcErr' = TRUE
    /\ UNCHANGED <<strict, line, eventVars, mode, bstate, out, read, mid, done, ended, given, history>>

\* finish: what is left goes out as it is.
finish ==
    /\ mid = 0 /\ srcErr /\ ~done
    /\ done' = TRUE
    /\ \/ /\ mode = "lines"
          /\ Write(ev \o line)
          /\ line' = <<>>
          /\ resetEvent
       \/ mode # "lines" /\ UNCHANGED <<line, eventVars, out>>
    /\ UNCHANGED <<strict, mode, bstate, read, mid, srcErr, ended, given, history>>

\* Read returns what is pending, as much as the caller has room for.
ReadOut ==
    /\ mid = 0 /\ (srcErr => done)
    /\ read' \in (read + 1)..Len(out)
    /\ UNCHANGED <<strict, line, eventVars, mode, bstate, out, sourceVars, ended, history>>

\* Read returns srcErr.
ReadEnd ==
    /\ done /\ read = Len(out) /\ ~ended
    /\ ended' = TRUE
    /\ UNCHANGED <<strict, line, eventVars, mode, bstate, out, read, sourceVars, history>>

Ended == ended /\ UNCHANGED vars

Next ==
    \/ \E c \in Alphabet : Ingest(c)
    \/ IngestEnds \/ SourceEnds \/ finish \/ ReadOut \/ ReadEnd \/ Ended

Spec == Init /\ [][Next]_vars

--------------------------------------------------------------------------
(* Properties *)

\* The rewriter's memory is bounded: between two reads of the source nothing
\* is buffered beyond the cap, while a chunk is taken in no more than what
\* came with it, and nothing while bytes are dropped or passed on raw
\* (ingest, completeLine).
BufferBounded ==
    /\ Len(line) + Len(ev) <= Cap + mid
    /\ mode # "lines" => line = <<>> /\ ev = <<>>

\* What the client has been given, or can be given without waiting for the
\* upstream, is what is due for what has come in, whatever the chunks were:
\* every split of a stream has the same output, every event is out as soon
\* as its blank line is in, oversized events end at their boundary and the
\* stream goes on after them, and the bytes of everything else are kept
\* (sseRewriter), unless a split fell where it matters (exact).  The end is
\* reported only after everything was handed over (Read).
SplitsAgree ==
    /\ mid = 0 /\ (srcErr => done) => exact \/ out = closed \o TreatedRest
    /\ ended => read = Len(out)

\* The same without the exception: "every split of the fixture streams must
\* produce identical output" (sseRewriter).
EverySplitAgrees == mid = 0 /\ (srcErr => done) => out = closed \o TreatedRest

\* b and e are the ends of two successive blank lines of s, or b is where it
\* begins: a client that ends lines as the rewriter does dispatches what is
\* between them.
Dispatched(s, b, e) ==
    /\ b = 0 \/ Boundary(s, b)
    /\ b < e /\ Boundary(s, e)
    /\ \A d \in (b + 1)..(e - 1) : ~Boundary(s, d)

\* In strict mode a client never dispatches a message that had to be
\* replaced, at no moment of the stream and for every split, the exception
\* of SplitsAgree included (finishEvent, overflowPartial, finish).  A client
\* that ends lines at a lone \r, as the SSE format allows, is not covered.
StrictHides ==
    strict => \A b \in 0..read, e \in 1..read :
                 Dispatched(out, b, e) => ~MustReplace(SubSeq(out, b + 1, e))
=============================================================================
