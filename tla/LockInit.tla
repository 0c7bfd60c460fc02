----------------------------- MODULE LockInit -----------------------------
(***************************************************************************)
(* Capture of a lockfile, "mcp-gateway-lite --lock-init"                   *)
(* (gateway/lockinit.go), and the file itself (loadLockFile and            *)
(* writeLockFile of gateway/lock.go), which other programs write too.      *)
(*                                                                         *)
(* A capture loads the file, asks every upstream for its tools page by     *)
(* page, keeps the records in memory and writes the file at the end.       *)
(* Captures may run at the same time, fail, or be killed at any moment;    *)
(* os.WriteFile truncates the file and then writes it.                     *)
(*                                                                         *)
(* The file is [kind, servers].  It is "absent", "empty" (truncated and    *)
(* not yet written), "broken" (part of a document, or parts of two: it     *)
(* does not load) or "good".  A record of it is [capture, list, url]:      *)
(* capture "detail" has toolsHash and toolsDetail over list, "digest" only *)
(* toolsHash, "none" neither.  A tools array is a sequence of entries of   *)
(* ToolsLock; an upstream cuts it into pages and numbers its cursors by    *)
(* position.                                                               *)
(***************************************************************************)
EXTENDS Config, ToolsLock, FiniteSets

CONSTANTS
    Captures,       \* invocations of --lock-init
    CaptureConfigs, \* capture -> the configurations it may be given
    Offers,         \* URL -> the tools arrays its server may come to offer
    MaxVersions,    \* bound: how many of them it offers in turn
    maxLockPages,   \* the bound on the pages of one listing
    Others,         \* servers of the lockfile that are not the gateway's
    SentinelRuns,   \* records it may write: [server, url, capture]
    MaxSentinel,    \* bound: how often another program writes the file
    NoName          \* the name of an entry without one

\* An entry of a tools array.
ToolEntry == [name : STRING, form : STRING]

ASSUME LockInitAssumption ==
    /\ maxLockPages \in Nat \ {0}
    /\ MaxVersions \in Nat \ {0} /\ MaxSentinel \in Nat
    /\ \A p \in Captures : CaptureConfigs[p] \subseteq Seq(Upstream)
    /\ \A p \in Captures : \A ups \in CaptureConfigs[p] : \A i \in DOMAIN ups :
          ups[i].Name \notin Others /\ ups[i].URL \in DOMAIN Offers
    /\ \A r \in SentinelRuns : r.url \in DOMAIN Offers
    /\ \A url \in DOMAIN Offers : Offers[url] \subseteq Seq(ToolEntry)
    /\ None \notin Captures

VARIABLES
    file,       \* the lockfile
    versions,   \* URL -> the tools arrays offered so far; the last one counts
    cap,        \* capture -> the state of its LockInit
    sentinel,   \* how often another program has written the file
    noted,      \* the records of Others as they were last written
    raced       \* somebody changed the file while a capture held a copy of it

captureVars == <<file, versions, cap, sentinel, noted, raced>>

\* A map without entries, and m[key] = value.
Nothing == [s \in {} |-> 0]

Put(m, key, value) == [k \in DOMAIN m \cup {key} |-> IF k = key THEN value ELSE m[k]]

Offered(url) == Last(versions[url])

\* A capture that has loaded the file and not yet finished writing it.
Holding == {"page", "record", "open", "write"}

\* Whoever writes the file now does it behind the back of these captures.
Behind(p) == \E q \in Captures \ {p} : cap[q].pc \in Holding

\* A capture that is not under way.
Rest(where) ==
    [pc |-> where, ups |-> <<>>, at |-> 1, mem |-> Nothing, all |-> <<>>, cursor |-> 0, page |-> 0]

CaptureInit ==
    /\ file = [kind |-> "absent", servers |-> Nothing]
    /\ versions \in [DOMAIN Offers -> UNION {{<<v>> : v \in Offers[u]} : u \in DOMAIN Offers}]
    /\ \A u \in DOMAIN Offers : Offered(u) \in Offers[u]
    /\ cap = [p \in Captures |-> Rest("idle")]
    /\ sentinel = 0 /\ noted = Nothing /\ raced = FALSE

At(p, where) == cap[p].pc = where

Up(p) == cap[p].ups[cap[p].at]

OnlyCap == UNCHANGED <<file, versions, sentinel, noted, raced>>

Fail(p) == cap' = [cap EXCEPT ![p] = Rest("failed")]

--------------------------------------------------------------------------
(* LockInit, up to the last upstream *)

\* loadLockFile succeeds.
loadLockFile == file.kind = "good"

\* loadLockFile that takes an unreadable file for none (a mutant).
BeginAnyway(p) ==
    /\ At(p, "idle")
    /\ \E ups \in CaptureConfigs[p] :
          cap' = [cap EXCEPT ![p] =
                     IF Validate(ups)
                     THEN [Rest("page") EXCEPT !.ups = ups, !.mem = file.servers]
                     ELSE Rest("failed")]
    /\ OnlyCap

\* Validate, Stat and loadLockFile: a file that does not load is refused.
Begin(p) ==
    /\ At(p, "idle")
    /\ \E ups \in CaptureConfigs[p] :
          cap' = [cap EXCEPT ![p] =
                     IF Validate(ups) /\ (file.kind = "absent" \/ loadLockFile)
                     THEN [Rest("page") EXCEPT !.ups = ups, !.mem = file.servers]
                     ELSE Rest("failed")]
    /\ OnlyCap

\* What one more page does to a capture: entries from the cursor on, and the
\* next cursor unless it ends the listing.  A server may send empty pages and
\* cursors for ever.
Paged(c, list) ==
    {[c EXCEPT !.pc = IF x.more THEN "page" ELSE "record",
               !.all = @ \o SubSeq(list, c.cursor + 1, x.upto),
               !.cursor = x.upto,
               !.page = @ + 1] :
        x \in {y \in [upto : c.cursor..(c.cursor + Len(list)), more : BOOLEAN] :
                  /\ y.upto <= Len(list) \/ y.upto = c.cursor
                  /\ y.more \/ y.upto >= Len(list)}}

\* The loop of fetchAllTools without its bound: the count starts again (a
\* mutant).
PageForever(p) ==
    /\ At(p, "page")
    /\ \E c \in Paged(cap[p], Offered(Up(p).URL)) :
          cap' = [cap EXCEPT ![p] = [c EXCEPT !.page = @ % maxLockPages]]
    /\ OnlyCap

\* The bound of fetchAllTools taken for the end of the listing (a mutant).
PagePartial(p) ==
    /\ At(p, "page")
    /\ \E c \in Paged(cap[p], Offered(Up(p).URL)) :
          cap' = [cap EXCEPT ![p] = IF cap[p].page < maxLockPages THEN c
                                    ELSE [@ EXCEPT !.pc = "record"]]
    /\ OnlyCap

\* fetchAllTools that keeps the last page only (a mutant).
PageLast(p) ==
    /\ At(p, "page")
    /\ \E c \in Paged([cap[p] EXCEPT !.all = <<>>], Offered(Up(p).URL)) :
          cap' = [cap EXCEPT ![p] = IF cap[p].page < maxLockPages THEN c ELSE Rest("failed")]
    /\ OnlyCap

\* fetchAllTools gets the next page, or gives up at the bound.  The handshake
\* before the first page changes nothing here; if it fails, see RPCFails.
Page(p) ==
    /\ At(p, "page")
    /\ \E c \in Paged(cap[p], Offered(Up(p).URL)) :
          cap' = [cap EXCEPT ![p] = IF cap[p].page < maxLockPages THEN c ELSE Rest("failed")]
    /\ OnlyCap

\* initialize or tools/list fails: no connection, no answer within the
\* timeout of the client, a status that is not 2xx, a response that is no
\* result, an error, or a result without a tools array.
RPCFails(p) ==
    /\ At(p, "page")
    /\ Fail(p)
    /\ OnlyCap

\* The entries have fingerprints and names, and no name twice.
Lockable(list) ==
    /\ \A i \in DOMAIN list : Parses(list[i]) /\ list[i].name # NoName
    /\ \A i, j \in DOMAIN list : list[i].name = list[j].name => i = j

lockServer(u, list) == [capture |-> "detail", list |-> list, url |-> u.URL]

\* The listing is complete: its record goes into the map under the name of
\* the upstream, and the next upstream has its turn.
Record(p) ==
    /\ At(p, "record")
    /\ cap' = IF Lockable(cap[p].all)
              THEN [cap EXCEPT ![p].mem = Put(@, Up(p).Name, lockServer(Up(p), cap[p].all)),
                               ![p].at = IF @ = Len(cap[p].ups) THEN @ ELSE @ + 1,
                               ![p].all = <<>>, ![p].cursor = 0, ![p].page = 0,
                               ![p].pc = IF cap[p].at = Len(cap[p].ups) THEN "open" ELSE "page"]
              ELSE [cap EXCEPT ![p] = Rest("failed")]
    /\ OnlyCap

--------------------------------------------------------------------------
(* writeLockFile *)

\* os.WriteFile opens the file, which truncates it.
Truncate(p) ==
    /\ At(p, "open")
    /\ file' = [kind |-> "empty", servers |-> Nothing]
    /\ raced' = (raced \/ Behind(p))
    /\ cap' = [cap EXCEPT ![p].pc = "write"]
    /\ UNCHANGED <<versions, sentinel, noted>>

\* ... and writes the document from the start of the file.  When another
\* writer was there since it was truncated, its document may show behind a
\* shorter one.
Write(p) ==
    /\ At(p, "write")
    /\ \/ file' = [kind |-> "good", servers |-> cap[p].mem]
       \/ /\ file.kind \in {"good", "broken"} /\ file.servers # cap[p].mem
          /\ file' = [kind |-> "broken", servers |-> Nothing]
    /\ raced' = (raced \/ Behind(p))
    /\ cap' = [cap EXCEPT ![p] = Rest("done")]
    /\ UNCHANGED <<versions, sentinel, noted>>

\* The file cannot be opened, or the disk is full before its end.
WriteFails(p) ==
    /\ cap[p].pc \in {"open", "write"}
    /\ file' = IF At(p, "write") THEN [kind |-> "broken", servers |-> Nothing] ELSE file
    /\ Fail(p)
    /\ UNCHANGED <<versions, sentinel, noted, raced>>

\* The process is killed.
Killed(p) ==
    /\ cap[p].pc \in Holding
    /\ Fail(p)
    /\ OnlyCap

--------------------------------------------------------------------------
(* The environment: servers, mcp-sentinel and the operator *)

Upgrade(url) ==
    /\ Len(versions[url]) < MaxVersions
    /\ \E v \in Offers[url] \ {Offered(url)} :
          versions' = [versions EXCEPT ![url] = Append(@, v)]
    /\ UNCHANGED <<file, cap, sentinel, noted, raced>>

\* "mcp-sentinel lock" of one server, with or without a tools capture.
SentinelWrites(s, r) ==
    /\ sentinel < MaxSentinel
    /\ \A i \in DOMAIN r.list : Parses(r.list[i])
    /\ file.kind \in {"absent", "good"}
    /\ sentinel' = sentinel + 1
    /\ file' = [kind |-> "good", servers |-> Put(file.servers, s, r)]
    /\ noted' = IF s \in Others THEN Put(noted, s, r) ELSE noted
    /\ raced' = (raced \/ Behind(None))
    /\ UNCHANGED <<versions, cap>>

SentinelStep ==
    \E r \in SentinelRuns :
        SentinelWrites(r.server, [capture |-> r.capture, list |-> Offered(r.url), url |-> r.url])

\* A file that does not load is removed, once nobody writes it.
RemoveFile ==
    /\ file.kind \in {"empty", "broken"}
    /\ \A p \in Captures : ~At(p, "write")
    /\ file' = [kind |-> "absent", servers |-> Nothing]
    /\ noted' = Nothing
    /\ UNCHANGED <<versions, cap, sentinel, raced>>

--------------------------------------------------------------------------

CaptureStep(p) ==
    \/ Page(p) \/ RPCFails(p) \/ Record(p)
    \/ Truncate(p) \/ Write(p) \/ WriteFails(p)

\* LockInit runs, and the timeout of its http.Client ends a wait.
CaptureFairness == \A p \in Captures : WF_captureVars(CaptureStep(p))

--------------------------------------------------------------------------
(* Properties *)

\* Every entry of list stands in its place in one of the first n of the
\* arrays vs, and no entry in an earlier array than the entry before it.
Pieced(list, vs, n) ==
    \E from \in [1..Len(list) -> 1..n] :
        /\ \A x \in 1..Len(list) : x <= Len(vs[from[x]]) /\ list[x] = vs[from[x]][x]
        /\ \A x, y \in 1..Len(list) : x <= y => from[x] <= from[y]

\* A record that was captured page by page is a whole listing of its
\* server, never the first pages of one, however the server cuts it and
\* whatever fails.  If the server changed in between, as often as it likes,
\* no place was skipped or read twice, later places were read from later
\* arrays, and the array that was read last has no entry beyond the record
\* (fetchAllTools, "its full tools/list").
Whole(r) ==
    r.capture = "detail" =>
        LET vs == versions[r.url] IN
        \E n \in DOMAIN vs : Len(vs[n]) <= Len(r.list) /\ Pieced(r.list, vs, n)

CaptureIsWhole == \A s \in DOMAIN file.servers : Whole(file.servers[s])

\* "Records for servers not managed by the gateway are preserved": a file
\* that loads holds every record other programs put into it, over all
\* captures, failed, killed or complete, unless the file was changed while
\* a capture held a copy of it (LockInit refuses a file it cannot read and
\* merges into one it can).
OthersKept ==
    (~raced /\ file.kind = "good") =>
        \A s \in DOMAIN noted : s \in DOMAIN file.servers /\ file.servers[s] = noted[s]

\* Every capture ends, whatever the servers do: a server that never answers
\* meets the timeout of the client and one that invents cursors for ever
\* meets the bound on the pages (maxLockPages).  As an invocation begins
\* once, in the end none is under way.
CaptureEnds == <>[](\A p \in Captures : cap[p].pc \notin Holding)
==========================================================================
