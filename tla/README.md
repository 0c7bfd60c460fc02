# mcp-gateway-lite in TLA+

mcp-gateway-lite is a reverse proxy for MCP servers.  A request to
`/mcp/<name>/...` is rate-limited, checked against the tool policy of the
upstream, forwarded, and its response inspected: `tools/list` results are
verified against a lock and filtered, `tools/call` results are handed to a
`promptproof` coprocess.  Every exchange leaves one line in an audit log.

This directory holds TLA+ modules for the parts of that program that have
state, order or arithmetic to get wrong, TLC configurations that check them on
small instances, and TLAPS proofs.  Definitions carry the names of the Go code
where TLA+ allows it; `PROJECT.json` maps each one to the lines it models.

    tlc -config MCRateLimit_sessions.cfg MCRateLimit      one run
    tlapm RateLimitProofs.tla                             one module of proofs

## Inventory

| Component | State | Operations | Interacts with |
|---|---|---|---|
| Rate limiter (`gateway/ratelimit.go`) | a bucket per upstream, or a bounded table of buckets and `lastSeen` per session | `tokenBucket.allow`, `sessionLimiter.allow` with eviction | called by every handler under a mutex; `handleProxy` turns the refusal into `Retry-After` |
| Scanner pool (`gateway/promptproof.go`) | a channel of `ppProc`, each with a process and two pipes; `closed` | `Scan`, `ensure`, `scan` with a goroutine and a timeout, `kill`, `shutdown`, `Close` | handlers share it; the coprocess is external; `Close` comes from `main` |
| Request summary and policy (`jsonrpc.go`, `policy.go`) | none | `summarizeRPC`, `blockReason`, `allows` | the request side refuses, the response side filters, with the same policy |
| tools_lock verification (`lock.go`) | the lock, read once | `prepareLock`, `verify` | prepared by `New`, called on every inspected listing |
| Response processing (`responsefilter.go`) | a `rewriteState` per exchange | `modifyResponse`, `processJSONBody`, `handleMessage`, `scanMessage`, `examineMessage` | runs inside the proxy; its outcome goes to the audit entry |
| SSE rewriter (`sserewrite.go`) | partial line, lines of the event, mode, boundary state, pending output | `Read`, `ingest`, `completeLine`, the overflows, `finishEvent`, `finish` | wraps the response body; calls `handleMessage` |
| Request handling, shutdown (`gateway.go`, `cmd/.../main.go`) | per request the handler's progress; the log; the server's phase | `ServeHTTP`, `handleProxy`, `ErrorHandler`, `run` from the signal on | composes everything above |
| Audit log (`audit.go`) | the file, a mutex, `failed` | `NewAuditor`, `Log`, `reportFailure`, `Close` | shared by all handlers; closed by `main` |
| Start (`gateway.go`, `cmd/.../main.go`) | the maps of the gateway, keyed by upstream name | `run` up to the server, `New`, `Close` | reads configuration and lockfile, starts the scanners |
| Lock capture (`lockinit.go`, `lock.go`) | the lockfile | paginated `tools/list`, merge, write | a separate invocation of the program; `mcp-sentinel` writes the same file |
| Canonical JSON (`canonical.go`, `lock.go`, `promptproof.go`) | none | canonical encoding, fingerprints, collecting the text of a result | used by lock, capture and scanner |
| Configuration (`config.go`) | none | validation | called three times on the way to a gateway |
| Metadata (`wellknown.go`) | none | a document | - |

What is hard, and where it is treated:

- **Concurrency.** Handlers run in parallel and share the limiter, the scanner
  pool and the log; `Scan` leaves a goroutine behind when it times out; `Close`
  runs while scans may be in flight (`Scanner`, `Gateway`).
- **Failure.** Coprocesses die or hang, upstreams do not answer or break off in
  the middle of a body, the audit sink refuses writes or takes half of a line,
  a capture is killed between truncating and writing the lockfile (`Scanner`,
  `Gateway`, `Auditor`, `LockInit`).
- **Shared files.** Captures, `mcp-sentinel` and gateways use one lockfile
  without a lock on it (`LockInit`, `Startup`).
- **Order.** Verify before filter, log before answer, output before EOF,
  Shutdown before the deferred Closes (`ResponseFilter`, `Gateway`,
  `SSERewriter`).
- **Time and numbers.** Refill, truncation of a wait to a `Duration` and to
  seconds, its overflow, a table at its limit, a cap that falls inside a line
  end (`RateLimit`, `SSERewriter`).
- **Fragmentation.** An event stream arrives in arbitrary chunks
  (`SSERewriter`).

`PROJECT.json` lists the hazards one by one, at their lines, with the
properties that cover them.

## The modules and the code

**RateLimit.**  `allow()` holds a mutex, so a call is one action
(`AllowSession`, `AllowWide`); `Tick` is the monotonic clock.  A balance is
counted in integer units (`Token` units are one token, `Rate` units flow in per
tick) so that the refill is exact: the float64 rounding of the code is not
modelled.  The truncation of `need` to a `Duration`, its overflow (either end
of the range, as platforms differ) and the rounding of `Retry-After` are.
`granted` and `reply` are history variables for the properties.

**Scanner.**  One action for each stretch of `Scan`, of its I/O goroutine and
of `Close` between two points where another goroutine can act: receive from the
pool, `ensure`, the select with its three outcomes, the reading of `closed`
under the mutex and, separately, what is done with it after the unlock.  A
process is a *spawn*; goroutines keep the pipes of the spawn they captured.
Coprocesses answer, die or wedge as they like.  A text is its identity, so a
verdict that belongs to another scan can be recognised.

**ToolPolicy**, **ToolsLock.**  Operators: the summary of a request body, the
decision of the policy, the verification of a listing.  Fingerprints are taken
to be injective and the whole-list digest, which sorts by name, to be equality
name by name: `Canonical` checks both.

**ResponseFilter.**  One exchange: `Refuse` or `Forward` (with `rewriteState`
computed as `handleProxy` does, `strict` included), the upstream's response,
`modifyResponse` and its early returns, then one step for each JSON message or
SSE event.  `handleMessage` returns an outcome record with the updated state,
as the Go code does through its pointer.  The entries of a filtered listing
stay at the places the server gave them, so that an entry the client did not
get can be named (`HiddenEntries`), and the ids of a request are a set, as they
are only looked up.  "Unchanged" in `DeliveredWhole` is about the content of a
message: a batch of which one member changes is marshalled anew as a whole.

**SSERewriter.**  Bytes are four symbols, enough to form data lines that must be
replaced, other lines, both line ends and their halves.  A data line holds a
whole message or none: the code joins the data lines of an event and looks at
the result, and an event with two of them is taken here for one whose data is no
message; a message that is spread over several lines, which the code treats like
one on a single line, is not represented.  `Ingest` takes one byte
of a chunk: into the partial line, through `completeLine`, or through
`scanBoundary` in an event above the cap; `IngestEnds` ends the chunk wherever
the source likes and applies the cap to what has no end yet.  The loop of the
code takes a line at a time, but looks at `out` and at the source only when the
chunk is used up, so nobody can tell.  The lines of an event are kept joined,
those that are not data lines a second time, as they are only ever written one
after the other.  What is due is defined without chunks, lines or modes: the
stream is cut after its blank lines (`Boundary`) and each piece is `Treated`
alike.  `rest`, `closed` and `exact` are history variables that carry this
definition along: what came in after the last blank line, what is due for
everything before it, and whether a blank line was split where it matters.

**Gateway.**  Handlers of several requests interleave with clients, upstreams,
the audit sink, SIGTERM, the deadline of `Shutdown` and the deferred Closes.
The verdicts of limiter, policy and response processing are free choices, so
what is shown here holds whatever they decide.  `net/http` and `ReverseProxy`
appear only through what the code relies on: 1xx responses reach
`WriteHeader`, a failed copy panics with `ErrAbortHandler`, a handler that
returns without a status yields 200.  A round trip has three stages: "dial",
"sending" while the request is written, and "upstream" once it is written and
`ResponseHeaderTimeout` counts; headers may arrive in either of the last two.

**Auditor.**  The file is a sequence of halves of lines.  `Log` takes the mutex,
writes two halves and releases it, or fails at any point; the file may be closed
under it, and the process may die and be started again on the same file.  What a
reader finds (`Readable`) is defined on the halves alone.

**Ledger**, **Meter.**  Abstract specifications.  `Ledger` is an audit trail:
entries are recorded once or lost for good, and stay where they are.  `Auditor`
implements it over bytes (`recorded` is `Readable`, `gone` what was submitted
and is neither readable nor under way), `Gateway` over requests.  `Meter` is a
rate limit whose stores fill with every tick; `RateLimit` implements it with
`level` = the balance a bucket *would* have if it were asked now, which is what
refilling lazily has to preserve.

**Config.**  `Validate` and the settings that `New` derives from an upstream, on
records with the fields of the Go structs.  Which strings are names and URLs is
a parameter.

**LockInit.**  The lockfile and the captures that write it.  A capture loads the
file, gets the pages of every upstream, records each listing in memory and at
the end truncates and writes; each of these is an action of its own, and servers
may offer other tools, other programs may write and the process may be killed
between any two.  A file is absent, truncated, broken or good.  `versions` keeps
all arrays a server has offered, so that `Whole` can say where each entry of a
record was read: at its own place, in arrays that never go back in time, the last
of which ends with the record.  `noted` and `raced` are history variables for
`OthersKept`.

**Startup.**  EXTENDS LockInit with a gateway process: `Run` is `run()` up to
`NewAuditor`, then `New` handles one upstream per step, reading the lockfile
through its cache, until it serves or fails.  The maps are keyed by name as in
the code; a pool of coprocesses is named by the position of its upstream, so
that one that was replaced in the map can be told from its replacement.

**Canonical.**  JSON texts are trees with repeated keys and undecodable parts;
decoding, encoding and the walk of `collectStrings` are recursive operators, and
a state is one pair of inputs with what the code makes of them.

`TypeOK` of `Scanner`, `Gateway` and `Auditor` describes the shape of their
state; no run spends itself on it.  It is proved for all three.

Modules named `MC...` only supply constants.  Definitions marked "(a mutant)"
are plausible mistakes in the definition that follows them; none is used by a
specification.  Substituting one for that definition makes the property that
`PROJECT.json` pairs it with fail.

## Runs

| Run | Checks | Bounds |
|---|---|---|
| `rate_sessions` | admissions in any window, the table's bound and recency; implements `Meter` | 3 sessions, table of 2, 5 ticks, burst 2, inflow that does not divide a token |
| `rate_wide` | one bucket over a long time, honesty of `Retry-After`, with waits that overflow a `Duration` | 16 ticks, a token takes 7, a `Duration` holds 5 |
| `scan_pool` | slots exclusive, verdict of the right text, no process lost, every Scan returns while the scanner is open | 2 callers with 2 and 1 scans, pools of 1 and of 2, 3 spawns, Close |
| `filter_exchanges` | refusals, visibility, drift, completeness and counts, verdicts acted on | 3 policies x 5 locks, and 2 x 2 with 4 scanners; 17 bodies; responses of 1 or 2 parts, pairs from 27 parts around listings and from 14 around results |
| `sse_streams` | output independent of chunks and complete, strict mode hides, memory bounded by the cap | streams of up to 9 symbols, chunks of up to 6, all read sizes, cap 4 |
| `gateway_requests` | one entry each, refusals contained, entries true, orderly stop; header timeout and stop under fairness; implements `Ledger` | 2 requests, 5 routes |
| `audit_lines` | the file implements `Ledger`, a torn line costs one entry, `Log` returns | 2 handlers, 2 calls each, 1 new start |
| `startup_locks` | records are whole listings, also of a server that changes twice while it is read; foreign records kept, protections complete, one state of the lockfile, unchanged servers accepted, coprocesses within reach; captures end | 2 captures (of 2 upstreams and of 1) that write one record from different servers, 3 pages, 3 versions in turn of a server with arrays of 3 and 2 entries, 1 foreign write, 10 command lines, gateways without bound |
| `canon_values` | equal digests mean equal content and the reverse, digests of listings are what `ToolsLock` takes them for, every string is scanned | 273 texts in pairs, listings of up to 2 of 20 entries in pairs |

Why these bounds: evictions need one session more than the table holds; a late
answer needs a second scan on a respawned slot, hence a caller that scans twice
and three spawns; a Scan waits for another one only in a pool of one; batches
interact pairwise, because the state they share is a set of flags, a counter
and the first remark; with cap 4 an event has room for two
lines, 9 symbols for an oversized event and a whole one after it, and a chunk
of 6 takes it past the cap and over a blank line; two
requests give every interleaving of a handler with another one and with the
shutdown; a torn line, the entry it spoils and the one after that need two
handlers with two calls; a record of three versions needs three pages with a
change between each two, and an array with three entries; a bound of three
pages is met by a server that sends empty ones; names collide only between a file and a flag.
Every deadlock that TLC could find is checked, except in the Scanner runs with
`Close`, where a Scan may really wait for ever (see the findings).

### Where code and documentation disagree

These runs check a sentence of the repository and end in a counterexample.

| Run | Sentence | What happens |
|---|---|---|
| `scan_close_leak` | "Close shuts every coprocess down", safe during a Scan | a Scan that read `closed` before Close returns its slot after the drain; the process stays |
| `sse_cap_split` | every split gives identical output | an event of exactly the cap, its CR LF split, swallows the next event |
| `gateway_aborted` | "every proxied request produces exactly one audit entry" | a body that breaks off panics past the log call |

The passing runs state the same promises with exactly these exceptions
(`SplitsAgree` excludes what `exact` records, `OneEntryEach` aborted streams),
which shows that there are no others within the bounds; both are also proved.
More of the same kind,
which have no run of their own and which the modules reproduce as the code has
them:

- `responsefilter.go:122`: "the two id sets are disjoint".  A batch can use one
  id for a call and a listing; the listing then goes to the scanner and is
  neither verified nor filtered.  `VisibleIsCallable` excludes such ids, and
  they occur in its run.
- `sserewrite.go:10`: a client "cannot extract tools from an event its own
  parser rejects".  An event whose data is a JSON batch passes uninspected, and
  a client that accepts batches does not reject it (`SSEEvent`).
- `promptproof.go:337`: "every string value".  Of several values under one key
  only the last is walked; `EveryStringIsScanned` excludes repeated keys.
- `canonical.go` and `lock.go`: fields are matched whatever the case of their
  letters, so a tool with `"NAME"` has the fingerprint of one with `"name"`.  A
  null leaves a string field as it is, so a tool with `"name":"a","name":null`
  has the fingerprint of one with `"name":"a"`, where a reader that goes by the
  last value finds null; the same holds for `description`.  `DigestIsSurface` excludes both (`Usual`); they occur in its
  run.
- `lockinit.go:27`: "records for servers not managed by the gateway are
  preserved".  What others write while a capture is under way is overwritten;
  `OthersKept` excludes exactly that (`raced`).
- `gateway.go:147`: "New calls it on a mid-construction error".  It does when a
  scanner fails and not when a lock does (`LockFailed`); `PoolsAreReachable`
  makes that exception.  The program then ends, and the coprocesses with it.
- `promptproof.go:34` says a request "cannot block forever"; a Scan that waits
  on the pool while Close drains it is never woken.  `ScanReturns` holds while
  the scanner is open, and the run does without the check for deadlock because
  of this wait.
- `README.md:300`: with `tools_drift`, "`error` carries the reason".  An earlier
  remark of the exchange keeps its place (`noteOnce`); `DriftIsRecorded` says
  only that there is some reason.
- `README.md:116`: only answers to `tools/list` are touched.  `strict` follows
  the configuration, so with a scanner an unreadable answer to a request that
  has nothing but calls is refused too (`ModifyRefuse`).
- `sserewrite.go:282`: a partial event at the end of the stream is inert.  With
  lone CR as the end of line it may be a whole event to a client; `StrictHides`
  is about clients that end lines as the rewriter does.
- `README.md:332`: unknown routes are audited.  Unknown names under `/mcp/` are,
  other paths are not (`ServeUnaudited`).
- `README.md:306`: status is what was "returned to the client".  After a 103 the
  entry says 103, and a failure after it sends no 502; `EntryIsTrue` makes that
  exception.

### Fairness

`Scanner`: goroutines run and `time.After` fires (`WF` on the steps of a Scan);
a Go channel serves blocked receivers in order, so no receiver is overtaken for
ever (`SF` on `Acquire`).  Nothing is assumed of the coprocess.
`Gateway`: handlers run, the timeouts of the transport fire (10 s for the dial
and for TLS; `ResponseHeaderTimeout` once the request is written), and
`Shutdown`'s deadline and the defers come (`WF`).  Nothing is assumed of
clients, upstreams, the disk or the operator; reading a request body, sending
it on, the wait in `processJSONBody` and an open stream may last for ever.
Sending is without a limit because the header timeout does not count yet, a body
beyond the peek is still being read from the client (the server has a
`ReadHeaderTimeout` only), and an upstream may not read; `HeadersArrive` is
therefore about the dial and about the wait after the request is written, and
claims nothing of the time in between.  A proxy named in the environment is
taken for part of the upstream.  `SignalStops` needs the deadline, and it names the one wait without a limit, the
exit of a wedged coprocess in `shutdown`.
`Auditor`: handlers run, the sink takes or refuses what it is given (`WF`), and
`sync.Mutex`, which hands itself over to a waiter after a millisecond, starves
nobody (`SF` on the two places that take it).
`Startup`: a capture runs and the 15 s timeout of its `http.Client` ends every
wait (`WF` on the steps of a capture).  Nothing is assumed of servers, of other
programs or of the gateway.

## Proofs

Of the properties that the passing runs check on small instances, those below
are theorems for every value of the constants: any number of sessions, callers,
requests, captures, upstreams and handlers that log, tools arrays of any length
that change any number of times, streams of any length, any cap, policy, lock and configuration.

| Module | Theorems | Inductive invariant |
|---|---|---|
| `RateLimitProofs` | `TypeCorrect`, `AdmissionBounded`; `TableBoundedHolds`, `FreshBurstNeedsCrowdHolds`, `RetryIsTightHolds`, `RetryIsHonouredHolds` (an action property), `LimiterIsMeter` (refinement) | `RateInv`; with `TableInv` |
| `ScannerProofs` | `ScannerTypeCorrect`, `ExclusiveHolds`, `VerdictIsOwnHolds`, `NoStrayProcessHolds` | `ScannerInv` |
| `ResponseFilterProofs` | `ForwardedIsAllowedHolds`, `VisibleIsCallableHolds`, `DriftNeverShownHolds`, `DriftIsRecordedHolds`, `VerdictIsActedOnHolds`, `DeliveredWholeHolds` | `FilterInv` |
| `SSERewriterProofs` | `BufferBoundedHolds`, `SplitsAgreeHolds`, `StrictHidesHolds` | `SSEInv` |
| `GatewayProofs` | `GatewayTypeCorrect`, `OneEntryEachHolds`, `RefusedIsContainedHolds`, `EntryIsTrueHolds`, `StopLosesNothingHolds`, `GatewayKeepsTrail` (refinement) | `GatewayInv` |
| `StartupProofs` | `NoProtectionLostHolds`, `OneSnapshotHolds`, `PoolsAreReachableHolds` | `StartupInv` |
| `LockfileProofs` | `OthersKeptHolds`, `CaptureIsWholeHolds`, `UnchangedIsAcceptedHolds` | `LockfileInv`, with `StartupInv` |
| `AuditorProofs` | `AuditorTypeCorrect`, `TornSpoilsOneHolds`, `AuditorKeepsTrail` (refinement) | `AuditInv` |

`XHolds` is the theorem `Spec => []X`.  Each invariant has one too, its
`...InvHolds`, proved with one lemma or case for each action.

### The arguments

**Admissions** (`RateInv`).  `AdmissionBound` speaks of past admissions only, so
it does not survive the next one: nothing relates the balance that the next
admission is paid from to the ones before.  `RateInv` adds that relation.  For
every bucket and every admission `i` it granted, the price of the admissions
from `i` to the last plus the *balance* is at most the capacity plus the inflow
from `i` to the last refill (`Paid`).  Refill adds at most the inflow to the
balance (`DebtCarries`), taking a token moves its price from the balance to the
debt (`DebtPaid`), a new bucket owes nothing (`NewSound`), and dropping the
balance gives the bound (`DebtDropped`).

**The table of sessions** (`TableInv`).  That an evicted session had a crowd
after it follows from the recency order, once the three maps are tied together:
a bucket in the table was used when its session was last seen, which is when it
was last answered.  Both limiters are reduced to one kind of call (`Called`),
which keeps the invariant, honours and bounds `Retry-After`, and is a step of
`Meter`; `LimiterIsMeter` also needs that a tick fills every store by what a
later refill would have added.

**The scanner pool** (`ScannerInv`).  `VerdictIsOwn` depends on what goroutines
that nobody waits for can still do.  The invariant accounts for every one
(`GoInv`): a goroutine whose pipes are still open works for the scan that holds
the slot of that spawn and waits for it; all others hold pipes that are closed
for good.  `PipeInv` says that the pipes of a spawn hold the frame or the
answer of that goroutine and nothing else, `RunInv` that a spawn has open pipes
exactly as long as one slot runs it.

**One exchange** (`FilterInv`).  `Sound` describes the outcome of one message:
what the client may get for it, what is counted, what is told and that nothing
that was noted before is forgotten.  It is proved for each path through
`handleMessage`; the invariant says of the parts processed so far that each was
handled soundly in a state with the present settings, that `tools_filtered` is
the number of entries missing from them and that drift is recorded exactly if
one of them differs.  The conjunct of `DeliveredWhole` about streams is about
those with status 200: a stream that the upstream itself sends with 403 passes
as it is.

**Streams** (`SSEInv`).  None of the three properties says what is buffered, so
none is inductive.  `EventInv` says that the lines kept of an event are whole
and none of them blank, and `Sorted` how the data lines and the others were told
apart; from this follows that `finishEvent` replaces exactly the events that the
definition says must be, and leaves of them what it says is left
(`ReplacedIsDue`).  `AgreeInv` says that output and buffers together are what is
due and what came in after it; in an event above the cap, where nothing is
buffered, `DetectorInv` ties `bstate` to the last bytes that came in.  That the
cap may be passed after the `\r` of a blank line, at the end of a chunk and
nowhere else, is its last conjunct; if the `\n` then opens the next chunk,
`exact` is set, and the rest of the invariant does not depend on it.  For
`StrictHides` the output ends at a blank line whenever something is written to
it, and each piece that is written has its only blank line at its end and no
message before that (`HidesAfter`): what a client dispatches is one such piece.
The lemmas below these are about positions in sequences, not about recursion,
which is why the reference is stated by positions and the loop byte by byte.

**Requests and the stop** (`GatewayInv`).  An entry is written before its
request is done, so it has to promise what will be sent: `EntryInv` ties the
status in the entry to the refusal, or to what `countingWriter` has recorded
(`StatusInv`), and allows one entry for each request; `PathInv` says which
points of a handler lie behind its call of `Log`.  `StopInv` says that the log
is closed only after the drain found no handler in flight, or gave up.

**New** (`StartupInv`).  The properties say nothing about a `New` under way: the
invariant says for how many upstreams they hold already, that the maps hold
nothing of the others, and that the locks come from the one cached state of the
file.  Names that `Validate` tells apart keep the entries apart.

**The lockfile** (`LockfileInv`).  What makes the file right is what captures
have in memory between loading and writing it.  While a capture lists, every
entry got so far stands at its place in one of the arrays offered so far, and no
entry comes from an earlier array than the one before it (`Begun`).  A page
appends entries of the array that is offered now, which is the latest; a server
that offers another one takes nothing back; and the page that ends the listing
ends at or beyond the end of the array offered now, which makes it whole
(`Complete`), however often the server changed.  In memory and in the file every record is one, and what a capture
holds agrees with the records of other programs unless the file was changed
behind it.  A gateway's locks are records of the file, so an array that never
changed is accepted, page by page.  `StartupInv` supplies the shape of the
gateway's state.

**The audit file** (`AuditInv`).  The invariant is about the halves on the sink:
a second half follows the first half of its entry, nothing is there twice, and
an entry under way has left nothing yet or its first half as the last thing
(`HandlerInv`); `taken` is the entries with a second half.  So a taken entry
that cannot be read has a first half without its second just before it, of an
entry that is neither taken nor under way, and two such entries have two: an
injection from the spoilt entries into `Torn`.  What a reader finds is defined
by the ranks of the places where lines begin; `Ranked` says that there is a line
for every rank, from which a second half is shown to append one entry to
`Readable` or to leave it alone.  A failed write, or the end of the process,
loses what was under way; every other step leaves the trail of `Ledger` alone.

### Assumptions

Besides finiteness of `Slots` and `Handlers` and the ranges of the bounds they are about types
and distinct names: `RateAssumption` (all positive, as `Config.Validate` and the
defaults guarantee), `ScannerAssumption` (slots are not the values that mark
their absence), `AuditorAssumption` (finitely many handlers, none of which is the
mark of a free mutex), `ResponseAssumption` (configurations, bodies and responses have
the shapes the module describes; there are names and ids that are no tool's and
no request's), `LockInitAssumption` (the gateway's upstreams are not `Others`,
every URL has a server), `StartupAssumption` (configurations and flags are
sequences), `SSEAssumption` (cap and chunk size are positive, upstreams send the
four symbols).  TLC evaluates all of them.

### Only model-checked

- Liveness, which is beyond this prover: `ScanReturns`, `HeadersArrive`,
  `SignalStops`, `LogReturns`, `CaptureEnds`.
- What recursive definitions compute on all inputs: all of `Canonical`
  (`DigestIsMeaning`, `DigestIsSurface`, `EveryStringIsScanned`), whose trees
  would need an induction over data.

## Not modelled

Float rounding in the bucket; byte counts and durations in the audit entry;
protocol upgrades (101); the text of reports, errors and the `.well-known`
document, which is formatting without state; the syntax of names and URLs; the
extraction of a response from an event stream in `doRPC`, which is "a result or
an error" here.  The scripts under `ci/` and `demo/` are not part of the
program.

## Plan

In this order.

1. *Done:* `RateLimit` and its first proofs, `Scanner`, `ToolPolicy`,
   `ToolsLock`, `ResponseFilter`, `SSERewriter`, `Gateway`.
2. *Done:* `Auditor`, `Canonical`, `Config`, `LockInit` and `Startup`; the
   abstract specifications `Ledger` and `Meter` and that `Auditor`, `Gateway` and
   `RateLimit` implement them.
3. *Done:* the proofs above.
4. *Done:* `SSERewriter` byte by byte, and its proofs.
5. Left: the liveness properties and `Canonical`, which stay with TLC for the
   reasons above.
