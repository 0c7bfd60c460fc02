----------------------------- MODULE Gateway -----------------------------
(***************************************************************************)
(* The life of requests in the gateway (gateway/gateway.go), the audit log *)
(* they write (gateway/audit.go) and the shutdown of the server that runs  *)
(* them (cmd/mcp-gateway-lite/main.go).                                    *)
(*                                                                         *)
(* Handlers run concurrently, one goroutine per request; a step is what a  *)
(* handler does between two points where another goroutine, the client or  *)
(* the upstream may act.  The verdicts of the rate limiter, the tool       *)
(* policy and modifyResponse are free choices here: RateLimit and          *)
(* ResponseFilter say how they are made.  httputil.ReverseProxy and        *)
(* net/http are external; what matters of them is that the proxy passes    *)
(* informational (1xx) responses to WriteHeader, that it panics with       *)
(* ErrAbortHandler when copying the body fails, and that the server writes *)
(* status 200 for a handler that returns without a status of its own.      *)
(***************************************************************************)
EXTENDS Naturals, Sequences, FiniteSets

CONSTANT Requests   \* the requests that may arrive

\* Where a request may be headed.  "nowhere" is any path that is neither
\* /healthz nor .well-known nor /mcp/; "stranger" is /mcp/<unknown name>.
Routes == {"healthz", "wellknown", "nowhere", "stranger", "upstream"}

\* Statuses an upstream may answer with; 403 and 502 are left to the gateway
\* so that its own answers can be told from the upstream's.
Finals == {200, 500}

VARIABLES
    pc,         \* request -> where its handler is
    route,      \* request -> where it is headed
    refusal,    \* request -> the status it is to be refused with, 0 if none
    forwarded,  \* requests that reached the upstream
    rec,        \* request -> countingWriter.status
    sent,       \* request -> the final status written to the client, 0 before
    failure,    \* requests whose proxyErr was set
    noted,      \* requests with another remark for Entry.Error: the body
                \* could not be read, or rewriteState.note
    log,        \* the audit log: [req, status, error]
    lost,       \* request -> why its entry could not be written: "sink" (a
                \* failed write), "closed", or "no" while it was not lost
    failed,     \* Auditor.failed
    auditor,    \* "open" or "closed"
    wedged,     \* whether an idle coprocess would not exit on EOF
    server      \* where main's run() is

httpVars == <<rec, sent, failure, noted, forwarded>>
auditVars == <<log, lost, failed>>
mainVars == <<auditor, wedged, server>>
vars == <<pc, route, refusal, forwarded, rec, sent, failure, noted,
          log, lost, failed, auditor, wedged, server>>

Init ==
    /\ pc = [r \in Requests |-> "absent"]
    /\ route = [r \in Requests |-> "nowhere"]
    /\ refusal = [r \in Requests |-> 0]
    /\ forwarded = {}
    /\ rec = [r \in Requests |-> 0]
    /\ sent = [r \in Requests |-> 0]
    /\ failure = {}
    /\ noted = {}
    /\ log = <<>>
    /\ lost = [r \in Requests |-> "no"]
    /\ failed = FALSE
    /\ auditor = "open"
    /\ wedged = FALSE
    /\ server = "serving"

\* The process is there to run handlers.
Alive == server # "exited"

Goto(r, where) == pc' = [pc EXCEPT ![r] = where]

--------------------------------------------------------------------------
(* Auditor *)

\* Log(e): one line, or a failure that is remembered and never reaches the
\* request.  The sink may refuse any write; a closed file refuses them all.
Log(r, status, error) ==
    \/ /\ auditor = "open"
       /\ log' = Append(log, [req |-> r, status |-> status, error |-> error])
       /\ UNCHANGED <<lost, failed>>
    \/ /\ lost' = [lost EXCEPT ![r] = IF auditor = "open" THEN "sink" ELSE "closed"]
       /\ failed' = TRUE
       /\ UNCHANGED log

--------------------------------------------------------------------------
(* ServeHTTP *)

Arrive(r) ==
    /\ pc[r] = "absent" /\ server = "serving"
    /\ \E to \in Routes : route' = [route EXCEPT ![r] = to]
    /\ Goto(r, "route")
    /\ UNCHANGED <<refusal, httpVars, auditVars, mainVars>>

\* handleHealth, handleWellKnown and the default branch: answered at once
\* and not audited.
ServeUnaudited(r) ==
    /\ Alive /\ pc[r] = "route"
    /\ \/ route[r] = "healthz" /\ sent' = [sent EXCEPT ![r] = 200]
       \/ route[r] = "wellknown" /\ \E s \in {200, 404} : sent' = [sent EXCEPT ![r] = s]
       \/ route[r] = "nowhere" /\ sent' = [sent EXCEPT ![r] = 404]
    /\ Goto(r, "done")
    /\ UNCHANGED <<route, refusal, rec, failure, noted, forwarded, auditVars, mainVars>>

--------------------------------------------------------------------------
(* handleProxy *)

Refuse(r, status) ==
    /\ refusal' = [refusal EXCEPT ![r] = status]
    /\ Goto(r, "refuse")

\* The upstream's name is looked up.
Lookup(r) ==
    /\ Alive /\ pc[r] = "route"
    /\ \/ route[r] = "stranger" /\ Refuse(r, 404)
       \/ route[r] = "upstream" /\ Goto(r, "limit") /\ UNCHANGED refusal
    /\ UNCHANGED <<route, httpVars, auditVars, mainVars>>

\* The rate limiter decides before the body is read.
Limit(r) ==
    /\ Alive /\ pc[r] = "limit"
    /\ \/ Refuse(r, 429)
       \/ Goto(r, "peek") /\ UNCHANGED refusal
    /\ UNCHANGED <<route, httpVars, auditVars, mainVars>>

\* The client has sent the body, or as much as is peeked at, or its reading
\* failed, which is noted; then the tool policy decides.
Decide(r) ==
    /\ Alive /\ pc[r] = "peek"
    /\ \E n \in {{}, {r}} : noted' = noted \cup n
    /\ \/ Refuse(r, 403)
       \/ Goto(r, "dial") /\ UNCHANGED refusal
    /\ UNCHANGED <<route, rec, sent, failure, forwarded, auditVars, mainVars>>

\* writeJSONError before the audit entry (a mutant).
LogRefusalLate(r) ==
    /\ Alive /\ pc[r] = "refuse"
    /\ sent' = [sent EXCEPT ![r] = refusal[r]]
    /\ Goto(r, "answer")
    /\ UNCHANGED <<route, refusal, rec, failure, noted, forwarded, auditVars, mainVars>>

\* A refusal is logged ...
LogRefusal(r) ==
    /\ Alive /\ pc[r] = "refuse"
    /\ Log(r, refusal[r], TRUE)
    /\ Goto(r, "answer")
    /\ UNCHANGED <<route, refusal, httpVars, mainVars>>

\* ... and then answered (writeJSONError).
AnswerRefusal(r) ==
    /\ Alive /\ pc[r] = "answer"
    /\ sent' = [sent EXCEPT ![r] = refusal[r]]
    /\ Goto(r, "done")
    /\ UNCHANGED <<route, refusal, rec, failure, noted, forwarded, auditVars, mainVars>>

--------------------------------------------------------------------------
(* proxy.ServeHTTP *)

\* countingWriter.WriteHeader: the first code is the one recorded.
WriteHeader(r, code) == rec' = [rec EXCEPT ![r] = IF @ = 0 THEN code ELSE @]

\* The connection is made and the request begins to go out.
Connect(r) ==
    /\ Alive /\ pc[r] = "dial"
    /\ forwarded' = forwarded \cup {r}
    /\ Goto(r, "sending")
    /\ UNCHANGED <<route, refusal, rec, sent, failure, noted, auditVars, mainVars>>

\* The request is written to its end, and only now ResponseHeaderTimeout
\* begins to count.  This takes an upstream that reads it and, for a body
\* beyond what was peeked at, a client that still sends it; neither wait has
\* a limit.
BodySent(r) ==
    /\ Alive /\ pc[r] = "sending"
    /\ Goto(r, "upstream")
    /\ UNCHANGED <<route, refusal, httpVars, auditVars, mainVars>>

\* The upstream sends an informational response, which is passed on.
Inform(r) ==
    /\ Alive /\ pc[r] \in {"sending", "upstream"} /\ rec[r] = 0
    /\ WriteHeader(r, 103)
    /\ UNCHANGED <<pc, route, refusal, sent, failure, noted, forwarded, auditVars, mainVars>>

\* ErrorHandler that answers past the countingWriter (a mutant).
ErrorHandlerPast(r) ==
    /\ failure' = failure \cup {r}
    /\ sent' = [sent EXCEPT ![r] = IF rec[r] = 0 THEN 502 ELSE @]
    /\ Goto(r, "audit")
    /\ UNCHANGED rec

\* ErrorHandler: 502, unless a status was already recorded.
ErrorHandler(r) ==
    /\ failure' = failure \cup {r}
    /\ IF rec[r] = 0
       THEN WriteHeader(r, 502) /\ sent' = [sent EXCEPT ![r] = 502]
       ELSE UNCHANGED <<rec, sent>>
    /\ Goto(r, "audit")

\* A transport without ResponseHeaderTimeout (a mutant).
NoHeaderTimeout(r) ==
    /\ Alive /\ pc[r] = "dial"
    /\ ErrorHandler(r)
    /\ UNCHANGED <<route, refusal, forwarded, noted, auditVars, mainVars>>

\* The dial fails or takes too long, no response headers come within the
\* timeout, or the client goes away.
RoundTripFails(r) ==
    /\ Alive /\ pc[r] \in {"dial", "upstream"}
    /\ ErrorHandler(r)
    /\ UNCHANGED <<route, refusal, forwarded, noted, auditVars, mainVars>>

\* The connection breaks, or the client goes away, while the request is sent.
SendFails(r) ==
    /\ Alive /\ pc[r] = "sending"
    /\ ErrorHandler(r)
    /\ UNCHANGED <<route, refusal, forwarded, noted, auditVars, mainVars>>

\* The final response headers arrive, which they may do before the request
\* is written to its end, and modifyResponse begins.
HeadersCome(r) ==
    /\ Alive /\ pc[r] \in {"sending", "upstream"}
    /\ Goto(r, "modify")
    /\ UNCHANGED <<route, refusal, httpVars, auditVars, mainVars>>

\* modifyResponse is through and the headers are written: the upstream's
\* status, with or without a remark (a warning, a scanner error), or the
\* 403 of a response that was replaced, which always leaves one.
Respond(r) ==
    /\ Alive /\ pc[r] = "modify"
    /\ \/ \E s \in Finals, n \in {{}, {r}} :
             /\ WriteHeader(r, s)
             /\ sent' = [sent EXCEPT ![r] = s]
             /\ noted' = noted \cup n
       \/ /\ WriteHeader(r, 403)
          /\ sent' = [sent EXCEPT ![r] = 403]
          /\ noted' = noted \cup {r}
    /\ Goto(r, "stream")
    /\ UNCHANGED <<route, refusal, failure, forwarded, auditVars, mainVars>>

\* processJSONBody, which reads the whole body before anything is written
\* and without a time limit, meets a read error.
InspectFails(r) ==
    /\ Alive /\ pc[r] = "modify"
    /\ ErrorHandler(r)
    /\ UNCHANGED <<route, refusal, forwarded, noted, auditVars, mainVars>>

\* The body has been copied to its end; an SSE body may have been remarked on.
StreamEnds(r) ==
    /\ Alive /\ pc[r] = "stream"
    /\ \E n \in {{}, {r}} : noted' = noted \cup n
    /\ Goto(r, "audit")
    /\ UNCHANGED <<route, refusal, rec, sent, failure, forwarded, auditVars, mainVars>>

\* The upstream or the client goes away while the body is copied: the proxy
\* panics, and the server ends the goroutine without returning to
\* handleProxy.
StreamBreaks(r) ==
    /\ Alive /\ pc[r] = "stream"
    /\ Goto(r, "aborted")
    /\ UNCHANGED <<route, refusal, httpVars, auditVars, mainVars>>

--------------------------------------------------------------------------
(* The end of handleProxy *)

Recorded(r) == IF rec[r] = 0 THEN 200 ELSE rec[r]

\* Entry.Error: proxyErr, the failed read of the body, or the note.
HasError(r) == r \in failure \cup noted

\* The entry written by ErrorHandler and once more at the end (a mutant).
AuditTwice(r) ==
    /\ Alive /\ pc[r] = "audit"
    /\ auditor = "open"
    /\ LET e == [req |-> r, status |-> Recorded(r), error |-> HasError(r)]
       IN  log' = log \o (IF r \in failure THEN <<e, e>> ELSE <<e>>)
    /\ Goto(r, "return")
    /\ UNCHANGED <<route, refusal, httpVars, lost, failed, mainVars>>

Audit(r) ==
    /\ Alive /\ pc[r] = "audit"
    /\ Log(r, Recorded(r), HasError(r))
    /\ Goto(r, "return")
    /\ UNCHANGED <<route, refusal, httpVars, mainVars>>

\* The handler returns; net/http supplies the status if none was written.
HandlerReturns(r) ==
    /\ Alive /\ pc[r] = "return"
    /\ sent' = [sent EXCEPT ![r] = IF @ = 0 THEN 200 ELSE @]
    /\ Goto(r, "done")
    /\ UNCHANGED <<route, refusal, rec, failure, noted, forwarded, auditVars, mainVars>>

--------------------------------------------------------------------------
(* main: SIGTERM, Shutdown with its deadline, then the deferred Closes *)

InFlight == {r \in Requests : pc[r] \notin {"absent", "done", "aborted"}}

requestVars == <<pc, route, refusal, httpVars, auditVars>>

Signal ==
    /\ server = "serving"
    /\ server' = "draining"
    /\ UNCHANGED <<requestVars, auditor, wedged>>

\* ListenAndServe fails: run() returns without a Shutdown.
ListenFails ==
    /\ server = "serving"
    /\ server' = "expired"
    /\ UNCHANGED <<requestVars, auditor, wedged>>

\* srv.Shutdown returns: every handler has returned.
Drained ==
    /\ server = "draining" /\ InFlight = {}
    /\ server' = "drained"
    /\ UNCHANGED <<requestVars, auditor, wedged>>

\* srv.Shutdown with context.Background() (a mutant).
DrainNeverExpires == server = "draining" /\ InFlight # {} /\ FALSE /\ UNCHANGED vars

\* srv.Shutdown gives up after five seconds.
DrainExpires ==
    /\ server = "draining" /\ InFlight # {}
    /\ server' = "expired"
    /\ UNCHANGED <<requestVars, auditor, wedged>>

\* An idle coprocess stops reacting; it may never have been asked to scan.
\* Only gw.Close will notice, so the last moment before it is enough.
CoprocessWedges ==
    /\ server \in {"drained", "expired"} /\ ~wedged
    /\ wedged' = TRUE
    /\ UNCHANGED <<requestVars, auditor, server>>

\* The deferred gw.Close, which waits for the exit of every idle coprocess
\* (Scanner has the details).
CloseGateway ==
    /\ server \in {"drained", "expired"} /\ ~wedged
    /\ server' = IF server = "drained" THEN "closing" ELSE "abandoning"
    /\ UNCHANGED <<requestVars, auditor, wedged>>

\* auditor.Close as soon as the signal is there (a mutant).
CloseAuditorEarly ==
    /\ server \in {"draining", "closing", "abandoning"} /\ auditor = "open"
    /\ auditor' = "closed"
    /\ UNCHANGED <<requestVars, wedged, server>>

\* The deferred auditor.Close, for an auditor that writes to a file.
CloseAuditor ==
    /\ server \in {"closing", "abandoning"} /\ auditor = "open"
    /\ auditor' = "closed"
    /\ UNCHANGED <<requestVars, wedged, server>>

\* run() returns and takes the remaining handlers with it.
Exit ==
    /\ server \in {"closing", "abandoning"} /\ auditor = "closed"
    /\ server' = "exited"
    /\ UNCHANGED <<requestVars, auditor, wedged>>

--------------------------------------------------------------------------

Handle(r) ==
    \/ ServeUnaudited(r)
    \/ Lookup(r) \/ Limit(r) \/ LogRefusal(r) \/ AnswerRefusal(r)
    \/ Connect(r) \/ RoundTripFails(r)
    \/ Audit(r) \/ HandlerReturns(r)

\* What waits for the upstream or the client.
Peer(r) ==
    \/ Arrive(r) \/ Decide(r) \/ BodySent(r) \/ SendFails(r)
    \/ Inform(r) \/ HeadersCome(r) \/ Respond(r) \/ InspectFails(r)
    \/ StreamEnds(r) \/ StreamBreaks(r)

Shutdown == Drained \/ DrainExpires \/ CloseGateway \/ CloseAuditor \/ Exit

Exited == server = "exited" /\ UNCHANGED vars

\* gw.Close is still waiting for a coprocess that does not exit.
CloseHangs == server \in {"drained", "expired"} /\ wedged /\ UNCHANGED vars

Next ==
    \/ \E r \in Requests : Handle(r) \/ Peer(r)
    \/ CoprocessWedges \/ Signal \/ ListenFails \/ Shutdown
    \/ Exited \/ CloseHangs

Spec == Init /\ [][Next]_vars

\* Handlers run, the timeouts of the transport fire (RoundTripFails: those of
\* the dial, and the one of the headers once the request is written) and so
\* does the deadline of Shutdown.  Nothing is assumed of clients and upstreams
\* (a request may never be written to its end, a stream may stay open for
\* ever), the disk or the operator.
Fairness ==
    /\ \A r \in Requests : WF_vars(Handle(r))
    /\ WF_vars(Shutdown)

FairSpec == Spec /\ Fairness

--------------------------------------------------------------------------
(* Properties *)

Entries(r) == {i \in DOMAIN log : log[i].req = r}

Lost(r) == lost[r] # "no"

Proxied(r) == route[r] \in {"stranger", "upstream"}

\* The shape of the state.
TypeOK ==
    /\ pc \in [Requests -> {"absent", "route", "limit", "peek", "refuse", "answer", "dial",
                            "sending", "upstream", "modify", "stream", "audit", "return", "done", "aborted"}]
    /\ route \in [Requests -> Routes]
    /\ refusal \in [Requests -> {0, 403, 404, 429}]
    /\ rec \in [Requests -> {0, 103, 403, 502} \cup Finals]
    /\ sent \in [Requests -> {0, 403, 404, 429, 502} \cup Finals]
    /\ forwarded \subseteq Requests /\ failure \subseteq Requests
    /\ noted \subseteq Requests
    /\ lost \in [Requests -> {"no", "sink", "closed"}]
    /\ log \in Seq([req : Requests, status : Nat, error : BOOLEAN])
    /\ failed \in BOOLEAN /\ wedged \in BOOLEAN
    /\ auditor \in {"open", "closed"}
    /\ server \in {"serving", "draining", "drained", "expired", "closing", "abandoning",
                   "exited"}

\* A request whose handler has come to its end has exactly one entry, or is
\* one whose entry the sink refused; a request that is still under way has
\* at most the one its refusal wrote, and no other request has any
\* (handleProxy, "one Entry per handled /mcp request").
OneEntryEach ==
    \A r \in Requests :
        /\ Cardinality(Entries(r)) + (IF Lost(r) THEN 1 ELSE 0) <= 1
        /\ (Proxied(r) /\ pc[r] \in {"return", "answer", "done"}) =>
               Cardinality(Entries(r)) + (IF Lost(r) THEN 1 ELSE 0) = 1
        /\ ~Proxied(r) => Entries(r) = {} /\ ~Lost(r)

\* A refused request (unknown upstream, rate limit, tool policy) never
\* reaches an upstream, and it is in the audit log, with the status of the
\* refusal, before the client is told (README, "blocked + audited, never
\* reaches upstream").
RefusedIsContained ==
    \A r \in Requests : refusal[r] # 0 =>
        /\ r \notin forwarded
        /\ sent[r] # 0 =>
              \/ Lost(r)
              \/ \E i \in Entries(r) : log[i].status = sent[r] /\ log[i].error

\* An orderly stop loses nothing: no entry meets a closed auditor unless
\* Shutdown gave up on its handler, or the listener failed, first.  The
\* Closes that follow a completed Shutdown find no handler that could still
\* want to write (main: the order of Shutdown and the defers).
StopLosesNothing ==
    (\E r \in Requests : lost[r] = "closed") =>
        server \in {"expired", "abandoning", "exited"}

\* The transport waits for an upstream only so long: one that cannot be
\* reached meets the timeouts of the dial, and one that has been sent the
\* whole request and never answers the header timeout (defaultHeaderTimeout),
\* unless the process exits first.  Between the two, while the request is
\* being sent, the code has no limit and none is claimed.
HeadersArrive ==
    \A r \in Requests :
        (pc[r] \in {"dial", "upstream"}) ~> (pc[r] \notin {"dial", "upstream"} \/ ~Alive)

\* A stop request stops the process, open streams and clients that never
\* finish their request notwithstanding (main: Shutdown has a deadline),
\* unless a coprocess does not exit on EOF: gw.Close waits for that one
\* without a limit.
SignalStops == (server = "draining") ~> (server = "exited" \/ wedged)

\* An entry is true.  Its status is the one the client was sent, for
\* refusals, for answers of the upstream and of the gateway and for failures,
\* but for an informational response that came first, which is what the
\* entry of such an exchange holds (README, audit schema: "HTTP status
\* returned to the client"); and the entry of an exchange that failed says
\* so, whatever the status (README, "Failure honesty").
EntryIsTrue ==
    \A i \in DOMAIN log : LET r == log[i].req IN
        /\ pc[r] = "done" => log[i].status \in {sent[r], 103}
        /\ (r \in failure \/ sent[r] = 502) => log[i].error

\* "Every proxied request produces exactly one audit entry" (package doc):
\* no handler for /mcp ends without one while the sink is good.
NoneWithoutEntry ==
    \A r \in Requests :
        (Proxied(r) /\ pc[r] \in {"done", "aborted"} /\ ~Lost(r)) => Entries(r) # {}

Trail == INSTANCE Ledger WITH
            Items <- Requests,
            recorded <- [i \in DOMAIN log |-> log[i].req],
            gone <- {r \in Requests : Lost(r) \/ pc[r] = "aborted"}

\* The handlers together keep a trail: no request is entered twice, entries
\* are never taken back or reordered, and a request whose entry was lost, or
\* whose stream was aborted, never gets one later (handleProxy calls Log at
\* one point of each path).
LedgerSpec == Trail!Spec
==========================================================================
