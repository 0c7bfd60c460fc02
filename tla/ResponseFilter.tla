-------------------------- MODULE ResponseFilter --------------------------
(***************************************************************************)
(* One exchange with an upstream that has a tool policy, a tools_lock or a *)
(* scanner: the policy decision on the request (handleProxy), and what     *)
(* modifyResponse, processJSONBody and the SSE rewriter do to the response *)
(* (gateway/responsefilter.go, gateway/sserewrite.go), message by message. *)
(* How SSE bytes become events is the business of SSERewriter.             *)
(*                                                                         *)
(* A response is [status, type, form, big, parts].  Its parts are the JSON *)
(* body (form "single"), the entries of a JSON batch (form "batch"; form   *)
(* "broken" for an array that does not parse) or the data of the SSE       *)
(* events.  big says that the JSON body is longer than maxRPCPeek.  A part *)
(* is an "object", an "array" of messages or "junk" that is no JSON at     *)
(* all; big says that the SSE event is longer than maxRPCPeek.  An object  *)
(* has an id, whether it is an error, the shape of its result ("list" with *)
(* its entries elems, or why there is none) and, in says, the verdict that *)
(* promptproof would give ("fail" for a Scan that returns an error).  An   *)
(* "error" part is one the gateway made up.                                *)
(***************************************************************************)
EXTENDS Integers, ToolPolicy, ToolsLock

CONSTANTS
    Ids,        \* JSON-RPC ids
    Confs,      \* upstream configurations: [policy, lock, scanner]
    Bodies,     \* request bodies
    Responses   \* what the upstream may answer

Message == [method : STRING, id : Ids \cup {NoId}, name : Names]

Body == [kind : {"single", "batch", "none", "invalid"}, msgs : Seq(Message)]

ToolEntry == [name : Names, form : STRING]

Verdicts == {"ok", "suspicious", "dangerous"}

Object ==
    [kind : {"object"}, id : Ids \cup {NoId}, error : BOOLEAN, shape : STRING,
     elems : Seq(ToolEntry), says : Verdicts \cup {"fail"}, big : BOOLEAN]

NoObject ==
    [kind : {"junk"}, big : BOOLEAN] \cup [kind : {"array"}, msgs : Seq(Object), big : BOOLEAN]

Response ==
    [status : Nat, type : {"json", "sse", "other"}, form : {"single", "batch", "broken"},
     big : BOOLEAN, parts : Seq(Object \cup NoObject)]

Policy == [mode : {"none", "allow", "deny"}, tools : SUBSET Tools]

Lock == [mode : {"none", "warn", "enforce"}, detail : BOOLEAN, list : Seq(ToolEntry)]

Scanner == [on : BOOLEAN, threshold : {1, 2}, action : {"block", "flag"}]

ASSUME ResponseAssumption ==
    /\ NoName \notin Tools /\ NoId \notin Ids
    /\ \A c \in Confs : c \in [policy : Policy, lock : Lock, scanner : Scanner]
    /\ \A b \in Bodies : b \in Body
    /\ \A r \in Responses : r \in Response

\* JSON-RPC error codes
PolicyCode == -32003
LockCode == -32004
ScanCode == -32005

\* No remark in the audit entry, no header: the empty string.
Unset == ""

NoPolicy == [mode |-> "none", tools |-> {}]
NoLock == [mode |-> "none", detail |-> FALSE, list |-> <<>>]
NoScanner == [on |-> FALSE, threshold |-> 2, action |-> "block"]

VARIABLES
    conf,       \* the upstream's configuration
    phase,      \* where the exchange is
    body,       \* the request body
    resp,       \* the upstream's response
    st,         \* the rewriteState, outcome fields included
    at,         \* how many parts have been processed
    status,     \* the HTTP status the client gets, 0 before
    shown,      \* the parts the client gets
    header      \* X-PromptProof-Verdict, Unset when it is not set

vars == <<conf, phase, body, resp, st, at, status, shown, header>>

--------------------------------------------------------------------------
(* rewriteState *)

Clean == [ids |-> {}, scanIDs |-> {}, policy |-> NoPolicy, lock |-> NoLock,
          scanner |-> NoScanner, strict |-> FALSE, active |-> FALSE,
          filtered |-> 0, drift |-> FALSE, note |-> Unset, verdict |-> "ok",
          blocked |-> FALSE, flagged |-> FALSE, err |-> FALSE]

\* "else if needScan" the other way round: what is scanned is not listed (a
\* mutant).
rewriteStateEither(c, sum) ==
    LET needList == /\ c.policy.mode # "none" \/ c.lock.mode # "none"
                    /\ sum.ToolsListIDs # {}
        needScan == c.scanner.on /\ sum.ToolsCallIDs # {}
    IN  [Clean EXCEPT
           !.active  = needList \/ needScan,
           !.strict  = c.policy.mode = "allow" \/ c.lock.mode = "enforce",
           !.ids     = IF needList /\ ~needScan THEN sum.ToolsListIDs ELSE {},
           !.policy  = IF needList /\ ~needScan THEN c.policy ELSE NoPolicy,
           !.lock    = IF needList /\ ~needScan THEN c.lock ELSE NoLock,
           !.scanIDs = IF needScan THEN sum.ToolsCallIDs ELSE {},
           !.scanner = IF needScan THEN c.scanner ELSE NoScanner]

\* handleProxy: the state attached to the request, if it needs one.
rewriteState(c, sum) ==
    LET needList == /\ c.policy.mode # "none" \/ c.lock.mode # "none"
                    /\ sum.ToolsListIDs # {}
        needScan == c.scanner.on /\ sum.ToolsCallIDs # {}
    IN  [Clean EXCEPT
           !.active  = needList \/ needScan,
           !.strict  = c.policy.mode = "allow" \/ c.lock.mode = "enforce",
           !.ids     = IF needList THEN sum.ToolsListIDs ELSE {},
           !.policy  = IF needList THEN c.policy ELSE NoPolicy,
           !.lock    = IF needList THEN c.lock ELSE NoLock,
           !.scanIDs = IF needScan THEN sum.ToolsCallIDs ELSE {},
           !.scanner = IF needScan THEN c.scanner ELSE NoScanner]

noteOnce(s, reason) == IF s.note = Unset THEN [s EXCEPT !.note = reason] ELSE s

strictCode(s) ==
    IF s.policy.mode # "allow" /\ s.lock.mode = "enforce" THEN LockCode ELSE PolicyCode

verdictRank(v) ==
    CASE v = "suspicious" -> 1
      [] v = "dangerous"  -> 2
      [] OTHER            -> 0

--------------------------------------------------------------------------
(* msgOutcome: what becomes of one part, with the state it leaves *)

Pass(s, m) == [act |-> "pass", part |-> m, state |-> s, code |-> 0, note |-> Unset]

Rewrite(s, m) == [act |-> "rewrite", part |-> m, state |-> s, code |-> 0, note |-> Unset]

ErrorPart(id, code) == [kind |-> "error", id |-> id, code |-> code]

Block(s, m, code, reason) ==
    [act |-> "block", part |-> ErrorPart(m.id, code), state |-> s,
     code |-> code, note |-> reason]

\* recordScan keeping the last verdict (a mutant).
RecordLast(s, v) == [s EXCEPT !.verdict = v]

\* recordScan keeps the worst verdict.
recordScan(s, v) ==
    IF verdictRank(v) > verdictRank(s.verdict) THEN [s EXCEPT !.verdict = v] ELSE s

triggers(s, v) == verdictRank(v) >= s.scanner.threshold

scanMessage(s, m) ==
    IF m.error \/ m.shape = "missing" THEN Pass(s, m)
    ELSE IF m.says = "fail"
    THEN Pass(noteOnce([s EXCEPT !.err = TRUE], "scan error"), m)
    ELSE LET r == recordScan(s, m.says) IN
         IF ~triggers(s, m.says) THEN Pass(r, m)
         ELSE IF s.scanner.action = "flag" THEN Pass([r EXCEPT !.flagged = TRUE], m)
         ELSE Block(noteOnce([r EXCEPT !.blocked = TRUE], "scan block"), m, ScanCode, "scan block")

\* The entries that the policy takes out: those with a name it does not allow.
Removed(s, elems) ==
    {i \in DOMAIN elems : elems[i].name # NoName /\ ~allows(s.policy, elems[i].name)}

\* The entries that stay, each at the place the server gave it.
Kept(s, elems) == Restrict(elems, DOMAIN elems \ Removed(s, elems))

\* The drift check on what is left after filtering (a mutant).
DriftedAfterFilter(s, elems) ==
    s.lock.mode # "none"
        /\ ~Verifies(s.lock, SelectSeq(elems, LAMBDA e : e.name = NoName \/ allows(s.policy, e.name)))

\* The lock is checked against the tools exactly as the server sent them.
Drifted(s, elems) == s.lock.mode # "none" /\ ~Verifies(s.lock, elems)

Unnamed(elems) == \E i \in DOMAIN elems : elems[i].name = NoName

\* examineList without the strict rule for nameless entries (a mutant).
examineListLax(s, m) ==
    IF Drifted(s, m.elems) /\ s.lock.mode = "enforce"
    THEN Block([s EXCEPT !.drift = TRUE], m, LockCode, "drift")
    ELSE Rewrite([s EXCEPT !.filtered = @ + Cardinality(Removed(s, m.elems))],
                 [m EXCEPT !.elems = Kept(s, m.elems)])

\* A tools/list result that is an array: verify, then filter.
examineList(s, m) ==
    LET d == IF Drifted(s, m.elems)
             THEN noteOnce([s EXCEPT !.drift = TRUE], "drift") ELSE s
        removed == Cardinality(Removed(s, m.elems))
    IN  IF Drifted(s, m.elems) /\ s.lock.mode = "enforce"
        THEN Block(d, m, LockCode, "drift")
        ELSE IF s.strict /\ Unnamed(m.elems)
        THEN Block(d, m, strictCode(s), "strict")
        ELSE IF removed = 0 THEN Pass(d, m)
        ELSE Rewrite([d EXCEPT !.filtered = @ + removed], [m EXCEPT !.elems = Kept(s, m.elems)])

examineMessage(s, m) ==
    IF m.id \notin s.ids \/ m.error THEN Pass(s, m)
    ELSE IF m.shape # "list"
    THEN IF s.strict THEN Block(s, m, strictCode(s), "strict") ELSE Pass(s, m)
    ELSE examineList(s, m)

\* A tools/call id goes to the scanner, everything else to examineMessage;
\* what is no object has no id and passes.
handleMessage(s, m) ==
    IF m.kind # "object" THEN Pass(s, m)
    ELSE IF m.id \in s.scanIDs THEN scanMessage(s, m)
    ELSE examineMessage(s, m)

--------------------------------------------------------------------------

Init ==
    /\ conf \in Confs
    /\ phase = "request"
    /\ body \in Bodies
    /\ resp = [status |-> 0, type |-> "other", form |-> "single", big |-> FALSE, parts |-> <<>>]
    /\ st = Clean
    /\ at = 0
    /\ status = 0
    /\ shown = <<>>
    /\ header = Unset

\* handleProxy up to the tool policy: refused with 403, never forwarded.
Refuse ==
    /\ phase = "request"
    /\ Blocked(conf.policy, summarizeRPC(body))
    /\ phase' = "done" /\ status' = 403
    /\ shown' = <<ErrorPart(NoId, PolicyCode)>>
    /\ UNCHANGED <<conf, body, resp, st, at, header>>

\* handleProxy: the request is forwarded with its rewriteState.
Forward ==
    /\ phase = "request"
    /\ ~Blocked(conf.policy, summarizeRPC(body))
    /\ st' = rewriteState(conf, summarizeRPC(body))
    /\ phase' = "forwarded"
    /\ UNCHANGED <<conf, body, resp, at, status, shown, header>>

\* The upstream's response headers and body become available.
Respond ==
    /\ phase = "forwarded"
    /\ resp' \in Responses
    /\ phase' = "modify"
    /\ UNCHANGED <<conf, body, st, at, status, shown, header>>

\* modifyResponse announces the verdict of a flagged JSON response; an SSE
\* response has sent its headers before anything is scanned.
VerdictHeader(s) == IF s.flagged /\ resp.type = "json" THEN s.verdict ELSE Unset

\* blockResponseCode: the whole response becomes a 403.
BlockResponse(s, code, reason) ==
    /\ st' = noteOnce(s, reason)
    /\ status' = 403
    /\ shown' = <<ErrorPart(NoId, code)>>
    /\ phase' = "done"
    /\ header' = VerdictHeader(s)
    /\ UNCHANGED <<conf, body, resp, at>>

\* The response goes to the client as it is.
PassResponse ==
    /\ status' = resp.status
    /\ shown' = resp.parts
    /\ phase' = "done"
    /\ UNCHANGED <<conf, body, resp, st, at, header>>

\* Whether modifyResponse has something to do with the response at all.
Candidate == st.active /\ resp.status = 200

\* What processing needs and the response lacks: a content type it knows, a
\* JSON body within the cap and, for an array, JSON.
Unreadable ==
    \/ resp.type = "other"
    \/ resp.type = "json" /\ (resp.big \/ resp.form = "broken")

\* modifyResponse on a response it leaves alone.
ModifyNothing ==
    /\ phase = "modify"
    /\ ~Candidate \/ (Unreadable /\ ~st.strict)
    /\ PassResponse

\* modifyResponse and processJSONBody on a response they cannot inspect.
ModifyRefuse ==
    /\ phase = "modify"
    /\ Candidate /\ Unreadable /\ st.strict
    /\ BlockResponse(st, strictCode(st), "strict")

\* processJSONBody starts on the messages, or the SSE rewriter is installed.
ModifyStart ==
    /\ phase = "modify"
    /\ Candidate /\ ~Unreadable
    /\ phase' = resp.type
    /\ UNCHANGED <<conf, body, resp, st, at, status, shown, header>>

Part == resp.parts[at + 1]

\* A block of one message that leaves the rest of the batch (a mutant).
JSONMessageAlone ==
    /\ phase = "json" /\ at < Len(resp.parts)
    /\ LET o == handleMessage(st, Part) IN
          /\ st' = noteOnce(o.state, o.note)
          /\ shown' = Append(shown, o.part)
          /\ at' = at + 1
    /\ UNCHANGED <<conf, phase, body, resp, status, header>>

\* processJSONBody, one message.  A block ends it for the whole body.
JSONMessage ==
    /\ phase = "json" /\ at < Len(resp.parts)
    /\ LET o == handleMessage(st, Part) IN
       \/ /\ o.act = "block"
          /\ BlockResponse(o.state, o.code, o.note)
       \/ /\ o.act # "block" /\ Part.kind # "object" /\ st.strict
          /\ BlockResponse(o.state, strictCode(st), "strict")
       \/ /\ o.act # "block" /\ (Part.kind = "object" \/ ~st.strict)
          /\ st' = o.state
          /\ shown' = Append(shown, o.part)
          /\ at' = at + 1
          /\ UNCHANGED <<conf, phase, body, resp, status, header>>

\* finishEvent, or the cap for an event that is too big: a block replaces
\* the event and the stream goes on.
SSEEvent ==
    /\ phase = "sse" /\ at < Len(resp.parts)
    /\ LET o == handleMessage(st, Part) IN
       \/ /\ Part.big /\ st.strict
          /\ st' = noteOnce(st, "strict")
          /\ shown' = Append(shown, ErrorPart(NoId, strictCode(st)))
       \/ /\ Part.big /\ ~st.strict
          /\ shown' = Append(shown, Part)
          /\ UNCHANGED st
       \/ /\ ~Part.big
          /\ st' = IF o.act = "block" THEN noteOnce(o.state, o.note) ELSE o.state
          /\ shown' = Append(shown, o.part)
    /\ at' = at + 1
    /\ UNCHANGED <<conf, phase, body, resp, status, header>>

\* The last part is out.
Complete ==
    /\ phase \in {"json", "sse"} /\ at = Len(resp.parts)
    /\ phase' = "done" /\ status' = 200
    /\ header' = VerdictHeader(st)
    /\ UNCHANGED <<conf, body, resp, st, at, shown>>

Done == phase = "done" /\ UNCHANGED vars

Next ==
    \/ Refuse \/ Forward \/ Respond
    \/ ModifyNothing \/ ModifyRefuse \/ ModifyStart
    \/ JSONMessage \/ SSEEvent \/ Complete
    \/ Done

Spec == Init /\ [][Next]_vars

--------------------------------------------------------------------------
(* Properties *)

Msgs == IF body.kind = "invalid" THEN <<>> ELSE body.msgs

ListIDs == IDsOf(Msgs, "tools/list")

ScannedIDs == IF conf.scanner.on THEN IDsOf(Msgs, "tools/call") ELSE {}

\* No call that the policy forbids is forwarded: under an allowlist every
\* tools/call of the request names an allowed tool and the body was
\* readable; under a deny list no tools/call names a denied tool (README,
\* "one blocked tool rejects the whole request").
ForwardedIsAllowed ==
    (phase # "request" /\ (phase = "done" => status # 403)) =>
        /\ conf.policy.mode = "allow" =>
               /\ body.kind # "invalid"
               /\ \A i \in DOMAIN Msgs : IsCall(Msgs[i]) => Msgs[i].name \in conf.policy.tools
        /\ conf.policy.mode = "deny" =>
               \A i \in DOMAIN Msgs : IsCall(Msgs[i]) => Msgs[i].name \notin conf.policy.tools

\* A call of the named tool, as a request of its own.
CallOf(name) ==
    [kind |-> "single", msgs |-> <<[method |-> "tools/call", id |-> NoId, name |-> name]>>]

\* What one delivered message tells the client of the tools: nothing in it
\* is a tool the policy would block, nor, under an allowlist, nameless.
Callable(m) ==
    \A i \in DOMAIN m.elems :
        IF m.elems[i].name = NoName THEN conf.policy.mode # "allow"
        ELSE ~Blocked(conf.policy, summarizeRPC(CallOf(m.elems[i].name)))

\* A part of a response that was inspected and that answers tools/list.
Listing(p) ==
    p.kind = "object" /\ ~p.error /\ p.shape = "list" /\ p.id \in ListIDs

Inspected == resp.status = 200 /\ (conf.policy.mode = "allow" \/ ~Unreadable)

\* Clients never see tools they cannot call: what a tools/list answer shows
\* is what blockReason would let through, on the JSON and the SSE path, for
\* every policy, unless the id was also used for a tools/call, and except
\* for a batch in one SSE event (examineMessage against blockReason).
VisibleIsCallable ==
    Inspected => \A i \in DOMAIN shown :
        (Listing(shown[i]) /\ shown[i].id \notin ScannedIDs
            /\ (conf.policy.mode = "allow" \/ ~shown[i].big)) => Callable(shown[i])

\* With an enforced lock no listing that fails verification reaches the
\* client, not even the part of it that the policy would have kept
\* (examineMessage: the lock is checked before the filter).
DriftNeverShown ==
    (conf.lock.mode = "enforce" /\ resp.status = 200) => \A i \in DOMAIN shown :
        (Listing(shown[i]) /\ shown[i].id \notin ScannedIDs) =>
            Verifies(conf.lock, resp.parts[i].elems)

\* The audit entry says tools_drift exactly when a listing that was examined
\* differs from the lock, whether or not the policy then removed the tool
\* that drifted, and in warn mode too; there is then a reason in the entry,
\* the drift or a remark that came before it.
DriftIsRecorded ==
    LET Examined == IF status = 403 THEN at + 1 ELSE at
        Differs(i) == /\ i <= Len(resp.parts)
                      /\ Listing(resp.parts[i]) /\ resp.parts[i].id \notin ScannedIDs
                      /\ ~(resp.type = "sse" /\ resp.parts[i].big)
                      /\ conf.lock.mode # "none" /\ ~Verifies(conf.lock, resp.parts[i].elems)
    IN  (st.active /\ Candidate /\ ~Unreadable) =>
            /\ st.drift <=> \E i \in 1..Examined : Differs(i)
            /\ st.drift => st.note # Unset

\* The entries of part p that are missing from q, which the client got for it.
Hidden(p, q) ==
    IF p.kind = "object" /\ q.kind = "object" THEN DOMAIN p.elems \ DOMAIN q.elems ELSE {}

\* The entries that the client did not get, over all listings of the response.
HiddenEntries == UNION {{i} \X Hidden(resp.parts[i], shown[i]) : i \in DOMAIN shown}

\* Batches are all or nothing and streams go on: a JSON response is either
\* complete or a single error with status 403; an SSE response has one event
\* for each of the upstream's, in order; what does not answer a tools/list or
\* tools/call of this request is handed on with its content unchanged (the
\* other members of a batch that is changed are marshalled anew, so not
\* always byte for byte); and tools_filtered is
\* the number of entries the client did not get, over all listings of the
\* response, each of them one that the policy forbids (processJSONBody,
\* finishEvent).
DeliveredWhole ==
    /\ (phase = "done" /\ status # 403) => Len(shown) = Len(resp.parts)
    /\ (resp.type = "json" /\ st.active) =>
           \A i \in DOMAIN shown : shown[i].kind = "error" => status = 403 /\ Len(shown) = 1
    /\ (resp.type = "sse" /\ resp.status = 200) => status # 403
    /\ status # 403 =>
           /\ \A i \in DOMAIN shown :
                 (resp.parts[i].kind = "object" /\ ~resp.parts[i].big
                     /\ resp.parts[i].id \notin ListIDs \cup ScannedIDs) => shown[i] = resp.parts[i]
           /\ st.filtered = Cardinality(HiddenEntries)
           /\ \A e \in HiddenEntries : ~allows(conf.policy, resp.parts[e[1]].elems[e[2]].name)

\* Part i is a tool result that was delivered, and it is bad enough.
ReachesThreshold(i) ==
    /\ shown[i].kind = "object" /\ ~shown[i].big /\ shown[i].id \in ScannedIDs
    /\ ~shown[i].error /\ shown[i].shape # "missing"
    /\ verdictRank(shown[i].says) >= conf.scanner.threshold

\* A verdict is acted on, whichever messages surround the result: with the
\* block action no result whose verdict reaches the threshold is delivered;
\* with the flag action a JSON client is told, and told nothing milder than
\* the worst of the results it is given (scanMessage, modifyResponse).
VerdictIsActedOn ==
    (conf.scanner.on /\ Candidate /\ ~Unreadable) =>
        \A i \in DOMAIN shown : ReachesThreshold(i) =>
            /\ conf.scanner.action = "flag"
            /\ (phase = "done" /\ resp.type = "json")
                   => verdictRank(header) >= verdictRank(shown[i].says)
==========================================================================
