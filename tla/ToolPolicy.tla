---------------------------- MODULE ToolPolicy ----------------------------
(***************************************************************************)
(* What the gateway learns from a request body (gateway/jsonrpc.go) and    *)
(* what an upstream's tool policy says about it (gateway/policy.go).       *)
(*                                                                         *)
(* A request body is [kind, msgs]: "single" (one message), "batch" (one or *)
(* more), "none" (no body or only blanks: no message) or "invalid" (not    *)
(* JSON, an empty batch, or longer than the peek).  A message has a        *)
(* method, an id (NoId for a notification or a null id) and, for           *)
(* tools/call, a tool name (NoName when params hold none).                 *)
(* A policy is [mode, tools]; mode "none" is the nil *toolPolicy.          *)
(***************************************************************************)
EXTENDS Naturals, Sequences, FiniteSets

CONSTANTS
    Tools,      \* tool names
    NoName,     \* a tool name that is absent or not parseable
    NoId        \* an id that is absent or null

Names == Tools \cup {NoName}

--------------------------------------------------------------------------
(* summarizeRPC *)

IsCall(m) == m.method = "tools/call"

HasID(m) == m.id # NoId

\* The ids of the messages with the given method; they are only looked up.
IDsOf(msgs, method) ==
    {msgs[i].id : i \in {j \in DOMAIN msgs : msgs[j].method = method /\ HasID(msgs[j])}}

\* params.name of every tools/call that has one, by the place of the message.
NamesOf(msgs) ==
    [i \in {j \in DOMAIN msgs : IsCall(msgs[j]) /\ msgs[j].name # NoName} |-> msgs[i].name]

Summary(msgs) ==
    [Tools        |-> NamesOf(msgs),
     ToolCalls    |-> Cardinality({i \in DOMAIN msgs : IsCall(msgs[i])}),
     ToolsListIDs |-> IDsOf(msgs, "tools/list"),
     ToolsCallIDs |-> IDsOf(msgs, "tools/call"),
     Invalid      |-> FALSE]

summarizeRPC(body) ==
    IF body.kind = "invalid"
    THEN [Summary(<<>>) EXCEPT !.Invalid = TRUE]
    ELSE Summary(body.msgs)

--------------------------------------------------------------------------
(* toolPolicy *)

\* allows: may clients see and call this tool?
allows(policy, name) ==
    CASE policy.mode = "none"  -> TRUE
      [] policy.mode = "allow" -> name \in policy.tools
      [] policy.mode = "deny"  -> name \notin policy.tools

\* A tools/call without a name: len(sum.Tools) counts the named ones.
Nameless(sum) == sum.ToolCalls > Cardinality(DOMAIN sum.Tools)

\* blockReason looking at the first call of a batch only (a mutant).
BlockedByFirst(policy, sum) ==
    \/ policy.mode = "allow" /\ (sum.Invalid \/ Nameless(sum))
    \/ /\ policy.mode # "none"
       /\ \E i \in DOMAIN sum.Tools : /\ \A j \in DOMAIN sum.Tools : i <= j
                                      /\ ~allows(policy, sum.Tools[i])

\* blockReason(sum) # "": the allowlist is default-deny, the deny list is
\* best-effort; one blocked tool rejects the whole request.
Blocked(policy, sum) ==
    \/ policy.mode = "allow" /\ (sum.Invalid \/ Nameless(sum))
    \/ policy.mode # "none" /\ \E i \in DOMAIN sum.Tools : ~allows(policy, sum.Tools[i])
==========================================================================
