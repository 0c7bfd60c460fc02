----------------------------- MODULE MCStartup -----------------------------
(* Two upstreams, a lockfile, two captures, a gateway that may be started  *)
(* again and again, and mcp-sentinel.                                      *)
EXTENDS Startup, TLC

Plain(name, url) == ParseUpstreamFlag(name, url)

Lock(server, mode) == [File |-> "lock", Server |-> server, Mode |-> mode]

Scan(pool) ==
    [Enabled |-> TRUE, Threshold |-> "", Action |-> "", SuspiciousAt |-> 0,
     DangerousAt |-> 0, Pool |-> pool]

\* An upstream with everything, one with the lock record of another server,
\* and one that Validate refuses.
A == [Plain("a", "http://a") EXCEPT
         !.RateLimit = [RequestsPerSecond |-> 1, Burst |-> 1, PerSession |-> TRUE],
         !.ToolsAllow = <<"t">>, !.ToolsLock = Lock("", ""), !.PromptProof = Scan(1)]
B == [Plain("b", "http://b") EXCEPT !.ToolsLock = Lock("", "warn"), !.PromptProof = Scan(0)]
C == [Plain("b", "http://b") EXCEPT !.ToolsDeny = <<"t">>, !.ToolsLock = Lock("x", "enforce")]
Bad == [A EXCEPT !.ToolsDeny = <<"u">>]

CONSTANTS p, q      \* two invocations of --lock-init

\* Both write the record "a", each from a server of its own.
MCCaptureConfigs ==
    (p :> {<<Plain("a", "http://a"), Plain("b", "http://b")>>, <<Plain("", "http://a")>>}) @@
    (q :> {<<Plain("a", "http://b")>>})
MCFileConfigs == {<<A, B>>, <<C>>, <<Bad>>, <<>>}
MCFlagLists == {<<>>, <<<<"a", "http://b">>>>}

T(name, form) == [name |-> name, form |-> form]

\* A server of two tools arrays, one of them with a name twice, and one with
\* no tools. The first may change twice while its three pages are read.
MCOffers ==
    ("http://a" :> {<<T("t", "v1"), T("u", "v1"), T("w", "v1")>>, <<T("u", "v1"), T("u", "v2")>>}) @@
    ("http://b" :> {<<>>})

MCSentinelRuns ==
    {[server |-> "x", url |-> "http://b", capture |-> "digest"],
     [server |-> "a", url |-> "http://a", capture |-> "digest"],
     [server |-> "b", url |-> "http://b", capture |-> "none"]}

MCLower == [n \in {"a", "b", "x"} |-> n]
============================================================================
