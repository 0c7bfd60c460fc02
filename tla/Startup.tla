------------------------------ MODULE Startup ------------------------------
(***************************************************************************)
(* From the command line to a gateway that serves: run() of                *)
(* cmd/mcp-gateway-lite/main.go up to ListenAndServe, New and Close of     *)
(* gateway/gateway.go and prepareLock of gateway/lock.go, while captures   *)
(* and other programs (LockInit) write the lockfile.                       *)
(*                                                                         *)
(* gw is one process at a time; after it has ended another may be started. *)
(* Its maps are keyed by the name of an upstream, as in the code.  The     *)
(* pool of coprocesses that newScanner starts for the upstream at i is i.  *)
(***************************************************************************)
EXTENDS LockInit

CONSTANTS
    FileConfigs,    \* the upstreams a --config file may hold
    FlagLists,      \* sequences of <<name, url>>, the --upstream flags
    LockPath        \* the path of the lockfile

ASSUME StartupAssumption ==
    /\ \A c \in FileConfigs : c \in Seq(Upstream)
    /\ \A flags \in FlagLists : flags \in Seq(STRING \X STRING)

VARIABLE gw

vars == <<captureVars, gw>>

NewGateway ==
    [pc |-> "idle", ups |-> <<>>, at |-> 1, routes |-> Nothing, limits |-> Nothing,
     policies |-> Nothing, locks |-> Nothing, scanners |-> Nothing, cache |-> Nothing,
     running |-> {}, reads |-> {}, lockError |-> FALSE]

Init == CaptureInit /\ gw = NewGateway

GwAt(where) == gw.pc = where

--------------------------------------------------------------------------
(* run(), before New *)

FlagUpstreams(flags) ==
    [i \in DOMAIN flags |-> ParseUpstreamFlag(flags[i][1], flags[i][2])]

\* Load, which validates the file alone, the --upstream flags, Validate of
\* the whole, the end of --check, and NewAuditor, which may fail.
Run ==
    /\ GwAt("idle")
    /\ \E c \in FileConfigs \cup {None}, flags \in FlagLists, checkOnly, auditOpens \in BOOLEAN :
          LET ups == (IF c = None THEN <<>> ELSE c) \o FlagUpstreams(flags)
              valid == (c # None => Validate(c)) /\ Validate(ups) IN
          gw' = IF valid /\ ~checkOnly /\ auditOpens
                THEN [gw EXCEPT !.pc = "build", !.ups = ups]
                ELSE [gw EXCEPT !.pc = "ended"]
    /\ UNCHANGED captureVars

--------------------------------------------------------------------------
(* New, one upstream after the other *)

\* prepareLock that reads the file for every upstream (a mutant).
ReadLockAlways(path) ==
    IF path = LockPath /\ loadLockFile THEN Put(Nothing, path, file.servers) ELSE Nothing

\* The cache of prepareLock after it has looked for path, without path if
\* the file does not load.
ReadLock(path) ==
    IF path \in DOMAIN gw.cache THEN gw.cache
    ELSE IF path = LockPath /\ loadLockFile
         THEN Put(gw.cache, path, file.servers) ELSE gw.cache

ServerOf(u) == IF u.ToolsLock.Server = "" THEN u.Name ELSE u.ToolsLock.Server

\* prepareLock finds a record with a tools capture.
LockFound(u, cache) ==
    /\ u.ToolsLock.File \in DOMAIN cache
    /\ LET servers == cache[u.ToolsLock.File] IN
       ServerOf(u) \in DOMAIN servers /\ servers[ServerOf(u)].capture # "none"

\* The preparedLock, as a lock of ToolsLock with its record's url.
prepareLock(u, cache) ==
    LET rec == cache[u.ToolsLock.File][ServerOf(u)] IN
    [mode |-> IF u.ToolsLock.Mode = "warn" THEN "warn" ELSE "enforce",
     detail |-> rec.capture = "detail", list |-> rec.list, url |-> rec.url,
     server |-> ServerOf(u)]

\* m[name] = v, if it is wanted.
WithEntry(f, name, wanted, v) == IF wanted THEN Put(f, name, v) ELSE f

\* The maps of g after the entries of u that cannot fail; limits stands for
\* limits and sessionLimits.
Routed(u) ==
    [gw EXCEPT !.routes = Put(@, u.Name, u.URL),
               !.limits = WithEntry(@, u.Name, u.RateLimit # None, u.RateLimit),
               !.policies = WithEntry(@, u.Name, newToolPolicy(u).mode # "none", newToolPolicy(u))]

\* ... and after its lock.
Locked(u) ==
    IF u.ToolsLock = None THEN Routed(u)
    ELSE LET cache == ReadLock(u.ToolsLock.File) IN
         [Routed(u) EXCEPT !.cache = cache, !.reads = @ \cup {cache[p] : p \in DOMAIN cache},
                           !.locks = Put(@, u.Name, prepareLock(u, cache))]

LockFails(u) == u.ToolsLock # None /\ ~LockFound(u, ReadLock(u.ToolsLock.File))

Current == gw.ups[gw.at]

\* All parts of one upstream are built.
BuildUpstream ==
    /\ GwAt("build")
    /\ ~LockFails(Current)
    /\ LET u == Current IN
       gw' = [Locked(u) EXCEPT
                 !.scanners = WithEntry(@, u.Name, Scans(u),
                                        [pool |-> gw.at, settings |-> ScanSettings(u.PromptProof)]),
                 !.running = IF Scans(u) THEN @ \cup {gw.at} ELSE @,
                 !.at = IF @ = Len(gw.ups) THEN @ ELSE @ + 1,
                 !.pc = IF gw.at = Len(gw.ups) THEN "serve" ELSE "build"]
    /\ UNCHANGED captureVars

\* prepareLock fails: New returns nil, and nobody closes what it has built.
LockFailed ==
    /\ GwAt("build")
    /\ LockFails(Current)
    /\ gw' = [NewGateway EXCEPT !.pc = "failed", !.ups = gw.ups, !.running = gw.running,
                                !.lockError = TRUE]
    /\ UNCHANGED captureVars

\* A failed New and a returned run() leave no maps behind, only processes.

\* New that returns without Close (a mutant).
ScannerFailedLeaves ==
    /\ GwAt("build")
    /\ ~LockFails(Current) /\ Scans(Current)
    /\ gw' = [NewGateway EXCEPT !.pc = "failed", !.ups = gw.ups, !.running = gw.running]
    /\ UNCHANGED captureVars

\* Gateway.Close shuts down the pools that the map of scanners knows.
Closed(g) == [g EXCEPT !.running = @ \ {g.scanners[n].pool : n \in DOMAIN g.scanners}]

\* newScanner fails: it has closed its own pool, New closes the others.
ScannerFailed ==
    /\ GwAt("build")
    /\ ~LockFails(Current) /\ Scans(Current)
    /\ gw' = [NewGateway EXCEPT !.pc = "failed", !.ups = gw.ups, !.running = Closed(gw).running]
    /\ UNCHANGED captureVars

--------------------------------------------------------------------------
(* The end *)

\* The address is taken, or a signal has come and Shutdown has returned: the
\* deferred Close.
StopServing ==
    /\ GwAt("serve")
    /\ gw' = [NewGateway EXCEPT !.pc = "stopped", !.ups = gw.ups, !.running = Closed(gw).running]
    /\ UNCHANGED captureVars

\* The process ends, and with it the coprocesses whose pipes it held.
ProcessEnds ==
    /\ gw.pc \in {"failed", "stopped"}
    /\ gw' = [NewGateway EXCEPT !.pc = "ended"]
    /\ UNCHANGED captureVars

Restart ==
    /\ GwAt("ended")
    /\ gw' = NewGateway
    /\ UNCHANGED captureVars

--------------------------------------------------------------------------

Next ==
    \/ \E p \in Captures :
          \/ Begin(p) /\ UNCHANGED gw
          \/ Page(p) /\ UNCHANGED gw
          \/ RPCFails(p) /\ UNCHANGED gw
          \/ Record(p) /\ UNCHANGED gw
          \/ Truncate(p) /\ UNCHANGED gw
          \/ Write(p) /\ UNCHANGED gw
          \/ WriteFails(p) /\ UNCHANGED gw
          \/ Killed(p) /\ UNCHANGED gw
    \/ \E url \in DOMAIN Offers : Upgrade(url) /\ UNCHANGED gw
    \/ SentinelStep /\ UNCHANGED gw
    \/ RemoveFile /\ UNCHANGED gw
    \/ Run \/ BuildUpstream \/ LockFailed \/ ScannerFailed
    \/ StopServing \/ ProcessEnds \/ Restart

Spec == Init /\ [][Next]_vars /\ CaptureFairness

--------------------------------------------------------------------------
(* Properties *)

\* A gateway that serves has, for each upstream of its configuration, a
\* route to its own URL and every protection configured for it, and its
\* scanner is the one that was started for it: no other upstream of the file
\* or of a flag has taken its place in the maps, which are keyed by name
\* (Validate, called again after the flags were appended).
NoProtectionLost ==
    GwAt("serve") =>
        \A i \in DOMAIN gw.ups : LET u == gw.ups[i] n == gw.ups[i].Name IN
            /\ gw.routes[n] = u.URL
            /\ IF u.RateLimit = None THEN n \notin DOMAIN gw.limits ELSE gw.limits[n] = u.RateLimit
            /\ IF newToolPolicy(u).mode = "none" THEN n \notin DOMAIN gw.policies
               ELSE gw.policies[n] = newToolPolicy(u)
            /\ IF u.ToolsLock = None THEN n \notin DOMAIN gw.locks
               ELSE gw.locks[n].server = ServerOf(u)
            /\ Scans(u) => n \in DOMAIN gw.scanners /\ gw.scanners[n].pool = i

\* All locks of one gateway come from one state of the lockfile, even if it
\* is written while New runs (lockCache).
OneSnapshot ==
    gw.locks # Nothing =>
        \E servers \in gw.reads : \A n \in DOMAIN gw.locks :
            LET l == gw.locks[n] IN
            l.server \in DOMAIN servers /\ servers[l.server].list = l.list

\* The pools of coprocesses that run are those that Close would reach, and a
\* New that failed has shut down all of them, except on an error of
\* prepareLock ("New calls it on a mid-construction error").
PoolsAreReachable ==
    ~gw.lockError =>
        /\ gw.running \subseteq {gw.scanners[n].pool : n \in DOMAIN gw.scanners}
        /\ gw.pc \in {"failed", "stopped"} => gw.running = {}

\* Entries i..j of a tools array: a page of it.
Pages(list) == {SubSeq(list, i, j) : i \in 1..(Len(list) + 1), j \in 0..Len(list)}

\* A server that still offers the tools array it has offered all along is
\* never taken for a drifted one, from the capture of its pages over merges,
\* failed and repeated captures to the lock of a gateway: with a record of
\* its own URL every page of it verifies, or the whole array if the record
\* has only the digest (fetchAllTools, LockInit, prepareLock and verify
\* together).
UnchangedIsAccepted ==
    \A i \in DOMAIN gw.ups : LET u == gw.ups[i] IN
        (u.Name \in DOMAIN gw.locks /\ gw.locks[u.Name].url = u.URL /\ Len(versions[u.URL]) = 1) =>
            LET l == gw.locks[u.Name] IN
            IF l.detail THEN \A page \in Pages(Offered(u.URL)) : Verifies(l, page)
            ELSE Verifies(l, Offered(u.URL))
===========================================================================
