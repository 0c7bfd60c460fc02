--------------------------- MODULE StartupProofs ---------------------------
(***************************************************************************)
(* Proofs about the construction of a gateway (Startup), for every         *)
(* configuration file, every list of flags and every number of upstreams,  *)
(* whatever is written into the lockfile meanwhile.                        *)
(***************************************************************************)
EXTENDS Startup, TLAPS

\* gw has the fields that NewGateway gives it.
ShapeInv ==
    gw = [pc |-> gw.pc, ups |-> gw.ups, at |-> gw.at, routes |-> gw.routes, limits |-> gw.limits,
          policies |-> gw.policies, locks |-> gw.locks, scanners |-> gw.scanners,
          cache |-> gw.cache, running |-> gw.running, reads |-> gw.reads,
          lockError |-> gw.lockError]

\* The upstreams that New is through with.
Built == IF gw.pc = "serve" THEN 1..Len(gw.ups) ELSE 1..(gw.at - 1)

BuiltNames == {gw.ups[i].Name : i \in Built}

\* The entries of upstream i in the maps.
Protected(i) ==
    LET u == gw.ups[i] n == gw.ups[i].Name IN
    /\ n \in DOMAIN gw.routes /\ gw.routes[n] = u.URL
    /\ IF u.RateLimit = None THEN n \notin DOMAIN gw.limits
       ELSE n \in DOMAIN gw.limits /\ gw.limits[n] = u.RateLimit
    /\ IF newToolPolicy(u).mode = "none" THEN n \notin DOMAIN gw.policies
       ELSE n \in DOMAIN gw.policies /\ gw.policies[n] = newToolPolicy(u)
    /\ IF u.ToolsLock = None THEN n \notin DOMAIN gw.locks
       ELSE n \in DOMAIN gw.locks /\ gw.locks[n].server = ServerOf(u)
    /\ Scans(u) => n \in DOMAIN gw.scanners /\ gw.scanners[n].pool = i

\* Names are told apart, and New goes through the upstreams in order.
OrderInv ==
    /\ DOMAIN gw.ups = 1..Len(gw.ups) /\ Len(gw.ups) \in Nat /\ gw.at \in 1..Len(gw.ups)
    /\ \A i, j \in DOMAIN gw.ups : gw.ups[i].Name = gw.ups[j].Name => i = j

\* What has been built, and that nothing else has.
BuildInv ==
    gw.pc \in {"build", "serve"} =>
        /\ OrderInv
        /\ \A i \in Built : Protected(i)
        /\ DOMAIN gw.limits \subseteq BuiltNames /\ DOMAIN gw.policies \subseteq BuiltNames
        /\ DOMAIN gw.locks \subseteq BuiltNames

\* The pools that run are those of upstreams that have been built.
PoolInv ==
    gw.lockError = FALSE =>
        IF gw.pc \in {"build", "serve"}
        THEN \A i \in gw.running : i \in Built /\ Scans(gw.ups[i])
        ELSE gw.running = {}

\* The cache has one file, the locks come from it, and it was read.
CacheInv ==
    /\ DOMAIN gw.cache \subseteq {LockPath}
    /\ LockPath \in DOMAIN gw.cache => gw.cache[LockPath] \in gw.reads
    /\ gw.locks = Nothing \/ LockPath \in DOMAIN gw.cache
    /\ \A n \in DOMAIN gw.locks :
          /\ gw.locks[n].server \in DOMAIN gw.cache[LockPath]
          /\ gw.cache[LockPath][gw.locks[n].server].list = gw.locks[n].list

\* Where New has not begun there is nothing, and its error is that of a failure.
PhaseInv ==
    /\ gw.lockError \in BOOLEAN
    /\ gw.pc = "idle" => gw = NewGateway
    /\ gw.lockError = TRUE => gw.pc = "failed"

\* The properties say nothing about a New that is under way: the invariant
\* says for how many of the upstreams they hold already, and that the maps
\* hold nothing of the others.
StartupInv == ShapeInv /\ PhaseInv /\ BuildInv /\ PoolInv /\ CacheInv

--------------------------------------------------------------------------

\* Assignment to an entry of a map.
LEMMA PutFacts ==
    ASSUME NEW m, NEW k, NEW v
    PROVE  /\ DOMAIN Put(m, k, v) = DOMAIN m \cup {k} /\ Put(m, k, v)[k] = v
           /\ \A x \in DOMAIN m : x # k => Put(m, k, v)[x] = m[x]
BY DEF Put

\* The entries of other names stay.
LEMMA OtherEntries ==
    ASSUME NEW m, NEW k, NEW v, NEW w, w = m \/ w = Put(m, k, v), NEW x, x # k
    PROVE  (x \in DOMAIN w <=> x \in DOMAIN m) /\ (x \in DOMAIN m => w[x] = m[x])
BY DEF Put

\* A gateway that holds no maps: before New, or after it has failed or the
\* gateway was closed.
LEMMA Unbuilt ==
    ASSUME ShapeInv', gw'.pc \notin {"idle", "build", "serve"},
           gw'.cache = Nothing, gw'.locks = Nothing, gw'.lockError \in BOOLEAN,
           gw'.lockError = FALSE => gw'.running = {},
           gw'.lockError = TRUE => gw'.pc = "failed"
    PROVE  StartupInv'
<1>1. DOMAIN Nothing = {}
  BY DEF Nothing
<1>2. QED
  BY <1>1 DEF StartupInv, PhaseInv, BuildInv, PoolInv, CacheInv

\* The same before the first call of New and after a restart.
LEMMA Beginning ==
    ASSUME gw = NewGateway
    PROVE  StartupInv
<1>1. /\ gw.pc = "idle" /\ gw.running = {} /\ gw.lockError = FALSE /\ gw.cache = Nothing
      /\ gw.locks = Nothing
  BY DEF NewGateway
<1>2. ShapeInv
  BY DEF NewGateway, ShapeInv
<1>3. DOMAIN Nothing = {}
  BY DEF Nothing
<1>4. QED
  BY <1>1, <1>2, <1>3 DEF StartupInv, PhaseInv, BuildInv, PoolInv, CacheInv

\* The upstreams of the file and of the flags are one sequence.
LEMMA AllUpstreams ==
    ASSUME NEW c \in FileConfigs \cup {None}, NEW flags \in FlagLists, NEW ups,
           ups = (IF c = None THEN <<>> ELSE c) \o FlagUpstreams(flags)
    PROVE  DOMAIN ups = 1..Len(ups) /\ Len(ups) \in Nat
<1>1. PICK f : f = FlagUpstreams(flags)
  OBVIOUS
<1>2. PICK S : S = {f[i] : i \in DOMAIN f}
  OBVIOUS
<1>3. flags \in Seq(STRING \X STRING)
  BY StartupAssumption
<1>4. f = [i \in DOMAIN flags |-> f[i]] /\ DOMAIN f = 1..Len(flags) /\ Len(flags) \in Nat
  BY <1>1, <1>3 DEF FlagUpstreams
<1>5. f \in Seq(S)
  BY <1>2, <1>4
<1>6. PICK d : d = IF c = None THEN <<>> ELSE c
  OBVIOUS
<1>7. d \in Seq(Upstream)
  BY <1>6, StartupAssumption
<1>8. d \in Seq(Upstream \cup S) /\ f \in Seq(Upstream \cup S)
  BY <1>5, <1>7
<1>9. ups = d \o f /\ ups \in Seq(Upstream \cup S)
  BY <1>1, <1>6, <1>8
<1>10. QED
  BY <1>9

\* Validate tells the upstreams apart by their names.
LEMMA ValidNames ==
    ASSUME NEW ups, Validate(ups), DOMAIN ups = 1..Len(ups), Len(ups) \in Nat
    PROVE  Len(ups) # 0 /\ \A i, j \in DOMAIN ups : ups[i].Name = ups[j].Name => i = j
<1>1. ups # <<>> /\ \A i, j \in DOMAIN ups : Lower[ups[i].Name] = Lower[ups[j].Name] => i = j
  BY Zenon DEF Validate
<1>2. QED
  BY <1>1

\* run() up to New.
LEMMA RunKeeps ==
    ASSUME StartupInv, Run
    PROVE  StartupInv'
<1>1. PICK c \in FileConfigs \cup {None}, flags \in FlagLists, checkOnly \in BOOLEAN, opens \in BOOLEAN :
        LET ups == (IF c = None THEN <<>> ELSE c) \o FlagUpstreams(flags)
            valid == (c # None => Validate(c)) /\ Validate(ups) IN
        gw' = IF valid /\ ~checkOnly /\ opens
              THEN [gw EXCEPT !.pc = "build", !.ups = ups]
              ELSE [gw EXCEPT !.pc = "ended"]
  BY DEF Run
<1>2. PICK ups : ups = (IF c = None THEN <<>> ELSE c) \o FlagUpstreams(flags)
  OBVIOUS
<1>3. \/ Validate(ups) /\ gw' = [gw EXCEPT !.pc = "build", !.ups = ups]
      \/ gw' = [gw EXCEPT !.pc = "ended"]
  BY <1>1, <1>2
<1>4. gw = NewGateway
  BY DEF Run, GwAt, StartupInv, PhaseInv
<1>5. CASE gw' = [gw EXCEPT !.pc = "ended"]
  <2>1. /\ gw'.pc = "ended" /\ gw'.cache = Nothing /\ gw'.locks = Nothing
        /\ gw'.lockError = FALSE /\ gw'.running = {}
    BY <1>4, <1>5 DEF NewGateway
  <2>2. ShapeInv'
    BY <1>4, <1>5 DEF NewGateway, ShapeInv
  <2>3. QED
    BY <2>1, <2>2, Unbuilt
<1>6. CASE Validate(ups) /\ gw' = [gw EXCEPT !.pc = "build", !.ups = ups]
  <2>1. /\ gw'.pc = "build" /\ gw'.ups = ups /\ gw'.at = 1 /\ gw'.running = {}
        /\ gw'.lockError = FALSE /\ gw'.cache = Nothing /\ gw'.locks = Nothing
        /\ gw'.limits = Nothing /\ gw'.policies = Nothing
    BY <1>4, <1>6 DEF NewGateway
  <2>2. ShapeInv'
    BY <1>4, <1>6 DEF NewGateway, ShapeInv
  <2>3. DOMAIN Nothing = {} /\ Built' = {}
    BY <2>1 DEF Nothing, Built
  <2>4. DOMAIN ups = 1..Len(ups) /\ Len(ups) \in Nat
    BY <1>2, AllUpstreams
  <2>5. Len(ups) # 0 /\ \A i, j \in DOMAIN ups : ups[i].Name = ups[j].Name => i = j
    BY <1>6, <2>4, ValidNames
  <2>6. OrderInv'
    BY <2>1, <2>4, <2>5 DEF OrderInv
  <2>7. QED
    BY <2>1, <2>2, <2>3, <2>6 DEF StartupInv, PhaseInv, BuildInv, PoolInv, CacheInv
<1>7. QED
  BY <1>3, <1>5, <1>6

\* What New does to its maps for the upstream u at gw.at, field by field.
LEMMA BuildFields ==
    ASSUME ShapeInv, BuildUpstream, NEW u, u = Current, NEW n, n = u.Name, NEW g, g = gw',
           NEW cache, cache = ReadLock(u.ToolsLock.File)
    PROVE  /\ ShapeInv' /\ g.ups = gw.ups /\ g.lockError = gw.lockError
           /\ g.at = (IF gw.at = Len(gw.ups) THEN gw.at ELSE gw.at + 1)
           /\ g.pc = (IF gw.at = Len(gw.ups) THEN "serve" ELSE "build")
           /\ g.routes = Put(gw.routes, n, u.URL)
           /\ \/ u.RateLimit = None /\ g.limits = gw.limits
              \/ u.RateLimit # None /\ g.limits = Put(gw.limits, n, u.RateLimit)
           /\ \/ newToolPolicy(u).mode = "none" /\ g.policies = gw.policies
              \/ newToolPolicy(u).mode # "none" /\ g.policies = Put(gw.policies, n, newToolPolicy(u))
           /\ \/ /\ u.ToolsLock = None
                 /\ g.locks = gw.locks /\ g.cache = gw.cache /\ g.reads = gw.reads
              \/ /\ u.ToolsLock # None /\ LockFound(u, cache)
                 /\ g.locks = Put(gw.locks, n, prepareLock(u, cache)) /\ g.cache = cache
                 /\ g.reads = gw.reads \cup {cache[p] : p \in DOMAIN cache}
           /\ \/ ~Scans(u) /\ g.scanners = gw.scanners /\ g.running = gw.running
              \/ \E s : /\ Scans(u) /\ s.pool = gw.at /\ g.scanners = Put(gw.scanners, n, s)
                        /\ g.running = gw.running \cup {gw.at}
<1>1. PICK r : r = Routed(u)
  OBVIOUS
<1>2. PICK l : l = Locked(u)
  OBVIOUS
<1>3. PICK s : s = [pool |-> gw.at, settings |-> ScanSettings(u.PromptProof)]
  OBVIOUS
<1>4. g = [l EXCEPT !.scanners = WithEntry(@, n, Scans(u), s),
                    !.running = IF Scans(u) THEN @ \cup {gw.at} ELSE @,
                    !.at = IF @ = Len(gw.ups) THEN @ ELSE @ + 1,
                    !.pc = IF gw.at = Len(gw.ups) THEN "serve" ELSE "build"]
  BY <1>2, <1>3, Zenon DEF BuildUpstream
<1>5. r = [gw EXCEPT !.routes = Put(@, n, u.URL),
                     !.limits = WithEntry(@, n, u.RateLimit # None, u.RateLimit),
                     !.policies = WithEntry(@, n, newToolPolicy(u).mode # "none", newToolPolicy(u))]
  BY <1>1, Zenon DEF Routed
<1>6. PICK limits : limits = WithEntry(gw.limits, n, u.RateLimit # None, u.RateLimit)
  OBVIOUS
<1>7. PICK policies : policies = WithEntry(gw.policies, n, newToolPolicy(u).mode # "none", newToolPolicy(u))
  OBVIOUS
<1>8. /\ r.pc = gw.pc /\ r.ups = gw.ups /\ r.at = gw.at /\ r.routes = Put(gw.routes, n, u.URL)
      /\ r.limits = limits /\ r.policies = policies
      /\ r.locks = gw.locks /\ r.scanners = gw.scanners /\ r.cache = gw.cache
      /\ r.running = gw.running /\ r.reads = gw.reads /\ r.lockError = gw.lockError
      /\ r = [pc |-> r.pc, ups |-> r.ups, at |-> r.at, routes |-> r.routes, limits |-> r.limits,
              policies |-> r.policies, locks |-> r.locks, scanners |-> r.scanners,
              cache |-> r.cache, running |-> r.running, reads |-> r.reads, lockError |-> r.lockError]
  BY <1>5, <1>6, <1>7 DEF ShapeInv
<1>9. /\ \/ u.ToolsLock = None /\ l = r
         \/ /\ u.ToolsLock # None
            /\ l = [r EXCEPT !.cache = cache, !.reads = @ \cup {cache[p] : p \in DOMAIN cache},
                             !.locks = Put(@, n, prepareLock(u, cache))]
  BY <1>1, <1>2 DEF Locked
<1>10. /\ l.pc = gw.pc /\ l.ups = gw.ups /\ l.at = gw.at /\ l.routes = Put(gw.routes, n, u.URL)
       /\ l.limits = limits /\ l.policies = policies /\ l.scanners = gw.scanners
       /\ l.running = gw.running /\ l.lockError = gw.lockError
       /\ \/ /\ u.ToolsLock = None
             /\ l.locks = gw.locks /\ l.cache = gw.cache /\ l.reads = gw.reads
          \/ /\ u.ToolsLock # None
             /\ l.locks = Put(gw.locks, n, prepareLock(u, cache)) /\ l.cache = cache
             /\ l.reads = gw.reads \cup {cache[p] : p \in DOMAIN cache}
       /\ l = [pc |-> l.pc, ups |-> l.ups, at |-> l.at, routes |-> l.routes, limits |-> l.limits,
               policies |-> l.policies, locks |-> l.locks, scanners |-> l.scanners,
               cache |-> l.cache, running |-> l.running, reads |-> l.reads, lockError |-> l.lockError]
  <2>1. CASE u.ToolsLock = None /\ l = r
    BY <1>8, <2>1
  <2>2. CASE /\ u.ToolsLock # None
             /\ l = [r EXCEPT !.cache = cache, !.reads = @ \cup {cache[p] : p \in DOMAIN cache},
                              !.locks = Put(@, n, prepareLock(u, cache))]
    BY <1>8, <2>2
  <2>3. QED
    BY <1>9, <2>1, <2>2
<1>11. PICK scanners : scanners = WithEntry(gw.scanners, n, Scans(u), s)
  OBVIOUS
<1>12. PICK running : running = IF Scans(u) THEN gw.running \cup {gw.at} ELSE gw.running
  OBVIOUS
<1>13. /\ g.ups = gw.ups /\ g.lockError = gw.lockError
       /\ g.at = (IF gw.at = Len(gw.ups) THEN gw.at ELSE gw.at + 1)
       /\ g.pc = (IF gw.at = Len(gw.ups) THEN "serve" ELSE "build")
       /\ g.routes = l.routes /\ g.limits = limits /\ g.policies = policies
       /\ g.locks = l.locks /\ g.cache = l.cache /\ g.reads = l.reads
       /\ g.scanners = scanners /\ g.running = running
       /\ g = [pc |-> g.pc, ups |-> g.ups, at |-> g.at, routes |-> g.routes, limits |-> g.limits,
               policies |-> g.policies, locks |-> g.locks, scanners |-> g.scanners,
               cache |-> g.cache, running |-> g.running, reads |-> g.reads, lockError |-> g.lockError]
  <2>1. PICK at : at = IF gw.at = Len(gw.ups) THEN gw.at ELSE gw.at + 1
    OBVIOUS
  <2>2. PICK pc : pc = IF gw.at = Len(gw.ups) THEN "serve" ELSE "build"
    OBVIOUS
  <2>3. g = [l EXCEPT !.scanners = scanners, !.running = running, !.at = at, !.pc = pc]
    BY <1>4, <1>10, <1>11, <1>12, <2>1, <2>2, Zenon
  <2>4. /\ g.ups = gw.ups /\ g.lockError = gw.lockError /\ g.at = at /\ g.pc = pc
        /\ g.routes = l.routes /\ g.limits = limits /\ g.policies = policies
        /\ g.locks = l.locks /\ g.cache = l.cache /\ g.reads = l.reads
        /\ g.scanners = scanners /\ g.running = running
    BY <1>10, <2>3
  <2>5. g = [pc |-> g.pc, ups |-> g.ups, at |-> g.at, routes |-> g.routes, limits |-> g.limits,
             policies |-> g.policies, locks |-> g.locks, scanners |-> g.scanners,
             cache |-> g.cache, running |-> g.running, reads |-> g.reads, lockError |-> g.lockError]
    BY <1>10, <2>3
  <2>6. QED
    BY <2>1, <2>2, <2>4, <2>5
<1>14. ShapeInv'
  BY <1>13 DEF ShapeInv
<1>15. \/ u.RateLimit = None /\ limits = gw.limits
       \/ u.RateLimit # None /\ limits = Put(gw.limits, n, u.RateLimit)
  BY <1>6 DEF WithEntry
<1>16. \/ newToolPolicy(u).mode = "none" /\ policies = gw.policies
       \/ newToolPolicy(u).mode # "none" /\ policies = Put(gw.policies, n, newToolPolicy(u))
  BY <1>7 DEF WithEntry
<1>17. \/ ~Scans(u) /\ scanners = gw.scanners /\ running = gw.running
       \/ Scans(u) /\ scanners = Put(gw.scanners, n, s) /\ running = gw.running \cup {gw.at}
  BY <1>11, <1>12 DEF WithEntry
<1>18. u.ToolsLock # None => LockFound(u, cache)
  BY DEF BuildUpstream, LockFails
<1>19. s.pool = gw.at
  BY <1>3
<1>20. QED
  BY <1>10, <1>13, <1>14, <1>15, <1>16, <1>17, <1>18, <1>19

\* What prepareLock takes from its cache (lockCache): the file is read once.
LEMMA CacheFacts ==
    ASSUME CacheInv, NEW u, NEW cache, cache = ReadLock(u.ToolsLock.File), LockFound(u, cache)
    PROVE  /\ u.ToolsLock.File = LockPath /\ DOMAIN cache = {LockPath}
           /\ LockPath \in DOMAIN gw.cache => cache = gw.cache
           /\ prepareLock(u, cache).server = ServerOf(u) /\ ServerOf(u) \in DOMAIN cache[LockPath]
           /\ prepareLock(u, cache).list = cache[LockPath][ServerOf(u)].list
<1>1. \/ cache = gw.cache
      \/ /\ u.ToolsLock.File \notin DOMAIN gw.cache /\ u.ToolsLock.File = LockPath
         /\ cache = Put(gw.cache, LockPath, file.servers)
  BY DEF ReadLock
<1>2. DOMAIN gw.cache \subseteq {LockPath}
  BY DEF CacheInv
<1>3. DOMAIN Put(gw.cache, LockPath, file.servers) = DOMAIN gw.cache \cup {LockPath}
  BY PutFacts
<1>4. DOMAIN cache \subseteq {LockPath}
  BY <1>1, <1>2, <1>3
<1>5. /\ u.ToolsLock.File \in DOMAIN cache
      /\ ServerOf(u) \in DOMAIN cache[u.ToolsLock.File]
  BY DEF LockFound
<1>6. u.ToolsLock.File = LockPath /\ DOMAIN cache = {LockPath}
  BY <1>4, <1>5
<1>7. /\ prepareLock(u, cache).server = ServerOf(u)
      /\ prepareLock(u, cache).list = cache[u.ToolsLock.File][ServerOf(u)].list
  BY DEF prepareLock
<1>8. QED
  BY <1>1, <1>5, <1>6, <1>7

\* New for one upstream: what was built stays, and its own entries are new.
LEMMA BuildKeeps ==
    ASSUME StartupInv, BuildUpstream
    PROVE  StartupInv'
<1> USE DEF StartupInv
<1>0. PICK k : k = gw.at
  OBVIOUS
<1>1. PICK u : u = Current
  OBVIOUS
<1>2. PICK n : n = u.Name
  OBVIOUS
<1>3. PICK g : g = gw'
  OBVIOUS
<1>4. PICK cache : cache = ReadLock(u.ToolsLock.File)
  OBVIOUS
<1>5. /\ ShapeInv' /\ g.ups = gw.ups /\ g.lockError = gw.lockError
      /\ g.at = (IF gw.at = Len(gw.ups) THEN gw.at ELSE gw.at + 1)
      /\ g.pc = (IF gw.at = Len(gw.ups) THEN "serve" ELSE "build")
      /\ g.routes = Put(gw.routes, n, u.URL)
  BY <1>1, <1>2, <1>3, <1>4, BuildFields
<1>6. /\ \/ u.RateLimit = None /\ g.limits = gw.limits
         \/ u.RateLimit # None /\ g.limits = Put(gw.limits, n, u.RateLimit)
      /\ \/ newToolPolicy(u).mode = "none" /\ g.policies = gw.policies
         \/ newToolPolicy(u).mode # "none" /\ g.policies = Put(gw.policies, n, newToolPolicy(u))
  BY <1>1, <1>2, <1>3, <1>4, BuildFields
<1>7. \/ /\ u.ToolsLock = None
         /\ g.locks = gw.locks /\ g.cache = gw.cache /\ g.reads = gw.reads
      \/ /\ u.ToolsLock # None /\ LockFound(u, cache)
         /\ g.locks = Put(gw.locks, n, prepareLock(u, cache)) /\ g.cache = cache
         /\ g.reads = gw.reads \cup {cache[p] : p \in DOMAIN cache}
  BY <1>1, <1>2, <1>3, <1>4, BuildFields
<1>8. \/ ~Scans(u) /\ g.scanners = gw.scanners /\ g.running = gw.running
      \/ \E s : /\ Scans(u) /\ s.pool = gw.at /\ g.scanners = Put(gw.scanners, n, s)
                /\ g.running = gw.running \cup {gw.at}
  BY <1>1, <1>2, <1>3, <1>4, BuildFields
<1>9. /\ gw.pc = "build" /\ OrderInv /\ gw.at \in 1..Len(gw.ups) /\ Len(gw.ups) \in Nat
      /\ DOMAIN gw.ups = 1..Len(gw.ups) /\ gw.lockError = FALSE
      /\ u = gw.ups[gw.at]
  BY <1>1 DEF BuildUpstream, GwAt, BuildInv, PhaseInv, OrderInv, Current
<1>10. Built = 1..(gw.at - 1) /\ Built' = 1..gw.at
  <2>1. Built = 1..(gw.at - 1)
    BY <1>9 DEF Built
  <2>2. CASE gw.at = Len(gw.ups)
    BY <1>3, <1>5, <2>1, <2>2 DEF Built
  <2>3. CASE gw.at # Len(gw.ups)
    <3>1. g.pc = "build" /\ g.at = gw.at + 1 /\ g.at - 1 = gw.at
      BY <1>5, <1>9, <2>3
    <3>2. QED
      BY <1>3, <2>1, <3>1 DEF Built
  <2>4. QED
    BY <2>2, <2>3
<1>11. OrderInv'
  <2>1. g.at \in 1..Len(gw.ups)
    BY <1>5, <1>9
  <2>2. QED
    BY <1>3, <1>5, <1>9, <2>1 DEF OrderInv
<1>12. /\ \A i \in 1..gw.at : i \in 1..(gw.at - 1) \/ i = gw.at
       /\ 1..gw.at \subseteq 1..Len(gw.ups) /\ gw.at \in 1..gw.at
       /\ 1..(gw.at - 1) \subseteq 1..gw.at /\ gw.at \notin 1..(gw.at - 1)
  BY <1>9
<1>13. \A i \in Built : gw.ups[i].Name # n
  BY <1>2, <1>9, <1>10, <1>12 DEF OrderInv
<1>14. n \notin DOMAIN gw.limits /\ n \notin DOMAIN gw.policies /\ n \notin DOMAIN gw.locks
  BY <1>9, <1>13 DEF BuildInv, BuiltNames
<1>15. u.ToolsLock # None => prepareLock(u, cache).server = ServerOf(u)
  BY <1>4, <1>7, CacheFacts
<1>16. PICK s : g.scanners = gw.scanners \/ g.scanners = Put(gw.scanners, n, s)
  BY <1>8
<1>17. ASSUME NEW i \in Built PROVE Protected(i)'
  <2>1. Protected(i)
    BY <1>9 DEF BuildInv
  <2>2. PICK v : v = gw.ups[i]
    OBVIOUS
  <2>3. PICK m : m = v.Name /\ m # n
    BY <1>13, <2>2
  <2>4. m \in DOMAIN g.routes /\ g.routes[m] = v.URL
    BY <1>5, <2>1, <2>2, <2>3 DEF Protected, Put
  <2>5. IF v.RateLimit = None THEN m \notin DOMAIN g.limits
        ELSE m \in DOMAIN g.limits /\ g.limits[m] = v.RateLimit
    BY <1>6, <2>1, <2>2, <2>3, OtherEntries DEF Protected
  <2>6. IF newToolPolicy(v).mode = "none" THEN m \notin DOMAIN g.policies
        ELSE m \in DOMAIN g.policies /\ g.policies[m] = newToolPolicy(v)
    BY <1>6, <2>1, <2>2, <2>3, OtherEntries DEF Protected
  <2>7. IF v.ToolsLock = None THEN m \notin DOMAIN g.locks
        ELSE m \in DOMAIN g.locks /\ g.locks[m].server = ServerOf(v)
    BY <1>7, <2>1, <2>2, <2>3, OtherEntries DEF Protected
  <2>8. Scans(v) => m \in DOMAIN g.scanners /\ g.scanners[m].pool = i
    BY <1>16, <2>1, <2>2, <2>3, OtherEntries DEF Protected
  <2>9. gw'.ups[i] = v
    BY <1>3, <1>5, <2>2
  <2>10. QED
    BY <1>3, <2>3, <2>4, <2>5, <2>6, <2>7, <2>8, <2>9 DEF Protected
<1>18. Protected(k)'
  <2>1. n \in DOMAIN g.routes /\ g.routes[n] = u.URL
    BY <1>5 DEF Put
  <2>2. IF u.RateLimit = None THEN n \notin DOMAIN g.limits
        ELSE n \in DOMAIN g.limits /\ g.limits[n] = u.RateLimit
    BY <1>6, <1>14 DEF Put
  <2>3. IF newToolPolicy(u).mode = "none" THEN n \notin DOMAIN g.policies
        ELSE n \in DOMAIN g.policies /\ g.policies[n] = newToolPolicy(u)
    BY <1>6, <1>14 DEF Put
  <2>4. IF u.ToolsLock = None THEN n \notin DOMAIN g.locks
        ELSE n \in DOMAIN g.locks /\ g.locks[n].server = ServerOf(u)
    BY <1>7, <1>14, <1>15 DEF Put
  <2>5. Scans(u) => n \in DOMAIN g.scanners /\ g.scanners[n].pool = gw.at
    BY <1>8 DEF Put
  <2>6. gw'.ups[k] = u
    BY <1>0, <1>3, <1>5, <1>9
  <2>7. QED
    BY <1>0, <1>2, <1>3, <2>1, <2>2, <2>3, <2>4, <2>5, <2>6 DEF Protected
<1>19. g.pc \in {"build", "serve"}
  BY <1>5
<1>20. /\ BuiltNames' = BuiltNames \cup {n}
  BY <1>2, <1>3, <1>5, <1>9, <1>10, <1>12 DEF BuiltNames
<1>21. BuildInv'
  <2>1. \A i \in Built' : Protected(i)'
    BY <1>0, <1>10, <1>12, <1>17, <1>18
  <2>2. /\ DOMAIN g.limits \subseteq BuiltNames' /\ DOMAIN g.policies \subseteq BuiltNames'
        /\ DOMAIN g.locks \subseteq BuiltNames'
    BY <1>6, <1>7, <1>9, <1>20 DEF BuildInv, Put
  <2>3. QED
    BY <1>3, <1>11, <2>1, <2>2 DEF BuildInv
<1>22. PoolInv'
  <2>1. \A i \in g.running : i \in Built' /\ Scans(gw.ups[i])
    BY <1>8, <1>9, <1>10, <1>12 DEF PoolInv
  <2>2. QED
    BY <1>3, <1>5, <1>19, <2>1 DEF PoolInv
<1>23. CacheInv'
  <2>1. CASE u.ToolsLock = None /\ g.locks = gw.locks /\ g.cache = gw.cache /\ g.reads = gw.reads
    BY <1>3, <2>1 DEF CacheInv
  <2>2. CASE /\ u.ToolsLock # None /\ LockFound(u, cache)
             /\ g.locks = Put(gw.locks, n, prepareLock(u, cache)) /\ g.cache = cache
             /\ g.reads = gw.reads \cup {cache[p] : p \in DOMAIN cache}
    <3>1. /\ DOMAIN cache = {LockPath}
          /\ LockPath \in DOMAIN gw.cache => cache = gw.cache
          /\ prepareLock(u, cache).server = ServerOf(u) /\ ServerOf(u) \in DOMAIN cache[LockPath]
          /\ prepareLock(u, cache).list = cache[LockPath][ServerOf(u)].list
      BY <1>4, <2>2, CacheFacts
    <3>2. cache[LockPath] \in g.reads
      BY <2>2, <3>1
    <3>3. PICK l : l = prepareLock(u, cache)
      OBVIOUS
    <3>4. DOMAIN Nothing = {}
      BY DEF Nothing
    <3>5. ASSUME NEW x \in DOMAIN g.locks
          PROVE  /\ g.locks[x].server \in DOMAIN cache[LockPath]
                 /\ cache[LockPath][g.locks[x].server].list = g.locks[x].list
      <4>1. CASE x = n
        <5>1. g.locks[x] = l
          BY <2>2, <3>3, <4>1 DEF Put
        <5>2. QED
          BY <3>1, <3>3, <5>1
      <4>2. CASE x # n
        <5>1. x \in DOMAIN gw.locks /\ g.locks[x] = gw.locks[x]
          BY <2>2, <4>2, OtherEntries
        <5>2. cache = gw.cache
          BY <3>1, <3>4, <5>1 DEF CacheInv
        <5>3. QED
          BY <5>1, <5>2 DEF CacheInv
      <4>3. QED
        BY <4>1, <4>2
    <3>6. QED
      BY <1>3, <2>2, <3>1, <3>2, <3>5 DEF CacheInv
  <2>3. QED
    BY <1>7, <2>1, <2>2
<1>24. PhaseInv'
  BY <1>3, <1>5, <1>9, <1>19 DEF PhaseInv
<1>25. QED
  BY <1>5, <1>21, <1>22, <1>23, <1>24

\* Close reaches every pool that runs.
LEMMA CloseReaches ==
    ASSUME StartupInv, gw.pc \in {"build", "serve"}
    PROVE  Closed(gw).running = {}
<1>1. gw.lockError = FALSE
  BY DEF StartupInv, PhaseInv
<1>2. ASSUME NEW i \in gw.running
      PROVE  \E n \in DOMAIN gw.scanners : gw.scanners[n].pool = i
  <2>1. i \in Built /\ Scans(gw.ups[i])
    BY <1>1 DEF StartupInv, PoolInv
  <2>2. Protected(i)
    BY <2>1 DEF StartupInv, BuildInv
  <2>3. QED
    BY <2>1, <2>2 DEF Protected
<1>3. Closed(gw).running = gw.running \ {gw.scanners[n].pool : n \in DOMAIN gw.scanners}
  BY DEF Closed, StartupInv, ShapeInv
<1>4. QED
  BY <1>2, <1>3

\* A New that fails, a gateway that stops, a process that ends.
LEMMA EndKeeps ==
    ASSUME StartupInv, LockFailed \/ ScannerFailed \/ StopServing \/ ProcessEnds
    PROVE  StartupInv'
<1>1. CASE LockFailed
  <2>1. /\ gw'.pc = "failed" /\ gw'.cache = Nothing /\ gw'.locks = Nothing /\ gw'.lockError = TRUE
    BY <1>1 DEF LockFailed, NewGateway
  <2>2. ShapeInv'
    BY <1>1 DEF LockFailed, NewGateway, ShapeInv
  <2>3. QED
    BY <2>1, <2>2, Unbuilt
<1>2. CASE ScannerFailed \/ StopServing
  <2>1. PICK w \in {"failed", "stopped"} :
           gw' = [NewGateway EXCEPT !.pc = w, !.ups = gw.ups, !.running = Closed(gw).running]
    BY <1>2 DEF ScannerFailed, StopServing
  <2>2. gw.pc \in {"build", "serve"}
    BY <1>2 DEF ScannerFailed, StopServing, GwAt
  <2>3. Closed(gw).running = {}
    BY <2>2, CloseReaches
  <2>4. gw' = [NewGateway EXCEPT !.pc = w, !.ups = gw.ups, !.running = {}]
    BY <2>1, <2>3
  <2>5. /\ gw'.pc = w /\ gw'.cache = Nothing /\ gw'.locks = Nothing /\ gw'.lockError = FALSE
        /\ gw'.running = {}
    BY <2>4 DEF NewGateway
  <2>6. ShapeInv'
    BY <2>4 DEF NewGateway, ShapeInv
  <2>7. QED
    BY <2>5, <2>6, Unbuilt
<1>3. CASE ProcessEnds
  <2>1. /\ gw'.pc = "ended" /\ gw'.cache = Nothing /\ gw'.locks = Nothing /\ gw'.lockError = FALSE
        /\ gw'.running = {}
    BY <1>3 DEF ProcessEnds, NewGateway
  <2>2. ShapeInv'
    BY <1>3 DEF ProcessEnds, NewGateway, ShapeInv
  <2>3. QED
    BY <2>1, <2>2, Unbuilt
<1>4. QED
  BY <1>1, <1>2, <1>3

\* Nobody but run() touches what it builds.
LEMMA OutsideKeeps ==
    ASSUME StartupInv, gw' = gw
    PROVE  StartupInv'
BY DEF StartupInv, ShapeInv, PhaseInv, BuildInv, PoolInv, CacheInv, OrderInv, Built, BuiltNames,
       Protected

\* The invariant holds throughout, whatever others do to the lockfile.
THEOREM StartupInvHolds == Spec => []StartupInv
<1>1. Init => StartupInv
  BY Beginning DEF Init
<1>2. StartupInv /\ [Next]_vars => StartupInv'
  <2> SUFFICES ASSUME StartupInv, [Next]_vars PROVE StartupInv'
    OBVIOUS
  <2>1. CASE gw' = gw
    BY <2>1, OutsideKeeps
  <2>2. CASE Restart
    <3>1. gw' = NewGateway
      BY <2>2 DEF Restart
    <3>2. (gw = NewGateway => StartupInv)'
      BY Beginning, PTL
    <3>3. QED
      BY <3>1, <3>2 DEF NewGateway
  <2>3. QED
    BY <2>1, <2>2, RunKeeps, BuildKeeps, EndKeeps DEF Next, vars
<1>3. QED
  BY <1>1, <1>2, PTL DEF Spec

\* A gateway that serves has every protection that was configured, for each
\* of its upstreams (run, Validate, New).
THEOREM NoProtectionLostHolds == Spec => []NoProtectionLost
<1>1. StartupInv => NoProtectionLost
  <2> SUFFICES ASSUME StartupInv, gw.pc = "serve" PROVE NoProtectionLost
    BY DEF NoProtectionLost, GwAt
  <2>1. \A i \in DOMAIN gw.ups : Protected(i)
    BY DEF StartupInv, BuildInv, OrderInv, Built
  <2>2. QED
    BY <2>1 DEF NoProtectionLost, Protected
<1>2. QED
  BY <1>1, StartupInvHolds, PTL

\* All locks of one gateway come from one state of the lockfile (prepareLock
\* and its lockCache).
THEOREM OneSnapshotHolds == Spec => []OneSnapshot
<1>1. StartupInv => OneSnapshot
  <2> SUFFICES ASSUME StartupInv, gw.locks # Nothing PROVE OneSnapshot
    BY DEF OneSnapshot
  <2>1. PICK servers : servers = gw.cache[LockPath]
    OBVIOUS
  <2>2. servers \in gw.reads
    BY <2>1 DEF StartupInv, CacheInv
  <2>3. \A n \in DOMAIN gw.locks :
           LET l == gw.locks[n] IN l.server \in DOMAIN servers /\ servers[l.server].list = l.list
    BY <2>1 DEF StartupInv, CacheInv
  <2>4. QED
    BY <2>2, <2>3 DEF OneSnapshot
<1>2. QED
  BY <1>1, StartupInvHolds, PTL

\* The pools that run are those Close would reach, and a New that failed has
\* shut down all of them, except on an error of prepareLock (New, Close).
THEOREM PoolsAreReachableHolds == Spec => []PoolsAreReachable
<1>1. StartupInv => PoolsAreReachable
  <2> SUFFICES ASSUME StartupInv, ~gw.lockError PROVE PoolsAreReachable
    BY DEF PoolsAreReachable
  <2>1. gw.lockError = FALSE
    BY DEF StartupInv, PhaseInv
  <2>2. gw.pc \notin {"build", "serve"} => gw.running = {}
    BY <2>1 DEF StartupInv, PoolInv
  <2>3. CASE gw.pc \in {"build", "serve"}
    <3>1. ASSUME NEW i \in gw.running
          PROVE  i \in {gw.scanners[n].pool : n \in DOMAIN gw.scanners}
      <4>1. i \in Built /\ Scans(gw.ups[i]) /\ Protected(i)
        BY <2>1, <2>3 DEF StartupInv, PoolInv, BuildInv
      <4>2. QED
        BY <4>1 DEF Protected
    <3>2. QED
      BY <2>3, <3>1 DEF PoolsAreReachable
  <2>4. QED
    BY <2>2, <2>3 DEF PoolsAreReachable
<1>2. QED
  BY <1>1, StartupInvHolds, PTL
============================================================================
