------------------------------ MODULE Config ------------------------------
(***************************************************************************)
(* The configuration (gateway/config.go) and what New builds from an       *)
(* upstream of it: the limiter, the tool policy and the scanner settings.  *)
(*                                                                         *)
(* Fields have the names of the Go structs; a nil pointer is None.  Names, *)
(* URLs and tools are strings, of which only what Validate tells apart is  *)
(* known: whether a name matches nameRE (GoodNames), whether two names are *)
(* equal in lower case (Lower), whether a URL is one that validateHTTPURL  *)
(* accepts (GoodURLs).  A tool or path of blanks only is Blank.  Rates are in      *)
(* whole requests per second.                                              *)
(***************************************************************************)
EXTENDS Integers, Sequences, SequencesExt

CONSTANTS
    GoodNames,      \* the names that match nameRE
    Lower,          \* strings.ToLower, a function on names
    GoodURLs,       \* the URLs that validateHTTPURL accepts
    Blank,          \* a string that is empty or blank
    None            \* a nil pointer

RateLimitConfig == [RequestsPerSecond : Int, Burst : Int, PerSession : BOOLEAN]

LockConfig == [File : STRING, Server : STRING, Mode : STRING]

PromptProofConfig ==
    [Enabled : BOOLEAN, Threshold : STRING, Action : STRING,
     SuspiciousAt : Int, DangerousAt : Int, Pool : Int]

Upstream ==
    [Name : STRING, URL : STRING, HeaderTimeoutSeconds : Int,
     RateLimit : RateLimitConfig \cup {None},
     ToolsAllow : Seq(STRING), ToolsDeny : Seq(STRING),
     ToolsLock : LockConfig \cup {None},
     PromptProof : PromptProofConfig \cup {None},
     AuthorizationServers : Seq(STRING)]

--------------------------------------------------------------------------
(* Validate *)

validateHTTPURL(raw) == raw \in GoodURLs

ValidRate(r) == r = None \/ (r.RequestsPerSecond > 0 /\ r.Burst >= 1)

ValidTools(u) ==
    /\ u.ToolsAllow = <<>> \/ u.ToolsDeny = <<>>
    /\ Blank \notin ToSet(u.ToolsAllow) \cup ToSet(u.ToolsDeny)

ValidLock(l) == l = None \/ (l.File # Blank /\ l.Mode \in {"", "enforce", "warn"})

ValidScan(pp) ==
    \/ pp = None
    \/ /\ pp.Threshold \in {"", "suspicious", "dangerous"}
       /\ pp.Action \in {"", "block", "flag"}
       /\ pp.SuspiciousAt >= 0 /\ pp.DangerousAt >= 0 /\ pp.Pool >= 0

ValidUpstream(u) ==
    /\ u.Name \in GoodNames
    /\ validateHTTPURL(u.URL)
    /\ u.HeaderTimeoutSeconds >= 0
    /\ ValidRate(u.RateLimit)
    /\ ValidTools(u)
    /\ ValidLock(u.ToolsLock)
    /\ ValidScan(u.PromptProof)
    /\ \A i \in DOMAIN u.AuthorizationServers : validateHTTPURL(u.AuthorizationServers[i])

\* Validate that lets a name be used twice (a mutant).
ValidateNames(ups) == ups # <<>> /\ \A i \in DOMAIN ups : ValidUpstream(ups[i])

\* Validate of a configuration with these upstreams; the address to listen
\* on and the public URL, which nothing here depends on, are left out.
Validate(ups) ==
    /\ ups # <<>>
    /\ \A i \in DOMAIN ups : ValidUpstream(ups[i])
    /\ \A i, j \in DOMAIN ups : Lower[ups[i].Name] = Lower[ups[j].Name] => i = j

\* ParseUpstreamFlag: an upstream with a name and a URL and no protection.
ParseUpstreamFlag(name, url) ==
    [Name |-> name, URL |-> url, HeaderTimeoutSeconds |-> 0, RateLimit |-> None,
     ToolsAllow |-> <<>>, ToolsDeny |-> <<>>, ToolsLock |-> None, PromptProof |-> None,
     AuthorizationServers |-> <<>>]

--------------------------------------------------------------------------
(* What New makes of one upstream *)

\* newToolPolicy, as a policy of ToolPolicy.
newToolPolicy(u) ==
    CASE u.ToolsAllow # <<>> -> [mode |-> "allow", tools |-> ToSet(u.ToolsAllow)]
      [] u.ToolsAllow = <<>> /\ u.ToolsDeny # <<>> ->
            [mode |-> "deny", tools |-> ToSet(u.ToolsDeny)]
      [] OTHER -> [mode |-> "none", tools |-> {}]

\* The settings of newScanner; 1 is "suspicious" and 2 is "dangerous".
ScanSettings(pp) ==
    [threshold |-> IF pp.Threshold = "suspicious" THEN 1 ELSE 2,
     action |-> IF pp.Action = "" THEN "block" ELSE pp.Action,
     size |-> IF pp.Pool <= 0 THEN 2 ELSE pp.Pool]

Scans(u) == u.PromptProof # None /\ u.PromptProof.Enabled
==========================================================================
