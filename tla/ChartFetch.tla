----------------------------- MODULE ChartFetch -----------------------------
(***************************************************************************)
(* Fetching the karmada chart, the first half of Preflight: the file of an *)
(* earlier fetch if there is one, else a pull through the helm client, and *)
(* a second pull over the other scheme when the first one fails.           *)
(*                                                                         *)
(* The chart repository may answer under "http", "https", or both; other   *)
(* repositories that the helm client is configured with answer or not.     *)
(* Nothing in the operator changes that configuration: the client's        *)
(* repository commands have no caller.                                     *)
(***************************************************************************)
EXTENDS Naturals, FiniteSetsExt

CONSTANTS
  RepoScheme,  \* the scheme of --chart-repo-url
  Others,      \* other repositories in helm's configuration
  MaxChanges   \* bound: servers that start or stop answering, deaths of the operator

VARIABLES
  fetch,      \* [pc, scheme, entry, second] of the fetch under way
  chartFile,  \* "absent", "file" or "directory": what is at the chart's path
  repos,      \* configured repositories; the chart's own is named by its scheme
  indexes,    \* repositories whose index helm has in its cache
  up,         \* servers that answer
  changes     \* changes left

fetchVars == <<fetch, chartFile, repos, indexes, up, changes>>

Schemes == {"http", "https"}
Servers == Schemes \cup Others
NoFetch == [pc |-> "idle", scheme |-> RepoScheme, entry |-> FALSE, second |-> FALSE]

ASSUME ChartFetchAssumption ==
  RepoScheme \in Schemes /\ Others \cap Schemes = {} /\ MaxChanges \in Nat

FetchTypeOK ==
  /\ fetch \in [pc : {"idle", "stat", "resolve", "download", "fetched", "failed"},
                scheme : Schemes, entry : BOOLEAN, second : BOOLEAN]
  /\ chartFile \in {"absent", "file", "directory"}
  /\ repos \subseteq Servers /\ up \subseteq Servers /\ indexes \subseteq repos
  /\ changes \in 0..MaxChanges
  /\ fetch.entry => fetch.scheme \in repos
  /\ (fetch.scheme = RepoScheme) = ~fetch.second

FetchInit ==
  /\ fetch = NoFetch
  /\ chartFile \in {"absent", "directory"}
  /\ repos \in SUBSET Servers
  /\ indexes = {}
  /\ up \in SUBSET Servers
  /\ changes = MaxChanges

FetchGoto(pc) == fetch' = [fetch EXCEPT !.pc = pc]

BeginFetch ==
  /\ fetch.pc = "idle"
  /\ FetchGoto("stat")
  /\ UNCHANGED <<chartFile, repos, indexes, up, changes>>

\* Mutant: the chart is pulled whether it is there or not.
AlwaysPull ==
  /\ fetch.pc = "stat"
  /\ FetchGoto(IF chartFile = "directory" THEN "failed" ELSE "resolve")
  /\ UNCHANGED <<chartFile, repos, indexes, up, changes>>

\* os.Stat of <base>/<repository without scheme>/<name>-<version>.tgz.
StatChart ==
  /\ fetch.pc = "stat"
  /\ FetchGoto(CASE chartFile = "file" -> "fetched"
                 [] chartFile = "directory" -> "failed"
                 [] chartFile = "absent" -> "resolve")
  /\ UNCHANGED <<chartFile, repos, indexes, up, changes>>

\* Mutant: there is no second pull.
OneScheme == FetchGoto("failed")

\* Mutant: the second pull refers to the chart as the first one did.
SameReference ==
  IF fetch.second THEN FetchGoto("failed")
  ELSE \E s \in Schemes \ {fetch.scheme} :
         fetch' = [fetch EXCEPT !.pc = "resolve", !.scheme = s, !.second = TRUE]

\* What the failure of a pull leads to: the other scheme, once.
PullFailed ==
  IF fetch.second THEN FetchGoto("failed")
  ELSE \E s \in Schemes \ {fetch.scheme} :
         fetch' = [pc |-> "resolve", scheme |-> s, entry |-> FALSE, second |-> TRUE]

\* PullWithRepoURL: a repository configured under this URL is referred to by its
\* name, after an attempt to refresh its index; its error is ignored.
ResolveByName ==
  /\ fetch.pc = "resolve"
  /\ fetch.scheme \in repos
  /\ indexes' = indexes \cup ({fetch.scheme} \cap up)
  /\ fetch' = [fetch EXCEPT !.pc = "download", !.entry = TRUE]
  /\ UNCHANGED <<chartFile, repos, up, changes>>

\* Otherwise the repository is asked for the chart's URL, and missing indexes of
\* all configured repositories are downloaded; errors of these are ignored.
ResolveByURL ==
  /\ fetch.pc = "resolve"
  /\ fetch.scheme \notin repos
  /\ IF fetch.scheme \in up
     THEN indexes' = indexes \cup (repos \cap up) /\ FetchGoto("download")
     ELSE UNCHANGED indexes /\ PullFailed
  /\ UNCHANGED <<chartFile, repos, up, changes>>

\* Pull: by name helm needs the index of that repository, by URL that of every
\* configured one, none of which lists the URL.  The file appears as a whole.
Pull ==
  /\ fetch.pc = "download"
  /\ IF /\ fetch.scheme \in up
        /\ (IF fetch.entry THEN {fetch.scheme} ELSE repos) \subseteq indexes
     THEN chartFile' = "file" /\ FetchGoto("fetched")
     ELSE UNCHANGED chartFile /\ PullFailed
  /\ UNCHANGED <<repos, indexes, up, changes>>

\* A server starts or stops answering.
ServerChanges ==
  /\ changes > 0
  /\ changes' = changes - 1
  /\ \E s \in Servers : up' = SymDiff(up, {s})
  /\ UNCHANGED <<fetch, chartFile, repos, indexes>>

\* What the next container of the operator finds: helm's configuration, and of the
\* downloads nothing.
NewContainer ==
  /\ fetch' = NoFetch
  /\ chartFile' = IF chartFile = "directory" THEN "directory" ELSE "absent"
  /\ indexes' = {}
  /\ UNCHANGED <<repos, up>>

FetchStep == BeginFetch \/ StatChart \/ ResolveByName \/ ResolveByURL \/ Pull

\* The next sync asks for the chart again.
NextSync ==
  /\ fetch' = NoFetch
  /\ UNCHANGED <<chartFile, repos, indexes, up, changes>>

\* Once there is a chart file, every fetch ends well, whatever servers answer and
\* whatever is configured (fetchChart: the file of an earlier fetch is used).
CachedSuffices == fetch.pc = "failed" => chartFile # "file"

\* If one of the two schemes answers from some time on, and nothing keeps helm from
\* the indexes of the configured repositories, fetches go on succeeding: whichever
\* scheme the flag names and whichever step the first pull failed at
\* (fetchChart, PullWithRepoURL).
EventuallyFetched ==
  <>[](Schemes \cap up # {} /\ repos \subseteq indexes \cup up /\ chartFile # "directory")
    => []<>(fetch.pc = "fetched")
=============================================================================
