--------------------------- MODULE PlatformStatus ---------------------------
(* home-mcp's platform_status and github_status: one sentence of what is    *)
(* wrong, from a dozen questions to Prometheus, the apps, GitHub and the    *)
(* voice worker. What GitHub said is kept for a minute and the health of    *)
(* the jobs token for six hours, so that an answer may be of an earlier     *)
(* moment than its other half.                                              *)
EXTENDS Integers, FiniteSetsExt

CONSTANTS StatusRepos, Apps,
          CacheTime,  \* CACHE_SECONDS
          TokenTime,  \* TOKEN_CHECK_SECONDS
          MaxNow      \* bound of the clock

ASSUME TimesAssumption == CacheTime \in Nat /\ TokenTime \in Nat
ASSUME ReposAssumption == "unknown" \notin StatusRepos

VARIABLES
    pNow,
    pWaits,    \* the repositories with a run that waits for an approval
    pSaw,      \* when each last was, and since when it is: [was, since]
    pReach,    \* the repositories GitHub answers for
    pToken,    \* since when the jobs token is rejected or about to expire
    pCache,    \* _cache: what was read of each repository, and when
    pHealth,   \* _token_health
    pFacts,    \* what the other questions find, all along
    pAnswer

pVars == <<pNow, pWaits, pSaw, pReach, pToken, pCache, pHealth, pFacts, pAnswer>>

Sites == {"nyc", "rambles"}
Nucs == {"nuc4", "nuc5"}
Reports == {"absent", "up", "down"}
Never == -1000

-----------------------------------------------------------------------------
(* What Prometheus, the apps and the voice worker have to say *)

QuietStatus ==
    [winter |-> FALSE, ping |-> [s \in Sites |-> "up"], router |-> [s \in Sites |-> "up"],
     nuc |-> [n \in Nucs |-> "up"], stuck |-> {}, job |-> "up", app |-> [a \in Apps |-> TRUE],
     worker |-> "fine"]

\* One thing at a time is out of the ordinary, in summer or in winter.
StatusFacts ==
    {[QuietStatus EXCEPT !.winter = w, !.ping[s] = p, !.router[s] = r, !.nuc[n] = x] :
        w \in BOOLEAN, s \in Sites, p \in Reports, r \in Reports, n \in Nucs, x \in Reports}
    \cup {[QuietStatus EXCEPT !.stuck = x, !.job = j, !.app[a] = up, !.worker = k] :
        x \in SUBSET Nucs, j \in Reports, a \in Apps, up \in BOOLEAN,
        k \in {"off", "silent", "fine", "rejected", "soon"}}

\* A site is in order when something reports for it and nothing reports it down.
SiteOk(f, s) ==
    /\ "down" \notin {f.ping[s], f.router[s]}
    /\ "up" \in {f.ping[s], f.router[s]}

\* The summer site's router and NUC are not missed in winter; a NUC or a service
\* that has no series at all is not missed ever.
Offline(f) == {s \in Sites : ~SiteOk(f, s) /\ ~(s = "rambles" /\ f.winter)}

\* The voice worker reports on its two tokens: off means that it is never asked.
TokenWarnings(worker) == {worker} \cap {"silent", "rejected", "soon"}

Problems(f) ==
    {<<s, "offline">> : s \in Offline(f)}
    \cup {<<n, "down">> : n \in {n \in Nucs : f.nuc[n] = "down" /\ ~(n = "nuc5" /\ f.winter)}}
    \cup {<<n, "stuck">> : n \in f.stuck}
    \cup {<<"hub service", j>> : j \in {f.job} \cap {"down"}}
    \cup {<<a, "down">> : a \in {a \in Apps : ~f.app[a]}}
    \cup {<<"voice worker", k>> : k \in TokenWarnings(f.worker)}

-----------------------------------------------------------------------------
(* What is read of GitHub *)

\* What was read once is not looked at again.
Fresh_Forever(r) == pCache[r].at # Never

Fresh(r) == pCache[r].at # Never /\ pNow - pCache[r].at < CacheTime

\* _fetch for each repository: what is fresh is used as it is, what GitHub does
\* not answer for is not read.
Fetch(r) == IF Fresh(r) THEN pCache[r] ELSE [at |-> pNow, waits |-> r \in pWaits]
Readable(r) == Fresh(r) \/ r \in pReach

Fetched == [r \in StatusRepos |-> IF Readable(r) THEN Fetch(r) ELSE pCache[r]]

\* The waiting runs of the repositories that could be read; unknown only when
\* none could.
PendingApprovals ==
    IF \A r \in StatusRepos : ~Readable(r) THEN {"unknown"}
    ELSE {r \in StatusRepos : Readable(r) /\ Fetch(r).waits}

\* Asked of GitHub again after a while; when GitHub is out of reach the last
\* answer stands and is not dated anew.
JobsHealth ==
    IF pHealth.at # Never /\ pNow - pHealth.at < TokenTime THEN pHealth
    ELSE IF pReach = {} THEN pHealth
    ELSE [at |-> pNow, warning |-> pToken # Never]

\* A repository for github_status: its waiting runs, or that it could not be read.
Summarize(r) == IF ~Readable(r) THEN "couldn't" ELSE IF Fetch(r).waits THEN "waits" ELSE "read"

-----------------------------------------------------------------------------

NoStatus == [tool |-> "none", at |-> 0]

PInit ==
    /\ pNow = 0 /\ pWaits = {} /\ pReach = StatusRepos /\ pToken = Never
    /\ pSaw = [r \in StatusRepos |-> [was |-> Never, since |-> Never]]
    /\ pCache = [r \in StatusRepos |-> [at |-> Never, waits |-> FALSE]]
    /\ pHealth = [at |-> Never, warning |-> FALSE]
    /\ pFacts \in StatusFacts /\ pAnswer = NoStatus

AskPlatformStatus ==
    /\ pCache' = Fetched
    /\ pHealth' = JobsHealth
    /\ pAnswer' = [tool |-> "platform_status", at |-> pNow,
                   problems |-> Problems(pFacts)
                       \cup {<<"jobs token", w>> : w \in {JobsHealth.warning} \cap {TRUE}},
                   approvals |-> PendingApprovals]
    /\ UNCHANGED <<pNow, pWaits, pSaw, pReach, pToken, pFacts>>

AskGitHubStatus ==
    /\ pCache' = Fetched
    /\ pAnswer' = [tool |-> "github_status", at |-> pNow, repo |-> [r \in StatusRepos |-> Summarize(r)]]
    /\ UNCHANGED <<pNow, pWaits, pSaw, pReach, pToken, pHealth, pFacts>>

\* A run starts to wait for its approval, or gets it. GitHub goes and comes back,
\* for some repositories (a rate limit) or all. Bound: the world stands still
\* while something else is out of the ordinary.
World ==
    /\ pFacts = QuietStatus
    /\ \/ \E r \in StatusRepos \ pWaits :
             /\ pWaits' = pWaits \cup {r}
             /\ pSaw' = [pSaw EXCEPT ![r] = [was |-> pNow, since |-> pNow]]
             /\ UNCHANGED <<pNow, pReach, pToken>>
       \/ \E r \in pWaits : pWaits' = pWaits \ {r} /\ UNCHANGED <<pNow, pSaw, pReach, pToken>>
       \/ pReach' \in SUBSET StatusRepos /\ UNCHANGED <<pNow, pWaits, pSaw, pToken>>
       \/ pToken' = (IF pToken = Never THEN pNow ELSE Never) /\ UNCHANGED <<pNow, pWaits, pSaw, pReach>>
       \/ /\ pNow < MaxNow
          /\ pNow' = pNow + 1
          /\ pSaw' = [r \in StatusRepos |-> IF r \in pWaits THEN [pSaw[r] EXCEPT !.was = pNow + 1] ELSE pSaw[r]]
          /\ UNCHANGED <<pWaits, pReach, pToken>>
    /\ pAnswer' = NoStatus
    /\ UNCHANGED <<pCache, pHealth, pFacts>>

\* The container of home-mcp is restarted.
PRestart ==
    /\ pCache' = [r \in StatusRepos |-> [at |-> Never, waits |-> FALSE]]
    /\ pHealth' = [at |-> Never, warning |-> FALSE]
    /\ pAnswer' = NoStatus
    /\ UNCHANGED <<pNow, pWaits, pSaw, pReach, pToken, pFacts>>

PNext == AskPlatformStatus \/ AskGitHubStatus \/ World \/ PRestart

PSpec == PInit /\ [][PNext]_pVars

-----------------------------------------------------------------------------

\* A run that has waited for a cache's life is named by both tools whenever GitHub
\* answers for its repository, and one that is named waited at most that long ago.
\* A jobs token that has been bad for as long as its health is kept is a problem.
ApprovalsFresh ==
    \A r \in StatusRepos :
        /\ pAnswer.tool = "platform_status" =>
            /\ r \in pWaits /\ r \in pReach /\ pNow - pSaw[r].since >= CacheTime => r \in pAnswer.approvals
            /\ r \in pAnswer.approvals => pNow - pSaw[r].was <= CacheTime
            /\ pToken # Never /\ pReach # {} /\ pNow - pToken >= TokenTime =>
                  <<"jobs token", TRUE>> \in pAnswer.problems
        /\ pAnswer.tool = "github_status" =>
            /\ r \in pWaits /\ r \in pReach /\ pNow - pSaw[r].since >= CacheTime => pAnswer.repo[r] = "waits"
            /\ pAnswer.repo[r] = "waits" => pNow - pSaw[r].was <= CacheTime
            /\ pAnswer.repo[r] = "couldn't" => r \notin pReach

=============================================================================
