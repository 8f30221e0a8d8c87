--------------------------- MODULE SecurityTools ---------------------------
(* home-mcp's security tools: each sends its questions side by side, sorts  *)
(* what came back and answers with a headline, more lines, and the list of  *)
(* what it could not check. The facts a tool is asked about are picked, its *)
(* answer follows; texts are sets of what they name.                        *)
EXTENDS Integers, FiniteSetsExt

CONSTANTS Repos, NoCiRepos,  \* NO_CI_REPOS
          People,
          Tools              \* the tools that security_summary asks

VARIABLES
    sTool,    \* the tool that was asked, "none" at first
    sFacts,   \* what its questions would find
    sAnswer   \* its answer

sVars == <<sTool, sFacts, sAnswer>>

\* An answer: the kind of its headline, what the headline names, what the
\* other lines name, and what is said to be unread.
Answer(head, flags, notes, unread) ==
    [head |-> head, flags |-> flags, notes |-> notes, unread |-> unread]

Headline(flags) == IF flags = {} THEN "clean" ELSE "trouble"

-----------------------------------------------------------------------------
(* github_security *)

WantedRules == {"pull_request", "required_status_checks"}
AlertCalls == {"dependabot", "secrets", "code"}

\* What GitHub knows of one repository; "off" is a 403 or 404, "raised" any
\* other error, the severity that of the worst open alert. A secret is always
\* severe.
RepoFacts ==
    {f \in [rulesRead : BOOLEAN, rules : SUBSET WantedRules,
            found : [AlertCalls -> {"none", "low", "high", "off", "raised"}]] :
        f.found["secrets"] # "low"}

QuietRepo == [rulesRead |-> TRUE, rules |-> WantedRules, found |-> [c \in AlertCalls |-> "none"]]
DeafRepo == [rulesRead |-> FALSE, rules |-> {}, found |-> [c \in AlertCalls |-> "raised"]]

\* One repository as found, the others quiet or out of reach.
GitHubFacts ==
    {[token |-> token, asked |-> asked,
      repo |-> [r \in Repos |-> IF r = one THEN f ELSE others]] :
        token \in BOOLEAN, asked \in Repos \cup {"all"}, one \in Repos,
        f \in RepoFacts, others \in {QuietRepo, DeafRepo}}

MissingRules(r, f) ==
    (WantedRules \ f.rules) \ (IF r \in NoCiRepos THEN {"required_status_checks"} ELSE {})

\* The alerts of one repository with one of the outcomes; unasked without a token.
Alerts(facts, r, outcomes) ==
    IF facts.token THEN {<<r, c>> : c \in {c \in AlertCalls : facts.repo[r].found[c] \in outcomes}}
    ELSE {}

RepoUrgent(facts, r) ==
    Alerts(facts, r, {"high"})
    \cup (IF facts.repo[r].rulesRead /\ MissingRules(r, facts.repo[r]) # {} THEN {<<r, "rules">>} ELSE {})

\* Only the alerts that raised are said to be unread.
RepoUnread_AlertsOnly(facts, r) == Alerts(facts, r, {"raised"})

RepoUnread(facts, r) ==
    Alerts(facts, r, {"raised"}) \cup (IF facts.repo[r].rulesRead THEN {} ELSE {<<r, "rules">>})

GitHubSecurity(facts) ==
    LET repos == IF facts.asked = "all" THEN Repos ELSE {facts.asked}
        urgent == UNION {RepoUrgent(facts, r) : r \in repos}
        info == UNION {Alerts(facts, r, {"low", "off"}) : r \in repos}
        unread == UNION {RepoUnread(facts, r) : r \in repos}
    IN  Answer(IF urgent = {} /\ ~facts.token /\ unread # {} THEN "partly" ELSE Headline(urgent),
               urgent,
               info \cup (IF facts.token THEN {} ELSE {<<"token", "missing">>}),
               unread)

-----------------------------------------------------------------------------
(* aws_posture *)

Checks == {"guardduty", "analyzer", "groups", "signins", "users", "imds"}
MaxShown == 5
ExpectedOpen == {80, 443}
SpanLimit == 64   \* ports of one rule that are looked at

\* GuardDuty and Access Analyzer: the first findings and how many there are more.
Listed(found) ==
    {<<"finding", n>> : n \in 1 .. Min({found, MaxShown})}
    \cup (IF found > MaxShown THEN {<<"more", found - MaxShown>>} ELSE {})

\* Only the first port of a rule is looked at.
GroupOpen_FirstPort(rule) ==
    rule.world /\ (rule.lo = 0 \/ rule.lo \notin ExpectedOpen)

\* A rule open to the world, for the ports from lo to hi (all of them: lo = 0).
GroupOpen(rule) ==
    rule.world /\ (rule.lo = 0 \/ \E port \in rule.lo .. Min({rule.hi, rule.lo + SpanLimit}) :
                                      port \notin ExpectedOpen)

\* The findings of each check in its facts, and its notes: a detector or an
\* analyzer that is not enabled is a note, an IMDS guard that is silent a finding.
Findings(check, f) ==
    CASE check \in {"guardduty", "analyzer"} -> IF f.enabled THEN Listed(f.found) ELSE {}
      [] check = "groups" -> IF GroupOpen(f) THEN {<<"open", f.lo>>} ELSE {}
      [] check = "signins" -> (IF f.root THEN {<<"root", 1>>} ELSE {})
                              \cup (IF f.loginWithoutMfa THEN {<<"login-without-MFA", 1>>} ELSE {})
      [] check = "users" -> (IF f.keyDays > 90 THEN {<<"old-key", f.keyDays>>} ELSE {})
                            \cup (IF f.console /\ ~f.mfa THEN {<<"console-without-MFA", 1>>} ELSE {})
      [] check = "imds" ->
            IF f.state = "silent" THEN {<<"not-reporting", 1>>}
            ELSE (IF f.state = "off" THEN {<<"off", 1>>} ELSE {})
                 \cup (IF f.hours > 3 THEN {<<"not-run", 1>>} ELSE {})

Notes(check, f) ==
    IF check \in {"guardduty", "analyzer"} /\ ~f.enabled THEN {<<"not-enabled", 1>>} ELSE {}

CheckFacts ==
    [guardduty |-> [enabled : BOOLEAN, found : {0, 1, 5, 7}],
     analyzer |-> [enabled : BOOLEAN, found : {0, 1, 5, 7}],
     groups |-> {f \in [world : BOOLEAN, lo : {0, 22, 80, 443}, hi : {22, 80, 443, 500}] :
                    f.lo = 0 \/ f.lo <= f.hi},
     signins |-> [root : BOOLEAN, loginWithoutMfa : BOOLEAN],
     users |-> [keyDays : {0, 90, 91}, console : BOOLEAN, mfa : BOOLEAN],
     imds |-> [state : {"silent", "off", "active"}, hours : {0, 3, 4}]]

QuietAws ==
    [guardduty |-> [enabled |-> TRUE, found |-> 0], analyzer |-> [enabled |-> TRUE, found |-> 0],
     groups |-> [world |-> TRUE, lo |-> 443, hi |-> 443],
     signins |-> [root |-> FALSE, loginWithoutMfa |-> FALSE],
     users |-> [keyDays |-> 0, console |-> FALSE, mfa |-> FALSE],
     imds |-> [state |-> "active", hours |-> 0]]

\* One check as found, the others quiet, and any of them may raise.
OneFound(c, f, raised) == [found |-> [QuietAws EXCEPT ![c] = f], raised |-> raised]
AwsFacts ==
    UNION {{OneFound(c, f, raised) : f \in CheckFacts[c], raised \in SUBSET Checks} : c \in Checks}

AwsPosture(facts) ==
    LET read == Checks \ facts.raised
        findings == UNION {{<<c, x>> : x \in Findings(c, facts.found[c])} : c \in read}
    IN  Answer(Headline(findings), findings,
               UNION {{<<c, x>> : x \in Notes(c, facts.found[c])} : c \in read},
               {<<c, "raised">> : c \in facts.raised})

-----------------------------------------------------------------------------
(* authentik_audit *)

Questions == {"alerts", "logins", "changes"}
Stranger == "stranger"

\* A page limit ends the reading of events: a login may lie beyond it.
AuditFacts ==
    [token : BOOLEAN, users : {"read", "refused", "unreachable"}, admins : SUBSET People,
     devices : [People -> {"some", "none", "raised"}], raised : SUBSET Questions,
     failed : {0, 9, 10}, odd : BOOLEAN, strangerAt : {"nowhere", "read", "beyond-the-pages"}]

NoMfa(facts) == {p \in People : facts.devices[p] = "none"}

\* An admin without a device, ten failed logins or anything odd, a login of
\* somebody who is not an active person.
AuditFlags(facts) ==
    {<<"no-MFA", p>> : p \in NoMfa(facts) \cap facts.admins}
    \cup {<<"events", "alerts">> : q \in {q \in {"alerts"} : q \notin facts.raised /\ (facts.failed >= 10 \/ facts.odd)}}
    \cup {<<"logins", Stranger>> : q \in {q \in {"logins"} : q \notin facts.raised /\ facts.strangerAt = "read"}}

AuthentikAudit(facts) ==
    IF ~facts.token THEN Answer("not-set-up", {}, {}, {<<"audit", "token">>})
    ELSE IF facts.users # "read" THEN Answer("refused", {}, {}, {<<"audit", facts.users>>})
    ELSE Answer(Headline(AuditFlags(facts)), AuditFlags(facts),
                {<<"no-MFA", p>> : p \in NoMfa(facts)}
                    \cup (IF "alerts" \notin facts.raised /\ facts.failed > 0
                            THEN {<<"events", "alerts">>} ELSE {}),
                {<<"devices", p>> : p \in {p \in People : facts.devices[p] = "raised"}}
                    \cup {<<"events", q>> : q \in facts.raised})

-----------------------------------------------------------------------------
(* security_events *)

\* The queries whose count is a flag, and those that only make a line.
FlagQueries == {"mcp_other_user", "hub_ssh", "device_login_fail"}
Queries == FlagQueries \cup {"device_config", "web_errors"}

EventFacts == [Queries -> {"zero", "some", "raised"}]

\* A query that raised counts as zero, and is listed at the end.
SecurityEvents(facts) ==
    LET some == {<<"events", q>> : q \in {q \in Queries : facts[q] = "some"}}
        flags == {e \in some : e[2] \in FlagQueries}
    IN  Answer(Headline(flags), flags, some,
               {<<"events", q>> : q \in {q \in Queries : facts[q] = "raised"}})

-----------------------------------------------------------------------------
(* security_summary *)

\* What a tool may have answered, for the summary of all of them.
SummaryFacts ==
    [Tools -> {Answer("raised", {}, {}, {})}
              \cup {Answer(Headline(flags), flags, {}, unread) :
                       flags \in {{}, {<<"finding", 1>>}}, unread \in {{}, {<<"question", 1>>}}}]

\* The first line of each answer; an exception says so instead.
SecuritySummary(facts) ==
    Answer("summary", {<<t, "trouble">> : t \in {t \in Tools : facts[t].head = "trouble"}}, {},
           {<<t, "raised">> : t \in {t \in Tools : facts[t].head = "raised"}})

-----------------------------------------------------------------------------

SInit == sTool = "none" /\ sFacts = 0 /\ sAnswer = 0

Ask(tool, facts, answer) ==
    /\ sTool' = tool
    /\ sFacts' = facts
    /\ sAnswer' = answer

Question ==
    /\ sTool = "none"
    /\ \/ \E f \in GitHubFacts : Ask("github", f, GitHubSecurity(f))
       \/ \E f \in AwsFacts : Ask("aws", f, AwsPosture(f))
       \/ \E f \in AuditFacts : Ask("authentik", f, AuthentikAudit(f))
       \/ \E f \in EventFacts : Ask("events", f, SecurityEvents(f))
       \/ \E f \in SummaryFacts : Ask("summary", f, SecuritySummary(f))

\* The next question finds the tools as they were: they keep nothing.
Forget ==
    /\ sTool # "none"
    /\ sTool' = "none" /\ sFacts' = 0 /\ sAnswer' = 0

SNext == Question \/ Forget

SSpec == SInit /\ [][SNext]_sVars

-----------------------------------------------------------------------------

\* What is wrong in what a tool's questions brought back. A login beyond the
\* pages that are read is out of the tool's sight.
Trouble(tool, f) ==
    CASE tool = "github" ->
            LET asked == IF f.asked = "all" THEN Repos ELSE {f.asked}
            IN  {x \in asked \X AlertCalls : f.token /\ f.repo[x[1]].found[x[2]] = "high"}
                \cup {<<r, "rules">> : r \in {r \in asked : f.repo[r].rulesRead /\
                        \/ "pull_request" \notin f.repo[r].rules
                        \/ "required_status_checks" \notin f.repo[r].rules /\ r \notin NoCiRepos}}
      [] tool = "aws" ->
            {<<c, "found">> : c \in {c \in {"guardduty", "analyzer"} \ f.raised :
                                        f.found[c].enabled /\ f.found[c].found > 0}}
            \cup {<<"groups", port>> : port \in {p \in 0 .. 500 :
                    /\ "groups" \notin f.raised
                    /\ f.found["groups"].world /\ p \notin {80, 443}
                    /\ f.found["groups"].lo = 0 \/ (f.found["groups"].lo <= p /\ p <= f.found["groups"].hi)}}
            \cup {<<c, "bad">> : c \in {c \in Checks \ f.raised :
                    \/ c = "signins" /\ (f.found[c].root \/ f.found[c].loginWithoutMfa)
                    \/ c = "users" /\ (f.found[c].keyDays > 90 \/ (f.found[c].console /\ ~f.found[c].mfa))
                    \/ c = "imds" /\ (f.found[c].state # "active" \/ f.found[c].hours > 3)}}
      [] tool = "authentik" /\ f.token /\ f.users = "read" ->
            {<<p, "MFA">> : p \in {p \in f.admins : f.devices[p] = "none"}}
            \cup {<<q, "events">> : q \in {q \in Questions \ f.raised :
                    \/ q = "alerts" /\ (f.odd \/ f.failed > 9)
                    \/ q = "logins" /\ f.strangerAt = "read"}}
      [] tool = "events" -> {<<q, "flag">> : q \in {q \in FlagQueries : f[q] = "some"}}
      [] tool = "summary" -> {<<t, "flag">> : t \in {t \in Tools : f[t].flags # {}}}
      [] OTHER -> {}

\* What a tool could not read.
Unread(tool, f) ==
    CASE tool = "github" ->
            {r \in (IF f.asked = "all" THEN Repos ELSE {f.asked}) :
                ~f.repo[r].rulesRead \/ (f.token /\ \E c \in AlertCalls : f.repo[r].found[c] = "raised")}
      [] tool = "aws" -> f.raised
      [] tool = "authentik" ->
            IF ~f.token \/ f.users # "read" THEN {"audit"}
            ELSE f.raised \cup {p \in People : f.devices[p] = "raised"}
      [] tool = "events" -> {q \in Queries : f[q] = "raised"}
      [] tool = "summary" -> {t \in Tools : f[t].head = "raised"}
      [] OTHER -> {}

\* Whatever is wrong in what came back makes the headline, with the repository,
\* check, person or tool it is about; and nothing else does.
TroubleIsNamed ==
    sTool # "none" =>
        /\ (sAnswer.flags # {}) <=> (Trouble(sTool, sFacts) # {})
        /\ sTool \in {"github", "aws", "summary"} =>
              {x[1] : x \in Trouble(sTool, sFacts)} \subseteq {x[1] : x \in sAnswer.flags}
        /\ sAnswer.head = "clean" => Trouble(sTool, sFacts) = {}

\* Every question that raised is said to be unread, whatever the headline is.
UnreadIsSaid ==
    sTool # "none" =>
        \A x \in Unread(sTool, sFacts) :
            \E said \in sAnswer.unread : x \in {said[1], said[2]}

=============================================================================
