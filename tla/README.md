# Verification of nyc_pa_aws_gitops

The repository is the GitOps source of a home platform: one EC2 hub that runs
everything in Docker Compose, a few NUCs at two sites, routers, and the GitHub
workflows that deploy to them. Most of it is configuration. The part with
behaviour of its own is the code that *changes* something in several steps while
something else may be changing it too (a worker that turns spoken requests into
pull requests, previews that come and go with pull requests, the release queue, the
deploys of the hub and of its apps, the onboarding of databases), and the code that
*says* something put together from many answers that may fail or be old (exporters,
home-mcp's tools). That is what these modules model and check with TLC; every
invariant that is checked is also proved with TLAPS.

Contents: [inventory](#inventory) · [plan](#plan) · [modules](#modules-and-code) ·
[runs](#runs) · [fairness](#fairness) · [proofs](#proofs) ·
[what the runs found](#what-the-runs-found) · [not modelled](#not-modelled)

## Inventory

Paths are relative to the repository root (`src/`).

| Component | State it keeps | Operations | Talks to |
|---|---|---|---|
| **voice worker**, nuc4: `compose/nuc/voice-worker/dispatch.py`, `runner.py` | `queue/<id>.json`, `status/<id>.json`, task directories, agent containers; branches and pull requests on GitHub | `dispatch start/status/list/health` (one process per SSH command), the runner's loop, stop, restart, reboot | home-mcp over SSH; GitHub; dockerd |
| **home-mcp voice tasks**, hub: `compose/aws/home-mcp/tasks.py` | the SSH key on disk | `start_task`, `task_status`, `token_warnings` | the worker |
| **home-mcp voice jobs**: `jobs.py`, `jobs/registry.yml` | cached registry, the last request (memory) | `run_job`, `job_status`, `list_jobs` | GitHub Actions |
| **release queue**: `.github/workflows/platform-release.yml`, `voice-job.yml`, `preview-sweep.yml`, `.github/scripts/*.sh` | GitHub's concurrency group `platform-deploy`; SSM commands; what each part is deployed from | push, dispatch, approve, apply, send, poll, re-run | Terraform, S3, SSM, hub |
| **previews**: `scripts/hub/preview-{up,down,sweep}.sh`, `app-preview.yml` | `previews/<proj>/{docker-compose.yml,.env,meta}`, Compose project, database and role | up, down, sweep | GitHub, SSM, Postgres, Docker |
| **preview Compose rewriting**: `preview-compose.py` | none | a function on a Compose file | |
| **app databases**: `scripts/hub/onboard-app-dbs.sh` | SSM passwords, roles, databases, schemas | onboard (idempotent) | SSM, Postgres |
| **hub deployment**: `scripts/hub/deploy-hub-stack.sh` | staging, `.env`, containers, Airflow connections, Prometheus and Grafana configuration | deploy | S3, SSM, Docker |
| **app deployment**: `app-build-push.yml`, `app-deploy.yml`, `run-document.sh`, `app-deploy.sh`, `app-dags.py`, `compose-mem-check.py` | the app's queue, `:latest`, staged files, directory, containers, DAGs in Airflow's folder | build, deploy, memory check, deliver DAGs | S3, ECR, SSM, Docker, Airflow |
| **NUC deployment**: `deploy-nucs-on-hub.sh`, `capture-export.sh`, Ansible | reachable hosts | deploy | Ansible |
| **exporters**: Rachio, weather, Mopeka, AWS cost | last readings, discovered devices, day totals | poll | vendor APIs, Prometheus |
| **guards**: `imds-guard.sh`, `exposure-check.py`, `update-metrics.sh`, `host/install.sh` | firewall rules, metrics files | install, check | iptables, the internet |
| **home-mcp status, update and security tools**: `status.py`, `github_status.py`, `updates.py`, `github_security.py`, `aws_posture.py`, `authentik_audit.py`, `security_events.py`, `exposure.py` | short caches | queries | Prometheus, GitHub, AWS, Authentik, registries |
| **home-mcp, other read tools** | a copy of the docs, keys | queries | Airflow, Loki, Grafana, market data |
| **RouterOS**: `routeros/apply-config.py` | the router's configuration | apply | SSH |
| **templates**: `templates/{cpp,python,react}` | sessions, OIDC state | login, callback, logout | Authentik |
| **infrastructure**: Terraform, roles, Compose, dashboards | | | |

What makes the behaviour hard, and the properties that make each part right:

* **Voice worker.** Two programs share files without a lock, and the runner can be
  stopped between any two of its steps and remembers nothing. Right means: no
  accepted task is lost or run twice; a status tells the truth, also about GitHub;
  nothing is published that did not pass the protected-path check; the limit on
  active tasks holds, up to what unlocked reads allow; the queue drains.
* **Previews.** Up, down and sweep run at the same time on one preview; each is a
  `set -e` script that may end anywhere. Right means: a closed pull request ends
  with nothing of it left; a `.env` is a promise that a complete database exists;
  the limit on running previews is passed only by overlapping runs; old previews go.
* **Release queue.** The lock (GitHub's group) belongs to a workflow, the work to an
  SSM command that outlives it; the queue has room for one; the scope of a release
  is a diff. Right means: one command on the hub at a time, steps in order, a green
  release has deployed its commit, everything merged is deployed in the end.
* **Voice tasks and jobs (clients).** A timeout is reported as "nothing happened".
  Right means: an error never hides an accepted request, and a retry does not
  duplicate one; the status reported is that of the request asked for.
* **App databases, hub and app deployment.** Many-step idempotent scripts that are
  re-run after a failure. Right means: from any half-done state one complete run
  reaches the good state, no password ever fails to match its role, and a deploy that
  reports success has its own files and images up, whatever earlier ones left.
* **Exporters.** State outlives a failed poll, a midnight and a restart, and gauges are
  set one by one. Right means: what is shown belongs together and to its day.
* **Metadata guard.** A firewall chain built command by command while networks come and
  go. Right means: it ends with what needs the metadata reaching it.
* **Tools that answer.** Dozens of questions, each of which may fail, behind caches.
  Right means: what is wrong is named, what was not read is said to be unread, and
  "all is well" is true of some recent moment.

`PROJECT.json` lists every hazard at its line, with the properties that watch it.

## Plan

All modules of the first plan exist, in the order they were written: `VoiceTasks`,
`VoiceWorker`, `Previews`, `PlatformDeploy`, `OnboardDbs`; then the clients
(`TaskClient` over `VoiceTasks`, `VoiceJobs`), the exporters, the tools that answer
(`SecurityTools`, `UpdateStatus`, `PlatformStatus`, `Exposure`), `PreviewCompose`,
`HubDeploy`, `ImdsGuard`, `AppDeploy`; and the proofs, module by module, until no
invariant was left: see [proofs](#proofs).

Left, in order of what it would add: the image a preview runs (two pushes of one pull
request, in `Previews`); the login flow of the C++ template, whose discovery document
is cached without a lock; `apply-config.py`; the Postgres backup.

Conventions: parameters are CONSTANTS with named assumptions, each operation is one
action, invariants are conjunctions of named parts, and no module uses a RECURSIVE
operator. Operators named `X_Y` next to an operator `X` are plausible mistakes in it
(a dropped guard, a missing reset); `PROJECT.json` says which property refutes which.

## Modules and code

### VoiceTasks, VoiceWorker, MCVoiceWorker, VoiceWorkerProofs

`VoiceWorker` has one variable per thing that outlives a step: the two directories
(`queue`, `status`), what is on GitHub (`pushed`, `prs`), the live containers
(`agents`), the runner's place and local `task` (`pc`, `cur`), and for each dispatch
session its place and locals. `accepted`, `interrupted` and `stops` are history.

* *dispatch.py* is modelled file access by file access, because the runner and other
  sessions go on between two accesses: `BeginRecent` lists `status/`, `ScanQueue`
  lists `queue/` and keeps the newest n, `LoadStatus`/`NoStatus`/`LoadQueue` are the
  two `exists()` of `load_status`, `Admit` decides on `max_active` and writes the
  hidden temporary file, `Enqueue` is the rename, `Reply` the answer. `latest` and
  `list` are the same reads with other windows.
* *runner.py* is modelled step by step: `Poll`, `Take` (unlink), `Begin`, `Cloned`,
  `Launch`, `AgentFinished`/`AgentFailed`, `Collect`, `Apply` (protected paths),
  `Push`, `OpenPr`, `Record`; `StepFails` and `Land` are the exceptions and the except
  clauses. `Push` and `OpenPr` take effect even when the runner hears an error.
* `Stop` is systemd or a crash (a container may live on), `Reboot` ends everything on
  nuc4, `Restart` is `Restart=always`; `OrphanExits` a container nobody waits for.

`VoiceTasks` is what a caller may rely on: accept, start (one at a time), publish
(only while working), end (once, and truthfully). `VoiceWorker` implements it with
`phaseBar` (queued = has a queue file, working = held by the runner, lost = held when
the runner was stopped, otherwise the final status). `ImplementsLedger` is checked by
TLC with its fairness and proved, without it, for all constants.

Abstractions: a task's text, repository and log are left out. Ids are numbers in the
order in which the strings sort; a new one is fresh (they hold 16 random bits) but
comes in no order (two starts of the same second, the hour the clocks go back). What
an agent changed is nothing, something allowed, or something under a protected path.

### Previews, MCPreviews, PreviewsProofs

Every command of the three scripts that changes the hub is a step of its own, so any
number of scripts interleave on the same preview; `set -e` is `Do`: a command that
cannot succeed in the present state ends the script. `dir`, `env` and `role` hold the
number of the push that made them: a directory removed and made again is another one
(the script's working directory is then gone), and a password in `.env` fits the role
only when both are of the same push. A `psql` that fails for what is there (`DROP ROLE`
of an owner, `CREATE` of a name that exists) is a guard; one that fails by itself is
`UpFails`/`DownFails`. `Faulty` says what may fail (a command of one of the scripts, a
question to GitHub), `MaxEvents` bounds failures and pushes together, a push counting
as two. `Health` ends either way. `Age` is a
week passing. Sweeps come one at a time (all of them go through the group
`platform-deploy`), with a list of meta files read before and a list of projects read
after their questions to GitHub, which may go unanswered. Left out: which image tag a
preview runs, and Traefik.

### PlatformDeploy, MCPlatformDeploy, PlatformDeployProofs

`state[r]` is where GitHub has a run: it holds the group from its first job to its
last (`waiting` for approval included), one more may be `pending`, a newer one cancels
it. `scope[r]` is what the push touched, what was asked for by hand, or what a voice
job deploys; `todo[r]` what is left of it. `Apply` is `terraform-apply.sh`, `Send` and
`Poll` the two halves of `run-on-hub.sh` (and of `voice-job.yml`'s copy of it),
`HubEnds` the command's end on the hub, whoever still waits for it, and `GiveUp` the
end of the poll loop, of the job's `timeout-minutes`, or a cancellation. `live[p]` is
the commit part p is deployed from. `Rerun` is GitHub's button: the same run with the
same commit.

Left out: the second attempt of `terraform apply` (it does not change how the step
ends), the CodeQL step, and the S3 prefixes as a state of their own: a command deploys
its own run's commit, which is so as long as commands do not overlap. `MaxIncidents`
bounds give-ups and re-runs together.

### OnboardDbs, MCOnboardDbs, OnboardDbsProofs

`onboard-app-dbs.sh` keeps no state: `ssm`, `role`, `owner` and `schema` are the world
it brings into line, and every run of it has a place (`pc`) and its shell variables. A
password is named after who made it: people (`HandMade`), before the script existed, or
a run. Every look and every command that changes something is a step, because a run
whose release stopped waiting for it goes on beside the next one. `Dies` is a script
that ends anywhere, `PutFails` a put-parameter that reports an error and may have
stored the password all the same, `Abort` the end by `set -e` when a statement finds
what was not there a moment ago. `disturbed` remembers the runs that met a failure or
another run: `RerunHeals` is about the others.

`LocalTrust` is whether Postgres lets its own container log in without a password, a
property of the image and not of the repository. Nothing in core.yml changes the
image's default, which is yes. The theorems hold for both; `onboard` runs with no,
which leaves the script's test able to fail.

### HubDeploy

`deploy-hub-stack.sh` keeps three things in line: the files on disk (`hTree`), what the
containers were made from (`hUp.defs`) and what the processes have read (`hUp.file`).
Two services stand for the two ways a changed file reaches a process: Prometheus is
told to reload, Grafana is restarted when the hash of its rules differs from the one
recorded (`hHash`). Every step may be the last (`Fails`); containers restart by
themselves or get sick at any moment and read what is there. `hGood` is whether the
last deploy ended well.

### AppDeploy, DeployProofs

One app from a merge to Airflow. Builds (`app-build-push.yml`) have no queue and push
`:latest` in whatever order they end; deploys (`app-deploy.yml`) have one with room for
one pending run. A run stages its Compose file and its DAGs at keys without a commit in
them, sends the command and waits; `app-deploy.sh` fetches, checks, moves, pulls,
launches and delivers the DAGs, each a step that may fail with its effect half made.
`StopWaiting` is a cancelled workflow or a poll that ran out: the script goes on beside
the next one. `aLate` remembers builds that pushed over a newer one.

### ImdsGuard

The chain of `imds-guard.sh` command by command, without `set -e`: `gRules` is which
bridge is let through and whether the others are dropped, `gJump` whether the chain is
used. `Reaches` is what a container gets through rule and routes, as `can_reach` asks
it; `RollBack` empties the chain when a service that needs the metadata lost it.
Networks made again under another bridge, containers that go, a run that is killed and
a reboot come in any order, `MaxEvents` of them.

### The exporters, ExporterProofs

`WeatherExporter`, `RachioExporter`, `CostExporter`, `MopekaExporter`: what a loop
leaves behind when it ends half-way, at a midnight, after a restart. The first three
ask questions in order and set gauges as answers arrive; the fourth has one task per
proxy on one event loop, so that a step is what lies between two awaits. Gauges that
copy a field are one field; the world (temperatures, runs, bills) changes as it likes.

### VoiceJobs, TaskClient, ClientProofs

`VoiceJobs` is `jobs.py` await by await: several callers, one remembered request, a
restart that forgets it, GitHub's list of runs with a page (`Window`) that other jobs
push runs out of, and a POST that times out after it was accepted. `TaskClient` is
`tasks.py`: each call is an SSH command given up after 30 seconds, whatever becomes of
it on nuc4. It is composed with `VoiceTasks`, the ledger that `VoiceWorker` is shown to
implement, so what it says holds over the real worker.

### The tools that answer, PreviewCompose, AnswerProofs

`SecurityTools`, `UpdateStatus`, `PlatformStatus` and `Exposure` pick the facts of the
world, let any question raise, and put the answer together as the code does: headline,
lines, and what could not be read. Texts are sets of what they name. `PlatformStatus`
has the two caches over a clock, `UpdateStatus` follows the includes of Compose files
download by download, `Exposure` has the scan target by target, a restart in the middle
of it and the file it leaves, `PreviewCompose` the rewriting of a Compose file, run
twice, as a function on services.

### MCPrograms, MCAnswers

These programs share no state. Two modules put them side by side under one initial
choice, `focus`: a behaviour runs the program in focus and the others stand still, which
makes one run of several small instances. Modules with theorems are extended, so that
the property checked is the one proved; `MopekaExporter` and `ImdsGuard`, which have
none, are instances.

## Runs

| Run | Instance | Properties |
|---|---|---|
| `worker_stops` | 2 tasks, 1 session, every command, 2 stops | `LedgerBalances`, `RunningIsHeld`, `OnlyCleanPublished`, `OutcomeTruthful`, `AgentsAccountedFor`, `QueuedTaskEnds`, `RoomReturns`, `ImplementsLedger` |
| `worker_sessions` | 4 tasks, 2 sessions that start tasks, `max_active` 1, no stop | `CapacityOvershoot`: one task per session and no more |
| `previews_races` | 1 preview, 2 pushes, failures of every kind | `EnvUsable`, `ClosedIsCleared`, `OldIsRemoved` |
| `previews_room` | 2 previews, 2 pushes, limit 1 | `OvershootNeedsOverlap` |
| `platform_queue` | 3 runs of every kind, one give-up or re-run | `PatientExclusive`, `SentInOrder`, `DoneIsLive`, `OnlyRerunsGoBack`, `EveryRunEnds` |
| `onboard` | 1 app in any state, 3 runs, 2 failures | `NoLostPassword`, `GoodStaysGood`, `RerunHeals` |
| `programs` | one of seven programs | `DailyTrue` (weather), `TodayIsToday` (Rachio), `GaugesAddUp` (cost), `ClosedIsShown` (Mopeka), `LoadedIsDeployed` (hub), `DagsNotAhead`, `GreenIsUp` (apps), `GuardSettles` (guard) |
| `answers` | one of the programs that answer | `TroubleIsNamed`, `UnreadIsSaid` (security), `ImagesFollowed`, `NewestIsNewest`, `UpdatesTold` (updates), `ApprovalsFresh` (status), `EveryTargetTold` (exposure), `StartedIsTrue`, `StatusIsOfItsRun` (jobs), `TasksAccounted` (tasks), `RewriteIsStable` (preview-compose) |

`worker_stuck`, `previews_data`, `platform_overlap` and `platform_lost` are expected
violations; see [below](#what-the-runs-found). Types are proved where there are proofs,
and were checked by TLC before.

Deadlock is checked in `worker_stops`, the previews and `programs`, whose programs
always have a next step (`AppRests` says when an app of the instance has none: no build
and no deploy left to end). It is off where the system stops because the instance is
used up: ids in `worker_sessions`, runs in the platform's runs and `onboard`, questions
in `answers`.

Why the bounds are enough. *Worker:* the runner works on one task at a time, so two
tasks show every relation between a task in hand and one that waits, or one that is
over; two stops show a stop under a task that an earlier stop already interrupted; two
sessions show a race of two admissions, and the bound of `CapacityOvershoot` is reached.
Stops are left out of `worker_sessions`; the proofs combine both, for any number.
Sessions are alike, and treated as such (symmetry) where no liveness is checked.
*Previews:* previews share nothing but the count of running ones, so one shows every
race on a preview and two, with a limit of one, every race on the count. Two pushes, one
close after each reopening and a sweep put three scripts on one preview at a time.
`MaxEvents` 4 is two pushes, or one push and two failures: one push is all that a
failure needs, and two failures show a script that fails after another one did.
*PlatformDeploy:* three runs are one that holds the group, one pending and one that
replaces it; one incident is one command that nobody waits for any more, or one re-run
of an old run. *OnboardDbs:* apps share nothing but the loop, which the proofs cover for
any registry; three runs are two that overlap and one that heals.
*Programs:* two versions of a file are the one deployed and the one being deployed (the
proofs have any number); two commits are an older and a newer build, and one incident a
deploy run again beside the other; with three commits and no incident the invariant of
the proofs was checked too. Three events on the guard's network are a bridge made again,
a route moved and a killed run in any order. Three days are two midnights; two proxies
and one sensor show two tasks that relay for one tank. *Answers:* two callers and two
runs with a page of one show a run pushed out of the list; a cache of one tick and a
token's of two, over two ticks, show an answer from either cache beside a fresh one; two
days and a limit of none show a scan too old. Three Compose files include each other in
chains, shared and in circles.

Windows: `StartWindow` (20 in the code) is at least the number of tasks in the runs,
as `max_active` is far below 20; a start that looks at fewer tasks than there are
active ones is outside the instances. `Window` (20 in `jobs.py`) is one in `answers`, so
that runs do leave it.

## Fairness

* `VoiceWorker`: the runner's steps and its restart are weakly fair. Every step of
  `process` has a timeout (clone, agent, push 300 s, API 30 s), and systemd has
  `Restart=always`. Sessions are not fair: nobody has to call.
* `Previews`: a script that was started goes on, and the sweep comes every night
  (cron). Pushes, closes, ageing and failures are not fair.
* `PlatformDeploy`: steps of runs and the end of commands are weakly fair: every wait
  has a limit, the approval included (GitHub rejects a deployment that waited for 30
  days), and SSM ends a command at its `executionTimeout`. Merges, requests, re-runs
  and giving up are not fair.
* `MopekaExporter`: the callback of a closed connection and the end of `_run_once` that
  it wakes are weakly fair, because asyncio runs what is ready; the proxies owe nothing.
* `ImdsGuard`: the steps of the script are weakly fair (its timer starts it every hour,
  and each command has a timeout); networks, routes and reboots are not.
* The rest: none is assumed, as nothing that must happen is claimed: `RerunHeals`
  is about where a run can end, and the others are about what is shown or said.

## Proofs

Every theorem holds for all values of the constants under the modules' named
assumptions, which TLC evaluates in the runs: ids, commits and amounts are numbers,
`None` is none of the things it stands beside, bounds are numbers, and what is counted
or added up is finite (previews, clients, sessions, Compose files, services: the proofs
compare cardinalities and sums). Every invariant a passing run checks is stated by a
theorem, and so are the action properties. No safety property below is inductive by
itself; what had to be added:

| Module | Theorems | The inductive invariant adds |
|---|---|---|
| `VoiceWorkerProofs` | `Invariance`, `TypeCorrect`, `LedgerAlwaysBalances`, `PublicationSafe`, `EndingsTruthful`, `RunningHeld`, `AgentsKnown`, `EndingsStay`, `Implementation` | `IInv`: ids that a session is about to rename are nobody else's (`NewIdsAreFresh`), past the push the branch is there (`PublishedPlaced`), the status file follows `pc` (`StatusFollowsRunner`) |
| | `LimitPassedByOneEach`, `FewTasksLimit` | `CountInv`: what a start knows are ids given out and it goes on only below the limit (`Counting`); with j tasks beyond the limit, at most all sessions but j are starts that j waiting tasks overtook (`Crowded`) |
| `PreviewsProofs` | `Invariance`, `TypeCorrect`, `RoomKept`, `EnvAlwaysUsable` | `PreviewInv`: where each script is tells what it has made (`Placed`, `EnvKept`), and every run between its count and its start is one of those counted (`Room`, `OneCounted`) |
| `PlatformDeployProofs` | `Invariance`, `TypeCorrect`, `OneCommand`, `StepsInOrder`, `GreenIsLive`, `NothingGoesBack` | `PInv`: one run holds the group and one waits (`OneEach`), a command belongs to the run that polls it (`CommandsAwaited`), what a run has done is live (`DoneSoFar`), later runs have later commits (`NewerLast`) |
| `OnboardDbsProofs` | `Invariance`, `TypeCorrect`, `NothingLost`, `ReportsHold`, `Healing`, `OnlyAdds`, `ProofsProve` | `IInv`: where passwords are while a run works (`PasswordsPlaced`), what a run brought into line stays (`WorkStays`), no older run is about to change what it gave up on (`FailedStays`, `LeftAlone`) |
| `DeployProofs` | `HubInvariant`, `DeployedIsLoaded` | `HInv`: what each step of the hub's deploy has brought into line (`DeployHasDone`), and what Grafana's recorded hash still says (`RulesAreKnown`) |
| | `AppInvariant`, `DagsFollowApp`, `GreenDeploysAreUp` | `AInv`: one run holds the queue (`Queue`), staged files and script are those of the run that waits (`Awaited`), how far the script is with its own (`SoFar`), and images only get newer on their way while builds end in order (`Images`) |
| `ClientProofs` | `JobsInvariant`, `StartedJobsAreTrue`, `StatusesAreOfTheirRuns` | `JInv`: a request being sent has an id of its own (`IdsAreFresh`), what was accepted has its run (`SentHasRun`); for statuses also what a list that was asked for held |
| | `ClientsKeepTheLedger`, `TasksAreAccounted` | `TInv`: the count of untold tasks (`TasksOwed`) beside whose call each is (`EachAccounted`) |
| `ExporterProofs` | `LowsAndHighsAreOfToday` | `WInv`: a record of today exists exactly when something was read today, and is of that (`RecordsOfToday`) |
| | `WateredTodayIsTrue` | `RachioInv`: what is shown happened, and no later than the days that were asked for (`ShownHappened`); nothing is asked before the discovery (`DiscoveredFirst`) |
| | `GaugesFitTogether` | `CostInv`: at each question, which gauges are already of this poll (`ReadSoFar`); services shown cover yesterday at every moment (`ServicesCover`) |
| `AnswerProofs` | `IncludesAreFollowed`, `UpdatesAreTold`, `NewestTagIsNewest` | `UInv`: read or queued files are reached, and hold the roots and what readable files that were read include (`Follows`) |
| | `ApprovalsAreFresh` | `PInv`: every cached answer was true when it was read (`TrueWhenRead`, `HealthWhenRead`) |
| | `TargetsAreTold` | `XInv`: a scan accounts for every target from its first moment on, as result, as skipped, or as still to come, and a published file is a scan with nothing to come |
| | `RewritesAreStable` | `VInv`: once the runner ran, what is staged is its output, and what is up is the hub's rewriting of what is staged |
| | `WhatIsUnreadIsSaid`, `WhatIsWrongIsNamed` | `SInv`: an answer is that of its tool to its facts; the work is in one lemma per tool (`GitHubNames`, `AwsNames`, ...) |

`Implementation` and `ClientsKeepTheLedger` meet at `VoiceTasks`: dispatch.py and
runner.py implement its safety part under `phaseBar`, and the clients take only its
steps. `ProofsProve` is the exact condition (no `LocalTrust`) under which the login in
`onboard-app-dbs.sh` proves the password it is meant to.

The arguments are laid out alike: a lemma says what each kind of step leaves alone, a
lemma per conjunct of the invariant shows that it is kept, with one case per action, and
a theorem joins them. In `VoiceWorkerProofs`, `WithinTask` covers every runner step that
keeps the task, `LastStep` every one that settles it, and `LedgerStep` maps each action
to one of the ledger: `Enqueue` to Accept, `Take` to Start, `Push` to Publish, `Settle`
and `Stop`/`Reboot` to End, everything else to a stutter. In `DeployProofs`,
`ScriptSoFar` is the one lemma about the script's own steps: that no other script is at
work (`OneScript`) is what lets every other lemma ignore it.

Three arguments are worth knowing before the proofs are read.

* *The limit on active tasks.* A start lists `status/`, then `queue/`, then reads status
  files one by one, and everything may move meanwhile. What can it overlook? A task that
  was enqueued after it listed `queue/` (`Unseen`), and nothing else: a task goes from
  `queue/` to `status/`, the start lists them in the other order, but looks into both
  before it drops an id. It goes on only when it counts fewer than the limit, so only a
  start that enough waiting tasks overtook can go beyond it, and having written its task
  it is no longer on its way: every task beyond the limit uses up a session
  (`Crowded`). This needs the tasks that wait
  to be among the newest `StartWindow` ids (`WindowCovers`): ids sort by time and the
  runner takes the oldest, so it is only a queue of more than 20, or clocks that jump,
  that can break it; it is a hypothesis of `LimitPassedByOneEach` because nothing in the
  code enforces it. `FewTasksLimit` has no such hypothesis, and covers the run's instance.
* *Includes.* The queue of files is a work list: every set that holds the roots and is
  closed under includes of readable files holds what is known. When the list is empty,
  what was read is such a set itself, hence the least one, whatever the order was.
* *Sums and folds.* `Total` (cost) and `NewestSameShape` (tags) are folds of the community
  modules, functions on all subsets of a finite set that a CHOOSE picks. The proofs first
  show that such a function exists, subset by subset in the order of size (`SumsExist`)
  or of the last place (`SearchExists`), so that the one chosen has its equation, and
  then use a smallest subset on which the claim would fail; `NewestIs` then holds for
  registries with any number of tags, where the run has two.

Model-checked only: liveness under fairness (`QueuedTaskEnds`, `RoomReturns`,
`ClosedIsCleared`, `OldIsRemoved`, `EveryRunEnds`, `ClosedIsShown`, `GuardSettles`, and
the fairness part of `ImplementsLedger`), which is outside what the prover does. The
invariants of `MopekaExporter` and `ImdsGuard` exist only within those.

## What the runs found

Each is a run that TLC must find violated; PROJECT.json quotes the lines.

* `worker_stuck`: a task the runner was stopped under stays `running` for ever and
  uses up a place of `max_active`; enough of them refuse every start.
* `previews_data`: a pull request closed during its first deploy can leave a database
  with a copy of production data that no sweep looks for.
* `platform_overlap`: a workflow that stops waiting (exposure-check-now may take 60
  minutes by registry.yml:70, its workflow waits for 45) frees the queue while the
  command runs.
* `platform_lost`: GitHub cancels the older of two waiting releases, and no later
  release has its changes in scope.

Properties that hold say, by their conditions, where the code is weaker than its words:

* `CapacityOvershoot`: a start may miss a task between `queue/` and `status/`, and
  others that start at the same time, so `max_active` is a limit up to one task for
  each session.
* `RoomReturns` is about tasks no stop has interrupted, `AgentsAccountedFor` allows a
  container of an interrupted task, which the 45-minute cap no longer reaches.
* `EnvUsable` assumes that no preview-down.sh ended half-way (it drops the database
  before it removes the `.env`) and that no two runs of preview-up.sh overlapped.
* `OvershootNeedsOverlap`: runs that count before either starts pass `MAX_PREVIEWS`.
* `ClosedIsCleared` is about containers and metadata, not the database.
* `SentInOrder`, `DoneIsLive`, `OnlyRerunsGoBack` hold while nobody gives up waiting.
* `RerunHeals` excepts a role that people made with a password of their own: the run
  that generates one for it changes the role's (onboard-app-dbs.sh:115, against "never
  changes an existing role's password" in lines 18-19), and when that run ends between
  lines 90 and 115 no later one does.
* `LoadedIsDeployed` excepts Grafana after a deploy that ended half-way and one that put
  the recorded rules back: the hash then equals the recorded one while the process read
  the rules in between (deploy-hub-stack.sh:297-306).
* `DagsNotAhead` and `GreenIsUp` need builds that end in order: nothing queues
  app-build-push.yml, so an older build may push `:latest` over a newer one, and DAGs
  newer than the image then run although app-deploy.sh:62-63 delivers them last "so a
  DAG never calls an endpoint its app doesn't have yet". They also need workflows that
  wait: two scripts at once share `docker-compose.yml.new`, and the file moved into place
  need not be the one that was checked. Deploys queue in the order of the requests, so
  the last merge need not be what runs, and a failed copy of the DAGs is taken for an app
  without an archive (app-deploy.sh:72) while the result says "deployed".
* `GuardSettles`: while Traefik is gone the guard leaves the chain as it is, and a service
  may stay locked out until it is back.
* `EveryTargetTold`: a site whose peer has no endpoint is passed over without a word
  (exposure-check.py:74), and "Nothing unexpected is reachable" is also said before the
  first scan (exposure.py:106).
* `UnreadIsSaid`: "main is protected everywhere" is said also where the rules could not
  be read (github_security.py:176), with the unread repositories on a later line; the
  summary of all tools keeps first lines only (server.py:578).

Seen while modelling, and outside the properties: "no task <id>" is answered for an
accepted task between the unlink of its queue file and its first status (tasks.py:123,
runner.py:302 and 199); `_spoken` returns the bare error of a failed task
(tasks.py:89-90), so the wording of tasks.py:102-103 that server.py:161-162 promises is
never reached; approvals are listed without those of a repository that could not be
asked (github_status.py:231); a login from inside the Postgres container proves no
password while the image trusts it (onboard-app-dbs.sh:14-15 and 144); credentials that
SSM fails to give for a moment are left out of an app's `.env` as if it had none
(app-deploy.sh:44-46).

## Not modelled

* Worker: `dispatch health` and `check_tokens` (they touch only `health.json`);
  requests refused for their content (nothing changes); a power loss that tears a
  queue file (a model of the disk); the log and the task directory.
* Previews: which image tag a preview runs, and Traefik.
* Releases: the retry of a Terraform apply, the S3 prefixes as a state of their own, the
  validation of a job's arguments.
* Hub deploy: secrets generated once, the Airflow connections, the removal of old
  containers, the RESULT line.
* Tools: wording, details of single alerts, the six-hour cache of registries, pull
  requests and their CI in `github_status`.
* The components marked `not_modelled` in PROJECT.json: `apply-config.py` and the backup
  are single scripts against one partner; the C++ template's login would need a model of
  its unlocked cache; context, logs, market data and the other read tools format what one
  service answers; the declarative infrastructure has no steps; helpers run by hand.
