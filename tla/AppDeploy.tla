------------------------------ MODULE AppDeploy ------------------------------
(* One app on its way from a merge to the hub: the image of app-build-push.yml, *)
(* the staged files and the queue of app-deploy.yml, the command of              *)
(* run-document.sh, and app-deploy.sh step by step. Every app has its own image, *)
(* prefix, queue and directory, so one app stands for all of them.               *)
EXTENDS Integers, FiniteSets

CONSTANTS
    Commits,       \* 1 .. n, in the order of the merges; 0 is what runs before
    MaxIncidents   \* bound: workflows that stop waiting, and runs run again

ASSUME CommitsAssumption == Commits \subseteq Nat \ {0}
ASSUME IncidentsAssumption == MaxIncidents \in Nat

VARIABLES
    aText,     \* what the commits say: memory limits, and DAGs
    aBuild,    \* the build of each commit
    aLatest,   \* ECR: the commit whose image is :latest
    aRun,      \* where each run of app-deploy.yml is
    aStaged,   \* S3: the commits whose Compose file and DAGs are there
    aJob,      \* where each app-deploy.sh is
    aTar,      \* the DAGs each of them fetched
    aNew,      \* docker-compose.yml.new, or 0
    aFile,     \* docker-compose.yml
    aImage,    \* the image last pulled
    aUp,       \* what the containers were made from
    aDags,     \* the DAGs in Airflow's folder, or 0 for none
    aGiveups, aReruns,   \* history
    aLate                \* history: builds that pushed :latest over a newer one

aCode == <<aText, aBuild, aLatest, aLate>>
aHub == <<aJob, aTar, aNew, aFile, aImage, aUp, aDags>>
aVars == <<aCode, aRun, aStaged, aHub, aGiveups, aReruns>>

Texts == [limits : BOOLEAN, dags : {"none", "good", "bad"}]

Steps == {"limits", "stage", "stage dags", "send", "polling"}
Over == {"done", "failed", "cancelled"}
JobSteps == {"fetch", "check", "move", "pull", "up", "dags", "deliver"}
JobEnds == {"good", "bad"}

-----------------------------------------------------------------------------
(* app-build-push.yml: no queue, builds end in any order *)

Merge(c) ==
    /\ aBuild[c] = "none" /\ \A b \in Commits : b < c => aBuild[b] # "none"
    /\ \E text \in Texts : aText' = [aText EXCEPT ![c] = text]
    /\ aBuild' = [aBuild EXCEPT ![c] = "building"]
    /\ UNCHANGED <<aLatest, aLate, aRun, aStaged, aHub, aGiveups, aReruns>>

BuildEnds(c) ==
    /\ aBuild[c] = "building"
    /\ \/ /\ aBuild' = [aBuild EXCEPT ![c] = "pushed"]
          /\ aLatest' = c
          /\ aLate' = aLate \cup {b \in {c} : b < aLatest}
       \/ /\ aBuild' = [aBuild EXCEPT ![c] = "failed"]
          /\ UNCHANGED <<aLatest, aLate>>
    /\ UNCHANGED <<aText, aRun, aStaged, aHub, aGiveups, aReruns>>

-----------------------------------------------------------------------------
(* app-deploy.yml: the queue of the app, and the job *)

Holds(c) == aRun[c] \in Steps
Free == \A c \in Commits : ~Holds(c)

\* A deploy that does not queue.
Join_NoQueue(c) == aRun' = [aRun EXCEPT ![c] = "limits"]

\* One runs, one waits, and the next to come takes the place of the one that waits.
Join(c) ==
    /\ Free => \A b \in Commits : aRun[b] # "pending"
    /\ aRun' = IF Free
                 THEN [aRun EXCEPT ![c] = "limits"]
                 ELSE [b \in Commits |-> IF b = c THEN "pending"
                                         ELSE IF aRun[b] = "pending" THEN "cancelled"
                                         ELSE aRun[b]]

\* By the app's own workflow, at once after the build or whenever somebody asks.
Ask(c) ==
    /\ aBuild[c] = "pushed" /\ aRun[c] = "none"
    /\ Join(c)
    /\ UNCHANGED <<aCode, aStaged, aHub, aGiveups, aReruns>>

\* Bound: run again once its command is over.
Again(c) ==
    /\ aGiveups + aReruns < MaxIncidents /\ aReruns' = aReruns + 1
    /\ aRun[c] \in Over /\ aJob[c] \notin JobSteps
    /\ Join(c)
    /\ UNCHANGED <<aCode, aStaged, aHub, aGiveups>>

Proceed(c, step, next) ==
    /\ aRun[c] = step
    /\ aRun' = [aRun EXCEPT ![c] = next]

NextInQueue(c) ==
    /\ Free /\ Proceed(c, "pending", "limits")
    /\ UNCHANGED <<aCode, aStaged, aHub, aGiveups, aReruns>>

\* compose-mem-check.py on the runner.
CheckOnRunner(c) ==
    /\ Proceed(c, "limits", IF aText[c].limits THEN "stage" ELSE "failed")
    /\ UNCHANGED <<aCode, aStaged, aHub, aGiveups, aReruns>>

Stage(c) ==
    /\ \/ Proceed(c, "stage", "stage dags") /\ aStaged' = [aStaged EXCEPT !.compose = c]
       \/ Proceed(c, "stage dags", "send") /\ aStaged' = [aStaged EXCEPT !.dags = c]
    /\ UNCHANGED <<aCode, aHub, aGiveups, aReruns>>

SendDocument(c) ==
    /\ Proceed(c, "send", "polling")
    /\ aJob' = [aJob EXCEPT ![c] = "fetch"]
    /\ UNCHANGED <<aCode, aStaged, aTar, aNew, aFile, aImage, aUp, aDags, aGiveups, aReruns>>

StepFails(c) ==
    /\ \E step \in Steps \ {"polling"} : Proceed(c, step, "failed")
    /\ UNCHANGED <<aCode, aStaged, aHub, aGiveups, aReruns>>

\* Whatever the command came to, the workflow is green.
Verdict_Careless(end) == "done"

Verdict(end) == IF end = "good" THEN "done" ELSE "failed"

PollDocument(c) ==
    /\ aJob[c] \in JobEnds
    /\ Proceed(c, "polling", Verdict(aJob[c]))
    /\ UNCHANGED <<aCode, aStaged, aHub, aGiveups, aReruns>>

\* The poll count is used up, or somebody cancels the workflow; the command goes on.
StopWaiting(c) ==
    /\ aGiveups + aReruns < MaxIncidents /\ aGiveups' = aGiveups + 1
    /\ Proceed(c, "polling", "failed")
    /\ UNCHANGED <<aCode, aStaged, aHub, aReruns>>

-----------------------------------------------------------------------------
(* app-deploy.sh *)

Then(c, step, next) ==
    /\ aJob[c] = step
    /\ aJob' = [aJob EXCEPT ![c] = next]

\* The Compose file beside the live one, .env in one move.
Fetch(c) ==
    /\ Then(c, "fetch", "check")
    /\ aNew' = aStaged.compose
    /\ UNCHANGED <<aCode, aRun, aStaged, aTar, aFile, aImage, aUp, aDags, aGiveups, aReruns>>

\* compose-mem-check.py on the hub; the file may have been moved away by another run.
CheckOnHub(c) ==
    /\ IF aNew # 0 /\ aText[aNew].limits
         THEN Then(c, "check", "move") /\ UNCHANGED aNew
         ELSE Then(c, "check", "bad") /\ aNew' = 0
    /\ UNCHANGED <<aCode, aRun, aStaged, aTar, aFile, aImage, aUp, aDags, aGiveups, aReruns>>

Move(c) ==
    /\ IF aNew # 0
         THEN Then(c, "move", "pull") /\ aFile' = aNew
         ELSE Then(c, "move", "bad") /\ UNCHANGED aFile
    /\ aNew' = 0
    /\ UNCHANGED <<aCode, aRun, aStaged, aTar, aImage, aUp, aDags, aGiveups, aReruns>>

PullLatest(c) ==
    /\ Then(c, "pull", "up")
    /\ aImage' = aLatest
    /\ UNCHANGED <<aCode, aRun, aStaged, aTar, aNew, aFile, aUp, aDags, aGiveups, aReruns>>

Launched == [file |-> aFile, image |-> aImage]

Launch(c) ==
    /\ Then(c, "up", "dags")
    /\ aUp' = Launched
    /\ UNCHANGED <<aCode, aRun, aStaged, aTar, aNew, aFile, aImage, aDags, aGiveups, aReruns>>

\* A copy that fails is taken for an app without an archive.
FetchDags(c) ==
    /\ \/ Then(c, "dags", "deliver") /\ aTar' = [aTar EXCEPT ![c] = aStaged.dags]
       \/ Then(c, "dags", "good") /\ UNCHANGED aTar
    /\ UNCHANGED <<aCode, aRun, aStaged, aNew, aFile, aImage, aUp, aDags, aGiveups, aReruns>>

Delivery(c) ==
    CASE aTar[c] = 0 \/ aText[aTar[c]].dags = "none" -> {0}
      [] aText[aTar[c]].dags = "good" -> {aTar[c], aDags}
      [] OTHER -> {}

\* app-dags.py rejects, or rsync brings Airflow's folder into line; an app that is not
\* airflow: true keeps what is there.
DeliverDags(c) ==
    /\ IF Delivery(c) = {}
         THEN Then(c, "deliver", "bad") /\ UNCHANGED aDags
         ELSE Then(c, "deliver", "good") /\ aDags' \in Delivery(c)
    /\ UNCHANGED <<aCode, aRun, aStaged, aTar, aNew, aFile, aImage, aUp, aGiveups, aReruns>>

\* set -e: a command fails, perhaps after the file was fetched, the image pulled, the
\* containers made or the DAGs brought into line.
JobFails(c) ==
    /\ \E step \in JobSteps : Then(c, step, "bad")
    /\ aNew' = aNew \/ (aJob[c] = "fetch" /\ aNew' = aStaged.compose)
    /\ aImage' = aImage \/ (aJob[c] = "pull" /\ aImage' = aLatest)
    /\ aUp' = aUp \/ (aJob[c] = "up" /\ aUp' = Launched)
    /\ aDags' = aDags \/ (aJob[c] = "deliver" /\ aDags' \in Delivery(c))
    /\ UNCHANGED <<aCode, aRun, aStaged, aTar, aFile, aGiveups, aReruns>>

-----------------------------------------------------------------------------

AInit ==
    /\ aText = [c \in Commits |-> [limits |-> TRUE, dags |-> "none"]]
    /\ aBuild = [c \in Commits |-> "none"]
    /\ aLatest = 0 /\ aLate = {}
    /\ aRun = [c \in Commits |-> "none"]
    /\ aStaged = [compose |-> 0, dags |-> 0]
    /\ aJob = [c \in Commits |-> "none"]
    /\ aTar = [c \in Commits |-> 0]
    /\ aNew = 0 /\ aFile = 0 /\ aImage = 0 /\ aDags = 0
    /\ aUp = [file |-> 0, image |-> 0]
    /\ aGiveups = 0 /\ aReruns = 0

Workflow(c) ==
    \/ NextInQueue(c) \/ CheckOnRunner(c) \/ Stage(c) \/ SendDocument(c) \/ StepFails(c)
    \/ PollDocument(c) \/ StopWaiting(c)

Script(c) ==
    \/ Fetch(c) \/ CheckOnHub(c) \/ Move(c) \/ PullLatest(c) \/ Launch(c)
    \/ FetchDags(c) \/ DeliverDags(c) \/ JobFails(c)

ANext ==
    \E c \in Commits :
        Merge(c) \/ BuildEnds(c) \/ Ask(c) \/ Again(c) \/ Workflow(c) \/ Script(c)

ASpec == AInit /\ [][ANext]_aVars

-----------------------------------------------------------------------------

ATypeOK ==
    /\ aText \in [Commits -> Texts]
    /\ aBuild \in [Commits -> {"none", "building", "pushed", "failed"}]
    /\ aLatest \in Commits \cup {0} /\ aLate \subseteq Commits
    /\ aRun \in [Commits -> {"none", "pending"} \cup Steps \cup Over]
    /\ aStaged \in [compose : Commits \cup {0}, dags : Commits \cup {0}]
    /\ aJob \in [Commits -> {"none"} \cup JobSteps \cup JobEnds]
    /\ aTar \in [Commits -> Commits \cup {0}]
    /\ {aNew, aFile, aImage, aDags} \subseteq Commits \cup {0}
    /\ aUp \in [file : Commits \cup {0}, image : Commits \cup {0}]
    /\ aGiveups \in Nat /\ aReruns \in Nat

\* app-deploy.sh:62-63 delivers the DAGs "after the app is up so a DAG never calls an
\* endpoint its app doesn't have yet": what Airflow has is not newer than the image
\* that runs, as long as every workflow waits for its command and no older build
\* pushes :latest over a newer one, whatever fails and whichever run is run again.
DagsNotAhead == aGiveups = 0 /\ aLate = {} => aDags <= aUp.image

\* A deploy that ends green has its Compose file up, with an image that is at least
\* as new as the commit (the `result` annotation that home-mcp reads says so).
GreenIsUp ==
    [][\A c \in Commits :
          aGiveups = 0 /\ aRun[c] # "done" /\ aRun'[c] = "done" =>
              aUp.file = c /\ (aLate = {} => aUp.image >= c)]_aVars

=============================================================================
