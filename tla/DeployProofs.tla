---------------------------- MODULE DeployProofs ----------------------------
(* Theorems about AppDeploy, for any number of commits, deploys run again and *)
(* workflows that stop waiting; and about HubDeploy, for any contents that    *)
(* the files may have.                                                        *)
EXTENDS AppDeploy, HubDeploy, TLAPS

\* One run holds the queue, and nothing asks for a deploy before its image is pushed.
Queue ==
    /\ \A b, c \in Commits : Holds(b) /\ Holds(c) => b = c
    /\ \A c \in Commits : aRun[c] # "none" => aBuild[c] = "pushed"

\* Without an older build over a newer one, images only get newer on their way.
Images ==
    aLate = {} =>
        /\ \A c \in Commits : aBuild[c] = "pushed" => c <= aLatest
        /\ aImage <= aLatest /\ aUp.image <= aImage

\* Script and staged files belong to the run that waits for them.
Awaited ==
    aGiveups = 0 =>
        \A c \in Commits :
            /\ aJob[c] \in JobSteps => aRun[c] = "polling"
            /\ aRun[c] \in {"stage dags", "send", "polling"} => aStaged.compose = c
            /\ aRun[c] \in {"send", "polling"} => aStaged.dags = c

\* How far a script has come with its own file, image and DAGs.
SoFar ==
    aGiveups = 0 =>
        \A c \in Commits : aRun[c] = "polling" =>
            /\ aJob[c] \in {"check", "move"} => aNew = c
            /\ aJob[c] \in {"pull", "up"} => aFile = c
            /\ aJob[c] \in {"dags", "deliver", "good"} => aUp.file = c
            /\ aJob[c] = "deliver" => aTar[c] = c
            /\ aLate = {} /\ aJob[c] = "up" => aImage >= c
            /\ aLate = {} /\ aJob[c] \in {"dags", "deliver", "good"} => aUp.image >= c

AInv == ATypeOK /\ Queue /\ Images /\ Awaited /\ SoFar /\ DagsNotAhead

USE CommitsAssumption, IncidentsAssumption

-----------------------------------------------------------------------------
(* Lemmas                                                                  *)

\* A run that comes holds the queue when nobody does, and disturbs no one who does.
LEMMA Joins ==
    ASSUME ATypeOK, NEW c \in Commits, ~Holds(c), Join(c)
    PROVE  /\ aRun' \in [Commits -> {"none", "pending"} \cup Steps \cup Over]
           /\ aRun'[c] = "limits" \/ aRun'[c] = "pending"
           /\ aRun'[c] = "limits" => Free
           /\ \A b \in Commits : b # c => \/ aRun'[b] = aRun[b]
                                          \/ aRun[b] = "pending" /\ aRun'[b] = "cancelled"
<1> USE DEF ATypeOK, Steps, Over
<1>1. CASE Free
  <2>1. aRun' = [aRun EXCEPT ![c] = "limits"] BY <1>1 DEF Join
  <2> QED BY <1>1, <2>1
<1>2. CASE ~Free
  <2>1. aRun' = [b \in Commits |-> IF b = c THEN "pending"
                                   ELSE IF aRun[b] = "pending" THEN "cancelled"
                                   ELSE aRun[b]]
    BY <1>2 DEF Join
  <2> QED BY <2>1
<1> QED BY <1>1, <1>2

\* A run that enters the queue takes its place there, and changes nothing else.
LEMMA Enters ==
    ASSUME ATypeOK, NEW c \in Commits, Ask(c) \/ Again(c)
    PROVE  /\ aRun' \in [Commits -> {"none", "pending"} \cup Steps \cup Over]
           /\ aRun'[c] = "limits" \/ aRun'[c] = "pending"
           /\ aRun'[c] = "limits" => Free
           /\ \A b \in Commits : b # c => \/ aRun'[b] = aRun[b]
                                          \/ aRun[b] = "pending" /\ aRun'[b] = "cancelled"
           /\ aRun[c] = "none" => aBuild[c] = "pushed"
           /\ UNCHANGED aCode
<1>1. CASE Ask(c)
  <2>1. aRun[c] = "none" /\ aBuild[c] = "pushed" /\ Join(c) /\ UNCHANGED aCode BY <1>1 DEF Ask
  <2>2. ~Holds(c) BY <2>1 DEF Holds, Steps
  <2> QED BY <2>1, <2>2, Joins
<1>2. CASE Again(c)
  <2>1. aRun[c] \in Over /\ Join(c) /\ UNCHANGED aCode BY <1>2 DEF Again
  <2>2. ~Holds(c) /\ aRun[c] # "none" BY <2>1 DEF Holds, Steps, Over
  <2> QED BY <2>1, <2>2, Joins
<1> QED BY <1>1, <1>2

\* How a run of the workflow moves, whatever it is asked to do.
LEMMA RunsMove ==
    ASSUME ATypeOK, NEW c \in Commits,
           NextInQueue(c) \/ CheckOnRunner(c) \/ StepFails(c) \/ PollDocument(c) \/ StopWaiting(c)
    PROVE  /\ UNCHANGED <<aCode, aStaged, aHub>>
           /\ aRun' \in [Commits -> {"none", "pending"} \cup Steps \cup Over]
           /\ \A b \in Commits : b # c => aRun'[b] = aRun[b]
           /\ \/ Free /\ aRun[c] = "pending" /\ aRun'[c] = "limits"
              \/ aRun[c] = "limits" /\ aRun'[c] \in {"stage", "failed"}
              \/ aRun[c] \in Steps \ {"polling"} /\ aRun'[c] = "failed"
              \/ aRun[c] = "polling" /\ aJob[c] \in JobEnds /\ aRun'[c] = Verdict(aJob[c])
              \/ aRun[c] = "polling" /\ aGiveups' = aGiveups + 1 /\ aRun'[c] = "failed"
           /\ aReruns' = aReruns
           /\ aGiveups' = aGiveups \/ aGiveups' = aGiveups + 1
<1> USE DEF ATypeOK, Proceed, Steps, Over, aCode, aHub
<1>1. CASE NextInQueue(c) BY <1>1 DEF NextInQueue
<1>2. CASE CheckOnRunner(c) BY <1>2 DEF CheckOnRunner
<1>3. CASE StepFails(c) BY <1>3 DEF StepFails
<1>4. CASE PollDocument(c) BY <1>4 DEF PollDocument, Verdict
<1>5. CASE StopWaiting(c) BY <1>5 DEF StopWaiting
<1> QED BY <1>1, <1>2, <1>3, <1>4, <1>5

\* A script that is awaited is the only one.
LEMMA OneScript ==
    ASSUME ATypeOK, Queue, Awaited, aGiveups = 0, NEW c \in Commits, aJob[c] \in JobSteps
    PROVE  aRun[c] = "polling" /\ \A b \in Commits : b # c => aRun[b] # "polling"
BY DEF Queue, Awaited, Holds, Steps

LEMMA TextsKnown ==
    ASSUME ATypeOK, NEW c \in Commits
    PROVE  Delivery(c) \subseteq {0, aTar[c], aDags} /\ Delivery(c) \subseteq Commits \cup {0}
BY DEF ATypeOK, Delivery

\* What a script leaves alone.
LEMMA ScriptsMove ==
    ASSUME ATypeOK, NEW c \in Commits, Script(c)
    PROVE  /\ UNCHANGED <<aCode, aRun, aStaged, aGiveups, aReruns>>
           /\ aJob[c] \in JobSteps
           /\ aJob' \in [Commits -> {"none"} \cup JobSteps \cup JobEnds]
           /\ \A b \in Commits : b # c => aJob'[b] = aJob[b]
           /\ aTar' \in [Commits -> Commits \cup {0}]
           /\ \A b \in Commits : b # c => aTar'[b] = aTar[b]
<1> USE DEF ATypeOK, Then, JobSteps, JobEnds
<1>1. CASE Fetch(c) BY <1>1 DEF Fetch
<1>2. CASE CheckOnHub(c) BY <1>2 DEF CheckOnHub
<1>3. CASE Move(c) BY <1>3 DEF Move
<1>4. CASE PullLatest(c) BY <1>4 DEF PullLatest
<1>5. CASE Launch(c) BY <1>5 DEF Launch
<1>6. CASE FetchDags(c) BY <1>6 DEF FetchDags
<1>7. CASE DeliverDags(c) BY <1>7 DEF DeliverDags
<1>8. CASE JobFails(c) BY <1>8 DEF JobFails
<1> QED BY <1>1, <1>2, <1>3, <1>4, <1>5, <1>6, <1>7, <1>8 DEF Script

\* History is not taken back.
LEMMA HistoryStays ==
    ASSUME ATypeOK, [ANext]_aVars
    PROVE  /\ aGiveups' = 0 => aGiveups = 0
           /\ aLate \subseteq aLate'
<1>1. ASSUME NEW c \in Commits, Merge(c) PROVE UNCHANGED <<aGiveups, aLate>> BY <1>1 DEF Merge
<1>2. ASSUME NEW c \in Commits, BuildEnds(c) PROVE UNCHANGED aGiveups /\ aLate \subseteq aLate'
  BY <1>2 DEF BuildEnds
<1>3. ASSUME NEW c \in Commits, Ask(c) \/ Again(c) PROVE UNCHANGED <<aGiveups, aLate>>
  BY <1>3 DEF Ask, Again, aCode
<1>4. ASSUME NEW c \in Commits, Stage(c) \/ SendDocument(c) PROVE UNCHANGED <<aGiveups, aLate>>
  BY <1>4 DEF Stage, SendDocument, aCode
<1>5. ASSUME NEW c \in Commits,
             NextInQueue(c) \/ CheckOnRunner(c) \/ StepFails(c) \/ PollDocument(c) \/ StopWaiting(c)
      PROVE  (aGiveups' = aGiveups \/ aGiveups' = aGiveups + 1) /\ UNCHANGED aLate
  BY <1>5, RunsMove DEF aCode
<1>6. ASSUME NEW c \in Commits, Script(c) PROVE UNCHANGED <<aGiveups, aLate>>
  BY <1>6, ScriptsMove DEF aCode
<1>7. CASE UNCHANGED aVars BY <1>7 DEF aVars, aCode
<1>8. aGiveups \in Nat BY DEF ATypeOK
<1> QED BY <1>1, <1>2, <1>3, <1>4, <1>5, <1>6, <1>7, <1>8 DEF ANext, Workflow

-----------------------------------------------------------------------------
(* The invariant, conjunct by conjunct                                     *)

LEMMA ScriptTypes == ASSUME ATypeOK, NEW c \in Commits, Script(c) PROVE ATypeOK'
<1>1. /\ UNCHANGED <<aCode, aRun, aStaged, aGiveups, aReruns>>
      /\ aJob' \in [Commits -> {"none"} \cup JobSteps \cup JobEnds]
      /\ aTar' \in [Commits -> Commits \cup {0}]
  BY ScriptsMove
<1>2. {aNew', aFile', aImage', aDags'} \subseteq Commits \cup {0}
  <2>1. aNew' \in {0, aNew, aStaged.compose} /\ aFile' \in {aNew, aFile} /\ aImage' \in {aLatest, aImage}
    BY DEF Script, Fetch, CheckOnHub, Move, PullLatest, Launch, FetchDags, DeliverDags, JobFails
  <2>2. aDags' = aDags \/ aDags' \in Delivery(c)
    BY DEF Script, Fetch, CheckOnHub, Move, PullLatest, Launch, FetchDags, DeliverDags, JobFails
  <2> QED BY <2>1, <2>2, TextsKnown DEF ATypeOK
<1>3. aUp' \in [file : Commits \cup {0}, image : Commits \cup {0}]
  <2>1. aUp' = aUp \/ aUp' = Launched
    BY DEF Script, Fetch, CheckOnHub, Move, PullLatest, Launch, FetchDags, DeliverDags, JobFails
  <2> QED BY <2>1 DEF ATypeOK, Launched
<1> QED BY <1>1, <1>2, <1>3 DEF ATypeOK, aCode

LEMMA TypesStep == ASSUME ATypeOK, [ANext]_aVars PROVE ATypeOK'
<1> USE DEF ATypeOK, aCode, aHub
<1>1. ASSUME NEW c \in Commits, Merge(c) PROVE ATypeOK'
  <2>1. PICK text \in Texts : aText' = [aText EXCEPT ![c] = text] BY <1>1 DEF Merge
  <2>2. aText' \in [Commits -> Texts] BY <2>1
  <2> QED BY <1>1, <2>2 DEF Merge
<1>2. ASSUME NEW c \in Commits, BuildEnds(c) PROVE ATypeOK' BY <1>2 DEF BuildEnds
<1>3. ASSUME NEW c \in Commits, Ask(c) \/ Again(c) PROVE ATypeOK'
  <2>2. aRun' \in [Commits -> {"none", "pending"} \cup Steps \cup Over] BY <1>3, Enters
  <2>3. aReruns' \in Nat /\ aGiveups' \in Nat BY <1>3 DEF Ask, Again
  <2>4. UNCHANGED <<aCode, aStaged, aHub>> BY <1>3 DEF Ask, Again
  <2> QED BY <2>2, <2>3, <2>4
<1>4. ASSUME NEW c \in Commits, Stage(c) PROVE ATypeOK'
  <2>1. aRun' \in [Commits -> {"none", "pending"} \cup Steps \cup Over]
    BY <1>4 DEF Stage, Proceed, Steps
  <2>2. aStaged' \in [compose : Commits \cup {0}, dags : Commits \cup {0}] BY <1>4 DEF Stage
  <2> QED BY <1>4, <2>1, <2>2 DEF Stage
<1>5. ASSUME NEW c \in Commits, SendDocument(c) PROVE ATypeOK'
  BY <1>5 DEF SendDocument, Proceed, Steps, JobSteps
<1>6. ASSUME NEW c \in Commits,
             NextInQueue(c) \/ CheckOnRunner(c) \/ StepFails(c) \/ PollDocument(c) \/ StopWaiting(c)
      PROVE  ATypeOK'
  <2>1. UNCHANGED <<aCode, aStaged, aHub>> BY <1>6, RunsMove
  <2>2. aRun' \in [Commits -> {"none", "pending"} \cup Steps \cup Over] BY <1>6, RunsMove
  <2>3. aReruns' = aReruns /\ (aGiveups' = aGiveups \/ aGiveups' = aGiveups + 1) BY <1>6, RunsMove
  <2>4. aGiveups' \in Nat /\ aReruns' \in Nat BY <2>3
  <2> QED BY <2>1, <2>2, <2>4
<1>7. ASSUME NEW c \in Commits, Script(c) PROVE ATypeOK' BY <1>7, ScriptTypes
<1>8. CASE UNCHANGED aVars BY <1>8 DEF aVars
<1> QED BY <1>1, <1>2, <1>3, <1>4, <1>5, <1>6, <1>7, <1>8 DEF ANext, Workflow

LEMMA QueueStep == ASSUME ATypeOK, Queue, [ANext]_aVars PROVE Queue'
<1>0. /\ aRun \in [Commits -> {"none", "pending"} \cup Steps \cup Over]
      /\ aBuild \in [Commits -> {"none", "building", "pushed", "failed"}]
  BY DEF ATypeOK
<1>3. ASSUME NEW c \in Commits, Ask(c) \/ Again(c) PROVE Queue'
  <2>1. /\ aRun'[c] = "limits" \/ aRun'[c] = "pending"
        /\ aRun'[c] = "limits" => Free
        /\ \A b \in Commits : b # c => \/ aRun'[b] = aRun[b]
                                       \/ aRun[b] = "pending" /\ aRun'[b] = "cancelled"
        /\ aRun[c] = "none" => aBuild[c] = "pushed"
        /\ UNCHANGED aCode
    BY <1>3, Enters
  <2>2. \A b \in Commits : aRun'[b] # "none" => aBuild'[b] = "pushed" BY <2>1 DEF Queue, aCode
  <2>3. \A b \in Commits : b # c /\ Holds(b)' => Holds(b) BY <2>1 DEF Holds, Steps
  <2>4. Holds(c)' => Free BY <2>1 DEF Holds, Steps
  <2>5. \A a, b \in Commits : Holds(a)' /\ Holds(b)' => a = b BY <2>3, <2>4 DEF Queue, Free
  <2> QED BY <2>2, <2>5 DEF Queue
<1> USE <1>0 DEF Queue, Holds, Steps, Over
<1>1. ASSUME NEW c \in Commits, Merge(c) PROVE Queue' BY <1>1 DEF Merge
<1>2. ASSUME NEW c \in Commits, BuildEnds(c) PROVE Queue' BY <1>2 DEF BuildEnds
<1>4. ASSUME NEW c \in Commits, Stage(c) \/ SendDocument(c) PROVE Queue'
  <2>1. UNCHANGED aBuild /\ aRun[c] \in Steps BY <1>4 DEF Stage, SendDocument, Proceed, aCode
  <2>2. \E next \in Steps : aRun' = [aRun EXCEPT ![c] = next] BY <1>4 DEF Stage, SendDocument, Proceed
  <2>3. \A b \in Commits : b # c => aRun'[b] = aRun[b] BY <2>2
  <2>4. aRun[c] # "none" BY <2>1
  <2> QED BY <2>1, <2>3, <2>4
<1>6. ASSUME NEW c \in Commits,
             NextInQueue(c) \/ CheckOnRunner(c) \/ StepFails(c) \/ PollDocument(c) \/ StopWaiting(c)
      PROVE  Queue'
  <2>1. aBuild' = aBuild /\ \A b \in Commits : b # c => aRun'[b] = aRun[b] BY <1>6, RunsMove DEF aCode
  <2>2. \/ Free /\ aRun[c] = "pending"
        \/ aRun[c] \in Steps
    BY <1>6, RunsMove
  <2>3. aRun[c] # "none" BY <2>2
  <2> QED BY <2>1, <2>2, <2>3 DEF Free
<1>7. ASSUME NEW c \in Commits, Script(c) PROVE Queue' BY <1>7, ScriptsMove DEF aCode
<1>8. CASE UNCHANGED aVars BY <1>8 DEF aVars, aCode
<1> QED BY <1>1, <1>2, <1>3, <1>4, <1>6, <1>7, <1>8 DEF ANext, Workflow

LEMMA ImagesStep == ASSUME ATypeOK, Images, [ANext]_aVars PROVE Images'
<1> SUFFICES ASSUME aLate' = {} PROVE Images' BY DEF Images
<1>0. aLate = {} BY HistoryStays
<1>1. /\ aLatest \in Nat /\ aImage \in Nat /\ aUp.image \in Nat
      /\ \A c \in Commits : aBuild[c] = "pushed" => c <= aLatest
      /\ aImage <= aLatest /\ aUp.image <= aImage
  <2>1. aImage \in Commits \cup {0} /\ aLatest \in Commits \cup {0} /\ aUp.image \in Commits \cup {0}
    BY DEF ATypeOK
  <2>2. Commits \cup {0} \subseteq Nat OBVIOUS
  <2>3. aImage \in Nat /\ aLatest \in Nat /\ aUp.image \in Nat BY <2>1, <2>2
  <2> QED BY <1>0, <2>3 DEF Images
<1>2. ASSUME NEW c \in Commits, BuildEnds(c), aLatest' = c PROVE Images'
  <2>1. /\ aLatest <= c /\ UNCHANGED <<aImage, aUp>>
        /\ \A b \in Commits : b # c => aBuild'[b] = aBuild[b]
    <3>1. UNCHANGED <<aImage, aUp>> BY <1>2 DEF BuildEnds, aHub
    <3>2. \/ aBuild' = [aBuild EXCEPT ![c] = "pushed"] /\ aLate' = aLate \cup {b \in {c} : b < aLatest}
          \/ aBuild' = [aBuild EXCEPT ![c] = "failed"] /\ aLatest' = aLatest
      BY <1>2 DEF BuildEnds
    <3>3. c \in Nat /\ aBuild \in [Commits -> {"none", "building", "pushed", "failed"}] BY DEF ATypeOK
    <3>4. \A b \in Commits : b # c => aBuild'[b] = aBuild[b] BY <3>2, <3>3
    <3>5. aLatest <= c
      <4>1. CASE aLate' = aLate \cup {b \in {c} : b < aLatest}
        <5>1. c \notin {b \in {c} : b < aLatest} BY <4>1
        <5>2. ~(c < aLatest) BY <5>1
        <5> QED BY <1>1, <3>3, <5>2
      <4>2. CASE aLatest' = aLatest BY <1>1, <1>2, <4>2
      <4> QED BY <3>2, <4>1, <4>2
    <3> QED BY <3>1, <3>4, <3>5
  <2> QED BY <1>1, <1>2, <2>1 DEF Images, ATypeOK
<1>3. ASSUME NEW c \in Commits, Merge(c) \/ (BuildEnds(c) /\ aLatest' # c) PROVE Images'
  <2>1. UNCHANGED <<aLatest, aImage, aUp>>
        /\ \E to \in {"building", "failed"} : aBuild' = [aBuild EXCEPT ![c] = to]
    BY <1>3 DEF Merge, BuildEnds, aHub
  <2> QED BY <1>1, <2>1 DEF Images, ATypeOK
<1>4. ASSUME NEW c \in Commits, Ask(c) \/ Again(c) \/ Workflow(c) PROVE Images'
  <2>1. UNCHANGED <<aBuild, aLatest, aImage, aUp>>
    BY <1>4, RunsMove DEF Ask, Again, Workflow, Stage, SendDocument, aCode, aHub
  <2> QED BY <1>1, <2>1 DEF Images
<1>5. ASSUME NEW c \in Commits, Script(c) PROVE Images'
  <2>1. UNCHANGED <<aBuild, aLatest>> BY <1>5, ScriptsMove DEF aCode
  <2>2. \/ aImage' = aLatest /\ aUp' = aUp
        \/ aImage' = aImage /\ (aUp' = aUp \/ aUp'.image = aImage)
    BY <1>5 DEF Script, Fetch, CheckOnHub, Move, PullLatest, Launch, FetchDags, DeliverDags, JobFails,
                Launched
  <2> QED BY <1>1, <2>1, <2>2 DEF Images
<1>6. CASE UNCHANGED aVars BY <1>1, <1>6 DEF aVars, aCode, aHub, Images
<1> QED BY <1>2, <1>3, <1>4, <1>5, <1>6 DEF ANext

LEMMA AwaitedStep == ASSUME ATypeOK, Queue, Awaited, [ANext]_aVars PROVE Awaited'
<1> SUFFICES ASSUME aGiveups' = 0 PROVE Awaited' BY DEF Awaited
<1>0. /\ aGiveups = 0
      /\ aRun \in [Commits -> {"none", "pending"} \cup Steps \cup Over]
      /\ aJob \in [Commits -> {"none"} \cup JobSteps \cup JobEnds]
  BY HistoryStays DEF ATypeOK
<1>1. \A c \in Commits :
        /\ aJob[c] \in JobSteps => aRun[c] = "polling"
        /\ aRun[c] \in {"stage dags", "send", "polling"} => aStaged.compose = c
        /\ aRun[c] \in {"send", "polling"} => aStaged.dags = c
  BY <1>0 DEF Awaited
\* What holds of a run that stands still while the staged files and its script do.
<1>2. ASSUME UNCHANGED <<aJob, aStaged>>, NEW c \in Commits,
             \A b \in Commits : b # c => aRun'[b] = aRun[b] \/ (aRun[b] = "pending" /\ aRun'[b] = "cancelled"),
             aJob[c] \notin JobSteps \/ aRun'[c] = "polling",
             aRun'[c] \in {"stage dags", "send", "polling"} => aRun'[c] = aRun[c]
      PROVE  Awaited'
  BY <1>0, <1>1, <1>2 DEF Awaited
<1>3. ASSUME NEW c \in Commits, Merge(c) \/ BuildEnds(c) PROVE Awaited'
  <2>1. UNCHANGED <<aRun, aJob, aStaged>> BY <1>3 DEF Merge, BuildEnds, aHub
  <2> QED BY <1>0, <1>1, <2>1 DEF Awaited
<1>4. ASSUME NEW c \in Commits, Ask(c) \/ Again(c) PROVE Awaited'
  <2>1. Join(c) /\ UNCHANGED <<aJob, aStaged>> BY <1>4 DEF Ask, Again, aHub
  <2>2. ~Holds(c) /\ aRun[c] # "polling" BY <1>4 DEF Ask, Again, Holds, Steps, Over
  <2>3. aJob[c] \notin JobSteps BY <1>1, <2>2
  <2>4. aRun'[c] \in {"limits", "pending"} BY <2>1, <2>2, Joins
  <2>5. \A b \in Commits : b # c => aRun'[b] = aRun[b] \/ (aRun[b] = "pending" /\ aRun'[b] = "cancelled")
    BY <2>1, <2>2, Joins
  <2> QED BY <1>2, <2>1, <2>3, <2>4, <2>5
<1>5. ASSUME NEW c \in Commits, Stage(c) PROVE Awaited'
  <2>1. /\ UNCHANGED aJob /\ \A b \in Commits : b # c => aRun'[b] = aRun[b]
        /\ \/ aRun[c] = "stage" /\ aRun'[c] = "stage dags"
              /\ aStaged' = [aStaged EXCEPT !.compose = c]
           \/ aRun[c] = "stage dags" /\ aRun'[c] = "send"
              /\ aStaged' = [aStaged EXCEPT !.dags = c]
    BY <1>0, <1>5 DEF Stage, Proceed, aHub
  <2>2. \A b \in Commits : b # c => aRun[b] \notin {"stage dags", "send", "polling"}
    BY <2>1 DEF Queue, Holds, Steps
  <2>3. aStaged \in [compose : Commits \cup {0}, dags : Commits \cup {0}] BY DEF ATypeOK
  <2>4. aJob[c] \notin JobSteps BY <1>1, <2>1
  <2>5. aStaged'.compose = c /\ (aRun'[c] = "send" => aStaged'.dags = c) BY <1>1, <2>1, <2>3
  <2> QED BY <1>1, <2>1, <2>2, <2>4, <2>5 DEF Awaited
<1>6. ASSUME NEW c \in Commits, SendDocument(c) PROVE Awaited'
  <2>1. /\ aRun[c] = "send" /\ aRun'[c] = "polling" /\ UNCHANGED aStaged
        /\ \A b \in Commits : b # c => aRun'[b] = aRun[b] /\ aJob'[b] = aJob[b]
    BY <1>0, <1>6 DEF SendDocument, Proceed
  <2> QED BY <1>1, <2>1 DEF Awaited
<1>7. ASSUME NEW c \in Commits,
             NextInQueue(c) \/ CheckOnRunner(c) \/ StepFails(c) \/ PollDocument(c) \/ StopWaiting(c)
      PROVE  Awaited'
  <2>1. UNCHANGED <<aJob, aStaged>> /\ \A b \in Commits : b # c => aRun'[b] = aRun[b]
    BY <1>7, RunsMove DEF aHub
  <2>2. aGiveups' = aGiveups + 1 => FALSE BY <1>0
  <2>3. /\ aRun'[c] \in {"limits", "stage", "failed", "done"}
        /\ aRun[c] # "polling" \/ aJob[c] \in JobEnds
    BY <1>7, <2>2, RunsMove DEF Verdict
  <2>4. aJob[c] \notin JobSteps BY <1>1, <2>3 DEF JobSteps, JobEnds
  <2> QED BY <1>2, <2>1, <2>3, <2>4
<1>8. ASSUME NEW c \in Commits, Script(c) PROVE Awaited'
  <2>1. /\ UNCHANGED <<aRun, aStaged>> /\ aJob[c] \in JobSteps
        /\ \A b \in Commits : b # c => aJob'[b] = aJob[b]
    BY <1>8, ScriptsMove
  <2> QED BY <1>1, <2>1 DEF Awaited
<1>9. CASE UNCHANGED aVars BY <1>0, <1>1, <1>9 DEF aVars, aHub, Awaited
<1> QED BY <1>3, <1>4, <1>5, <1>6, <1>7, <1>8, <1>9 DEF ANext, Workflow

\* A step of the script that is awaited.
LEMMA ScriptSoFar ==
    ASSUME ATypeOK, Queue, Images, Awaited, SoFar, aGiveups = 0, NEW c \in Commits, Script(c)
    PROVE  /\ aJob'[c] \in {"check", "move"} => aNew' = c
           /\ aJob'[c] \in {"pull", "up"} => aFile' = c
           /\ aJob'[c] \in {"dags", "deliver", "good"} => aUp'.file = c
           /\ aJob'[c] = "deliver" => aTar'[c] = c
           /\ aLate = {} /\ aJob'[c] = "up" => aImage' >= c
           /\ aLate = {} /\ aJob'[c] \in {"dags", "deliver", "good"} => aUp'.image >= c
<1>0. /\ aJob \in [Commits -> {"none"} \cup JobSteps \cup JobEnds]
      /\ aTar \in [Commits -> Commits \cup {0}]
      /\ c \in Nat \ {0}
  BY DEF ATypeOK
<1>1. aJob[c] \in JobSteps /\ aRun[c] = "polling" BY ScriptsMove, OneScript
<1>2. aStaged.compose = c /\ aStaged.dags = c BY <1>1 DEF Awaited
<1>3. /\ aJob[c] \in {"check", "move"} => aNew = c
      /\ aJob[c] \in {"pull", "up"} => aFile = c
      /\ aJob[c] \in {"dags", "deliver", "good"} => aUp.file = c
      /\ aLate = {} /\ aJob[c] = "up" => aImage >= c
      /\ aLate = {} /\ aJob[c] \in {"dags", "deliver", "good"} => aUp.image >= c
  BY <1>1 DEF SoFar
<1>4. aLate = {} => c <= aLatest BY <1>1 DEF Queue, Images
<1>5. CASE Fetch(c) BY <1>0, <1>2, <1>5 DEF Fetch, Then
<1>6. CASE CheckOnHub(c) BY <1>0, <1>3, <1>6 DEF CheckOnHub, Then
<1>7. CASE Move(c) BY <1>0, <1>3, <1>7 DEF Move, Then
<1>8. CASE PullLatest(c)
  <2>1. aJob[c] = "pull" /\ aJob'[c] = "up" /\ aFile' = aFile /\ aImage' = aLatest
    BY <1>0, <1>8 DEF PullLatest, Then
  <2>2. aLatest \in Nat BY DEF ATypeOK
  <2> QED BY <1>0, <1>3, <1>4, <2>1, <2>2
<1>9. CASE Launch(c)
  <2>1. aJob[c] = "up" /\ aJob'[c] = "dags" /\ aUp' = Launched BY <1>0, <1>9 DEF Launch, Then
  <2>2. aUp'.file = aFile /\ aUp'.image = aImage BY <2>1 DEF Launched
  <2> QED BY <1>3, <2>1, <2>2
<1>10. CASE FetchDags(c)
  <2>1. /\ aJob[c] = "dags" /\ aUp' = aUp
        /\ aJob'[c] = "good" \/ (aJob'[c] = "deliver" /\ aTar'[c] = aStaged.dags)
    BY <1>0, <1>10 DEF FetchDags, Then
  <2> QED BY <1>2, <1>3, <2>1
<1>11. CASE DeliverDags(c)
  <2>1. aJob[c] = "deliver" /\ aJob'[c] \in {"good", "bad"} /\ aUp' = aUp
    BY <1>0, <1>11 DEF DeliverDags, Then
  <2> QED BY <1>3, <2>1
<1>12. CASE JobFails(c) BY <1>0, <1>12 DEF JobFails, Then
<1> QED BY <1>5, <1>6, <1>7, <1>8, <1>9, <1>10, <1>11, <1>12 DEF Script

LEMMA SoFarStep ==
    ASSUME ATypeOK, Queue, Images, Awaited, SoFar, [ANext]_aVars PROVE SoFar'
<1> SUFFICES ASSUME aGiveups' = 0 PROVE SoFar' BY DEF SoFar
<1>0. /\ aGiveups = 0 /\ aLate \subseteq aLate'
      /\ aRun \in [Commits -> {"none", "pending"} \cup Steps \cup Over]
      /\ aJob \in [Commits -> {"none"} \cup JobSteps \cup JobEnds]
  BY HistoryStays DEF ATypeOK
<1>1. aLate' = {} => aLate = {} BY <1>0
\* A step of the workflow, or of a build.
<1>2. ASSUME UNCHANGED aHub,
             \A b \in Commits : aRun'[b] = "polling" => aRun[b] = "polling"
      PROVE  SoFar'
  BY <1>0, <1>1, <1>2 DEF SoFar, aHub
<1>3. ASSUME NEW c \in Commits, Merge(c) \/ BuildEnds(c) PROVE SoFar'
  <2>1. UNCHANGED <<aHub, aRun>> BY <1>3 DEF Merge, BuildEnds
  <2> QED BY <1>2, <2>1
<1>4. ASSUME NEW c \in Commits, Ask(c) \/ Again(c) PROVE SoFar'
  <2>1. Join(c) /\ UNCHANGED aHub /\ ~Holds(c) BY <1>4 DEF Ask, Again, Holds, Steps, Over
  <2>2. /\ aRun'[c] = "limits" \/ aRun'[c] = "pending"
        /\ \A b \in Commits : b # c => \/ aRun'[b] = aRun[b]
                                       \/ aRun[b] = "pending" /\ aRun'[b] = "cancelled"
    BY <2>1, Joins
  <2> QED BY <1>2, <2>1, <2>2
<1>5. ASSUME NEW c \in Commits, Stage(c) PROVE SoFar'
  <2>1. UNCHANGED aHub /\ \A b \in Commits : aRun'[b] = "polling" => aRun[b] = "polling"
    BY <1>0, <1>5 DEF Stage, Proceed
  <2> QED BY <1>2, <2>1
<1>6. ASSUME NEW c \in Commits, SendDocument(c) PROVE SoFar'
  <2>1. aRun[c] = "send" /\ \A b \in Commits : b # c => aRun'[b] = aRun[b]
    BY <1>0, <1>6 DEF SendDocument, Proceed
  <2>2. \A b \in Commits : b # c => aRun[b] # "polling" BY <2>1 DEF Queue, Holds, Steps
  <2>3. aJob'[c] = "fetch" BY <1>0, <1>6 DEF SendDocument
  <2> QED BY <2>1, <2>2, <2>3 DEF SoFar
<1>7. ASSUME NEW c \in Commits,
             NextInQueue(c) \/ CheckOnRunner(c) \/ StepFails(c) \/ PollDocument(c) \/ StopWaiting(c)
      PROVE  SoFar'
  <2>1. UNCHANGED aHub /\ \A b \in Commits : b # c => aRun'[b] = aRun[b] BY <1>7, RunsMove
  <2>2. aRun'[c] \in {"limits", "stage", "failed", "done"} BY <1>7, RunsMove DEF Verdict
  <2>3. \A b \in Commits : aRun'[b] = "polling" => aRun[b] = "polling" BY <2>1, <2>2
  <2> QED BY <1>2, <2>1, <2>3
<1>8. ASSUME NEW c \in Commits, Script(c) PROVE SoFar'
  <2>1. UNCHANGED <<aCode, aRun>> /\ aJob[c] \in JobSteps BY <1>8, ScriptsMove
  <2>2. \A b \in Commits : b # c => aRun'[b] # "polling" BY <1>0, <2>1, OneScript
  <2>3. /\ aJob'[c] \in {"check", "move"} => aNew' = c
        /\ aJob'[c] \in {"pull", "up"} => aFile' = c
        /\ aJob'[c] \in {"dags", "deliver", "good"} => aUp'.file = c
        /\ aJob'[c] = "deliver" => aTar'[c] = c
        /\ aLate = {} /\ aJob'[c] = "up" => aImage' >= c
        /\ aLate = {} /\ aJob'[c] \in {"dags", "deliver", "good"} => aUp'.image >= c
    BY <1>0, <1>8, ScriptSoFar
  <2> QED BY <1>1, <2>2, <2>3 DEF SoFar
<1>9. CASE UNCHANGED aVars
  <2>1. UNCHANGED <<aHub, aRun>> BY <1>9 DEF aVars
  <2> QED BY <1>2, <2>1
<1> QED BY <1>3, <1>4, <1>5, <1>6, <1>7, <1>8, <1>9 DEF ANext, Workflow

LEMMA DagsStep ==
    ASSUME ATypeOK, Queue, Images, Awaited, SoFar, DagsNotAhead, [ANext]_aVars PROVE DagsNotAhead'
<1> SUFFICES ASSUME aGiveups' = 0, aLate' = {} PROVE aDags' <= aUp'.image BY DEF DagsNotAhead
<1>0. aGiveups = 0 /\ aLate = {} BY HistoryStays
<1>1. /\ aDags \in Nat /\ aUp.image \in Nat /\ aImage \in Nat
      /\ aDags <= aUp.image /\ aUp.image <= aImage
  <2>1. aDags \in Commits \cup {0} /\ aImage \in Commits \cup {0} /\ aUp.image \in Commits \cup {0}
    BY DEF ATypeOK
  <2>2. Commits \cup {0} \subseteq Nat OBVIOUS
  <2>3. aDags <= aUp.image /\ aUp.image <= aImage BY <1>0 DEF DagsNotAhead, Images
  <2> QED BY <2>1, <2>2, <2>3
<1>2. ASSUME UNCHANGED <<aDags, aUp>> PROVE aDags' <= aUp'.image BY <1>1, <1>2
<1>3. ASSUME NEW c \in Commits,
             Merge(c) \/ BuildEnds(c) \/ Ask(c) \/ Again(c) \/ Workflow(c)
      PROVE  aDags' <= aUp'.image
  <2>1. UNCHANGED <<aDags, aUp>>
    BY <1>3, RunsMove DEF Merge, BuildEnds, Ask, Again, Workflow, Stage, SendDocument, aHub
  <2> QED BY <1>2, <2>1
<1>4. ASSUME NEW c \in Commits, Script(c) PROVE aDags' <= aUp'.image
  <2>1. /\ aUp' = aUp \/ aUp' = Launched
        /\ \/ aDags' = aDags
           \/ aJob[c] = "deliver" /\ aDags' \in Delivery(c) /\ aUp' = aUp
    BY <1>4 DEF Script, Fetch, CheckOnHub, Move, PullLatest, Launch, FetchDags, DeliverDags, JobFails,
                Then
  <2>2. Launched.image = aImage BY DEF Launched
  <2>3. CASE aDags' = aDags BY <1>1, <2>1, <2>2, <2>3
  <2>4. CASE aJob[c] = "deliver" /\ aDags' \in Delivery(c) /\ aUp' = aUp
    <3>1. aRun[c] = "polling" BY <1>0, <2>4, OneScript DEF JobSteps
    <3>2. aTar[c] = c /\ aUp.image >= c BY <1>0, <2>4, <3>1 DEF SoFar
    <3>3. aDags' \in {0, c, aDags} BY <2>4, <3>2, TextsKnown
    <3> QED BY <1>1, <2>4, <3>2, <3>3
  <2> QED BY <2>1, <2>3, <2>4
<1>5. CASE UNCHANGED aVars BY <1>2, <1>5 DEF aVars, aHub
<1> QED BY <1>3, <1>4, <1>5 DEF ANext

\* The Compose file a green deploy leaves up is its own.
LEMMA GreenStep ==
    ASSUME AInv, [ANext]_aVars, NEW c \in Commits, aGiveups = 0, aRun[c] # "done", aRun'[c] = "done"
    PROVE  aUp.file = c /\ (aLate = {} => aUp.image >= c)
<1>0. ATypeOK /\ aRun \in [Commits -> {"none", "pending"} \cup Steps \cup Over] BY DEF AInv, ATypeOK
<1>1. PICK b \in Commits :
        Merge(b) \/ BuildEnds(b) \/ Ask(b) \/ Again(b) \/ Workflow(b) \/ Script(b)
  BY DEF ANext, aVars
<1>2. aRun' # aRun OBVIOUS
<1>3. ~Merge(b) /\ ~BuildEnds(b) BY <1>2 DEF Merge, BuildEnds
<1>4. ~Script(b) BY <1>0, <1>2, ScriptsMove
<1>5. ~Ask(b) /\ ~Again(b)
  <2> SUFFICES ASSUME Ask(b) \/ Again(b) PROVE FALSE OBVIOUS
  <2>1. Join(b) /\ ~Holds(b) BY DEF Ask, Again, Holds, Steps, Over
  <2> QED BY <1>0, <2>1, Joins
<1>6. ~Stage(b) /\ ~SendDocument(b) BY <1>0 DEF Stage, SendDocument, Proceed
<1>7. /\ \A a \in Commits : a # b => aRun'[a] = aRun[a]
      /\ \/ aRun'[b] \in {"limits", "stage", "failed"}
         \/ aRun[b] = "polling" /\ aJob[b] \in JobEnds /\ aRun'[b] = Verdict(aJob[b])
  BY <1>0, <1>1, <1>3, <1>4, <1>5, <1>6, RunsMove DEF Workflow
<1>8. b = c /\ aRun[c] = "polling" /\ aJob[c] = "good" BY <1>7 DEF Verdict, JobEnds
<1> QED BY <1>8 DEF AInv, SoFar

-----------------------------------------------------------------------------
(* Theorems                                                                *)

\* The invariant holds of every behaviour of the deploys of an app.
THEOREM AppInvariant == ASpec => []AInv
<1>1. AInit => AInv
  <2> SUFFICES ASSUME AInit PROVE AInv OBVIOUS
  <2>1. ATypeOK BY DEF AInit, ATypeOK, Texts
  <2>2. Queue /\ Images /\ Awaited /\ SoFar /\ DagsNotAhead
    BY DEF AInit, Queue, Images, Awaited, SoFar, DagsNotAhead, Holds, Steps, JobSteps
  <2> QED BY <2>1, <2>2 DEF AInv
<1>2. AInv /\ [ANext]_aVars => AInv'
  BY TypesStep, QueueStep, ImagesStep, AwaitedStep, SoFarStep, DagsStep DEF AInv
<1> QED BY <1>1, <1>2, PTL DEF ASpec

\* app-deploy.sh:62-63: what Airflow runs is not ahead of the image that runs, whatever
\* fails and whichever deploy is run again, while every workflow waits for its command
\* and no older build pushes :latest over a newer one.
THEOREM DagsFollowApp == ASpec => []DagsNotAhead
<1>1. AInv => DagsNotAhead BY DEF AInv
<1> QED BY <1>1, AppInvariant, PTL

\* A deploy that ends green has its Compose file up, with an image as new as its commit.
THEOREM GreenDeploysAreUp == ASpec => GreenIsUp
<1>1. AInv /\ [ANext]_aVars =>
        [\A c \in Commits :
            aGiveups = 0 /\ aRun[c] # "done" /\ aRun'[c] = "done" =>
                aUp.file = c /\ (aLate = {} => aUp.image >= c)]_aVars
  BY GreenStep
<1> QED BY <1>1, AppInvariant, PTL DEF ASpec, GreenIsUp

-----------------------------------------------------------------------------
(***************************************************************************)
(* HubDeploy                                                               *)
(***************************************************************************)

DeploySteps == {"sync", "check", "restart", "up", "alerts", "record", "units"}
Deploys == [at : DeploySteps, want : [Parts -> Versions], fresh : SUBSET Readers, todo : SUBSET Readers]

HTypeOK ==
    /\ hTree \in [Parts -> Versions]
    /\ hUp \in [Readers -> [defs : Versions, file : Versions]]
    /\ hSick \subseteq Readers
    /\ hHash \in Versions
    /\ hRun = NoRun \/ hRun \in Deploys
    /\ hGood \in BOOLEAN /\ hHalf \in BOOLEAN

Reads(s) == hUp[s].file = hTree[FileOf(s)]
Made(s) == hUp[s].defs = hTree["defs"]

\* How far a deploy has come says what is in line with the files on disk.
DeployHasDone ==
    /\ hRun.at \in DeploySteps \ {"sync"} => \A s \in hRun.fresh : Reads(s)
    /\ hRun.at = "up" => \A s \in Readers \ hRun.todo : Made(s)
    /\ hRun.at \in {"alerts", "record", "units"} => Reads("prometheus") /\ \A s \in Readers : Made(s)
    /\ hRun.at = "record" => Reads("grafana")
    /\ hRun.at = "units" => hTree["alerting"] = hHash /\ (hHalf \/ Reads("grafana"))

\* As long as no deploy ended half-way, Grafana has the recorded rules or those on
\* disk; the two differ only from the synchronisation of a deploy to its record.
RulesAreKnown ==
    ~hHalf =>
        /\ hUp["grafana"].file = hHash \/ Reads("grafana")
        /\ hRun.at = "idle" => hTree["alerting"] = hHash
        /\ hRun.at = "sync" => hTree["alerting"] \in {hHash, hRun.want["alerting"]}

HInv == HTypeOK /\ DeployHasDone /\ RulesAreKnown /\ (hGood => hRun.at = "idle") /\ LoadedIsDeployed

USE DEF Parts, Readers, FileOf, NoRun, At, DeploySteps, Deploys, Reads, Made

-----------------------------------------------------------------------------

LEMMA HInitially == HInit => HInv
<1> SUFFICES ASSUME HInit PROVE HInv OBVIOUS
<1>1. PICK v \in Versions : /\ hTree = [p \in Parts |-> v]
                            /\ hUp = [s \in Readers |-> [defs |-> v, file |-> v]]
                            /\ hHash = v
  BY DEF HInit
<1>2. HTypeOK BY <1>1 DEF HInit, HTypeOK
<1>3. \A s \in Readers : Reads(s) /\ Made(s) BY <1>1
<1>4. hTree["alerting"] = hHash BY <1>1
<1>5. DeployHasDone BY DEF HInit, DeployHasDone
<1>6. RulesAreKnown BY <1>3, <1>4 DEF HInit, RulesAreKnown
<1>7. LoadedIsDeployed BY <1>3 DEF LoadedIsDeployed
<1> QED BY <1>2, <1>5, <1>6, <1>7 DEF HInit, HInv

\* What a step does to the record of the run leaves it one.
LEMMA RunMoves ==
    ASSUME NEW r \in Deploys, NEW a \in DeploySteps, NEW f \in SUBSET Readers, NEW t \in SUBSET Readers
    PROVE  /\ [r EXCEPT !.at = a] \in Deploys
           /\ [r EXCEPT !.at = a, !.fresh = f] \in Deploys
           /\ [r EXCEPT !.at = a, !.todo = t] \in Deploys
           /\ [r EXCEPT !.at = a, !.fresh = f, !.todo = t] \in Deploys
           /\ [r EXCEPT !.fresh = f] \in Deploys
           /\ [r EXCEPT !.todo = t] \in Deploys
OBVIOUS

LEMMA FreshMoves ==
    ASSUME NEW r \in Deploys, NEW f \in SUBSET Readers
    PROVE  [r EXCEPT !.fresh = f] \in Deploys
OBVIOUS

\* A start keeps the types.
LEMMA StartTypes ==
    ASSUME HTypeOK, NEW s \in Readers, NEW defs \in Versions, NEW run, run = NoRun \/ run \in Deploys,
           Starts(s, defs, run)
    PROVE  /\ hUp' \in [Readers -> [defs : Versions, file : Versions]]
           /\ hSick' \subseteq Readers
           /\ hRun' = NoRun \/ hRun' \in Deploys
<1>1. hUp' \in [Readers -> [defs : Versions, file : Versions]] /\ hSick' \subseteq Readers
  BY DEF Starts, HTypeOK
<1>2. CASE run = NoRun BY <1>1, <1>2 DEF Starts
<1>3. CASE run # NoRun
  <2>1. run \in Deploys BY <1>3
  <2>2. run.fresh \cup {s} \in SUBSET Readers BY <2>1
  <2>3. hRun' = [run EXCEPT !.fresh = run.fresh \cup {s}] BY <1>3 DEF Starts
  <2>4. [run EXCEPT !.fresh = run.fresh \cup {s}] \in Deploys BY <2>1, <2>2, FreshMoves
  <2> QED BY <1>1, <2>3, <2>4
<1> QED BY <1>2, <1>3

\* The types, action by action.
LEMMA TypeStep == ASSUME HTypeOK, HNext PROVE HTypeOK'
<1> USE DEF HTypeOK
<1>0. hRun.at # "idle" => /\ hRun \in Deploys /\ hRun.want \in [Parts -> Versions]
                            /\ hRun.fresh \subseteq Readers /\ hRun.todo \subseteq Readers
  OBVIOUS
<1>1. CASE Begin
  <2>1. PICK want \in [Parts -> Versions] :
            hRun' = [at |-> "sync", want |-> want, fresh |-> {}, todo |-> {}]
    BY <1>1 DEF Begin
  <2>2. hRun' \in Deploys BY <2>1
  <2> QED BY <1>1, <2>2 DEF Begin
<1> HIDE DEF Deploys, NoRun
<1>2. ASSUME NEW p \in Parts, Sync(p) PROVE HTypeOK'
  <2>1. hRun \in Deploys BY <1>2, <1>0 DEF Sync
  <2> QED BY <1>2, <1>0, <2>1 DEF Sync
<1>3. CASE WriteEnv
  <2>1. hRun \in Deploys BY <1>3, <1>0 DEF WriteEnv
  <2>2. hRun' \in Deploys BY <1>3, <2>1, RunMoves DEF WriteEnv
  <2> QED BY <1>3, <1>0, <2>1, <2>2 DEF WriteEnv
<1>4. CASE Mark
  <2>1. hRun \in Deploys BY <1>4, <1>0 DEF Mark
  <2>2. PICK since \in SUBSET hRun.fresh : hRun' = [hRun EXCEPT !.at = "restart", !.fresh = since, !.todo = hSick]
    BY <1>4 DEF Mark
  <2>3. since \in SUBSET Readers BY <1>4, <1>0 DEF Mark
  <2>4. hRun' \in Deploys BY <2>1, <2>2, <2>3, RunMoves
  <2> QED BY <1>4, <2>4 DEF Mark
<1>5. ASSUME NEW s \in Readers, RestartUnhealthy(s) PROVE HTypeOK'
  <2>1. hRun \in Deploys BY <1>5, <1>0 DEF RestartUnhealthy
  <2>2. hRun.todo \ {s} \in SUBSET Readers /\ [hRun EXCEPT !.todo = hRun.todo \ {s}] \in Deploys
    BY <1>5, <1>0, <2>1, RunMoves DEF RestartUnhealthy
  <2>3. hUp[s].defs \in Versions OBVIOUS
  <2> QED BY <1>5, <2>2, <2>3, StartTypes DEF RestartUnhealthy
<1>6. CASE BeginUp
  <2>1. hRun \in Deploys BY <1>6, <1>0 DEF BeginUp
  <2>2. hRun' \in Deploys BY <1>6, <2>1, RunMoves DEF BeginUp
  <2> QED BY <1>6, <2>2 DEF BeginUp
<1>7. ASSUME NEW s \in Readers, Up(s) PROVE HTypeOK'
  <2>1. hRun \in Deploys BY <1>7, <1>0 DEF Up
  <2>2. hRun.todo \ {s} \in SUBSET Readers /\ [hRun EXCEPT !.todo = hRun.todo \ {s}] \in Deploys
    BY <1>7, <1>0, <2>1, RunMoves DEF Up
  <2>3. hTree["defs"] \in Versions OBVIOUS
  <2> QED BY <1>7, <2>2, <2>3, StartTypes DEF Up
<1>8. CASE ReloadPrometheus
  <2>1. hRun \in Deploys BY <1>8, <1>0 DEF ReloadPrometheus
  <2>2. hRun' \in Deploys BY <1>8, <2>1, RunMoves DEF ReloadPrometheus
  <2>3. hUp' \in [Readers -> [defs : Versions, file : Versions]] BY <1>8 DEF ReloadPrometheus
  <2> QED BY <1>8, <2>2, <2>3 DEF ReloadPrometheus
<1>9. CASE RestartGrafana
  <2> DEFINE run == [hRun EXCEPT !.at = IF hHash # hTree["alerting"] THEN "record" ELSE "units"]
  <2>1. hRun \in Deploys BY <1>9, <1>0 DEF RestartGrafana
  <2>2. run \in Deploys BY <2>1, RunMoves
  <2>3. hUp["grafana"].defs \in Versions OBVIOUS
  <2>4. \/ Starts("grafana", hUp["grafana"].defs, run)
        \/ hRun' = run /\ UNCHANGED <<hUp, hSick>>
    BY <1>9 DEF RestartGrafana
  <2> HIDE DEF run
  <2> QED BY <1>9, <2>2, <2>3, <2>4, StartTypes DEF RestartGrafana
<1>10. CASE RecordHash
  <2>1. hRun \in Deploys BY <1>10, <1>0 DEF RecordHash
  <2>2. hRun' \in Deploys BY <1>10, <2>1, RunMoves DEF RecordHash
  <2> QED BY <1>10, <2>2 DEF RecordHash
<1>11. CASE Ends BY <1>11 DEF Ends
<1>12. CASE Fails BY <1>12 DEF Fails
<1>13. ASSUME NEW s \in Readers, RestartsItself(s) PROVE HTypeOK'
  <2>1. hUp[s].defs \in Versions OBVIOUS
  <2> QED BY <1>13, <2>1, StartTypes DEF RestartsItself
<1>14. ASSUME NEW s \in Readers, GetsSick(s) PROVE HTypeOK' BY <1>14 DEF GetsSick
<1> HIDE DEF HTypeOK
<1> QED BY <1>1, <1>2, <1>3, <1>4, <1>5, <1>6, <1>7, <1>8, <1>9, <1>10, <1>11, <1>12, <1>13, <1>14 DEF HNext

\* The synchronisation: nothing but the files changes, towards what is wanted.
LEMMA SyncStep ==
    ASSUME HInv, Begin \/ (\E p \in Parts : Sync(p)) \/ WriteEnv
    PROVE  HInv'
<1> USE DEF HInv, HTypeOK, DeployHasDone, RulesAreKnown, LoadedIsDeployed
<1>1. CASE Begin
  <2> USE <1>1 DEF Begin
  <2>1. HTypeOK' BY TypeStep DEF HNext
  <2>2. DeployHasDone' OBVIOUS
  <2>3. RulesAreKnown' OBVIOUS
  <2>4. (hGood => hRun.at = "idle")' /\ LoadedIsDeployed' OBVIOUS
  <2> QED BY <2>1, <2>2, <2>3, <2>4
<1>2. ASSUME NEW p \in Parts, Sync(p) PROVE HInv'
  <2> USE <1>2 DEF Sync
  <2>1. HTypeOK' BY TypeStep DEF HNext
  <2>2. DeployHasDone' OBVIOUS
  <2>3. RulesAreKnown' OBVIOUS
  <2>4. (hGood => hRun.at = "idle")' /\ LoadedIsDeployed' OBVIOUS
  <2> QED BY <2>1, <2>2, <2>3, <2>4
<1>3. CASE WriteEnv
  <2> USE <1>3 DEF WriteEnv, Synced
  <2>1. HTypeOK' BY TypeStep DEF HNext
  <2>2. DeployHasDone' OBVIOUS
  <2>3. RulesAreKnown' OBVIOUS
  <2>4. (hGood => hRun.at = "idle")' /\ LoadedIsDeployed' OBVIOUS
  <2> QED BY <2>1, <2>2, <2>3, <2>4
<1> QED BY <1>1, <1>2, <1>3

\* A process that starts has read the files as they are.
LEMMA StartStep ==
    ASSUME HInv, NEW s \in Readers, RestartUnhealthy(s) \/ Up(s) \/ RestartsItself(s) \/ GetsSick(s)
    PROVE  HInv'
<1> USE DEF HInv, HTypeOK, DeployHasDone, RulesAreKnown, LoadedIsDeployed
<1>1. CASE RestartUnhealthy(s) BY <1>1 DEF RestartUnhealthy, Starts
<1>2. CASE Up(s) BY <1>2 DEF Up, Starts
<1>3. CASE RestartsItself(s) BY <1>3 DEF RestartsItself, Starts
<1>4. CASE GetsSick(s) BY <1>4 DEF GetsSick
<1> QED BY <1>1, <1>2, <1>3, <1>4

\* The steps from the mark to the end, each of which relies on the ones before it.
LEMMA DeployStep ==
    ASSUME HInv, Mark \/ BeginUp \/ ReloadPrometheus \/ RestartGrafana \/ RecordHash \/ Ends \/ Fails
    PROVE  HInv'
<1> USE DEF HInv, HTypeOK, DeployHasDone, RulesAreKnown, LoadedIsDeployed
<1>1. CASE Mark
  <2>1. HTypeOK' BY <1>1, TypeStep DEF HNext
  <2>2. hRun.at = "check" /\ UNCHANGED <<hTree, hUp, hSick, hHash, hGood, hHalf>> BY <1>1 DEF Mark
  <2>3. hRun \in Deploys /\ ~hGood BY <2>2
  <2>4. PICK since \in SUBSET hRun.fresh :
            hRun' = [hRun EXCEPT !.at = "restart", !.fresh = since, !.todo = hSick]
    BY <1>1 DEF Mark
  <2>5. hRun'.at = "restart" /\ hRun'.fresh = since BY <2>3, <2>4
  <2>6. DeployHasDone' BY <2>2, <2>4, <2>5
  <2>7. RulesAreKnown' BY <2>2, <2>5
  <2> QED BY <2>1, <2>2, <2>3, <2>6, <2>7
<1>2. CASE BeginUp
  <2> USE <1>2 DEF BeginUp
  <2>1. HTypeOK' BY TypeStep DEF HNext
  <2>2. DeployHasDone' OBVIOUS
  <2>3. RulesAreKnown' OBVIOUS
  <2>4. (hGood => hRun.at = "idle")' /\ LoadedIsDeployed' OBVIOUS
  <2> QED BY <2>1, <2>2, <2>3, <2>4
<1>3. CASE ReloadPrometheus
  <2> USE <1>3 DEF ReloadPrometheus
  <2>1. HTypeOK' BY TypeStep DEF HNext
  <2>2. DeployHasDone' OBVIOUS
  <2>3. RulesAreKnown' OBVIOUS
  <2>4. (hGood => hRun.at = "idle")' /\ LoadedIsDeployed' OBVIOUS
  <2> QED BY <2>1, <2>2, <2>3, <2>4
<1>4. CASE RestartGrafana
  <2> DEFINE changed == hHash # hTree["alerting"]
             run == [hRun EXCEPT !.at = IF changed THEN "record" ELSE "units"]
  <2>1. HTypeOK' BY <1>4, TypeStep DEF HNext
  <2>2. hRun \in Deploys /\ hRun.at = "alerts" /\ ~hGood BY <1>4 DEF RestartGrafana
  <2>3. run.at = IF changed THEN "record" ELSE "units" BY <2>2
  <2>4. run # NoRun BY <2>3
  <2>5. UNCHANGED <<hTree, hHash, hGood, hHalf>> BY <1>4 DEF RestartGrafana
  <2>6. CASE changed /\ "grafana" \notin hRun.fresh
    <3>1. Starts("grafana", hUp["grafana"].defs, run) BY <1>4, <2>6 DEF RestartGrafana
    <3>2. hUp' = [hUp EXCEPT !["grafana"] = [defs |-> hUp["grafana"].defs, file |-> hTree["alerting"]]]
      BY <3>1 DEF Starts
    <3>3. Reads("grafana")' /\ Made("grafana")' BY <2>2, <2>5, <3>2
    <3>4. Reads("prometheus")' /\ Made("prometheus")' BY <2>2, <2>5, <3>2
    <3>5. hRun'.at = "record"
      <4>1. hRun' = [run EXCEPT !.fresh = @ \cup {"grafana"}] BY <2>4, <3>1 DEF Starts
      <4> QED BY <2>2, <2>3, <2>6, <4>1
    <3> HIDE DEF Reads, Made
    <3>6. DeployHasDone' BY <2>1, <3>3, <3>4, <3>5
    <3>7. RulesAreKnown' BY <3>3, <3>5
    <3> QED BY <2>1, <2>2, <2>5, <3>5, <3>6, <3>7
  <2>7. CASE ~changed \/ "grafana" \in hRun.fresh
    <3>1. hRun' = run /\ UNCHANGED <<hUp, hSick>> BY <1>4, <2>7 DEF RestartGrafana
    <3>2. hRun'.fresh = hRun.fresh /\ hRun'.at = IF changed THEN "record" ELSE "units" BY <2>2, <2>3, <3>1
    <3>3. \A s \in Readers : Made(s)' BY <2>2, <2>5, <3>1
    <3>4. \A s \in hRun.fresh : Reads(s)' BY <2>2, <2>5, <3>1
    <3>5. Reads("prometheus")' BY <2>2, <2>5, <3>1
    <3>6. DeployHasDone' BY <2>2, <2>5, <2>7, <3>1, <3>2, <3>3, <3>4, <3>5
    <3>7. RulesAreKnown' BY <2>5, <3>1, <3>2
    <3> QED BY <2>1, <2>2, <2>5, <3>6, <3>7
  <2> QED BY <2>6, <2>7
<1>5. CASE RecordHash
  <2>1. HTypeOK' BY <1>5, TypeStep DEF HNext
  <2>2. hRun \in Deploys /\ hRun.at = "record" /\ ~hGood BY <1>5 DEF RecordHash
  <2>3. hRun'.at = "units" /\ hRun'.fresh = hRun.fresh BY <1>5, <2>2 DEF RecordHash
  <2>4. UNCHANGED <<hTree, hUp, hSick, hGood>> /\ hHash' = hTree["alerting"] BY <1>5 DEF RecordHash
  <2>5. DeployHasDone' BY <2>2, <2>3, <2>4
  <2>6. RulesAreKnown' BY <2>2, <2>3, <2>4
  <2> QED BY <2>1, <2>2, <2>4, <2>5, <2>6
<1>6. CASE Ends
  <2>1. hRun' = [at |-> "idle"] /\ hRun.at = "units" BY <1>6 DEF Ends
  <2>2. hRun \in Deploys BY <2>1
  <2>3. HTypeOK' /\ DeployHasDone' /\ LoadedIsDeployed' BY <1>6, <2>1 DEF Ends
  <2>4. RulesAreKnown' BY <1>6, <2>1, <2>2 DEF Ends
  <2> QED BY <2>1, <2>3, <2>4
<1>7. CASE Fails BY <1>7 DEF Fails
<1> QED BY <1>1, <1>2, <1>3, <1>4, <1>5, <1>6, <1>7

-----------------------------------------------------------------------------

\* The invariant of the deploy: what each step has brought into line stays so until
\* the next deploy begins.
THEOREM HubInvariant == HSpec => []HInv
<1>1. HInit => HInv BY HInitially
<1>2. HInv /\ [HNext]_hVars => HInv'
  <2> SUFFICES ASSUME HInv, [HNext]_hVars PROVE HInv' OBVIOUS
  <2>1. CASE UNCHANGED hVars
    BY <2>1 DEF hVars, HInv, HTypeOK, DeployHasDone, RulesAreKnown, LoadedIsDeployed
  <2> QED BY <2>1, SyncStep, StartStep, DeployStep DEF HNext
<1> QED BY <1>1, <1>2, PTL DEF HSpec

\* After a deploy that ended well (deploy-hub-stack.sh with its RESULT line) the
\* containers are those of the files and the processes have read them, for any
\* history of failed deploys, restarts and reverts; Grafana's rules after one that
\* ended half-way excepted.
THEOREM DeployedIsLoaded == HSpec => []LoadedIsDeployed
<1>1. HInv => LoadedIsDeployed BY DEF HInv
<1> QED BY <1>1, HubInvariant, PTL

=============================================================================
