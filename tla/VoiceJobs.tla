------------------------------ MODULE VoiceJobs ------------------------------
(* home-mcp's named jobs (jobs.py): run_job checks a request against the    *)
(* registry and has GitHub start a workflow run for it, job_status finds    *)
(* the run again by its request id. Several callers, the runs and the list  *)
(* of runs that GitHub shows move between the awaits of a call.             *)
EXTENDS Integers, Sequences, SequencesExt, FiniteSetsExt

CONSTANTS Callers,
          Window,     \* runs that one page of the list shows
          MaxRuns     \* bound of the runs

ASSUME WindowAssumption == Window \in Nat

VARIABLES
    jRuns,    \* the workflow's runs, the newest last
    jLast,    \* _last_request, a request id or None
    jNext,    \* the next request id
    jCall,    \* what each caller's call is doing
    jAnswer   \* what was answered last, to whichever caller

jVars == <<jRuns, jLast, jNext, jCall, jAnswer>>

None == 0
Idle == [at |-> "idle"]
NoAnswer == [kind |-> "none"]

\* The stages of a run; GitHub calls a run that is being validated or that runs
\* on the hub in progress, and it ends well or not.
Stages == <<"queued", "in_progress", "waiting", "in_progress">>
Ended == Len(Stages) + 1
Conclusions == {"success", "failure"}

Run(id) == [id |-> id, listed |-> FALSE, stage |-> 1, conclusion |-> "none"]

JInit ==
    /\ jRuns = <<>> /\ jLast = None /\ jNext = 1
    /\ jCall = [c \in Callers |-> Idle]
    /\ jAnswer = NoAnswer

Hear(c, answer) ==
    /\ jAnswer' = answer
    /\ jCall' = [jCall EXCEPT ![c] = Idle]

\* The runs of a request: there is one at most.
RunsOf(id) == {i \in DOMAIN jRuns : jRuns[i].id = id}

-----------------------------------------------------------------------------
(* run_job *)

\* Switched off, without a token, without a registry, or not in the registry, which
\* is as old as it is remembered; otherwise a new id is drawn and posted.
RunJob(c) ==
    /\ jCall[c] = Idle
    /\ jNext <= MaxRuns
    /\ \/ Hear(c, [kind |-> "refused", id |-> None]) /\ UNCHANGED jNext
       \/ /\ jCall' = [jCall EXCEPT ![c] = [at |-> "posting", id |-> jNext, sent |-> FALSE]]
          /\ jNext' = jNext + 1
          /\ UNCHANGED jAnswer
    /\ UNCHANGED <<jRuns, jLast>>

\* GitHub starts the run, and answers later.
GitHubStarts(c) ==
    /\ jCall[c].at = "posting" /\ ~jCall[c].sent
    /\ jCall' = [jCall EXCEPT ![c].sent = TRUE]
    /\ jRuns' = Append(jRuns, Run(jCall[c].id))
    /\ UNCHANGED <<jLast, jNext, jAnswer>>

\* An error code: nothing was started.
GitHubRefuses(c) ==
    /\ jCall[c].at = "posting" /\ ~jCall[c].sent
    /\ Hear(c, [kind |-> "refused", id |-> jCall[c].id])
    /\ UNCHANGED <<jRuns, jLast, jNext>>

HearStarted(c) ==
    /\ jCall[c].at = "posting" /\ jCall[c].sent
    /\ jLast' = jCall[c].id
    /\ Hear(c, [kind |-> "started", id |-> jCall[c].id])
    /\ UNCHANGED <<jRuns, jNext>>

\* No answer in time is taken for a refusal.
HearNothing_Refused(c) ==
    /\ jCall[c].at = "posting"
    /\ Hear(c, [kind |-> "refused", id |-> jCall[c].id])
    /\ UNCHANGED <<jRuns, jLast, jNext>>

\* No answer in time, whether the run was started or not: the exception is all
\* that the caller hears, and the request is not remembered.
HearNothing(c) ==
    /\ jCall[c].at = "posting"
    /\ Hear(c, [kind |-> "raised"])
    /\ UNCHANGED <<jRuns, jLast, jNext>>

-----------------------------------------------------------------------------
(* job_status *)

\* The last request is taken for an empty one, before the first await.
AskStatus(c, id) ==
    /\ jCall[c] = Idle
    /\ LET asked == IF id = None THEN jLast ELSE id
       IN  jCall' = [jCall EXCEPT ![c] =
              [at |-> "listing", id |-> asked,
               then |-> {<<i, jRuns[i].stage>> : i \in {i \in RunsOf(asked) : jRuns[i].listed}}]]
    /\ UNCHANGED <<jRuns, jLast, jNext, jAnswer>>

\* The runs on the page, places in jRuns: of those that GitHub lists the last.
Page ==
    LET listed == {i \in DOMAIN jRuns : jRuns[i].listed}
    IN  {i \in listed : Cardinality({k \in listed : k > i}) < Window}

\* The newest run, whoever asks.
FindRun_Newest(id) == IF Page = {} THEN None ELSE Max(Page)

\* _find_run: the newest run, or the newest with the request's id in its title.
FindRun(id) ==
    LET found == {i \in Page : id = None \/ jRuns[i].id = id}
    IN  IF found = {} THEN None ELSE Max(found)

\* The list comes back. A run that is not there was only just requested when it is
\* the last request by now; one that has ended is asked for its result.
ReadList(c) ==
    /\ jCall[c].at = "listing"
    /\ LET id == jCall[c].id
           i == FindRun(id)
       IN  IF i = None
             THEN Hear(c, [kind |-> IF id = None THEN "no jobs" ELSE IF id = jLast THEN "not there yet"
                                    ELSE "unknown",
                           id |-> id, then |-> jCall[c].then])
           ELSE IF jRuns[i].stage # Ended
             THEN Hear(c, [kind |-> Stages[jRuns[i].stage], id |-> id, run |-> i, then |-> jCall[c].then])
           ELSE /\ jCall' = [jCall EXCEPT ![c] = [at |-> "result", id |-> id, run |-> i,
                                                  then |-> jCall[c].then, conclusion |-> jRuns[i].conclusion]]
                /\ UNCHANGED jAnswer
    /\ UNCHANGED <<jRuns, jLast, jNext>>

\* _result_annotation, asked by the number of the run.
ReadResult(c) ==
    /\ jCall[c].at = "result"
    /\ Hear(c, [kind |-> jCall[c].conclusion, id |-> jCall[c].id, run |-> jCall[c].run,
                then |-> jCall[c].then])
    /\ UNCHANGED <<jRuns, jLast, jNext>>

\* The rate limit is used up or GitHub is out of reach.
CannotRead(c) ==
    /\ jCall[c].at \in {"listing", "result"}
    /\ Hear(c, [kind |-> "couldn't"])
    /\ UNCHANGED <<jRuns, jLast, jNext>>

-----------------------------------------------------------------------------
(* GitHub, and the container of home-mcp *)

Moved(run, stage, conclusion) ==
    [id |-> run.id, listed |-> TRUE, stage |-> stage, conclusion |-> conclusion]

\* A run moves on: it is validated, waits for Bill, runs and ends; it can end at
\* any stage.
RunMoves(i) ==
    /\ jRuns[i].stage # Ended
    /\ \/ jRuns[i].stage < Len(Stages) /\ jRuns' = [jRuns EXCEPT ![i] = Moved(@, @.stage + 1, "none")]
       \/ \E conclusion \in Conclusions : jRuns' = [jRuns EXCEPT ![i] = Moved(@, Ended, conclusion)]
    /\ UNCHANGED <<jLast, jNext, jCall, jAnswer>>

\* The list of runs is behind the runs themselves.
RunIsListed(i) ==
    /\ ~jRuns[i].listed
    /\ jRuns' = [jRuns EXCEPT ![i].listed = TRUE]
    /\ UNCHANGED <<jLast, jNext, jCall, jAnswer>>

\* Bill starts the workflow by hand, with a request id of his own.
OtherRun ==
    /\ jNext <= MaxRuns
    /\ jNext' = jNext + 1
    /\ jRuns' = Append(jRuns, Run(jNext))
    /\ UNCHANGED <<jLast, jCall, jAnswer>>

\* The container is replaced: the calls and what was remembered are gone.
JRestart ==
    /\ jLast' = None
    /\ jCall' = [c \in Callers |-> Idle]
    /\ jAnswer' = NoAnswer
    /\ UNCHANGED <<jRuns, jNext>>

JNext ==
    \/ \E c \in Callers :
          \/ RunJob(c) \/ GitHubStarts(c) \/ GitHubRefuses(c) \/ HearStarted(c) \/ HearNothing(c)
          \/ \E id \in 0 .. jNext - 1 : AskStatus(c, id)
          \/ ReadList(c) \/ ReadResult(c) \/ CannotRead(c)
    \/ \E i \in DOMAIN jRuns : RunMoves(i) \/ RunIsListed(i)
    \/ OtherRun \/ JRestart

JSpec == JInit /\ [][JNext]_jVars

-----------------------------------------------------------------------------

\* Whoever hears that a job was started has one run of that request; whoever hears
\* that nothing was started has none, and never gets one. Only an exception leaves
\* it open.
StartedIsTrue ==
    /\ jAnswer.kind = "started" => Cardinality(RunsOf(jAnswer.id)) = 1
    /\ jAnswer.kind = "refused" /\ jAnswer.id # None =>
          /\ RunsOf(jAnswer.id) = {}
          /\ \A d \in Callers : jCall[d].at = "posting" => jCall[d].id # jAnswer.id

\* What a status says of a request is of its own run, at a stage that the run was
\* at between the question and now, or its end; and a run that was in the list
\* when it was asked for, and is still on its page, was found, however many other
\* jobs were started meanwhile.
StatusIsOfItsRun ==
    LET a == jAnswer
    IN  /\ a.kind \in ToSet(Stages) \cup Conclusions =>
              /\ a.id # None => jRuns[a.run].id = a.id
              /\ a.kind \in Conclusions => a.kind = jRuns[a.run].conclusion
              /\ a.kind \notin Conclusions =>
                   \E s \in 1 .. jRuns[a.run].stage :
                        s < Ended /\ Stages[s] = a.kind /\ \A x \in a.then : x[2] <= s
        /\ a.kind \in {"no jobs", "not there yet", "unknown"} =>
              \A x \in a.then : x[1] \notin Page

=============================================================================
