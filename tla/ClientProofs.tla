---------------------------- MODULE ClientProofs ----------------------------
(* Theorems about home-mcp's two clients of something that runs elsewhere:  *)
(* the voice jobs (VoiceJobs) and the voice coding tasks (TaskClient), for  *)
(* any number of callers and clients, of runs and tasks, and for any page   *)
(* of GitHub's list.                                                        *)
EXTENDS VoiceJobs, TaskClient, SequenceTheorems, FiniteSetTheorems, WellFoundedInduction, TLAPS

Ids == Nat \ {0}
Endings == Conclusions \cup {"none"}
Runs == [id : Ids, listed : BOOLEAN, stage : 1 .. 5, conclusion : Endings]
Postings == [at : {"posting"}, id : Ids, sent : BOOLEAN]
Posting(c) == jCall[c].at = "posting"

JTypeOK ==
    /\ jRuns \in Seq(Runs)
    /\ jNext \in Ids /\ jLast \in Nat
    /\ jCall = [c \in Callers |-> jCall[c]]
    /\ \A c \in Callers : Posting(c) => jCall[c] \in Postings
    /\ \A c \in Callers : jCall[c].at = "result" => jCall[c].conclusion \in Endings

\* An id is drawn once: there is one run of it at most, and one POST.
IdsAreFresh ==
    /\ \A i \in DOMAIN jRuns : jRuns[i].id < jNext
    /\ \A i, k \in DOMAIN jRuns : jRuns[i].id = jRuns[k].id => i = k
    /\ \A c \in Callers : Posting(c) => jCall[c].id < jNext
    /\ \A c, d \in Callers : Posting(c) /\ Posting(d) /\ jCall[c].id = jCall[d].id => c = d

\* A POST has its run exactly when GitHub has seen it.
SentHasRun ==
    \A c \in Callers : Posting(c) => (jCall[c].sent <=> \E i \in DOMAIN jRuns : jRuns[i].id = jCall[c].id)

\* StartedIsTrue without counting.
AnswerIsTrue ==
    /\ jAnswer.kind = "started" => \E i \in DOMAIN jRuns : jRuns[i].id = jAnswer.id
    /\ jAnswer.kind = "refused" /\ jAnswer.id # None =>
          /\ jAnswer.id \in Ids /\ jAnswer.id < jNext
          /\ \A i \in DOMAIN jRuns : jRuns[i].id # jAnswer.id
          /\ \A c \in Callers : Posting(c) => jCall[c].id # jAnswer.id

JInv == JTypeOK /\ IdsAreFresh /\ SentHasRun /\ AnswerIsTrue

USE DEF jVars, Ids, Postings, Posting, None, Idle, NoAnswer, Hear

-----------------------------------------------------------------------------

LEMMA JInitially == JInit => JInv
BY DEF JInit, JInv, JTypeOK, IdsAreFresh, SentHasRun, AnswerIsTrue

\* Every run has an id.
LEMMA RunsHaveIds == ASSUME JTypeOK PROVE \A i \in DOMAIN jRuns : jRuns[i] \in Runs /\ jRuns[i].id \in Ids
<1>1. jRuns \in Seq(Runs) BY DEF JTypeOK
<1>2. \A i \in DOMAIN jRuns : jRuns[i] \in Runs BY <1>1, ElementOfSeq, LenProperties
<1> QED BY <1>2 DEF Runs

\* Every set of numbers that is not empty has a least one.
LEMMA Least == ASSUME NEW T \in SUBSET Nat, T # {}
             PROVE  \E x \in T : \A y \in T : x <= y
<1> DEFINE R == {ss \in Nat \X Nat : ss[1] < ss[2]}
<1>1. IsWellFoundedOn(R, Nat) BY NatLessThanWellFounded DEF OpToRel
<1>2. \A x, y \in Nat : y < x => <<y, x>> \in R OBVIOUS
<1> HIDE DEF R
<1>3. PICK x \in T : \A y \in T : ~ (<<y, x>> \in R) BY <1>1, WFMin
<1>4. ASSUME NEW y \in T PROVE x <= y
  <2>1. x \in Nat /\ y \in Nat OBVIOUS
  <2>2. ~ (y < x) BY <2>1, <1>2, <1>3, Zenon
  <2> QED BY <2>1, <2>2
<1> QED BY <1>4

\* A set of places in a list has a last one.
LEMMA Greatest == ASSUME NEW n \in Nat, NEW S \in SUBSET (1 .. n), S # {} PROVE \E x \in S : \A y \in S : x >= y
<1> DEFINE T == {n - x : x \in S}
<1>1. \A x \in S : x \in 1 .. n OBVIOUS
<1>2. \A x \in S : n - x \in Nat BY <1>1
<1>3. T \in SUBSET Nat BY <1>2
<1>4. T # {} OBVIOUS
<1>5. PICK t \in T : \A y \in T : t <= y BY <1>3, <1>4, Least
<1>6. PICK x \in S : t = n - x OBVIOUS
<1>7. \A y \in S : n - y \in T /\ n - x <= n - y BY <1>5, <1>6
<1> QED BY <1>1, <1>7

\* What _find_run finds is one of the runs.
LEMMA FoundIsARun ==
    ASSUME JTypeOK, NEW id, FindRun(id) # None
    PROVE  FindRun(id) \in DOMAIN jRuns
<1> DEFINE found == {i \in Page : id = None \/ jRuns[i].id = id}
<1>1. found \in SUBSET (1 .. Len(jRuns)) /\ Len(jRuns) \in Nat
  <2>1. DOMAIN jRuns = 1 .. Len(jRuns) /\ Len(jRuns) \in Nat BY LenProperties DEF JTypeOK
  <2> QED BY <2>1 DEF Page
<1>2. found # {} /\ FindRun(id) = Max(found) BY DEF FindRun
<1>3. \E x \in found : \A y \in found : x >= y BY <1>1, <1>2, Greatest
<1> HIDE DEF found
<1>4. Max(found) \in found BY <1>3 DEF Max
<1> QED BY <1>1, <1>2, <1>4, LenProperties DEF JTypeOK

\* A new run of an id that has none, put at the end of the list.
LEMMA NewRun ==
    ASSUME JTypeOK, NEW id \in Ids
    PROVE  LET runs == Append(jRuns, Run(id))
           IN  /\ runs \in Seq(Runs)
               /\ DOMAIN runs = DOMAIN jRuns \cup {Len(jRuns) + 1}
               /\ Len(jRuns) + 1 \notin DOMAIN jRuns
               /\ \A i \in DOMAIN jRuns : runs[i] = jRuns[i]
               /\ runs[Len(jRuns) + 1].id = id
<1>1. jRuns \in Seq(Runs) BY DEF JTypeOK
<1>2. Run(id) \in Runs BY DEF Run, Runs, Endings
<1>3. Run(id).id = id BY DEF Run
<1> QED BY <1>1, <1>2, <1>3, AppendProperties

\* A caller's step that leaves the runs alone, and the ids: it goes idle, or on to
\* something that is not a POST, and hears nothing of starting a job.
LEMMA CallerMovesOn ==
    ASSUME JInv, NEW c \in Callers, NEW call, call.at # "posting",
           call.at = "result" => call.conclusion \in Endings,
           jCall' = [jCall EXCEPT ![c] = call],
           UNCHANGED <<jRuns, jNext>>, jLast' \in Nat,
           AnswerIsTrue'
    PROVE  JInv'
<1> USE DEF JInv, JTypeOK
<1>1. \A d \in Callers : Posting(d)' => d # c /\ jCall'[d] = jCall[d] /\ Posting(d) OBVIOUS
<1>2. JTypeOK'
  <2>1. \A d \in Callers : jCall'[d] = IF d = c THEN call ELSE jCall[d] OBVIOUS
  <2>2. \A d \in Callers : jCall'[d].at = "result" => jCall'[d].conclusion \in Endings BY <2>1
  <2> QED BY <1>1, <2>2
<1>3. IdsAreFresh' BY <1>1 DEF IdsAreFresh
<1>4. SentHasRun' BY <1>1 DEF SentHasRun
<1> QED BY <1>2, <1>3, <1>4

\* An answer that is not about starting a job is true.
LEMMA OtherAnswers ==
    ASSUME jAnswer'.kind \notin {"started", "refused"}
    PROVE  AnswerIsTrue'
BY DEF AnswerIsTrue

\* A step of run_job that leaves the runs alone and posts nothing new.
LEMMA JobEnds ==
    ASSUME JInv, NEW c \in Callers, NEW answer, jCall' = [jCall EXCEPT ![c] = Idle], jAnswer' = answer,
           UNCHANGED <<jRuns, jNext>>, jLast' \in Nat, AnswerIsTrue'
    PROVE  JInv'
BY CallerMovesOn

LEMMA RunJobStep == ASSUME JInv, NEW c \in Callers, RunJob(c) PROVE JInv'
<1>1. CASE jAnswer' = [kind |-> "refused", id |-> None] /\ jCall' = [jCall EXCEPT ![c] = Idle] /\ UNCHANGED jNext
  <2>1. AnswerIsTrue' BY <1>1 DEF AnswerIsTrue
  <2> QED BY <1>1, <2>1, CallerMovesOn DEF RunJob, JInv, JTypeOK
<1>2. CASE /\ jCall' = [jCall EXCEPT ![c] = [at |-> "posting", id |-> jNext, sent |-> FALSE]]
           /\ jNext' = jNext + 1
           /\ UNCHANGED jAnswer
  <2> USE DEF JInv, JTypeOK
  <2>0. UNCHANGED <<jRuns, jLast>> BY DEF RunJob
  <2>1. jCall'[c] \in Postings /\ jCall'[c].id = jNext /\ ~jCall'[c].sent BY <1>2
  <2>2. \A d \in Callers : d # c => jCall'[d] = jCall[d] BY <1>2
  <2>3. jNext' \in Ids /\ jNext < jNext' BY <1>2
  <2>4. \A i \in DOMAIN jRuns : jRuns[i].id \in Ids BY RunsHaveIds
  <2>5. JTypeOK' BY <1>2, <2>0, <2>1, <2>2, <2>3
  <2>6. IdsAreFresh' BY <2>0, <2>1, <2>2, <2>3, <2>4 DEF IdsAreFresh
  <2>7. SentHasRun' BY <2>0, <2>1, <2>2, <2>4 DEF SentHasRun, IdsAreFresh
  <2>8. AnswerIsTrue'
    <3>1. jAnswer.kind = "refused" /\ jAnswer.id # None => jAnswer.id < jNext' BY <2>3 DEF AnswerIsTrue
    <3>2. jAnswer.kind = "refused" /\ jAnswer.id # None => jCall'[c].id # jAnswer.id BY <2>1 DEF AnswerIsTrue
    <3> QED BY <1>2, <2>0, <2>2, <3>1, <3>2 DEF AnswerIsTrue
  <2> QED BY <2>5, <2>6, <2>7, <2>8
<1> QED BY <1>1, <1>2 DEF RunJob

LEMMA GitHubStartsStep == ASSUME JInv, NEW c \in Callers, GitHubStarts(c) PROVE JInv'
<1> USE DEF JInv, JTypeOK
<1> DEFINE id == jCall[c].id
           last == Len(jRuns) + 1
<1>1. Posting(c) /\ ~jCall[c].sent /\ id \in Ids /\ UNCHANGED <<jLast, jNext, jAnswer>> BY DEF GitHubStarts
<1>2. jCall'[c] \in Postings /\ jCall'[c].id = id /\ jCall'[c].sent
  BY <1>1 DEF GitHubStarts
<1>3. \A d \in Callers : d # c => jCall'[d] = jCall[d] BY DEF GitHubStarts
<1>4. /\ jRuns' \in Seq(Runs)
      /\ DOMAIN jRuns' = DOMAIN jRuns \cup {last}
      /\ last \notin DOMAIN jRuns
      /\ \A i \in DOMAIN jRuns : jRuns'[i] = jRuns[i]
      /\ jRuns'[last].id = id
  BY <1>1, NewRun DEF GitHubStarts
<1>5. \A i \in DOMAIN jRuns : jRuns[i].id # id BY <1>1 DEF SentHasRun
<1>6. JTypeOK' BY <1>1, <1>2, <1>3, <1>4 DEF GitHubStarts
<1>7. IdsAreFresh' BY <1>1, <1>2, <1>3, <1>4, <1>5 DEF IdsAreFresh
<1>8. SentHasRun'
  <2> SUFFICES ASSUME NEW d \in Callers, Posting(d)'
               PROVE  jCall'[d].sent <=> \E i \in DOMAIN jRuns' : jRuns'[i].id = jCall'[d].id
    BY DEF SentHasRun
  <2>1. CASE d = c BY <2>1, <1>2, <1>4
  <2>2. CASE d # c
    <3>1. jCall'[d] = jCall[d] /\ Posting(d) /\ jCall[d].id # id BY <2>2, <1>1, <1>3 DEF IdsAreFresh
    <3> QED BY <3>1, <1>4 DEF SentHasRun
  <2> QED BY <2>1, <2>2
<1>9. AnswerIsTrue' BY <1>1, <1>2, <1>3, <1>4 DEF AnswerIsTrue
<1> QED BY <1>6, <1>7, <1>8, <1>9

LEMMA RefusedStep == ASSUME JInv, NEW c \in Callers, GitHubRefuses(c) PROVE JInv'
<1> USE DEF JInv, JTypeOK
<1>1. Posting(c) /\ ~jCall[c].sent /\ jCall[c].id \in Ids BY DEF GitHubRefuses
<1>2. /\ jAnswer' = [kind |-> "refused", id |-> jCall[c].id]
      /\ jCall' = [jCall EXCEPT ![c] = Idle]
      /\ UNCHANGED <<jRuns, jLast, jNext>>
  BY DEF GitHubRefuses
<1>3. \A d \in Callers : Posting(d)' => d # c /\ jCall'[d] = jCall[d] /\ Posting(d) BY <1>2
<1>4. AnswerIsTrue' BY <1>1, <1>2, <1>3 DEF AnswerIsTrue, SentHasRun, IdsAreFresh
<1> QED BY <1>2, <1>4, CallerMovesOn

LEMMA StartedStep == ASSUME JInv, NEW c \in Callers, HearStarted(c) PROVE JInv'
<1> USE DEF JInv, JTypeOK
<1>1. Posting(c) /\ jCall[c].sent /\ jCall[c].id \in Ids BY DEF HearStarted
<1>2. /\ jAnswer' = [kind |-> "started", id |-> jCall[c].id]
      /\ jCall' = [jCall EXCEPT ![c] = Idle]
      /\ UNCHANGED <<jRuns, jNext>> /\ jLast' = jCall[c].id
  BY DEF HearStarted
<1>3. AnswerIsTrue' BY <1>1, <1>2 DEF AnswerIsTrue, SentHasRun
<1> QED BY <1>1, <1>2, <1>3, CallerMovesOn

LEMMA AskStep == ASSUME JInv, NEW c \in Callers, NEW id \in 0 .. jNext - 1, AskStatus(c, id) PROVE JInv'
<1> USE DEF JInv, JTypeOK
<1> DEFINE asked == IF id = None THEN jLast ELSE id
           call == [at |-> "listing", id |-> asked,
                    then |-> {<<i, jRuns[i].stage>> : i \in {i \in RunsOf(asked) : jRuns[i].listed}}]
<1>1. call.at = "listing" /\ jCall' = [jCall EXCEPT ![c] = call]
  BY DEF AskStatus
<1> HIDE DEF call
<1>2. \A d \in Callers : Posting(d)' => d # c /\ jCall'[d] = jCall[d] /\ Posting(d) BY <1>1
<1>3. UNCHANGED <<jRuns, jLast, jNext, jAnswer>> BY DEF AskStatus
<1>4. AnswerIsTrue' BY <1>2, <1>3 DEF AnswerIsTrue
<1> QED BY <1>1, <1>3, <1>4, CallerMovesOn

LEMMA ReadListStep == ASSUME JInv, NEW c \in Callers, ReadList(c) PROVE JInv'
<1> USE DEF JInv, JTypeOK
<1>1. UNCHANGED <<jRuns, jLast, jNext>> BY DEF ReadList
<1>2. CASE /\ jCall' = [jCall EXCEPT ![c] = Idle]
           /\ jAnswer'.kind \notin {"started", "refused"}
  BY <1>1, <1>2, CallerMovesOn, OtherAnswers
<1>3. ASSUME NEW call, call.at = "result", call.conclusion \in Endings, jCall' = [jCall EXCEPT ![c] = call], UNCHANGED jAnswer
      PROVE  JInv'
  <2>1. \A d \in Callers : Posting(d)' => d # c /\ jCall'[d] = jCall[d] /\ Posting(d) BY <1>3
  <2>2. AnswerIsTrue' BY <1>1, <1>3, <2>1 DEF AnswerIsTrue
  <2> QED BY <1>1, <1>3, <2>2, CallerMovesOn
<1> DEFINE id == jCall[c].id
           i == FindRun(id)
<1>4. CASE i = None
  <2>1. jCall' = [jCall EXCEPT ![c] = Idle] BY <1>4 DEF ReadList
  <2>2. jAnswer' = [kind |-> IF id = None THEN "no jobs" ELSE IF id = jLast THEN "not there yet"
                             ELSE "unknown",
                    id |-> id, then |-> jCall[c].then]
    BY <1>4 DEF ReadList
  <2>3. jAnswer'.kind \in {"no jobs", "not there yet", "unknown"} BY <2>2
  <2> QED BY <1>2, <2>1, <2>3
<1>5. CASE i # None /\ jRuns[i].stage # Ended
  <2>1. i \in DOMAIN jRuns /\ jRuns[i].stage \in 1 .. 4 
    <3>1. i \in DOMAIN jRuns BY <1>5, FoundIsARun
    <3>2. jRuns[i].stage \in 1 .. 5 BY <3>1, RunsHaveIds DEF Runs
    <3> QED BY <1>5, <3>1, <3>2 DEF Ended, Stages
  <2>2. Stages[jRuns[i].stage] \notin {"started", "refused"} BY <2>1 DEF Stages
  <2> QED BY <1>2, <1>5, <2>2 DEF ReadList
<1>6. CASE i # None /\ jRuns[i].stage = Ended
  <2>0. jRuns[i].conclusion \in Endings BY <1>6, FoundIsARun, RunsHaveIds DEF Runs
  <2>1. PICK call : /\ call.at = "result" /\ call.conclusion \in Endings
                    /\ jCall' = [jCall EXCEPT ![c] = call]
                    /\ UNCHANGED jAnswer
    BY <1>6, <2>0 DEF ReadList
  <2> QED BY <2>1, <1>3
<1> QED BY <1>4, <1>5, <1>6

\* A read that ends with an answer about something else than starting a job; the
\* conclusion of a run is none of those.
LEMMA NothingStep ==
    ASSUME JInv, NEW c \in Callers, HearNothing(c) \/ CannotRead(c)
    PROVE  JInv'
<1> USE DEF JInv, JTypeOK
<1>1. CASE HearNothing(c) BY <1>1, CallerMovesOn, OtherAnswers DEF HearNothing
<1>2. CASE CannotRead(c) BY <1>2, CallerMovesOn, OtherAnswers DEF CannotRead
<1> QED BY <1>1, <1>2

LEMMA ReadResultStep == ASSUME JInv, NEW c \in Callers, ReadResult(c) PROVE JInv'
<1> USE DEF JInv, JTypeOK
<1>1. jCall[c].conclusion \notin {"started", "refused"} BY DEF ReadResult, Endings, Conclusions
<1>2. jAnswer'.kind \notin {"started", "refused"} BY <1>1 DEF ReadResult
<1>3. jCall' = [jCall EXCEPT ![c] = Idle] /\ UNCHANGED <<jRuns, jLast, jNext>> BY DEF ReadResult
<1> QED BY <1>2, <1>3, CallerMovesOn, OtherAnswers

LEMMA RunStep == ASSUME JInv, NEW i \in DOMAIN jRuns, RunMoves(i) \/ RunIsListed(i) PROVE JInv'
<1> USE DEF JInv, JTypeOK
<1>1. jRuns \in Seq(Runs) /\ i \in 1 .. Len(jRuns) /\ DOMAIN jRuns = 1 .. Len(jRuns)
  BY LenProperties
<1>2. UNCHANGED <<jLast, jNext, jCall, jAnswer>> BY DEF RunMoves, RunIsListed
<1>3. PICK run \in Runs : run.id = jRuns[i].id /\ jRuns' = [jRuns EXCEPT ![i] = run]
  <2>0. Len(Stages) = 4 /\ Ended = 5 BY DEF Stages, Ended
  <2>1. jRuns[i] \in Runs BY <1>1, RunsHaveIds
  <2>2. CASE RunIsListed(i)
    <3> DEFINE run == [jRuns[i] EXCEPT !.listed = TRUE]
    <3>1. run \in Runs /\ run.id = jRuns[i].id BY <2>1 DEF Runs
    <3>2. jRuns' = [jRuns EXCEPT ![i] = run] BY <2>2 DEF RunIsListed
    <3> QED BY <3>1, <3>2
  <2>3. \A stage \in 1 .. 5, conclusion \in Endings :
           LET run == Moved(jRuns[i], stage, conclusion) IN run \in Runs /\ run.id = jRuns[i].id
    BY <2>1 DEF Moved, Runs
  <2>4. CASE jRuns[i].stage < Len(Stages) /\ jRuns' = [jRuns EXCEPT ![i] = Moved(@, @.stage + 1, "none")]
    <3>1. jRuns[i].stage + 1 \in 1 .. 5 /\ "none" \in Endings BY <2>0, <2>1, <2>4 DEF Runs, Endings
    <3> QED BY <1>1, <2>3, <2>4, <3>1
  <2>5. ASSUME NEW conclusion \in Conclusions, jRuns' = [jRuns EXCEPT ![i] = Moved(@, Ended, conclusion)]
        PROVE  \E run \in Runs : run.id = jRuns[i].id /\ jRuns' = [jRuns EXCEPT ![i] = run]
    <3>1. Ended \in 1 .. 5 /\ conclusion \in Endings BY <2>0 DEF Endings
    <3> QED BY <1>1, <2>3, <2>5, <3>1
  <2> QED BY <2>2, <2>4, <2>5 DEF RunMoves
<1>4. /\ jRuns' \in Seq(Runs)
      /\ DOMAIN jRuns' = DOMAIN jRuns
      /\ \A k \in DOMAIN jRuns : jRuns'[k].id = jRuns[k].id
  <2>1. jRuns' \in Seq(Runs) /\ Len(jRuns') = Len(jRuns) BY <1>1, <1>3, ExceptSeq
  <2>2. \A k \in DOMAIN jRuns : jRuns'[k].id = jRuns[k].id BY <1>1, <1>3
  <2> QED BY <1>1, <2>1, <2>2, LenProperties
<1>5. JTypeOK' BY <1>2, <1>4
<1>6. IdsAreFresh' BY <1>2, <1>4 DEF IdsAreFresh
<1>7. SentHasRun' BY <1>2, <1>4 DEF SentHasRun
<1>8. AnswerIsTrue' BY <1>2, <1>4 DEF AnswerIsTrue
<1> QED BY <1>5, <1>6, <1>7, <1>8

LEMMA OtherRunStep == ASSUME JInv, OtherRun PROVE JInv'
<1> USE DEF JInv, JTypeOK
<1> DEFINE last == Len(jRuns) + 1
<1>1. jNext' = jNext + 1 /\ UNCHANGED <<jLast, jCall, jAnswer>> BY DEF OtherRun
<1>2. /\ jRuns' \in Seq(Runs)
      /\ DOMAIN jRuns' = DOMAIN jRuns \cup {last}
      /\ last \notin DOMAIN jRuns
      /\ \A i \in DOMAIN jRuns : jRuns'[i] = jRuns[i]
      /\ jRuns'[last].id = jNext
  BY NewRun DEF OtherRun
<1>3. \A i \in DOMAIN jRuns : jRuns[i].id \in Ids BY RunsHaveIds
<1>4. JTypeOK' BY <1>1, <1>2
<1>5. IdsAreFresh' BY <1>1, <1>2, <1>3 DEF IdsAreFresh
<1>6. SentHasRun' BY <1>1, <1>2 DEF SentHasRun, IdsAreFresh
<1>7. AnswerIsTrue'
  <2>1. jAnswer.kind = "refused" /\ jAnswer.id # None => jAnswer.id < jNext BY DEF AnswerIsTrue
  <2> QED BY <1>1, <1>2, <2>1 DEF AnswerIsTrue
<1> QED BY <1>4, <1>5, <1>6, <1>7

LEMMA RestartStep == ASSUME JInv, JRestart PROVE JInv'
BY DEF JInv, JTypeOK, JRestart, IdsAreFresh, SentHasRun, AnswerIsTrue

LEMMA JStutter == ASSUME JInv, UNCHANGED jVars PROVE JInv'
BY DEF JInv, JTypeOK, IdsAreFresh, SentHasRun, AnswerIsTrue

-----------------------------------------------------------------------------

\* The invariant of jobs.py: ids, POSTs, runs and what was answered go together.
THEOREM JobsInvariant == JSpec => []JInv
<1>1. JInit => JInv BY JInitially
<1>2. JInv /\ [JNext]_jVars => JInv'
  <2> SUFFICES ASSUME JInv, [JNext]_jVars PROVE JInv' OBVIOUS
  <2>1. ASSUME NEW c \in Callers, RunJob(c) PROVE JInv' BY <2>1, RunJobStep
  <2>2. ASSUME NEW c \in Callers, GitHubStarts(c) PROVE JInv' BY <2>2, GitHubStartsStep
  <2>3. ASSUME NEW c \in Callers, GitHubRefuses(c) PROVE JInv' BY <2>3, RefusedStep
  <2>4. ASSUME NEW c \in Callers, HearStarted(c) PROVE JInv' BY <2>4, StartedStep
  <2>5. ASSUME NEW c \in Callers, HearNothing(c) PROVE JInv' BY <2>5, NothingStep
  <2>6. ASSUME NEW c \in Callers, NEW id \in 0 .. jNext - 1, AskStatus(c, id) PROVE JInv' BY <2>6, AskStep
  <2>7. ASSUME NEW c \in Callers, ReadList(c) PROVE JInv' BY <2>7, ReadListStep
  <2>8. ASSUME NEW c \in Callers, ReadResult(c) PROVE JInv' BY <2>8, ReadResultStep
  <2>9. ASSUME NEW c \in Callers, CannotRead(c) PROVE JInv' BY <2>9, NothingStep
  <2>10. ASSUME NEW i \in DOMAIN jRuns, RunMoves(i) \/ RunIsListed(i) PROVE JInv' BY <2>10, RunStep
  <2>11. CASE OtherRun BY <2>11, OtherRunStep
  <2>12. CASE JRestart BY <2>12, RestartStep
  <2>13. CASE UNCHANGED jVars BY <2>13, JStutter
  <2> QED BY <2>1, <2>2, <2>3, <2>4, <2>5, <2>6, <2>7, <2>8, <2>9, <2>10, <2>11, <2>12, <2>13 DEF JNext
<1> QED BY <1>1, <1>2, PTL DEF JSpec

\* Whoever hears that a job was started has exactly one run of that request;
\* whoever hears that it was refused has none, and never will.
THEOREM StartedJobsAreTrue == JSpec => []StartedIsTrue
<1>1. JInv => StartedIsTrue
  <2> SUFFICES ASSUME JInv PROVE StartedIsTrue OBVIOUS
  <2>1. ASSUME jAnswer.kind = "started" PROVE Cardinality(RunsOf(jAnswer.id)) = 1
    <3>1. PICK i \in DOMAIN jRuns : jRuns[i].id = jAnswer.id BY <2>1 DEF JInv, AnswerIsTrue
    <3>2. RunsOf(jAnswer.id) = {i} BY <3>1 DEF RunsOf, JInv, IdsAreFresh
    <3> QED BY <3>2, FS_Singleton
  <2>2. ASSUME jAnswer.kind = "refused", jAnswer.id # None
        PROVE  /\ RunsOf(jAnswer.id) = {}
               /\ \A d \in Callers : jCall[d].at = "posting" => jCall[d].id # jAnswer.id
    BY <2>2 DEF RunsOf, JInv, AnswerIsTrue
  <2> QED BY <2>1, <2>2 DEF StartedIsTrue
<1> QED BY <1>1, JobsInvariant, PTL

-----------------------------------------------------------------------------
(* What a status says                                                      *)

ListedIn(runs) == {i \in DOMAIN runs : runs[i].listed}
NewerIn(runs, i) == {k \in ListedIn(runs) : k > i}
PageOf(runs) == {i \in ListedIn(runs) : Cardinality(NewerIn(runs, i)) < Window}

\* Runs keep their ids and places, stay in the list, and move forward until they end.
Grow(runs, later) ==
    /\ DOMAIN runs \subseteq DOMAIN later
    /\ \A i \in DOMAIN runs :
          /\ later[i].id = runs[i].id
          /\ runs[i].listed => later[i].listed
          /\ runs[i].stage <= later[i].stage
          /\ runs[i].stage = Ended => later[i].stage = Ended /\ later[i].conclusion = runs[i].conclusion

\* What a call remembers of the runs it asked for: they are in the list, and no
\* earlier than it saw them.
Remembers(runs, call) ==
    \A x \in call.then :
        /\ x[1] \in DOMAIN runs /\ runs[x[1]].listed /\ runs[x[1]].id = call.id
        /\ x[2] \in Nat /\ x[2] <= runs[x[1]].stage

SureCall(runs, call) ==
    /\ call.at = "listing" => Remembers(runs, call)
    /\ call.at = "result" =>
          /\ call.run \in DOMAIN runs
          /\ call.id # None => runs[call.run].id = call.id
          /\ runs[call.run].stage = Ended /\ runs[call.run].conclusion = call.conclusion

\* StatusIsOfItsRun, with the place of the run, and an end that is final.
SureAnswer(runs, a) ==
    /\ a.kind \in ToSet(Stages) \cup Conclusions =>
          /\ a.run \in DOMAIN runs
          /\ a.id # None => runs[a.run].id = a.id
          /\ a.kind \in Conclusions => runs[a.run].stage = Ended /\ a.kind = runs[a.run].conclusion
          /\ a.kind \notin Conclusions =>
               \E s \in 1 .. runs[a.run].stage :
                    s < Ended /\ Stages[s] = a.kind /\ \A x \in a.then : x[2] <= s
    /\ a.kind \in {"no jobs", "not there yet", "unknown"} =>
          \A x \in a.then : x[1] \in ListedIn(runs) /\ x[1] \notin PageOf(runs)

Sure == SureAnswer(jRuns, jAnswer) /\ \A c \in Callers : SureCall(jRuns, jCall[c])

\* The kinds of answer, told apart once.
LEMMA Kinds ==
    /\ Ended = 5 /\ ToSet(Stages) = {"queued", "in_progress", "waiting"}
    /\ Conclusions = {"success", "failure"}
    /\ \A s \in 1 .. 4 : Stages[s] \in ToSet(Stages)
<1>1. DOMAIN Stages = 1 .. 4 /\ Len(Stages) = 4 BY DEF Stages
<1>2. ToSet(Stages) = {Stages[s] : s \in 1 .. 4} BY <1>1 DEF ToSet
<1>3. Stages[1] = "queued" /\ Stages[2] = "in_progress" /\ Stages[3] = "waiting" /\ Stages[4] = "in_progress"
  BY DEF Stages
<1>4. 1 .. 4 = {1, 2, 3, 4} OBVIOUS
<1> QED BY <1>1, <1>2, <1>3, <1>4 DEF Ended, Conclusions

\* The places of a list are finitely many.
LEMMA PlacesFinite ==
    ASSUME NEW runs \in Seq(Runs), NEW S \in SUBSET DOMAIN runs
    PROVE  IsFiniteSet(S) /\ Cardinality(S) \in Nat
<1>1. DOMAIN runs = 1 .. Len(runs) /\ Len(runs) \in Nat BY LenProperties
<1>2. IsFiniteSet(1 .. Len(runs)) BY <1>1, FS_Interval
<1> QED BY <1>1, <1>2, FS_Subset, FS_CardinalityType

\* What fell off the page does not come back.
LEMMA OffThePage ==
    ASSUME NEW runs \in Seq(Runs), NEW later \in Seq(Runs), Grow(runs, later),
           NEW i \in ListedIn(runs), i \notin PageOf(runs)
    PROVE  i \in ListedIn(later) /\ i \notin PageOf(later)
<1>1. NewerIn(runs, i) \subseteq NewerIn(later, i) /\ i \in ListedIn(later) BY DEF NewerIn, ListedIn, Grow
<1>2. NewerIn(runs, i) \subseteq DOMAIN runs /\ NewerIn(later, i) \subseteq DOMAIN later BY DEF NewerIn, ListedIn
<1>3. IsFiniteSet(NewerIn(later, i)) /\ Cardinality(NewerIn(later, i)) \in Nat
      /\ Cardinality(NewerIn(runs, i)) \in Nat
  BY <1>2, PlacesFinite
<1>4. Cardinality(NewerIn(runs, i)) <= Cardinality(NewerIn(later, i)) BY <1>1, <1>3, FS_Subset
<1>5. ~ (Cardinality(NewerIn(runs, i)) < Window) BY DEF PageOf
<1> QED BY <1>1, <1>3, <1>4, <1>5, WindowAssumption DEF PageOf

\* A run is at one of four stages, or has ended.
LEMMA StagesAreNumbers ==
    ASSUME NEW runs \in Seq(Runs), NEW i \in DOMAIN runs
    PROVE  runs[i].stage \in 1 .. 5 /\ runs[i].stage \in Nat
<1>1. runs[i] \in Runs BY ElementOfSeq, LenProperties
<1>2. \A run \in Runs : run.stage \in 1 .. 5 BY DEF Runs
<1> QED BY <1>1, <1>2

\* What a call knew and what was answered stay true of the runs as they move on.
LEMMA SureCallStays ==
    ASSUME NEW runs \in Seq(Runs), NEW later \in Seq(Runs), Grow(runs, later), NEW call, SureCall(runs, call)
    PROVE  SureCall(later, call)
<1>1. \A i \in DOMAIN runs : runs[i].stage \in Nat /\ i \in DOMAIN later /\ later[i].stage \in Nat
  BY StagesAreNumbers DEF Grow
<1>2. CASE call.at = "listing"
  <2> SUFFICES ASSUME NEW x \in call.then
               PROVE  /\ x[1] \in DOMAIN later /\ later[x[1]].listed /\ later[x[1]].id = call.id
                      /\ x[2] \in Nat /\ x[2] <= later[x[1]].stage
    BY <1>2 DEF SureCall, Remembers
  <2>1. /\ x[1] \in DOMAIN runs /\ runs[x[1]].listed /\ runs[x[1]].id = call.id
        /\ x[2] \in Nat /\ x[2] <= runs[x[1]].stage
    BY <1>2 DEF SureCall, Remembers
  <2>2. later[x[1]].id = call.id /\ later[x[1]].listed /\ runs[x[1]].stage <= later[x[1]].stage
    BY <2>1 DEF Grow
  <2> QED BY <1>1, <2>1, <2>2
<1>3. CASE call.at = "result" BY <1>3 DEF SureCall, Grow
<1> QED BY <1>2, <1>3 DEF SureCall

LEMMA SureAnswerStays ==
    ASSUME NEW runs \in Seq(Runs), NEW later \in Seq(Runs), Grow(runs, later), NEW a, SureAnswer(runs, a)
    PROVE  SureAnswer(later, a)
<1>1. ASSUME a.kind \in ToSet(Stages) \cup Conclusions
      PROVE  /\ a.run \in DOMAIN later
             /\ a.id # None => later[a.run].id = a.id
             /\ a.kind \in Conclusions => later[a.run].stage = Ended /\ a.kind = later[a.run].conclusion
             /\ a.kind \notin Conclusions =>
                  \E s \in 1 .. later[a.run].stage :
                       s < Ended /\ Stages[s] = a.kind /\ \A x \in a.then : x[2] <= s
  <2>1. a.run \in DOMAIN runs BY <1>1 DEF SureAnswer
  <2>2. /\ a.run \in DOMAIN later /\ later[a.run].id = runs[a.run].id
        /\ runs[a.run].stage <= later[a.run].stage
        /\ runs[a.run].stage = Ended =>
             later[a.run].stage = Ended /\ later[a.run].conclusion = runs[a.run].conclusion
    BY <2>1 DEF Grow
  <2>3. a.id # None => later[a.run].id = a.id BY <1>1, <2>2 DEF SureAnswer
  <2>4. a.kind \in Conclusions => later[a.run].stage = Ended /\ a.kind = later[a.run].conclusion
    BY <1>1, <2>2 DEF SureAnswer
  <2>5. 1 .. runs[a.run].stage \subseteq 1 .. later[a.run].stage
    <3>1. runs[a.run].stage \in Nat /\ later[a.run].stage \in Nat BY <2>1, <2>2, StagesAreNumbers
    <3> QED BY <2>2, <3>1
  <2>6. a.kind \notin Conclusions =>
          \E s \in 1 .. later[a.run].stage :
               s < Ended /\ Stages[s] = a.kind /\ \A x \in a.then : x[2] <= s
    BY <1>1, <2>5 DEF SureAnswer
  <2> QED BY <2>2, <2>3, <2>4, <2>6
<1>2. ASSUME a.kind \in {"no jobs", "not there yet", "unknown"}, NEW x \in a.then
      PROVE  x[1] \in ListedIn(later) /\ x[1] \notin PageOf(later)
  <2>1. x[1] \in ListedIn(runs) /\ x[1] \notin PageOf(runs) BY <1>2 DEF SureAnswer
  <2> QED BY <2>1, OffThePage
<1> QED BY <1>1, <1>2 DEF SureAnswer

\* How the list of runs moves: GitHub only adds to it and moves runs forward.
LEMMA RunsGrow == ASSUME JInv, [JNext]_jVars PROVE Grow(jRuns, jRuns')
<1> USE DEF JInv, JTypeOK
<1>0. \A i \in DOMAIN jRuns : jRuns[i].stage \in 1 .. 5 BY StagesAreNumbers
<1>1. CASE UNCHANGED jRuns BY <1>0, <1>1 DEF Grow
<1>2. ASSUME NEW id \in Ids, jRuns' = Append(jRuns, Run(id)) PROVE Grow(jRuns, jRuns')
  <2>1. DOMAIN jRuns \subseteq DOMAIN jRuns' /\ \A i \in DOMAIN jRuns : jRuns'[i] = jRuns[i]
    BY <1>2, NewRun
  <2>2. \A i \in DOMAIN jRuns : jRuns[i].stage <= jRuns[i].stage BY <1>0
  <2> QED BY <2>1, <2>2 DEF Grow
<1>3. ASSUME NEW c \in Callers, GitHubStarts(c) PROVE Grow(jRuns, jRuns')
  <2>1. jCall[c].id \in Ids BY <1>3 DEF GitHubStarts
  <2> QED BY <1>2, <1>3, <2>1 DEF GitHubStarts
<1>4. CASE OtherRun BY <1>2, <1>4 DEF OtherRun
<1>5. ASSUME NEW i \in DOMAIN jRuns, RunMoves(i) PROVE Grow(jRuns, jRuns')
  <2>1. jRuns[i].stage # 5 /\ jRuns[i].stage \in 1 .. 5 BY <1>0, <1>5, Kinds DEF RunMoves
  <2>2. PICK stage \in 1 .. 5, conclusion \in Conclusions \cup {"none"} :
          /\ jRuns[i].stage <= stage
          /\ jRuns' = [jRuns EXCEPT ![i] = Moved(@, stage, conclusion)]
    <3>1. Len(Stages) = 4 /\ Ended = 5 BY DEF Stages, Ended
    <3>2. CASE jRuns[i].stage < Len(Stages) /\ jRuns' = [jRuns EXCEPT ![i] = Moved(@, @.stage + 1, "none")]
      <4>1. jRuns[i].stage + 1 \in 1 .. 5 /\ jRuns[i].stage <= jRuns[i].stage + 1 BY <2>1, <3>1, <3>2
      <4>2. jRuns' = [jRuns EXCEPT ![i] = Moved(@, jRuns[i].stage + 1, "none")] BY <3>2
      <4> QED BY <4>1, <4>2
    <3>3. ASSUME NEW conclusion \in Conclusions, jRuns' = [jRuns EXCEPT ![i] = Moved(@, Ended, conclusion)]
          PROVE  /\ jRuns[i].stage <= 5 /\ 5 \in 1 .. 5
                 /\ jRuns' = [jRuns EXCEPT ![i] = Moved(@, 5, conclusion)]
      BY <2>1, <3>1, <3>3
    <3> QED BY <1>5, <3>2, <3>3 DEF RunMoves
  <2>3. /\ DOMAIN jRuns' = DOMAIN jRuns
        /\ \A k \in DOMAIN jRuns : k # i => jRuns'[k] = jRuns[k]
        /\ jRuns'[i].id = jRuns[i].id /\ jRuns'[i].listed /\ jRuns'[i].stage = stage
    BY <2>2 DEF Moved
  <2> QED BY <1>0, <2>1, <2>2, <2>3, Kinds DEF Grow
<1>6. ASSUME NEW i \in DOMAIN jRuns, RunIsListed(i) PROVE Grow(jRuns, jRuns')
  <2>1. jRuns[i] \in Runs BY RunsHaveIds
  <2>2. jRuns' = [jRuns EXCEPT ![i] = [jRuns[i] EXCEPT !.listed = TRUE]] BY <1>6 DEF RunIsListed
  <2>3. /\ DOMAIN jRuns' = DOMAIN jRuns
        /\ \A k \in DOMAIN jRuns : k # i => jRuns'[k] = jRuns[k]
        /\ jRuns'[i].id = jRuns[i].id /\ jRuns'[i].listed /\ jRuns'[i].stage = jRuns[i].stage
        /\ jRuns'[i].conclusion = jRuns[i].conclusion
    BY <2>1, <2>2 DEF Runs
  <2> QED BY <1>0, <2>3 DEF Grow
<1> QED
  BY <1>1, <1>3, <1>4, <1>5, <1>6 DEF JNext, RunJob, GitHubRefuses, HearStarted, HearNothing, AskStatus,
     ReadList, ReadResult, CannotRead, JRestart

\* What is found is on the page, and is a run of the request; nothing is found when
\* no run of it is there.
LEMMA Finds ==
    ASSUME JInv, NEW id \in Nat
    PROVE  LET i == FindRun(id)
           IN  /\ i # None => i \in PageOf(jRuns) /\ i \in DOMAIN jRuns /\ (id # None => jRuns[i].id = id)
               /\ i = None => \A k \in PageOf(jRuns) : id # None /\ jRuns[k].id # id
<1> DEFINE found == {i \in Page : id = None \/ jRuns[i].id = id}
<1>0. JTypeOK BY DEF JInv
<1>1. Page = PageOf(jRuns) BY DEF Page, PageOf, ListedIn, NewerIn
<1>2. found \in SUBSET (1 .. Len(jRuns)) /\ Len(jRuns) \in Nat /\ DOMAIN jRuns = 1 .. Len(jRuns)
  <2>1. DOMAIN jRuns = 1 .. Len(jRuns) /\ Len(jRuns) \in Nat BY <1>0, LenProperties DEF JTypeOK
  <2> QED BY <2>1 DEF Page
<1>3. FindRun(id) = IF found = {} THEN None ELSE Max(found) BY DEF FindRun
<1>4. CASE found = {}
  <2>1. \A k \in PageOf(jRuns) : id # None /\ jRuns[k].id # id BY <1>1, <1>4
  <2> QED BY <1>3, <1>4, <2>1
<1>5. CASE found # {}
  <2>1. \E x \in found : \A y \in found : x >= y BY <1>2, <1>5, Greatest
  <2>2. Max(found) \in found
    <3> HIDE DEF found
    <3> QED BY <2>1 DEF Max
  <2>3. FindRun(id) \in found BY <1>3, <1>5, <2>2
  <2>4. FindRun(id) \in PageOf(jRuns) /\ FindRun(id) \in DOMAIN jRuns /\ (id # None => jRuns[FindRun(id)].id = id)
    BY <1>1, <1>2, <2>3
  <2>5. FindRun(id) # None BY <1>2, <2>3
  <2> QED BY <2>4, <2>5
<1> QED BY <1>4, <1>5

\* What a listing call is about, once ids and page are known.
LEMMA ListSaysTrue ==
    ASSUME JInv, Sure, NEW c \in Callers, ReadList(c), jCall[c].id \in Nat
    PROVE  Sure'
<1> DEFINE id == jCall[c].id
           i == FindRun(id)
           then == jCall[c].then
<1>0. jCall = [d \in Callers |-> jCall[d]] /\ jRuns \in Seq(Runs) BY DEF JInv, JTypeOK
<1>1. UNCHANGED jRuns BY DEF ReadList
<1>2. Remembers(jRuns, jCall[c]) BY DEF Sure, SureCall, ReadList
<1>3. \A k \in DOMAIN jRuns : jRuns[k].id \in Ids BY RunsHaveIds DEF JInv
<1>4. \A k, m \in DOMAIN jRuns : jRuns[k].id = jRuns[m].id => k = m BY DEF JInv, IdsAreFresh
<1>5. ASSUME NEW answer, Hear(c, answer), SureAnswer(jRuns, answer) PROVE Sure'
  <2>1. jAnswer' = answer /\ jCall' = [jCall EXCEPT ![c] = Idle] BY <1>5
  <2>2. \A d \in Callers : jCall'[d] = jCall[d] \/ jCall'[d] = Idle BY <1>0, <2>1
  <2>3. SureCall(jRuns, Idle) BY DEF SureCall
  <2> QED BY <1>1, <1>5, <2>1, <2>2, <2>3 DEF Sure
<1>6. CASE i = None
  <2> DEFINE answer == [kind |-> IF id = None THEN "no jobs" ELSE IF id = jLast THEN "not there yet"
                                 ELSE "unknown", id |-> id, then |-> then]
  <2>1. Hear(c, answer) BY <1>6 DEF ReadList
  <2>2. answer.kind \in {"no jobs", "not there yet", "unknown"} /\ answer.then = then OBVIOUS
  <2>3. \A x \in then : x[1] \in ListedIn(jRuns) /\ x[1] \notin PageOf(jRuns)
    <3>1. \A k \in PageOf(jRuns) : id # None /\ jRuns[k].id # id BY <1>6, Finds
    <3> QED BY <1>2, <3>1 DEF Remembers, ListedIn
  <2> HIDE DEF answer
  <2>4. SureAnswer(jRuns, answer) BY <2>2, <2>3, Kinds DEF SureAnswer
  <2> QED BY <1>5, <2>1, <2>4
<1>7. i # None => i \in DOMAIN jRuns /\ (id # None => jRuns[i].id = id) /\ jRuns[i].stage \in 1 .. 5
  BY <1>0, Finds, StagesAreNumbers
<1>8. CASE i # None /\ jRuns[i].stage # Ended
  <2> DEFINE answer == [kind |-> Stages[jRuns[i].stage], id |-> id, run |-> i, then |-> then]
  <2>1. Hear(c, answer) BY <1>8 DEF ReadList
  <2>2. jRuns[i].stage \in 1 .. 4 BY <1>7, <1>8, Kinds
  <2>3. answer.kind = Stages[jRuns[i].stage] /\ answer.id = id /\ answer.run = i /\ answer.then = then OBVIOUS
  <2>4. \A x \in then : x[2] <= jRuns[i].stage
    <3> SUFFICES ASSUME NEW x \in then PROVE x[2] <= jRuns[i].stage OBVIOUS
    <3>1. x[1] \in DOMAIN jRuns /\ jRuns[x[1]].id = id /\ x[2] <= jRuns[x[1]].stage BY <1>2 DEF Remembers
    <3>2. x[1] = i BY <1>3, <1>4, <1>7, <1>8, <3>1
    <3> QED BY <3>1, <3>2
  <2>5. Stages[jRuns[i].stage] \in ToSet(Stages) /\ Stages[jRuns[i].stage] \notin Conclusions
    BY <2>2, Kinds
  <2> HIDE DEF answer
  <2>6. SureAnswer(jRuns, answer)
    <3>1. jRuns[i].stage \in 1 .. jRuns[i].stage /\ jRuns[i].stage < Ended BY <2>2, Kinds
    <3>2. answer.kind \notin {"no jobs", "not there yet", "unknown"} BY <2>3, <2>5, Kinds
    <3> QED BY <1>7, <1>8, <2>3, <2>4, <2>5, <3>1, <3>2 DEF SureAnswer
  <2> QED BY <1>5, <2>1, <2>6
<1>9. CASE i # None /\ jRuns[i].stage = Ended
  <2> DEFINE call == [at |-> "result", id |-> id, run |-> i, then |-> then, conclusion |-> jRuns[i].conclusion]
  <2>1. jCall' = [jCall EXCEPT ![c] = call] /\ UNCHANGED jAnswer BY <1>9 DEF ReadList
  <2>2. call.at = "result" /\ call.id = id /\ call.run = i /\ call.conclusion = jRuns[i].conclusion OBVIOUS
  <2> HIDE DEF call
  <2>3. SureCall(jRuns, call) BY <1>7, <1>9, <2>2 DEF SureCall
  <2>4. \A d \in Callers : jCall'[d] = jCall[d] \/ jCall'[d] = call BY <1>0, <2>1
  <2> QED BY <1>1, <2>1, <2>3, <2>4 DEF Sure
<1> QED BY <1>6, <1>8, <1>9

\* Every step keeps calls and answers true.
LEMMA SureStep ==
    ASSUME JInv, JInv', Sure, [JNext]_jVars, \A c \in Callers : jCall[c].at = "listing" => jCall[c].id \in Nat
    PROVE  Sure'
<1>0. jCall = [d \in Callers |-> jCall[d]] /\ jRuns \in Seq(Runs) /\ jRuns' \in Seq(Runs) /\ jLast \in Nat
  BY DEF JInv, JTypeOK
<1>1. Grow(jRuns, jRuns') BY RunsGrow
<1>2. \A c \in Callers : SureCall(jRuns', jCall[c]) BY <1>0, <1>1, SureCallStays DEF Sure
<1>3. SureAnswer(jRuns', jAnswer) BY <1>0, <1>1, SureAnswerStays DEF Sure
<1>4. ASSUME NEW c \in Callers, NEW call, jCall' = [jCall EXCEPT ![c] = call],
             SureCall(jRuns', call), SureAnswer(jRuns', jAnswer')
      PROVE  Sure'
  <2>1. \A d \in Callers : jCall'[d] = jCall[d] \/ jCall'[d] = call BY <1>0, <1>4
  <2> QED BY <1>2, <1>4, <2>1 DEF Sure
<1>5. ASSUME NEW call, call.at \notin {"listing", "result"} PROVE SureCall(jRuns', call)
  BY <1>5 DEF SureCall
<1>6. ASSUME NEW a, a.kind \in {"refused", "started", "raised", "couldn't", "none"}
      PROVE  SureAnswer(jRuns', a)
  <2>1. a.kind \notin ToSet(Stages) \cup Conclusions BY <1>6, Kinds
  <2>2. a.kind \notin {"no jobs", "not there yet", "unknown"} BY <1>6
  <2> QED BY <2>1, <2>2 DEF SureAnswer
<1>7. ASSUME NEW c \in Callers, NEW answer, Hear(c, answer), SureAnswer(jRuns', answer) PROVE Sure'
  <2>1. jCall' = [jCall EXCEPT ![c] = Idle] /\ jAnswer' = answer BY <1>7
  <2>2. SureCall(jRuns', Idle) BY DEF SureCall
  <2> QED BY <1>4, <1>7, <2>1, <2>2
<1>19. ASSUME NEW c \in Callers, NEW answer, Hear(c, answer),
              answer.kind \in {"refused", "started", "raised", "couldn't"}
       PROVE  Sure'
  <2>1. SureAnswer(jRuns', answer) BY <1>6, <1>19
  <2> QED BY <1>7, <1>19, <2>1
<1>8. ASSUME NEW c \in Callers, RunJob(c) PROVE Sure'
  <2>1. CASE Hear(c, [kind |-> "refused", id |-> None])
    <3>1. [kind |-> "refused", id |-> None].kind = "refused" OBVIOUS
    <3> QED BY <1>19, <2>1, <3>1
  <2>2. CASE jCall' = [jCall EXCEPT ![c] = [at |-> "posting", id |-> jNext, sent |-> FALSE]] /\ UNCHANGED jAnswer
    <3>1. SureCall(jRuns', [at |-> "posting", id |-> jNext, sent |-> FALSE]) BY DEF SureCall
    <3> QED BY <1>3, <1>4, <2>2, <3>1
  <2> QED BY <1>8, <2>1, <2>2 DEF RunJob
<1>9. ASSUME NEW c \in Callers, GitHubStarts(c) PROVE Sure'
  <2>1. jCall[c] \in Postings BY <1>9 DEF GitHubStarts, JInv, JTypeOK
  <2>2. jCall' = [jCall EXCEPT ![c] = [jCall[c] EXCEPT !.sent = TRUE]] /\ UNCHANGED jAnswer
    BY <1>9 DEF GitHubStarts
  <2>3. [jCall[c] EXCEPT !.sent = TRUE].at = "posting" BY <2>1
  <2>4. SureCall(jRuns', [jCall[c] EXCEPT !.sent = TRUE]) BY <2>3 DEF SureCall
  <2> QED BY <1>3, <1>4, <2>2, <2>4
<1>10. ASSUME NEW c \in Callers, GitHubRefuses(c) \/ HearStarted(c) \/ HearNothing(c) \/ CannotRead(c)
       PROVE  Sure'
  <2>1. PICK answer : Hear(c, answer) /\ answer.kind \in {"refused", "started", "raised", "couldn't"}
    <3>1. CASE GitHubRefuses(c)
      <4>1. Hear(c, [kind |-> "refused", id |-> jCall[c].id]) BY <3>1 DEF GitHubRefuses
      <4> QED BY <4>1
    <3>2. CASE HearStarted(c)
      <4>1. Hear(c, [kind |-> "started", id |-> jCall[c].id]) BY <3>2 DEF HearStarted
      <4> QED BY <4>1
    <3>3. CASE HearNothing(c)
      <4>1. Hear(c, [kind |-> "raised"]) BY <3>3 DEF HearNothing
      <4> QED BY <4>1
    <3>4. CASE CannotRead(c)
      <4>1. Hear(c, [kind |-> "couldn't"]) BY <3>4 DEF CannotRead
      <4> QED BY <4>1
    <3> QED BY <1>10, <3>1, <3>2, <3>3, <3>4
  <2> QED BY <1>19, <2>1
<1>14. ASSUME NEW c \in Callers, NEW id \in 0 .. jNext - 1, AskStatus(c, id) PROVE Sure'
  <2> DEFINE asked == IF id = None THEN jLast ELSE id
             call == [at |-> "listing", id |-> asked,
                      then |-> {<<i, jRuns[i].stage>> : i \in {i \in RunsOf(asked) : jRuns[i].listed}}]
  <2>1. jCall' = [jCall EXCEPT ![c] = call] /\ UNCHANGED <<jRuns, jAnswer>> BY <1>14 DEF AskStatus
  <2>2. Remembers(jRuns, call)
    <3> SUFFICES ASSUME NEW i \in RunsOf(asked), jRuns[i].listed
                 PROVE  i \in DOMAIN jRuns /\ jRuns[i].id = asked /\ jRuns[i].stage \in Nat
                        /\ jRuns[i].stage <= jRuns[i].stage
      BY DEF Remembers
    <3> QED BY <1>0, StagesAreNumbers DEF RunsOf
  <2>3. call.at = "listing" OBVIOUS
  <2> HIDE DEF call
  <2>4. SureCall(jRuns', call) BY <2>1, <2>2, <2>3 DEF SureCall
  <2> QED BY <1>3, <1>4, <2>1, <2>4
<1>15. ASSUME NEW c \in Callers, ReadList(c) PROVE Sure' BY <1>15, ListSaysTrue DEF ReadList
<1>16. ASSUME NEW c \in Callers, ReadResult(c) PROVE Sure'
  <2> DEFINE call == jCall[c]
             answer == [kind |-> call.conclusion, id |-> call.id, run |-> call.run, then |-> call.then]
  <2>1. Hear(c, answer) /\ UNCHANGED jRuns /\ call.at = "result" BY <1>16 DEF ReadResult
  <2>2. /\ call.run \in DOMAIN jRuns /\ (call.id # None => jRuns[call.run].id = call.id)
        /\ jRuns[call.run].stage = Ended /\ jRuns[call.run].conclusion = call.conclusion
        /\ call.conclusion \in Endings
    BY <2>1 DEF Sure, SureCall, JInv, JTypeOK
  <2>3. /\ answer.kind = call.conclusion /\ answer.id = call.id
        /\ answer.run = call.run /\ answer.then = call.then
    OBVIOUS
  <2> HIDE DEF answer
  <2>4. SureAnswer(jRuns', answer) BY <2>1, <2>2, <2>3, Kinds DEF SureAnswer, Endings
  <2> QED BY <1>7, <2>1, <2>4
<1>17. CASE UNCHANGED <<jCall, jAnswer>> BY <1>2, <1>3, <1>17 DEF Sure
<1>18. CASE JRestart
  <2>1. jAnswer'.kind = "none" /\ \A c \in Callers : jCall'[c] = Idle BY <1>18 DEF JRestart
  <2>2. SureCall(jRuns', Idle) BY DEF SureCall
  <2>3. SureAnswer(jRuns', jAnswer') BY <1>6, <2>1
  <2> QED BY <2>1, <2>2, <2>3 DEF Sure
<1> QED
  BY <1>8, <1>9, <1>10, <1>14, <1>15, <1>16, <1>17, <1>18
     DEF JNext, RunMoves, RunIsListed, OtherRun

\* A call asks for a number.
ListsAskForIds == \A c \in Callers : jCall[c].at = "listing" => jCall[c].id \in Nat

LEMMA ListsStep == ASSUME JInv, ListsAskForIds, [JNext]_jVars PROVE ListsAskForIds'
<1>0. jCall = [d \in Callers |-> jCall[d]] /\ jLast \in Nat /\ jNext \in Nat BY DEF JInv, JTypeOK
<1>1. ASSUME NEW c \in Callers, NEW call, jCall' = [jCall EXCEPT ![c] = call],
             call.at = "listing" => call.id \in Nat
      PROVE  ListsAskForIds'
  <2>1. \A d \in Callers : jCall'[d] = jCall[d] \/ jCall'[d] = call BY <1>0, <1>1
  <2> QED BY <1>1, <2>1 DEF ListsAskForIds
<1>2. ASSUME NEW c \in Callers, NEW id \in 0 .. jNext - 1, AskStatus(c, id) PROVE ListsAskForIds'
  BY <1>0, <1>1, <1>2 DEF AskStatus
<1>3. ASSUME NEW c \in Callers, GitHubStarts(c) PROVE ListsAskForIds'
  <2>1. jCall[c] \in Postings BY <1>3 DEF GitHubStarts, JInv, JTypeOK
  <2> QED BY <1>1, <1>3, <2>1 DEF GitHubStarts
<1>4. ASSUME NEW c \in Callers, jCall' = [jCall EXCEPT ![c] = Idle] PROVE ListsAskForIds' BY <1>1, <1>4
<1>5. ASSUME NEW c \in Callers, RunJob(c) PROVE ListsAskForIds' BY <1>1, <1>4, <1>5 DEF RunJob
<1>6. ASSUME NEW c \in Callers, ReadList(c) PROVE ListsAskForIds'
  <2>1. CASE jCall' = [jCall EXCEPT ![c] = Idle] BY <1>4, <2>1
  <2>2. ASSUME NEW call, call.at = "result", jCall' = [jCall EXCEPT ![c] = call] PROVE ListsAskForIds'
    BY <1>1, <2>2
  <2> QED BY <1>6, <2>1, <2>2 DEF ReadList
<1>7. CASE UNCHANGED jCall BY <1>7 DEF ListsAskForIds
<1>8. CASE JRestart BY <1>8 DEF JRestart, ListsAskForIds
<1> QED
  BY <1>2, <1>3, <1>4, <1>5, <1>6, <1>7, <1>8 DEF JNext, GitHubRefuses, HearStarted, HearNothing,
     ReadResult, CannotRead, RunMoves, RunIsListed, OtherRun

\* What a status says of a request is of its own run, at a stage that it was at since
\* the question or at its end, and a run that was there to be found is found.
THEOREM StatusesAreOfTheirRuns == JSpec => []StatusIsOfItsRun
<1>1. JInit => Sure /\ ListsAskForIds
  BY Kinds DEF JInit, Sure, SureAnswer, SureCall, ListsAskForIds
<1>2. JInv /\ JInv' /\ Sure /\ ListsAskForIds /\ [JNext]_jVars => (Sure /\ ListsAskForIds)'
  BY SureStep, ListsStep DEF ListsAskForIds
<1>3. Sure => StatusIsOfItsRun
  <2> SUFFICES ASSUME Sure PROVE StatusIsOfItsRun OBVIOUS
  <2>1. Page = PageOf(jRuns) BY DEF Page, PageOf, ListedIn, NewerIn
  <2>2. SureAnswer(jRuns, jAnswer) BY DEF Sure
  <2> QED BY <2>1, <2>2 DEF SureAnswer, StatusIsOfItsRun
<1> QED BY <1>1, <1>2, <1>3, JobsInvariant, PTL DEF JSpec

-----------------------------------------------------------------------------
(* The coding tasks                                                        *)

\* home-mcp adds to the worker's ledger and takes nothing from it: whatever the calls,
\* the time-outs, the commands that nobody waits for and the restarts of the
\* container, every step is one that the worker's ledger allows, or leaves it alone.
THEOREM ClientsKeepTheLedger == TSpec => Ledger!SafeSpec
<1> USE DEF Ledger!Become
<1>1. TInit => Ledger!Init BY DEF TInit
<1>2. [TNext]_tVars => [Ledger!Next]_Ledger!vars
  <2> SUFFICES ASSUME [TNext]_tVars PROVE [Ledger!Next]_Ledger!vars OBVIOUS
  <2> USE DEF ledger, Ledger!vars
  <2>1. ASSUME NEW c \in Clients, WorkerQueues(c) PROVE Ledger!Next
    BY <2>1 DEF WorkerQueues, Queue, Accepted, Ledger!Next
  <2>2. ASSUME NEW c \in Clients,
               StartTask(c) \/ WorkerRefuses(c) \/ StartTimesOut(c) \/ HearQueued(c)
               \/ AskTasks(c) \/ HearTasks(c)
        PROVE  UNCHANGED Ledger!vars
    BY <2>2 DEF StartTask, WorkerRefuses, StartTimesOut, HearQueued, AskTasks, HearTasks
  <2>3. CASE OrphanEnds BY <2>3 DEF OrphanEnds, Queue, Accepted, Ledger!Next
  <2>4. CASE WorkerWorks BY <2>4 DEF WorkerWorks, Ledger!Next
  <2>5. CASE TRestart BY <2>5 DEF TRestart
  <2>6. CASE UNCHANGED tVars BY <2>6 DEF tVars
  <2> QED BY <2>1, <2>2, <2>3, <2>4, <2>5, <2>6 DEF TNext
<1> QED BY <1>1, <1>2, PTL DEF TSpec, Ledger!SafeSpec

\* The clients with a start that the worker queued, and with one it has not seen.
Owed == {c \in Clients : Starting(c) /\ tCall[c].task # 0}
Unsent == {c \in Clients : Starting(c) /\ tCall[c].task = 0}
Starts == [at : {"start"}, task : {0} \cup Tasks]

TTypeOK ==
    /\ phase = [t \in Tasks |-> phase[t]]
    /\ tCall = [c \in Clients |-> tCall[c]]
    /\ \A c \in Clients : Starting(c) => tCall[c] \in Starts
    /\ tOrphans \in Nat /\ tUntold \in Nat
    /\ IsFiniteSet(Accepted)

\* A queued start has a task of its own that nobody was told of.
TasksOwed ==
    \A c \in Owed : /\ tCall[c].task \in Accepted \ tTold
                    /\ \A d \in Owed : c # d => tCall[c].task # tCall[d].task

EachAccounted ==
    /\ tTold \subseteq Accepted
    /\ Cardinality(Accepted \ tTold) + tOrphans <= tUntold + Cardinality(Owed)

TInv == TTypeOK /\ TasksOwed /\ EachAccounted

\* The clients that wait are finitely many, and so are the tasks.
LEMMA Counts ==
    ASSUME TTypeOK
    PROVE  /\ IsFiniteSet(Owed) /\ Cardinality(Owed) \in Nat
           /\ IsFiniteSet(Unsent) /\ Cardinality(Unsent) \in Nat
           /\ IsFiniteSet(Accepted \ tTold) /\ Cardinality(Accepted \ tTold) \in Nat
<1>1. Owed \subseteq Clients /\ Unsent \subseteq Clients BY DEF Owed, Unsent
<1>2. IsFiniteSet(Owed) /\ IsFiniteSet(Unsent) BY <1>1, ClientsAssumption, FS_Subset
<1>3. IsFiniteSet(Accepted \ tTold) BY FS_Subset DEF TTypeOK
<1> QED BY <1>2, <1>3, FS_CardinalityType

\* The sum when a call is over, when the worker queues a task, when a client is told,
\* when a command ends that nobody waits for, and when all calls are gone at once.
LEMMA Balance ==
    \A unheard, orphans, untold, owed, unheard2, orphans2, untold2, owed2 \in Nat :
        /\ unheard + orphans <= untold + owed
        /\ \/ unheard2 = unheard /\ owed2 = owed - 1 /\ orphans2 = orphans /\ untold2 = untold + 1
           \/ unheard2 = unheard /\ owed2 = owed /\ orphans2 = orphans + 1 /\ untold2 = untold + 1
           \/ unheard2 = unheard + 1 /\ owed2 = owed + 1 /\ orphans2 = orphans /\ untold2 = untold
           \/ unheard2 = unheard - 1 /\ owed2 = owed - 1 /\ orphans2 = orphans /\ untold2 = untold
           \/ unheard2 <= unheard + 1 /\ owed2 = owed /\ orphans2 = orphans - 1 /\ untold2 = untold
           \/ /\ unheard2 = unheard /\ owed2 = 0
              /\ \E k \in Nat : orphans2 = orphans + k /\ untold2 = untold + (k + owed)
        => unheard2 + orphans2 <= untold2 + owed2
OBVIOUS

\* A client's call that ends, or goes on to something that the worker has not seen.
LEMMA CallMoves ==
    ASSUME TTypeOK, NEW c \in Clients, NEW call,
           call.at = "start" => call \in Starts /\ call.task = 0,
           tCall' = [tCall EXCEPT ![c] = call], UNCHANGED phase
    PROVE  /\ tCall' = [d \in Clients |-> tCall'[d]]
           /\ \A d \in Clients : Starting(d)' => tCall'[d] \in Starts
           /\ \A d \in Owed' : tCall'[d] = tCall[d]
           /\ Owed' = Owed \ {c} /\ Accepted' = Accepted
           /\ c \in Owed => Cardinality(Owed') = Cardinality(Owed) - 1
           /\ c \notin Owed => Cardinality(Owed') = Cardinality(Owed)
           /\ Cardinality(Owed') \in Nat
<1>1. tCall = [d \in Clients |-> tCall[d]] BY DEF TTypeOK
<1>2. \A d \in Clients : tCall'[d] = IF d = c THEN call ELSE tCall[d] BY <1>1
<1>3. \A d \in Clients : Starting(d)' => tCall'[d] \in Starts BY <1>2 DEF Starting, TTypeOK
<1>4. Owed' = Owed \ {c} /\ \A d \in Owed' : tCall'[d] = tCall[d] BY <1>2 DEF Owed, Starting
<1>5. /\ c \in Owed => Cardinality(Owed') = Cardinality(Owed) - 1
      /\ c \notin Owed => Cardinality(Owed') = Cardinality(Owed)
      /\ Cardinality(Owed') \in Nat
  <2>1. IsFiniteSet(Owed) BY Counts
  <2>2. IsFiniteSet(Owed') BY <1>4, <2>1, FS_RemoveElement
  <2> QED BY <1>4, <2>1, <2>2, FS_RemoveElement, FS_CardinalityType
<1> QED BY <1>1, <1>3, <1>4, <1>5 DEF Accepted

\* A call that is over, or on to something that the worker has not seen: a client
\* who owed a task gives it up.
LEMMA CallOver ==
    ASSUME TInv, NEW c \in Clients, NEW call,
           call.at = "start" => call \in Starts /\ call.task = 0,
           tCall' = [tCall EXCEPT ![c] = call], UNCHANGED <<phase, tTold>>,
           \/ c \in Owed /\ UNCHANGED tOrphans /\ tUntold' = tUntold + 1
           \/ c \notin Owed /\ UNCHANGED tOrphans /\ UNCHANGED tUntold
           \/ c \notin Owed /\ tOrphans' = tOrphans + 1 /\ tUntold' = tUntold + 1
    PROVE  TInv'
<1>1. TTypeOK BY DEF TInv
<1>2. tOrphans \in Nat /\ tUntold \in Nat /\ tOrphans' \in Nat /\ tUntold' \in Nat BY <1>1 DEF TTypeOK
<1>3. Accepted' = Accepted /\ tTold' = tTold /\ Cardinality(Owed') \in Nat
      /\ tCall' = [d \in Clients |-> tCall'[d]]
  BY <1>1, CallMoves
<1>4. TTypeOK'
  <2>1. \A d \in Clients : Starting(d)' => tCall'[d] \in Starts BY <1>1, CallMoves
  <2>2. phase' = [t \in Tasks |-> phase'[t]] BY <1>1 DEF TTypeOK
  <2>3. IsFiniteSet(Accepted') BY <1>1, <1>3 DEF TTypeOK
  <2> QED BY <1>2, <1>3, <2>1, <2>2, <2>3 DEF TTypeOK
<1>5. EachAccounted'
  <2>1. Cardinality(Accepted \ tTold) \in Nat /\ Cardinality(Owed) \in Nat BY <1>1, Counts
  <2>2. Cardinality(Accepted \ tTold) + tOrphans <= tUntold + Cardinality(Owed) BY DEF TInv, EachAccounted
  <2>3. CASE c \in Owed /\ UNCHANGED tOrphans /\ tUntold' = tUntold + 1
    <3>1. Cardinality(Owed') = Cardinality(Owed) - 1 BY <1>1, <2>3, CallMoves
    <3>2. Cardinality(Accepted \ tTold) + tOrphans' <= tUntold' + Cardinality(Owed')
      BY <1>2, <1>3, <2>1, <2>2, <2>3, <3>1, Balance
    <3> QED BY <1>3, <3>2 DEF TInv, EachAccounted
  <2>4. CASE c \notin Owed
    <3>1. Cardinality(Owed') = Cardinality(Owed) BY <1>1, <2>4, CallMoves
    <3>2. \/ tOrphans' = tOrphans /\ tUntold' = tUntold
          \/ tOrphans' = tOrphans + 1 /\ tUntold' = tUntold + 1
      BY <2>4
    <3>3. Cardinality(Accepted \ tTold) + tOrphans' <= tUntold' + Cardinality(Owed')
      <4>1. CASE tOrphans' = tOrphans /\ tUntold' = tUntold BY <2>2, <3>1, <4>1
      <4>2. CASE tOrphans' = tOrphans + 1 /\ tUntold' = tUntold + 1
        BY <1>2, <1>3, <2>1, <2>2, <3>1, <4>2, Balance
      <4> QED BY <3>2, <4>1, <4>2
    <3> QED BY <1>3, <3>3 DEF TInv, EachAccounted
  <2> QED BY <2>3, <2>4
<1>6. TasksOwed'
  <2>1. \A d \in Owed' : d \in Owed /\ tCall'[d] = tCall[d] BY <1>1, CallMoves
  <2> QED BY <1>3, <2>1 DEF TInv, TasksOwed
<1> QED BY <1>4, <1>5, <1>6 DEF TInv

\* The worker queues a task that it had not accepted.
LEMMA QueueStep ==
    ASSUME TTypeOK, NEW t \in Tasks, t \notin Accepted, Ledger!Accept(t)
    PROVE  /\ phase' = [u \in Tasks |-> phase'[u]]
           /\ Accepted' = Accepted \cup {t} /\ IsFiniteSet(Accepted')
<1>1. phase = [u \in Tasks |-> phase[u]] /\ IsFiniteSet(Accepted) BY DEF TTypeOK
<1>2. phase' = [phase EXCEPT ![t] = "queued"] BY DEF Ledger!Accept, Ledger!Become
<1>3. \A u \in Tasks : phase'[u] = IF u = t THEN "queued" ELSE phase[u] BY <1>1, <1>2
<1>4. Accepted' = Accepted \cup {t} BY <1>3 DEF Accepted
<1> QED BY <1>1, <1>2, <1>4, FS_AddElement

LEMMA WorkerQueuesStep == ASSUME TInv, NEW c \in Clients, WorkerQueues(c) PROVE TInv'
<1>1. TTypeOK /\ tTold \subseteq Accepted BY DEF TInv, EachAccounted
<1>2. PICK t \in Tasks \ Accepted : Ledger!Accept(t) /\ tCall' = [tCall EXCEPT ![c].task = t]
  BY DEF WorkerQueues, Queue
<1>3. UNCHANGED <<tOrphans, tUntold, tTold>> BY DEF WorkerQueues, history
<1>4. Starting(c) /\ tCall[c].task = 0 /\ tCall[c] \in Starts BY <1>1 DEF WorkerQueues, TTypeOK
<1>5. t # 0 BY TasksAssumption
<1>6. DEFINE call == [tCall[c] EXCEPT !.task = t]
<1>7. call.at = "start" /\ call.task = t /\ call \in Starts BY <1>4 DEF Starts
<1>8. tCall = [d \in Clients |-> tCall[d]] BY <1>1 DEF TTypeOK
<1>9. /\ tCall' = [d \in Clients |-> tCall'[d]]
      /\ \A d \in Clients : tCall'[d] = IF d = c THEN call ELSE tCall[d]
  BY <1>2, <1>8
<1> HIDE DEF call
<1>10. c \notin Owed /\ Owed' = Owed \cup {c} BY <1>4, <1>5, <1>7, <1>9 DEF Owed, Starting
<1>11. Accepted' = Accepted \cup {t} /\ t \notin Accepted BY <1>1, <1>2, QueueStep
<1>12. TTypeOK'
  <2>1. \A d \in Clients : Starting(d)' => tCall'[d] \in Starts BY <1>1, <1>7, <1>9 DEF Starting, TTypeOK
  <2>2. phase' = [u \in Tasks |-> phase'[u]] /\ IsFiniteSet(Accepted') BY <1>1, <1>2, QueueStep
  <2>3. tOrphans' \in Nat /\ tUntold' \in Nat BY <1>1, <1>3 DEF TTypeOK
  <2> QED BY <1>9, <2>1, <2>2, <2>3 DEF TTypeOK
<1>13. EachAccounted'
  <2>1. IsFiniteSet(Accepted \ tTold) /\ Cardinality(Accepted \ tTold) \in Nat
        /\ IsFiniteSet(Owed) /\ Cardinality(Owed) \in Nat
    BY <1>1, Counts
  <2>2. Accepted' \ tTold = (Accepted \ tTold) \cup {t} /\ t \notin Accepted \ tTold BY <1>1, <1>11
  <2>3. Cardinality(Accepted' \ tTold) = Cardinality(Accepted \ tTold) + 1 BY <2>1, <2>2, FS_AddElement
  <2>4. Cardinality(Owed') = Cardinality(Owed) + 1 BY <1>10, <2>1, FS_AddElement
  <2>5. Cardinality(Accepted' \ tTold) \in Nat /\ Cardinality(Owed') \in Nat BY <2>1, <2>3, <2>4
  <2>6. Cardinality(Accepted \ tTold) + tOrphans <= tUntold + Cardinality(Owed) BY DEF TInv, EachAccounted
  <2>7. tOrphans \in Nat /\ tUntold \in Nat BY <1>1 DEF TTypeOK
  <2>8. Cardinality(Accepted' \ tTold) + tOrphans <= tUntold + Cardinality(Owed')
    BY <2>1, <2>3, <2>4, <2>5, <2>6, <2>7, Balance
  <2> QED BY <1>1, <1>3, <1>11, <2>8 DEF EachAccounted
<1>14. TasksOwed'
  <2>1. \A d \in Owed : tCall[d].task \in Accepted \ tTold /\ tCall[d].task # t /\ tCall'[d] = tCall[d]
    BY <1>9, <1>10, <1>11 DEF TInv, TasksOwed, Owed
  <2>2. tCall'[c].task = t /\ t \notin tTold BY <1>1, <1>7, <1>9, <1>11
  <2> QED BY <1>3, <1>10, <1>11, <2>1, <2>2 DEF TInv, TasksOwed
<1> QED BY <1>12, <1>13, <1>14 DEF TInv

LEMMA HearQueuedStep == ASSUME TInv, NEW c \in Clients, HearQueued(c) PROVE TInv'
<1>1. TTypeOK /\ tTold \subseteq Accepted BY DEF TInv, EachAccounted
<1>2. /\ tCall' = [tCall EXCEPT ![c] = NoCall] /\ UNCHANGED <<phase, tOrphans, tUntold>>
      /\ tTold' = tTold \cup {tCall[c].task}
  BY DEF HearQueued, Tell, ledger
<1>3. c \in Owed BY DEF HearQueued, Owed
<1>4. tCall[c].task \in Accepted \ tTold BY <1>3 DEF TInv, TasksOwed
<1>5. NoCall.at # "start" BY DEF NoCall
<1>6. /\ tCall' = [d \in Clients |-> tCall'[d]]
      /\ \A d \in Clients : Starting(d)' => tCall'[d] \in Starts
      /\ \A d \in Owed' : tCall'[d] = tCall[d]
      /\ Owed' = Owed \ {c} /\ Accepted' = Accepted
      /\ Cardinality(Owed') = Cardinality(Owed) - 1 /\ Cardinality(Owed') \in Nat
  BY <1>1, <1>2, <1>3, <1>5, CallMoves
<1>7. TTypeOK'
  <2>1. phase' = [t \in Tasks |-> phase'[t]] /\ tOrphans' \in Nat /\ tUntold' \in Nat
    BY <1>1, <1>2 DEF TTypeOK
  <2>2. IsFiniteSet(Accepted') BY <1>1, <1>6 DEF TTypeOK
  <2> QED BY <1>6, <2>1, <2>2 DEF TTypeOK
<1>8. EachAccounted'
  <2>1. Accepted \ tTold' = (Accepted \ tTold) \ {tCall[c].task} BY <1>2
  <2>2. IsFiniteSet(Accepted \ tTold) /\ Cardinality(Accepted \ tTold) \in Nat
        /\ Cardinality(Owed) \in Nat
    BY <1>1, Counts
  <2>3. Cardinality(Accepted \ tTold') = Cardinality(Accepted \ tTold) - 1
    <3>1. Cardinality((Accepted \ tTold) \ {tCall[c].task}) = Cardinality(Accepted \ tTold) - 1
      BY <1>4, <2>2, FS_RemoveElement
    <3> QED BY <2>1, <3>1
  <2>4. Cardinality(Accepted \ tTold') \in Nat
    <3>1. IsFiniteSet(Accepted \ tTold') BY <2>1, <2>2, FS_RemoveElement
    <3> QED BY <3>1, FS_CardinalityType
  <2>5. Cardinality(Accepted \ tTold) + tOrphans <= tUntold + Cardinality(Owed) BY DEF TInv, EachAccounted
  <2>6. tOrphans \in Nat /\ tUntold \in Nat BY <1>1 DEF TTypeOK
  <2>7. Cardinality(Accepted \ tTold') + tOrphans <= tUntold + Cardinality(Owed')
    BY <1>6, <2>2, <2>3, <2>4, <2>5, <2>6, Balance
  <2>8. tTold' \subseteq Accepted' BY <1>1, <1>2, <1>4, <1>6
  <2> QED BY <1>2, <1>6, <2>7, <2>8 DEF EachAccounted
<1>9. TasksOwed' BY <1>2, <1>3, <1>6 DEF TInv, TasksOwed
<1> QED BY <1>7, <1>8, <1>9 DEF TInv

LEMMA OrphanStep == ASSUME TInv, OrphanEnds PROVE TInv'
<1>1. TTypeOK /\ tTold \subseteq Accepted BY DEF TInv, EachAccounted
<1>2. tOrphans > 0 /\ tOrphans' = tOrphans - 1 /\ UNCHANGED <<tCall, tUntold, tTold>>
  BY DEF OrphanEnds, history
<1>3. Owed' = Owed BY <1>2 DEF Owed, Starting
<1>4. Accepted \subseteq Accepted' /\ IsFiniteSet(Accepted') /\ phase' = [u \in Tasks |-> phase'[u]]
      /\ \E t : Accepted' \subseteq Accepted \cup {t}
  <2>1. CASE UNCHANGED phase BY <1>1, <2>1 DEF TTypeOK, Accepted
  <2>2. ASSUME NEW t \in Tasks \ Accepted, Ledger!Accept(t)
        PROVE  /\ Accepted' = Accepted \cup {t} /\ IsFiniteSet(Accepted')
               /\ phase' = [u \in Tasks |-> phase'[u]]
    BY <1>1, <2>2, QueueStep
  <2> QED BY <2>1, <2>2 DEF OrphanEnds, Queue, ledger
<1>5. TTypeOK' BY <1>1, <1>2, <1>4 DEF TTypeOK, Starting
<1>6. EachAccounted'
  <2>1. IsFiniteSet(Accepted \ tTold) /\ Cardinality(Accepted \ tTold) \in Nat
        /\ Cardinality(Owed) \in Nat
    BY <1>1, Counts
  <2>2. PICK t : Accepted' \subseteq Accepted \cup {t} BY <1>4
  <2>3. /\ IsFiniteSet((Accepted \ tTold) \cup {t})
        /\ \/ Cardinality((Accepted \ tTold) \cup {t}) = Cardinality(Accepted \ tTold) + 1
           \/ Cardinality((Accepted \ tTold) \cup {t}) = Cardinality(Accepted \ tTold)
    BY <2>1, FS_AddElement
  <2>4. Accepted' \ tTold \subseteq (Accepted \ tTold) \cup {t} BY <2>2
  <2>5. /\ Cardinality(Accepted' \ tTold) \in Nat
        /\ Cardinality(Accepted' \ tTold) <= Cardinality((Accepted \ tTold) \cup {t})
    <3>1. IsFiniteSet(Accepted' \ tTold) BY <2>3, <2>4, FS_Subset
    <3> QED BY <2>3, <2>4, <3>1, FS_Subset, FS_CardinalityType
  <2>6. Cardinality(Accepted' \ tTold) <= Cardinality(Accepted \ tTold) + 1 BY <2>1, <2>3, <2>5
  <2>7. Cardinality(Accepted \ tTold) + tOrphans <= tUntold + Cardinality(Owed) BY DEF TInv, EachAccounted
  <2>8. tOrphans \in Nat /\ tUntold \in Nat /\ tOrphans' \in Nat BY <1>1, <1>5 DEF TTypeOK
  <2>9. Cardinality(Accepted' \ tTold) + tOrphans' <= tUntold + Cardinality(Owed)
    BY <1>2, <2>1, <2>5, <2>6, <2>7, <2>8, Balance
  <2> QED BY <1>1, <1>2, <1>3, <1>4, <2>9 DEF EachAccounted
<1>7. TasksOwed' BY <1>2, <1>3, <1>4 DEF TInv, TasksOwed
<1> QED BY <1>5, <1>6, <1>7 DEF TInv

\* The worker's own steps accept nothing.
LEMMA WorkerStep == ASSUME TInv, WorkerWorks PROVE TInv'
<1>1. TTypeOK BY DEF TInv
<1>2. phase = [u \in Tasks |-> phase[u]] BY <1>1 DEF TTypeOK
<1>3. UNCHANGED <<tCall, tOrphans, tUntold, tTold>> BY DEF WorkerWorks, history
<1>4. Accepted' = Accepted /\ phase' = [u \in Tasks |-> phase'[u]]
  <2>1. ASSUME NEW t \in Tasks, NEW from \in Ledger!Phases \ {"unknown"},
               NEW to \in Ledger!Phases \ {"unknown"}, Ledger!Become(t, from, to)
        PROVE  Accepted' = Accepted /\ phase' = [u \in Tasks |-> phase'[u]]
    <3>1. phase[t] # "unknown" /\ phase' = [phase EXCEPT ![t] = to] BY <2>1 DEF Ledger!Become
    <3>2. \A u \in Tasks : phase'[u] = IF u = t THEN to ELSE phase[u] BY <1>2, <3>1
    <3> QED BY <1>2, <3>1, <3>2 DEF Accepted
  <2>2. ASSUME NEW t \in Tasks, Ledger!Start(t) PROVE Accepted' = Accepted /\ phase' = [u \in Tasks |-> phase'[u]]
    BY <2>1, <2>2 DEF Ledger!Start, Ledger!Phases
  <2>3. ASSUME NEW t \in Tasks, Ledger!End(t) PROVE Accepted' = Accepted /\ phase' = [u \in Tasks |-> phase'[u]]
    <3>1. PICK how \in Ledger!Endings : Ledger!Become(t, "working", how) BY <2>3 DEF Ledger!End
    <3> QED BY <2>1, <3>1 DEF Ledger!Phases, Ledger!Endings
  <2>4. ASSUME UNCHANGED phase PROVE Accepted' = Accepted /\ phase' = [u \in Tasks |-> phase'[u]]
    BY <1>2, <2>4 DEF Accepted
  <2> QED BY <2>2, <2>3, <2>4 DEF WorkerWorks, Ledger!Publish
<1>5. Owed' = Owed BY <1>3 DEF Owed, Starting
<1>6. TTypeOK' BY <1>1, <1>3, <1>4 DEF TTypeOK, Starting
<1>7. EachAccounted' BY <1>3, <1>4, <1>5 DEF TInv, EachAccounted
<1>8. TasksOwed' BY <1>3, <1>4, <1>5 DEF TInv, TasksOwed
<1> QED BY <1>6, <1>7, <1>8 DEF TInv

\* A restart gives up every start at once, the queued ones and the others.
LEMMA TRestartStep == ASSUME TInv, TRestart PROVE TInv'
<1>1. TTypeOK BY DEF TInv
<1>2. /\ tCall' = [c \in Clients |-> NoCall] /\ UNCHANGED <<phase, tTold>>
      /\ tOrphans' = tOrphans + Cardinality(Unsent)
      /\ tUntold' = tUntold + Cardinality({c \in Clients : Starting(c)})
  BY DEF TRestart, ledger, Unsent
<1>3. /\ IsFiniteSet(Owed) /\ Cardinality(Owed) \in Nat
      /\ IsFiniteSet(Unsent) /\ Cardinality(Unsent) \in Nat
      /\ Cardinality(Accepted \ tTold) \in Nat
  BY <1>1, Counts
<1>4. Cardinality({c \in Clients : Starting(c)}) = Cardinality(Unsent) + Cardinality(Owed)
  <2>1. {c \in Clients : Starting(c)} = Unsent \cup Owed /\ Unsent \cap Owed = {} BY DEF Unsent, Owed
  <2>2. Cardinality(Unsent \cup Owed) = Cardinality(Unsent) + Cardinality(Owed) - Cardinality({})
    BY <1>3, <2>1, FS_Union
  <2>3. Cardinality({}) = 0 BY FS_EmptySet
  <2>4. \A m, n \in Nat : m + n - 0 = m + n OBVIOUS
  <2>5. Cardinality(Unsent \cup Owed) = Cardinality(Unsent) + Cardinality(Owed)
    BY <1>3, <2>2, <2>3, <2>4
  <2> QED BY <2>1, <2>5
<1>5. \A c \in Clients : ~Starting(c)' BY <1>2 DEF Starting, NoCall
<1>6. Owed' = {} /\ Cardinality(Owed') = 0 BY <1>5, FS_EmptySet DEF Owed
<1>7. Accepted' = Accepted BY <1>2 DEF Accepted
<1>8. tOrphans \in Nat /\ tUntold \in Nat /\ tOrphans' \in Nat /\ tUntold' \in Nat
  BY <1>1, <1>2, <1>3, <1>4 DEF TTypeOK
<1>9. TTypeOK'
  <2>1. phase' = [t \in Tasks |-> phase'[t]] /\ IsFiniteSet(Accepted') BY <1>1, <1>2, <1>7 DEF TTypeOK
  <2>2. tCall' = [c \in Clients |-> tCall'[c]] BY <1>2
  <2> QED BY <1>5, <1>8, <2>1, <2>2 DEF TTypeOK
<1>10. EachAccounted'
  <2>1. Cardinality(Accepted \ tTold) + tOrphans <= tUntold + Cardinality(Owed) BY DEF TInv, EachAccounted
  <2>2. \E k \in Nat : tOrphans' = tOrphans + k /\ tUntold' = tUntold + (k + Cardinality(Owed))
    BY <1>2, <1>3, <1>4
  <2>3. Cardinality(Accepted \ tTold) + tOrphans' <= tUntold' + Cardinality(Owed')
    BY <1>3, <1>6, <1>8, <2>1, <2>2, Balance
  <2> QED BY <1>2, <1>7, <2>3 DEF TInv, EachAccounted
<1>11. TasksOwed' BY <1>6 DEF TasksOwed
<1> QED BY <1>9, <1>10, <1>11 DEF TInv

LEMMA ClientStep ==
    ASSUME TInv, NEW c \in Clients,
           StartTask(c) \/ WorkerRefuses(c) \/ StartTimesOut(c) \/ AskTasks(c) \/ HearTasks(c)
    PROVE  TInv'
<1> USE DEF ledger, history
<1>1. NoCall.at # "start" BY DEF NoCall
<1>2. tOrphans \in Nat BY DEF TInv, TTypeOK
<1>3. tCall[c] = NoCall => c \notin Owed BY <1>1 DEF Owed, Starting
<1>4. CASE StartTask(c)
  <2>1. CASE tCall' = [tCall EXCEPT ![c] = NoCall] BY <1>1, <1>3, <1>4, <2>1, CallOver DEF StartTask
  <2>2. CASE tCall' = [tCall EXCEPT ![c] = [at |-> "start", task |-> 0]]
    <3>1. [at |-> "start", task |-> 0] \in Starts BY DEF Starts
    <3> QED BY <1>3, <1>4, <2>2, <3>1, CallOver DEF StartTask
  <2> QED BY <1>4, <2>1, <2>2 DEF StartTask, Tell
<1>5. CASE WorkerRefuses(c) BY <1>1, <1>5, CallOver DEF WorkerRefuses, Tell, Owed
<1>6. CASE StartTimesOut(c)
  <2>1. CASE tCall[c].task = 0
    <3>1. c \notin Owed BY <2>1 DEF Owed
    <3> QED BY <1>1, <1>6, <2>1, <3>1, CallOver DEF StartTimesOut, Tell
  <2>2. CASE tCall[c].task # 0
    <3>1. c \in Owed BY <1>6, <2>2 DEF Owed, StartTimesOut
    <3>2. tOrphans' = tOrphans BY <1>2, <1>6, <2>2 DEF StartTimesOut
    <3> QED BY <1>1, <1>6, <3>1, <3>2, CallOver DEF StartTimesOut, Tell
  <2> QED BY <2>1, <2>2
<1>7. CASE AskTasks(c)
  <2>1. PICK about : tCall' = [tCall EXCEPT ![c] = [at |-> "status", about |-> about]] BY <1>7 DEF AskTasks
  <2>2. [at |-> "status", about |-> about].at # "start" OBVIOUS
  <2> QED BY <1>3, <1>7, <2>1, <2>2, CallOver DEF AskTasks
<1>8. CASE HearTasks(c) BY <1>1, <1>8, CallOver DEF HearTasks, Tell, Owed, Starting
<1> QED BY <1>4, <1>5, <1>6, <1>7, <1>8

\* The worker's queue holds what clients asked for and no more: each task that nobody
\* was told of has a start of its own that is still answered, was given up, or went
\* down with the container; for any number of clients, tasks and restarts.
THEOREM TasksAreAccounted == TSpec => []TasksAccounted
<1>1. TInit => TInv
  <2> SUFFICES ASSUME TInit PROVE TInv OBVIOUS
  <2>1. phase = [t \in Tasks |-> "unknown"] BY DEF TInit, Ledger!Init
  <2>2. Accepted = {} BY <2>1 DEF Accepted
  <2>3. \A c \in Clients : ~Starting(c) BY DEF TInit, Starting, NoCall
  <2>4. Owed = {} BY <2>3 DEF Owed
  <2>5. TTypeOK
    <3>1. tCall = [c \in Clients |-> tCall[c]] BY DEF TInit
    <3>2. IsFiniteSet(Accepted) BY <2>2, FS_EmptySet
    <3> QED BY <2>1, <2>3, <3>1, <3>2 DEF TTypeOK, TInit
  <2>6. Accepted \ tTold = {} /\ Cardinality({}) = 0 BY <2>2, FS_EmptySet
  <2>7. EachAccounted BY <2>2, <2>4, <2>6 DEF EachAccounted, TInit
  <2> QED BY <2>4, <2>5, <2>7 DEF TInv, TasksOwed
<1>2. TInv /\ [TNext]_tVars => TInv'
  <2> SUFFICES ASSUME TInv, [TNext]_tVars PROVE TInv' OBVIOUS
  <2>1. CASE UNCHANGED tVars
    <3> USE <2>1 DEF tVars
    <3>1. Accepted' = Accepted /\ Owed' = Owed BY DEF Accepted, Owed, Starting
    <3>2. TTypeOK' BY <3>1 DEF TInv, TTypeOK, Starting
    <3> QED BY <3>1, <3>2 DEF TInv, EachAccounted, TasksOwed
  <2> QED
    BY <2>1, ClientStep, WorkerQueuesStep, HearQueuedStep, OrphanStep, WorkerStep, TRestartStep DEF TNext
<1>3. TInv => TasksAccounted
  <2> SUFFICES ASSUME TInv PROVE TasksAccounted OBVIOUS
  <2>1. Owed = {c \in Clients : Starting(c) /\ tCall[c].task # 0} BY DEF Owed
  <2> QED BY <2>1 DEF TInv, EachAccounted, TasksOwed, TasksAccounted, Owed
<1> QED BY <1>1, <1>2, <1>3, PTL DEF TSpec

=============================================================================
