------------------------ MODULE VoiceWorkerProofs ------------------------
(* Theorems about VoiceWorker, for any set of task ids, any number of      *)
(* dispatch sessions and any number of stops.                              *)
EXTENDS VoiceWorker, FiniteSetTheorems, TLAPS

USE DEF frame, Trying, Holding, Steps, Running, Done, Terminal, Statuses

RunnerInv ==
  /\ LedgerBalances /\ StatusFollowsRunner /\ OnlyTakenHaveFiles
  /\ OnlyCleanPublished /\ OutcomeTruthful /\ PublishedPlaced
  /\ AgentsAccountedFor /\ AgentsPlaced

\* Types are kept by every step.
LEMMA TypeStep == ASSUME TypeOK, NewIdsAreFresh, [Next]_vars PROVE TypeOK'
<1> USE TasksAssumption, BoundAssumption DEF TypeOK
<1>1. CASE RunnerStep
  <2>1. CASE Poll BY <2>1 DEF Poll, Goto, sessionVars
  <2>2. CASE Take BY <2>2 DEF Take, Goto, Unlink, sessionVars
  <2>3. CASE Begin BY <2>3 DEF Begin, Goto, WriteStatus, sessionVars
  <2>4. CASE Cloned BY <2>4 DEF Cloned, Goto, WriteStatus, sessionVars
  <2>5. CASE Launch BY <2>5 DEF Launch, Goto, sessionVars
  <2>6. CASE AgentFinished
    <3>1. PICK p \in AgentResults : patch' = [patch EXCEPT ![cur] = p]
      BY <2>6 DEF AgentFinished
    <3>2. p \in Patches BY AgentAssumption DEF Patches
    <3> QED BY <2>6, <3>1, <3>2 DEF AgentFinished, Goto, WriteStatus, sessionVars
  <2>7. CASE AgentFailed BY <2>7 DEF AgentFailed, Goto, sessionVars
  <2>8. CASE Collect BY <2>8 DEF Collect, Settle, WriteStatus, sessionVars
  <2>9. CASE Apply BY <2>9 DEF Apply, Goto, WriteStatus, sessionVars
  <2>10. CASE Push BY <2>10 DEF Push, sessionVars
  <2>11. CASE OpenPr BY <2>11 DEF OpenPr, sessionVars
  <2>12. CASE Record BY <2>12 DEF Record, Settle, WriteStatus, sessionVars
  <2>13. CASE StepFails BY <2>13 DEF StepFails, sessionVars
  <2>14. CASE Land BY <2>14 DEF Land, Settle, WriteStatus, sessionVars
  <2> QED
    BY <1>1, <2>1, <2>2, <2>3, <2>4, <2>5, <2>6, <2>7, <2>8, <2>9, <2>10,
       <2>11, <2>12, <2>13, <2>14 DEF RunnerStep
<1>0. Held \subseteq Tasks BY DEF Held
<1>a. ASSUME Down PROVE stops' \in 0 .. MaxStops
  <2>1. stops \in 0 .. MaxStops /\ MaxStops \in Nat OBVIOUS
  <2>2. stops < MaxStops /\ stops' = stops + 1 BY <1>a DEF Down
  <2> HIDE DEF TypeOK
  <2> QED BY <2>1, <2>2
<1>2. CASE Stop
  <2>1. agents' \subseteq Tasks BY <1>2 DEF Stop
  <2> QED BY <1>0, <1>a, <1>2, <2>1 DEF Stop, Down, sessionVars
<1>3. CASE Reboot BY <1>0, <1>a, <1>3 DEF Reboot, Down, SessionSteps
<1>4. CASE Restart BY <1>4 DEF Restart, Goto, sessionVars
<1>5. CASE OrphanExits BY <1>5 DEF OrphanExits, sessionVars
<1>6. ASSUME NEW s \in Sessions, Dispatch(s) PROVE TypeOK'
  <2>1. CASE BeginRecent(s)
    <3>1. PICK o \in Ops : op' = [op EXCEPT ![s] = o] BY <2>1 DEF BeginRecent
    <3> QED BY <2>1, <3>1 DEF BeginRecent, runnerVars, SessionSteps
  <2>2. CASE ScanQueue(s) BY <2>2 DEF ScanQueue, Newest, runnerVars, SessionSteps
  <2>3. CASE BeginStatus(s)
    <3>1. PICK t \in Tasks : todo' = [todo EXCEPT ![s] = {t}] BY <2>3 DEF BeginStatus
    <3> QED BY <2>3, <3>1 DEF BeginStatus, runnerVars, SessionSteps
  <2>4. CASE LoadStatus(s)
    <3>1. PICK t \in Tasks :
            /\ todo' = [todo EXCEPT ![s] = @ \ {t}]
            /\ active' = [active EXCEPT ![s] = @ \cup ({t} \cap Unsettled)]
      BY <2>4 DEF LoadStatus
    <3>2. todo' \in [Sessions -> SUBSET Tasks] BY <3>1
    <3>3. active' \in [Sessions -> SUBSET Tasks] BY <3>1
    <3> QED BY <2>4, <3>2, <3>3 DEF LoadStatus, runnerVars
  <2>9. CASE NoStatus(s) BY <2>9 DEF NoStatus, runnerVars, SessionSteps
  <2>5. CASE LoadQueue(s)
    <3>1. PICK t \in Tasks :
            /\ todo' = [todo EXCEPT ![s] = @ \ {t}]
            /\ active' = [active EXCEPT ![s] = @ \cup ({t} \cap queue)]
            /\ missing' = [missing EXCEPT ![s] = @ \cup ({t} \ queue)]
      BY <2>5 DEF LoadQueue
    <3>2. todo' \in [Sessions -> SUBSET Tasks] BY <3>1
    <3>3. active' \in [Sessions -> SUBSET Tasks] BY <3>1
    <3>4. missing' \in [Sessions -> SUBSET Tasks] BY <3>1
    <3> QED BY <2>5, <3>2, <3>3, <3>4 DEF LoadQueue, runnerVars, SessionSteps
  <2>6. CASE Admit(s)
    <3>1. PICK t \in Tasks : new' = [new EXCEPT ![s] = t] BY <2>6 DEF Admit
    <3>2. new' \in [Sessions -> Tasks \cup {None}] BY <3>1
    <3>3. spc' \in [Sessions -> SessionSteps] BY <2>6 DEF Admit, SessionSteps
    <3> QED BY <2>6, <3>2, <3>3 DEF Admit, runnerVars
  <2>7. CASE Enqueue(s) BY <2>7 DEF Enqueue, NewIdsAreFresh, runnerVars, SessionSteps
  <2>8. CASE Reply(s) BY <2>8 DEF Reply, EndSession, runnerVars, SessionSteps
  <2> QED
    BY <1>6, <2>1, <2>2, <2>3, <2>4, <2>5, <2>6, <2>7, <2>8, <2>9 DEF Dispatch
<1>7. CASE UNCHANGED vars BY <1>7 DEF vars, runnerVars, sessionVars
<1> QED BY <1>1, <1>2, <1>3, <1>4, <1>5, <1>6, <1>7 DEF Next

-----------------------------------------------------------------------------
\* No two sessions ever hold the same id, nor one already in the queue.
LEMMA FreshStep == ASSUME TypeOK, NewIdsAreFresh, [Next]_vars PROVE NewIdsAreFresh'
<1> USE TasksAssumption DEF TypeOK, NewIdsAreFresh
<1>1. CASE UNCHANGED <<spc, new, accepted>> BY <1>1
<1>2. CASE Reboot BY <1>2 DEF Reboot, Down
<1>3. ASSUME NEW s \in Sessions, Admit(s) PROVE NewIdsAreFresh'
  <2>1. PICK t \in Tasks \ accepted :
          (\A r \in Sessions : new[r] # t) /\ new' = [new EXCEPT ![s] = t]
    BY <1>3 DEF Admit
  <2>2. accepted' = accepted /\ spc' = [spc EXCEPT ![s] = "enqueue"]
    BY <1>3 DEF Admit
  <2> QED BY <2>1, <2>2
<1>4. ASSUME NEW s \in Sessions, Enqueue(s) PROVE NewIdsAreFresh'
  BY <1>4 DEF Enqueue
<1>5. ASSUME NEW s \in Sessions, Reply(s) PROVE NewIdsAreFresh'
  BY <1>5 DEF Reply, EndSession
<1>6. ASSUME NEW s \in Sessions,
             spc' = [spc EXCEPT ![s] = "load"] \/ spc' = [spc EXCEPT ![s] = "load queue"]
             \/ spc' = [spc EXCEPT ![s] = "scan queue"],
             UNCHANGED <<new, accepted>>
      PROVE  NewIdsAreFresh'
  BY <1>6
<1>7. ASSUME NEW s \in Sessions, Dispatch(s) PROVE NewIdsAreFresh'
  BY <1>7, <1>1, <1>3, <1>4, <1>5, <1>6
     DEF Dispatch, BeginRecent, ScanQueue, BeginStatus, LoadStatus, NoStatus, LoadQueue
<1>8. CASE RunnerStep
  BY <1>1, <1>8 DEF RunnerStep, Poll, Take, Begin, Cloned, Launch, AgentFinished,
     AgentFailed, Collect, Apply, Push, OpenPr, Record, StepFails, Land, sessionVars
<1>9. CASE Stop \/ Restart \/ OrphanExits
  BY <1>1, <1>9 DEF Stop, Down, Restart, OrphanExits, sessionVars
<1>10. CASE UNCHANGED vars BY <1>1, <1>10 DEF vars, sessionVars
<1> QED BY <1>2, <1>7, <1>8, <1>9, <1>10 DEF Next

-----------------------------------------------------------------------------
\* A step within a task: the runner still holds it, its status stays short of
\* final, and nothing else is published.
LEMMA WithinTask ==
  ASSUME TypeOK, RunnerInv, pc \in Holding, pc' \in Holding,
         UNCHANGED <<queue, accepted, interrupted, cur>>,
         UNCHANGED status \/ \E st \in Running : WriteStatus(st),
         prs \subseteq prs', pushed' \subseteq pushed \cup {cur}
  PROVE  /\ cur \in Tasks /\ Held = {cur} /\ Held' = {cur} /\ Settled' = Settled
         /\ LedgerBalances' /\ OnlyTakenHaveFiles' /\ OutcomeTruthful'
<1> USE TasksAssumption DEF TypeOK
<1>1. cur \in Tasks /\ cur' = cur /\ Held = {cur} /\ Held' = {cur} BY DEF Held
<1>2. cur \notin Settled
  BY <1>1 DEF RunnerInv, LedgerBalances
<1>3. PICK st \in Statuses : /\ st \notin Terminal
                             /\ status' = [status EXCEPT ![cur] = st]
  <2>1. CASE UNCHANGED status
    BY <1>1, <1>2, <2>1, status' = [status EXCEPT ![cur] = status[cur]] DEF Settled
  <2>2. CASE \E st \in Running : WriteStatus(st) BY <2>2 DEF WriteStatus
  <2> QED BY <2>1, <2>2
<1>4. Settled' = Settled BY <1>1, <1>2, <1>3 DEF Settled
<1>5. LedgerBalances' BY <1>1, <1>4 DEF RunnerInv, LedgerBalances
<1>6. OnlyTakenHaveFiles'
  BY <1>1, <1>3, <1>4 DEF RunnerInv, OnlyTakenHaveFiles, HasFile
<1>7. OutcomeTruthful' BY <1>1, <1>3 DEF RunnerInv, OutcomeTruthful
<1> QED BY <1>1, <1>4, <1>5, <1>6, <1>7

\* The last step of a task: it moves from the runner's hands to the settled.
LEMMA LastStep ==
  ASSUME TypeOK, RunnerInv, pc \in Holding, NEW st \in Terminal, Settle(st),
         UNCHANGED <<queue, accepted, interrupted, pushed, prs, agents, patch>>,
         st = "pr opened" => cur \in prs,
         st = "no changes" => cur \notin pushed,
         st # "failed" => cur \notin agents
  PROVE  RunnerInv'
<1> USE TasksAssumption DEF TypeOK
<1>1. /\ cur \in Tasks /\ cur' = None /\ pc' = "poll"
      /\ status' = [status EXCEPT ![cur] = st]
      /\ Held = {cur} /\ Held' = {}
  BY DEF Held, Settle, WriteStatus
<1>2. Settled' = Settled \cup {cur}
  <2>1. cur \in Settled' BY <1>1 DEF Settled
  <2>2. \A t \in Tasks \ {cur} : t \in Settled' <=> t \in Settled BY <1>1 DEF Settled
  <2>3. Settled \subseteq Tasks /\ Settled' \subseteq Tasks BY DEF Settled
  <2> QED BY <1>1, <2>1, <2>2, <2>3
<1>3. LedgerBalances' BY <1>1, <1>2 DEF RunnerInv, LedgerBalances
<1>4. StatusFollowsRunner' BY <1>1 DEF StatusFollowsRunner
<1>5. OnlyTakenHaveFiles'
  BY <1>1, <1>2 DEF RunnerInv, OnlyTakenHaveFiles, HasFile
<1>6. OnlyCleanPublished' BY DEF RunnerInv, OnlyCleanPublished
<1>7. OutcomeTruthful' BY <1>1 DEF RunnerInv, OutcomeTruthful
<1>8. PublishedPlaced' BY <1>1, <1>2 DEF RunnerInv, PublishedPlaced
<1>9. AgentsAccountedFor'
  <2> SUFFICES ASSUME NEW t \in agents
               PROVE  t \in interrupted \/ status'[t] = "failed"
    BY <1>1 DEF AgentsAccountedFor
  <2>1. CASE t = cur BY <1>1, <2>1
  <2>2. CASE t # cur BY <1>1, <2>2 DEF RunnerInv, AgentsAccountedFor
  <2> QED BY <2>1, <2>2
<1>10. AgentsPlaced' BY <1>1 DEF AgentsPlaced
<1> QED BY <1>3, <1>4, <1>5, <1>6, <1>7, <1>8, <1>9, <1>10 DEF RunnerInv

\* Where the runner's task is absent from what the runner left behind.
LEMMA InHand ==
  ASSUME TypeOK, RunnerInv, pc \in Holding
  PROVE  /\ cur \in Tasks /\ Held = {cur}
         /\ cur \notin queue /\ cur \notin Settled /\ cur \notin interrupted
         /\ pc \notin {"pr", "record", "failing"} => cur \notin pushed
<1>1. cur \in Tasks /\ Held = {cur} BY DEF TypeOK, Held
<1>2. cur \notin queue /\ cur \notin Settled /\ cur \notin interrupted
  BY <1>1 DEF RunnerInv, LedgerBalances
<1> QED BY <1>1, <1>2 DEF RunnerInv, PublishedPlaced

\* The invariant of the runner's side holds after every step.
LEMMA RunnerInvStep ==
  ASSUME TypeOK, NewIdsAreFresh, RunnerInv, [Next]_vars
  PROVE  RunnerInv'
<1> USE TasksAssumption DEF TypeOK
<1>1. CASE Begin
  <2>1. /\ pc = "taken" /\ pc' = "cloning" /\ WriteStatus("cloning")
        /\ UNCHANGED <<queue, accepted, interrupted, cur, patch, agents, pushed, prs>>
    BY <1>1 DEF Begin, Goto
  <2>2. /\ cur \in Tasks /\ Held = {cur} /\ Held' = {cur} /\ Settled' = Settled
        /\ LedgerBalances' /\ OnlyTakenHaveFiles' /\ OutcomeTruthful'
    BY <2>1, WithinTask DEF WriteStatus
  <2>3. StatusFollowsRunner'
    BY <2>1, <2>2 DEF RunnerInv, StatusFollowsRunner, WriteStatus
  <2>4. OnlyCleanPublished'
    BY <2>1, <2>2 DEF RunnerInv, OnlyCleanPublished
  <2>5. PublishedPlaced'
    BY <2>1, <2>2 DEF RunnerInv, PublishedPlaced
  <2>6. AgentsAccountedFor'
    BY InHand, <2>1, <2>2 DEF RunnerInv, AgentsAccountedFor, WriteStatus, Settled
  <2>7. AgentsPlaced'
    BY <2>1, <2>2 DEF RunnerInv, AgentsPlaced
  <2> QED BY <2>2, <2>3, <2>4, <2>5, <2>6, <2>7 DEF RunnerInv
<1>2. CASE Cloned
  <2>1. /\ pc = "cloning" /\ pc' = "launch" /\ WriteStatus("agent working")
        /\ UNCHANGED <<queue, accepted, interrupted, cur, patch, agents, pushed, prs>>
    BY <1>2 DEF Cloned, Goto
  <2>2. /\ cur \in Tasks /\ Held = {cur} /\ Held' = {cur} /\ Settled' = Settled
        /\ LedgerBalances' /\ OnlyTakenHaveFiles' /\ OutcomeTruthful'
    BY <2>1, WithinTask DEF WriteStatus
  <2>3. StatusFollowsRunner'
    BY <2>1, <2>2 DEF RunnerInv, StatusFollowsRunner, WriteStatus
  <2>4. OnlyCleanPublished'
    BY <2>1, <2>2 DEF RunnerInv, OnlyCleanPublished
  <2>5. PublishedPlaced'
    BY <2>1, <2>2 DEF RunnerInv, PublishedPlaced
  <2>6. AgentsAccountedFor'
    BY InHand, <2>1, <2>2 DEF RunnerInv, AgentsAccountedFor, WriteStatus, Settled
  <2>7. AgentsPlaced'
    BY <2>1, <2>2 DEF RunnerInv, AgentsPlaced
  <2> QED BY <2>2, <2>3, <2>4, <2>5, <2>6, <2>7 DEF RunnerInv
<1>3. CASE Launch
  <2>1. /\ pc = "launch" /\ pc' = "agent" /\ agents' = agents \cup {cur}
        /\ UNCHANGED <<queue, accepted, interrupted, cur, status, patch, pushed, prs>>
    BY <1>3 DEF Launch, Goto
  <2>2. /\ cur \in Tasks /\ Held = {cur} /\ Held' = {cur} /\ Settled' = Settled
        /\ LedgerBalances' /\ OnlyTakenHaveFiles' /\ OutcomeTruthful'
    BY <2>1, WithinTask DEF WriteStatus
  <2>3. StatusFollowsRunner'
    BY <2>1, <2>2 DEF RunnerInv, StatusFollowsRunner
  <2>4. OnlyCleanPublished'
    BY <2>1, <2>2 DEF RunnerInv, OnlyCleanPublished
  <2>5. PublishedPlaced'
    BY <2>1, <2>2 DEF RunnerInv, PublishedPlaced
  <2>6. AgentsAccountedFor'
    BY <2>1, <2>2 DEF RunnerInv, AgentsAccountedFor
  <2>7. AgentsPlaced'
    BY <2>1, <2>2 DEF RunnerInv, AgentsPlaced
  <2> QED BY <2>2, <2>3, <2>4, <2>5, <2>6, <2>7 DEF RunnerInv
<1>4. CASE AgentFinished
  <2>1. /\ pc = "agent" /\ pc' = "collecting" /\ WriteStatus("collecting changes")
        /\ agents' = agents \ {cur}
        /\ \E p \in AgentResults : patch' = [patch EXCEPT ![cur] = p]
        /\ UNCHANGED <<queue, accepted, interrupted, cur, pushed, prs>>
    BY <1>4 DEF AgentFinished, Goto
  <2>2. /\ cur \in Tasks /\ Held = {cur} /\ Held' = {cur} /\ Settled' = Settled
        /\ LedgerBalances' /\ OnlyTakenHaveFiles' /\ OutcomeTruthful'
    BY <2>1, WithinTask DEF WriteStatus
  <2>3. StatusFollowsRunner'
    BY <2>1, <2>2 DEF RunnerInv, StatusFollowsRunner, WriteStatus
  <2>4. OnlyCleanPublished'
    BY InHand, <2>1, <2>2 DEF RunnerInv, OnlyCleanPublished
  <2>5. PublishedPlaced'
    BY <2>1, <2>2 DEF RunnerInv, PublishedPlaced
  <2>6. AgentsAccountedFor'
    BY InHand, <2>1, <2>2 DEF RunnerInv, AgentsAccountedFor, WriteStatus, Settled
  <2>7. AgentsPlaced'
    BY <2>1, <2>2 DEF RunnerInv, AgentsPlaced
  <2> QED BY <2>2, <2>3, <2>4, <2>5, <2>6, <2>7 DEF RunnerInv
<1>5. CASE AgentFailed
  <2>1. /\ pc = "agent" /\ pc' = "failing" /\ agents' \subseteq agents
        /\ UNCHANGED <<queue, accepted, interrupted, cur, status, patch, pushed, prs>>
    BY <1>5 DEF AgentFailed, Goto
  <2>2. /\ cur \in Tasks /\ Held = {cur} /\ Held' = {cur} /\ Settled' = Settled
        /\ LedgerBalances' /\ OnlyTakenHaveFiles' /\ OutcomeTruthful'
    BY <2>1, WithinTask DEF WriteStatus
  <2>3. StatusFollowsRunner'
    BY <2>1, <2>2 DEF RunnerInv, StatusFollowsRunner
  <2>4. OnlyCleanPublished'
    BY <2>1, <2>2 DEF RunnerInv, OnlyCleanPublished
  <2>5. PublishedPlaced'
    BY <2>1, <2>2 DEF RunnerInv, PublishedPlaced
  <2>6. AgentsAccountedFor'
    BY <2>1, <2>2 DEF RunnerInv, AgentsAccountedFor
  <2>7. AgentsPlaced'
    BY <2>1, <2>2 DEF RunnerInv, AgentsPlaced
  <2> QED BY <2>2, <2>3, <2>4, <2>5, <2>6, <2>7 DEF RunnerInv
<1>6. CASE Apply
  <2>1. /\ pc = "apply" /\ pc' = "push" /\ WriteStatus("pushing") /\ patch[cur] = "clean"
        /\ UNCHANGED <<queue, accepted, interrupted, cur, patch, agents, pushed, prs>>
    BY <1>6 DEF Apply, Goto, MayCommit
  <2>2. /\ cur \in Tasks /\ Held = {cur} /\ Held' = {cur} /\ Settled' = Settled
        /\ LedgerBalances' /\ OnlyTakenHaveFiles' /\ OutcomeTruthful'
    BY <2>1, WithinTask DEF WriteStatus
  <2>3. StatusFollowsRunner'
    BY <2>1, <2>2 DEF RunnerInv, StatusFollowsRunner, WriteStatus
  <2>4. OnlyCleanPublished'
    BY <2>1, <2>2 DEF RunnerInv, OnlyCleanPublished
  <2>5. PublishedPlaced'
    BY <2>1, <2>2 DEF RunnerInv, PublishedPlaced
  <2>6. AgentsAccountedFor'
    BY InHand, <2>1, <2>2 DEF RunnerInv, AgentsAccountedFor, WriteStatus, Settled
  <2>7. AgentsPlaced'
    BY <2>1, <2>2 DEF RunnerInv, AgentsPlaced
  <2> QED BY <2>2, <2>3, <2>4, <2>5, <2>6, <2>7 DEF RunnerInv
<1>7. CASE Push
  <2>1. /\ pc = "push" /\ pc' \in {"pr", "failing"} /\ pushed' = pushed \cup {cur}
        /\ UNCHANGED <<queue, accepted, interrupted, cur, status, patch, agents, prs>>
    BY <1>7 DEF Push
  <2>2. /\ cur \in Tasks /\ Held = {cur} /\ Held' = {cur} /\ Settled' = Settled
        /\ LedgerBalances' /\ OnlyTakenHaveFiles' /\ OutcomeTruthful'
    BY <2>1, WithinTask DEF WriteStatus
  <2>3. StatusFollowsRunner'
    BY <2>1, <2>2 DEF RunnerInv, StatusFollowsRunner
  <2>4. OnlyCleanPublished'
    BY <2>1, <2>2 DEF RunnerInv, OnlyCleanPublished, PublishedPlaced
  <2>5. PublishedPlaced'
    BY <2>1, <2>2 DEF RunnerInv, PublishedPlaced
  <2>6. AgentsAccountedFor'
    BY <2>1, <2>2 DEF RunnerInv, AgentsAccountedFor
  <2>7. AgentsPlaced'
    BY <2>1, <2>2 DEF RunnerInv, AgentsPlaced
  <2> QED BY <2>2, <2>3, <2>4, <2>5, <2>6, <2>7 DEF RunnerInv
<1>8. CASE OpenPr
  <2>1. /\ pc = "pr" /\ pc' \in {"record", "failing"} /\ prs' = prs \cup {cur}
        /\ UNCHANGED <<queue, accepted, interrupted, cur, status, patch, agents, pushed>>
    BY <1>8 DEF OpenPr
  <2>2. /\ cur \in Tasks /\ Held = {cur} /\ Held' = {cur} /\ Settled' = Settled
        /\ LedgerBalances' /\ OnlyTakenHaveFiles' /\ OutcomeTruthful'
    BY <2>1, WithinTask DEF WriteStatus
  <2>3. StatusFollowsRunner'
    BY <2>1, <2>2 DEF RunnerInv, StatusFollowsRunner
  <2>4. OnlyCleanPublished'
    BY <2>1, <2>2 DEF RunnerInv, OnlyCleanPublished, PublishedPlaced
  <2>5. PublishedPlaced'
    BY <2>1, <2>2 DEF RunnerInv, PublishedPlaced
  <2>6. AgentsAccountedFor'
    BY <2>1, <2>2 DEF RunnerInv, AgentsAccountedFor
  <2>7. AgentsPlaced'
    BY <2>1, <2>2 DEF RunnerInv, AgentsPlaced
  <2> QED BY <2>2, <2>3, <2>4, <2>5, <2>6, <2>7 DEF RunnerInv
<1>9. CASE StepFails
  <2>1. /\ pc \in Trying \ {"agent"} /\ pc' = "failing"
        /\ UNCHANGED <<queue, accepted, interrupted, cur, status, patch, agents, pushed, prs>>
    BY <1>9 DEF StepFails
  <2>2. /\ cur \in Tasks /\ Held = {cur} /\ Held' = {cur} /\ Settled' = Settled
        /\ LedgerBalances' /\ OnlyTakenHaveFiles' /\ OutcomeTruthful'
    BY <2>1, WithinTask DEF WriteStatus
  <2>3. StatusFollowsRunner'
    BY <2>1, <2>2 DEF RunnerInv, StatusFollowsRunner
  <2>4. OnlyCleanPublished'
    BY <2>1, <2>2 DEF RunnerInv, OnlyCleanPublished
  <2>5. PublishedPlaced'
    BY <2>1, <2>2 DEF RunnerInv, PublishedPlaced
  <2>6. AgentsAccountedFor'
    BY <2>1, <2>2 DEF RunnerInv, AgentsAccountedFor
  <2>7. AgentsPlaced'
    BY <2>1, <2>2 DEF RunnerInv, AgentsPlaced
  <2> QED BY <2>2, <2>3, <2>4, <2>5, <2>6, <2>7 DEF RunnerInv
<1>10. CASE Collect
  <2>1. CASE patch[cur] = "empty"
    <3>1. /\ pc = "collecting" /\ Settle("no changes")
          /\ UNCHANGED <<queue, accepted, interrupted, pushed, prs, agents, patch>>
      BY <1>10, <2>1 DEF Collect
    <3>2. cur \notin pushed /\ cur \notin agents BY <3>1, InHand DEF RunnerInv, AgentsPlaced
    <3> QED BY <3>1, <3>2, LastStep
  <2>2. CASE patch[cur] # "empty"
    <3>1. /\ pc = "collecting" /\ pc' = "apply"
          /\ UNCHANGED <<queue, accepted, interrupted, cur, status, patch, agents, pushed, prs>>
      BY <1>10, <2>2 DEF Collect
    <3>2. /\ cur \in Tasks /\ Held = {cur} /\ Held' = {cur} /\ Settled' = Settled
          /\ LedgerBalances' /\ OnlyTakenHaveFiles' /\ OutcomeTruthful'
      BY <3>1, WithinTask
    <3> QED BY <3>1, <3>2 DEF RunnerInv, StatusFollowsRunner, OnlyCleanPublished,
               PublishedPlaced, AgentsAccountedFor, AgentsPlaced
  <2> QED BY <2>1, <2>2
<1>11. CASE Record
  <2>1. /\ pc = "record" /\ Settle("pr opened")
        /\ UNCHANGED <<queue, accepted, interrupted, pushed, prs, agents, patch>>
    BY <1>11 DEF Record
  <2>2. cur \in prs /\ cur \notin agents
    BY <2>1 DEF RunnerInv, PublishedPlaced, AgentsPlaced
  <2> QED BY <2>1, <2>2, LastStep
<1>12. CASE Land
  <2>1. /\ pc = "failing" /\ Settle("failed")
        /\ UNCHANGED <<queue, accepted, interrupted, pushed, prs, agents, patch>>
    BY <1>12 DEF Land
  <2> QED BY <2>1, LastStep
<1>13. CASE Poll
  <2>1. /\ pc = "poll" /\ pc' = "picked" /\ cur' \in queue
        /\ UNCHANGED <<queue, status, accepted, interrupted, patch, agents, pushed, prs>>
    BY <1>13 DEF Poll, Goto
  <2>2. Held = {} /\ Held' = {} /\ Settled' = Settled BY <2>1 DEF Held, Settled
  <2>3. cur' \notin agents
    BY <2>1, <2>2 DEF RunnerInv, LedgerBalances, AgentsAccountedFor, Settled
  <2> QED
    BY <2>1, <2>2, <2>3
       DEF RunnerInv, LedgerBalances, StatusFollowsRunner, OnlyTakenHaveFiles, HasFile,
           OnlyCleanPublished, OutcomeTruthful, PublishedPlaced, AgentsAccountedFor,
           AgentsPlaced
<1>14. CASE Take
  <2>1. /\ pc = "picked" /\ pc' = "taken" /\ queue' = queue \ {cur}
        /\ UNCHANGED <<cur, status, accepted, interrupted, patch, agents, pushed, prs>>
    BY <1>14 DEF Take, Goto, Unlink
  <2>2. Held = {} /\ Held' = {cur} /\ Settled' = Settled /\ cur \in queue
    BY <2>1 DEF Held, Settled, RunnerInv, StatusFollowsRunner
  <2>3. LedgerBalances'
    <3>1. queue \cup Held = (queue \ {cur}) \cup {cur} BY <2>2
    <3>2. cur \notin Settled \cup interrupted BY <2>2 DEF RunnerInv, LedgerBalances
    <3> QED BY <2>1, <2>2, <3>1, <3>2 DEF RunnerInv, LedgerBalances
  <2>4. StatusFollowsRunner'
    BY <2>1, <2>2 DEF RunnerInv, LedgerBalances, OnlyTakenHaveFiles, StatusFollowsRunner, HasFile
  <2>5. AgentsPlaced' BY <2>1, <2>2 DEF RunnerInv, AgentsPlaced
  <2> QED
    BY <2>1, <2>2, <2>3, <2>4, <2>5
       DEF RunnerInv, OnlyTakenHaveFiles, HasFile, OnlyCleanPublished, OutcomeTruthful,
           PublishedPlaced, AgentsAccountedFor
<1>15. CASE Stop \/ Reboot
  <2>1. /\ pc' = "down" /\ cur' = None /\ interrupted' = interrupted \cup Held
        /\ agents' \subseteq agents
        /\ UNCHANGED <<queue, status, accepted, patch, pushed, prs>>
    BY <1>15 DEF Stop, Reboot, Down
  <2>2. Held' = {} /\ Settled' = Settled BY <2>1 DEF Held, Settled
  <2>3. LedgerBalances' BY <2>1, <2>2 DEF RunnerInv, LedgerBalances
  <2>4. PublishedPlaced' BY <2>1, <2>2 DEF RunnerInv, PublishedPlaced, Held
  <2> QED
    BY <2>1, <2>2, <2>3, <2>4
       DEF RunnerInv, StatusFollowsRunner, OnlyTakenHaveFiles, HasFile, OnlyCleanPublished,
           OutcomeTruthful, AgentsAccountedFor, AgentsPlaced
<1>16. CASE Restart
  <2>1. /\ pc = "down" /\ pc' = "poll" /\ Held = {} /\ Held' = {} /\ Settled' = Settled
        /\ UNCHANGED <<queue, cur, status, accepted, interrupted, patch, agents, pushed, prs>>
    BY <1>16 DEF Restart, Goto, Held, Settled
  <2> QED
    BY <2>1 DEF RunnerInv, LedgerBalances, StatusFollowsRunner, OnlyTakenHaveFiles, HasFile,
           OnlyCleanPublished, OutcomeTruthful, PublishedPlaced, AgentsAccountedFor,
           AgentsPlaced
<1>17. CASE OrphanExits
  <2>1. /\ agents' \subseteq agents /\ Held' = Held /\ Settled' = Settled
        /\ UNCHANGED <<queue, pc, cur, status, accepted, interrupted, patch, pushed, prs>>
    BY <1>17 DEF OrphanExits, Held, Settled
  <2> QED
    BY <2>1 DEF RunnerInv, LedgerBalances, StatusFollowsRunner, OnlyTakenHaveFiles, HasFile,
           OnlyCleanPublished, OutcomeTruthful, PublishedPlaced, AgentsAccountedFor,
           AgentsPlaced
<1>18. ASSUME UNCHANGED <<status, runnerVars>>, queue' \ queue = accepted' \ accepted,
              queue \subseteq queue', accepted \subseteq accepted'
       PROVE  RunnerInv'
  <2>1. /\ Held' = Held /\ Settled' = Settled
        /\ UNCHANGED <<pc, cur, status, interrupted, patch, agents, pushed, prs>>
    BY <1>18 DEF Held, Settled, runnerVars
  <2>2. LedgerBalances' BY <1>18, <2>1 DEF RunnerInv, LedgerBalances
  <2> QED
    BY <1>18, <2>1, <2>2 DEF RunnerInv, StatusFollowsRunner, OnlyTakenHaveFiles, HasFile,
           OnlyCleanPublished, OutcomeTruthful, PublishedPlaced, AgentsAccountedFor,
           AgentsPlaced
<1>19. ASSUME NEW s \in Sessions, Dispatch(s) PROVE RunnerInv'
  <2>1. CASE Enqueue(s)
    <3>1. new[s] \notin accepted /\ new[s] \notin queue
      BY <2>1 DEF Enqueue, NewIdsAreFresh, RunnerInv, LedgerBalances
    <3> QED BY <1>18, <2>1, <3>1 DEF Enqueue
  <2> QED
    BY <1>18, <1>19, <2>1 DEF Dispatch, BeginRecent, ScanQueue, BeginStatus, LoadStatus,
       NoStatus, LoadQueue, Admit, Reply
<1>20. CASE UNCHANGED vars BY <1>18, <1>20 DEF vars
<1> QED
  BY <1>1, <1>2, <1>3, <1>4, <1>5, <1>6, <1>7, <1>8, <1>9, <1>10, <1>11, <1>12,
     <1>13, <1>14, <1>15, <1>16, <1>17, <1>19, <1>20 DEF Next, RunnerStep

-----------------------------------------------------------------------------
\* The inductive invariant, for every number of tasks, sessions and stops.
THEOREM Invariance == SafeSpec => []IInv
<1>1. Init => IInv
  <2> SUFFICES ASSUME Init PROVE IInv OBVIOUS
  <2>1. Held = {} /\ Settled = {} BY DEF Init, Held, Settled
  <2>2. TypeOK
    BY TasksAssumption, BoundAssumption DEF Init, TypeOK, SessionSteps, Patches
  <2>3. NewIdsAreFresh BY DEF Init, NewIdsAreFresh
  <2>4. OnlyTakenHaveFiles /\ OutcomeTruthful
    BY DEF Init, OnlyTakenHaveFiles, OutcomeTruthful, HasFile
  <2> QED
    BY <2>1, <2>2, <2>3, <2>4
       DEF Init, IInv, LedgerBalances, StatusFollowsRunner, OnlyCleanPublished,
           PublishedPlaced, AgentsAccountedFor, AgentsPlaced
<1>2. IInv /\ [Next]_vars => IInv'
  BY TypeStep, FreshStep, RunnerInvStep DEF IInv, RunnerInv
<1> QED BY <1>1, <1>2, PTL DEF SafeSpec

\* Every variable keeps its type.
THEOREM TypeCorrect == SafeSpec => []TypeOK
BY Invariance, PTL DEF IInv

\* No accepted task is lost or in two places: exactly one of waiting, in
\* hand, settled, interrupted.
THEOREM LedgerAlwaysBalances == SafeSpec => []LedgerBalances
BY Invariance, PTL DEF IInv

\* Whatever is on GitHub passed the check of the protected paths, and every pull
\* request has its branch there.
THEOREM PublicationSafe == SafeSpec => []OnlyCleanPublished
BY Invariance, PTL DEF IInv

\* A final status is true of GitHub, in whatever step the task failed or the runner
\* was stopped before.
THEOREM EndingsTruthful == SafeSpec => []OutcomeTruthful
BY Invariance, PTL DEF IInv

\* "running" is true, or was true when the runner was stopped.
THEOREM RunningHeld == SafeSpec => []RunningIsHeld
<1>1. IInv => RunningIsHeld
  BY DEF IInv, OnlyTakenHaveFiles, HasFile, RunningIsHeld, Unsettled, Settled
<1> QED BY <1>1, Invariance, PTL

\* A container belongs to the task in hand, an interrupted one or a failed one.
THEOREM AgentsKnown == SafeSpec => []AgentsAccountedFor
BY Invariance, PTL DEF IInv

\* The only status file a step writes is that of the task in hand.
LEMMA StatusStep ==
  ASSUME IInv, [Next]_vars
  PROVE  \/ UNCHANGED status
         \/ pc \in Holding /\ \E st \in Statuses : status' = [status EXCEPT ![cur] = st]
<1>1. CASE RunnerStep
  BY <1>1 DEF RunnerStep, Poll, Take, Begin, Cloned, Launch, AgentFinished, AgentFailed,
     Collect, Apply, Push, OpenPr, Record, StepFails, Land, Settle, WriteStatus, Goto
<1>2. CASE Stop \/ Reboot \/ Restart \/ OrphanExits
  BY <1>2 DEF Stop, Reboot, Restart, OrphanExits, Down
<1>3. ASSUME NEW s \in Sessions, Dispatch(s) PROVE UNCHANGED status
  BY <1>3 DEF Dispatch, BeginRecent, ScanQueue, BeginStatus, LoadStatus, NoStatus,
     LoadQueue, Admit, Enqueue, Reply
<1>4. CASE UNCHANGED vars BY <1>4 DEF vars
<1> QED BY <1>1, <1>2, <1>3, <1>4 DEF Next

\* No task is run a second time: its final status stays.
THEOREM EndingsStay == SafeSpec => FinalIsFinal
<1>1. ASSUME IInv, [Next]_vars
      PROVE  [\A t \in Settled : status'[t] = status[t]]_vars
  <2>1. pc \in Holding => cur \notin Settled
    BY <1>1, InHand DEF IInv, RunnerInv
  <2> QED BY <1>1, <2>1, StatusStep DEF Settled, IInv, TypeOK
<1> QED BY <1>1, Invariance, PTL DEF SafeSpec, FinalIsFinal

-----------------------------------------------------------------------------
(* max_active is passed by one task for each session at most.              *)

\* The tasks the limit is about, and what a start has not seen of those that wait.
Present == queue \cup Held
Unseen(s) == queue \ (active[s] \cup todo[s])

\* The starts that have listed both directories, and those that j tasks overtook.
Looking == {s \in Sessions : op[s] = "start" /\ spc[s] \in {"load", "load queue", "enqueue"}}
Overtaken(j) == {s \in Looking : Cardinality(Unseen(s)) >= j}

\* The id strings sort by time and the runner takes the oldest: as long as what
\* waits is among the StartWindow newest of all ids, no start overlooks it.
WindowCovers == queue \subseteq Newest(accepted, StartWindow)

\* What a session knows are ids that were given out, and it goes on to write its own
\* only after counting less than the limit.
Counting ==
  \A s \in Sessions :
    /\ IsFiniteSet(active[s]) /\ todo[s] \subseteq accepted
    /\ spc[s] = "enqueue" =>
         op[s] = "start" /\ todo[s] = {} /\ Cardinality(active[s]) < MaxActive

\* With j tasks too many, j sessions are no longer among those that j tasks overtook,
\* and only those may still add one.
Crowded ==
  \A j \in Nat \ {0} :
    MaxActive + j <= Cardinality(Present) =>
      Cardinality(Overtaken(j)) + j <= Cardinality(Sessions)

CountInv == IsFiniteSet(accepted) /\ Counting /\ Crowded

\* The newest of a larger set are among the newest of a smaller one.
LEMMA NewestOfFewer ==
  ASSUME NEW B, IsFiniteSet(B), NEW A \in SUBSET B, NEW n \in Nat
  PROVE  Newest(B, n) \cap A \subseteq Newest(A, n)
<1> SUFFICES ASSUME NEW t \in A, t \in Newest(B, n) PROVE t \in Newest(A, n) OBVIOUS
<1> DEFINE Above(S) == {u \in S : u > t}
<1>1. Above(A) \subseteq Above(B) /\ Above(B) \subseteq B OBVIOUS
<1>2. IsFiniteSet(Above(B)) BY <1>1, FS_Subset
<1>3. Cardinality(Above(A)) <= Cardinality(Above(B)) /\ IsFiniteSet(Above(A)) BY <1>1, <1>2, FS_Subset
<1>4. Cardinality(Above(A)) \in Nat /\ Cardinality(Above(B)) \in Nat BY <1>2, <1>3, FS_CardinalityType
<1>5. Cardinality(Above(B)) < n BY DEF Newest
<1>6. Cardinality(Above(A)) < n BY <1>3, <1>4, <1>5
<1> QED BY <1>6 DEF Newest

\* The sets that are counted are finite, and the runner holds one task at most.
Counted ==
  /\ IsFiniteSet(queue) /\ Cardinality(queue) \in Nat
  /\ IsFiniteSet(Present) /\ Cardinality(Present) \in Nat
  /\ Cardinality(Present) <= Cardinality(queue) + 1
  /\ \A s \in Sessions : IsFiniteSet(Unseen(s)) /\ Cardinality(Unseen(s)) \in Nat
  /\ \A j \in Nat : IsFiniteSet(Overtaken(j)) /\ Cardinality(Overtaken(j)) \in Nat
  /\ Cardinality(Sessions) \in Nat

LEMMA Countable == LedgerBalances /\ IsFiniteSet(accepted) => Counted
<1> SUFFICES ASSUME LedgerBalances, IsFiniteSet(accepted) PROVE Counted OBVIOUS
<1>1. queue \subseteq accepted BY DEF LedgerBalances
<1>2. IsFiniteSet(queue) BY <1>1, FS_Subset
<1>3. Present = queue \/ Present = queue \cup {cur} BY DEF Present, Held
<1>4. /\ IsFiniteSet(queue \cup {cur})
      /\ Cardinality(queue \cup {cur}) = Cardinality(queue) \/ Cardinality(queue \cup {cur}) = Cardinality(queue) + 1
  BY <1>2, FS_AddElement
<1>5. Cardinality(queue) \in Nat BY <1>2, FS_CardinalityType
<1>6. /\ IsFiniteSet(Present)
      /\ Cardinality(Present) = Cardinality(queue) \/ Cardinality(Present) = Cardinality(queue) + 1
  BY <1>2, <1>3, <1>4
<1>7. \A s \in Sessions : Unseen(s) \subseteq queue BY DEF Unseen
<1>8. \A j \in Nat : Overtaken(j) \subseteq Sessions BY DEF Overtaken, Looking
<1>9. \A s \in Sessions : IsFiniteSet(Unseen(s)) BY <1>2, <1>7, FS_Subset
<1>10. \A j \in Nat : IsFiniteSet(Overtaken(j)) BY <1>8, SessionsAssumption, FS_Subset
<1>11. /\ \A s \in Sessions : Cardinality(Unseen(s)) \in Nat
       /\ \A j \in Nat : Cardinality(Overtaken(j)) \in Nat
       /\ Cardinality(Sessions) \in Nat
  BY <1>9, <1>10, SessionsAssumption, FS_CardinalityType
<1> QED BY <1>2, <1>5, <1>6, <1>9, <1>10, <1>11 DEF Counted

\* As long as no task comes in and no start loses sight of one, nothing gets worse.
LEMMA NoneComes ==
  ASSUME IInv, IInv', IsFiniteSet(accepted), IsFiniteSet(accepted'), Crowded,
         Present' \subseteq Present,
         \A s \in Looking' : (s \in Looking /\ Unseen(s)' \subseteq Unseen(s)) \/ Unseen(s)' = {}
  PROVE  Crowded'
<1> SUFFICES ASSUME NEW j \in Nat \ {0}, MaxActive + j <= Cardinality(Present')
             PROVE  Cardinality(Overtaken(j)') + j <= Cardinality(Sessions)
  BY DEF Crowded
<1>1. Counted BY Countable DEF IInv
<1>2. (LedgerBalances /\ IsFiniteSet(accepted) => Counted)' BY Countable, PTL
<1>3. Counted' BY <1>2 DEF IInv
<1> USE <1>1, <1>3 DEF Counted
<1>4. Cardinality(Present') <= Cardinality(Present) BY FS_Subset
<1>5. MaxActive + j <= Cardinality(Present) BY <1>4, BoundAssumption
<1>6. Overtaken(j)' \subseteq Overtaken(j)
  <2> SUFFICES ASSUME NEW s \in Overtaken(j)' PROVE s \in Overtaken(j) OBVIOUS
  <2>1. s \in Looking' /\ s \in Sessions /\ Cardinality(Unseen(s)') >= j BY DEF Overtaken, Looking
  <2>2. Unseen(s)' # {} BY <2>1, FS_EmptySet
  <2>3. s \in Looking /\ Unseen(s)' \subseteq Unseen(s) BY <2>1, <2>2
  <2>4. Cardinality(Unseen(s)') <= Cardinality(Unseen(s)) BY <2>1, <2>3, FS_Subset
  <2>5. Cardinality(Unseen(s)) >= j BY <2>1, <2>4
  <2> QED BY <2>3, <2>5 DEF Overtaken
<1>7. Cardinality(Overtaken(j)') <= Cardinality(Overtaken(j)) BY <1>6, FS_Subset
<1>8. Cardinality(Overtaken(j)) + j <= Cardinality(Sessions) BY <1>5 DEF Crowded
<1> QED BY <1>7, <1>8

\* A task comes in: it overtakes the starts that are still looking, and the session
\* that brings it has itself been overtaken by as many as there are too many.
LEMMA OneComes ==
  ASSUME IInv, IInv', IsFiniteSet(accepted), IsFiniteSet(accepted'), Counting, Crowded,
         NEW s \in Sessions, Enqueue(s)
  PROVE  Crowded'
<1> SUFFICES ASSUME NEW j \in Nat \ {0}, MaxActive + j <= Cardinality(Present')
             PROVE  Cardinality(Overtaken(j)') + j <= Cardinality(Sessions)
  BY DEF Crowded
<1>1. Counted BY Countable DEF IInv
<1>2. (LedgerBalances /\ IsFiniteSet(accepted) => Counted)' BY Countable, PTL
<1>3. Counted' BY <1>2 DEF IInv
<1> USE <1>1, <1>3 DEF Counted
<1>4. /\ spc[s] = "enqueue" /\ spc' = [spc EXCEPT ![s] = "reply"]
      /\ queue' = queue \cup {new[s]} /\ Held' = Held /\ UNCHANGED <<op, todo, active>>
  BY DEF Enqueue, Held, runnerVars
<1>5. Present' = Present \cup {new[s]} BY <1>4 DEF Present
<1>6. Cardinality(Present') <= Cardinality(Present) + 1
  <2>1. Cardinality(Present \cup {new[s]}) \in {Cardinality(Present), Cardinality(Present) + 1}
    BY FS_AddElement
  <2> QED BY <1>5, <2>1
<1>7. s \in Looking /\ Looking' = Looking \ {s}
  <2>1. op[s] = "start" BY <1>4 DEF Counting
  <2>2. \A r \in Sessions : spc'[r] = IF r = s THEN "reply" ELSE spc[r] BY <1>4 DEF IInv, TypeOK
  <2>3. s \in Looking BY <1>4, <2>1 DEF Looking
  <2>4. s \notin Looking' BY <2>2 DEF Looking
  <2>5. \A r \in Sessions \ {s} : r \in Looking' <=> r \in Looking BY <1>4, <2>2 DEF Looking
  <2>6. Looking \subseteq Sessions /\ Looking' \subseteq Sessions BY DEF Looking
  <2> QED BY <2>3, <2>4, <2>5, <2>6
\* The session counted less than the limit, and the runner hid one task at most.
<1>8. Cardinality(Present) <= MaxActive + Cardinality(Unseen(s))
  <2>1. todo[s] = {} /\ IsFiniteSet(active[s]) /\ Cardinality(active[s]) < MaxActive
    BY <1>4 DEF Counting
  <2>2. queue \subseteq Unseen(s) \cup active[s] BY <2>1 DEF Unseen
  <2>3. /\ IsFiniteSet(Unseen(s) \cup active[s])
        /\ Cardinality(Unseen(s) \cup active[s])
             = Cardinality(Unseen(s)) + Cardinality(active[s]) - Cardinality(Unseen(s) \cap active[s])
    BY <2>1, FS_Union
  <2>4. /\ Cardinality(active[s]) \in Nat /\ Cardinality(Unseen(s) \cup active[s]) \in Nat
        /\ Cardinality(Unseen(s) \cap active[s]) \in Nat
    BY <2>1, <2>3, FS_Intersection, FS_CardinalityType
  <2>5. Cardinality(queue) <= Cardinality(Unseen(s) \cup active[s]) BY <2>2, <2>3, FS_Subset
  <2> QED BY <2>1, <2>3, <2>4, <2>5, BoundAssumption
<1>9. \A r \in Looking' : Cardinality(Unseen(r)') <= Cardinality(Unseen(r)) + 1
  <2> SUFFICES ASSUME NEW r \in Looking' PROVE Cardinality(Unseen(r)') <= Cardinality(Unseen(r)) + 1
    OBVIOUS
  <2>1. r \in Sessions /\ IsFiniteSet(Unseen(r)) BY DEF Looking
  <2>2. Unseen(r)' \subseteq Unseen(r) \cup {new[s]} BY <1>4 DEF Unseen
  <2>3. /\ IsFiniteSet(Unseen(r) \cup {new[s]})
        /\ Cardinality(Unseen(r) \cup {new[s]}) = Cardinality(Unseen(r))
             \/ Cardinality(Unseen(r) \cup {new[s]}) = Cardinality(Unseen(r)) + 1
    BY <2>1, FS_AddElement
  <2>4. Cardinality(Unseen(r)') <= Cardinality(Unseen(r) \cup {new[s]}) BY <2>2, <2>3, FS_Subset
  <2> QED BY <2>1, <2>3, <2>4
<1>10. CASE j = 1
  <2>1. Overtaken(j)' \subseteq Sessions \ {s} BY <1>7 DEF Overtaken, Looking
  <2>2. IsFiniteSet(Sessions \ {s}) /\ Cardinality(Sessions \ {s}) = Cardinality(Sessions) - 1
    BY SessionsAssumption, FS_RemoveElement
  <2>3. Cardinality(Overtaken(j)') <= Cardinality(Sessions \ {s}) BY <2>1, <2>2, FS_Subset
  <2> QED BY <1>10, <2>2, <2>3
<1>11. CASE j # 1
  <2>1. PICK i \in Nat \ {0} : j = i + 1
    <3>1. j - 1 \in Nat \ {0} /\ j = (j - 1) + 1 BY <1>11
    <3> QED BY <3>1
  <2>2. MaxActive + i <= Cardinality(Present) BY <1>6, <2>1, BoundAssumption
  <2>3. Cardinality(Overtaken(i)) + i <= Cardinality(Sessions) BY <2>2 DEF Crowded
  <2>4. s \in Overtaken(i)
    <3>1. Cardinality(Unseen(s)) >= i BY <1>8, <2>2, BoundAssumption
    <3> QED BY <1>7, <3>1 DEF Overtaken
  <2>5. Overtaken(j)' \subseteq Overtaken(i) \ {s}
    <3> SUFFICES ASSUME NEW r \in Overtaken(j)' PROVE r \in Overtaken(i) \ {s} OBVIOUS
    <3>1. r \in Looking' /\ Cardinality(Unseen(r)') >= j BY DEF Overtaken
    <3>2. r \in Looking /\ r # s /\ r \in Sessions BY <1>7, <3>1 DEF Looking
    <3>3. Cardinality(Unseen(r)) >= i BY <1>9, <2>1, <3>1, <3>2
    <3> QED BY <3>2, <3>3 DEF Overtaken
  <2>6. /\ IsFiniteSet(Overtaken(i) \ {s})
        /\ Cardinality(Overtaken(i) \ {s}) = Cardinality(Overtaken(i)) - 1
    BY <2>4, FS_RemoveElement
  <2>7. Cardinality(Overtaken(j)') <= Cardinality(Overtaken(i) \ {s}) BY <2>5, <2>6, FS_Subset
  <2> QED BY <2>1, <2>3, <2>6, <2>7
<1> QED BY <1>10, <1>11

\* A start lists what waits, and loses sight of none of it until it has read the
\* status file of a task or found it in neither directory.
LEMMA CrowdStep ==
  ASSUME IInv, IInv', IsFiniteSet(accepted), IsFiniteSet(accepted'), Counting, Crowded, WindowCovers,
         [Next]_vars
  PROVE  Crowded'
<1> USE DEF TypeOK
<1>t. TypeOK BY DEF IInv
<1>1. ASSUME NEW s \in Sessions, Enqueue(s) PROVE Crowded' BY <1>1, OneComes
<1>2. ASSUME Present' \subseteq Present, queue' \subseteq queue, UNCHANGED sessionVars PROVE Crowded'
  <2>1. Looking' = Looking /\ \A s \in Sessions : Unseen(s)' \subseteq Unseen(s)
    BY <1>2 DEF Looking, Unseen, sessionVars
  <2>2. Looking \subseteq Sessions BY DEF Looking
  <2> QED BY <1>2, <2>1, <2>2, NoneComes
<1>3. CASE RunnerStep \/ Stop \/ Restart \/ OrphanExits
  <2>1. UNCHANGED sessionVars
    BY <1>3 DEF RunnerStep, Poll, Take, Begin, Cloned, Launch, AgentFinished, AgentFailed, Collect, Apply,
       Push, OpenPr, Record, StepFails, Land, Stop, Restart, OrphanExits
  <2>2. queue' \subseteq queue
    BY <1>3 DEF RunnerStep, Poll, Take, Unlink, Begin, Cloned, Launch, AgentFinished, AgentFailed, Collect,
       Apply, Push, OpenPr, Record, StepFails, Land, Stop, Restart, OrphanExits, Down
  <2>4. Held' \subseteq Present
    <3>1. CASE Poll BY <3>1 DEF Poll, Goto, Held, Present
    <3>2. CASE Take
      <4>1. pc = "picked" /\ cur' = cur BY <3>2 DEF Take, Goto
      <4>2. cur \in queue BY <4>1 DEF IInv, StatusFollowsRunner
      <4> QED BY <4>1, <4>2 DEF Held, Present
    <3>3. CASE Begin \/ Cloned \/ Launch \/ AgentFinished \/ AgentFailed \/ Apply \/ Push \/ OpenPr \/ StepFails
      <4>1. pc \in Holding /\ cur' = cur
        BY <3>3 DEF Begin, Cloned, Launch, AgentFinished, AgentFailed, Apply, Push, OpenPr, StepFails, Goto
      <4> QED BY <4>1 DEF Held, Present
    <3>4. CASE Collect \/ Record \/ Land
      <4>1. pc \in Holding /\ (cur' = cur \/ pc' = "poll")
        BY <3>4 DEF Collect, Record, Land, Settle
      <4> QED BY <4>1 DEF Held, Present
    <3>5. CASE Stop \/ Restart
      <4>1. pc' \in {"down", "poll"} BY <3>5 DEF Stop, Down, Restart, Goto
      <4> QED BY <4>1 DEF Held
    <3>6. CASE OrphanExits BY <3>6 DEF OrphanExits, Held, Present
    <3> QED BY <1>3, <3>1, <3>2, <3>3, <3>4, <3>5, <3>6 DEF RunnerStep
  <2> QED BY <1>2, <2>1, <2>2, <2>4 DEF Present
<1>4. CASE Reboot
  <2>1. Looking' = {} BY <1>4 DEF Reboot, Looking
  <2>2. Present' \subseteq Present BY <1>4 DEF Reboot, Down, Present, Held
  <2> QED BY <2>1, <2>2, NoneComes
<1>5. ASSUME NEW s \in Sessions, UNCHANGED <<queue, runnerVars>>,
             \A r \in Sessions \ {s} : r \in Looking' => r \in Looking /\ Unseen(r)' = Unseen(r),
             s \in Looking' => (s \in Looking /\ Unseen(s)' \subseteq Unseen(s)) \/ Unseen(s)' = {}
      PROVE  Crowded'
  <2>1. Present' = Present BY <1>5 DEF Present, Held, runnerVars
  <2>2. Looking' \subseteq Sessions BY DEF Looking
  <2> QED BY <1>5, <2>1, <2>2, NoneComes
<1>6. ASSUME NEW s \in Sessions, Dispatch(s), ~Enqueue(s) PROVE Crowded'
  <2>1. UNCHANGED <<queue, runnerVars>>
    BY <1>6 DEF Dispatch, BeginRecent, ScanQueue, BeginStatus, LoadStatus, NoStatus, LoadQueue, Admit, Reply
  <2>2. \A r \in Sessions \ {s} : /\ spc'[r] = spc[r] /\ op'[r] = op[r]
                                  /\ todo'[r] = todo[r] /\ active'[r] = active[r]
    BY <1>6, <1>t DEF Dispatch, BeginRecent, ScanQueue, BeginStatus, LoadStatus, NoStatus, LoadQueue, Admit,
       Reply, EndSession
  <2>3. \A r \in Sessions \ {s} : r \in Looking' => r \in Looking /\ Unseen(r)' = Unseen(r)
    BY <2>1, <2>2 DEF Looking, Unseen
  <2>4. ASSUME s \in Looking' PROVE (s \in Looking /\ Unseen(s)' \subseteq Unseen(s)) \/ Unseen(s)' = {}
    <3>0. op'[s] = "start" /\ spc'[s] \in {"load", "load queue", "enqueue"} BY <2>4 DEF Looking
    <3>1. CASE BeginRecent(s) \/ BeginStatus(s) \/ Reply(s)
      BY <1>t, <3>0, <3>1 DEF BeginRecent, BeginStatus, Reply, EndSession
    <3>2. CASE ScanQueue(s)
      <4>1. queue' = queue /\ todo'[s] = Newest(todo[s] \cup queue, StartWindow)
        BY <1>t, <3>0, <3>2 DEF ScanQueue, WindowOf
      <4>2. todo[s] \cup queue \subseteq accepted BY DEF Counting, IInv, LedgerBalances
      <4>3. Newest(accepted, StartWindow) \cap (todo[s] \cup queue) \subseteq Newest(todo[s] \cup queue, StartWindow)
        BY <4>2, NewestOfFewer, BoundAssumption
      <4>4. queue \subseteq todo'[s] BY <4>1, <4>3 DEF WindowCovers
      <4> QED BY <4>1, <4>4 DEF Unseen
    <3>3. CASE LoadStatus(s)
      <4>1. PICK t \in Tasks : /\ HasFile(t) /\ todo'[s] = todo[s] \ {t}
                               /\ active'[s] = active[s] \cup ({t} \cap Unsettled)
        BY <1>t, <3>3 DEF LoadStatus
      <4>2. t \notin queue BY <4>1 DEF IInv, OnlyTakenHaveFiles, LedgerBalances
      <4>3. s \in Looking BY <1>t, <3>0, <3>3 DEF LoadStatus, Looking
      <4> QED BY <2>1, <4>1, <4>2, <4>3 DEF Unseen
    <3>4. CASE LoadQueue(s)
      <4>1. PICK t \in Tasks : /\ todo'[s] = todo[s] \ {t}
                               /\ active'[s] = active[s] \cup ({t} \cap queue)
        BY <1>t, <3>4 DEF LoadQueue
      <4>2. s \in Looking BY <1>t, <3>0, <3>4 DEF LoadQueue, Looking
      <4> QED BY <2>1, <4>1, <4>2 DEF Unseen
    <3>5. CASE NoStatus(s) \/ Admit(s)
      <4>1. s \in Looking BY <3>0, <3>5 DEF NoStatus, Admit, LoadedAll, Looking
      <4>2. UNCHANGED <<queue, todo, active>> BY <3>5 DEF NoStatus, Admit
      <4> QED BY <4>1, <4>2 DEF Unseen
    <3> QED BY <1>6, <3>1, <3>2, <3>3, <3>4, <3>5 DEF Dispatch
  <2> QED BY <1>5, <2>1, <2>3, <2>4
<1>7. CASE UNCHANGED vars
  <2>1. UNCHANGED <<queue, pc, cur, sessionVars>> BY <1>7 DEF vars, runnerVars
  <2>2. Present' = Present BY <2>1 DEF Present, Held
  <2> QED BY <1>2, <2>1, <2>2
<1> QED BY <1>1, <1>3, <1>4, <1>6, <1>7 DEF Next

\* A session reads ids that were given out, and writes its own only below the limit.
LEMMA CountingStep ==
  ASSUME IInv, IsFiniteSet(accepted), Counting, [Next]_vars
  PROVE  IsFiniteSet(accepted') /\ Counting'
<1> USE DEF TypeOK
<1>t. TypeOK BY DEF IInv
<1>1. ASSUME UNCHANGED <<accepted, sessionVars>> PROVE IsFiniteSet(accepted') /\ Counting'
  BY <1>1 DEF Counting, sessionVars
<1>2. CASE RunnerStep \/ Stop \/ Restart \/ OrphanExits
  BY <1>1, <1>2 DEF RunnerStep, Poll, Take, Begin, Cloned, Launch, AgentFinished, AgentFailed, Collect, Apply,
     Push, OpenPr, Record, StepFails, Land, Stop, Restart, OrphanExits, Down
<1>3. CASE Reboot BY <1>3, FS_EmptySet DEF Reboot, Down, Counting
<1>4. CASE UNCHANGED vars BY <1>1, <1>4 DEF vars
<1>5. ASSUME NEW s \in Sessions, Dispatch(s) PROVE IsFiniteSet(accepted') /\ Counting'
  <2>1. accepted \subseteq accepted' /\ IsFiniteSet(accepted')
    <3>1. accepted' = accepted \/ accepted' = accepted \cup {new[s]}
      BY <1>5 DEF Dispatch, BeginRecent, ScanQueue, BeginStatus, LoadStatus, NoStatus, LoadQueue, Admit,
         Enqueue, Reply
    <3>2. IsFiniteSet(accepted \cup {new[s]}) BY FS_AddElement
    <3> QED BY <3>1, <3>2
  <2>2. \A r \in Sessions \ {s} : /\ spc'[r] = spc[r] /\ op'[r] = op[r]
                                  /\ todo'[r] = todo[r] /\ active'[r] = active[r]
    BY <1>5, <1>t DEF Dispatch, BeginRecent, ScanQueue, BeginStatus, LoadStatus, NoStatus, LoadQueue, Admit,
       Enqueue, Reply, EndSession
  <2>3. /\ IsFiniteSet(active'[s]) /\ todo'[s] \subseteq accepted
        /\ spc'[s] = "enqueue" =>
             op'[s] = "start" /\ todo'[s] = {} /\ Cardinality(active'[s]) < MaxActive
    <3>0. IsFiniteSet(active[s]) /\ todo[s] \subseteq accepted BY DEF Counting
    <3>1. CASE BeginRecent(s)
      <4>1. \A t \in Tasks : HasFile(t) => t \in accepted
        BY DEF IInv, OnlyTakenHaveFiles, LedgerBalances
      <4>2. todo'[s] = {t \in Tasks : HasFile(t)} /\ active' = active /\ spc'[s] = "scan queue"
        BY <1>t, <3>1 DEF BeginRecent
      <4> QED BY <3>0, <4>1, <4>2
    <3>2. CASE ScanQueue(s)
      <4>1. todo'[s] \subseteq todo[s] \cup queue /\ active' = active /\ spc'[s] = "load"
        BY <1>t, <3>2 DEF ScanQueue, Newest
      <4> QED BY <3>0, <4>1 DEF IInv, LedgerBalances
    <3>3. CASE BeginStatus(s)
      <4>1. PICK t \in accepted : todo' = [todo EXCEPT ![s] = {t}] BY <3>3 DEF BeginStatus
      <4>2. todo'[s] = {t} /\ active' = active /\ spc'[s] = "load" BY <1>t, <3>3, <4>1 DEF BeginStatus
      <4> QED BY <3>0, <4>1, <4>2
    <3>4. CASE LoadStatus(s) \/ LoadQueue(s)
      <4>1. PICK t \in Tasks : /\ todo'[s] = todo[s] \ {t}
                               /\ active'[s] = active[s] \/ active'[s] = active[s] \cup {t}
        <5>1. CASE LoadStatus(s)
          <6>1. PICK t \in Tasks : /\ todo'[s] = todo[s] \ {t}
                                   /\ active'[s] = active[s] \cup ({t} \cap Unsettled)
            BY <1>t, <5>1 DEF LoadStatus
          <6> QED BY <6>1
        <5>2. CASE LoadQueue(s)
          <6>1. PICK t \in Tasks : /\ todo'[s] = todo[s] \ {t}
                                   /\ active'[s] = active[s] \cup ({t} \cap queue)
            BY <1>t, <5>2 DEF LoadQueue
          <6> QED BY <6>1
        <5> QED BY <3>4, <5>1, <5>2
      <4>2. IsFiniteSet(active[s] \cup {t}) BY <3>0, FS_AddElement
      <4>3. spc'[s] = "load" BY <1>t, <3>4 DEF LoadStatus, LoadQueue
      <4> QED BY <3>0, <4>1, <4>2, <4>3
    <3>5. CASE NoStatus(s) \/ Enqueue(s)
      <4>1. UNCHANGED <<todo, active>> /\ spc'[s] \in {"load queue", "reply"}
        BY <1>t, <3>5 DEF NoStatus, Enqueue
      <4> QED BY <3>0, <4>1
    <3>6. CASE Admit(s)
      <4>1. /\ todo[s] = {} /\ op[s] = "start" /\ ~ (Cardinality(active[s]) >= MaxActive)
            /\ UNCHANGED <<op, todo, active>>
        BY <3>6 DEF Admit, LoadedAll, Full
      <4>2. Cardinality(active[s]) < MaxActive BY <3>0, <4>1, FS_CardinalityType, BoundAssumption
      <4> QED BY <3>0, <4>1, <4>2
    <3>7. CASE Reply(s)
      <4>1. todo'[s] = {} /\ active'[s] = {} /\ spc'[s] = "idle" BY <1>t, <3>7 DEF Reply, EndSession
      <4> QED BY <4>1, FS_EmptySet
    <3> QED BY <1>5, <3>1, <3>2, <3>3, <3>4, <3>5, <3>6, <3>7 DEF Dispatch
  <2> QED BY <2>1, <2>2, <2>3 DEF Counting
<1> QED BY <1>2, <1>3, <1>4, <1>5 DEF Next

\* max_active is passed by one task for each dispatch session at most, however the
\* sessions and the runner interleave and whenever the host goes down, as long as
\* what waits is among the newest ids a start looks at (dispatch.py:65-77).
THEOREM LimitPassedByOneEach == SafeSpec /\ []WindowCovers => []CapacityOvershoot
<1>1. Init => CountInv
  <2> SUFFICES ASSUME Init PROVE CountInv OBVIOUS
  <2>1. Present = {} /\ Cardinality(Present) = 0 /\ IsFiniteSet(accepted)
    BY FS_EmptySet DEF Init, Present, Held
  <2>2. Counting BY FS_EmptySet DEF Init, Counting
  <2>3. Crowded BY <2>1, BoundAssumption DEF Crowded
  <2> QED BY <2>1, <2>2, <2>3 DEF CountInv
<1>2. IInv /\ IInv' /\ CountInv /\ WindowCovers /\ [Next]_vars => CountInv'
  BY CountingStep, CrowdStep DEF CountInv
<1>3. IInv /\ CountInv => CapacityOvershoot
  <2> SUFFICES ASSUME IInv, CountInv, ~CapacityOvershoot PROVE FALSE OBVIOUS
  <2>1. Counted BY Countable DEF IInv, CountInv
  <2> USE <2>1 DEF Counted
  <2>2. ~ (Cardinality(Present) <= MaxActive + Cardinality(Sessions)) BY DEF CapacityOvershoot, Present
  <2>3. PICK j \in Nat \ {0} : Cardinality(Present) = MaxActive + j /\ j > Cardinality(Sessions)
    <3> DEFINE j == Cardinality(Present) - MaxActive
    <3>1. j \in Nat \ {0} /\ Cardinality(Present) = MaxActive + j /\ j > Cardinality(Sessions)
      BY <2>2, BoundAssumption
    <3> QED BY <3>1
  <2>4. Cardinality(Overtaken(j)) + j <= Cardinality(Sessions)
    BY <2>3, BoundAssumption DEF CountInv, Crowded
  <2> QED BY <2>3, <2>4
<1> QED BY <1>1, <1>2, <1>3, Invariance, PTL DEF SafeSpec

\* In particular while there are no more ids than a start looks at.
THEOREM FewTasksLimit ==
  ASSUME IsFiniteSet(Tasks), Cardinality(Tasks) <= StartWindow
  PROVE  SafeSpec => []CapacityOvershoot
<1>1. TypeOK /\ LedgerBalances => WindowCovers
  <2> SUFFICES ASSUME TypeOK, LedgerBalances, NEW t \in queue PROVE t \in Newest(accepted, StartWindow)
    BY DEF WindowCovers
  <2> DEFINE Above == {u \in accepted : u > t}
  <2>1. t \in Tasks /\ t \in accepted /\ Above \subseteq Tasks \ {t}
    <3>1. accepted \subseteq Tasks /\ t \in accepted BY DEF TypeOK, LedgerBalances
    <3>2. t \in Nat /\ ~ (t > t) BY <3>1, TasksAssumption
    <3> QED BY <3>1, <3>2
  <2>2. IsFiniteSet(Tasks \ {t}) /\ Cardinality(Tasks \ {t}) = Cardinality(Tasks) - 1
    BY <2>1, FS_RemoveElement
  <2>3. Cardinality(Above) <= Cardinality(Tasks \ {t}) /\ IsFiniteSet(Above) BY <2>1, <2>2, FS_Subset
  <2>4. Cardinality(Above) \in Nat /\ Cardinality(Tasks) \in Nat BY <2>3, FS_CardinalityType
  <2>5. Cardinality(Above) < StartWindow BY <2>2, <2>3, <2>4, BoundAssumption
  <2> QED BY <2>1, <2>5 DEF Newest
<1>2. IInv => WindowCovers BY <1>1 DEF IInv
<1> QED BY <1>2, Invariance, LimitPassedByOneEach, PTL

-----------------------------------------------------------------------------
(* The worker implements the ledger of VoiceTasks (its safety part).       *)

\* A step that leaves every task where it is, is a stutter of the ledger.
LEMMA Stutter ==
  ASSUME Held' = Held, UNCHANGED <<queue, interrupted, pushed>>,
         \A t \in Tasks : EndingOf(status[t])' = EndingOf(status[t]) \/ t \in Held
  PROVE  UNCHANGED Ledger!vars
<1>1. \A t \in Tasks : PhaseOf(t)' = PhaseOf(t) BY DEF PhaseOf
<1> QED BY <1>1 DEF phaseBar, Ledger!vars

\* A step that moves the one task t from phase a to phase b.
LEMMA OneMoves ==
  ASSUME NEW t \in Tasks, NEW a, NEW b, PhaseOf(t) = a, PhaseOf(t)' = b,
         \A u \in Tasks \ {t} : PhaseOf(u)' = PhaseOf(u)
  PROVE  Ledger!Become(t, a, b)
<1>1. phaseBar[t] = a BY DEF phaseBar
<1>2. phaseBar' = [phaseBar EXCEPT ![t] = b] BY DEF phaseBar
<1> QED BY <1>1, <1>2 DEF Ledger!Become

\* Every step of the dispatcher and of the runner is a step of the ledger or
\* leaves it alone.
LEMMA LedgerStep == ASSUME IInv, [Next]_vars PROVE [Ledger!Next]_Ledger!vars
<1> USE TasksAssumption DEF IInv, TypeOK
<1>i. RunnerInv BY DEF RunnerInv
<1>1. ASSUME NEW s \in Sessions, Enqueue(s) PROVE Ledger!Next
  <2>1. PICK t \in Tasks :
          /\ t \notin accepted /\ queue' = queue \cup {t} /\ Held' = Held
          /\ UNCHANGED <<status, interrupted, pushed>>
    BY <1>1 DEF Enqueue, NewIdsAreFresh, runnerVars, Held
  <2>2. PhaseOf(t) = "unknown"
    BY <2>1 DEF PhaseOf, EndingOf, LedgerBalances, Settled
  <2>3. PhaseOf(t)' = "queued" BY <2>1 DEF PhaseOf
  <2>4. \A u \in Tasks \ {t} : PhaseOf(u)' = PhaseOf(u) BY <2>1 DEF PhaseOf
  <2>5. Ledger!Accept(t) BY <2>1, <2>2, <2>3, <2>4, OneMoves DEF Ledger!Accept
  <2> QED BY <2>5 DEF Ledger!Next
<1>2. CASE Take
  <2>1. PICK t \in Tasks :
          /\ t \in queue /\ Held = {} /\ Held' = {t}
          /\ queue' = queue \ {t} /\ UNCHANGED <<status, interrupted, pushed>>
    BY <1>2 DEF Take, Goto, Unlink, Held, StatusFollowsRunner
  <2>2. PhaseOf(t) = "queued" BY <2>1 DEF PhaseOf
  <2>3. PhaseOf(t)' = "working" BY <2>1 DEF PhaseOf
  <2>4. \A u \in Tasks \ {t} : PhaseOf(u)' = PhaseOf(u) BY <2>1 DEF PhaseOf
  <2>5. \A u \in Tasks : phaseBar[u] # "working"
    BY <2>1 DEF phaseBar, PhaseOf, EndingOf
  <2>6. Ledger!Start(t) BY <2>1, <2>2, <2>3, <2>4, <2>5, OneMoves DEF Ledger!Start
  <2> QED BY <2>6 DEF Ledger!Next
<1>3. ASSUME pc \in Holding
      PROVE  \E t \in Tasks : /\ cur = t /\ Held = {t}
                              /\ t \notin queue /\ t \notin interrupted
                              /\ PhaseOf(t) = "working" /\ phaseBar[t] = "working"
  BY <1>3, <1>i, InHand DEF PhaseOf, phaseBar
<1>4. CASE Push
  <2>1. PICK t \in Tasks : /\ pushed' = pushed \cup {t} /\ Held = {t} /\ Held' = {t}
                           /\ phaseBar[t] = "working"
                           /\ UNCHANGED <<queue, status, interrupted>>
    BY <1>3, <1>4 DEF Push, Held
  <2>2. \A u \in Tasks : PhaseOf(u)' = PhaseOf(u) BY <2>1 DEF PhaseOf
  <2>3. phaseBar' = phaseBar BY <2>2 DEF phaseBar
  <2>4. Ledger!Publish(t) BY <2>1, <2>3 DEF Ledger!Publish
  <2> QED BY <2>4 DEF Ledger!Next
<1>5. ASSUME pc \in Holding, NEW st \in Terminal, Settle(st),
             UNCHANGED <<queue, interrupted, pushed>>,
             st = "pr opened" => cur \in pushed, st = "no changes" => cur \notin pushed
      PROVE  Ledger!Next
  <2>1. PICK t \in Tasks : /\ cur = t /\ Held = {t} /\ Held' = {}
                           /\ t \notin queue /\ t \notin interrupted
                           /\ PhaseOf(t) = "working"
                           /\ status' = [status EXCEPT ![t] = st]
    BY <1>3, <1>5 DEF Settle, WriteStatus, Held
  <2>2. PhaseOf(t)' = EndingOf(st) BY <1>5, <2>1 DEF PhaseOf
  <2>3. \A u \in Tasks \ {t} : PhaseOf(u)' = PhaseOf(u) BY <1>5, <2>1 DEF PhaseOf
  <2>4. Ledger!Become(t, "working", EndingOf(st)) BY <2>1, <2>2, <2>3, OneMoves
  <2>5. /\ EndingOf(st) \in {"pull request", "no change", "failed"}
        /\ EndingOf(st) = "pull request" => st = "pr opened"
        /\ EndingOf(st) = "no change" => st = "no changes"
    BY DEF EndingOf
  <2>6. Ledger!End(t) BY <1>5, <2>1, <2>4, <2>5 DEF Ledger!End, Ledger!Endings
  <2> QED BY <2>6 DEF Ledger!Next
<1>6. ASSUME Held' = Held, UNCHANGED <<queue, interrupted, pushed>>,
             status' = status \/ (pc \in Holding /\ \E st \in Statuses : WriteStatus(st))
      PROVE  UNCHANGED Ledger!vars
  <2>1. \A t \in Tasks : (status[t])' = status[t] \/ t \in Held
    BY <1>6, <1>3 DEF WriteStatus
  <2> QED BY <1>6, <2>1, Stutter DEF EndingOf
<1>7. CASE Record
  <2>1. prs \subseteq pushed /\ cur \in prs
    BY <1>7 DEF Record, OnlyCleanPublished, PublishedPlaced
  <2> QED BY <1>5, <1>7, <2>1 DEF Record
<1>8. CASE Land BY <1>5, <1>8 DEF Land
<1>9. CASE Collect
  <2>1. pc = "collecting" /\ cur \notin pushed
    BY <1>9, <1>i, InHand DEF Collect
  <2>2. CASE patch[cur] = "empty" BY <1>5, <1>9, <2>1, <2>2 DEF Collect
  <2>3. CASE patch[cur] # "empty" BY <1>6, <1>9, <2>1, <2>3 DEF Collect, Held
  <2> QED BY <2>2, <2>3
<1>10. CASE Begin \/ Cloned \/ Launch \/ AgentFinished \/ AgentFailed \/ Apply
            \/ OpenPr \/ StepFails \/ Poll \/ Restart \/ OrphanExits
  <2>1. Held' = Held
    BY <1>10 DEF Held, Begin, Cloned, Launch, AgentFinished, AgentFailed, Apply, OpenPr,
       StepFails, Poll, Restart, OrphanExits, Goto
  <2>2. UNCHANGED <<queue, interrupted, pushed>>
    BY <1>10 DEF Begin, Cloned, Launch, AgentFinished, AgentFailed, Apply, OpenPr,
       StepFails, Poll, Restart, OrphanExits
  <2>3. status' = status \/ (pc \in Holding /\ \E st \in Statuses : WriteStatus(st))
    BY <1>10 DEF Begin, Cloned, Launch, AgentFinished, AgentFailed, Apply, OpenPr,
       StepFails, Poll, Restart, OrphanExits, Goto
  <2> QED BY <1>6, <2>1, <2>2, <2>3
<1>11. CASE Stop \/ Reboot
  <2>1. /\ pc' = "down" /\ cur' = None /\ interrupted' = interrupted \cup Held
        /\ Held' = {} /\ UNCHANGED <<queue, status, pushed>>
    BY <1>11 DEF Stop, Reboot, Down, Held
  <2>2. CASE pc \in Holding
    <3>1. PICK t \in Tasks : /\ Held = {t} /\ t \notin queue
                             /\ PhaseOf(t) = "working"
      BY <1>3, <2>2
    <3>2. PhaseOf(t)' = "lost" BY <2>1, <3>1 DEF PhaseOf
    <3>3. \A u \in Tasks \ {t} : PhaseOf(u)' = PhaseOf(u) BY <2>1, <3>1 DEF PhaseOf
    <3>4. Ledger!End(t)
      BY <2>1, <3>1, <3>2, <3>3, OneMoves DEF Ledger!End, Ledger!Endings
    <3> QED BY <3>4 DEF Ledger!Next
  <2>3. CASE pc \notin Holding
    <3>1. Held = {} BY <2>3 DEF Held
    <3> QED BY <1>6, <2>1, <3>1
  <2> QED BY <2>2, <2>3
<1>12. ASSUME NEW s \in Sessions, Dispatch(s) PROVE [Ledger!Next]_Ledger!vars
  <2>1. CASE Enqueue(s) BY <1>1, <2>1
  <2>2. CASE UNCHANGED <<queue, status, accepted, runnerVars>>
    BY <1>6, <2>2 DEF Held, runnerVars
  <2> QED
    BY <1>12, <2>1, <2>2 DEF Dispatch, BeginRecent, ScanQueue, BeginStatus, LoadStatus,
       NoStatus, LoadQueue, Admit, Reply
<1>13. CASE UNCHANGED vars BY <1>6, <1>13 DEF vars, runnerVars, Held
<1> QED
  BY <1>2, <1>4, <1>7, <1>8, <1>9, <1>10, <1>11, <1>12, <1>13 DEF Next, RunnerStep

\* dispatch.py and runner.py together are the ledger: one task at a time,
\* published only while worked on, ended once.
THEOREM Implementation == SafeSpec => Ledger!SafeSpec
<1>1. Init => Ledger!Init
  BY DEF Init, Ledger!Init, phaseBar, PhaseOf, EndingOf, Held
<1> QED BY <1>1, LedgerStep, Invariance, PTL DEF SafeSpec, Ledger!SafeSpec

=============================================================================
