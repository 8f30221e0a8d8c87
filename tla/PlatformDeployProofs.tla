------------------------ MODULE PlatformDeployProofs ------------------------
(* Theorems about PlatformDeploy, for any number of runs of any kinds, any  *)
(* pushes and requests, and any number of give-ups and re-runs.             *)
EXTENDS PlatformDeploy, FiniteSetTheorems, TLAPS

Types ==
  /\ head \in Nat
  /\ touched \in [Runs -> SUBSET Parts]
  /\ kind \in [Runs -> Kinds \cup {"none"}]
  /\ commit \in [Runs -> Nat]
  /\ scope \in [Runs -> SUBSET Work]
  /\ state \in [Runs -> States]
  /\ todo \in [Runs -> SUBSET Work]
  /\ hub \subseteq Runs \X Work
  /\ outcome \in [Runs -> {"none", "Success", "Failed"}]
  /\ live \in [Parts -> Nat]
  /\ giveups \in Nat /\ reruns \in Nat

\* The group: one run holds it, one waits for it.
OneEach ==
  /\ \A r, s \in Runs : state[r] \in Holding /\ state[s] \in Holding => r = s
  /\ \A r, s \in Runs : state[r] = "pending" /\ state[s] = "pending" => r = s

\* A run that has not begun has everything still to do.
NotBegun ==
  \A r \in Runs : state[r] \in {"pending", "waiting"} => todo[r] = scope[r]

\* The patient: a command on the hub is the one its run polls for.
CommandsAwaited ==
  Patient => \A r \in Runs, w \in Work : <<r, w>> \in hub =>
    state[r] = "polling" /\ outcome[r] = "none" /\ IsNext(r, w)

\* What a run has no longer to do is live from its commit, and so is what its
\* last command succeeded in.
DoneSoFar ==
  Patient => \A r \in Runs : state[r] \in {"running", "polling"} =>
    /\ \A p \in Parts : p \in scope[r] /\ p \notin todo[r] => live[p] = commit[r]
    /\ state[r] = "polling" /\ outcome[r] = "Success" =>
         \A p \in Parts : IsNext(r, p) => live[p] = commit[r]

\* Nothing that is live is newer than what is still to come, unless an old run
\* was run again.
NewerLast ==
  /\ \A r \in Runs : commit[r] <= head
  /\ Patient /\ reruns = 0 =>
       /\ \A p \in Parts : live[p] <= head
       /\ \A r \in Runs, p \in Parts : state[r] \in Holding \cup {"pending"} => live[p] <= commit[r]
       /\ \A r, s \in Runs : state[r] \in Holding /\ state[s] = "pending" => commit[r] <= commit[s]

PInv == Types /\ OneEach /\ NotBegun /\ CommandsAwaited /\ DoneSoFar /\ NewerLast

USE RunsAssumption, KindsAssumption, TouchesAssumption, TargetsAssumption, AskedAssumption, BoundAssumption

-----------------------------------------------------------------------------
(* Lemmas                                                                  *)

\* The parts have their places, and no two the same.
LEMMA Places ==
  /\ \A w \in Work : Place[w] \in Nat
  /\ \A v, w \in Work : Place[v] = Place[w] => v = w
BY DEF Place, Work, Parts

\* There is one next step at most, and the parts before it are done.
LEMMA NextIsOne ==
  ASSUME Types, NEW r \in Runs
  PROVE  /\ \A v, w \in Work : IsNext(r, v) /\ IsNext(r, w) => v = w
         /\ \A p, w \in Work : IsNext(r, w) /\ Place[p] < Place[w] => p \notin todo[r]
BY Places DEF IsNext, Types

\* What the group does with a run that comes, or comes again: it holds the group
\* when nobody does, and waits in the place of whoever waited otherwise.
LEMMA Arrives ==
  ASSUME Types, OneEach, NEW r \in Runs, NEW k, state[r] \in {"none", "failed", "cancelled"}, Enqueue(r, k)
  PROVE  /\ state' \in [Runs -> States]
         /\ OneEach'
         /\ state'[r] \in {"waiting", "running", "pending"}
         /\ state'[r] # "pending" => \A s \in Runs : state[s] \notin Holding /\ state[s] # "pending"
         /\ \A s \in Runs : s # r =>
              \/ state'[s] = state[s] /\ (state'[r] = "pending" => state[s] # "pending")
              \/ state'[s] = "cancelled" /\ state[s] = "pending"
<1> USE DEF Types, OneEach, Holding, States, Ended
<1>1. CASE Holders = {}
  <2>1. \A s \in Runs : state[s] \notin Holding /\ state[s] # "pending"
    BY <1>1 DEF Enqueue, Holders, Pending
  <2>2. state' = [state EXCEPT ![r] = FirstState(k)] BY <1>1 DEF Enqueue
  <2>3. FirstState(k) \in {"waiting", "running"} BY DEF FirstState
  <2> QED BY <2>1, <2>2, <2>3
<1>2. CASE Holders # {}
  <2>1. state' = [s \in Runs |-> IF s = r THEN "pending"
                                 ELSE IF s \in Pending THEN "cancelled"
                                 ELSE state[s]]
    BY <1>2 DEF Enqueue
  <2>2. \A s \in Runs : s \in Pending <=> state[s] = "pending" BY DEF Pending
  <2> QED BY <2>1, <2>2
<1> QED BY <1>1, <1>2

-----------------------------------------------------------------------------
(* Types                                                                   *)

LEMMA StartTypes ==
  ASSUME Types, OneEach, NEW k \in Kinds, NEW c \in Nat, NEW parts \in SUBSET Work, Start(k, c, parts)
  PROVE  /\ kind' \in [Runs -> Kinds \cup {"none"}]
         /\ commit' \in [Runs -> Nat]
         /\ scope' \in [Runs -> SUBSET Work]
         /\ state' \in [Runs -> States]
         /\ todo' \in [Runs -> SUBSET Work]
         /\ OneEach'
<1>1. PICK r \in Runs :
        /\ state[r] = "none" /\ Enqueue(r, k)
        /\ kind' = [kind EXCEPT ![r] = k]
        /\ commit' = [commit EXCEPT ![r] = c]
        /\ scope' = [scope EXCEPT ![r] = parts]
        /\ todo' = [todo EXCEPT ![r] = parts]
  BY DEF Start
<1>2. state' \in [Runs -> States] /\ OneEach' BY <1>1, Arrives
<1> QED BY <1>1, <1>2 DEF Types

\* The scopes that a run may have are sets of work.
LEMMA Scopes ==
  /\ \A t \in Touches : t \in SUBSET Parts /\ t \in SUBSET Work
  /\ \A target \in Targets : target \in SUBSET Work
  /\ \A parts \in Asked : parts \in SUBSET Work
  /\ {"script"} \in SUBSET Work
BY DEF JobScopes, Work, Parts

LEMMA TypesStep == ASSUME Types, OneEach, [Next]_vars PROVE Types' /\ OneEach'
<1>0. ASSUME NEW r \in Runs, NEW k, state[r] \in {"none", "failed", "cancelled"}, Enqueue(r, k)
      PROVE  state' \in [Runs -> States] /\ OneEach'
  BY <1>0, Arrives
<1> USE DEF Types
<1>1. CASE Merge
  <2>1. PICK t \in Touches : /\ head' = head + 1
                             /\ touched' = [touched EXCEPT ![head + 1] = t]
                             /\ Start("push", head + 1, t)
    BY <1>1 DEF Merge
  <2>2. t \in SUBSET Parts /\ t \in SUBSET Work BY Scopes
  <2>3. "push" \in Kinds /\ UNCHANGED <<hub, outcome, live, giveups, reruns>> BY <1>1 DEF Merge
  <2>4. head + 1 \in Nat OBVIOUS
  <2>5. touched' \in [Runs -> SUBSET Parts] BY <2>1, <2>2
  <2> QED BY <2>1, <2>2, <2>3, <2>4, <2>5, StartTypes
<1>2. CASE Manual
  <2>1. PICK target \in Targets : Start("manual", head, target) BY <1>2 DEF Manual
  <2> QED BY <1>2, <2>1, Scopes, StartTypes DEF Manual
<1>3. CASE JobOrSweep
  <2>1. UNCHANGED <<head, touched, hub, outcome, live, giveups, reruns>> BY <1>3 DEF JobOrSweep
  <2>2. CASE "job" \in Kinds /\ \E parts \in Asked : Start("job", head, parts)
    <3>1. PICK parts \in Asked : Start("job", head, parts) BY <2>2
    <3> QED BY <2>1, <2>2, <3>1, Scopes, StartTypes
  <2>3. CASE "sweep" \in Kinds /\ Start("sweep", head, {"script"})
    BY <2>1, <2>3, Scopes, StartTypes
  <2> QED BY <1>3, <2>2, <2>3 DEF JobOrSweep
<1>4. ASSUME NEW r \in Runs, Rerun(r) PROVE Types' /\ OneEach'
  <2>1. state[r] \in {"none", "failed", "cancelled"} /\ Enqueue(r, kind[r]) BY <1>4 DEF Rerun
  <2>2. state' \in [Runs -> States] /\ OneEach' BY <1>0, <2>1
  <2>3. /\ reruns' = reruns + 1
        /\ todo' = [todo EXCEPT ![r] = scope[r]]
        /\ outcome' = [outcome EXCEPT ![r] = "none"]
        /\ UNCHANGED <<head, touched, kind, commit, scope, hub, live, giveups>>
    BY <1>4 DEF Rerun, runVars
  <2>4. reruns' \in Nat BY <2>3
  <2>6. todo' \in [Runs -> SUBSET Work]
    <3>1. scope[r] \in SUBSET Work /\ todo \in [Runs -> SUBSET Work] OBVIOUS
    <3> HIDE DEF Types
    <3> QED BY <2>3, <3>1
  <2>5. outcome' \in [Runs -> {"none", "Success", "Failed"}] BY <2>3
  <2> QED BY <2>2, <2>3, <2>4, <2>5, <2>6
<1> USE DEF OneEach, Holding, States, Ended, Go
<1>5. ASSUME NEW r \in Runs, StartPending(r) PROVE Types' /\ OneEach'
  <2>1. \A s \in Runs : state[s] \notin Holding BY <1>5 DEF StartPending, Holders
  <2>2. FirstState(kind[r]) \in {"waiting", "running"} BY DEF FirstState
  <2> QED BY <1>5, <2>1, <2>2 DEF StartPending, runVars
<1>6. ASSUME NEW r \in Runs, Decide(r) PROVE Types' /\ OneEach' BY <1>6 DEF Decide, runVars
<1>7. ASSUME NEW r \in Runs, StageFails(r) PROVE Types' /\ OneEach' BY <1>7 DEF StageFails, runVars
<1>8. ASSUME NEW r \in Runs, Finish(r) PROVE Types' /\ OneEach' BY <1>8 DEF Finish, runVars
<1>9. ASSUME NEW r \in Runs, NEW w \in Work, Apply(r, w) PROVE Types' /\ OneEach'
  <2>1. w \in Parts BY <1>9 DEF Apply, Terraform, Parts
  <2> QED BY <1>9, <2>1 DEF Apply, runVars
<1>10. ASSUME NEW r \in Runs, NEW w \in Work, Send(r, w) PROVE Types' /\ OneEach'
  BY <1>10 DEF Send, runVars
<1>11. ASSUME NEW r \in Runs, NEW w \in Work, Poll(r, w) PROVE Types' /\ OneEach'
  BY <1>11 DEF Poll, NextState, runVars
<1>12. ASSUME NEW r \in Runs, GiveUp(r) PROVE Types' /\ OneEach' BY <1>12 DEF GiveUp, runVars
<1>13. ASSUME NEW r \in Runs, NEW w \in Work, HubEnds(r, w) PROVE Types' /\ OneEach'
  BY <1>13 DEF HubEnds, runVars
<1>14. CASE UNCHANGED vars BY <1>14 DEF vars, runVars
<1> QED BY <1>1, <1>2, <1>3, <1>4, <1>5, <1>6, <1>7, <1>8, <1>9, <1>10, <1>11, <1>12, <1>13, <1>14
        DEF Next, RunStep

-----------------------------------------------------------------------------
(* What the steps do                                                       *)

Arrived(r) ==
  /\ state' \in [Runs -> States]
  /\ state'[r] \in {"waiting", "running", "pending"}
  /\ state'[r] # "pending" => \A s \in Runs : state[s] \notin Holding /\ state[s] # "pending"
  /\ \A s \in Runs : s # r =>
       \/ state'[s] = state[s] /\ (state'[r] = "pending" => state[s] # "pending")
       \/ state'[s] = "cancelled" /\ state[s] = "pending"

NewRun(r, parts) ==
  /\ state[r] = "none"
  /\ Arrived(r)
  /\ commit' = [commit EXCEPT ![r] = head']
  /\ scope' = [scope EXCEPT ![r] = parts]
  /\ todo' = [todo EXCEPT ![r] = parts]

\* However a run is started, it starts from the head of main with all of its scope.
LEMMA RunsBegin ==
  ASSUME Types, OneEach, Merge \/ Manual \/ JobOrSweep
  PROVE  /\ head' \in Nat /\ head <= head'
         /\ UNCHANGED <<hub, outcome, live, giveups, reruns>>
         /\ \E r \in Runs, parts \in SUBSET Work : NewRun(r, parts)
<1>1. ASSUME NEW k, NEW parts \in SUBSET Work, Start(k, head', parts)
      PROVE  \E r \in Runs : NewRun(r, parts)
  <2>1. PICK r \in Runs :
          /\ state[r] = "none" /\ Enqueue(r, k)
          /\ commit' = [commit EXCEPT ![r] = head']
          /\ scope' = [scope EXCEPT ![r] = parts]
          /\ todo' = [todo EXCEPT ![r] = parts]
    BY <1>1 DEF Start
  <2>2. Arrived(r) BY <2>1, Arrives DEF Arrived
  <2> QED BY <2>1, <2>2 DEF NewRun
<1>2. CASE Merge
  <2>1. PICK t \in Touches : head' = head + 1 /\ Start("push", head', t) BY <1>2 DEF Merge
  <2> QED BY <1>1, <1>2, <2>1, Scopes DEF Merge, Types
<1>3. CASE Manual
  <2>1. PICK target \in Targets : head' = head /\ Start("manual", head', target) BY <1>3 DEF Manual
  <2> QED BY <1>1, <1>3, <2>1, Scopes DEF Manual, Types
<1>4. CASE JobOrSweep
  <2>1. head' = head /\ UNCHANGED <<hub, outcome, live, giveups, reruns>> BY <1>4 DEF JobOrSweep
  <2>2. \E k \in {"job", "sweep"}, parts \in SUBSET Work : Start(k, head', parts)
    BY <1>4, <2>1, Scopes DEF JobOrSweep
  <2> QED BY <1>1, <2>1, <2>2 DEF Types
<1> QED BY <1>2, <1>3, <1>4

\* A run that is run again comes like a new one, with its old commit.
LEMMA RunsAgain ==
  ASSUME Types, OneEach, NEW r \in Runs, Rerun(r)
  PROVE  /\ state[r] \in {"failed", "cancelled"} /\ Arrived(r)
         /\ todo' = [todo EXCEPT ![r] = scope[r]]
         /\ outcome' = [outcome EXCEPT ![r] = "none"]
         /\ reruns' = reruns + 1
         /\ UNCHANGED <<head, touched, kind, commit, scope, hub, live, giveups>>
<1>1. state[r] \in {"failed", "cancelled"} /\ Enqueue(r, kind[r]) BY DEF Rerun
<1>2. Arrived(r) BY <1>1, Arrives DEF Arrived
<1> QED BY <1>1, <1>2 DEF Rerun, runVars

\* The steps of a run that move it on and touch nothing else.
LEMMA RunsMove ==
  ASSUME Types, OneEach, NEW r \in Runs,
         StartPending(r) \/ Decide(r) \/ StageFails(r) \/ Finish(r) \/ GiveUp(r)
  PROVE  /\ \E to \in States : state' = [state EXCEPT ![r] = to]
         /\ UNCHANGED <<head, touched, kind, commit, scope, todo, hub, outcome, live, reruns>>
         /\ \/ /\ state[r] = "pending" /\ state'[r] \in {"waiting", "running"}
               /\ \A s \in Runs : state[s] \notin Holding
               /\ giveups' = giveups
            \/ /\ state[r] = "waiting" /\ giveups' = giveups
               /\ state'[r] \in {"running", "failed"} \/ (state'[r] = "done" /\ todo[r] = {})
            \/ /\ state[r] = "running" /\ giveups' = giveups
               /\ state'[r] = "failed" \/ (state'[r] = "done" /\ todo[r] = {})
            \/ state[r] = "polling" /\ state'[r] = "failed" /\ giveups' = giveups + 1
<1> USE DEF Types, States, Holding, Ended, Go, runVars
<1>1. CASE StartPending(r)
  <2>1. \A s \in Runs : state[s] \notin Holding BY <1>1 DEF StartPending, Holders
  <2>2. FirstState(kind[r]) \in {"waiting", "running"} BY DEF FirstState
  <2> QED BY <1>1, <2>1, <2>2 DEF StartPending
<1>2. CASE Decide(r) BY <1>2 DEF Decide
<1>3. CASE StageFails(r) BY <1>3 DEF StageFails
<1>4. CASE Finish(r) BY <1>4 DEF Finish
<1>5. CASE GiveUp(r) BY <1>5 DEF GiveUp
<1> QED BY <1>1, <1>2, <1>3, <1>4, <1>5

-----------------------------------------------------------------------------
(* The invariant, conjunct by conjunct                                     *)

LEMMA NotBegunStep == ASSUME Types, OneEach, NotBegun, [Next]_vars PROVE NotBegun'
<1> USE DEF Types, NotBegun, States, Holding, Ended
<1>1. CASE Merge \/ Manual \/ JobOrSweep
  <2>1. PICK r \in Runs, parts \in SUBSET Work : NewRun(r, parts) BY <1>1, RunsBegin
  <2> QED BY <2>1 DEF NewRun, Arrived
<1>2. ASSUME NEW r \in Runs, Rerun(r) PROVE NotBegun' BY <1>2, RunsAgain DEF Arrived
<1>3. ASSUME NEW r \in Runs, StartPending(r) \/ Decide(r) \/ StageFails(r) \/ Finish(r) \/ GiveUp(r)
      PROVE  NotBegun'
  BY <1>3, RunsMove
<1>4. ASSUME NEW r \in Runs, NEW w \in Work, Apply(r, w) PROVE NotBegun'
  <2>1. /\ state[r] = "running" /\ state'[r] \in {"running", "failed"} /\ scope' = scope
        /\ \A s \in Runs : s # r => state'[s] = state[s] /\ todo'[s] = todo[s]
    BY <1>4 DEF Apply, Go, runVars
  <2> QED BY <2>1
<1>5. ASSUME NEW r \in Runs, NEW w \in Work, Send(r, w) PROVE NotBegun' BY <1>5 DEF Send, Go, runVars
<1>6. ASSUME NEW r \in Runs, NEW w \in Work, Poll(r, w) PROVE NotBegun'
  BY <1>6 DEF Poll, Go, NextState, runVars
<1>7. ASSUME NEW r \in Runs, NEW w \in Work, HubEnds(r, w) PROVE NotBegun' BY <1>7 DEF HubEnds, runVars
<1>8. CASE UNCHANGED vars BY <1>8 DEF vars, runVars
<1> QED BY <1>1, <1>2, <1>3, <1>4, <1>5, <1>6, <1>7, <1>8 DEF Next, RunStep

LEMMA AwaitedStep == ASSUME Types, OneEach, CommandsAwaited, [Next]_vars PROVE CommandsAwaited'
<1> SUFFICES ASSUME Patient' PROVE CommandsAwaited' BY DEF CommandsAwaited
<1> USE DEF Types, CommandsAwaited, Patient, States, Holding, Ended, IsNext
<1>1. CASE Merge \/ Manual \/ JobOrSweep
  <2>1. UNCHANGED <<hub, outcome, live, giveups, reruns>> BY <1>1, RunsBegin
  <2>2. PICK r \in Runs, parts \in SUBSET Work : NewRun(r, parts) BY <1>1, RunsBegin
  <2> QED BY <2>1, <2>2 DEF NewRun, Arrived
<1>2. ASSUME NEW r \in Runs, Rerun(r) PROVE CommandsAwaited'
  <2>1. /\ state[r] \in {"failed", "cancelled"} /\ hub' = hub /\ giveups' = giveups
        /\ \A s \in Runs : s # r =>
             /\ todo'[s] = todo[s] /\ outcome'[s] = outcome[s]
             /\ state[s] = "polling" => state'[s] = "polling"
    BY <1>2, RunsAgain DEF Arrived
  <2>2. \A w \in Work : <<r, w>> \notin hub BY <2>1
  <2> QED BY <2>1, <2>2
<1>3. ASSUME NEW r \in Runs, StartPending(r) \/ Decide(r) \/ StageFails(r) \/ Finish(r) \/ GiveUp(r)
      PROVE  CommandsAwaited'
  <2>1. /\ state[r] # "polling" /\ giveups' = giveups /\ UNCHANGED <<hub, todo, outcome>>
        /\ \A s \in Runs : s # r => state'[s] = state[s]
    BY <1>3, RunsMove
  <2>2. \A w \in Work : <<r, w>> \notin hub BY <2>1
  <2> QED BY <2>1, <2>2
<1>4. ASSUME NEW r \in Runs, NEW w \in Work, Apply(r, w) PROVE CommandsAwaited' BY <1>4 DEF Apply, Go, runVars
<1>5. ASSUME NEW r \in Runs, NEW w \in Work, Send(r, w) PROVE CommandsAwaited' BY <1>5 DEF Send, Go, runVars
<1>6. ASSUME NEW r \in Runs, NEW w \in Work, Poll(r, w) PROVE CommandsAwaited'
  BY <1>6 DEF Poll, Over, Go, NextState, runVars
<1>7. ASSUME NEW r \in Runs, NEW w \in Work, HubEnds(r, w) PROVE CommandsAwaited'
  <2>1. \A v \in Work : <<r, v>> \in hub => v = w BY <1>7, NextIsOne DEF HubEnds
  <2>2. \A s \in Runs, v \in Work : <<s, v>> \in hub' => s # r BY <1>7, <2>1 DEF HubEnds
  <2>3. \A s \in Runs : s # r => outcome'[s] = outcome[s] BY <1>7 DEF HubEnds
  <2> QED BY <1>7, <2>2, <2>3 DEF HubEnds
<1>8. CASE UNCHANGED vars BY <1>8 DEF vars, runVars
<1> QED BY <1>1, <1>2, <1>3, <1>4, <1>5, <1>6, <1>7, <1>8 DEF Next, RunStep

LEMMA DoneSoFarStep ==
  ASSUME Types, OneEach, NotBegun, CommandsAwaited, DoneSoFar, [Next]_vars PROVE DoneSoFar'
<1> SUFFICES ASSUME Patient' PROVE DoneSoFar' BY DEF DoneSoFar
<1> USE DEF Types, OneEach, NotBegun, DoneSoFar, Patient, States, Holding, Ended, IsNext
<1>1. CASE Merge \/ Manual \/ JobOrSweep
  <2>1. UNCHANGED <<hub, outcome, live, giveups, reruns>> BY <1>1, RunsBegin
  <2>2. PICK r \in Runs, parts \in SUBSET Work : NewRun(r, parts) BY <1>1, RunsBegin
  <2> QED BY <2>1, <2>2 DEF NewRun, Arrived
<1>2. ASSUME NEW r \in Runs, Rerun(r) PROVE DoneSoFar' BY <1>2, RunsAgain DEF Arrived
<1>3. ASSUME NEW r \in Runs, StartPending(r) \/ Decide(r) \/ StageFails(r) \/ Finish(r) \/ GiveUp(r)
      PROVE  DoneSoFar'
  BY <1>3, RunsMove
<1>4. ASSUME NEW r \in Runs, NEW w \in Work, Apply(r, w) PROVE DoneSoFar'
  <2>1. w \in Parts BY <1>4 DEF Apply, Terraform, Parts
  <2>2. \A s \in Runs : s # r => state'[s] \notin {"running", "polling"} BY <1>4 DEF Apply, Go
  <2> QED BY <1>4, <2>1, <2>2 DEF Apply, Go, runVars
<1>5. ASSUME NEW r \in Runs, NEW w \in Work, Send(r, w) PROVE DoneSoFar' BY <1>5 DEF Send, Go, runVars
<1>6. ASSUME NEW r \in Runs, NEW w \in Work, Poll(r, w) PROVE DoneSoFar'
  <2>1. outcome[r] # "Success" => state'[r] = "failed" BY <1>6 DEF Poll, Go, NextState
  <2> QED BY <1>6, <2>1 DEF Poll, Go, NextState, Over, runVars
<1>7. ASSUME NEW r \in Runs, NEW w \in Work, HubEnds(r, w) PROVE DoneSoFar'
  <2>1. state[r] = "polling" /\ IsNext(r, w) BY <1>7 DEF HubEnds, CommandsAwaited, runVars
  <2>2. \A s \in Runs : s # r => state'[s] \notin {"running", "polling"} BY <1>7, <2>1 DEF HubEnds
  <2>3. \A p \in Parts : IsNext(r, p) => p = w BY <2>1, NextIsOne DEF Work
  <2> QED BY <1>7, <2>1, <2>2, <2>3 DEF HubEnds, runVars
<1>8. CASE UNCHANGED vars BY <1>8 DEF vars, runVars
<1> QED BY <1>1, <1>2, <1>3, <1>4, <1>5, <1>6, <1>7, <1>8 DEF Next, RunStep

LEMMA NewerLastStep ==
  ASSUME Types, OneEach, CommandsAwaited, NewerLast, [Next]_vars PROVE NewerLast'
<1> USE DEF Types, OneEach, NewerLast, Patient, States, Holding, Ended
<1>1. CASE Merge \/ Manual \/ JobOrSweep
  <2>1. UNCHANGED <<hub, outcome, live, giveups, reruns>> /\ head' \in Nat /\ head <= head'
    BY <1>1, RunsBegin
  <2>2. PICK r \in Runs, parts \in SUBSET Work : NewRun(r, parts) BY <1>1, RunsBegin
  <2> QED BY <2>1, <2>2 DEF NewRun, Arrived
<1>2. ASSUME NEW r \in Runs, Rerun(r) PROVE NewerLast' BY <1>2, RunsAgain
<1>3. ASSUME NEW r \in Runs, StartPending(r) \/ Decide(r) \/ StageFails(r) \/ Finish(r) \/ GiveUp(r)
      PROVE  NewerLast'
  BY <1>3, RunsMove
<1>4. ASSUME NEW r \in Runs, NEW w \in Work, Apply(r, w) PROVE NewerLast'
  <2>1. /\ state[r] = "running" /\ state'[r] \in {"running", "failed"}
        /\ UNCHANGED <<head, commit, giveups, reruns>>
        /\ \A s \in Runs : s # r => state'[s] = state[s]
        /\ \A p \in Parts : live'[p] = live[p] \/ live'[p] = commit[r]
    BY <1>4 DEF Apply, Go, runVars
  <2>2. \A s \in Runs : state'[s] \in Holding \cup {"pending"} =>
           /\ state[s] \in Holding \cup {"pending"}
           /\ s = r \/ state[s] = "pending"
    BY <2>1
  <2> QED BY <2>1, <2>2
<1>5. ASSUME NEW r \in Runs, NEW w \in Work, Send(r, w) PROVE NewerLast' BY <1>5 DEF Send, Go, runVars
<1>6. ASSUME NEW r \in Runs, NEW w \in Work, Poll(r, w) PROVE NewerLast'
  BY <1>6 DEF Poll, Go, NextState, runVars
<1>7. ASSUME NEW r \in Runs, NEW w \in Work, HubEnds(r, w) PROVE NewerLast'
  <2>1. Patient => state[r] = "polling" BY <1>7 DEF HubEnds, CommandsAwaited
  <2> QED BY <1>7, <2>1 DEF HubEnds, runVars
<1>8. CASE UNCHANGED vars BY <1>8 DEF vars, runVars
<1> QED BY <1>1, <1>2, <1>3, <1>4, <1>5, <1>6, <1>7, <1>8 DEF Next, RunStep

-----------------------------------------------------------------------------
(* Theorems                                                                *)

\* The inductive invariant: who holds the group, what its run has still to do, which
\* command it awaits and what is live belong together.
THEOREM Invariance == SafeSpec => []PInv
<1>1. Init => PInv
  BY DEF Init, PInv, Types, OneEach, NotBegun, CommandsAwaited, DoneSoFar, NewerLast, States, Holding, Work
<1>2. PInv /\ [Next]_vars => PInv'
  BY TypesStep, NotBegunStep, AwaitedStep, DoneSoFarStep, NewerLastStep DEF PInv
<1> QED BY <1>1, <1>2, PTL DEF SafeSpec

LEMMA AtMostOne == ASSUME NEW S, \A x, y \in S : x = y PROVE Cardinality(S) <= 1
<1>1. CASE S = {} BY <1>1, FS_EmptySet
<1>2. CASE S # {}
  <2>1. PICK x \in S : TRUE BY <1>2
  <2>2. S = {x} BY <2>1
  <2> QED BY <2>2, FS_Singleton
<1> QED BY <1>1, <1>2

\* Types; one run holds the concurrency group of platform-release.yml, voice-job.yml
\* and preview-sweep.yml, and one at most waits for it.
THEOREM TypeCorrect == SafeSpec => []TypeOK
<1>1. PInv => TypeOK
  <2> SUFFICES ASSUME PInv PROVE TypeOK OBVIOUS
  <2>1. Cardinality(Holders) <= 1 BY AtMostOne DEF PInv, OneEach, Holders
  <2>2. Cardinality(Pending) <= 1 BY AtMostOne DEF PInv, OneEach, Pending
  <2> QED BY <2>1, <2>2 DEF PInv, Types, TypeOK
<1> QED BY <1>1, Invariance, PTL

\* As long as every workflow waits for its command (run-on-hub.sh's poll), there is
\* one command on the hub at most, for any number of runs of any kinds.
THEOREM OneCommand == SafeSpec => []PatientExclusive
<1>1. PInv => PatientExclusive
  <2> SUFFICES ASSUME PInv, Patient PROVE HubExclusive BY DEF PatientExclusive
  <2> USE DEF PInv
  <2>0. ASSUME NEW x \in hub PROVE \E r \in Runs, w \in Work : x = <<r, w>>
    <3>1. x \in Runs \X Work BY DEF Types
    <3>2. x[1] \in Runs /\ x[2] \in Work /\ x = <<x[1], x[2]>> BY <3>1
    <3> QED BY <3>2
  <2>1. ASSUME NEW x \in hub, NEW y \in hub PROVE x = y
    <3>1. PICK r \in Runs, w \in Work : x = <<r, w>> BY <2>0
    <3>2. PICK s \in Runs, v \in Work : y = <<s, v>> BY <2>0
    <3>3. /\ state[r] = "polling" /\ IsNext(r, w)
          /\ state[s] = "polling" /\ IsNext(s, v)
      BY <3>1, <3>2 DEF CommandsAwaited
    <3>4. r = s BY <3>3 DEF OneEach, Holding
    <3> QED BY <3>1, <3>2, <3>3, <3>4, NextIsOne
  <2> QED BY <2>1, AtMostOne DEF HubExclusive
<1> QED BY <1>1, Invariance, PTL

\* When the hub is told to act, everything of the run that comes before is live from
\* the run's commit: the steps of platform-release.yml in their order.
THEOREM StepsInOrder == SafeSpec => SentInOrder
<1>1. PInv /\ [Next]_vars =>
        [\A r \in Runs, w \in Work :
           Patient /\ <<r, w>> \in hub' \ hub =>
             \A p \in scope[r] \cap Parts : Place[p] < Place[w] => live[p] = commit[r]]_vars
  <2> SUFFICES ASSUME PInv, Next, NEW r \in Runs, NEW w \in Work, Patient, <<r, w>> \in hub' \ hub,
                      NEW p \in scope[r] \cap Parts, Place[p] < Place[w]
               PROVE  live[p] = commit[r]
    BY DEF vars
  <2> USE DEF PInv
  <2>1. Send(r, w)
    <3>1. ~(Merge \/ Manual \/ JobOrSweep) BY RunsBegin
    <3>2. \A s \in Runs : ~Rerun(s) BY RunsAgain
    <3>3. \A s \in Runs : ~(StartPending(s) \/ Decide(s) \/ StageFails(s) \/ Finish(s) \/ GiveUp(s))
      BY RunsMove
    <3>4. \A s \in Runs, v \in Work : ~(Apply(s, v) \/ Poll(s, v) \/ HubEnds(s, v))
      BY DEF Apply, Poll, HubEnds
    <3>5. PICK s \in Runs, v \in Work : Send(s, v) BY <3>1, <3>2, <3>3, <3>4 DEF Next, RunStep
    <3> QED BY <3>5 DEF Send
  <2>2. state[r] = "running" /\ IsNext(r, w) BY <2>1 DEF Send, Go
  <2>3. p \in Work BY DEF Work
  <2>4. p \notin todo[r] BY <2>2, <2>3, NextIsOne
  <2> QED BY <2>2, <2>4 DEF DoneSoFar
<1> QED BY <1>1, Invariance, PTL DEF SafeSpec, SentInOrder

\* A run that ends well has made everything in its scope live from its commit.
THEOREM GreenIsLive == SafeSpec => DoneIsLive
<1>1. PInv /\ [Next]_vars =>
        [\A r \in Runs :
           Patient /\ state[r] # "done" /\ state'[r] = "done" =>
             \A p \in scope[r] \cap Parts : live[p] = commit[r]]_vars
  <2> SUFFICES ASSUME PInv, Next, NEW r \in Runs, Patient, state[r] # "done", state'[r] = "done",
                      NEW p \in scope[r] \cap Parts
               PROVE  live[p] = commit[r]
    BY DEF vars
  <2> USE DEF PInv
  <2>1. state[r] \in {"waiting", "running"} /\ todo[r] = {}
    <3> USE DEF Types, States, Holding, Ended
    <3>1. CASE Merge \/ Manual \/ JobOrSweep
      <4>1. PICK s \in Runs, parts \in SUBSET Work : NewRun(s, parts) BY <3>1, RunsBegin
      <4> QED BY <4>1 DEF NewRun, Arrived
    <3>2. ASSUME NEW s \in Runs, Rerun(s) PROVE FALSE BY <3>2, RunsAgain DEF Arrived
    <3>3. ASSUME NEW s \in Runs,
                 StartPending(s) \/ Decide(s) \/ StageFails(s) \/ Finish(s) \/ GiveUp(s)
          PROVE  state[r] \in {"waiting", "running"} /\ todo[r] = {}
      BY <3>3, RunsMove
    <3>4. ASSUME NEW s \in Runs, NEW w \in Work, Apply(s, w) \/ Send(s, w) \/ Poll(s, w) \/ HubEnds(s, w)
          PROVE  FALSE
      BY <3>4 DEF Apply, Send, Poll, HubEnds, Go, NextState
    <3> QED BY <3>1, <3>2, <3>3, <3>4 DEF Next, RunStep
  <2> QED BY <2>1 DEF DoneSoFar, NotBegun
<1> QED BY <1>1, Invariance, PTL DEF SafeSpec, DoneIsLive

\* A part goes back to an older commit only after somebody has run an old run again.
THEOREM NothingGoesBack == SafeSpec => OnlyRerunsGoBack
<1>1. PInv /\ [Next]_vars => [\A p \in Parts : Patient /\ live'[p] < live[p] => reruns > 0]_vars
  <2> SUFFICES ASSUME PInv, Next, NEW p \in Parts, Patient, live'[p] < live[p], reruns = 0
               PROVE  FALSE
    BY DEF vars, PInv, Types
  <2> USE DEF PInv
  <2>1. ~(Merge \/ Manual \/ JobOrSweep) BY RunsBegin DEF Types
  <2>2. \A s \in Runs : ~Rerun(s) BY RunsAgain DEF Types
  <2>3. \A s \in Runs : ~(StartPending(s) \/ Decide(s) \/ StageFails(s) \/ Finish(s) \/ GiveUp(s))
    BY RunsMove DEF Types
  <2>4. ASSUME NEW s \in Runs, NEW w \in Work, Apply(s, w) \/ Send(s, w) \/ Poll(s, w) \/ HubEnds(s, w)
        PROVE  FALSE
    <3>1. live'[p] = commit[s] /\ state[s] \in Holding
      BY <2>4 DEF Apply, Send, Poll, HubEnds, Go, CommandsAwaited, Types, Holding
    <3> QED BY <3>1 DEF NewerLast, Types
  <2> QED BY <2>1, <2>2, <2>3, <2>4 DEF Next, RunStep
<1> QED BY <1>1, Invariance, PTL DEF SafeSpec, OnlyRerunsGoBack

=============================================================================
