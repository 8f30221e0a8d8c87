--------------------------- MODULE PlatformDeploy ---------------------------
(***************************************************************************)
(* What deploys to the platform: the workflows platform-release, voice-job *)
(* and preview-sweep.  They share GitHub's concurrency group               *)
(* platform-deploy; a release first waits for one approval and then applies *)
(* the parts its push touched, in a fixed order; hub work goes to the hub  *)
(* as an SSM command, which runs there whatever becomes of the workflow.   *)
(***************************************************************************)
EXTENDS Naturals, FiniteSets

CONSTANTS
  Runs,        \* workflow runs: numbers, in the order in which they are started
  Kinds,       \* which workflows start: a subset of {"push", "manual", "job", "sweep"}
  Touches,     \* the sets of parts that a push may touch
  Targets,     \* the sets of parts that somebody may release by hand
  Asked,       \* what the voice jobs of the instance deploy: a subset of JobScopes
  MaxIncidents \* bound: how often a workflow stops waiting for the hub, or
               \* somebody re-runs a run, together

Parts     == {"aws", "github", "dbs", "hub", "nucs"}
Terraform == {"aws", "github"}
Work      == Parts \cup {"script"}
JobScopes == {{"hub"}, {"nucs"}, {"script"}}

ASSUME RunsAssumption == Runs \subseteq Nat
ASSUME KindsAssumption == Kinds \subseteq {"push", "manual", "job", "sweep"}
ASSUME TouchesAssumption == Touches \subseteq SUBSET Parts
ASSUME TargetsAssumption ==
  Targets \subseteq {{p} : p \in Parts} \cup {{"hub", "nucs"}, Parts}
ASSUME AskedAssumption == Asked \subseteq JobScopes
ASSUME BoundAssumption == MaxIncidents \in Nat

VARIABLES
  head,      \* main: the number of its last commit
  touched,   \* the parts touched by each commit
  kind,      \* what started each run
  commit,    \* the commit a run checks out (github.sha)
  scope,     \* the parts a run deploys, or {"script"}
  state,     \* GitHub: where the run is
  todo,      \* the work it has still to do
  hub,       \* SSM commands on the hub: <<run, work>>
  outcome,   \* how the last command of a run ended
  live,      \* the commit each part is deployed from
  giveups, reruns  \* history, up to MaxIncidents

runVars == <<kind, commit, scope>>
vars == <<head, touched, runVars, state, todo, hub, outcome, live, giveups, reruns>>

Holding == {"waiting", "running", "polling"}
Ended   == {"done", "failed", "cancelled"}
States  == {"none", "pending"} \cup Holding \cup Ended

Holders == {r \in Runs : state[r] \in Holding}
Pending == {r \in Runs : state[r] = "pending"}

-----------------------------------------------------------------------------
(* Starting a run                                                          *)

\* Only the sweep starts without the approval of the production environment.
FirstState(k) == IF k = "sweep" THEN "running" ELSE "waiting"

\* Two runs side by side, as without a concurrency group.
Enqueue_NoGroup(r, k) == state' = [state EXCEPT ![r] = FirstState(k)]

\* One run of the group holds it, from its first job to its last; one more
\* may be pending, and a newer one takes its place.  A pending run starts the
\* moment the group is free.
Enqueue(r, k) ==
  /\ Holders = {} => Pending = {}
  /\ state' = IF Holders = {}
                THEN [state EXCEPT ![r] = FirstState(k)]
                ELSE [s \in Runs |-> IF s = r THEN "pending"
                                     ELSE IF s \in Pending THEN "cancelled"
                                     ELSE state[s]]

Start(k, c, parts) ==
  \E r \in Runs :
    /\ state[r] = "none" /\ \A s \in Runs : s < r => state[s] # "none"
    /\ Enqueue(r, k)
    /\ kind' = [kind EXCEPT ![r] = k]
    /\ commit' = [commit EXCEPT ![r] = c]
    /\ scope' = [scope EXCEPT ![r] = parts]
    /\ todo' = [todo EXCEPT ![r] = parts]

\* A merge to main: the parts are those of the diff of this push.
Merge ==
  /\ "push" \in Kinds
  /\ \E t \in Touches :
       /\ head' = head + 1
       /\ touched' = [touched EXCEPT ![head + 1] = t]
       /\ Start("push", head + 1, t)
  /\ UNCHANGED <<hub, outcome, live, giveups, reruns>>

\* workflow_dispatch with a target.
Manual ==
  /\ "manual" \in Kinds
  /\ \E target \in Targets : Start("manual", head, target)
  /\ UNCHANGED <<head, touched, hub, outcome, live, giveups, reruns>>

\* A voice job runs a script that deploys the hub, the NUCs or nothing; the
\* nightly sweep deploys nothing.
JobOrSweep ==
  /\ \/ "job" \in Kinds /\ \E parts \in Asked : Start("job", head, parts)
     \/ "sweep" \in Kinds /\ Start("sweep", head, {"script"})
  /\ UNCHANGED <<head, touched, hub, outcome, live, giveups, reruns>>

StartPending(r) ==
  /\ state[r] = "pending" /\ Holders = {}
  /\ state' = [state EXCEPT ![r] = FirstState(kind[r])]
  /\ UNCHANGED <<head, touched, runVars, todo, hub, outcome, live, giveups, reruns>>

\* "Re-run": the same run, the same commit, the whole job again.
Rerun(r) ==
  /\ giveups + reruns < MaxIncidents /\ reruns' = reruns + 1
  /\ state[r] \in {"failed", "cancelled"}
  /\ Enqueue(r, kind[r])
  /\ todo' = [todo EXCEPT ![r] = scope[r]]
  /\ outcome' = [outcome EXCEPT ![r] = "none"]
  /\ UNCHANGED <<head, touched, runVars, hub, live, giveups>>

-----------------------------------------------------------------------------
(* The release job, and the run job of voice-job.yml                       *)

Go(r, from, to) ==
  /\ state[r] = from
  /\ state' = [state EXCEPT ![r] = to]

\* Approved, or rejected (after 30 days GitHub does that by itself).  With
\* nothing in scope there is no job to approve.
Decide(r) ==
  /\ \/ todo[r] # {} /\ \E answer \in {"running", "failed"} : Go(r, "waiting", answer)
     \/ todo[r] = {} /\ Go(r, "waiting", "done")
  /\ UNCHANGED <<head, touched, runVars, todo, hub, outcome, live, giveups, reruns>>

Place == [w \in Work |->
  CASE w = "aws" -> 1 [] w = "github" -> 2 [] w = "dbs" -> 3
    [] w = "hub" -> 4 [] w = "nucs" -> 5 [] OTHER -> 6]

\* The steps in whatever order they come.
IsNext_AnyOrder(r, w) == w \in todo[r]

IsNext(r, w) == w \in todo[r] /\ \A v \in todo[r] : Place[w] <= Place[v]

\* terraform-apply.sh: a failed apply ends the job.
Apply(r, w) ==
  /\ w \in Terraform /\ IsNext(r, w)
  /\ \/ /\ Go(r, "running", "running")
        /\ todo' = [todo EXCEPT ![r] = @ \ {w}]
        /\ live' = [live EXCEPT ![w] = commit[r]]
     \/ /\ Go(r, "running", "failed")
        /\ UNCHANGED <<todo, live>>
  /\ UNCHANGED <<head, touched, runVars, hub, outcome, giveups, reruns>>

\* Stage the files of the checked-out commit, ssm send-command.
Send(r, w) ==
  /\ w \notin Terraform /\ IsNext(r, w)
  /\ Go(r, "running", "polling")
  /\ hub' = hub \cup {<<r, w>>}
  /\ outcome' = [outcome EXCEPT ![r] = "none"]
  /\ UNCHANGED <<head, touched, runVars, todo, live, giveups, reruns>>

\* A step fails before the hub is told anything (credentials, staging, no hub).
StageFails(r) ==
  /\ todo[r] # {}
  /\ Go(r, "running", "failed")
  /\ UNCHANGED <<head, touched, runVars, todo, hub, outcome, live, giveups, reruns>>

\* The command ends on the hub.
HubEnds(r, w) ==
  /\ <<r, w>> \in hub
  /\ hub' = hub \ {<<r, w>>}
  /\ \/ /\ outcome' = [outcome EXCEPT ![r] = "Success"]
        /\ live' = IF w \in Parts THEN [live EXCEPT ![w] = commit[r]] ELSE live
     \/ /\ outcome' = [outcome EXCEPT ![r] = "Failed"]
        /\ UNCHANGED live
  /\ UNCHANGED <<head, touched, runVars, state, todo, giveups, reruns>>

\* A failed command taken for a finished one.
NextState_Careless(how) == "running"

NextState(how) == IF how = "Success" THEN "running" ELSE "failed"

\* Any status taken for the end of the command.
Over_AnyStatus(r) == TRUE

\* Only success taken for the end of the command.
Over_OnlySuccess(r) == outcome[r] = "Success"

Over(r) == outcome[r] # "none"

\* run-on-hub.sh: poll until the status says the command is over.
Poll(r, w) ==
  /\ IsNext(r, w)
  /\ Over(r)
  /\ Go(r, "polling", NextState(outcome[r]))
  /\ todo' = [todo EXCEPT ![r] = @ \ {w}]
  /\ UNCHANGED <<head, touched, runVars, hub, outcome, live, giveups, reruns>>

\* The poll count or the job's timeout is used up, or somebody cancels the
\* run, and the command goes on.
GiveUp(r) ==
  /\ giveups + reruns < MaxIncidents /\ giveups' = giveups + 1
  /\ Go(r, "polling", "failed")
  /\ UNCHANGED <<head, touched, runVars, todo, hub, outcome, live, reruns>>

Finish(r) ==
  /\ todo[r] = {}
  /\ Go(r, "running", "done")
  /\ UNCHANGED <<head, touched, runVars, todo, hub, outcome, live, giveups, reruns>>

RunStep(r) ==
  \/ StartPending(r) \/ Decide(r) \/ StageFails(r) \/ Finish(r)
  \/ \E w \in Work : Apply(r, w) \/ Send(r, w) \/ Poll(r, w)

-----------------------------------------------------------------------------

Init ==
  /\ head = 0
  /\ touched = [r \in Runs |-> {}]
  /\ kind = [r \in Runs |-> "none"]
  /\ commit = [r \in Runs |-> 0]
  /\ scope = [r \in Runs |-> {}]
  /\ state = [r \in Runs |-> "none"]
  /\ todo = [r \in Runs |-> {}]
  /\ hub = {}
  /\ outcome = [r \in Runs |-> "none"]
  /\ live = [p \in Parts |-> 0]
  /\ giveups = 0 /\ reruns = 0

Next ==
  \/ Merge \/ Manual \/ JobOrSweep
  \/ \E r \in Runs :
       RunStep(r) \/ GiveUp(r) \/ Rerun(r) \/ \E w \in Work : HubEnds(r, w)

SafeSpec == Init /\ [][Next]_vars

\* GitHub and SSM go on by themselves, and every wait has a limit.  Nobody
\* has to merge, to ask for a job, or to re-run.
Spec ==
  /\ SafeSpec
  /\ \A r \in Runs : WF_vars(RunStep(r))
  /\ \A r \in Runs : WF_vars(\E w \in Work : HubEnds(r, w))

-----------------------------------------------------------------------------
(* Properties                                                              *)

\* Types; and the group is held by one run and awaited by one at most.
TypeOK ==
  /\ head \in Nat
  /\ touched \in [Runs -> SUBSET Parts]
  /\ kind \in [Runs -> Kinds \cup {"none"}]
  /\ commit \in [Runs -> Nat]
  /\ scope \in [Runs -> SUBSET Work]
  /\ state \in [Runs -> States]
  /\ todo \in [Runs -> SUBSET Work]
  /\ hub \subseteq Runs \X Work
  /\ outcome \in [Runs -> {"none", "Success", "Failed"}]
  /\ live \in [Parts -> Nat]
  /\ Cardinality(Holders) <= 1 /\ Cardinality(Pending) <= 1

\* As long as no workflow stops waiting for a command that goes on.
Patient == giveups = 0

\* voice-job.yml:34-35: "a voice job and a platform release never touch the
\* hub at the same time; they queue".
HubExclusive == Cardinality(hub) <= 1

\* The queue of workflows is one of commands while every workflow waits for
\* its command (voice-job.yml:36-38, run-on-hub.sh:23-28).
PatientExclusive == Patient => HubExclusive

\* platform-release.yml: what a step relies on is live from the same commit
\* when the hub is told to act ("in order [...], stopping at the first
\* failure").
SentInOrder ==
  [][\A r \in Runs, w \in Work :
       Patient /\ <<r, w>> \in hub' \ hub =>
         \A p \in scope[r] \cap Parts : Place[p] < Place[w] => live[p] = commit[r]]_vars

\* A run that ends well has deployed everything in its scope (the `result`
\* annotations home-mcp reads say so).
DoneIsLive ==
  [][\A r \in Runs :
       Patient /\ state[r] # "done" /\ state'[r] = "done" =>
         \A p \in scope[r] \cap Parts : live[p] = commit[r]]_vars

\* A part goes back to an older commit only when an old run is run again, or
\* when a command ends that nobody waited for (run-on-hub.sh:24).
OnlyRerunsGoBack ==
  [][\A p \in Parts : Patient /\ live'[p] < live[p] => reruns > 0]_vars

\* Every run that was started comes to an end and lets the next one in.
EveryRunEnds == \A r \in Runs : state[r] # "none" ~> state[r] \in Ended

LastTouch(p, c) ==
  LET those == {d \in Runs : d <= c /\ p \in touched[d]} IN
  IF those = {} THEN 0 ELSE CHOOSE d \in those : \A e \in those : e <= d

\* platform-release.yml:3 deploys "everything a merge to main deploys":
\* with nothing rejected and nothing failing, main is live in the end.
Converges ==
  (\A r \in Runs : [](state[r] # "failed")) =>
    <>[](\A p \in Parts : live[p] >= LastTouch(p, head))

=============================================================================
