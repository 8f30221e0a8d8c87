---------------------------- MODULE VoiceWorker ----------------------------
(***************************************************************************)
(* The voice worker on nuc4: dispatch.py, started by sshd once per command *)
(* of home-mcp, and runner.py, the single root process that turns queued   *)
(* tasks into pull requests.  The two share nothing but files:             *)
(*                                                                         *)
(*     queue/<id>.json    written by dispatch, read and unlinked by runner *)
(*     status/<id>.json   written by runner, read by dispatch              *)
(*                                                                         *)
(* and neither takes a lock, so a dispatch session is modelled file access *)
(* by file access.  The runner is modelled step by step because it can be  *)
(* stopped between any two of its steps (systemd, an Ansible handler, a    *)
(* reboot) and keeps nothing in memory that it could resume from.          *)
(***************************************************************************)
EXTENDS Naturals, FiniteSets

CONSTANTS
  Tasks,        \* the task ids: numbers, ordered as the id strings sort
  Sessions,     \* the dispatch.py processes that may run at the same time
  Ops,          \* the dispatch commands in use: "start", "status", "latest", "list"
  AgentResults, \* what an agent may have done when it ends: a subset of
                \* {"empty", "clean", "protected"}
  MaxActive,    \* config.json max_active
  StartWindow,  \* how many of the newest tasks `start` looks at (20)
  ListWindow,   \* how many of them `list` shows (5)
  MaxStops,     \* bound: how often the runner is stopped or its host rebooted
  None          \* no task

ASSUME TasksAssumption == Tasks \subseteq Nat /\ None \notin Tasks
ASSUME SessionsAssumption == IsFiniteSet(Sessions)
ASSUME OpsAssumption   == Ops \subseteq {"start", "status", "latest", "list"}
ASSUME AgentAssumption == AgentResults \subseteq {"empty", "clean", "protected"}
ASSUME BoundAssumption ==
  /\ MaxActive \in Nat /\ MaxStops \in Nat
  /\ StartWindow \in Nat /\ ListWindow \in Nat

VARIABLES
  queue,        \* ids with a file in queue/
  status,       \* content of status/<id>.json: its step, "failed", or "absent"
  pc,           \* where the runner is
  cur,          \* the runner's local variable `task`
  patch,        \* what the agent changed, by task
  agents,       \* tasks whose agent container is alive
  pushed,       \* tasks whose branch voice/<id> is on GitHub
  prs,          \* tasks with a pull request on GitHub
  spc,          \* where each dispatch session is
  op,           \* the command of each session
  todo,         \* ids the session has still to load
  active,       \* ids the session saw queued or running
  missing,      \* ids the session's load_status returned None for
  new,          \* the id the session generated
  accepted,     \* history: ids that were ever renamed into queue/
  interrupted,  \* history: tasks the runner held when it was stopped
  stops         \* history: number of stops, up to MaxStops

runnerVars  == <<pc, cur, patch, agents, pushed, prs, interrupted, stops>>
sessionVars == <<spc, op, todo, active, missing, new>>
vars == <<queue, status, accepted, runnerVars, sessionVars>>

\* What no step within a task touches.
frame == <<accepted, interrupted, stops, sessionVars>>

-----------------------------------------------------------------------------
(* The status file: its "step" while the state is running or done.         *)

Running  == {"cloning", "agent working", "collecting changes", "pushing"}
Done     == {"no changes", "pr opened"}
Terminal == Done \cup {"failed"}
Statuses == {"absent"} \cup Running \cup Terminal

HasFile(t) == status[t] # "absent"
Unsettled  == {t \in Tasks : status[t] \in Running}
Settled    == {t \in Tasks : status[t] \in Terminal}

\* runner.py holds a task from the unlink of its queue file to its last
\* write_status; in Trying an exception reaches the handlers of main.
Trying  == {"taken", "cloning", "launch", "agent", "collecting", "apply",
            "push", "pr", "record"}
Holding == Trying \cup {"failing"}
Held    == IF pc \in Holding THEN {cur} ELSE {}

Steps        == {"down", "poll", "picked"} \cup Holding
SessionSteps == {"idle", "scan queue", "load", "load queue", "enqueue", "reply"}
Patches      == {"none", "empty", "clean", "protected"}

-----------------------------------------------------------------------------
(* dispatch.py                                                             *)

Newest(ids, n) == {t \in ids : Cardinality({u \in ids : u > t}) < n}

WindowOf(o) == CASE o = "start"  -> StartWindow
                 [] o = "latest" -> 1
                 [] o = "list"   -> ListWindow

Starting == {s \in Sessions : spc[s] # "idle" /\ op[s] = "start"}

\* recent(n), first half: the ids in status/.  Bound: a start begins only
\* while there is an id left for it.
BeginRecent(s) ==
  /\ spc[s] = "idle"
  /\ \E o \in Ops \ {"status"} :
       /\ o = "start" => Cardinality(Tasks \ accepted) > Cardinality(Starting)
       /\ op' = [op EXCEPT ![s] = o]
  /\ todo' = [todo EXCEPT ![s] = {t \in Tasks : HasFile(t)}]
  /\ spc' = [spc EXCEPT ![s] = "scan queue"]
  /\ UNCHANGED <<queue, status, accepted, runnerVars, active, missing, new>>

\* recent(n), second half: those in queue/, and the newest n of them all.
ScanQueue(s) ==
  /\ spc[s] = "scan queue"
  /\ todo' = [todo EXCEPT ![s] = Newest(@ \cup queue, WindowOf(op[s]))]
  /\ spc' = [spc EXCEPT ![s] = "load"]
  /\ UNCHANGED <<queue, status, accepted, runnerVars, op, active, missing, new>>

\* status <id>, for an id that some start returned.
BeginStatus(s) ==
  /\ spc[s] = "idle"
  /\ "status" \in Ops
  /\ op' = [op EXCEPT ![s] = "status"]
  /\ \E t \in accepted : todo' = [todo EXCEPT ![s] = {t}]
  /\ spc' = [spc EXCEPT ![s] = "load"]
  /\ UNCHANGED <<queue, status, accepted, runnerVars, active, missing, new>>

IsNext(t, s) == t \in todo[s] /\ \A u \in todo[s] : u <= t

\* load_status of the newest id left: the status file, if it is there.
LoadStatus(s) ==
  /\ spc[s] = "load"
  /\ \E t \in Tasks :
       /\ IsNext(t, s)
       /\ HasFile(t)
       /\ todo' = [todo EXCEPT ![s] = @ \ {t}]
       /\ active' = [active EXCEPT ![s] = @ \cup ({t} \cap Unsettled)]
  /\ UNCHANGED <<queue, status, accepted, runnerVars, spc, op, missing, new>>

NoStatus(s) ==
  /\ spc[s] = "load"
  /\ \E t \in Tasks : IsNext(t, s) /\ ~ HasFile(t)
  /\ spc' = [spc EXCEPT ![s] = "load queue"]
  /\ UNCHANGED <<queue, status, accepted, runnerVars, op, todo, active, missing, new>>

\* load_status, when there was no status file: look in the queue.
LoadQueue(s) ==
  /\ spc[s] = "load queue"
  /\ \E t \in Tasks :
       /\ IsNext(t, s)
       /\ todo' = [todo EXCEPT ![s] = @ \ {t}]
       /\ active' = [active EXCEPT ![s] = @ \cup ({t} \cap queue)]
       /\ missing' = [missing EXCEPT ![s] = @ \cup ({t} \ queue)]
  /\ spc' = [spc EXCEPT ![s] = "load"]
  /\ UNCHANGED <<queue, status, accepted, runnerVars, op, new>>

LoadedAll(s) == spc[s] = "load" /\ todo[s] = {}

\* A lenient form of Full: one task too many is let in.
Full_OffByOne(n) == n > MaxActive

Full(n) == n >= MaxActive

\* Ids made of the second alone: two sessions may draw the same one.
Admit_SecondsOnly(s) ==
  /\ LoadedAll(s)
  /\ op[s] = "start"
  /\ ~ Full(Cardinality(active[s]))
  /\ \E t \in Tasks \ accepted : new' = [new EXCEPT ![s] = t]
  /\ spc' = [spc EXCEPT ![s] = "enqueue"]
  /\ UNCHANGED <<queue, status, accepted, runnerVars, op, todo, active, missing>>

\* The limit allows another task: generate its id and write the hidden
\* .<id>.tmp file.  Ids carry the local time to the second and 16 random
\* bits; they are taken to be new, but in no order (same second, DST).
Admit(s) ==
  /\ LoadedAll(s)
  /\ op[s] = "start"
  /\ ~ Full(Cardinality(active[s]))
  /\ \E t \in Tasks \ accepted :
       /\ \A r \in Sessions : new[r] # t
       /\ new' = [new EXCEPT ![s] = t]
  /\ spc' = [spc EXCEPT ![s] = "enqueue"]
  /\ UNCHANGED <<queue, status, accepted, runnerVars, op, todo, active, missing>>

\* tmp.rename(queue/<id>.json)
Enqueue(s) ==
  /\ spc[s] = "enqueue"
  /\ queue' = queue \cup {new[s]}
  /\ accepted' = accepted \cup {new[s]}
  /\ spc' = [spc EXCEPT ![s] = "reply"]
  /\ UNCHANGED <<status, runnerVars, op, todo, active, missing, new>>

\* The session's answer has been decided: a refusal, a report, or the new id.
Answered(s) ==
  \/ spc[s] = "reply"
  \/ LoadedAll(s) /\ (op[s] = "start" => Full(Cardinality(active[s])))

EndSession(s) ==
  /\ spc' = [spc EXCEPT ![s] = "idle"]
  /\ todo' = [todo EXCEPT ![s] = {}]
  /\ active' = [active EXCEPT ![s] = {}]
  /\ missing' = [missing EXCEPT ![s] = {}]
  /\ new' = [new EXCEPT ![s] = None]
  /\ op' = [op EXCEPT ![s] = "none"]

\* out(): print the answer and exit.
Reply(s) ==
  /\ Answered(s)
  /\ EndSession(s)
  /\ UNCHANGED <<queue, status, accepted, runnerVars>>

Dispatch(s) ==
  \/ BeginRecent(s) \/ ScanQueue(s) \/ BeginStatus(s) \/ LoadStatus(s) \/ NoStatus(s)
  \/ LoadQueue(s) \/ Admit(s) \/ Enqueue(s) \/ Reply(s)

-----------------------------------------------------------------------------
(* runner.py                                                               *)

Goto(from, to) == pc = from /\ pc' = to

\* write_status: the status file of the task in hand, whatever was in it.
WriteStatus(st) == status' = [status EXCEPT ![cur] = st]

\* main: the oldest queued id, `sorted(QUEUE.glob(...))[0]`.
Poll ==
  /\ Goto("poll", "picked")
  /\ \E t \in queue :
       /\ \A u \in queue : t <= u
       /\ cur' = t
  /\ UNCHANGED <<queue, status, patch, agents, pushed, prs, frame>>

\* The queue file left in place, so that the task is found again.
Unlink_Forgotten == queue' = queue

Unlink == queue' = queue \ {cur}

\* main: read the request, unlink its file.
Take ==
  /\ Goto("picked", "taken")
  /\ Unlink
  /\ UNCHANGED <<status, cur, patch, agents, pushed, prs, frame>>

\* process: a fresh task directory, the first status.
Begin ==
  /\ Goto("taken", "cloning")
  /\ WriteStatus("cloning")
  /\ UNCHANGED <<queue, cur, patch, agents, pushed, prs, frame>>

\* process: both clones made.
Cloned ==
  /\ Goto("cloning", "launch")
  /\ WriteStatus("agent working")
  /\ UNCHANGED <<queue, cur, patch, agents, pushed, prs, frame>>

\* run_agent: docker run.
Launch ==
  /\ Goto("launch", "agent")
  /\ agents' = agents \cup {cur}
  /\ UNCHANGED <<queue, status, cur, patch, pushed, prs, frame>>

\* A result taken from a container that is not waited for (docker run -d).
AgentFinished_Detached ==
  /\ Goto("agent", "collecting")
  /\ agents' \in {agents, agents \ {cur}}
  /\ \E p \in AgentResults : patch' = [patch EXCEPT ![cur] = p]
  /\ WriteStatus("collecting changes")
  /\ UNCHANGED <<queue, cur, pushed, prs, frame>>

\* run_agent: the container ended with a result, having changed nothing,
\* something, or something it must not.
AgentFinished ==
  /\ Goto("agent", "collecting")
  /\ agents' = agents \ {cur}
  /\ \E p \in AgentResults : patch' = [patch EXCEPT ![cur] = p]
  /\ WriteStatus("collecting changes")
  /\ UNCHANGED <<queue, cur, pushed, prs, frame>>

\* run_agent raises: no usable result, or past max_minutes, and then
\* nobody looks at whether `docker kill` worked.
AgentFailed ==
  /\ Goto("agent", "failing")
  /\ agents' \in {agents, agents \ {cur}}
  /\ UNCHANGED <<queue, status, cur, patch, pushed, prs, frame>>

\* The runner is done with its task.
Settle(st) ==
  /\ WriteStatus(st)
  /\ pc' = "poll"
  /\ cur' = None

\* export_patch: the changes, if there are any.
Collect ==
  /\ pc = "collecting"
  /\ IF patch[cur] = "empty"
       THEN Settle("no changes")
       ELSE pc' = "apply" /\ UNCHANGED <<status, cur>>
  /\ UNCHANGED <<queue, patch, agents, pushed, prs, frame>>

\* The FORBIDDEN_PATHS test left out.
MayCommit_Unchecked == patch[cur] # "empty"

MayCommit == patch[cur] = "clean"

\* process: check the paths that changed in pristine/, commit.
Apply ==
  /\ Goto("apply", "push")
  /\ MayCommit
  /\ WriteStatus("pushing")
  /\ UNCHANGED <<queue, cur, patch, agents, pushed, prs, frame>>

\* git push takes effect on GitHub, whatever the runner hears of it (it
\* waits 300 seconds).
Push ==
  /\ pc = "push"
  /\ pushed' = pushed \cup {cur}
  /\ pc' \in {"pr", "failing"}
  /\ UNCHANGED <<queue, status, cur, patch, agents, prs, frame>>

\* The answer of the pull request call not looked at.
OpenPr_AnswerIgnored ==
  /\ pc = "pr"
  /\ prs' \in {prs, prs \cup {cur}}
  /\ pc' = "record"
  /\ UNCHANGED <<queue, status, cur, patch, agents, pushed, frame>>

\* open_pr takes effect on GitHub (the runner waits 30 seconds).
OpenPr ==
  /\ pc = "pr"
  /\ prs' = prs \cup {cur}
  /\ pc' \in {"record", "failing"}
  /\ UNCHANGED <<queue, status, cur, patch, agents, pushed, frame>>

Record ==
  /\ pc = "record"
  /\ Settle("pr opened")
  /\ UNCHANGED <<queue, patch, agents, pushed, prs, frame>>

\* A command, an API call or a write_status of process raises with no
\* effect; so does the check of the changed paths when it finds a bad one.
StepFails ==
  /\ pc \in Trying \ {"agent"}
  /\ pc' = "failing"
  /\ UNCHANGED <<queue, status, cur, patch, agents, pushed, prs, frame>>

\* The failure logged but not written to the status file.
Land_Silent ==
  /\ Goto("failing", "poll")
  /\ cur' = None
  /\ UNCHANGED <<queue, status, patch, agents, pushed, prs, frame>>

\* The except clause that lands a failure in the status file.
Land ==
  /\ pc = "failing"
  /\ Settle("failed")
  /\ UNCHANGED <<queue, patch, agents, pushed, prs, frame>>

RunnerStep ==
  \/ Poll \/ Take \/ Begin \/ Cloned \/ Launch \/ AgentFinished \/ AgentFailed
  \/ Collect \/ Apply \/ Push \/ OpenPr \/ Record \/ StepFails \/ Land

Down ==
  /\ stops < MaxStops
  /\ stops' = stops + 1
  /\ pc # "down"
  /\ pc' = "down"
  /\ cur' = None
  /\ interrupted' = interrupted \cup Held
  /\ UNCHANGED <<queue, status, accepted, patch, pushed, prs>>

\* systemd stops the runner, or it dies of an exception outside the try (a
\* write_status in an except clause).  The agent container belongs to
\* dockerd and may outlive it.
Stop ==
  /\ Down
  /\ agents' \in {agents, agents \ Held}
  /\ UNCHANGED sessionVars

\* nuc4 reboots.  Containers run with --rm and no restart policy, and a
\* dispatch session dies where it is.
Reboot ==
  /\ Down
  /\ agents' = {}
  /\ spc' = [s \in Sessions |-> "idle"]
  /\ op' = [s \in Sessions |-> "none"]
  /\ todo' = [s \in Sessions |-> {}]
  /\ active' = [s \in Sessions |-> {}]
  /\ missing' = [s \in Sessions |-> {}]
  /\ new' = [s \in Sessions |-> None]

\* Restart=always.  main looks at the queue and at nothing else.
Restart ==
  /\ Goto("down", "poll")
  /\ UNCHANGED <<queue, status, cur, patch, agents, pushed, prs, frame>>

\* A container nobody waits for any more ends by itself.
OrphanExits ==
  /\ \E t \in agents \ Held : agents' = agents \ {t}
  /\ UNCHANGED <<queue, status, pc, cur, patch, pushed, prs, frame>>

-----------------------------------------------------------------------------

Init ==
  /\ queue = {}
  /\ status = [t \in Tasks |-> "absent"]
  /\ pc = "poll"
  /\ cur = None
  /\ patch = [t \in Tasks |-> "none"]
  /\ agents = {} /\ pushed = {} /\ prs = {}
  /\ spc = [s \in Sessions |-> "idle"]
  /\ op = [s \in Sessions |-> "none"]
  /\ todo = [s \in Sessions |-> {}]
  /\ active = [s \in Sessions |-> {}]
  /\ missing = [s \in Sessions |-> {}]
  /\ new = [s \in Sessions |-> None]
  /\ accepted = {} /\ interrupted = {} /\ stops = 0

Next ==
  \/ \E s \in Sessions : Dispatch(s)
  \/ RunnerStep
  \/ Stop \/ Reboot \/ Restart \/ OrphanExits

SafeSpec == Init /\ [][Next]_vars

\* Every runner step is bounded by a timeout of its own and systemd restarts
\* the runner.  Nothing makes anyone call dispatch, so it is not fair.
Spec == SafeSpec /\ WF_vars(RunnerStep) /\ WF_vars(Restart)

-----------------------------------------------------------------------------
(* Properties                                                              *)

\* Every variable has its type, and the runner holds a task exactly from
\* choosing it to settling it (runner.py main, `task`).
TypeOK ==
  /\ queue \subseteq Tasks /\ accepted \subseteq Tasks /\ interrupted \subseteq Tasks
  /\ agents \subseteq Tasks /\ pushed \subseteq Tasks /\ prs \subseteq Tasks
  /\ status \in [Tasks -> Statuses]
  /\ patch \in [Tasks -> Patches]
  /\ pc \in Steps
  /\ cur \in Tasks \cup {None}
  /\ cur = None <=> pc \in {"down", "poll"}
  /\ spc \in [Sessions -> SessionSteps]
  /\ op \in [Sessions -> Ops \cup {"none"}]
  /\ todo \in [Sessions -> SUBSET Tasks]
  /\ active \in [Sessions -> SUBSET Tasks]
  /\ missing \in [Sessions -> SUBSET Tasks]
  /\ new \in [Sessions -> Tasks \cup {None}]
  /\ stops \in 0 .. MaxStops

\* No accepted task is lost or held twice: it waits in queue/, or the runner
\* holds it, or its status is final, or the runner was stopped under it, and
\* exactly one of these (the unlink at runner.py:302 against the status
\* files and the stops).
LedgerBalances ==
  /\ accepted = queue \cup Held \cup Settled \cup interrupted
  /\ queue \cap (Held \cup Settled \cup interrupted) = {}
  /\ Held \cap (Settled \cup interrupted) = {}
  /\ Settled \cap interrupted = {}

\* A status of "running" is true of the runner's own task, or it is a task
\* the runner was stopped under and will never touch again.
RunningIsHeld == Unsettled \subseteq Held \cup interrupted

\* What reached GitHub passed the protected-path check, and no pull request
\* is opened from a branch that was not pushed (runner.py:226-238).
OnlyCleanPublished ==
  /\ \A t \in pushed : patch[t] = "clean"
  /\ prs \subseteq pushed

\* A final status tells the truth about GitHub: "pr opened" only with a
\* pull request, "no changes" only with nothing pushed (runner.py:216-240).
OutcomeTruthful ==
  \A t \in Tasks :
    /\ status[t] = "pr opened" => t \in prs
    /\ status[t] = "no changes" => t \notin pushed

\* A container is alive only for the task being worked on, for one the
\* runner was stopped under, or for one that failed and could not be killed.
AgentsAccountedFor ==
  agents \subseteq Held \cup interrupted \cup {t \in Tasks : status[t] = "failed"}

\* However the sessions and the runner interleave, the limit is passed by at
\* most one task for each session that may be running (dispatch.py:65-77
\* decides on what it read earlier, and misses a task between queue/ and
\* status/).
CapacityOvershoot ==
  Cardinality(queue \cup Held) <= MaxActive + Cardinality(Sessions)

\* A final status is never rewritten: a task is not run a second time.
FinalIsFinal ==
  [][\A t \in Settled : status'[t] = status[t]]_vars

\* Whatever stops the runner, a task still in queue/ is worked on in the
\* end, and it gets a final status unless the runner is stopped under it.
QueuedTaskEnds ==
  \A t \in Tasks : t \in queue ~> t \in Settled \cup interrupted

\* The tasks that a start counts never fill max_active for good, those apart
\* under which the runner was stopped (runner.py:199-240 against
\* dispatch.py:65).
RoomReturns == []<>(~ Full(Cardinality(queue \cup (Unsettled \ interrupted))))

\* A refused start may be tried again: again and again there is room, as
\* the refusal says, "try again when one finishes" (dispatch.py:67).
RefusalEnds == []<>(~ Full(Cardinality(queue \cup Unsettled)))

\* home-mcp tells the caller "ask me for its status any time"
\* (tasks.py:123): an accepted task is always found. It is not: between Unlink
\* and Begin a task has no file, and load_status asks for its two files one
\* after the other (README, known weaknesses).
StatusAlwaysFound == \A s \in Sessions : op[s] = "status" => missing[s] = {}

-----------------------------------------------------------------------------
(* The inductive invariant behind the safety properties (VoiceWorkerProofs). *)

\* The status file of the task in hand says where the runner is.
StatusFollowsRunner ==
  /\ pc = "picked" => cur \in queue
  /\ pc = "taken" => status[cur] = "absent"
  /\ pc = "cloning" => status[cur] = "cloning"
  /\ pc \in {"launch", "agent"} => status[cur] = "agent working"
  /\ pc \in {"collecting", "apply"} => status[cur] = "collecting changes"
  /\ pc \in {"push", "pr", "record"} => status[cur] = "pushing"

\* Only tasks that left the queue have a status file.
OnlyTakenHaveFiles ==
  \A t \in Tasks : HasFile(t) => t \in Held \cup Settled \cup interrupted

\* The id a session is about to enqueue is nobody else's.
NewIdsAreFresh ==
  \A s \in Sessions :
    /\ spc[s] = "enqueue" => new[s] \in Tasks \ accepted
    /\ \A r \in Sessions \ {s} : new[s] # None => new[s] # new[r]

\* What is on GitHub belongs to a task in hand that got that far, or to one
\* that is over.
PublishedPlaced ==
  /\ pushed \subseteq Settled \cup interrupted \cup
        (IF pc \in {"pr", "record", "failing"} THEN {cur} ELSE {})
  /\ pc \in {"push", "pr", "record"} => patch[cur] = "clean"
  /\ pc \in {"pr", "record"} => cur \in pushed
  /\ pc = "record" => cur \in prs

AgentsPlaced == cur \in agents => pc \in {"agent", "failing"}

IInv ==
  /\ TypeOK
  /\ LedgerBalances
  /\ StatusFollowsRunner
  /\ OnlyTakenHaveFiles
  /\ NewIdsAreFresh
  /\ OnlyCleanPublished
  /\ OutcomeTruthful
  /\ PublishedPlaced
  /\ AgentsAccountedFor
  /\ AgentsPlaced

-----------------------------------------------------------------------------
(* The worker implements the ledger of VoiceTasks.                         *)

EndingOf(st) ==
  CASE st = "pr opened" -> "pull request"
    [] st = "no changes" -> "no change"
    [] st = "failed" -> "failed"
    [] OTHER -> "unknown"

PhaseOf(t) ==
  IF t \in queue THEN "queued"
  ELSE IF t \in Held THEN "working"
  ELSE IF t \in interrupted THEN "lost"
  ELSE EndingOf(status[t])

phaseBar == [t \in Tasks |-> PhaseOf(t)]

Ledger == INSTANCE VoiceTasks WITH phase <- phaseBar, published <- pushed

\* Seen from outside, the worker is the ledger: tasks are worked on one at a
\* time, published only while worked on, and every ending is final.
ImplementsLedger == Ledger!Spec

=============================================================================
