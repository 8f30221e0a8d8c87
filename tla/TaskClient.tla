----------------------------- MODULE TaskClient -----------------------------
(* home-mcp's side of the voice coding tasks (tasks.py), over the ledger     *)
(* that the worker implements (VoiceTasks): each call is one SSH command,   *)
(* given up after thirty seconds whatever has become of it on nuc4.         *)
EXTENDS Integers, FiniteSets, FiniteSetsExt

CONSTANTS Clients,
          Tasks    \* task ids: numbers, in the order they are drawn

ASSUME ClientsAssumption == IsFiniteSet(Clients)
ASSUME TasksAssumption == Tasks \subseteq Nat \ {0}

VARIABLES
    phase, published,   \* the ledger
    tCall,       \* what each client's call is doing
    tAnswer,     \* the last answer
    tOrphans,    \* start commands on nuc4 that nobody waits for any more
    tUntold,     \* history: start calls given up, or lost with the container
    tTold        \* history: tasks that a client was told of

tVars == <<phase, published, tCall, tAnswer, tOrphans, tUntold, tTold>>

Ledger == INSTANCE VoiceTasks

NoCall == [at |-> "idle"]
TheLatest == 0
All == -1
Starting(c) == tCall[c].at = "start"
Accepted == {t \in Tasks : phase[t] # "unknown"}

TInit ==
    /\ Ledger!Init
    /\ tCall = [c \in Clients |-> NoCall]
    /\ tAnswer = {} /\ tOrphans = 0 /\ tUntold = 0 /\ tTold = {}

Tell(c, answer) ==
    /\ tAnswer' = answer
    /\ tCall' = [tCall EXCEPT ![c] = NoCall]

ledger == <<phase, published>>
history == <<tUntold, tTold>>

-----------------------------------------------------------------------------
(* start_task *)

\* Switched off, or a repository that is not allowed: nothing is sent.
StartTask(c) ==
    /\ tCall[c] = NoCall
    /\ \/ Tell(c, {<<"refused", 0>>})
       \/ tCall' = [tCall EXCEPT ![c] = [at |-> "start", task |-> 0]] /\ UNCHANGED tAnswer
    /\ UNCHANGED <<ledger, tOrphans, history>>

\* The worker draws an id that is larger than those before.
Queue(t) == t = Min(Tasks \ Accepted) /\ Ledger!Accept(t)

WorkerQueues(c) ==
    /\ Starting(c) /\ tCall[c].task = 0
    /\ \E t \in Tasks \ Accepted : Queue(t) /\ tCall' = [tCall EXCEPT ![c].task = t]
    /\ UNCHANGED <<tAnswer, tOrphans, history>>

\* The worker refuses, is not reached, or cannot be asked for want of a key.
WorkerRefuses(c) ==
    /\ Starting(c) /\ tCall[c].task = 0
    /\ Tell(c, {<<"couldn't", 0>>})
    /\ UNCHANGED <<ledger, tOrphans, history>>

\* A start that is not answered in time is sent again.
StartTimesOut_SentAgain(c) ==
    /\ Starting(c)
    /\ tCall' = [tCall EXCEPT ![c].task = 0]
    /\ UNCHANGED <<ledger, tAnswer, tOrphans, history>>

\* The SSH client is killed, the command on nuc4 is not.
StartTimesOut(c) ==
    /\ Starting(c)
    /\ tOrphans' = tOrphans + (IF tCall[c].task = 0 THEN 1 ELSE 0)
    /\ tUntold' = tUntold + 1
    /\ Tell(c, {<<"couldn't", 0>>})
    /\ UNCHANGED <<ledger, tTold>>

\* The mail is tried, and sent or not, before the client hears of the task.
HearQueued(c) ==
    /\ Starting(c) /\ tCall[c].task # 0
    /\ tTold' = tTold \cup {tCall[c].task}
    /\ Tell(c, {<<"started", tCall[c].task>>})
    /\ UNCHANGED <<ledger, tOrphans, tUntold>>

-----------------------------------------------------------------------------
(* task_status *)

\* One task, the latest, or all of them.
AskTasks(c) ==
    /\ tCall[c] = NoCall
    /\ \E about \in {TheLatest, All} \cup Tasks : tCall' = [tCall EXCEPT ![c] = [at |-> "status", about |-> about]]
    /\ UNCHANGED <<ledger, tAnswer, tOrphans, history>>

\* _spoken: an "error" in what the worker says of a task is all that is said, and
\* a failed task has one. A task the worker lost still has the state "running".
Spoken(t) ==
    CASE phase[t] = "queued" -> <<"queued", t>>
      [] phase[t] \in {"working", "lost"} -> <<"running", t>>
      [] phase[t] = "pull request" -> <<"pull request", t>>
      [] phase[t] = "no change" -> <<"finished", t>>
      [] phase[t] = "failed" -> <<"the error", 0>>
      [] phase[t] = "unknown" -> <<"no task", 0>>

AskedFor(about) ==
    CASE about = All -> Accepted
      [] about = TheLatest -> IF Accepted = {} THEN {} ELSE {Max(Accepted)}
      [] OTHER -> {about}

\* The worker reads its files and home-mcp speaks of them, or it is not reached.
HearTasks(c) ==
    /\ tCall[c].at = "status"
    /\ \/ Tell(c, {Spoken(t) : t \in AskedFor(tCall[c].about)})
       \/ Tell(c, {<<"couldn't", 0>>})
    /\ UNCHANGED <<ledger, tOrphans, history>>

-----------------------------------------------------------------------------
(* nuc4, and the container of home-mcp *)

OrphanEnds ==
    /\ tOrphans > 0
    /\ tOrphans' = tOrphans - 1
    /\ UNCHANGED ledger \/ \E t \in Tasks \ Accepted : Queue(t)
    /\ tAnswer' = {}
    /\ UNCHANGED <<tCall, history>>

WorkerWorks ==
    /\ \E t \in Tasks : Ledger!Start(t) \/ Ledger!Publish(t) \/ Ledger!End(t)
    /\ tAnswer' = {}
    /\ UNCHANGED <<tCall, tOrphans, history>>

\* The container is replaced: the calls are gone, the commands on nuc4 are not.
TRestart ==
    /\ tOrphans' = tOrphans + Cardinality({c \in Clients : Starting(c) /\ tCall[c].task = 0})
    /\ tUntold' = tUntold + Cardinality({c \in Clients : Starting(c)})
    /\ tCall' = [c \in Clients |-> NoCall]
    /\ tAnswer' = {}
    /\ UNCHANGED <<ledger, tTold>>

\* Bound: as many starts are given up as there are tasks, and two at a time.
TNext ==
    /\ \/ \E c \in Clients :
             \/ StartTask(c) \/ WorkerQueues(c) \/ WorkerRefuses(c) \/ StartTimesOut(c)
             \/ HearQueued(c) \/ AskTasks(c) \/ HearTasks(c)
       \/ OrphanEnds \/ WorkerWorks \/ TRestart
    /\ tUntold' <= Cardinality(Tasks) /\ tOrphans' <= 2

TSpec == TInit /\ [][TNext]_tVars

-----------------------------------------------------------------------------

\* The worker's queue holds what clients asked for and no more: a task that nobody
\* was told of has a start that is still answered or was given up, one each; so a
\* refusal leaves nothing behind, and a task is queued twice only after a time-out that
\* a client took for a refusal.
TasksAccounted ==
    /\ tTold \subseteq Accepted
    /\ Cardinality(Accepted \ tTold) + tOrphans
         <= tUntold + Cardinality({c \in Clients : Starting(c) /\ tCall[c].task # 0})
    /\ \A c, d \in Clients :
          Starting(c) /\ tCall[c].task # 0 =>
              tCall[c].task \notin tTold /\ (Starting(d) /\ c # d => tCall[c].task # tCall[d].task)

=============================================================================
