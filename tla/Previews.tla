------------------------------ MODULE Previews ------------------------------
(***************************************************************************)
(* Per-PR preview environments on the hub (ADR-0023).  Every push to a pull *)
(* request runs preview-up.sh, closing it runs preview-down.sh, and every  *)
(* night preview-sweep.sh removes what is left.  They are started by SSM    *)
(* from workflows without a common lock, so any number of them run at the  *)
(* same time on the same preview, and each is modelled command by command. *)
(***************************************************************************)
EXTENDS Naturals, FiniteSets

CONSTANTS
  Previews,     \* projects <app>-pr<n>
  Pushes,       \* numbers, in the order of the pushes: each is one preview-up.sh
  MaxPreviews,  \* MAX_PREVIEWS
  Faulty,       \* what may go wrong by itself: a subset of {"up", "down", "github"}
  MaxEvents,    \* bound: failures and, counted twice, pushes
  Sweeper,      \* the preview-down.sh that preview-sweep.sh calls
  None

ASSUME PushesAssumption == Pushes \subseteq Nat /\ None \notin Pushes \cup Previews
ASSUME SweeperAssumption == Sweeper \notin Previews
ASSUME BoundAssumption == MaxPreviews \in Nat /\ MaxEvents \in Nat
ASSUME FiniteAssumption == IsFiniteSet(Previews)

VARIABLES
  pr,          \* GitHub: the pull request is "open" or "closed"
  containers,  \* the Compose project: "none", "stopped", "running"
  dir,         \* previews/<proj>: the push whose mkdir made it, or None
  compose,     \* those with a docker-compose.yml in it
  env,         \* the push whose password is in .env, or None
  meta,        \* those with a meta file
  old,         \* those whose meta is MAX_DAYS old
  role,        \* the push whose password the Postgres role has, or None
  db,          \* the database: "none", "empty" (or half filled), "seeded"
  up,          \* where each preview-up.sh is
  at,          \* its project
  cwd,         \* the directory it changed to
  down,        \* where each preview-down.sh is: one per project, and Sweeper
  sweep,       \* where preview-sweep.sh is
  sweeping,    \* the project Sweeper removes
  left,        \* projects the current loop of the sweep has still to visit
  seen,        \* the associative array of the sweep
  faults,      \* history: how often each kind of failure happened
  overlaps     \* history: runs that counted while another was between its
               \* count and its end

files  == <<dir, compose, env, meta, old>>
pg     == <<role, db>>
ups    == <<up, at, cwd>>
sweeps == <<sweep, sweeping, left, seen>>
vars   == <<pr, containers, files, pg, ups, down, sweeps, faults, overlaps>>

\* What a step of preview-up.sh, or of the other two scripts, leaves alone.
upFrame   == <<pr, at, down, sweeps, faults, overlaps>>
downFrame == <<pr, ups, overlaps>>

Removers  == Previews \cup {Sweeper}
Target(r) == IF r = Sweeper THEN sweeping ELSE r

UpEnds  == {"ready", "failed", "refused"}
UpSteps == {"capacity", "mkdir", "rewrite", "check", "drop db", "drop role",
            "create role", "create db", "seed", "env", "meta", "pull", "up", "health"}
DownSteps == {"compose", "drop db", "drop role", "rm"}

Kinds == {"up", "down", "github"}

Events ==
  2 * Cardinality({u \in Pushes : up[u] # "none"})
    + faults["up"] + faults["down"] + faults["github"]

Fault(k) ==
  /\ k \in Faulty /\ Events < MaxEvents
  /\ faults' = [faults EXCEPT ![k] = @ + 1]

Busy(p) ==
  \/ \E u \in Pushes : at[u] = p /\ up[u] \in UpSteps
  \/ \E r \in Removers : down[r] # "idle" /\ Target(r) = p

-----------------------------------------------------------------------------
(* GitHub and time                                                         *)

\* app-preview.yml on opened, synchronize, reopened: action=up.
Push(u) ==
  /\ up[u] = "none" /\ Events + 1 < MaxEvents
  /\ \A v \in Pushes : v < u => up[v] # "none"
  /\ \E p \in Previews :
       /\ pr' = [pr EXCEPT ![p] = "open"]
       /\ at' = [at EXCEPT ![u] = p]
  /\ up' = [up EXCEPT ![u] = "capacity"]
  /\ UNCHANGED <<containers, files, pg, cwd, down, sweeps, faults, overlaps>>

\* app-preview.yml on closed: action=down.
Close(p) ==
  /\ pr[p] = "open"
  /\ pr' = [pr EXCEPT ![p] = "closed"]
  /\ down[p] = "idle"
  /\ down' = [down EXCEPT ![p] = "compose"]
  /\ UNCHANGED <<containers, files, pg, ups, sweeps, faults, overlaps>>

\* A week passes.
Age(p) ==
  /\ p \in meta \ old
  /\ old' = old \cup {p}
  /\ UNCHANGED <<pr, containers, dir, compose, env, meta, pg, ups, down, sweeps, faults,
                 overlaps>>

-----------------------------------------------------------------------------
(* preview-up.sh                                                           *)

\* set -e: a command that cannot succeed ends the script.
Do(u, step, possible, next) ==
  /\ up[u] = step
  /\ up' = [up EXCEPT ![u] = IF possible THEN next ELSE "failed"]

Others(p) == {q \in Previews \ {p} : containers[q] = "running"}

Counted == UpSteps \ {"capacity"}

\* A lenient form of NoRoom: one preview too many is let in.
NoRoom_OffByOne(p) == Cardinality(Others(p)) > MaxPreviews

NoRoom(p) == Cardinality(Others(p)) >= MaxPreviews

\* Capacity, once, before anything else.
Capacity(u) ==
  /\ up[u] = "capacity"
  /\ up' = [up EXCEPT ![u] = IF NoRoom(at[u]) THEN "refused" ELSE "mkdir"]
  /\ overlaps' = overlaps + (IF \E v \in Pushes : up[v] \in Counted THEN 1 ELSE 0)
  /\ UNCHANGED <<pr, containers, files, pg, at, cwd, down, sweeps, faults>>

MakeDir(u) ==
  /\ Do(u, "mkdir", TRUE, "rewrite")
  /\ dir' = [dir EXCEPT ![at[u]] = IF @ = None THEN u ELSE @]
  /\ UNCHANGED <<upFrame, containers, compose, env, meta, old, pg, cwd>>

\* preview-compose.py --strict writes docker-compose.yml.
Rewrite(u) ==
  LET possible == dir[at[u]] # None IN
  /\ Do(u, "rewrite", possible, "check")
  /\ compose' = IF possible THEN compose \cup {at[u]} ELSE compose
  /\ UNCHANGED <<upFrame, containers, dir, env, meta, old, pg, cwd>>

\* No .env: the first deploy of this pull request.
CheckEnv(u) ==
  LET first == env[at[u]] = None IN
  /\ Do(u, "check", TRUE, IF first THEN "drop db" ELSE "pull")
  /\ UNCHANGED <<upFrame, containers, files, pg, cwd>>

\* The four statements of the first psql.  A role that owns a database
\* cannot be dropped, and a name cannot be created twice.
PrepareDb(u) ==
  LET p == at[u] IN
  /\ \/ /\ Do(u, "drop db", TRUE, "drop role")
        /\ db' = [db EXCEPT ![p] = "none"]
        /\ UNCHANGED role
     \/ /\ Do(u, "drop role", db[p] = "none", "create role")
        /\ role' = [role EXCEPT ![p] = IF db[p] = "none" THEN None ELSE @]
        /\ UNCHANGED db
     \/ /\ Do(u, "create role", role[p] = None, "create db")
        /\ role' = [role EXCEPT ![p] = IF @ = None THEN u ELSE @]
        /\ UNCHANGED db
     \/ LET possible == db[p] = "none" /\ role[p] # None IN
        /\ Do(u, "create db", possible, "seed")
        /\ db' = [db EXCEPT ![p] = IF possible THEN "empty" ELSE @]
        /\ UNCHANGED role
  /\ UNCHANGED <<upFrame, containers, files, cwd>>

\* pg_dump of production, restored as the preview's role with its password.
Seed(u) ==
  LET p == at[u]
      possible == role[p] = u /\ db[p] # "none" IN
  /\ Do(u, "seed", possible, "env")
  /\ db' = [db EXCEPT ![p] = IF possible THEN "seeded" ELSE @]
  /\ UNCHANGED <<upFrame, containers, files, role, cwd>>

WriteEnv(u) ==
  LET p == at[u] IN
  /\ Do(u, "env", dir[p] # None, "meta")
  /\ env' = [env EXCEPT ![p] = IF dir[p] # None THEN u ELSE @]
  /\ UNCHANGED <<upFrame, containers, dir, compose, meta, old, pg, cwd>>

\* created=$(date +%s): from now on the preview ages.
WriteMeta(u) ==
  LET p == at[u] IN
  /\ Do(u, "meta", dir[p] # None, "pull")
  /\ meta' = IF dir[p] # None THEN meta \cup {p} ELSE meta
  /\ old' = IF dir[p] # None THEN old \ {p} ELSE old
  /\ UNCHANGED <<upFrame, containers, dir, compose, env, pg, cwd>>

\* cd "$DIR"; docker compose pull
Pull(u) ==
  LET p == at[u]
      possible == dir[p] # None /\ p \in compose IN
  /\ Do(u, "pull", possible, "up")
  /\ cwd' = [cwd EXCEPT ![u] = IF possible THEN dir[p] ELSE None]
  /\ UNCHANGED <<upFrame, containers, files, pg>>

\* docker compose up -d, in a directory that may have been removed since.
ComposeUp(u) ==
  LET p == at[u]
      possible == /\ dir[p] # None /\ dir[p] = cwd[u]
                  /\ p \in compose /\ env[p] # None IN
  /\ Do(u, "up", possible, "health")
  /\ containers' = [containers EXCEPT ![p] = IF possible THEN "running" ELSE @]
  /\ cwd' = [cwd EXCEPT ![u] = None]
  /\ UNCHANGED <<upFrame, files, pg>>

\* Thirty tries of /health.
Health(u) ==
  /\ up[u] = "health"
  /\ \E end \in {"ready", "failed"} : up' = [up EXCEPT ![u] = end]
  /\ UNCHANGED <<upFrame, containers, files, pg, cwd>>

\* A command fails by itself; `up -d` may leave containers created or exited.
UpFails(u) ==
  /\ Fault("up")
  /\ up[u] \in UpSteps
  /\ up' = [up EXCEPT ![u] = "failed"]
  /\ cwd' = [cwd EXCEPT ![u] = None]
  /\ containers' \in {containers} \cup
       (IF up[u] = "up" THEN {[containers EXCEPT ![at[u]] = "stopped"]} ELSE {})
  /\ UNCHANGED <<pr, files, pg, at, down, sweeps, overlaps>>

UpRun(u) ==
  \/ Capacity(u) \/ MakeDir(u) \/ Rewrite(u) \/ CheckEnv(u) \/ PrepareDb(u) \/ Seed(u)
  \/ WriteEnv(u) \/ WriteMeta(u) \/ Pull(u) \/ ComposeUp(u) \/ Health(u)

-----------------------------------------------------------------------------
(* preview-down.sh                                                         *)

\* The script ends; Sweeper's caller goes on whatever its exit code.
EndDown(r) == sweeping' = IF r = Sweeper THEN None ELSE sweeping

Continue(r, step, next) ==
  /\ down[r] = step
  /\ down' = [down EXCEPT ![r] = next]

\* docker compose down ... || true
ComposeDown(r) ==
  /\ Continue(r, "compose", "drop db")
  /\ \/ /\ containers' = [containers EXCEPT ![Target(r)] = "none"]
        /\ UNCHANGED faults
     \/ /\ Fault("down")
        /\ UNCHANGED containers
  /\ UNCHANGED <<downFrame, files, pg, sweeps>>

DropDb(r) ==
  /\ Continue(r, "drop db", "drop role")
  /\ db' = [db EXCEPT ![Target(r)] = "none"]
  /\ UNCHANGED <<downFrame, containers, files, role, sweeps, faults>>

DropRole(r) ==
  LET possible == db[Target(r)] = "none" IN
  /\ Continue(r, "drop role", IF possible THEN "rm" ELSE "idle")
  /\ role' = [role EXCEPT ![Target(r)] = IF possible THEN None ELSE @]
  /\ IF possible THEN UNCHANGED sweeping ELSE EndDown(r)
  /\ UNCHANGED <<downFrame, containers, files, db, sweep, left, seen, faults>>

\* The .env kept while the database it belongs to is gone.
RemoveDir_KeepsEnv(r) ==
  LET p == Target(r) IN
  /\ Continue(r, "rm", "idle")
  /\ dir' = dir
  /\ compose' = compose \ {p}
  /\ env' = env
  /\ meta' = meta \ {p}
  /\ old' = old \ {p}
  /\ EndDown(r)
  /\ UNCHANGED <<downFrame, containers, pg, sweep, left, seen, faults>>

\* rm -rf "$DIR"
RemoveDir(r) ==
  LET p == Target(r) IN
  /\ Continue(r, "rm", "idle")
  /\ dir' = [dir EXCEPT ![p] = None]
  /\ compose' = compose \ {p}
  /\ env' = [env EXCEPT ![p] = None]
  /\ meta' = meta \ {p}
  /\ old' = old \ {p}
  /\ EndDown(r)
  /\ UNCHANGED <<downFrame, containers, pg, sweep, left, seen, faults>>

\* The script fails or is killed before a command.
DownFails(r) ==
  /\ Fault("down")
  /\ down[r] # "idle"
  /\ down' = [down EXCEPT ![r] = "idle"]
  /\ EndDown(r)
  /\ UNCHANGED <<downFrame, containers, files, pg, sweep, left, seen>>

DownRun(r) == ComposeDown(r) \/ DropDb(r) \/ DropRole(r) \/ RemoveDir(r)

-----------------------------------------------------------------------------
(* preview-sweep.sh: one at a time, its workflows share a concurrency group *)

Remove(p) ==
  /\ down' = [down EXCEPT ![Sweeper] = "compose"]
  /\ sweeping' = p

SweepStart ==
  /\ sweep = "idle"
  /\ sweep' = "metas"
  /\ left' = meta
  /\ UNCHANGED <<downFrame, containers, files, pg, down, sweeping, seen, faults>>

Visit(p) == down[Sweeper] = "idle" /\ p \in left /\ left' = left \ {p}

\* Only the previews of closed pull requests are removed.
Expired_ClosedOnly(p, answer) == answer = "closed"

Expired(p, answer) == answer = "closed" \/ p \in old

\* The first loop: the meta files the shell found when it began.
SweepMeta(p) ==
  /\ sweep = "metas"
  /\ Visit(p)
  /\ seen' = IF p \in meta THEN seen \cup {p} ELSE seen
  /\ \E answer \in {pr[p], "unknown"} :
       /\ IF answer = "unknown" THEN Fault("github") ELSE UNCHANGED faults
       /\ IF p \in meta /\ Expired(p, answer)
            THEN Remove(p) ELSE UNCHANGED <<down, sweeping>>
  /\ UNCHANGED <<downFrame, containers, files, pg, sweep>>

\* The second loop left out.
SweepList_NoOrphans ==
  /\ sweep = "metas" /\ left = {} /\ down[Sweeper] = "idle"
  /\ sweep' = "orphans"
  /\ left' = {}
  /\ UNCHANGED <<downFrame, containers, files, pg, down, sweeping, seen, faults>>

\* docker compose ls -a, once the first loop is over.
SweepList ==
  /\ sweep = "metas" /\ left = {} /\ down[Sweeper] = "idle"
  /\ sweep' = "orphans"
  /\ left' = {p \in Previews : containers[p] # "none"} \ seen
  /\ UNCHANGED <<downFrame, containers, files, pg, down, sweeping, seen, faults>>

SweepOrphan(p) ==
  /\ sweep = "orphans"
  /\ Visit(p)
  /\ Remove(p)
  /\ UNCHANGED <<downFrame, containers, files, pg, sweep, seen, faults>>

SweepEnd ==
  /\ sweep = "orphans" /\ left = {} /\ down[Sweeper] = "idle"
  /\ sweep' = "idle"
  /\ seen' = {}
  /\ UNCHANGED <<downFrame, containers, files, pg, down, sweeping, left, faults>>

Sweep ==
  \/ SweepStart \/ SweepList \/ SweepEnd
  \/ \E p \in Previews : SweepMeta(p) \/ SweepOrphan(p)

-----------------------------------------------------------------------------

Init ==
  /\ pr = [p \in Previews |-> "closed"]
  /\ containers = [p \in Previews |-> "none"]
  /\ dir = [p \in Previews |-> None]
  /\ env = [p \in Previews |-> None]
  /\ compose = {} /\ meta = {} /\ old = {}
  /\ role = [p \in Previews |-> None]
  /\ db = [p \in Previews |-> "none"]
  /\ up = [u \in Pushes |-> "none"]
  /\ at = [u \in Pushes |-> None]
  /\ cwd = [u \in Pushes |-> None]
  /\ down = [r \in Removers |-> "idle"]
  /\ sweep = "idle" /\ sweeping = None
  /\ left = {} /\ seen = {}
  /\ faults = [k \in Kinds |-> 0] /\ overlaps = 0

Next ==
  \/ \E u \in Pushes : Push(u) \/ UpRun(u) \/ UpFails(u)
  \/ \E p \in Previews : Close(p) \/ Age(p)
  \/ \E r \in Removers : DownRun(r) \/ DownFails(r)
  \/ Sweep

SafeSpec == Init /\ [][Next]_vars

\* SSM runs what it is sent, cron sends a sweep every night; nobody has to
\* push or close.
Spec ==
  /\ SafeSpec
  /\ \A u \in Pushes : WF_vars(UpRun(u))
  /\ \A r \in Removers : WF_vars(DownRun(r))
  /\ WF_vars(Sweep)

-----------------------------------------------------------------------------
(* Properties                                                              *)

\* Every variable has its type, and a sweep waits for the removal it
\* started (preview-sweep.sh calls preview-down.sh and reads its exit code).
TypeOK ==
  /\ pr \in [Previews -> {"open", "closed"}]
  /\ containers \in [Previews -> {"none", "stopped", "running"}]
  /\ dir \in [Previews -> Pushes \cup {None}]
  /\ env \in [Previews -> Pushes \cup {None}]
  /\ compose \subseteq Previews /\ meta \subseteq Previews /\ old \subseteq Previews
  /\ role \in [Previews -> Pushes \cup {None}]
  /\ db \in [Previews -> {"none", "empty", "seeded"}]
  /\ up \in [Pushes -> {"none"} \cup UpSteps \cup UpEnds]
  /\ at \in [Pushes -> Previews \cup {None}]
  /\ cwd \in [Pushes -> Pushes \cup {None}]
  /\ down \in [Removers -> {"idle"} \cup DownSteps]
  /\ sweep \in {"idle", "metas", "orphans"}
  /\ sweeping \in Previews \cup {None}
  /\ sweeping = None <=> down[Sweeper] = "idle"
  /\ left \subseteq Previews /\ seen \subseteq Previews
  /\ faults \in [Kinds -> Nat] /\ overlaps \in Nat

\* Between runs a .env belongs to the role and to a complete database: the
\* next preview-up.sh skips the first deploy when it finds one, "keeping its
\* existing database" (preview-up.sh:66, 85).  Unless two of them overlapped,
\* or a preview-down.sh ended after its DROP DATABASE, which leaves .env.
EnvUsable ==
  faults["down"] = 0 /\ overlaps = 0 =>
  \A p \in Previews :
    env[p] # None /\ ~ Busy(p) => role[p] = env[p] /\ db[p] = "seeded"

\* Once a pull request is closed for good, nothing of it runs and its
\* metadata goes, whatever was running when it was closed.
ClosedIsCleared ==
  \A p \in Previews :
    <>[](pr[p] = "closed") => <>[](containers[p] = "none" /\ p \notin meta)

\* A preview that is a week old is removed, whatever its pull request does.
OldIsRemoved == \A p \in Previews : p \in old ~> p \notin old

\* The count of preview-up.sh:34-40 and the `up -d` far below it: the limit
\* is passed at most once for every run that counted while another was on
\* its way.
OvershootNeedsOverlap ==
  Cardinality({p \in Previews : containers[p] = "running"}) <= MaxPreviews + overlaps

\* preview-down.sh:2-3 "Removes one per-PR preview completely [...]:
\* containers, its database and role, and its files", and the sweep takes
\* what a failed deploy left: a copy of production data does not outlive
\* its pull request.
NoDataLeftBehind ==
  \A p \in Previews : <>[](pr[p] = "closed") => <>[](db[p] = "none")

=============================================================================
