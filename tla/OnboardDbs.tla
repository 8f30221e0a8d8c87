----------------------------- MODULE OnboardDbs -----------------------------
(***************************************************************************)
(* App database onboarding (ADR-0028): onboard-app-dbs.sh brings a password *)
(* in SSM, a Postgres role, a database and its public schema into line for *)
(* every app of the registry.  It keeps no state: it looks, then does what *)
(* is missing, and is run again after it ended anywhere.  A release that   *)
(* stopped waiting for it leaves it running, so two may overlap.           *)
(* LocalTrust stands for pg_hba.conf, which is not in the repository: the  *)
(* image of core.yml trusts 127.0.0.1 unless it is told otherwise.         *)
(***************************************************************************)
EXTENDS Naturals

CONSTANTS
  Apps,        \* the names in the registry
  Runs,        \* executions of the script
  HandMade,    \* passwords that people set before the script existed
  None,
  LocalTrust,  \* Postgres asks no password of a login from its own container
  MaxTroubles  \* bound: failures of a command or ends of a script

ASSUME NamesAssumption == None \notin Runs \cup HandMade /\ Runs \cap HandMade = {}
ASSUME NoAppAssumption == None \notin Apps
ASSUME TrustAssumption == LocalTrust \in BOOLEAN
ASSUME BoundAssumption == MaxTroubles \in Nat

VARIABLES
  ssm,        \* the password in SSM of each app, named after who generated it
  role,       \* the password of its Postgres role, None if there is no role
  owner,      \* the owner of its database: "none" (no database), "app", "other"
  schema,     \* the owner of the public schema in it: "app", "other"
  pc,         \* where each run is
  app,        \* its loop variable
  todo,       \* the apps it has not come to
  pw,         \* its $pw
  created,    \* $pw_state is "created"
  saw,        \* what it read last from Postgres
  good,       \* the apps it reports as unchanged or changed
  failed,     \* the apps it reports as FAILED
  disturbed,  \* history: runs that met a failure or another run
  troubles    \* history, up to MaxTroubles

world  == <<ssm, role, owner, schema>>
locals == <<app, todo, pw, created, saw>>
vars   == <<world, pc, locals, good, failed, disturbed, troubles>>

Passwords == Runs \cup HandMade

Looking == {"role?", "role", "db?", "db", "schema?", "schema", "verify"}
Active  == {"next", "put"} \cup Looking
Ends    == {"ended", "aborted"}

Go(r, from, to) == pc[r] = from /\ pc' = [pc EXCEPT ![r] = to]

\* What the steps within one app leave alone.
frame == <<app, todo, good, disturbed>>

Trouble(r) ==
  /\ troubles < MaxTroubles
  /\ troubles' = troubles + 1
  /\ disturbed' = disturbed \cup {r}

-----------------------------------------------------------------------------
(* The script                                                              *)

\* The registry is read, Postgres is ready.
Begin(r) ==
  LET others == {s \in Runs : pc[s] \in Active} IN
  /\ Go(r, "idle", "next")
  /\ todo' = [todo EXCEPT ![r] = Apps]
  /\ disturbed' = IF others = {} THEN disturbed ELSE disturbed \cup others \cup {r}
  /\ UNCHANGED <<world, app, pw, created, saw, good, failed, troubles>>

\* failed+=(...); continue
Fails(r, a) ==
  /\ pc' = [pc EXCEPT ![r] = "next"]
  /\ failed' = [failed EXCEPT ![r] = @ \cup {a}]

\* app_password: the parameter, or ParameterNotFound and a new password.
ReadPassword(r) ==
  /\ pc[r] = "next"
  /\ \E a \in todo[r] :
       /\ app' = [app EXCEPT ![r] = a]
       /\ todo' = [todo EXCEPT ![r] = @ \ {a}]
       /\ pw' = [pw EXCEPT ![r] = IF ssm[a] = None THEN r ELSE ssm[a]]
       /\ pc' = [pc EXCEPT ![r] = IF ssm[a] = None THEN "put" ELSE "role?"]
  /\ created' = [created EXCEPT ![r] = FALSE]
  /\ UNCHANGED <<world, saw, good, failed, disturbed, troubles>>

\* Any other error: the app is not touched.
ReadFails(r) ==
  /\ pc[r] = "next"
  /\ \E a \in todo[r] :
       /\ app' = [app EXCEPT ![r] = a]
       /\ todo' = [todo EXCEPT ![r] = @ \ {a}]
       /\ Fails(r, a)
  /\ Trouble(r)
  /\ UNCHANGED <<world, pw, created, saw, good>>

\* put-parameter --overwrite
MayPut_Overwrite(a) == TRUE

\* put-parameter without --overwrite.
MayPut(a) == ssm[a] = None

Put(r) ==
  /\ pc[r] = "put"
  /\ IF MayPut(app[r])
       THEN /\ ssm' = [ssm EXCEPT ![app[r]] = pw[r]]
            /\ created' = [created EXCEPT ![r] = TRUE]
            /\ Go(r, "put", "role?")
            /\ UNCHANGED failed
       ELSE Fails(r, app[r]) /\ UNCHANGED <<ssm, created>>
  /\ UNCHANGED <<role, owner, schema, pw, saw, troubles, frame>>

\* The script goes on with a password that SSM did not take.
AfterPutFails_GoesOn(r) ==
  /\ Go(r, "put", "role?")
  /\ created' = [created EXCEPT ![r] = TRUE]
  /\ UNCHANGED failed

\* set -e ends the subshell, read gets nothing: "SSM read" failed.
AfterPutFails(r) == Fails(r, app[r]) /\ UNCHANGED created

\* put-parameter fails; SSM may have stored the password all the same.
PutFails(r) ==
  /\ pc[r] = "put"
  /\ ssm' \in {ssm, [ssm EXCEPT ![app[r]] = IF @ = None THEN pw[r] ELSE @]}
  /\ AfterPutFails(r)
  /\ Trouble(r)
  /\ UNCHANGED <<role, owner, schema, app, todo, pw, saw, good>>

\* A role that exists keeps its password in every case.
RoleIsSettled_Always(r) == TRUE

\* The branch for a new password.
RoleIsSettled(r) == ~ created[r]

LookRole(r) ==
  LET found == role[app[r]] # None IN
  /\ Go(r, "role?", IF found /\ RoleIsSettled(r) THEN "db?" ELSE "role")
  /\ saw' = [saw EXCEPT ![r] = IF found THEN "app" ELSE "none"]
  /\ UNCHANGED <<world, pw, created, failed, troubles, frame>>

\* CREATE ROLE, or ALTER ROLE when its password was unknown to SSM.  A role
\* that has come up since cannot be created: see Abort.
SetRole(r) ==
  /\ Go(r, "role", "db?")
  /\ saw[r] = "none" => role[app[r]] = None
  /\ role' = [role EXCEPT ![app[r]] = pw[r]]
  /\ UNCHANGED <<ssm, owner, schema, pw, created, saw, failed, troubles, frame>>

LookDb(r) ==
  /\ Go(r, "db?", IF owner[app[r]] = "app" THEN "schema?" ELSE "db")
  /\ saw' = [saw EXCEPT ![r] = owner[app[r]]]
  /\ UNCHANGED <<world, pw, created, failed, troubles, frame>>

\* CREATE DATABASE ... OWNER, or ALTER DATABASE ... OWNER TO.
SetDb(r) ==
  /\ Go(r, "db", "schema?")
  /\ saw[r] = "none" => owner[app[r]] = "none"
  /\ owner' = [owner EXCEPT ![app[r]] = "app"]
  /\ UNCHANGED <<ssm, role, schema, pw, created, saw, failed, troubles, frame>>

LookSchema(r) ==
  /\ Go(r, "schema?", IF schema[app[r]] = "app" THEN "verify" ELSE "schema")
  /\ UNCHANGED <<world, pw, created, saw, failed, troubles, frame>>

SetSchema(r) ==
  /\ Go(r, "schema", "verify")
  /\ schema' = [schema EXCEPT ![app[r]] = "app"]
  /\ UNCHANGED <<ssm, role, owner, pw, created, saw, failed, troubles, frame>>

\* Does $pw log in as the app?
LogsIn(r) == LocalTrust \/ role[app[r]] = pw[r]

\* CREATE TABLE and DROP TABLE, as the app over TCP.
Verify(r) ==
  /\ pc[r] = "verify"
  /\ IF LogsIn(r) /\ schema[app[r]] = "app"
       THEN /\ Go(r, "verify", "next")
            /\ good' = [good EXCEPT ![r] = @ \cup {app[r]}]
            /\ UNCHANGED failed
       ELSE Fails(r, app[r]) /\ UNCHANGED good
  /\ UNCHANGED <<world, app, todo, pw, created, saw, disturbed, troubles>>

\* The test fails for a reason of its own.
VerifyFails(r) ==
  /\ pc[r] = "verify"
  /\ Fails(r, app[r])
  /\ Trouble(r)
  /\ UNCHANGED <<world, locals, good>>

End(r) ==
  /\ todo[r] = {}
  /\ Go(r, "next", "ended")
  /\ UNCHANGED <<world, locals, good, failed, disturbed, troubles>>

\* set -e: a statement that Postgres refuses ends the script.
Refused(r) ==
  \/ pc[r] = "role" /\ saw[r] = "none" /\ role[app[r]] # None
  \/ pc[r] = "db" /\ saw[r] = "none" /\ owner[app[r]] # "none"

Abort(r) ==
  /\ Refused(r)
  /\ pc' = [pc EXCEPT ![r] = "aborted"]
  /\ UNCHANGED <<world, locals, good, failed, disturbed, troubles>>

\* A statement fails by itself, SSM's time is up, or the hub goes down.
Dies(r) ==
  /\ pc[r] \in Active
  /\ pc' = [pc EXCEPT ![r] = "aborted"]
  /\ Trouble(r)
  /\ UNCHANGED <<world, locals, good, failed>>

-----------------------------------------------------------------------------

\* Apps that people set up before the script existed in any state of theirs.
Init ==
  /\ ssm \in [Apps -> HandMade \cup {None}]
  /\ role \in [Apps -> HandMade \cup {None}]
  /\ owner \in [Apps -> {"none", "app", "other"}]
  /\ schema \in [Apps -> {"app", "other"}]
  /\ \A a \in Apps :
       /\ role[a] = None => owner[a] # "app" /\ schema[a] = "other"
       /\ owner[a] = "none" => schema[a] = "other"
  /\ pc = [r \in Runs |-> "idle"]
  /\ app = [r \in Runs |-> None]
  /\ todo = [r \in Runs |-> {}]
  /\ pw = [r \in Runs |-> None]
  /\ created = [r \in Runs |-> FALSE]
  /\ saw = [r \in Runs |-> "none"]
  /\ good = [r \in Runs |-> {}]
  /\ failed = [r \in Runs |-> {}]
  /\ disturbed = {} /\ troubles = 0

Step(r) ==
  \/ Begin(r) \/ ReadPassword(r) \/ ReadFails(r) \/ Put(r) \/ PutFails(r)
  \/ LookRole(r) \/ SetRole(r) \/ LookDb(r) \/ SetDb(r) \/ LookSchema(r)
  \/ SetSchema(r) \/ Verify(r) \/ VerifyFails(r) \/ End(r) \/ Abort(r) \/ Dies(r)

Next == \E r \in Runs : Step(r)

Spec == Init /\ [][Next]_vars

-----------------------------------------------------------------------------
(* Properties                                                              *)

\* Every variable has its type.  A run that works on an app is done with it
\* in its list, and past the put works with the password that SSM holds.
TypeOK ==
  /\ ssm \in [Apps -> Passwords \cup {None}]
  /\ role \in [Apps -> Passwords \cup {None}]
  /\ owner \in [Apps -> {"none", "app", "other"}]
  /\ schema \in [Apps -> {"app", "other"}]
  /\ pc \in [Runs -> {"idle"} \cup Active \cup Ends]
  /\ app \in [Runs -> Apps \cup {None}]
  /\ todo \in [Runs -> SUBSET Apps]
  /\ pw \in [Runs -> Passwords \cup {None}]
  /\ created \in [Runs -> BOOLEAN]
  /\ saw \in [Runs -> {"none", "app", "other"}]
  /\ good \in [Runs -> SUBSET Apps]
  /\ failed \in [Runs -> SUBSET Apps]
  /\ disturbed \subseteq Runs
  /\ troubles \in 0 .. MaxTroubles
  /\ \A r \in Runs :
       /\ pc[r] \in {"put"} \cup Looking => app[r] \in Apps \ todo[r]
       /\ pc[r] \in Looking => pw[r] = ssm[app[r]]

\* Database and schema are the app's, and so is a role.
Owned(a) == role[a] # None /\ owner[a] = "app" /\ schema[a] = "app"

\* The role's password is the one deployments of the app read from SSM.
Agree(a) == ssm[a] # None /\ role[a] = ssm[a]

\* However runs overlap and die: a role made by the script has a password
\* that SSM knows, never one that was lost (onboard-app-dbs.sh:87-119: first
\* put-parameter, then CREATE ROLE).
NoLostPassword == \A a \in Apps : role[a] \in Runs => role[a] = ssm[a]

\* What a run reports as unchanged or changed is the app's, and no later or
\* concurrent run takes it away.  The passwords agree unless people made the
\* role, the run found another password in SSM, and Postgres did not ask.
GoodStaysGood ==
  \A r \in Runs : \A a \in good[r] :
    /\ Owned(a)
    /\ Agree(a) \/ (LocalTrust /\ role[a] \in HandMade /\ ssm[a] # r)

\* onboard-app-dbs.sh:14-15: the script "proves it by logging in as the app
\* with the SSM password", so what it reports as good can log in.
GoodMeansProven == \A r \in Runs : \A a \in good[r] : Owned(a) /\ Agree(a)

\* A password in SSM is never overwritten, a role or a database never
\* dropped, nothing taken away from the app.
Adds ==
  \A a \in Apps :
    /\ ssm[a] # None => ssm'[a] = ssm[a]
    /\ role[a] # None => role'[a] # None
    /\ owner[a] = "app" => owner'[a] = "app"
    /\ schema[a] = "app" => schema'[a] = "app"

\* onboard-app-dbs.sh:17: the script is additive, however its runs overlap.
Additive == [][Adds]_vars

\* onboard-app-dbs.sh:17 "idempotent": a run that is left alone repairs
\* whatever the runs before it left half-done.  It comes to its end, has
\* dealt with every app and fails none, but one whose role people made with
\* a password that is not the one it found in SSM.
RerunHeals ==
  \A r \in Runs \ disturbed :
    /\ pc[r] # "aborted"
    /\ \A a \in failed[r] : role[a] \in HandMade /\ ssm[a] \notin {r, role[a]}
    /\ pc[r] = "ended" => Apps = good[r] \cup failed[r]

-----------------------------------------------------------------------------
(* The inductive invariant of OnboardDbsProofs                             *)

InHand   == {"put"} \cup Looking
WithRole == {"db?", "db", "schema?", "schema", "verify"}
WithDb   == {"schema?", "schema", "verify"}

\* Where passwords of the script are: what a run generated it is still to
\* put, or SSM has it and the role gets it in the same turn.
PasswordsPlaced ==
  \A r \in Runs :
    /\ pc[r] = "put" => pw[r] = r /\ ssm[app[r]] # r
    /\ pc[r] \in Looking => ssm[app[r]] # None
    /\ pc[r] \in {"role?", "role"} => (created[r] <=> ssm[app[r]] = r)
    /\ pc[r] = "role" => saw[r] = "none" \/ created[r]
    /\ pc[r] \in WithRole /\ ssm[app[r]] = r => role[app[r]] = r
    /\ \A a \in Apps : ssm[a] = r => a \notin todo[r] /\ pc[r] # "idle"

\* What a run has brought into line stays so.
WorkStays ==
  \A r \in Runs :
    /\ pc[r] \in WithRole => role[app[r]] # None
    /\ pc[r] \in WithDb => owner[app[r]] = "app"
    /\ pc[r] = "verify" => schema[app[r]] = "app"
    /\ \A a \in good[r] : ssm[a] # None

\* A run left alone finds the world as it saw it, and has every app before
\* it, in hand or behind it.
LeftAlone ==
  \A r \in Runs \ disturbed :
    /\ pc[r] \in Active => \A s \in Runs \ {r} : pc[s] \notin Active
    /\ pc[r] = "put" => ssm[app[r]] = None
    /\ pc[r] = "role" /\ saw[r] = "none" => role[app[r]] = None
    /\ pc[r] = "db" /\ saw[r] = "none" => owner[app[r]] = "none"
    /\ pc[r] = "ended" => todo[r] = {}
    /\ pc[r] \in Active \cup {"ended"} =>
         \A a \in Apps : a \in good[r] \cup failed[r] \cup todo[r]
                           \/ (pc[r] \in InHand /\ a = app[r])
    /\ \A a \in failed[r] : ssm[a] # None

\* No run is about to give a role the password that an earlier one missed.
FailedStays ==
  \A r \in Runs \ disturbed : \A a \in failed[r] : \A s \in Runs :
    pc[s] \in {"role?", "role"} /\ app[s] = a => ~ created[s]

IInv ==
  /\ TypeOK /\ NoLostPassword /\ PasswordsPlaced /\ WorkStays
  /\ GoodStaysGood /\ LeftAlone /\ FailedStays /\ RerunHeals

=============================================================================
