------------------------------ MODULE HubDeploy ------------------------------
(* deploy-hub-stack.sh: what is on disk, what the containers were made from  *)
(* and what the running processes have read are three things, brought into   *)
(* line one after another by a script that may end anywhere. Two services    *)
(* stand for the two ways in which a changed file reaches a process:         *)
(* Prometheus is told to read again, Grafana is restarted. One command at a  *)
(* time, which is PlatformDeploy's matter.                                   *)
EXTENDS Integers, FiniteSets

CONSTANT Versions   \* contents a file may have: a commit may bring back an older one

VARIABLES
    hTree,   \* what is on disk
    hUp,     \* what each container was made from, and the file its process has read
    hSick,   \* services that run but are unhealthy
    hHash,   \* grafana-alerting.sha256
    hRun,    \* the deploy under way
    hGood,   \* history: the last deploy ended well
    hHalf    \* history: a deploy ended half-way, with rules that are not recorded

hVars == <<hTree, hUp, hSick, hHash, hRun, hGood, hHalf>>

\* The Compose files together with .env, prometheus.yml, and Grafana's alert rules.
Parts == {"defs", "prometheus.yml", "alerting"}
Readers == {"prometheus", "grafana"}
FileOf(s) == IF s = "prometheus" THEN "prometheus.yml" ELSE "alerting"

NoRun == [at |-> "idle"]
At(step) == hRun.at = step

HInit ==
    /\ \E v \in Versions :
          /\ hTree = [p \in Parts |-> v]
          /\ hUp = [s \in Readers |-> [defs |-> v, file |-> v]]
          /\ hHash = v
    /\ hSick = {} /\ hRun = NoRun /\ hGood = TRUE /\ hHalf = FALSE

\* A process starts and reads its file. A deploy counts it as started since then.
Starts(s, defs, run) ==
    /\ hUp' = [hUp EXCEPT ![s] = [defs |-> defs, file |-> hTree[FileOf(s)]]]
    /\ hSick' = hSick \ {s}
    /\ hRun' = IF run = NoRun THEN run ELSE [run EXCEPT !.fresh = @ \cup {s}]

-----------------------------------------------------------------------------
(* The script *)

Begin ==
    /\ At("idle")
    /\ \E want \in [Parts -> Versions] :
          hRun' = [at |-> "sync", want |-> want, fresh |-> {}, todo |-> {}]
    /\ hGood' = FALSE
    /\ UNCHANGED <<hTree, hUp, hSick, hHash, hHalf>>

\* rsync, file by file.
Sync(p) ==
    /\ At("sync") /\ p # "defs"
    /\ hTree[p] # hRun.want[p]
    /\ hTree' = [hTree EXCEPT ![p] = hRun.want[p]]
    /\ UNCHANGED <<hUp, hSick, hHash, hRun, hGood, hHalf>>

Synced == \A p \in Parts \ {"defs"} : hTree[p] = hRun.want[p]

\* A deploy that counts from its beginning what has started since.
WriteEnv_FromTheStart ==
    /\ At("sync") /\ Synced
    /\ hTree' = [hTree EXCEPT !["defs"] = hRun.want["defs"]]
    /\ hRun' = [hRun EXCEPT !.at = "check"]
    /\ UNCHANGED <<hUp, hSick, hHash, hGood, hHalf>>

\* .env, in place, once every value was found; nothing reads it or the Compose files
\* before `up`. What starts from here on has the new files.
WriteEnv ==
    /\ At("sync") /\ Synced
    /\ hTree' = [hTree EXCEPT !["defs"] = hRun.want["defs"]]
    /\ hRun' = [hRun EXCEPT !.at = "check", !.fresh = {}]
    /\ UNCHANGED <<hUp, hSick, hHash, hGood, hHalf>>

\* DEPLOY_START, in seconds: what started in the same second counts as started since.
Mark ==
    /\ At("check")
    /\ \E since \in SUBSET hRun.fresh :
          hRun' = [hRun EXCEPT !.at = "restart", !.fresh = since, !.todo = hSick]
    /\ UNCHANGED <<hTree, hUp, hSick, hHash, hGood, hHalf>>

RestartUnhealthy(s) ==
    /\ At("restart") /\ s \in hRun.todo
    /\ Starts(s, hUp[s].defs, [hRun EXCEPT !.todo = @ \ {s}])
    /\ UNCHANGED <<hTree, hHash, hGood, hHalf>>

BeginUp ==
    /\ At("restart") /\ hRun.todo = {}
    /\ hRun' = [hRun EXCEPT !.at = "up", !.todo = {s \in Readers : hUp[s].defs # hTree["defs"]}]
    /\ UNCHANGED <<hTree, hUp, hSick, hHash, hGood, hHalf>>

\* `up` makes those containers again that are not what the files say.
Up(s) ==
    /\ At("up") /\ s \in hRun.todo
    /\ Starts(s, hTree["defs"], [hRun EXCEPT !.todo = @ \ {s}])
    /\ UNCHANGED <<hTree, hHash, hGood, hHalf>>

\* HUP, unless Prometheus has read the new file anyway.
ReloadPrometheus ==
    /\ At("up") /\ hRun.todo = {}
    /\ IF "prometheus" \in hRun.fresh
         THEN UNCHANGED hUp
         ELSE hUp' = [hUp EXCEPT !["prometheus"].file = hTree["prometheus.yml"]]
    /\ hRun' = [hRun EXCEPT !.at = "alerts"]
    /\ UNCHANGED <<hTree, hSick, hHash, hGood, hHalf>>

\* Grafana is restarted when its rules are not those of the record.
RestartGrafana ==
    /\ At("alerts")
    /\ LET changed == hHash # hTree["alerting"]
           run == [hRun EXCEPT !.at = IF changed THEN "record" ELSE "units"]
       IN  IF changed /\ "grafana" \notin hRun.fresh
             THEN Starts("grafana", hUp["grafana"].defs, run)
             ELSE hRun' = run /\ UNCHANGED <<hUp, hSick>>
    /\ UNCHANGED <<hTree, hHash, hGood, hHalf>>

RecordHash ==
    /\ At("record")
    /\ hHash' = hTree["alerting"]
    /\ hHalf' = FALSE
    /\ hRun' = [hRun EXCEPT !.at = "units"]
    /\ UNCHANGED <<hTree, hUp, hSick, hGood>>

\* The host's units, and the RESULT line.
Ends ==
    /\ At("units")
    /\ hRun' = NoRun
    /\ hGood' = TRUE
    /\ UNCHANGED <<hTree, hUp, hSick, hHash, hHalf>>

\* A command of the script fails (set -e), or the host stops under it.
Fails ==
    /\ ~At("idle")
    /\ hRun' = NoRun
    /\ hHalf' = (hHalf \/ hTree["alerting"] # hHash)
    /\ UNCHANGED <<hTree, hUp, hSick, hHash, hGood>>

-----------------------------------------------------------------------------
(* Docker: restart policies and health checks *)

RestartsItself(s) ==
    /\ Starts(s, hUp[s].defs, hRun)
    /\ UNCHANGED <<hTree, hHash, hGood, hHalf>>

GetsSick(s) ==
    /\ hSick' = hSick \cup {s}
    /\ UNCHANGED <<hTree, hUp, hHash, hRun, hGood, hHalf>>

HNext ==
    \/ Begin \/ WriteEnv \/ Mark \/ BeginUp \/ ReloadPrometheus
    \/ RestartGrafana \/ RecordHash \/ Ends \/ Fails
    \/ \E p \in Parts : Sync(p)
    \/ \E s \in Readers : RestartUnhealthy(s) \/ Up(s) \/ RestartsItself(s) \/ GetsSick(s)

HSpec == HInit /\ [][HNext]_hVars

-----------------------------------------------------------------------------

\* After a deploy that ended well the containers are made from what was deployed and
\* the processes have read it, whatever earlier deploys left half done and whatever
\* restarted meanwhile. The exception is Grafana, after a deploy that ended half-way
\* and one that put the recorded rules back: it may have read the other ones.
LoadedIsDeployed ==
    hGood =>
        /\ \A s \in Readers : hUp[s].defs = hTree["defs"]
        /\ hUp["prometheus"].file = hTree["prometheus.yml"]
        /\ hHalf \/ hUp["grafana"].file = hTree["alerting"]

=============================================================================
