------------------------------ MODULE ImdsGuard ------------------------------
(* imds-guard.sh: a chain of iptables rules that lets one Docker bridge reach *)
(* the instance's metadata and drops the others. The chain is built again     *)
(* command by command, at boot, after a deploy and every hour, while          *)
(* networks, containers and the chain itself may go and come.                 *)
EXTENDS Integers, FiniteSets

CONSTANTS
    Needing,     \* NEEDS_IMDS
    Traefik,     \* the one of them whose project's network is the stack's
    MaxEvents    \* bound of what happens to the hub

VARIABLES
    gBridge,   \* which bridge the stack's network has: a number, a new one each time
    gRoute,    \* where a service's traffic leaves: "stack", "shared" or "down"
    gRules,    \* the chain: [allow, drop], the bridge of its RETURN, whether it drops
    gJump,     \* DOCKER-USER jumps to the chain
    gRun,      \* the run under way
    gMetric,   \* hub_imds_guard_active
    gEvents    \* how much happened

gVars == <<gBridge, gRoute, gRules, gJump, gRun, gMetric, gEvents>>

None == 0
Shared == -1
Empty == [allow |-> None, drop |-> FALSE]
NoRun == [at |-> "idle"]
At(step) == gRun.at = step

\* The first rule that fits counts: RETURN for the stack's bridge, DROP for any.
Passes(bridge) == ~gJump \/ ~gRules.drop \/ gRules.allow = bridge
Reaches(s) == (gRoute[s] = "stack" /\ Passes(gBridge)) \/ (gRoute[s] = "shared" /\ Passes(Shared))

GInit ==
    /\ gBridge = 1 /\ gRoute = [s \in Needing |-> "stack"]
    /\ gRules = Empty /\ gJump = FALSE
    /\ gRun = NoRun /\ gMetric = 0 /\ gEvents = 0

Ends(metric) == gRun' = NoRun /\ gMetric' = metric

-----------------------------------------------------------------------------
(* The script *)

\* The network is looked up anew. Without a Traefik it is not found, unless its
\* container is only stopped, and the chain is left as it is.
FindStack ==
    /\ At("idle")
    /\ \/ gRun' = [at |-> "flush", allow |-> gBridge] /\ UNCHANGED gMetric
       \/ gRoute[Traefik] = "down" /\ gMetric' = 0 /\ UNCHANGED gRun
    /\ UNCHANGED <<gBridge, gRoute, gRules, gJump, gEvents>>

\* An iptables command may fail, and nobody looks: the event is counted.
Try(done, undone) ==
    \/ done /\ UNCHANGED gEvents
    \/ undone /\ gEvents < MaxEvents /\ gEvents' = gEvents + 1

Flush ==
    /\ At("flush")
    /\ Try(gRules' = Empty, UNCHANGED gRules)
    /\ gRun' = [gRun EXCEPT !.at = "allow"]
    /\ UNCHANGED <<gBridge, gRoute, gJump, gMetric>>

\* A rule is put at the end: an older RETURN stays in front of it.
Allow ==
    /\ At("allow")
    /\ Try(gRules' = [gRules EXCEPT !.allow = IF gRules.drop THEN @ ELSE gRun.allow], UNCHANGED gRules)
    /\ gRun' = [gRun EXCEPT !.at = "drop"]
    /\ UNCHANGED <<gBridge, gRoute, gJump, gMetric>>

Drop ==
    /\ At("drop")
    /\ Try(gRules' = [gRules EXCEPT !.drop = TRUE], UNCHANGED gRules)
    /\ gRun' = [gRun EXCEPT !.at = "jump"]
    /\ UNCHANGED <<gBridge, gRoute, gJump, gMetric>>

Jump ==
    /\ At("jump")
    /\ Try(gJump' = TRUE, UNCHANGED gJump)
    /\ gRun' = [at |-> "verify", todo |-> Needing, broken |-> FALSE]
    /\ UNCHANGED <<gBridge, gRoute, gRules, gMetric>>

\* can_reach, from inside the container; one that is down cannot be asked.
Verify(s) ==
    /\ At("verify") /\ s \in gRun.todo
    /\ gRun' = [gRun EXCEPT !.todo = @ \ {s},
                            !.broken = @ \/ (gRoute[s] # "down" /\ ~Reaches(s))]
    /\ UNCHANGED <<gBridge, gRoute, gRules, gJump, gMetric, gEvents>>

\* A rollback that is only reported.
RollBack_MetricOnly ==
    /\ At("verify") /\ gRun.todo = {} /\ gRun.broken
    /\ Ends(0)
    /\ UNCHANGED <<gBridge, gRoute, gRules, gJump, gEvents>>

\* ROLLED BACK: open to all.
RollBack ==
    /\ At("verify") /\ gRun.todo = {} /\ gRun.broken
    /\ Try(gRules' = Empty, UNCHANGED gRules)
    /\ Ends(0)
    /\ UNCHANGED <<gBridge, gRoute, gJump>>

\* The containers of the apps are on the shared bridge, if there are any: one of
\* them that can reach the metadata is a leak.
CheckApps ==
    /\ At("verify") /\ gRun.todo = {} /\ ~gRun.broken
    /\ \E apps \in BOOLEAN : Ends(IF apps /\ Passes(Shared) THEN 0 ELSE 1)
    /\ UNCHANGED <<gBridge, gRoute, gRules, gJump, gEvents>>

-----------------------------------------------------------------------------
(* The hub *)

Event == gEvents < MaxEvents /\ gEvents' = gEvents + 1

\* Compose makes the stack's network again, with all of its containers.
NetworkRecreated ==
    /\ Event
    /\ gBridge' = gBridge + 1
    /\ gRoute' = [s \in Needing |-> "stack"]
    /\ UNCHANGED <<gRules, gJump, gRun, gMetric>>

\* A service goes, or comes back, by either of its networks.
ServiceMoves(s) ==
    /\ Event
    /\ \E route \in {"stack", "shared", "down"} \ {gRoute[s]} : gRoute' = [gRoute EXCEPT ![s] = route]
    /\ UNCHANGED <<gBridge, gRules, gJump, gRun, gMetric>>

\* systemd stops a run after ten minutes, or the hub starts again with empty tables.
RunKilled ==
    /\ Event /\ ~At("idle")
    /\ gRun' = NoRun
    /\ UNCHANGED <<gBridge, gRoute, gRules, gJump, gMetric>>

Reboot ==
    /\ Event
    /\ gRun' = NoRun /\ gRules' = Empty /\ gJump' = FALSE
    /\ UNCHANGED <<gBridge, gRoute, gMetric>>

Script == FindStack \/ Flush \/ Allow \/ Drop \/ Jump \/ (\E s \in Needing : Verify(s)) \/ RollBack \/ CheckApps
GNext == Script \/ NetworkRecreated \/ (\E s \in Needing : ServiceMoves(s)) \/ RunKilled \/ Reboot

\* The timer comes every hour, and a run goes on.
GFairness == WF_gVars(Script)
GSpec == GInit /\ [][GNext]_gVars /\ GFairness

-----------------------------------------------------------------------------

\* However networks, routes, rules and runs came and went, once nothing more happens
\* the hub settles where the script wants it: between two runs every service that is
\* up reaches the metadata, by the rule or by the rollback, and a metric that says
\* active is right about the apps. Only while Traefik is gone may a service stay
\* locked out.
GuardSettles ==
    <>[](At("idle") /\ gRoute[Traefik] # "down" =>
            /\ \A s \in Needing : gRoute[s] = "down" \/ Reaches(s)
            /\ gMetric = 1 => ~Passes(Shared))

=============================================================================
