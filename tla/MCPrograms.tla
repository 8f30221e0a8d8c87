---------------------------- MODULE MCPrograms -----------------------------
(* The exporters, the hub's deploy, the deploys of an app and the metadata  *)
(* guard have nothing in common that they write: each behaviour runs one of *)
(* them, the focus, and the others stand still. Those that theorems are     *)
(* about are extended, which makes their properties those of the proofs.    *)
EXTENDS WeatherExporter, RachioExporter, CostExporter, HubDeploy, AppDeploy

CONSTANTS Proxies, Sensors, Levels, Needing, Traefik, MaxEvents

\* A tank calibrated from 0 to 4, one from 2 to 4, one upside down, one unmeasured.
Tanks == {[full |-> 4, empty |-> 0], [full |-> 4, empty |-> 2],
          [full |-> 2, empty |-> 4], [full |-> 0, empty |-> 0]}

VARIABLES focus,
    mMap, mTask, mLink, mStop, mUp, mKnown, mLevel, mFill,
    gBridge, gRoute, gRules, gJump, gRun, gMetric, gEvents

mVars == <<mMap, mTask, mLink, mStop, mUp, mKnown, mLevel, mFill>>
gVars == <<gBridge, gRoute, gRules, gJump, gRun, gMetric, gEvents>>
vars == <<focus, wVars, rVars, cVars, mVars, hVars, aVars, gVars>>

M == INSTANCE MopekaExporter
G == INSTANCE ImdsGuard

Init ==
    /\ focus \in {"weather", "rachio", "cost", "mopeka", "deploy", "app", "guard"}
    /\ WInit /\ RInit /\ G!GInit /\ AInit
    /\ IF focus = "cost" THEN CInit ELSE CInit /\ cBill = CHOOSE b \in Bills : TRUE
    /\ IF focus = "mopeka" THEN M!MInit ELSE M!MInit /\ mMap = [s \in Sensors |-> M!NoTank]
    /\ IF focus = "deploy" THEN HInit ELSE HInit /\ hHash = CHOOSE v \in Versions : TRUE

Weather == focus = "weather" /\ WNext /\ UNCHANGED <<focus, rVars, cVars, mVars, hVars, aVars, gVars>>
Rachio == focus = "rachio" /\ RNext /\ UNCHANGED <<focus, wVars, cVars, mVars, hVars, aVars, gVars>>
Cost == focus = "cost" /\ CostNext /\ UNCHANGED <<focus, wVars, rVars, mVars, hVars, aVars, gVars>>
Mopeka == focus = "mopeka" /\ M!MNext /\ UNCHANGED <<focus, wVars, rVars, cVars, hVars, aVars, gVars>>
Deploy == focus = "deploy" /\ HNext /\ UNCHANGED <<focus, wVars, rVars, cVars, mVars, aVars, gVars>>
App == focus = "app" /\ ANext /\ UNCHANGED <<focus, wVars, rVars, cVars, mVars, hVars, gVars>>
\* No commit is left: nothing more is asked of the app.
AppRests ==
    /\ focus = "app"
    /\ \A c \in Commits :
          aBuild[c] = "failed" \/ (aBuild[c] = "pushed" /\ aRun[c] \in Over /\ aJob[c] \notin JobSteps)
    /\ UNCHANGED vars
Guard == focus = "guard" /\ G!GNext /\ UNCHANGED <<focus, wVars, rVars, cVars, mVars, hVars, aVars>>

Next == Weather \/ Rachio \/ Cost \/ Mopeka \/ Deploy \/ App \/ AppRests \/ Guard

\* G!GFairness, of the behaviours that run the guard.
GuardRuns == focus = "guard" /\ G!Script /\ UNCHANGED <<focus, wVars, rVars, cVars, mVars, hVars, aVars>>

Spec == Init /\ [][Next]_vars /\ M!MFairness /\ WF_gVars(GuardRuns)

\* A closed proxy is eventually shown as down.
ClosedIsShown == M!ClosedIsShown

\* Once nothing more happens, what needs the metadata reaches it, and the metric is right.
GuardSettles == G!GuardSettles

=============================================================================
