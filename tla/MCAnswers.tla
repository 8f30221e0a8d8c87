----------------------------- MODULE MCAnswers -----------------------------
(* The programs that answer: home-mcp's tools, the port scan one of them    *)
(* reads, and the rewriter of Compose files. They share no state: each      *)
(* behaviour runs one of them, the focus, and the others stand still. They  *)
(* are extended, so that their properties are those of the theorems.        *)
EXTENDS VoiceJobs, TaskClient, UpdateStatus, PlatformStatus, Exposure,
        PreviewCompose, SecurityTools, TLC

VARIABLE focus

vars == <<focus, sVars, uVars, pVars, xVars, jVars, tVars, vVars>>

Init ==
    /\ focus \in {"security", "updates", "status", "exposure", "jobs", "tasks", "compose"}
    /\ SInit /\ UInit /\ XInit /\ JInit /\ TInit /\ VInit
    /\ IF focus = "status" THEN PInit ELSE PInit /\ pFacts = QuietStatus

\* One program runs, the others stand still.
Alone(name) ==
    /\ focus = name
    /\ UNCHANGED focus
    /\ IF name = "security" THEN TRUE ELSE UNCHANGED sVars
    /\ IF name = "updates" THEN TRUE ELSE UNCHANGED uVars
    /\ IF name = "status" THEN TRUE ELSE UNCHANGED pVars
    /\ IF name = "exposure" THEN TRUE ELSE UNCHANGED xVars
    /\ IF name = "jobs" THEN TRUE ELSE UNCHANGED jVars
    /\ IF name = "tasks" THEN TRUE ELSE UNCHANGED tVars
    /\ IF name = "compose" THEN TRUE ELSE UNCHANGED vVars

Security == Alone("security") /\ SNext
Updates == Alone("updates") /\ UNext
Status == Alone("status") /\ PNext
Scans == Alone("exposure") /\ XNext
VoiceJobsRun == Alone("jobs") /\ JNext
VoiceTasksRun == Alone("tasks") /\ TNext
Compose == Alone("compose") /\ VNext

Next == Security \/ Updates \/ Status \/ Scans \/ VoiceJobsRun \/ VoiceTasksRun \/ Compose

Spec == Init /\ [][Next]_vars

Symmetry == Permutations(Callers)

=============================================================================
