--------------------------- MODULE MopekaExporter ---------------------------
(* nuc/mopeka-exporter: one task per ESPHome proxy keeps a connection and   *)
(* relays the advertisements of the tank sensors; all tasks and callbacks   *)
(* share one event loop, so what lies between two awaits is one step.       *)
EXTENDS Integers

CONSTANTS Proxies, Sensors, Levels, Tanks  \* Tanks: entries of sensors.yaml

VARIABLES
    mMap,      \* SENSOR_MAP: the tank of each sensor
    mTask,     \* where the task of each proxy is in _run_once
    mLink,     \* the connection underneath: "none", "open", "closed"
    mStop,     \* the `disconnected` event
    mUp,       \* mopeka_proxy_up
    mKnown,    \* _sensors
    mLevel,    \* the level gauge of each sensor
    mFill      \* its fill gauge

mVars == <<mMap, mTask, mLink, mStop, mUp, mKnown, mLevel, mFill>>

Unknown == -1
NoTank == [full |-> 0, empty |-> 0]

\* A missing or malformed file names no tank.
LoadSensorMap == {[s \in Sensors |-> NoTank]} \cup [Sensors -> Tanks]

MInit ==
    /\ mMap \in LoadSensorMap
    /\ mTask = [p \in Proxies |-> "sleep"]
    /\ mLink = [p \in Proxies |-> "none"]
    /\ mStop = [p \in Proxies |-> FALSE]
    /\ mUp = [p \in Proxies |-> 0]
    /\ mKnown = {}
    /\ mLevel = [s \in Sensors |-> Unknown]
    /\ mFill = [s \in Sensors |-> Unknown]

\* Linear between the readings of an empty and a full tank, and not at all
\* for a tank that is not measured or measured upside down.
FillPercent(level, tank) ==
    LET span == tank.full - tank.empty
        pct == (100 * (level - tank.empty)) \div span
    IN  IF tank.full = 0 \/ span <= 0 THEN Unknown
        ELSE IF pct < 0 THEN 0 ELSE IF pct > 100 THEN 100 ELSE pct

\* The task tries again, with a fresh event.
Connect(p) ==
    /\ mTask[p] = "sleep"
    /\ mTask' = [mTask EXCEPT ![p] = "connecting"]
    /\ mStop' = [mStop EXCEPT ![p] = FALSE]
    /\ \E link \in {"open", "none"} : mLink' = [mLink EXCEPT ![p] = link]
    /\ UNCHANGED <<mMap, mUp, mKnown, mLevel, mFill>>

\* connect and device_info came back.
Connected(p) ==
    /\ mTask[p] = "connecting" /\ mLink[p] = "open"
    /\ mTask' = [mTask EXCEPT ![p] = "waiting"]
    /\ mUp' = [mUp EXCEPT ![p] = 1]
    /\ UNCHANGED <<mMap, mLink, mStop, mKnown, mLevel, mFill>>

\* The finally of _run_once: after the wait, or after any exception before it.
RunOnceEnds_StaysUp(p) ==
    /\ \/ mTask[p] = "waiting" /\ mStop[p]
       \/ mTask[p] = "connecting" /\ mLink[p] # "open"
    /\ mTask' = [mTask EXCEPT ![p] = "disconnecting"]
    /\ mUp' = [mUp EXCEPT ![p] = IF mTask[p] = "connecting" THEN 0 ELSE @]
    /\ UNCHANGED <<mMap, mLink, mStop, mKnown, mLevel, mFill>>

RunOnceEnds(p) ==
    /\ \/ mTask[p] = "waiting" /\ mStop[p]
       \/ mTask[p] = "connecting" /\ mLink[p] # "open"
    /\ mTask' = [mTask EXCEPT ![p] = "disconnecting"]
    /\ mUp' = [mUp EXCEPT ![p] = 0]
    /\ UNCHANGED <<mMap, mLink, mStop, mKnown, mLevel, mFill>>

\* disconnect returns or raises, and _proxy_loop sleeps until the next try.
Disconnected(p) ==
    /\ mTask[p] = "disconnecting"
    /\ mTask' = [mTask EXCEPT ![p] = "sleep"]
    /\ mLink' = [mLink EXCEPT ![p] = "none"]
    /\ UNCHANGED <<mMap, mStop, mUp, mKnown, mLevel, mFill>>

\* The proxy goes away, at any moment; on_stop is called for it afterwards.
LinkCloses(p) ==
    /\ mLink[p] = "open"
    /\ mLink' = [mLink EXCEPT ![p] = "closed"]
    /\ UNCHANGED <<mMap, mTask, mStop, mUp, mKnown, mLevel, mFill>>

OnStop(p) ==
    /\ mLink[p] = "closed" /\ ~mStop[p]
    /\ mStop' = [mStop EXCEPT ![p] = TRUE]
    /\ UNCHANGED <<mMap, mTask, mLink, mUp, mKnown, mLevel, mFill>>

\* An advertisement of a sensor, with a level that is a number or without one;
\* only one that the library supports makes the sensor known.
HandleAdvertisement(p, s, level) ==
    /\ mTask[p] = "waiting"
    /\ \E supported \in BOOLEAN :
          /\ s \in mKnown \/ supported
          /\ mKnown' = mKnown \cup {s}
    /\ mLevel' = [mLevel EXCEPT ![s] = IF level = Unknown THEN @ ELSE level]
    /\ LET pct == FillPercent(level, mMap[s])
       IN  mFill' = [mFill EXCEPT ![s] = IF level = Unknown \/ pct = Unknown THEN @ ELSE pct]
    /\ UNCHANGED <<mMap, mTask, mLink, mStop, mUp>>

MNext ==
    \E p \in Proxies :
        \/ Connect(p) \/ Connected(p) \/ RunOnceEnds(p) \/ Disconnected(p)
        \/ LinkCloses(p) \/ OnStop(p)
        \/ \E s \in Sensors, level \in Levels \cup {Unknown} : HandleAdvertisement(p, s, level)

\* The loop runs what is ready; the proxies owe nothing but the close.
MFairness ==
    \A p \in Proxies : WF_mVars(OnStop(p)) /\ WF_mVars(RunOnceEnds(p))

\* A proxy whose connection has closed is eventually shown as down, at whatever
\* point of _run_once it closed.
ClosedIsShown == \A p \in Proxies : mLink[p] = "closed" ~> mUp[p] = 0

=============================================================================
