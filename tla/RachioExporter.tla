--------------------------- MODULE RachioExporter ---------------------------
(* aws/rachio-exporter: which valves watered today. The devices are looked  *)
(* up once at the start; every poll asks for the summaries of the last days *)
(* and sets the gauges of the valves. No answer's status code is looked at: *)
(* an error in JSON reads as an empty answer.                               *)
EXTENDS Integers, FiniteSetsExt

CONSTANTS Valves,
          MaxToday,   \* bound: the last day
          Lookback    \* LOOKBACK_DAYS

ASSUME DaysAssumption == MaxToday \in Nat \ {0} /\ Lookback \in Nat

VARIABLES
    rDay,      \* today
    rStation,  \* _base_station_id is set
    rNames,    \* the valves in _valve_names
    rAsk,      \* the poll's `today` while its request is out, 0 otherwise
    rRuns,     \* what each valve did on each day: "none", a skipped run, ...
    rToday,    \* watered_today: the day it was set to 1, 0, or absent
    rLast,     \* last_watered: a day, 0 when absent
    rOk        \* the `today` of the last poll that read real summaries, or 0

rVars == <<rDay, rStation, rNames, rAsk, rRuns, rToday, rLast, rOk>>

Absent == -1
Days == 1 .. MaxToday
NoGauge == [v \in Valves |-> Absent]

RInit ==
    /\ rDay = 1
    /\ rStation = FALSE
    /\ rNames = {}
    /\ rAsk = 0
    /\ rRuns = [v \in Valves |-> [d \in Days |-> "none"]]
    /\ rToday = NoGauge
    /\ rLast = [v \in Valves |-> 0]
    /\ rOk = 0

\* discover: the station is remembered before the valves are asked for, so
\* that a valve list which fails is not asked for again.
Discover ==
    /\ ~rStation
    /\ rStation' = TRUE
    /\ \E names \in {{}, Valves} : rNames' = names
    /\ UNCHANGED <<rDay, rAsk, rRuns, rToday, rLast, rOk>>

\* A valve runs, or its program is skipped for the weather.
ValveRuns(v, kind) ==
    /\ rRuns[v][rDay] # "watered"
    /\ rRuns' = [rRuns EXCEPT ![v][rDay] = kind]
    /\ UNCHANGED <<rDay, rStation, rNames, rAsk, rToday, rLast, rOk>>

\* A program's run counts even with a "skip" on it.
RunsForDay_SkipsToo(v, day) == rRuns[v][day] \in {"watered", "skipped"}

\* A run that counts: not skipped, and longer than nothing.
RunsForDay(v, day) == rRuns[v][day] = "watered"

\* The request goes out, for the days up to the one it is now.
AskDays ==
    /\ rStation /\ rAsk = 0
    /\ rAsk' = rDay
    /\ UNCHANGED <<rDay, rStation, rNames, rRuns, rToday, rLast, rOk>>

\* The answer lists the days asked for, or is an error without any. The valves
\* named at the start are recomputed, the others only ever set.
Answer(days) ==
    /\ rAsk > 0
    /\ rToday' = [v \in Valves |->
          IF rAsk \in days /\ RunsForDay(v, rAsk) THEN rAsk
          ELSE IF v \in rNames THEN 0 ELSE rToday[v]]
    /\ rLast' = [v \in Valves |->
          LET ran == {d \in days : RunsForDay(v, d)}
          IN  IF ran = {} THEN rLast[v] ELSE Max(ran)]
    /\ rOk' = IF days = {} THEN 0 ELSE rAsk
    /\ rAsk' = 0
    /\ UNCHANGED <<rDay, rStation, rNames, rRuns>>

\* The request or the reading of its answer raises.
RPollFails ==
    /\ rAsk > 0
    /\ rAsk' = 0
    /\ UNCHANGED <<rDay, rStation, rNames, rRuns, rToday, rLast, rOk>>

RPoll ==
    \/ AskDays
    \/ Answer({d \in Days : rAsk - Lookback <= d /\ d <= rAsk})
    \/ Answer({})
    \/ RPollFails

NextDay ==
    /\ rDay < MaxToday
    /\ rDay' = rDay + 1
    /\ UNCHANGED <<rStation, rNames, rAsk, rRuns, rToday, rLast, rOk>>

RRestart ==
    /\ rStation' = FALSE
    /\ rNames' = {}
    /\ rAsk' = 0
    /\ rToday' = NoGauge
    /\ rLast' = [v \in Valves |-> 0]
    /\ rOk' = 0
    /\ UNCHANGED <<rDay, rRuns>>

RNext ==
    \/ Discover \/ RPoll \/ NextDay \/ RRestart
    \/ \E v \in Valves, kind \in {"skipped", "empty", "watered"} : ValveRuns(v, kind)

RSpec == RInit /\ [][RNext]_rVars

\* The gauges never show a run that was skipped or empty; a valve shown as
\* watered is shown with that day or a later one as its last; and once a poll
\* of today was answered, no valve the discovery named shows yesterday's 1.
TodayIsToday ==
    \A v \in Valves :
        /\ rToday[v] > 0 => rRuns[v][rToday[v]] = "watered" /\ rLast[v] >= rToday[v]
        /\ rLast[v] > 0 => rRuns[v][rLast[v]] = "watered"
        /\ rOk = rDay /\ v \in rNames => rToday[v] \in {0, rDay}

=============================================================================
