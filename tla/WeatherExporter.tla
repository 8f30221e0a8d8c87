-------------------------- MODULE WeatherExporter --------------------------
(* nuc/weather-exporter: a loop reads the station and sets its gauges one   *)
(* by one; a thread serves them to Prometheus at any moment. A field that   *)
(* is missing leaves its gauge as it was, one that cannot be read ends the  *)
(* poll where it stands, and the lows and highs of the day are kept in      *)
(* memory. Rain, wind and sun are one field without a value here: all that  *)
(* matters of them is that they may end the poll.                           *)
EXTENDS Integers, Sequences, FiniteSetsExt

CONSTANTS Temps,   \* readings of a thermometer
          MaxDay   \* bound: days the station's date may reach

VARIABLES
    wDay,    \* the date at the station
    wAt,     \* the field the poll is at, 0 between polls
    wTemp,   \* the temperature gauge of each thermometer
    wRec,    \* _daily_stats
    wRange,  \* the gauges of the daily low and high
    wTorn,   \* thermometers whose last report was given up half-way
    wRead    \* the readings of each thermometer since midnight or the start

wVars == <<wDay, wAt, wTemp, wRec, wRange, wTorn, wRead>>

\* The order in which poll goes through the answer. The indoor thermometer is
\* read as the extra channels are.
Fields == <<"outdoor", "others", "extra">>
Thermometers == {"outdoor", "extra"}
NaN == 0
Unset == -1
NoRange == <<Unset, Unset>>

ASSUME TempsAssumption == Temps \subseteq Int \ {NaN, Unset}

WInit ==
    /\ wDay = 1
    /\ wAt = 0
    /\ wTemp = [t \in Thermometers |-> Unset]
    /\ wRec = [t \in Thermometers |-> [day |-> 0, min |-> Unset, max |-> Unset]]
    /\ wRange = [t \in Thermometers |-> NoRange]
    /\ wTorn = {}
    /\ wRead = [t \in Thermometers |-> {}]

\* _track_daily without the comparison of the dates.
Track_NoRollover(rec, v) ==
    IF rec.day = 0
      THEN [day |-> wDay, min |-> v, max |-> v]
      ELSE [rec EXCEPT !.min = Min({@, v}), !.max = Max({@, v})]

\* The record that _track_daily leaves behind.
Track(rec, v) ==
    IF rec.day # wDay
      THEN [day |-> wDay, min |-> v, max |-> v]
      ELSE [rec EXCEPT !.min = Min({@, v}), !.max = Max({@, v})]

\* The station answered: the first field comes next.
StartPoll ==
    /\ wAt = 0
    /\ wAt' = 1
    /\ UNCHANGED <<wDay, wTemp, wRec, wRange, wTorn, wRead>>

\* The loop goes on with the next field, or sleeps after the last.
Advance == wAt' = IF wAt = Len(Fields) THEN 0 ELSE wAt + 1

\* A thermometer is in the answer with a number.
Report(t, v) ==
    /\ Advance
    /\ wTemp' = [wTemp EXCEPT ![t] = v]
    /\ wRec' = [wRec EXCEPT ![t] = Track(@, v)]
    /\ wRange' = [wRange EXCEPT ![t] = <<wRec'[t].min, wRec'[t].max>>]
    /\ wTorn' = wTorn \ {t}
    /\ wRead' = [wRead EXCEPT ![t] = @ \cup {v}]
    /\ UNCHANGED wDay

\* Its value has no number in it ("--"): the range is left alone.
ReportsNoNumber(t) ==
    /\ Advance
    /\ wTemp' = [wTemp EXCEPT ![t] = NaN]
    /\ wTorn' = wTorn \ {t}
    /\ UNCHANGED <<wDay, wRec, wRange, wRead>>

\* It is not in the answer.
Missing ==
    /\ Advance
    /\ UNCHANGED <<wDay, wTemp, wRec, wRange, wTorn, wRead>>

\* The gauge is set, but what comes with it (humidity, pressure) is not
\* there: the poll ends before the range is looked at. The outdoor reading
\* comes alone.
Tears(t, v) ==
    /\ t # "outdoor"
    /\ wAt' = 0
    /\ wTemp' = [wTemp EXCEPT ![t] = v]
    /\ wTorn' = wTorn \cup {t}
    /\ UNCHANGED <<wDay, wRec, wRange, wRead>>

\* Any exception before a gauge is set, in the request too.
GivesUp ==
    /\ wAt' = 0
    /\ UNCHANGED <<wDay, wTemp, wRec, wRange, wTorn, wRead>>

Poll ==
    /\ wAt > 0
    /\ \/ /\ Fields[wAt] \in Thermometers
          /\ \/ ReportsNoNumber(Fields[wAt])
             \/ \E v \in Temps : Report(Fields[wAt], v) \/ Tears(Fields[wAt], v)
       \/ Missing
       \/ GivesUp

\* Midnight at the station, also between two fields.
Midnight ==
    /\ wDay < MaxDay
    /\ wDay' = wDay + 1
    /\ wRead' = [t \in Thermometers |-> {}]
    /\ UNCHANGED <<wAt, wTemp, wRec, wRange, wTorn>>

\* The container is restarted.
WRestart ==
    /\ wAt' = 0
    /\ wTemp' = [t \in Thermometers |-> Unset]
    /\ wRec' = [t \in Thermometers |-> [day |-> 0, min |-> Unset, max |-> Unset]]
    /\ wRange' = [t \in Thermometers |-> NoRange]
    /\ wTorn' = {}
    /\ wRead' = [t \in Thermometers |-> {}]
    /\ UNCHANGED wDay

WNext == StartPoll \/ Poll \/ Midnight \/ WRestart

WSpec == WInit /\ [][WNext]_wVars

\* From the first reading of a day on, the daily low and high are those of
\* the readings since midnight (or the start), whatever yesterday's were, and
\* the reading shown lies between them unless its report broke off half-way.
DailyTrue ==
    \A t \in Thermometers : wRead[t] # {} =>
        /\ wRange[t] = <<Min(wRead[t]), Max(wRead[t])>>
        /\ wTemp[t] \in Temps /\ t \notin wTorn => wTemp[t] \in wRead[t]

=============================================================================
