--------------------------- MODULE ExporterProofs ---------------------------
(* Theorems about the exporters: what their gauges show together is so, for *)
(* any thermometer readings, valves, days looked back, services and amounts.*)
EXTENDS WeatherExporter, RachioExporter, CostExporter,
        FiniteSetTheorems, WellFoundedInduction, TLAPS

-----------------------------------------------------------------------------
(* The lows and highs of the day *)

IsLeast(m, S) == m \in S /\ \A y \in S : m <= y
IsGreatest(m, S) == m \in S /\ \A y \in S : y <= m

LEMMA LeastIsMin == ASSUME NEW S \in SUBSET Int, NEW m, IsLeast(m, S) PROVE Min(S) = m
<1>1. Min(S) \in S /\ \A y \in S : Min(S) <= y
  <2>1. \E x \in S : \A y \in S : x =< y BY DEF IsLeast
  <2> QED BY <2>1 DEF Min
<1>2. Min(S) <= m /\ m <= Min(S) /\ m \in Int /\ Min(S) \in Int BY <1>1 DEF IsLeast
<1> QED BY <1>2

LEMMA GreatestIsMax == ASSUME NEW S \in SUBSET Int, NEW m, IsGreatest(m, S) PROVE Max(S) = m
<1>1. Max(S) \in S /\ \A y \in S : Max(S) >= y
  <2>1. \E x \in S : \A y \in S : x >= y BY DEF IsGreatest
  <2> QED BY <2>1 DEF Max
<1>2. Max(S) >= m /\ m >= Max(S) /\ m \in Int /\ Max(S) \in Int BY <1>1 DEF IsGreatest
<1> QED BY <1>2

\* One reading more.
LEMMA OneMore ==
    ASSUME NEW S \in SUBSET Int, NEW lo, NEW hi, IsLeast(lo, S), IsGreatest(hi, S), NEW v \in Int
    PROVE  IsLeast(Min({lo, v}), S \cup {v}) /\ IsGreatest(Max({hi, v}), S \cup {v})
<1>1. lo \in Int /\ hi \in Int BY DEF IsLeast, IsGreatest
<1>2. Min({lo, v}) = IF lo <= v THEN lo ELSE v
  <2>1. IsLeast(IF lo <= v THEN lo ELSE v, {lo, v}) BY <1>1 DEF IsLeast
  <2> QED BY <1>1, <2>1, LeastIsMin
<1>3. Max({hi, v}) = IF hi >= v THEN hi ELSE v
  <2>1. IsGreatest(IF hi >= v THEN hi ELSE v, {hi, v}) BY <1>1 DEF IsGreatest
  <2> QED BY <1>1, <2>1, GreatestIsMax
<1>4. \A y \in S : lo <= y /\ y <= hi /\ y \in Int BY DEF IsLeast, IsGreatest
<1>5. lo \in S /\ hi \in S BY DEF IsLeast, IsGreatest
<1>6. IsLeast(IF lo <= v THEN lo ELSE v, S \cup {v})
  <2>1. CASE lo <= v BY <1>1, <1>4, <1>5, <2>1 DEF IsLeast
  <2>2. CASE ~(lo <= v) BY <1>1, <1>4, <1>5, <2>2 DEF IsLeast
  <2> QED BY <2>1, <2>2
<1>7. IsGreatest(IF hi >= v THEN hi ELSE v, S \cup {v})
  <2>1. CASE hi >= v BY <1>1, <1>4, <1>5, <2>1 DEF IsGreatest
  <2>2. CASE ~(hi >= v) BY <1>1, <1>4, <1>5, <2>2 DEF IsGreatest
  <2> QED BY <2>1, <2>2
<1> QED BY <1>2, <1>3, <1>6, <1>7

WTypeOK ==
    /\ wDay \in Nat \ {0} /\ wAt \in 0 .. 3
    /\ wTemp \in [Thermometers -> Temps \cup {NaN, Unset}]
    /\ wRec \in [Thermometers -> [day : Nat, min : Int, max : Int]]
    /\ wRange \in [Thermometers -> Int \X Int]
    /\ wTorn \subseteq Thermometers
    /\ wRead \in [Thermometers -> SUBSET Temps]

\* A record of today exists when there was a reading today, and is of those.
RecordsOfToday ==
    \A t \in Thermometers :
        /\ wRec[t].day <= wDay
        /\ wRead[t] = {} => wRec[t].day # wDay
        /\ wRead[t] # {} =>
              /\ wRec[t].day = wDay
              /\ IsLeast(wRec[t].min, wRead[t]) /\ IsGreatest(wRec[t].max, wRead[t])
              /\ wRange[t] = <<wRec[t].min, wRec[t].max>>
              /\ wTemp[t] \in Temps /\ t \notin wTorn => wTemp[t] \in wRead[t]

WInv == WTypeOK /\ RecordsOfToday

LEMMA FieldsAre == Len(Fields) = 3 /\ (\A i \in 1 .. 3 : Fields[i] \in {"outdoor", "others", "extra"})
  BY DEF Fields

LEMMA Advances == ASSUME WInv, wAt > 0, Advance PROVE wAt' \in 0 .. 3
<1>1. wAt \in 1 .. 3 BY DEF WInv, WTypeOK
<1> QED BY <1>1, FieldsAre DEF Advance

LEMMA ReportStep ==
    ASSUME WInv, wAt > 0, NEW t \in Thermometers, NEW v \in Temps, Report(t, v)
    PROVE  WInv'
<1> USE DEF WInv, WTypeOK
<1> DEFINE rec == Track(wRec[t], v)
           read == wRead[t] \cup {v}
<1>1. v \in Int /\ wRec[t] \in [day : Nat, min : Int, max : Int] /\ wRead[t] \in SUBSET Int
  BY TempsAssumption
<1>2. /\ wTemp' = [wTemp EXCEPT ![t] = v] /\ wRec' = [wRec EXCEPT ![t] = rec]
      /\ wRange' = [wRange EXCEPT ![t] = <<wRec'[t].min, wRec'[t].max>>]
      /\ wTorn' = wTorn \ {t} /\ wRead' = [wRead EXCEPT ![t] = read] /\ wDay' = wDay
  BY DEF Report
<1>3. /\ rec \in [day : Nat, min : Int, max : Int] /\ rec.day = wDay
      /\ IsLeast(rec.min, read) /\ IsGreatest(rec.max, read)
  <2>1. CASE wRead[t] = {}
    <3>1. rec = [day |-> wDay, min |-> v, max |-> v] BY <2>1 DEF RecordsOfToday, Track
    <3>2. read = {v} BY <2>1
    <3> HIDE DEF rec, read
    <3> QED BY <1>1, <3>1, <3>2 DEF IsLeast, IsGreatest
  <2>2. CASE wRead[t] # {}
    <3>1. /\ wRec[t].day = wDay
          /\ IsLeast(wRec[t].min, wRead[t]) /\ IsGreatest(wRec[t].max, wRead[t])
      BY <2>2 DEF RecordsOfToday
    <3>2. /\ IsLeast(Min({wRec[t].min, v}), read)
          /\ IsGreatest(Max({wRec[t].max, v}), read)
      BY <1>1, <3>1, OneMore
    <3>3. rec = [wRec[t] EXCEPT !.min = Min({wRec[t].min, v}), !.max = Max({wRec[t].max, v})]
      BY <3>1 DEF Track
    <3>4. rec.min = Min({wRec[t].min, v}) /\ rec.max = Max({wRec[t].max, v}) /\ rec.day = wDay
      BY <1>1, <3>1, <3>3
    <3>5. rec.min \in Int /\ rec.max \in Int
      <4>1. read \subseteq Int BY <1>1
      <4>2. rec.min \in read /\ rec.max \in read BY <3>2, <3>4 DEF IsLeast, IsGreatest
      <4> QED BY <4>1, <4>2
    <3>6. rec = [day |-> rec.day, min |-> rec.min, max |-> rec.max] BY <1>1, <3>3
    <3> HIDE DEF rec
    <3> QED BY <1>1, <3>2, <3>4, <3>5, <3>6
  <2> QED BY <2>1, <2>2
<1>4. wAt' \in 0 .. 3 BY Advances DEF Report
<1> HIDE DEF rec, read
<1>5. wRange'[t] = <<rec.min, rec.max>> /\ wRange' \in [Thermometers -> Int \X Int]
  BY <1>2, <1>3
<1>6. read \in SUBSET Temps /\ v \in read BY DEF read
<1>7. WTypeOK' BY <1>2, <1>3, <1>4, <1>5, <1>6
<1>8. ASSUME NEW u \in Thermometers
      PROVE  /\ wRec'[u].day <= wDay
             /\ wRead'[u] = {} => wRec'[u].day # wDay
             /\ wRead'[u] # {} =>
                   /\ wRec'[u].day = wDay
                   /\ IsLeast(wRec'[u].min, wRead'[u]) /\ IsGreatest(wRec'[u].max, wRead'[u])
                   /\ wRange'[u] = <<wRec'[u].min, wRec'[u].max>>
                   /\ wTemp'[u] \in Temps /\ u \notin wTorn' => wTemp'[u] \in wRead'[u]
  <2>1. CASE u = t
    <3>1. wRec'[u] = rec /\ wRead'[u] = read /\ wTemp'[u] = v /\ wRange'[u] = <<rec.min, rec.max>>
      BY <1>2, <1>5, <2>1
    <3>2. wDay <= wDay OBVIOUS
    <3> QED BY <1>3, <1>6, <3>1, <3>2
  <2>2. CASE u # t
    <3>1. /\ wRec'[u] = wRec[u] /\ wRead'[u] = wRead[u] /\ wTemp'[u] = wTemp[u] /\ wRange'[u] = wRange[u]
          /\ u \in wTorn' <=> u \in wTorn
      BY <1>2, <2>2
    <3> QED BY <3>1 DEF RecordsOfToday
  <2> QED BY <2>1, <2>2
<1> QED BY <1>2, <1>7, <1>8 DEF RecordsOfToday

LEMMA WSteps == ASSUME WInv, [WNext]_wVars PROVE WInv'
<1> USE DEF WInv, WTypeOK
<1>1. CASE StartPoll BY <1>1 DEF StartPoll, RecordsOfToday
<1>2. CASE Poll
  <2>1. wAt > 0 BY <1>2 DEF Poll
  <2>2. ASSUME NEW t \in Thermometers, NEW v \in Temps, Report(t, v) PROVE WInv'
    BY <2>1, <2>2, ReportStep
  <2>3. ASSUME NEW t \in Thermometers, ReportsNoNumber(t) PROVE WInv'
    <3>1. /\ wTemp' = [wTemp EXCEPT ![t] = NaN] /\ wTorn' = wTorn \ {t}
          /\ UNCHANGED <<wDay, wRec, wRange, wRead>> /\ wAt' \in 0 .. 3
      BY <2>1, <2>3, Advances DEF ReportsNoNumber
    <3>2. NaN \notin Temps BY TempsAssumption
    <3>3. \A u \in Thermometers : wTemp'[u] \in Temps /\ u \notin wTorn' => wTemp[u] \in Temps /\ u \notin wTorn /\ wTemp'[u] = wTemp[u]
      BY <3>1, <3>2
    <3>4. WTypeOK' BY <3>1
    <3> QED BY <3>1, <3>3, <3>4 DEF RecordsOfToday
  <2>4. ASSUME NEW t \in Thermometers, NEW v \in Temps, Tears(t, v) PROVE WInv'
    <3>1. /\ wTemp' = [wTemp EXCEPT ![t] = v] /\ wTorn' = wTorn \cup {t}
          /\ UNCHANGED <<wDay, wRec, wRange, wRead>> /\ wAt' = 0
      BY <2>4 DEF Tears
    <3>2. \A u \in Thermometers : wTemp'[u] \in Temps /\ u \notin wTorn' => wTemp[u] \in Temps /\ u \notin wTorn /\ wTemp'[u] = wTemp[u]
      BY <3>1
    <3>3. WTypeOK' BY <3>1
    <3> QED BY <3>1, <3>2, <3>3 DEF RecordsOfToday
  <2>5. CASE Missing
    <3>1. UNCHANGED <<wDay, wTemp, wRec, wRange, wTorn, wRead>> /\ wAt' \in 0 .. 3
      BY <2>1, <2>5, Advances DEF Missing
    <3> QED BY <3>1 DEF RecordsOfToday
  <2>6. CASE GivesUp
    <3>1. UNCHANGED <<wDay, wTemp, wRec, wRange, wTorn, wRead>> /\ wAt' = 0 BY <2>6 DEF GivesUp
    <3> QED BY <3>1 DEF RecordsOfToday
  <2> QED BY <1>2, <2>2, <2>3, <2>4, <2>5, <2>6 DEF Poll
<1>3. CASE Midnight
  <2>1. /\ wDay' = wDay + 1 /\ wRead' = [t \in Thermometers |-> {}]
        /\ UNCHANGED <<wAt, wTemp, wRec, wRange, wTorn>>
    BY <1>3 DEF Midnight
  <2>2. WTypeOK' BY <2>1
  <2>3. \A t \in Thermometers : wRead'[t] = {} /\ wRec[t].day <= wDay + 1 /\ wRec[t].day # wDay + 1
    BY <2>1 DEF RecordsOfToday
  <2> QED BY <2>1, <2>2, <2>3 DEF RecordsOfToday
<1>4. CASE WRestart
  <2>1. /\ wAt' = 0 /\ wTemp' = [t \in Thermometers |-> Unset]
        /\ wRec' = [t \in Thermometers |-> [day |-> 0, min |-> Unset, max |-> Unset]]
        /\ wRange' = [t \in Thermometers |-> NoRange] /\ wTorn' = {}
        /\ wRead' = [t \in Thermometers |-> {}] /\ wDay' = wDay
    BY <1>4 DEF WRestart
  <2>2. Unset \in Int /\ NoRange \in Int \X Int BY DEF Unset, NoRange
  <2>3. WTypeOK' BY <2>1, <2>2
  <2>4. \A t \in Thermometers : wRead'[t] = {} /\ wRec'[t].day = 0 BY <2>1
  <2>5. 0 <= wDay /\ 0 # wDay OBVIOUS
  <2> QED BY <2>1, <2>3, <2>4, <2>5 DEF RecordsOfToday
<1>5. CASE UNCHANGED wVars BY <1>5 DEF wVars, RecordsOfToday
<1> QED BY <1>1, <1>2, <1>3, <1>4, <1>5 DEF WNext

LEMMA WInitially == ASSUME WInit PROVE WInv
<1>1. Unset \in Int /\ NoRange \in Int \X Int BY DEF Unset, NoRange
<1>2. WTypeOK BY <1>1 DEF WInit, WTypeOK
<1>3. wDay = 1 /\ \A t \in Thermometers : wRead[t] = {} /\ wRec[t].day = 0 BY DEF WInit
<1>4. RecordsOfToday BY <1>3 DEF RecordsOfToday
<1> QED BY <1>2, <1>4 DEF WInv

\* From the first reading of a day on, the low and the high shown are those of the
\* readings since midnight or the start, through polls that end anywhere, and the
\* reading shown is one of them unless its report broke off; for any readings.
THEOREM LowsAndHighsAreOfToday == WSpec => []DailyTrue
<1>1. WInv => DailyTrue
  <2> SUFFICES ASSUME WInv, NEW t \in Thermometers, wRead[t] # {}
               PROVE  /\ wRange[t] = <<Min(wRead[t]), Max(wRead[t])>>
                      /\ wTemp[t] \in Temps /\ t \notin wTorn => wTemp[t] \in wRead[t]
    BY DEF DailyTrue
  <2>1. wRead[t] \in SUBSET Int BY TempsAssumption DEF WInv, WTypeOK
  <2>2. /\ IsLeast(wRec[t].min, wRead[t]) /\ IsGreatest(wRec[t].max, wRead[t])
        /\ wRange[t] = <<wRec[t].min, wRec[t].max>>
        /\ wTemp[t] \in Temps /\ t \notin wTorn => wTemp[t] \in wRead[t]
    BY DEF WInv, RecordsOfToday
  <2> QED BY <2>1, <2>2, LeastIsMin, GreatestIsMax
<1> QED BY <1>1, WInitially, WSteps, PTL DEF WSpec

-----------------------------------------------------------------------------
(* The valves that watered *)

\* Every set of numbers that is not empty has a least one.
LEMMA LeastNumber == ASSUME NEW T \in SUBSET Nat, T # {}
                     PROVE  \E x \in T : \A y \in T : x <= y
<1> DEFINE R == {ss \in Nat \X Nat : ss[1] < ss[2]}
<1>1. IsWellFoundedOn(R, Nat) BY NatLessThanWellFounded DEF OpToRel
<1>2. \A x, y \in Nat : y < x => <<y, x>> \in R OBVIOUS
<1> HIDE DEF R
<1>3. PICK x \in T : \A y \in T : ~ (<<y, x>> \in R) BY <1>1, WFMin
<1>4. ASSUME NEW y \in T PROVE x <= y
  <2>1. x \in Nat /\ y \in Nat OBVIOUS
  <2>2. ~ (y < x) BY <2>1, <1>2, <1>3, Zenon
  <2> QED BY <2>1, <2>2
<1> QED BY <1>4

\* A set of days has a last one.
LEMMA LastDay == ASSUME NEW S \in SUBSET Days, S # {}
                 PROVE  Max(S) \in S /\ \A d \in S : d <= Max(S)
<1> DEFINE T == {MaxToday - d : d \in S}
<1>1. \A d \in S : d \in Nat /\ MaxToday - d \in Nat BY DaysAssumption DEF Days
<1>2. T \in SUBSET Nat /\ T # {} BY <1>1
<1>3. PICK x \in T : \A y \in T : x <= y BY <1>2, LeastNumber
<1>4. PICK m \in S : x = MaxToday - m OBVIOUS
<1>5. \A d \in S : MaxToday - d \in T OBVIOUS
<1>6. \A d \in S : MaxToday - m <= MaxToday - d BY <1>3, <1>4, <1>5
<1>7. \A d \in S : d <= m BY <1>1, <1>6, DaysAssumption
<1>8. IsGreatest(m, S) BY <1>7 DEF IsGreatest
<1>9. Max(S) = m BY <1>1, <1>8, GreatestIsMax
<1> QED BY <1>7, <1>9

Kinds == {"none", "skipped", "empty", "watered"}
RTypeOK ==
    /\ rDay \in Days /\ rStation \in BOOLEAN /\ rNames \subseteq Valves
    /\ rAsk \in 0 .. rDay /\ rOk \in 0 .. rDay
    /\ rRuns \in [Valves -> [Days -> Kinds]]
    /\ rToday \in [Valves -> {Absent, 0} \cup Days]
    /\ rLast \in [Valves -> {0} \cup Days]

\* What is shown did happen, and not after the days that were asked for.
ShownHappened ==
    \A v \in Valves :
        /\ rToday[v] > 0 => /\ rRuns[v][rToday[v]] = "watered" /\ rLast[v] >= rToday[v]
                            /\ rToday[v] <= rDay /\ (rAsk > 0 => rToday[v] <= rAsk)
        /\ rLast[v] > 0 => rRuns[v][rLast[v]] = "watered"
        /\ rOk = rDay /\ v \in rNames => rToday[v] \in {0, rDay}

\* Nothing was asked before the discovery.
DiscoveredFirst == ~rStation => rAsk = 0 /\ rOk = 0

RachioInv == RTypeOK /\ ShownHappened /\ DiscoveredFirst

LEMMA DaysCount == /\ \A d \in Days : d \in Nat /\ d \in Int
                   /\ \A d \in {Absent, 0} \cup Days : d > 0 => d \in Days
  BY DaysAssumption DEF Days, Absent

LEMMA DaysAre == /\ Days \subseteq Nat \ {0} /\ (\A d \in Days : 0 .. d \subseteq Days \cup {0})
                 /\ 1 \in Days /\ ~(Absent > 0) /\ Absent \notin Days /\ 0 \notin Days
  BY DaysAssumption DEF Days, Absent

LEMMA AnswerStep ==
    ASSUME RachioInv, NEW days \in SUBSET Days, Answer(days),
           days = {} \/ days = {d \in Days : rAsk - Lookback <= d /\ d <= rAsk}
    PROVE  RachioInv'
<1> USE DEF RachioInv, RTypeOK
<1> DEFINE Ran(v) == {d \in days : RunsForDay(v, d)}
<1>1. /\ rAsk > 0 /\ rAsk \in Days
      /\ rAsk' = 0 /\ UNCHANGED <<rDay, rStation, rNames, rRuns>>
      /\ rOk' = IF days = {} THEN 0 ELSE rAsk
  BY DaysAre DEF Answer
<1>2. \A v \in Valves :
        /\ rToday'[v] = IF rAsk \in days /\ RunsForDay(v, rAsk) THEN rAsk
                        ELSE IF v \in rNames THEN 0 ELSE rToday[v]
        /\ rLast'[v] = IF Ran(v) = {} THEN rLast[v] ELSE Max(Ran(v))
  BY DEF Answer
<1>3. /\ DOMAIN rToday' = Valves /\ rToday' = [v \in Valves |-> rToday'[v]]
      /\ DOMAIN rLast' = Valves /\ rLast' = [v \in Valves |-> rLast'[v]]
  BY DEF Answer
<1>4. ASSUME NEW v \in Valves, Ran(v) # {}
      PROVE  /\ Max(Ran(v)) \in Ran(v) /\ \A d \in Ran(v) : d <= Max(Ran(v))
             /\ Max(Ran(v)) \in Days /\ rRuns[v][Max(Ran(v))] = "watered"
  <2>1. Ran(v) \in SUBSET Days OBVIOUS
  <2>2. Max(Ran(v)) \in Ran(v) /\ \A d \in Ran(v) : d <= Max(Ran(v)) BY <1>4, <2>1, LastDay
  <2> QED BY <2>2 DEF RunsForDay
<1> HIDE DEF Ran
<1>5. ASSUME NEW v \in Valves
      PROVE  /\ rToday'[v] \in {Absent, 0} \cup Days /\ rLast'[v] \in {0} \cup Days
             /\ rToday'[v] > 0 => /\ rRuns[v][rToday'[v]] = "watered" /\ rLast'[v] >= rToday'[v]
                                  /\ rToday'[v] <= rDay
             /\ rLast'[v] > 0 => rRuns[v][rLast'[v]] = "watered"
             /\ days # {} /\ v \in rNames => rToday'[v] \in {0, rAsk}
  <2>1. rToday'[v] \in {Absent, 0} \cup Days BY <1>1, <1>2
  <2>2. rLast'[v] \in {0} \cup Days BY <1>2, <1>4
  <2>3. rLast'[v] > 0 => rRuns[v][rLast'[v]] = "watered" BY <1>2, <1>4 DEF ShownHappened
  <2>4. days # {} /\ v \in rNames => rToday'[v] \in {0, rAsk} BY <1>2
  <2>5. CASE rAsk \in days /\ RunsForDay(v, rAsk)
    <3>1. rAsk \in Ran(v) BY <2>5 DEF Ran
    <3>2. rToday'[v] = rAsk /\ rLast'[v] = Max(Ran(v)) BY <1>2, <2>5, <3>1
    <3>3. rAsk <= Max(Ran(v)) /\ Max(Ran(v)) \in Days BY <1>4, <3>1
    <3>4. rLast'[v] >= rToday'[v] BY <1>1, <3>2, <3>3, DaysAre
    <3>5. rRuns[v][rAsk] = "watered" BY <2>5 DEF RunsForDay
    <3> QED BY <1>1, <2>1, <2>2, <2>3, <2>4, <3>2, <3>4, <3>5
  <2>6. CASE ~(rAsk \in days /\ RunsForDay(v, rAsk)) /\ v \in rNames
    <3>1. rToday'[v] = 0 BY <1>2, <2>6
    <3> QED BY <2>1, <2>2, <2>3, <2>4, <3>1
  <2>7. CASE ~(rAsk \in days /\ RunsForDay(v, rAsk)) /\ v \notin rNames
    <3>1. rToday'[v] = rToday[v] BY <1>2, <2>7
    <3>2. CASE ~(rToday[v] > 0) BY <2>1, <2>2, <2>3, <2>4, <3>1, <3>2
    <3>3. CASE rToday[v] > 0
      <4> DEFINE k == rToday[v]
      <4>1. k \in Days /\ k \in Nat /\ rRuns[v][k] = "watered" /\ rLast[v] >= k /\ k <= rDay /\ k <= rAsk
        <5>1. k \in Days /\ k \in Nat BY <3>3, DaysCount
        <5> QED BY <1>1, <3>3, <5>1 DEF ShownHappened
      <4>2. CASE Ran(v) = {}
        <5>1. rLast'[v] = rLast[v] BY <1>2, <4>2
        <5> QED BY <2>1, <2>2, <2>3, <2>4, <3>1, <4>1, <5>1
      <4>3. CASE Ran(v) # {}
        <5>1. rLast'[v] = Max(Ran(v)) /\ Max(Ran(v)) \in Days /\ Max(Ran(v)) \in Ran(v) BY <1>2, <1>4, <4>3
        <5>2. days = {d \in Days : rAsk - Lookback <= d /\ d <= rAsk} /\ Max(Ran(v)) \in days
          BY <4>3, <5>1 DEF Ran
        <5>3. rAsk - Lookback <= Max(Ran(v)) BY <5>2
        <5>4. CASE rAsk - Lookback <= k
          <6>1. k \in Ran(v) BY <4>1, <5>2, <5>4 DEF Ran, RunsForDay
          <6>2. k <= Max(Ran(v)) BY <1>4, <6>1
          <6>3. rLast'[v] >= k BY <4>1, <5>1, <6>2, DaysAre
          <6> QED BY <2>1, <2>2, <2>3, <2>4, <3>1, <4>1, <6>3
        <5>5. CASE ~(rAsk - Lookback <= k)
          <6>1. rAsk \in Int /\ Max(Ran(v)) \in Int BY <1>1, <5>1, DaysCount
          <6>2. rLast'[v] >= k BY <4>1, <5>1, <5>3, <5>5, <6>1, DaysAssumption
          <6> QED BY <2>1, <2>2, <2>3, <2>4, <3>1, <4>1, <6>2
        <5> QED BY <5>4, <5>5
      <4> QED BY <4>2, <4>3
    <3> QED BY <3>2, <3>3
  <2> QED BY <2>5, <2>6, <2>7
<1>6. rToday' \in [Valves -> {Absent, 0} \cup Days] BY <1>3, <1>5
<1>7. rLast' \in [Valves -> {0} \cup Days] BY <1>3, <1>5
<1>8. rAsk' \in 0 .. rDay' /\ rOk' \in 0 .. rDay'
  <2>1. rDay \in Nat BY DaysAre
  <2> QED BY <1>1, <2>1
<1>9. RTypeOK' BY <1>1, <1>6, <1>7, <1>8
<1>10. ~(rAsk' > 0) /\ (rOk' = rDay' => days # {} /\ rAsk = rDay) BY <1>1, DaysAre
<1>11. ShownHappened' BY <1>1, <1>5, <1>10 DEF ShownHappened
<1>12. DiscoveredFirst' BY <1>1 DEF DiscoveredFirst
<1> QED BY <1>9, <1>11, <1>12

LEMMA RSteps == ASSUME RachioInv, [RNext]_rVars PROVE RachioInv'
<1> USE DEF RachioInv, RTypeOK
<1>0. rDay \in Nat /\ rDay >= 1 BY DaysAre
<1>1. CASE Discover
  <2>1. rAsk = 0 /\ rOk = 0 BY <1>1 DEF Discover, DiscoveredFirst
  <2>2. rNames' \subseteq Valves /\ UNCHANGED <<rDay, rAsk, rRuns, rToday, rLast, rOk>> /\ rStation' = TRUE
    BY <1>1 DEF Discover
  <2>3. rOk # rDay BY <1>0, <2>1
  <2> QED BY <2>1, <2>2, <2>3 DEF ShownHappened, DiscoveredFirst
<1>2. CASE AskDays
  <2>1. rStation /\ rAsk' = rDay /\ UNCHANGED <<rDay, rStation, rNames, rRuns, rToday, rLast, rOk>>
    BY <1>2 DEF AskDays
  <2>2. rAsk' \in 0 .. rDay BY <1>0, <2>1
  <2> QED BY <2>1, <2>2 DEF ShownHappened, DiscoveredFirst
<1>3. CASE Answer({d \in Days : rAsk - Lookback <= d /\ d <= rAsk})
  BY <1>3, AnswerStep
<1>4. CASE Answer({})
  <2>1. {} \in SUBSET Days OBVIOUS
  <2> QED BY <1>4, <2>1, AnswerStep
<1>5. CASE RPollFails
  <2>1. rAsk > 0 /\ rAsk' = 0 /\ UNCHANGED <<rDay, rStation, rNames, rRuns, rToday, rLast, rOk>>
    BY <1>5 DEF RPollFails
  <2>2. rAsk' \in 0 .. rDay' /\ ~(rAsk' > 0) BY <1>0, <2>1
  <2> QED BY <2>1, <2>2 DEF ShownHappened, DiscoveredFirst
<1>6. CASE NextDay
  <2>1. rDay < MaxToday /\ rDay' = rDay + 1 /\ UNCHANGED <<rStation, rNames, rAsk, rRuns, rToday, rLast, rOk>>
    BY <1>6 DEF NextDay
  <2>2. /\ rDay' \in Days /\ rAsk' \in 0 .. rDay' /\ rOk' \in 0 .. rDay' /\ rOk' # rDay'
    BY <1>0, <2>1, DaysAssumption DEF Days
  <2>3. \A v \in Valves : rToday[v] > 0 => rToday[v] <= rDay + 1
    <3>1. \A v \in Valves : rToday[v] > 0 => rToday[v] <= rDay /\ rToday[v] \in Nat
      BY DaysCount DEF ShownHappened
    <3> QED BY <1>0, <3>1
  <2> QED BY <2>1, <2>2, <2>3 DEF ShownHappened, DiscoveredFirst
<1>7. CASE RRestart
  <2>1. /\ rStation' = FALSE /\ rNames' = {} /\ rAsk' = 0 /\ rOk' = 0
        /\ rToday' = NoGauge /\ rLast' = [v \in Valves |-> 0] /\ UNCHANGED <<rDay, rRuns>>
    BY <1>7 DEF RRestart
  <2>2. /\ rToday' \in [Valves -> {Absent, 0} \cup Days] /\ rLast' \in [Valves -> {0} \cup Days]
        /\ \A v \in Valves : ~(rToday'[v] > 0) /\ ~(rLast'[v] > 0)
    BY <2>1, DaysAre DEF NoGauge
  <2>3. rAsk' \in 0 .. rDay' /\ rOk' \in 0 .. rDay' BY <1>0, <2>1
  <2> QED BY <2>1, <2>2, <2>3 DEF ShownHappened, DiscoveredFirst
<1>8. ASSUME NEW v \in Valves, NEW kind \in {"skipped", "empty", "watered"}, ValveRuns(v, kind)
      PROVE  RachioInv'
  <2>1. /\ rRuns[v][rDay] # "watered" /\ rRuns' = [rRuns EXCEPT ![v][rDay] = kind]
        /\ UNCHANGED <<rDay, rStation, rNames, rAsk, rToday, rLast, rOk>>
    BY <1>8 DEF ValveRuns
  <2>2. rRuns' \in [Valves -> [Days -> Kinds]] BY <2>1 DEF Kinds
  <2>3. \A u \in Valves, d \in Days : rRuns[u][d] = "watered" => rRuns'[u][d] = "watered"
    BY <2>1
  <2>4. \A u \in Valves : /\ rToday[u] > 0 => rToday[u] \in Days
                          /\ rLast[u] > 0 => rLast[u] \in Days
    BY DaysAre
  <2> QED BY <2>1, <2>2, <2>3, <2>4 DEF ShownHappened, DiscoveredFirst
<1>9. CASE UNCHANGED rVars BY <1>9 DEF rVars, ShownHappened, DiscoveredFirst
<1> QED BY <1>1, <1>2, <1>3, <1>4, <1>5, <1>6, <1>7, <1>8, <1>9 DEF RNext, RPoll

LEMMA RInitially == ASSUME RInit PROVE RachioInv
<1>1. /\ rDay = 1 /\ rStation = FALSE /\ rNames = {} /\ rAsk = 0 /\ rOk = 0
      /\ rRuns = [v \in Valves |-> [d \in Days |-> "none"]]
      /\ rToday = [v \in Valves |-> Absent] /\ rLast = [v \in Valves |-> 0]
  BY DEF RInit, NoGauge
<1>2. 0 \in 0 .. 1 /\ 1 \in Days BY DaysAre
<1>3. RTypeOK BY <1>1, <1>2 DEF RTypeOK, Kinds
<1>4. \A v \in Valves : ~(rToday[v] > 0) /\ ~(rLast[v] > 0) BY <1>1, DaysAre
<1> QED BY <1>1, <1>3, <1>4 DEF RachioInv, ShownHappened, DiscoveredFirst

\* No valve is ever shown as watered for a run that was skipped or empty, nor with an
\* earlier day as its last, and after a poll of today none that is named shows
\* yesterday's; for any valves and days looked back.
THEOREM WateredTodayIsTrue == RSpec => []TodayIsToday
<1>1. RachioInv => TodayIsToday BY DEF RachioInv, ShownHappened, TodayIsToday
<1> QED BY <1>1, RInitially, RSteps, PTL DEF RSpec

-----------------------------------------------------------------------------
(* Sums of amounts *)

\* The element that a sum takes next, and the sums of all subsets of U.
Next1(s) == CHOOSE x \in s : TRUE
Recurs(f, d, U) ==
    \A s \in SUBSET U : f[s] = IF s = {} THEN 0 ELSE d[Next1(s)] + f[s \ {Next1(s)}]
Sums(f, d, U) ==
    /\ f \in [SUBSET U -> Int]
    /\ \A x \in U : d[x] \in Int
    /\ Recurs(f, d, U)
FromAny(f, d, U) == \A s \in SUBSET U : \A x \in s : f[s] = d[x] + f[s \ {x}]

LEMMA NextOne == \A s : s # {} => Next1(s) \in s
  BY DEF Next1

\* Of sets of finite sets, one of the smallest.
LEMMA Smallest ==
    ASSUME NEW U, IsFiniteSet(U), NEW B \in SUBSET (SUBSET U), B # {}
    PROVE  \E s \in B : /\ IsFiniteSet(s)
                        /\ \A x \in s : s \ {x} \notin B
<1> DEFINE Sizes == {Cardinality(s) : s \in B}
<1>1. \A s \in SUBSET U : IsFiniteSet(s) /\ Cardinality(s) \in Nat BY FS_Subset, FS_CardinalityType
<1>2. Sizes \in SUBSET Nat /\ Sizes # {} BY <1>1
<1>3. PICK n \in Sizes : \A m \in Sizes : n <= m BY <1>2, LeastNumber
<1>4. PICK s \in B : n = Cardinality(s) OBVIOUS
<1>5. ASSUME NEW x \in s, s \ {x} \in B PROVE FALSE
  <2>1. IsFiniteSet(s) /\ Cardinality(s \ {x}) = Cardinality(s) - 1 BY <1>1, FS_RemoveElement
  <2>2. Cardinality(s) <= Cardinality(s \ {x}) BY <1>3, <1>4, <1>5
  <2>3. Cardinality(s) \in Nat BY <1>1
  <2> QED BY <2>1, <2>2, <2>3
<1> QED BY <1>1, <1>4, <1>5

\* The sums exist: those of small sets first.
LEMMA SumsExist ==
    ASSUME NEW U, IsFiniteSet(U), NEW d, \A x \in U : d[x] \in Int
    PROVE  \E f : Sums(f, d, U)
<1> DEFINE Small(n) == {s \in SUBSET U : Cardinality(s) <= n}
           SumsTo(f, n) == /\ f \in [Small(n) -> Int]
                           /\ \A s \in Small(n) :
                                 f[s] = IF s = {} THEN 0 ELSE d[Next1(s)] + f[s \ {Next1(s)}]
           Bad == {n \in Nat : ~ \E f : SumsTo(f, n)}
<1>1. \A s \in SUBSET U : IsFiniteSet(s) /\ Cardinality(s) \in Nat BY FS_Subset, FS_CardinalityType
<1>2. \A s \in SUBSET U : Cardinality(s) = 0 <=> s = {} BY <1>1, FS_EmptySet
<1>3. \A s \in SUBSET U : s # {} => /\ Next1(s) \in s /\ s \ {Next1(s)} \in SUBSET U
                                    /\ Cardinality(s \ {Next1(s)}) = Cardinality(s) - 1
  BY <1>1, NextOne, FS_RemoveElement
<1>4. \E f : SumsTo(f, 0)
  <2> DEFINE f == [s \in Small(0) |-> 0]
  <2>1. \A s \in Small(0) : s = {}
    BY <1>1, <1>2
  <2>2. SumsTo(f, 0) BY <2>1
  <2> QED BY <2>2
<1>5. ASSUME NEW n \in Nat, NEW f, SumsTo(f, n) PROVE \E g : SumsTo(g, n + 1)
  <2> DEFINE g == [s \in Small(n + 1) |->
                      IF s \in Small(n) THEN f[s] ELSE d[Next1(s)] + f[s \ {Next1(s)}]]
  <2>1. Small(n) \subseteq Small(n + 1) BY <1>1
  <2>2. \A s \in Small(n + 1) : s # {} => Next1(s) \in U /\ s \ {Next1(s)} \in Small(n)
    BY <1>1, <1>3
  <2>3. {} \in Small(n) BY <1>1, <1>2
  <2> HIDE DEF Small
  <2>4. g \in [Small(n + 1) -> Int]
    <3>1. ASSUME NEW s \in Small(n + 1) PROVE g[s] \in Int
      <4>1. CASE s \in Small(n) BY <1>5, <4>1
      <4>2. CASE s \notin Small(n)
        <5>1. s # {} BY <2>3, <4>2
        <5>2. f[s \ {Next1(s)}] \in Int /\ d[Next1(s)] \in Int BY <1>5, <2>2, <5>1
        <5> QED BY <4>2, <5>2
      <4> QED BY <4>1, <4>2
    <3> QED BY <3>1
  <2>5. ASSUME NEW s \in Small(n + 1)
        PROVE  g[s] = IF s = {} THEN 0 ELSE d[Next1(s)] + g[s \ {Next1(s)}]
    <3>1. CASE s = {}
      <4>1. g[s] = f[s] /\ f[s] = 0 BY <1>5, <2>1, <2>3, <3>1
      <4> QED BY <3>1, <4>1
    <3>2. CASE s # {}
      <4>1. s \ {Next1(s)} \in Small(n) BY <2>2, <3>2
      <4>2. g[s \ {Next1(s)}] = f[s \ {Next1(s)}] BY <2>1, <4>1
      <4>3. CASE s \in Small(n) BY <1>5, <3>2, <4>2, <4>3
      <4>4. CASE s \notin Small(n) BY <3>2, <4>2, <4>4
      <4> QED BY <4>3, <4>4
    <3> QED BY <3>1, <3>2
  <2> HIDE DEF g
  <2> QED BY <2>4, <2>5
<1>6. Bad = {}
  <2> SUFFICES ASSUME Bad # {} PROVE FALSE OBVIOUS
  <2>1. PICK n \in Bad : \A m \in Bad : n <= m BY LeastNumber
  <2>2. n \in Nat /\ ~ \E f : SumsTo(f, n) OBVIOUS
  <2> HIDE DEF SumsTo
  <2>3. n # 0 BY <1>4, <2>2
  <2>4. n - 1 \in Nat /\ n - 1 \notin Bad /\ n - 1 + 1 = n BY <2>1, <2>2, <2>3
  <2>5. \E f : SumsTo(f, n - 1) BY <2>4
  <2>6. \E g : SumsTo(g, n - 1 + 1) BY <1>5, <2>4, <2>5
  <2> QED BY <2>2, <2>4, <2>6
<1>7. Cardinality(U) \in Nat BY FS_CardinalityType
<1>8. PICK f : SumsTo(f, Cardinality(U))
  <2> HIDE DEF SumsTo
  <2> QED BY <1>6, <1>7
<1>9. Small(Cardinality(U)) = SUBSET U BY FS_Subset
<1> QED BY <1>8, <1>9 DEF Sums, Recurs

\* Two such functions agree on what they both sum.
LEMMA SumsAgree ==
    ASSUME NEW U, IsFiniteSet(U), NEW d, NEW f, NEW g,
           Recurs(f, d, U), Recurs(g, d, U)
    PROVE  \A s \in SUBSET U : f[s] = g[s]
<1> DEFINE B == {s \in SUBSET U : f[s] # g[s]}
<1> SUFFICES ASSUME B # {} PROVE FALSE OBVIOUS
<1>1. PICK s \in B : \A x \in s : s \ {x} \notin B BY Smallest
<1>2. s \in SUBSET U /\ f[s] # g[s] OBVIOUS
<1>3. s # {}
  <2>1. {} \in SUBSET U /\ f[{}] = 0 /\ g[{}] = 0 BY DEF Recurs
  <2> HIDE DEF B
  <2> QED BY <1>2, <2>1
<1>4. Next1(s) \in s /\ s \ {Next1(s)} \in SUBSET U BY <1>2, <1>3, NextOne
<1>5. f[s \ {Next1(s)}] = g[s \ {Next1(s)}] BY <1>1, <1>4
<1> QED BY <1>2, <1>3, <1>5 DEF Recurs

\* A sum may take any element first.
LEMMA AnyFirst ==
    ASSUME NEW U, IsFiniteSet(U), NEW d, NEW f, Sums(f, d, U)
    PROVE  FromAny(f, d, U)
<1> DEFINE B == {s \in SUBSET U : ~ \A x \in s : f[s] = d[x] + f[s \ {x}]}
<1> SUFFICES ASSUME B # {} PROVE FALSE BY DEF FromAny
<1>1. PICK s \in B : \A x \in s : s \ {x} \notin B BY Smallest
<1>2. s \in SUBSET U OBVIOUS
<1>3. PICK x \in s : f[s] # d[x] + f[s \ {x}] OBVIOUS
<1> HIDE DEF B
<1> DEFINE y == Next1(s)
<1>4. y \in s /\ f[s] = d[y] + f[s \ {y}] BY <1>2, <1>3, NextOne DEF Sums, Recurs
<1> HIDE DEF y
<1>5. x # y BY <1>3, <1>4
<1> DEFINE a == s \ {x}
           b == s \ {y}
           c == a \ {y}
<1>6. x \in b /\ y \in a /\ a \in SUBSET U /\ b \in SUBSET U /\ b \ {x} = c /\ c \in SUBSET U
  BY <1>2, <1>4, <1>5
<1>7. f[b] = d[x] + f[c] BY <1>1, <1>4, <1>6 DEF B
<1>8. f[a] = d[y] + f[c] BY <1>1, <1>6 DEF B
<1>9. d[x] \in Int /\ d[y] \in Int /\ f[c] \in Int BY <1>2, <1>4, <1>6 DEF Sums
<1>10. f[s] # d[x] + f[a] /\ f[s] = d[y] + f[b] BY <1>3, <1>4
<1> HIDE DEF a, b, c
<1> QED BY <1>7, <1>8, <1>9, <1>10

\* What Total is.
LEMMA TotalIs ==
    ASSUME NEW U, IsFiniteSet(U), NEW d, \A x \in U : d[x] \in Int
    PROVE  \E f : Sums(f, d, U) /\ Total(d, U) = f[U]
<1>1. PICK f : Sums(f, d, U) BY SumsExist
<1> DEFINE Is(g) == g = [s \in SUBSET U |-> IF s = {} THEN 0 ELSE d[Next1(s)] + g[s \ {Next1(s)}]]
           total == CHOOSE g : Is(g)
<1>2. Total(d, U) = total[U] BY DEF Total, MapThenSumSet, MapThenFoldSet, Next1
<1>3. Is(f) BY <1>1 DEF Sums, Recurs
<1>4. Is(total) BY <1>3
<1> HIDE DEF total
<1>5. Recurs(total, d, U) BY <1>4 DEF Recurs
<1>6. \A s \in SUBSET U : f[s] = total[s]
  <2>1. Recurs(f, d, U) BY <1>1 DEF Sums
  <2> QED BY <1>5, <2>1, SumsAgree
<1>7. U \in SUBSET U OBVIOUS
<1> QED BY <1>1, <1>2, <1>6, <1>7

\* More amounts, none below zero, add up to no less.
LEMMA TotalOfMore ==
    ASSUME NEW T, IsFiniteSet(T), NEW S \in SUBSET T, NEW d, NEW e,
           \A x \in T : e[x] \in Nat, \A x \in S : e[x] = d[x]
    PROVE  Total(e, T) >= Total(d, S)
<1>1. IsFiniteSet(S) BY FS_Subset
<1>0. (\A x \in S : d[x] \in Int) /\ (\A x \in T : e[x] \in Int) OBVIOUS
<1>2. PICK f : Sums(f, e, T) /\ Total(e, T) = f[T] BY <1>0, TotalIs
<1>3. PICK g : Sums(g, d, S) /\ Total(d, S) = g[S] BY <1>0, <1>1, TotalIs
<1>4. FromAny(f, e, T) BY <1>2, AnyFirst
<1>5. FromAny(g, d, S) BY <1>1, <1>3, AnyFirst
<1> DEFINE B == {s \in SUBSET T : ~(f[s] >= g[s \cap S])}
<1>6. B = {}
  <2> SUFFICES ASSUME B # {} PROVE FALSE OBVIOUS
  <2>1. PICK s \in B : \A x \in s : s \ {x} \notin B BY Smallest
  <2>2. s \in SUBSET T /\ ~(f[s] >= g[s \cap S]) OBVIOUS
  <2>3. CASE s = {}
    <3>1. f[s] = 0 /\ g[s \cap S] = 0
      <4>1. {} \in SUBSET T /\ {} \in SUBSET S /\ s \cap S = {} BY <2>3
      <4> QED BY <1>2, <1>3, <2>3, <4>1 DEF Sums, Recurs
    <3> QED BY <2>2, <3>1
  <2>4. CASE s # {}
    <3>1. PICK x : x \in s BY <2>4
    <3> DEFINE r == s \ {x}
    <3>2. r \in SUBSET T /\ f[r] >= g[r \cap S] BY <2>1, <2>2, <3>1
    <3>3. f[s] = e[x] + f[r] BY <1>4, <2>2, <3>1 DEF FromAny
    <3>4. f[r] \in Int /\ e[x] \in Nat /\ g[r \cap S] \in Int
      <4>1. r \cap S \in SUBSET S OBVIOUS
      <4> QED BY <1>2, <1>3, <2>2, <3>1, <3>2, <4>1 DEF Sums, Recurs
    <3>5. CASE x \in S
      <4>1. s \cap S \in SUBSET S /\ x \in s \cap S /\ (s \cap S) \ {x} = r \cap S BY <3>1, <3>5
      <4>2. g[s \cap S] = e[x] + g[r \cap S] BY <1>5, <3>5, <4>1 DEF FromAny
      <4> HIDE DEF r, B
      <4> QED BY <2>2, <3>2, <3>3, <3>4, <4>2
    <3>6. CASE x \notin S
      <4>1. g[s \cap S] = g[r \cap S] BY <3>6
      <4> HIDE DEF r, B
      <4> QED BY <2>2, <3>2, <3>3, <3>4, <4>1
    <3> QED BY <3>5, <3>6
  <2> QED BY <2>3, <2>4
<1>7. T \in SUBSET T /\ T \cap S = S OBVIOUS
<1>8. f[T] >= g[S] BY <1>6, <1>7
<1> QED BY <1>2, <1>3, <1>8

-----------------------------------------------------------------------------
(* The gauges of the bill *)

\* No window of a question is empty, on any of the dates.
WindowsOpen(today) ==
    /\ Before(MonthWindow(today)[1], MonthWindow(today)[2])
    /\ Before(ForecastWindow(today)[1], ForecastWindow(today)[2])

LEMMA WindowsAreOpen == ASSUME NEW today \in Dates PROVE WindowsOpen(today)
<1>1. PICK m \in {1, 2}, d \in {1, 28, 30, 31} : today = <<m, d>> /\ d <= MonthDays[m] BY DEF Dates
<1>2. MonthDays[1] = 31 /\ MonthDays[2] = 28 /\ MonthDays[3] = 30 BY DEF MonthDays
<1>3. FirstOf(today) = <<m, 1>> BY <1>1 DEF FirstOf
<1>4. PlusDays(<<m, 1>>, 1) = <<m, 2>> BY <1>2 DEF PlusDays
<1>5. PlusDays(<<m, 28>>, 4) = <<m + 1, 32 - MonthDays[m]>> BY <1>2 DEF PlusDays
<1>6. FirstOfNextMonth(today) = <<m + 1, 1>> BY <1>1, <1>5 DEF FirstOfNextMonth, FirstOf
<1>7. Before(<<m, d>>, <<m + 1, 1>>) BY DEF Before
<1>8. Before(<<m, 1>>, <<m, 2>>) BY DEF Before
<1> HIDE DEF Before
<1> QED BY <1>1, <1>3, <1>4, <1>6, <1>7, <1>8 DEF WindowsOpen, MonthWindow, ForecastWindow

Shown == {s \in Services : cGauge.service[s] # NoAmount}

CTypeOK ==
    /\ cBill \in Bills
    /\ cAt \in {"idle", "services", "month", "types", "forecast"}
    /\ cPoll \in [today : Dates, mtd : Int]
    /\ cGauge \in [service : [Services -> Amounts \cup {NoAmount}], yesterday : Int,
                   mtd : Int, gross : Int, credits : Int, forecast : Int]
    /\ cSteady \in BOOLEAN /\ cGood \in BOOLEAN

\* The services shown cover yesterday's total, at every moment.
ServicesCover == Total(cGauge.service, Shown) >= cGauge.yesterday

\* What the poll has read so far and what it shows of it.
ReadSoFar ==
    /\ cAt # "idle" => ~ cGood
    /\ cAt \in {"types", "forecast"} => cGauge.mtd = cPoll.mtd
    /\ cAt \in {"types", "forecast"} /\ cSteady => cPoll.mtd = cBill.usage - cBill.credit
    /\ cAt = "forecast" /\ cSteady => cGauge.gross = cBill.usage /\ cGauge.credits = - cBill.credit

\* A poll that is over, with its forecast.
PollAddsUp ==
    cAt = "idle" /\ cGood =>
        /\ cGauge.forecast >= cGauge.mtd
        /\ cSteady => cGauge.mtd = cGauge.gross + cGauge.credits

CostInv == CTypeOK /\ ServicesCover /\ ReadSoFar /\ PollAddsUp

LEMMA BillIs ==
    ASSUME NEW b \in Bills
    PROVE  /\ b.usage \in Nat /\ b.credit \in Nat
           /\ b.day \in [Services -> (Amounts \ {0}) \cup {NoAmount}]
  BY AmountsAssumption DEF Bills

LEMMA NothingAddsUpToZero == ASSUME NEW d PROVE Total(d, {}) = 0
<1>1. IsFiniteSet({}) BY FS_EmptySet
<1>2. PICK f : Sums(f, d, {}) /\ Total(d, {}) = f[{}] BY <1>1, TotalIs
<1> QED BY <1>2 DEF Sums, Recurs

\* Showing yesterday's services: those of earlier days stay, so the sum is no less.
LEMMA ShowingCovers ==
    ASSUME CTypeOK, ByService
    PROVE  CTypeOK' /\ ServicesCover'
<1> DEFINE day == cBill.day
           old == cGauge.service
           new == [s \in Services |-> IF s \in Billed(day) THEN day[s] ELSE old[s]]
           seen == {s \in Services : new[s] # NoAmount}
           total == Total(day, Billed(day))
<1>1. day \in [Services -> (Amounts \ {0}) \cup {NoAmount}] /\ old \in [Services -> Amounts \cup {NoAmount}]
  BY BillIs DEF CTypeOK
<1>2. cGauge' = [cGauge EXCEPT !.service = new, !.yesterday = total]
      /\ cAt' = "month" /\ UNCHANGED <<cBill, cPoll, cSteady, cGood>>
  BY DEF ByService
<1> HIDE DEF day, old
<1>3. new \in [Services -> Amounts \cup {NoAmount}] BY <1>1 DEF Billed
<1>4. IsFiniteSet(seen) /\ IsFiniteSet(Billed(day)) /\ Billed(day) \in SUBSET seen
  <2>1. Billed(day) \in SUBSET seen BY DEF Billed
  <2>2. seen \in SUBSET Services /\ Billed(day) \in SUBSET Services BY DEF Billed
  <2> QED BY <2>1, <2>2, ServicesAssumption, FS_Subset
<1>5. (\A x \in seen : new[x] \in Nat) /\ \A x \in Billed(day) : new[x] = day[x] /\ day[x] \in Int
  <2>1. \A s \in Services : new[s] # NoAmount => new[s] \in Nat BY <1>3, AmountsAssumption
  <2> QED BY <2>1, <1>4 DEF Billed
<1> HIDE DEF new, seen
<1>6. Total(new, seen) >= total BY <1>4, <1>5, TotalOfMore
<1>7. total \in Int
  <2>1. PICK f : Sums(f, day, Billed(day)) /\ Total(day, Billed(day)) = f[Billed(day)]
    BY <1>4, <1>5, TotalIs
  <2> QED BY <2>1 DEF Sums
<1> HIDE DEF total
<1>8. cGauge'.service = new /\ cGauge'.yesterday = total BY <1>2 DEF CTypeOK
<1>9. CTypeOK' BY <1>2, <1>3, <1>7 DEF CTypeOK
<1>10. Shown' = seen BY <1>8 DEF Shown, seen
<1> QED BY <1>6, <1>8, <1>9, <1>10 DEF ServicesCover

LEMMA CostInitially == ASSUME CInit PROVE CostInv
<1>1. /\ cBill \in Bills /\ cAt = "idle" /\ cPoll = [today |-> <<1, 1>>, mtd |-> 0]
      /\ cSteady = FALSE /\ cGood = FALSE /\ cGauge = NoGauges
  BY DEF CInit
<1>2. <<1, 1>> \in Dates
  <2> DEFINE date == <<1, 1>>
  <2>1. date[1] = 1 /\ date[2] = 1 /\ MonthDays[1] = 31 BY DEF MonthDays
  <2>2. date \in (1 .. 2) \X {1, 28, 30, 31} OBVIOUS
  <2>3. date[2] <= MonthDays[date[1]] BY <2>1
  <2> HIDE DEF date
  <2>4. date \in Dates BY <2>2, <2>3 DEF Dates
  <2> QED BY <2>4 DEF date
<1>3. CTypeOK
  <2> DEFINE none == [s \in Services |-> NoAmount]
             first == <<1, 1>>
  <2>1. none \in [Services -> Amounts \cup {NoAmount}] OBVIOUS
  <2>2. cGauge = [service |-> none, yesterday |-> 0, mtd |-> 0,
                  gross |-> 0, credits |-> 0, forecast |-> 0]
    BY <1>1 DEF NoGauges
  <2>3. cPoll = [today |-> first, mtd |-> 0] /\ first \in Dates BY <1>1, <1>2
  <2> HIDE DEF none, first
  <2>4. cPoll \in [today : Dates, mtd : Int] BY <2>3
  <2>5. cGauge \in [service : [Services -> Amounts \cup {NoAmount}], yesterday : Int,
                    mtd : Int, gross : Int, credits : Int, forecast : Int]
    <3> DEFINE S == [Services -> Amounts \cup {NoAmount}]
    <3>1. none \in S BY <2>1
    <3> HIDE DEF S
    <3>2. cGauge \in [service : S, yesterday : Int, mtd : Int, gross : Int, credits : Int, forecast : Int]
      BY <2>2, <3>1
    <3> QED BY <3>2 DEF S
  <2> QED BY <1>1, <2>4, <2>5 DEF CTypeOK
<1>4. Shown = {} /\ cGauge.yesterday = 0 BY <1>1 DEF Shown, NoGauges
<1>5. ServicesCover BY <1>4, NothingAddsUpToZero DEF ServicesCover
<1> QED BY <1>1, <1>3, <1>5 DEF CostInv, ReadSoFar, PollAddsUp

LEMMA CostSteps == ASSUME CostInv, [CostNext]_cVars PROVE CostInv'
<1> USE DEF CostInv
<1>1. ASSUME cGauge'.service = cGauge.service, cGauge'.yesterday = cGauge.yesterday
      PROVE  ServicesCover'
  BY <1>1 DEF ServicesCover, Shown
<1>2. CASE StartCostPoll
  <2>1. /\ cAt' = "services" /\ cSteady' = TRUE /\ cGood' = FALSE
        /\ UNCHANGED <<cBill, cGauge>> /\ cPoll' \in [today : Dates, mtd : Int]
    BY <1>2 DEF StartCostPoll
  <2>2. CTypeOK' BY <2>1 DEF CTypeOK
  <2>3. ServicesCover' BY <1>1, <2>1
  <2> QED BY <2>1, <2>2, <2>3 DEF ReadSoFar, PollAddsUp
<1>3. CASE ByService
  <2>1. CTypeOK' /\ ServicesCover' BY <1>3, ShowingCovers
  <2>2. cAt = "services" /\ cAt' = "month" /\ cGood' = cGood BY <1>3 DEF ByService
  <2> QED BY <2>1, <2>2 DEF ReadSoFar, PollAddsUp
<1>4. CASE MonthToDate
  <2> DEFINE spent == cBill.usage - cBill.credit
  <2>1. /\ cAt = "month" /\ cAt' = "types" /\ UNCHANGED <<cBill, cSteady, cGood>>
        /\ cPoll' = [cPoll EXCEPT !.mtd = spent] /\ cGauge' = [cGauge EXCEPT !.mtd = cPoll'.mtd]
    BY <1>4 DEF MonthToDate
  <2>2. spent \in Int BY BillIs DEF CTypeOK
  <2>3. cPoll' \in [today : Dates, mtd : Int] /\ cPoll'.mtd = spent BY <2>1, <2>2 DEF CTypeOK
  <2>4. /\ CTypeOK' /\ cGauge'.mtd = cPoll'.mtd
        /\ cGauge'.service = cGauge.service /\ cGauge'.yesterday = cGauge.yesterday
    BY <2>1, <2>2, <2>3 DEF CTypeOK
  <2>5. ServicesCover' BY <1>1, <2>4
  <2> QED BY <2>1, <2>3, <2>4, <2>5 DEF ReadSoFar, PollAddsUp
<1>5. CASE ByRecordType
  <2>1. /\ cAt = "types" /\ cAt' = "forecast" /\ UNCHANGED <<cBill, cPoll, cSteady, cGood>>
        /\ cGauge' = [cGauge EXCEPT !.gross = cBill.usage, !.credits = - cBill.credit]
    BY <1>5 DEF ByRecordType
  <2>2. cBill.usage \in Int /\ - cBill.credit \in Int BY BillIs DEF CTypeOK
  <2>3. /\ CTypeOK' /\ cGauge'.gross = cBill.usage /\ cGauge'.credits = - cBill.credit
        /\ cGauge'.mtd = cGauge.mtd
        /\ cGauge'.service = cGauge.service /\ cGauge'.yesterday = cGauge.yesterday
    BY <2>1, <2>2 DEF CTypeOK
  <2>4. ServicesCover' BY <1>1, <2>3
  <2> QED BY <2>1, <2>3, <2>4 DEF ReadSoFar, PollAddsUp
<1>6. CASE Forecast
  <2>1. PICK remaining \in Amounts \cup {NoAmount} :
          /\ cGauge' = IF remaining = NoAmount THEN cGauge
                       ELSE [cGauge EXCEPT !.forecast = cPoll.mtd + remaining]
          /\ cGood' = (remaining # NoAmount)
    BY <1>6 DEF Forecast
  <2>2. cAt = "forecast" /\ cAt' = "idle" /\ UNCHANGED <<cBill, cPoll, cSteady>>
    BY <1>6 DEF Forecast
  <2>3. CASE remaining = NoAmount
    <3>1. cGauge' = cGauge /\ cGood' = FALSE BY <2>1, <2>3
    <3>2. CTypeOK' BY <2>2, <3>1 DEF CTypeOK
    <3>3. ServicesCover' BY <1>1, <3>1
    <3> QED BY <2>2, <3>1, <3>2, <3>3 DEF ReadSoFar, PollAddsUp
  <2>4. CASE remaining # NoAmount
    <3>1. cGauge' = [cGauge EXCEPT !.forecast = cPoll.mtd + remaining] /\ cGood' = TRUE
      BY <2>1, <2>4
    <3>2. remaining \in Nat /\ cPoll.mtd \in Int BY <2>4, AmountsAssumption DEF CTypeOK
    <3>3. /\ CTypeOK' /\ cGauge'.forecast = cPoll.mtd + remaining
          /\ cGauge'.service = cGauge.service /\ cGauge'.yesterday = cGauge.yesterday
          /\ cGauge'.mtd = cGauge.mtd /\ cGauge'.gross = cGauge.gross
          /\ cGauge'.credits = cGauge.credits
      BY <2>2, <3>1, <3>2 DEF CTypeOK
    <3>4. ServicesCover' BY <1>1, <3>3
    <3>5. cBill.usage \in Int /\ cBill.credit \in Int BY BillIs DEF CTypeOK
    <3>6. PollAddsUp' BY <2>2, <3>2, <3>3, <3>5 DEF ReadSoFar, PollAddsUp
    <3> QED BY <2>2, <3>3, <3>4, <3>6 DEF ReadSoFar
  <2> QED BY <2>3, <2>4
<1>7. CASE CostPollFails
  <2>1. cAt # "idle" /\ cAt' = "idle" /\ UNCHANGED <<cBill, cPoll, cGauge, cSteady, cGood>>
    BY <1>7 DEF CostPollFails
  <2>2. CTypeOK' BY <2>1 DEF CTypeOK
  <2>3. ServicesCover' BY <1>1, <2>1
  <2> QED BY <2>1, <2>2, <2>3 DEF ReadSoFar, PollAddsUp
<1>8. CASE BillChanges
  <2>1. cBill' \in Bills /\ cSteady' = FALSE /\ UNCHANGED <<cAt, cPoll, cGauge, cGood>>
    BY <1>8 DEF BillChanges
  <2>2. CTypeOK' BY <2>1 DEF CTypeOK
  <2>3. ServicesCover' BY <1>1, <2>1
  <2> QED BY <2>1, <2>2, <2>3 DEF ReadSoFar, PollAddsUp
<1>9. CASE UNCHANGED cVars
  <2>1. UNCHANGED <<cBill, cAt, cPoll, cGauge, cSteady, cGood>> BY <1>9 DEF cVars
  <2>2. ServicesCover' BY <1>1, <2>1
  <2> QED BY <2>1, <2>2 DEF CTypeOK, ReadSoFar, PollAddsUp
<1> QED BY <1>2, <1>3, <1>4, <1>5, <1>6, <1>7, <1>8, <1>9 DEF CostNext

\* No window of a question to Cost Explorer is ever empty, and after a poll whose
\* forecast came through the forecast is no less than the month, the services shown
\* cover yesterday, and usage and credits make the month when the bill stood still;
\* for any finite set of services and any amounts.
THEOREM GaugesFitTogether == CostSpec => []GaugesAddUp
<1>1. CostInv => GaugesAddUp
  <2> SUFFICES ASSUME CostInv PROVE GaugesAddUp OBVIOUS
  <2>1. cPoll.today \in Dates BY DEF CostInv, CTypeOK
  <2>2. WindowsOpen(cPoll.today) BY <2>1, WindowsAreOpen
  <2> QED BY <2>2 DEF CostInv, ServicesCover, Shown, PollAddsUp, WindowsOpen, GaugesAddUp
<1> QED BY <1>1, CostInitially, CostSteps, PTL DEF CostSpec

=============================================================================
