---------------------------- MODULE CostExporter ----------------------------
(* aws/cost-exporter: four questions to Cost Explorer per poll, the gauges  *)
(* set as each answer arrives. The bill behind the answers changes whenever *)
(* AWS likes, the date too, and an answer that raises ends the poll: only a *)
(* forecast may fail without ending it. Amounts are whole dollars.          *)
EXTENDS Integers, FiniteSetsExt

CONSTANTS Services, Amounts

ASSUME ServicesAssumption == IsFiniteSet(Services)
ASSUME AmountsAssumption == Amounts \subseteq Nat

VARIABLES
    cBill,     \* what Cost Explorer would answer now
    cAt,       \* the question the poll is at, "idle" between polls
    cPoll,     \* locals of the poll: today, the month's total
    cGauge,    \* what Prometheus reads
    cSteady,   \* the bill has not changed since the poll started
    cGood      \* the last poll succeeded, its forecast too

cVars == <<cBill, cAt, cPoll, cGauge, cSteady, cGood>>

NoAmount == -1
MonthDays == <<31, 28, 30>>

\* The days the calendar is looked at on.
Dates == {date \in (1 .. 2) \X {1, 28, 30, 31} : date[2] <= MonthDays[date[1]]}

Before(a, b) == a[1] < b[1] \/ (a[1] = b[1] /\ a[2] < b[2])

PlusDays(date, n) ==
    IF date[2] + n <= MonthDays[date[1]]
      THEN <<date[1], date[2] + n>>
      ELSE <<date[1] + 1, date[2] + n - MonthDays[date[1]]>>

FirstOf(date) == <<date[1], 1>>

FirstOfNextMonth(date) == FirstOf(PlusDays(<<date[1], 28>>, 4))

\* The windows of the month-to-date questions and of the forecast.
MonthWindow(today) ==
    <<FirstOf(today),
      IF Before(FirstOf(today), today) THEN today ELSE PlusDays(FirstOf(today), 1)>>

ForecastWindow(today) == <<today, FirstOfNextMonth(today)>>

\* Yesterday by service (a service without cost is not there, nobody there at
\* all is an empty answer), and the month as usage and credit.
Bills == [day : [Services -> (Amounts \ {0}) \cup {NoAmount}], usage : Amounts, credit : Amounts]

NoGauges == [service |-> [s \in Services |-> NoAmount], yesterday |-> 0, mtd |-> 0,
             gross |-> 0, credits |-> 0, forecast |-> 0]

CInit ==
    /\ cBill \in Bills
    /\ cAt = "idle"
    /\ cPoll = [today |-> <<1, 1>>, mtd |-> 0]
    /\ cGauge = NoGauges
    /\ cSteady = FALSE
    /\ cGood = FALSE

Billed(day) == {s \in Services : day[s] # NoAmount}
Total(day, services) == MapThenSumSet(LAMBDA s : day[s], services)

StartCostPoll ==
    /\ cAt = "idle"
    /\ cAt' = "services"
    /\ \E today \in Dates : cPoll' = [today |-> today, mtd |-> 0]
    /\ cSteady' = TRUE
    /\ cGood' = FALSE
    /\ UNCHANGED <<cBill, cGauge>>

\* A service that had no cost yesterday keeps the gauge of an earlier day.
ByService ==
    /\ cAt = "services"
    /\ cAt' = "month"
    /\ cGauge' = [cGauge EXCEPT
          !.service = [s \in Services |-> IF s \in Billed(cBill.day) THEN cBill.day[s] ELSE @[s]],
          !.yesterday = Total(cBill.day, Billed(cBill.day))]
    /\ UNCHANGED <<cBill, cPoll, cSteady, cGood>>

MonthToDate ==
    /\ cAt = "month"
    /\ cAt' = "types"
    /\ cPoll' = [cPoll EXCEPT !.mtd = cBill.usage - cBill.credit]
    /\ cGauge' = [cGauge EXCEPT !.mtd = cPoll'.mtd]
    /\ UNCHANGED <<cBill, cSteady, cGood>>

\* A record type that is gone keeps its amount.
ByRecordType_Keeps ==
    /\ cAt = "types"
    /\ cAt' = "forecast"
    /\ cGauge' = [cGauge EXCEPT
          !.gross = IF cBill.usage = 0 THEN @ ELSE cBill.usage,
          !.credits = IF cBill.credit = 0 THEN @ ELSE - cBill.credit]
    /\ UNCHANGED <<cBill, cPoll, cSteady, cGood>>

\* Usage and credit start at 0 in every poll: a type that is gone is shown so.
ByRecordType ==
    /\ cAt = "types"
    /\ cAt' = "forecast"
    /\ cGauge' = [cGauge EXCEPT !.gross = cBill.usage, !.credits = - cBill.credit]
    /\ UNCHANGED <<cBill, cPoll, cSteady, cGood>>

\* What remains of the month, on top of the total this poll read; a forecast
\* that raises (`remaining` absent) leaves the gauge as it was.
Forecast ==
    /\ cAt = "forecast"
    /\ cAt' = "idle"
    /\ \E remaining \in Amounts \cup {NoAmount} :
          /\ cGauge' = IF remaining = NoAmount THEN cGauge
                       ELSE [cGauge EXCEPT !.forecast = cPoll.mtd + remaining]
          /\ cGood' = (remaining # NoAmount)
    /\ UNCHANGED <<cBill, cPoll, cSteady>>

\* One of the first three questions raises, or is refused for its window.
CostPollFails ==
    /\ cAt \in {"services", "month", "types"}
    /\ cAt' = "idle"
    /\ UNCHANGED <<cBill, cPoll, cGauge, cSteady, cGood>>

\* The bill is settled further, or another day's or month's takes its place.
BillChanges ==
    /\ cBill' \in Bills
    /\ cSteady' = FALSE
    /\ UNCHANGED <<cAt, cPoll, cGauge, cGood>>

CostNext ==
    \/ StartCostPoll \/ ByService \/ MonthToDate \/ ByRecordType \/ Forecast
    \/ CostPollFails \/ BillChanges

CostSpec == CInit /\ [][CostNext]_cVars

\* After a poll whose forecast came through, on any day of any month: the
\* forecast is no less than what the same poll saw spent, the services shown
\* add up to at least yesterday's total; and when the bill stood still the
\* month's total is what usage and credits add up to. No window was empty.
GaugesAddUp ==
    /\ Before(MonthWindow(cPoll.today)[1], MonthWindow(cPoll.today)[2])
    /\ Before(ForecastWindow(cPoll.today)[1], ForecastWindow(cPoll.today)[2])
    /\ cAt = "idle" /\ cGood =>
        /\ cGauge.forecast >= cGauge.mtd
        /\ Total(cGauge.service, {s \in Services : cGauge.service[s] # NoAmount}) >= cGauge.yesterday
        /\ cSteady => cGauge.mtd = cGauge.gross + cGauge.credits

=============================================================================
