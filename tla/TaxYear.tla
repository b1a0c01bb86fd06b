------------------------------- MODULE TaxYear -------------------------------
(***************************************************************************)
(* Reporting periods (reports/period.ts) and the statutory tax calendar    *)
(* (tax/calendar.ts), as the days of a workspace go by.                    *)
(*                                                                         *)
(* A day is the number YYYYMMDD: the code compares days as YYYY-MM-DD      *)
(* strings, and the two orders agree, for days that do not exist as well.  *)
(***************************************************************************)
EXTENDS Integers, FiniteSets

CONSTANTS
  FiscalStarts,   \* MMDD, any start the settings accept
  Cadences,       \* VAT cadences
  FirstDay, LastDay,
  HorizonDays,    \* how far buildTaxTimeline looks: 120 days, and 700 in the settings
  TimelineLimit

ASSUME TaxYearConstants ==
  /\ \A start \in FiscalStarts : start \div 100 \in 1..12 /\ start % 100 \in 1..31
  /\ FiscalStarts \subseteq Nat
  /\ Cadences \subseteq {"monthly", "quarterly", "yearly"}
  /\ FirstDay \in Nat /\ LastDay \in Nat /\ TimelineLimit \in Nat
  /\ HorizonDays \in 0..700

VARIABLES profile, today
taxVars == <<profile, today>>

(***************************************************************************)
(* The calendar                                                            *)
(***************************************************************************)
DayNumber(y, m, d) == 10000 * y + 100 * m + d
YearOf(day) == day \div 10000
MonthOf(day) == (day \div 100) % 100
DayOf(day) == day % 100

LeapYear(y) == (y % 4 = 0 /\ y % 100 # 0) \/ y % 400 = 0

DaysInMonth(y, m) ==
  CASE m = 2 -> IF LeapYear(y) THEN 29 ELSE 28
    [] m \in {4, 6, 9, 11} -> 30
    [] OTHER -> 31

RealDay(day) ==
  MonthOf(day) \in 1..12 /\ DayOf(day) \in 1..DaysInMonth(YearOf(day), MonthOf(day))

\* It is a day of the calendar on which the code begins to run.
ASSUME FirstDayIsReal == RealDay(FirstDay)

\* clampedDate
Clamped(y, m, d) ==
  DayNumber(y, m, IF d < DaysInMonth(y, m) THEN d ELSE DaysInMonth(y, m))

MonthIndex(day) == 12 * YearOf(day) + MonthOf(day) - 1
\* A day of the month with that index.
InMonth(index, d) == DayNumber(index \div 12, (index % 12) + 1, d)
MonthLength(index) == DaysInMonth(index \div 12, (index % 12) + 1)
ClampedInMonth(index, d) == Clamped(index \div 12, (index % 12) + 1, d)
MonthEnd(index) == ClampedInMonth(index, 31)

PreviousDay(day) ==
  IF DayOf(day) > 1 THEN day - 1 ELSE MonthEnd(MonthIndex(day) - 1)

\* addDays: the surplus is carried from month to month.
AddDays(day, n) ==
  LET carried[d \in 1 .. DayOf(day) + n] ==
        [index \in Int |-> IF d <= MonthLength(index) THEN InMonth(index, d)
                          ELSE carried[d - MonthLength(index)][index + 1]]
  IN carried[DayOf(day) + n][MonthIndex(day)]

\* Date.UTC(...).getUTCDay(): 0 is Sunday.
Weekday(day) ==
  LET m == MonthOf(day)
      y == IF m < 3 THEN YearOf(day) - 1 ELSE YearOf(day)
      shift == <<0, 3, 2, 5, 0, 3, 5, 1, 4, 6, 2, 4>>
  IN (y + (y \div 4) - (y \div 100) + (y \div 400) + shift[m] + DayOf(day)) % 7

(***************************************************************************)
(* Period tokens                                                           *)
(***************************************************************************)
\* The first day of the n-th month after the start of a fiscal year.
Anchor(fy, start, n) == ClampedInMonth(12 * fy + (start \div 100) - 1 + n, start % 100)

QuarterWindow(fy, quarter, start) ==
  [from |-> Anchor(fy, start, 3 * (quarter - 1)),
   to |-> PreviousDay(Anchor(fy, start, 3 * quarter))]

FiscalYearWindow(fy, start) ==
  [from |-> Anchor(fy, start, 0), to |-> PreviousDay(Anchor(fy + 1, start, 0))]

MonthWindow(index) == [from |-> InMonth(index, 1), to |-> MonthEnd(index)]

FiscalYearContaining(day, start) ==
  IF day >= Anchor(YearOf(day), start, 0) THEN YearOf(day) ELSE YearOf(day) - 1

\* resolvePeriodToken: n is the month index, the quarter index 4 * fy + q - 1
\* or the fiscal year.
Resolve(token, start) ==
  CASE token.kind = "month" -> MonthWindow(token.n)
    [] token.kind = "quarter" -> QuarterWindow(token.n \div 4, (token.n % 4) + 1, start)
    [] token.kind = "fiscal-year" -> FiscalYearWindow(token.n, start)

Previous(token, start) == Resolve([kind |-> token.kind, n |-> token.n - 1], start)

YearToDate(day, start) ==
  [from |-> Anchor(FiscalYearContaining(day, start), start, 0), to |-> day]

YearToDateBefore(day, start) ==
  [from |-> Anchor(FiscalYearContaining(day, start) - 1, start, 0),
   to |-> Clamped(YearOf(day) - 1, MonthOf(day), DayOf(day))]

(***************************************************************************)
(* The tax calendar                                                        *)
(***************************************************************************)
ShiftWeekendToMonday(day) ==
  CASE Weekday(day) = 6 -> AddDays(day, 2)
    [] Weekday(day) = 0 -> AddDays(day, 1)
    [] OTHER -> day

TwelfthRule(index) == ShiftWeekendToMonday(InMonth(index, IF index % 12 \in {0, 7} THEN 17 ELSE 12))
TwentySixthRule(index) == ShiftWeekendToMonday(InMonth(index, IF index % 12 = 11 THEN 27 ELSE 26))

NoToken == [kind |-> "none", n |-> 0]
Token(kind, n) == [kind |-> kind, n |-> n]

CalendarQuarter(n) == [from |-> InMonth(3 * n, 1), to |-> MonthEnd(3 * n + 2)]

\* calendarQuarterPeriodToken: the fiscal quarter that is that calendar
\* quarter, in the year or the one before.
CalendarQuarterToken(n, start) ==
  LET year == n \div 4
      matching == {q \in 4 * (year - 1) .. 4 * year + 3 :
                     Resolve(Token("quarter", q), start) = CalendarQuarter(n)}
  IN IF matching = {} THEN NoToken
     ELSE Token("quarter", CHOOSE q \in matching : \A other \in matching : other <= q)

Deadline(kind, n, due, token) == [kind |-> kind, n |-> n, due |-> due, token |-> token]

MonthlyRows(p, index) ==
  {Deadline("employer-declaration", index - 1, TwelfthRule(index), NoToken),
   Deadline("f-skatt", index, TwelfthRule(index), NoToken)}
  \cup (IF p.cadence = "monthly"
        THEN {Deadline("vat-return", index, TwelfthRule(index + 2), Token("month", index))}
        ELSE {})

QuarterlyRow(p, n) ==
  Deadline("vat-return", n, TwelfthRule(3 * n + 4), CalendarQuarterToken(n, p.start))

YearlyRows(p, fy) ==
  LET end == FiscalYearWindow(fy, p.start).to
      due == MonthIndex(end) + 7
  IN {Deadline("annual-report", fy,
        IF end = MonthEnd(MonthIndex(end)) THEN MonthEnd(due) ELSE ClampedInMonth(due, DayOf(end)),
        NoToken)}
     \cup (IF p.cadence = "yearly"
           THEN {Deadline("vat-return", fy, TwentySixthRule(MonthIndex(end) + 2),
                          Token("fiscal-year", fy))}
           ELSE {})

\* The months whose deadlines are looked at: from the current one only.
CandidatesFromNow(day) == MonthIndex(day) .. MonthIndex(day) + ((HorizonDays + 27) \div 28) + 2
CandidateMonths(day) == MonthIndex(day) - 4 .. MonthIndex(day) + ((HorizonDays + 27) \div 28) + 2

\* The deadlines between day and its horizon.
Upcoming(p, day) ==
  LET end == AddDays(day, HorizonDays)
      rows == (UNION {MonthlyRows(p, index) : index \in CandidateMonths(day)})
              \cup (IF p.cadence = "quarterly"
                    THEN {QuarterlyRow(p, n) : n \in 4 * (YearOf(day) - 1) .. 4 * YearOf(end) + 3}
                    ELSE {})
              \cup (UNION {YearlyRows(p, fy) : fy \in YearOf(day) - 2 .. YearOf(day) + 1})
  IN {row \in rows : row.due >= day /\ row.due <= end}

\* buildTaxTimeline: by due date, then by id; the first few.
Timeline(p, day) ==
  LET kinds == [k \in {"annual-report", "employer-declaration", "f-skatt", "vat-return"} |->
                  CASE k = "annual-report" -> 1 [] k = "employer-declaration" -> 2
                    [] k = "f-skatt" -> 3 [] OTHER -> 4]
      Before(a, b) == \/ a.due < b.due
                      \/ a.due = b.due /\ kinds[a.kind] < kinds[b.kind]
                      \/ a.due = b.due /\ a.kind = b.kind /\ a.n < b.n
      rows == Upcoming(p, day)
      count == Cardinality(rows)
      place == [row \in rows |-> 1 + Cardinality({other \in rows : Before(other, row)})]
  IN [i \in 1..(IF count < TimelineLimit THEN count ELSE TimelineLimit) |->
        CHOOSE row \in rows : place[row] = i]

\* fiscalYearContaining of tax/calendar.ts: the start is not clamped.
VatYear(day, start) ==
  IF day >= 10000 * YearOf(day) + start THEN YearOf(day) ELSE YearOf(day) - 1

\* currentVatPeriodToken
CurrentVatPeriod(p, day) ==
  LET month == Token("month", MonthIndex(day))
      quarter == CalendarQuarterToken(MonthIndex(day) \div 3, p.start)
  IN CASE p.cadence = "monthly" -> month
       [] p.cadence = "yearly" -> Token("fiscal-year", VatYear(day, p.start))
       [] p.cadence = "quarterly" -> IF quarter = NoToken THEN month ELSE quarter

(***************************************************************************)
(* Days go by                                                              *)
(***************************************************************************)
TaxInit ==
  /\ profile \in [start : FiscalStarts, cadence : Cadences]
  /\ today = FirstDay

Tomorrow ==
  /\ today < LastDay
  /\ today' = AddDays(today, 1)
  /\ UNCHANGED profile

\* putCompanySettings replaces the settings whole, the fiscal year's start and
\* the VAT cadence among them.
PutCompanySettings(settings) ==
  /\ profile' = settings
  /\ UNCHANGED today

TaxNext ==
  \/ Tomorrow
  \/ \E settings \in [start : FiscalStarts, cadence : Cadences] : PutCompanySettings(settings)

TaxSpec == TaxInit /\ [][TaxNext]_taxVars

(***************************************************************************)
(* Properties, of every real day: today is always one, but for a           *)
(* behaviour of MCWorkspace that is about another part.                    *)
(***************************************************************************)
TokensAround(day) ==
  {Token("month", MonthIndex(day) + k) : k \in -1..1}
  \cup {Token("quarter", 4 * YearOf(day) + k) : k \in -4..3}
  \cup {Token("fiscal-year", YearOf(day) + k) : k \in -1..1}

\* The windows of one kind cover the calendar without a gap or an overlap: what
\* is booked on a day counts in one month, one quarter and one fiscal year,
\* whatever day the fiscal year starts on (quarterWindow clamps to short months).
PeriodsTile ==
  \A token \in TokensAround(today) :
    LET window == Resolve(token, profile.start)
        before == Previous(token, profile.start)
    IN /\ RealDay(window.from) /\ RealDay(window.to) /\ window.from <= window.to
       /\ AddDays(before.to, 1) = window.from

\* "Year to date" is compared with real days of the fiscal year before, ended on
\* the same date, for every start but the last days of February: the settings accept
\* 29 to 31, and the comparison can end before it starts (period.ts:219).
YearToDateComparesBackwards ==
  profile.start \notin {229, 230, 231} =>
    LET now == YearToDate(today, profile.start)
        before == YearToDateBefore(today, profile.start)
    IN /\ RealDay(before.from) /\ RealDay(before.to)
       /\ now.from <= now.to /\ before.from <= before.to /\ before.to < now.from

\* No deadline is announced late or taken down early: what tomorrow's timeline
\* holds within today's horizon is in today's, and what is not due by then stays
\* (the months looked at are guessed "generously", calendar.ts:231).
TimelineMovesOn ==
  RealDay(today) /\ profile' = profile =>
    {row \in Upcoming(profile, today) : row.due >= today'}
      = {row \in Upcoming(profile, today') : row.due <= AddDays(today, HorizonDays)}

DeadlinesAreSteady == [][TimelineMovesOn]_taxVars

\* A VAT figure is only joined to a deadline of exactly its period: the token
\* resolves to the statutory window that ends two months before the due month,
\* also in a broken fiscal year (plan finding 15 of calendar.ts).
VatFigureIsOfItsPeriod ==
  \A row \in Upcoming(profile, today) :
    row.token # NoToken =>
      LET window == Resolve(row.token, profile.start)
      IN CASE profile.cadence = "monthly" -> window = MonthWindow(row.n)
           [] profile.cadence = "quarterly" -> window = CalendarQuarter(row.n)
           [] profile.cadence = "yearly" ->
                /\ window = FiscalYearWindow(row.n, profile.start)
                /\ MonthIndex(row.due) = MonthIndex(window.to) + 2

\* No tax is due on a weekend and nothing is listed twice or out of order, in
\* the timeline cut to its limit.
TimelineIsOrdered ==
  LET timeline == Timeline(profile, today)
  IN /\ \A i, j \in DOMAIN timeline :
          /\ i < j => timeline[i].due <= timeline[j].due
          /\ <<timeline[i].kind, timeline[i].n>> = <<timeline[j].kind, timeline[j].n>> => i = j
     /\ \A i \in DOMAIN timeline :
          timeline[i].kind # "annual-report" => Weekday(timeline[i].due) \in 1..5

\* The VAT period shown as current contains today, when the fiscal year starts
\* on a day every year has (of a start on the 29th to 31st, calendar.ts and
\* period.ts disagree).
VatPeriodIsCurrent ==
  profile.start % 100 <= 28 =>
    LET window == Resolve(CurrentVatPeriod(profile, today), profile.start)
    IN window.from <= today /\ today <= window.to

\* Periods tile the fiscal year and compare with what came before, deadlines are
\* in order and show the figures of their own periods, and from one day to the next
\* they come at the horizon and go when they are past.
DeadlinesFollowPeriods ==
  /\ [](RealDay(today) =>
          /\ PeriodsTile /\ YearToDateComparesBackwards
          /\ VatPeriodIsCurrent /\ VatFigureIsOfItsPeriod /\ TimelineIsOrdered)
  /\ DeadlinesAreSteady
=============================================================================
