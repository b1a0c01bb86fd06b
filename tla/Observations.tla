----------------------------- MODULE Observations -----------------------------
(***************************************************************************)
(* The dashboard's observations and the narrative of the reports: what is  *)
(* said about a ledger whose pack and whose snapshot a browser fetches     *)
(* separately (packages/reporting, use-dashboard-data.ts).                 *)
(*                                                                         *)
(* Suppliers, detectors and severities are numbered in the order the code  *)
(* ranks them; an observation is what its identity and its figures are.    *)
(* Missing evidence is left out: the packet a voucher names never loses    *)
(* what it holds, so that detector finds nothing in this program.          *)
(***************************************************************************)
EXTENDS ReportPack

CONSTANTS
  Histories,        \* ledgers the browser may find: sequences of lines
  Suppliers,        \* a set of positive numbers; 0 is an imported voucher's
  DueIn,            \* days until each deadline of the tax timeline
  MinHistory,       \* 4 months in the code
  SpikeFloor,       \* 500 kronor in the code
  ObservationLimit  \* 5 in the code

ASSUME ObservationConstants ==
  /\ Suppliers \subseteq Nat \ {0} /\ DueIn \subseteq Int
  /\ MinHistory \in Nat \ {0} /\ SpikeFloor \in Nat /\ ObservationLimit \in Nat

VARIABLES
  captured,   \* the voucher rows: supplier, month, gross
  dashboard   \* how much of the ledger the fetched pack and snapshot have seen

observationVars == <<lines, captured, dashboard>>

CashRunwayDetector == 1
ExpenseAnomalyDetector == 2
VatSetAsideDetector == 3
DeadlineDetector == 4
SupplierSpikeDetector == 6
Critical == 0
Warning == 1
Info == 2

Observation(detector, severity, item, amount) ==
  [detector |-> detector, severity |-> severity, item |-> item, amount |-> amount]

(***************************************************************************)
(* Cash runway                                                             *)
(***************************************************************************)
SeriesMonths == (ReportMonth - SeriesLength + 1)..ReportMonth
CashIn(rows, month) == SumOf(rows, LAMBDA l : l.debit, LAMBDA l : Cash(l) /\ MonthOfLine(l) = month)
CashOut(rows, month) == SumOf(rows, LAMBDA l : l.credit, LAMBDA l : Cash(l) /\ MonthOfLine(l) = month)

\* Every month with a posting counts.
MonthsPosted(rows) == {m \in SeriesMonths : \E i \in DOMAIN rows : MonthOfLine(rows[i]) = m}
ActiveMonths(rows) == {m \in SeriesMonths : CashIn(rows, m) # 0 \/ CashOut(rows, m) # 0}
Trailing(months) == {m \in months : Cardinality({n \in months : n > m}) < 3}

DetectCashRunway(rows) ==
  LET months == Trailing(ActiveMonths(rows))
      burn == MapThenSumSet(LAMBDA m : CashOut(rows, m) - CashIn(rows, m), months)
      cash == MonthlySeries(rows, ReportMonth)[ReportMonth].closing
      tenths == IF cash > 0 THEN RoundedFraction(10 * cash * Cardinality(months), burn) ELSE 0
      severity == IF burn <= 0 THEN Info ELSE IF tenths < 15 THEN Critical
                  ELSE IF tenths < 30 THEN Warning ELSE Info
  IN {Observation(CashRunwayDetector, severity, IF burn > 0 THEN tenths ELSE -1, cash) :
        enough \in {n \in {Cardinality(months)} : n >= 2}}

(***************************************************************************)
(* Expenses, VAT, deadlines, suppliers                                     *)
(***************************************************************************)
CostAccounts(rows) == {rows[i].account : i \in {j \in DOMAIN rows : rows[j].account \in 4000..7999}}
MonthsOf(rows, account) ==
  {MonthOfLine(rows[i]) : i \in {j \in DOMAIN rows : rows[j].account = account}}

MonthTotal(rows, account, month) ==
  SumOf(rows, DebitMinusCredit, LAMBDA l : l.account = account /\ MonthOfLine(l) = month)

\* Two standard deviations above the account's own months, times their number.
Anomalous(rows, account) ==
  LET months == {m \in MonthsOf(rows, account) : m < ReportMonth}
      count == Cardinality(months)
      sum == MapThenSumSet(LAMBDA m : MonthTotal(rows, account, m), months)
      squares == MapThenSumSet(LAMBDA m : MonthTotal(rows, account, m) * MonthTotal(rows, account, m), months)
      spread == (count * squares) - (sum * sum)
      excess == (count * MonthTotal(rows, account, ReportMonth)) - sum
  IN /\ ReportMonth \in MonthsOf(rows, account) /\ count >= MinHistory
     /\ spread > 0 /\ excess >= 0 /\ excess * excess >= 4 * spread

DetectExpenseAnomaly(rows) ==
  {Observation(ExpenseAnomalyDetector, Warning, a, MonthTotal(rows, a, ReportMonth)) :
     a \in {b \in CostAccounts(rows) : Anomalous(rows, b)}}

DetectVatSetAside(rows) ==
  {Observation(VatSetAsideDetector, Info, 0, net) :
     net \in {n \in {Boxes(Filtered(rows, Window)).net} : n > 0}}

DetectDeadlineProximity ==
  {Observation(DeadlineDetector, Warning, days, days) : days \in DueIn \cap (0..14)}

Spent(rows, supplier, months) ==
  SumOf(rows, LAMBDA v : v.gross, LAMBDA v : v.supplier = supplier /\ v.month \in months)

DetectSupplierSpike(rows) ==
  {Observation(SupplierSpikeDetector, Warning, s, Spent(rows, s, {ReportMonth})) :
     s \in {t \in Suppliers :
              LET trailing == Spent(rows, t, (ReportMonth - 3)..(ReportMonth - 1))
                  amount == Spent(rows, t, {ReportMonth})
              IN /\ \E i \in DOMAIN rows : rows[i].supplier = t /\ rows[i].month = ReportMonth
                 /\ amount >= SpikeFloor /\ trailing > 0 /\ 3 * amount >= 2 * trailing}}

(***************************************************************************)
(* The list the dashboard shows                                            *)
(***************************************************************************)
\* buildObservations: the gravest first, then by the order of the detectors.
RankedBefore(o, p) ==
  \/ o.severity < p.severity
  \/ o.severity = p.severity /\ o.detector < p.detector
  \/ o.severity = p.severity /\ o.detector = p.detector /\ o.item < p.item

Detected(packLines, journal, rows) ==
  UNION {DetectCashRunway(packLines), DetectExpenseAnomaly(journal), DetectVatSetAside(packLines),
         DetectDeadlineProximity, DetectSupplierSpike(rows)}

BuildObservations(found) ==
  {o \in found : Cardinality({p \in found : RankedBefore(p, o)}) < ObservationLimit}

(***************************************************************************)
(* The narrative of a pack                                                 *)
(***************************************************************************)
MoverClasses == {"materials", "external-cost", "personnel", "financial"}

StatementAmount(rows, window, account) ==
  SumOf(Filtered(rows, window), CreditMinusDebit, LAMBDA l : l.account = account)

MoverAccounts(rows, window) ==
  {a \in {rows[i].account : i \in DOMAIN rows} :
     ClassOf(a) \in MoverClasses /\ StatementAmount(rows, window, a) # 0}

PreviousMonth == MonthRange(ReportMonth - 1, ReportMonth - 1)
Movement(rows, account) ==
  StatementAmount(rows, Window, account) - StatementAmount(rows, PreviousMonth, account)

Movers(rows) == MoverAccounts(rows, Window) \cup MoverAccounts(rows, PreviousMonth)

\* buildBiggestMover: none, or one account.
BiggestMover(rows) ==
  LET moved == {a \in Movers(rows) : Movement(rows, a) # 0}
      Bigger(a, b) == \/ Abs(Movement(rows, a)) > Abs(Movement(rows, b))
                      \/ Abs(Movement(rows, a)) = Abs(Movement(rows, b)) /\ a < b
  IN {a \in moved : \A b \in moved : ~Bigger(b, a)}

(***************************************************************************)
(* Behaviour                                                               *)
(***************************************************************************)
ObservationInit ==
  /\ lines \in Histories
  /\ captured = <<>>
  /\ dashboard = [pack |-> Len(lines), journal |-> Len(lines), captured |-> 0]

\* A voucher is approved (a supplier) or imported (0).
PostFrom(template, day, supplier) ==
  /\ PostVoucher(template, day)
  /\ captured' = IF supplier = 0 THEN captured
                 ELSE Append(captured, [supplier |-> supplier, month |-> day \div 100,
                                        gross |-> SumOf(template, LAMBDA l : l.debit, LAMBDA l : TRUE)])
  /\ UNCHANGED dashboard

FetchPack == dashboard' = [dashboard EXCEPT !.pack = Len(lines)] /\ UNCHANGED <<lines, captured>>
FetchSnapshot ==
  /\ dashboard' = [dashboard EXCEPT !.journal = Len(lines), !.captured = Len(captured)]
  /\ UNCHANGED <<lines, captured>>

ObservationNext ==
  \/ \E template \in Templates, day \in PostingDays, supplier \in Suppliers \cup {0} :
       PostFrom(template, day, supplier)
  \/ FetchPack
  \/ FetchSnapshot

ObservationSpec == ObservationInit /\ [][ObservationNext]_observationVars

SeenByPack == SubSeq(lines, 1, dashboard.pack)
SeenInSnapshot == SubSeq(lines, 1, dashboard.journal)
SeenCaptured == SubSeq(captured, 1, dashboard.captured)

(***************************************************************************)
(* Properties                                                              *)
(***************************************************************************)
\* The observations agree with the statements next to them when pack and
\* snapshot were fetched of the same ledger: an anomaly's amount is the
\* account's in the profit and loss statement, however many vouchers it is of.
AnomalyIsInTheStatement ==
  dashboard.pack = dashboard.journal =>
    \A o \in DetectExpenseAnomaly(SeenInSnapshot) :
      o.amount = -StatementAmount(SeenByPack, Window, o.item)

\* The bounded list never drops an observation graver than one it shows, and
\* the critical runway is always in it.
GravestAreShown ==
  LET found == Detected(SeenByPack, SeenInSnapshot, SeenCaptured)
      shown == BuildObservations(found)
  IN /\ \A o \in found \ shown, p \in shown : p.severity <= o.severity
     /\ ObservationLimit > 0 => \A o \in found : o.severity = Critical => o \in shown
     /\ Cardinality(shown) <= ObservationLimit

\* The account the narrative singles out moved most of all cost accounts,
\* those that only the month before has included: a cost that stopped is as
\* big a change as one that began.
NoCostMovedMore ==
  LET accounts == {lines[i].account : i \in DOMAIN lines}
      costs == {a \in accounts : ClassOf(a) \in MoverClasses}
  IN /\ Cardinality(BiggestMover(lines)) <= 1
     /\ \A a \in costs : Movement(lines, a) # 0 =>
          \E b \in BiggestMover(lines) : Abs(Movement(lines, b)) >= Abs(Movement(lines, a))

\* A voucher that moves no cash, an accrual or a depreciation, leaves the
\* runway as it was: what is said of the bank account is said from it alone.
AccrualsLeaveTheRunway ==
  [][(\A i \in DOMAIN lines' \ DOMAIN lines : ~Cash(lines'[i])) =>
       DetectCashRunway(lines') = DetectCashRunway(lines)]_lines

\* Observations speak of what is in the statement, the gravest of them are shown,
\* and a month of accruals changes no forecast of cash.
ObservationsAreFair ==
  /\ [](lines # <<>> => AnomalyIsInTheStatement /\ GravestAreShown /\ NoCostMovedMore)
  /\ AccrualsLeaveTheRunway
=============================================================================
