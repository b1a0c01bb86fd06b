------------------------------ MODULE ReportPack ------------------------------
(***************************************************************************)
(* The report pack: statements, VAT boxes, cash bridge and monthly series, *)
(* four calculations over the same posted lines that a reader expects to   *)
(* agree (reports/statements.ts, reports/cash.ts, vat/boxes.ts, pack.ts).  *)
(*                                                                         *)
(* Amounts are ore.  A day is 100 * month + day of the month, the months   *)
(* numbered through the years; the window is one month.  What is posted    *)
(* are whole vouchers, in the order of the event log, on any day.          *)
(***************************************************************************)
EXTENDS Integers, Sequences, FiniteSets, SequencesExt

CONSTANTS
  Templates,      \* what one voucher can post: a sequence of lines
  PostingDays,    \* the days the vouchers are booked on
  ReportMonth,    \* the month of the pack
  SeriesLength,   \* 12 in the code
  MaxDrivers,     \* 4 in the code
  MaxVouchers     \* bound

ASSUME ReportConstants ==
  /\ ReportMonth \in Nat /\ SeriesLength \in Nat \ {0} /\ MaxDrivers \in Nat /\ MaxVouchers \in Nat
  /\ \A t \in Templates : \A i \in DOMAIN t :
       t[i].account \in 1000..9999 /\ t[i].debit \in Nat /\ t[i].credit \in Nat

VARIABLE lines

(***************************************************************************)
(* Accounts and sums                                                       *)
(***************************************************************************)
Classes == <<"asset", "equity-liability", "revenue", "materials", "external-cost",
             "external-cost", "personnel", "financial", "none">>

\* classifyAccountNumber: the chart of 2026 agrees with the first digit.
ClassOf(account) == Classes[account \div 1000]

ResultClasses == {"revenue", "materials", "external-cost", "personnel", "financial"}
InputVat == {2640, 2641}
OutputVat == [VAT25 |-> 2610, VAT12 |-> 2620, VAT6 |-> 2630]
Cash(line) == line.account \div 100 = 19

CreditMinusDebit(line) == line.credit - line.debit
DebitMinusCredit(line) == line.debit - line.credit

\* The sum of Amount over the lines that Test accepts.
SumOf(rows, Amount(_), Test(_)) ==
  FoldLeft(LAMBDA sum, row : IF Test(row) THEN sum + Amount(row) ELSE sum, 0, rows)

Abs(n) == IF n < 0 THEN -n ELSE n
RoundedFraction(n, d) == (2 * n + d) \div (2 * d)

\* A window without an end.
FilteredFrom(rows, window) == SelectSeq(rows, LAMBDA line : line.day >= window.from)
\* filterLedgerLines: both ends included.
Filtered(rows, window) ==
  SelectSeq(rows, LAMBDA line : line.day >= window.from /\ line.day <= window.to)

MonthOfLine(line) == line.day \div 100
MonthRange(first, last) == [from |-> 100 * first + 1, to |-> 100 * last + 31]
Window == MonthRange(ReportMonth, ReportMonth)

(***************************************************************************)
(* Statements                                                              *)
(***************************************************************************)
\* buildGroup: credit minus debit of the accounts of a class, the sign of income
\* and of liabilities.
Group(rows, class) == SumOf(rows, CreditMinusDebit, LAMBDA line : ClassOf(line.account) = class)

Result(rows) ==
  LET Of(class) == Group(rows, class)
      operating == Of("revenue") + Of("materials") + Of("external-cost") + Of("personnel")
  IN [revenue |-> Of("revenue"), operating |-> operating,
      period |-> operating + Of("financial")]

ProfitLoss(rows, window) == Result(Filtered(rows, window))

UpTo(rows, day) == SelectSeq(rows, LAMBDA line : line.day <= day)

ResultBooked(rows) ==
  SumOf(rows, CreditMinusDebit, LAMBDA line : ClassOf(line.account) \in ResultClasses)

\* The result since the ledger began, for there are no closing entries.
ComputedResult(rows, day) == ResultBooked(UpTo(rows, day))

BalanceSheet(rows, day) ==
  LET assets == -Group(UpTo(rows, day), "asset")
      others == Group(UpTo(rows, day), "equity-liability")
  IN [assets |-> assets, others |-> others,
      balanced |-> assets = others + ComputedResult(rows, day)]

(***************************************************************************)
(* VAT return boxes                                                        *)
(***************************************************************************)
WholeKronor(ore) == IF ore < 0 THEN -((-ore) \div 100) ELSE ore \div 100

TaxableSale(line) ==
  line.code \in DOMAIN OutputVat /\ ClassOf(line.account) = "revenue" /\ line.account \notin InputVat

Boxes(rows) ==
  LET output == [rate \in DOMAIN OutputVat |->
                   WholeKronor(SumOf(rows, CreditMinusDebit, LAMBDA l : l.account = OutputVat[rate]))]
      input == WholeKronor(SumOf(rows, DebitMinusCredit, LAMBDA l : l.account \in InputVat))
  IN [sales |-> WholeKronor(SumOf(rows, CreditMinusDebit, TaxableSale)),
      vat25 |-> output.VAT25, vat12 |-> output.VAT12, vat6 |-> output.VAT6,
      input |-> input,
      net |-> output.VAT25 + output.VAT12 + output.VAT6 - input]

(***************************************************************************)
(* Cash                                                                    *)
(***************************************************************************)
CashBefore(rows, day) == SumOf(rows, DebitMinusCredit, LAMBDA l : Cash(l) /\ l.day < day)
CashThrough(rows, day) == SumOf(rows, DebitMinusCredit, LAMBDA l : Cash(l) /\ l.day <= day)

Weight(line) == Abs(line.debit - line.credit)

\* What the vouchers of the window attribute to an account, as numerators over
\* one denominator.
Attribution(rows) ==
  LET vouchers == {rows[i].voucher : i \in DOMAIN rows}
      Of(v) == SelectSeq(rows, LAMBDA l : l.voucher = v)
      delta == [v \in vouchers |-> SumOf(Of(v), DebitMinusCredit, Cash)]
      total == [v \in vouchers |-> SumOf(Of(v), Weight, LAMBDA l : ~Cash(l))]
      moving == {v \in vouchers : delta[v] # 0 /\ total[v] > 0}
      denominator == FoldSet(LAMBDA n, product : n * product, 1, {total[v] : v \in moving})
      counterparts == {rows[i].account : i \in {j \in DOMAIN rows :
                         rows[j].voucher \in moving /\ ~Cash(rows[j]) /\ Weight(rows[j]) # 0}}
      Share(account, v) ==
        delta[v] * (denominator \div total[v])
          * SumOf(Of(v), Weight, LAMBDA l : l.account = account /\ ~Cash(l))
  IN [account \in counterparts |->
        RoundedFraction(MapThenSumSet(LAMBDA v : Share(account, v), moving), denominator)]

\* The accounts that moved cash most, the first MaxDrivers of them.
TopDrivers(amounts) ==
  LET Ahead(a, b) == \/ Abs(amounts[a]) > Abs(amounts[b])
                     \/ Abs(amounts[a]) = Abs(amounts[b]) /\ a < b
  IN {a \in DOMAIN amounts : /\ amounts[a] # 0
                             /\ Cardinality({b \in DOMAIN amounts : Ahead(b, a)}) < MaxDrivers}

BridgeTable(opening, closing, amounts, drivers) ==
  [opening |-> opening, closing |-> closing, amounts |-> amounts, drivers |-> drivers,
   rest |-> {a \in DOMAIN amounts \ drivers : amounts[a] # 0},
   other |-> closing - opening - MapThenSumSet(LAMBDA a : amounts[a], drivers)]

BridgeOver(opening, closing, amounts) == BridgeTable(opening, closing, amounts, TopDrivers(amounts))

CashBridge(rows, window) ==
  BridgeOver(CashBefore(rows, window.from), CashThrough(rows, window.to),
           Attribution(Filtered(rows, window)))

CashCarried(rows, first) == SumOf(rows, DebitMinusCredit, LAMBDA l : Cash(l) /\ MonthOfLine(l) < first)

MonthlySeries(rows, last) ==
  LET first == last - SeriesLength + 1
      Of(month) == SelectSeq(rows, LAMBDA l : MonthOfLine(l) = month)
      Moved(month) == SumOf(Of(month), DebitMinusCredit, Cash)
  IN [month \in first..last |->
        [closing |-> CashCarried(rows, first) + MapThenSumSet(Moved, first..month),
         revenue |-> Group(Of(month), "revenue"),
         result |-> ResultBooked(Of(month))]]

\* buildReportPack
Pack(rows) ==
  [profitLoss |-> ProfitLoss(rows, Window),
   previous |-> ProfitLoss(rows, MonthRange(ReportMonth - 1, ReportMonth - 1)),
   sheet |-> BalanceSheet(rows, Window.to),
   vat |-> Boxes(Filtered(rows, Window)),
   bridge |-> CashBridge(rows, Window),
   monthly |-> MonthlySeries(rows, ReportMonth)]

(***************************************************************************)
(* The ledger grows                                                        *)
(***************************************************************************)
ReportInit == lines = <<>>

Vouchers == {lines[i].voucher : i \in DOMAIN lines}

PostVoucher(template, day) ==
  /\ Cardinality(Vouchers) < MaxVouchers
  /\ lines' = lines \o [i \in DOMAIN template |->
       [voucher |-> Cardinality(Vouchers) + 1, account |-> template[i].account,
        debit |-> template[i].debit, credit |-> template[i].credit,
        code |-> template[i].code, day |-> day]]

ReportNext == \E template \in Templates, day \in PostingDays : PostVoucher(template, day)

ReportSpec == ReportInit /\ [][ReportNext]_lines

(***************************************************************************)
(* Properties                                                              *)
(***************************************************************************)
\* The pack does not contradict itself: the last month of the series shows the
\* result and the revenue of the statement and the closing cash of the bridge,
\* the one before the result of the comparison, whatever lies before the series.
PackAgrees ==
  LET pack == Pack(lines)
      last == pack.monthly[ReportMonth]
  IN /\ last.result = pack.profitLoss.period
     /\ last.revenue = pack.profitLoss.revenue
     /\ last.closing = pack.bridge.closing
     /\ SeriesLength > 1 => pack.monthly[ReportMonth - 1].result = pack.previous.period

\* The balance sheet balances on every day, as long as no account outside the
\* statements (9xxx) is posted against one inside.
SheetBalances ==
  LET Internal == {i \in DOMAIN lines : ClassOf(lines[i].account) = "none"}
  IN Internal = {} => \A day \in PostingDays : BalanceSheet(lines, day).balanced

\* "Other" in the cash bridge holds the accounts it names and rounding, at most
\* half an ore an account: no movement of cash goes unexplained.
BridgeExplainsCash ==
  LET bridge == CashBridge(lines, Window)
      named == MapThenSumSet(LAMBDA a : bridge.amounts[a], bridge.rest)
  IN 2 * Abs(bridge.other - named) <= Cardinality(DOMAIN bridge.amounts)

\* The VAT of a quarter and of its three months differ by what truncation to
\* whole kronor drops, less than one krona a return: no line is declared twice
\* or not at all.
MonthsMakeTheQuarter ==
  LET months == {ReportMonth - 2, ReportMonth - 1, ReportMonth}
      quarter == Boxes(Filtered(lines, MonthRange(ReportMonth - 2, ReportMonth)))
      month == [m \in months |-> Boxes(Filtered(lines, MonthRange(m, m)))]
  IN \A box \in {"sales", "vat25", "input"} :
       Abs(quarter[box] - MapThenSumSet(LAMBDA m : month[m][box], months)) <= 3

\* Sales are declared only where output VAT of the same rate is due on them:
\* exempt revenue and costs with a rated code stay out of box 05.
SalesCarryVat ==
  (\A i \in DOMAIN lines : lines[i].code \in {"VAT25", "NA"}) =>
    LET vat == SumOf(Filtered(lines, Window), CreditMinusDebit, LAMBDA l : l.account = 2610)
        boxes == Boxes(Filtered(lines, Window))
    IN Abs(100 * boxes.sales - 4 * vat) < 100

\* A voucher booked outside the window never changes its result, its VAT or
\* what moved its cash; booked after it, it changes nothing of the pack.
OtherPeriodsStayOut ==
  [][\A new \in {lines'[i].day : i \in DOMAIN lines' \ DOMAIN lines} :
       LET old == Pack(lines)
           now == Pack(lines')
       IN /\ new < Window.from \/ new > Window.to =>
               /\ now.profitLoss = old.profitLoss /\ now.vat = old.vat
               /\ now.bridge.amounts = old.bridge.amounts /\ now.bridge.other = old.bridge.other
          /\ new > Window.to => now = old]_lines

\* Statements, cash, series and VAT boxes of a period agree with each other, and
\* a posting of another day leaves them alone.
ReportsAgree ==
  /\ [](lines # <<>> => PackAgrees /\ SheetBalances /\ BridgeExplainsCash /\ MonthsMakeTheQuarter /\ SalesCarryVat)
  /\ OtherPeriodsStayOut
=============================================================================
