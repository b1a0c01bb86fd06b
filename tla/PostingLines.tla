----------------------------- MODULE PostingLines -----------------------------
(***************************************************************************)
(* How one voucher becomes journal lines (store-shared.ts): the amounts    *)
(* derived from an extraction, the validation of a reviewer's edit, the    *)
(* accounting date and the balance assertion.                              *)
(*                                                                         *)
(* Amounts are thousandths of a krona.  The instances use whole ore and    *)
(* eighths of a krona, on which the doubles of the code and Math.round are *)
(* exact.  A day is a number; a string that names no day is NotADay.       *)
(***************************************************************************)
EXTENDS Integers, Sequences

CONSTANTS
  Extractions,  \* what an extraction reads: gross, net, vat, rate, dates
  Edits,        \* edits a client sends: amounts, day, account, code
  NoEdit,
  Absent,       \* an amount or a day that is not there
  NotADay,      \* 2026-02-31, for example
  LastDecisionDay

Amounts == Int \cup {Absent}
Dates == Int \cup {Absent, NotADay}

\* A net amount is gross / (1 + rate / 100), of a rate that leaves a divisor.
ASSUME PostingConstants ==
  /\ NoEdit \notin Edits
  /\ Absent \notin Int /\ NotADay \notin Int /\ LastDecisionDay \in Nat
  /\ Extractions \subseteq
       [gross : Amounts, net : Amounts, vat : Amounts, rate : {rate \in Int : rate > -100},
        transaction : Dates, receipt : Dates]
  /\ Edits \subseteq
       [gross : Amounts, net : Amounts, vat : Amounts, day : Dates,
        account : BOOLEAN, code : BOOLEAN]

VARIABLES
  fields,    \* voucherFields of the voucher
  decision,  \* what became of the last decision
  preview,   \* the last simulation of an approval
  day        \* the local calendar day
postingVars == <<fields, decision, preview, day>>

(***************************************************************************)
(* Amounts                                                                 *)
(***************************************************************************)
\* Math.round: to the nearest, halves up.
RoundedQuotient(n, d) == (2 * n + d) \div (2 * d)
ToOre(amount) == RoundedQuotient(amount, 10)
Round2(amount) == 10 * ToOre(amount)
OreExact(amount) == amount % 10 = 0
Or(amount, other) == IF amount = Absent THEN other ELSE amount

\* deriveVoucherFields: net and VAT are taken as they are when they are there.
Derived(e) ==
  LET net == IF e.net # Absent \/ e.gross = Absent THEN e.net
             ELSE 10 * RoundedQuotient(10 * e.gross, 100 + e.rate)
      vat == IF e.vat # Absent \/ e.gross = Absent \/ net = Absent THEN e.vat
             ELSE Round2(e.gross - net)
  IN [gross |-> e.gross, net |-> net, vat |-> vat,
      transaction |-> e.transaction, receipt |-> e.receipt]

(***************************************************************************)
(* Decision-time edits                                                     *)
(***************************************************************************)
Given(edit) == {a \in {edit.gross, edit.net, edit.vat} : a # Absent}

Distance(a, b) == IF a < b THEN b - a ELSE a - b

\* resolveReviewDecisionEdit refuses an edit before anything is written.
ValidEdit(edit) ==
  /\ edit.account /\ edit.code          \* in the chart, in the VAT vocabulary
  /\ Given(edit) # {} =>
       /\ Absent \notin {edit.gross, edit.net, edit.vat}
       /\ \A amount \in Given(edit) : OreExact(amount)
       /\ Distance(edit.net + edit.vat, edit.gross) <= 10
  /\ edit.day # Absent => edit.day # NotADay /\ edit.day <= day + 1

EffectiveFields(f, edit) ==
  IF edit = NoEdit THEN f
  ELSE [f EXCEPT !.gross = Or(edit.gross, @), !.net = Or(edit.net, @), !.vat = Or(edit.vat, @),
                 !.transaction = IF edit.day = Absent THEN @ ELSE edit.day]

(***************************************************************************)
(* Lines                                                                   *)
(***************************************************************************)
\* deriveBookedAt: the first usable date that is not after the decision.
DeriveBookedAt(f) ==
  LET Usable(date) == date \notin {Absent, NotADay} /\ date <= day
  IN CASE Usable(f.transaction) -> f.transaction
       [] ~Usable(f.transaction) /\ Usable(f.receipt) -> f.receipt
       [] OTHER -> day

VatClaimed(f, action) == IF action = "book-without-vat" THEN 0 ELSE Or(f.vat, 0)

\* The net amount that was extracted.
NetAsExtracted(gross, vat, f) == Or(f.net, Round2(gross - vat))
NetOf(gross, vat, f) == Round2(gross - vat)

BuildPostingLines(f, action) ==
  LET vat == VatClaimed(f, action)
      gross == Or(f.gross, Round2(Or(f.net, 0) + vat))
      Line(account, debit, credit) ==
        [account |-> account, debit |-> debit, credit |-> credit, day |-> DeriveBookedAt(f)]
  IN << Line("cost", NetOf(gross, vat, f), 0), Line("input-vat", vat, 0), Line("bank", 0, gross) >>

\* postingImbalanceOre, of the three lines.
Balance(line) == ToOre(line.debit) - ToOre(line.credit)
ImbalanceOre(lines) == Balance(lines[1]) + Balance(lines[2]) + Balance(lines[3])

(***************************************************************************)
(* Operations                                                              *)
(***************************************************************************)
Undecided == [status |-> "open", action |-> "none", edit |-> NoEdit, from |-> Absent, lines |-> <<>>]

PostingInit ==
  /\ \E e \in Extractions : fields = Derived(e)
  /\ decision = Undecided
  /\ preview = Undecided
  /\ day = 1

Open == decision.status # "posted"

\* updateEvidenceExtraction, of an open voucher.
RefreshFields(e) ==
  /\ Open
  /\ fields' = Derived(e)
  /\ UNCHANGED <<decision, preview, day>>

\* applyReviewDecision: a refused edit and lines that do not balance change
\* nothing, and the reviewer may try again.
Decide(action, edit) ==
  LET effective == EffectiveFields(fields, edit)
      lines == BuildPostingLines(effective, action)
      status == CASE edit # NoEdit /\ ~ValidEdit(edit) -> "invalid-edit"
                  [] edit = NoEdit \/ ValidEdit(edit) ->
                       IF ImbalanceOre(lines) # 0 THEN "unbalanced" ELSE "posted"
  IN /\ Open
     /\ decision' = [status |-> status, action |-> action, edit |-> edit, from |-> fields,
                     lines |-> IF status = "posted" THEN lines ELSE <<>>]
     /\ UNCHANGED <<fields, preview, day>>

\* simulateApprovals: the lines of an approval without an edit, per account.
Simulate(action) ==
  LET lines == BuildPostingLines(fields, action)
  IN /\ Open
     /\ preview' = [status |-> IF ImbalanceOre(lines) # 0 THEN "unbalanced" ELSE "posted",
                    action |-> action, edit |-> NoEdit, from |-> fields,
                    lines |-> IF ImbalanceOre(lines) # 0 THEN <<>> ELSE lines]
     /\ UNCHANGED <<fields, decision, day>>

DayPasses ==
  /\ Open /\ day < LastDecisionDay
  /\ day' = day + 1
  /\ UNCHANGED <<fields, decision, preview>>

PostingNext ==
  \/ \E e \in Extractions : RefreshFields(e)
  \/ \E action \in {"approve", "book-without-vat"} :
       Simulate(action) \/ \E edit \in Edits \cup {NoEdit} : Decide(action, edit)
  \/ DayPasses

PostingSpec == PostingInit /\ [][PostingNext]_postingVars

(***************************************************************************)
(* Properties                                                              *)
(***************************************************************************)
Posted == decision.status = "posted"
Cost == decision.lines[1].debit
Claimed == decision.lines[2].debit
Paid == decision.lines[3].credit

\* Amounts of at most two decimals always balance, however inconsistent the
\* extracted triple or the edit within its tolerance: nobody meets the balance
\* assertion (store-shared.ts:272-274).
OreExactAmountsBalance ==
  decision.status = "unbalanced" =>
    \E amount \in {decision.from.gross, decision.from.net, decision.from.vat} \ {Absent} :
      ~OreExact(amount)

\* What a valid amount edit says is what is paid and claimed, and the cost is
\* the edited net amount to the ore.
EditedAmountsArePosted ==
  Posted /\ decision.edit # NoEdit /\ decision.edit.gross # Absent =>
    LET edit == decision.edit
        claimed == IF decision.action = "approve" THEN edit.vat ELSE 0
    IN /\ Paid = edit.gross /\ Claimed = claimed
       /\ decision.action = "approve" => Distance(Cost, edit.net) <= 10

\* Input VAT that may not be deducted is part of the cost: nothing is claimed
\* and the whole gross amount is a cost.
WithoutVatIsAllCost ==
  Posted /\ decision.action = "book-without-vat" =>
    Claimed = 0 /\ Distance(Cost, Paid) < 10

\* Nothing is booked on a day after the decision, whatever date was extracted
\* or edited.
NothingBookedAhead ==
  Posted => \A i \in DOMAIN decision.lines : decision.lines[i].day \in Int /\ decision.lines[i].day <= day

\* A valid edited day is the day that is booked; only tomorrow, which the
\* validation lets through for the reviewer's time zone, is dropped again
\* (store-shared.ts:249).
EditedDayIsBooked ==
  Posted /\ decision.edit # NoEdit /\ decision.edit.day # Absent /\ decision.edit.day <= day =>
    \A i \in DOMAIN decision.lines : decision.lines[i].day = decision.edit.day

\* A decision without an edit posts what a simulation of the same fields
\* foresaw, but for the day.
PreviewIsPosted ==
  /\ Posted /\ decision.edit = NoEdit
  /\ preview.action = decision.action /\ preview.from = decision.from
  => \A i \in DOMAIN preview.lines :
       [preview.lines[i] EXCEPT !.day = 0] = [decision.lines[i] EXCEPT !.day = 0]

\* The lines of a decision balance, carry the amounts and the day that were
\* decided, and are the ones its preview showed.
PostedAsDecided ==
  /\ OreExactAmountsBalance
  /\ EditedAmountsArePosted
  /\ WithoutVatIsAllCost
  /\ NothingBookedAhead
  /\ EditedDayIsBooked
  /\ PreviewIsPosted
=============================================================================
